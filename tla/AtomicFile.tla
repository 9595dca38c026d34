----------------------------- MODULE AtomicFile -----------------------------
(***************************************************************************)
(* internal/atomicfile: Write replaces a file through a temporary in the   *)
(* same directory and a rename.  Several processes write the same file     *)
(* (the manifest, BOUNDARY.md) at once, any system call of any of them may *)
(* fail, any of them may be killed, and the machine may lose power.        *)
(*                                                                         *)
(* A file is an inode: what it holds, its permission bits, and whether     *)
(* both have reached the disk.  `file' is the inode the path names now and *)
(* `disk' the one its directory entry on the disk names; the file system   *)
(* writes the directory out when it likes.  A temporary that outlives its  *)
(* writer (a kill, or a Remove that fails, whose error the code drops) is  *)
(* forgotten here: CreateTemp never hands out a name that exists.          *)
(***************************************************************************)

CONSTANTS Writers, Contents, Modes,
          newFileMode,   \* 0644
          Private,       \* 0600, what CreateTemp gives a temporary
          Part,          \* some of a content's bytes, or none of them
          None           \* no file

VARIABLES file, disk, pc, asked, mode, temp, told,
          had    \* history: the modes the path has had since each call began

vars == <<file, disk, pc, asked, mode, temp, told, had>>

Inode == [content : Contents \cup {Part}, mode : Modes, synced : BOOLEAN]

ASSUME AtomicFileAssumption ==
  /\ newFileMode \in Modes /\ Private \in Modes
  /\ Part \notin Contents /\ Part # None
  /\ None \notin Contents /\ None \notin Inode

Inode0 == [content : Contents, mode : Modes, synced : {TRUE}]

Labels == {"idle", "stat", "create", "write", "chmod", "sync", "close",
           "rename", "failed", "renamed"}

\* The permission bits a Write that looked at f now would give its file.
ModeOf(f) == IF f = None THEN newFileMode ELSE f.mode

Init ==
  /\ file \in Inode0 \cup {None}
  /\ disk = file
  /\ pc = [w \in Writers |-> "idle"]
  /\ asked \in [Writers -> Contents]
  /\ mode = [w \in Writers |-> newFileMode]
  /\ temp = [w \in Writers |-> None]
  /\ told = [w \in Writers |-> "nothing"]
  /\ had = [w \in Writers |-> {}]

Goto(w, l) == pc' = [pc EXCEPT ![w] = l]

Call(w) ==
  /\ pc[w] = "idle"
  /\ \E b \in Contents : asked' = [asked EXCEPT ![w] = b]
  /\ told' = [told EXCEPT ![w] = "nothing"]
  /\ Goto(w, "stat")
  /\ UNCHANGED <<file, disk, mode, temp>>

Stat(w) ==
  /\ pc[w] = "stat"
  /\ mode' = [mode EXCEPT ![w] = ModeOf(file)]
  /\ Goto(w, "create")
  /\ UNCHANGED <<file, disk, asked, temp, told>>

CreateTemp(w) ==
  /\ pc[w] = "create"
  /\ temp' = [temp EXCEPT ![w] = [content |-> Part, mode |-> Private, synced |-> FALSE]]
  /\ Goto(w, "write")
  /\ UNCHANGED <<file, disk, asked, mode, told>>

WriteTemp(w) ==
  /\ pc[w] = "write"
  /\ temp' = [temp EXCEPT ![w].content = asked[w]]
  /\ Goto(w, "chmod")
  /\ UNCHANGED <<file, disk, asked, mode, told>>

\* A bug of the code: the temporary keeps the bits CreateTemp gave it.
ChmodForgotten(w) ==
  /\ pc[w] = "chmod"
  /\ Goto(w, "sync")
  /\ UNCHANGED <<file, disk, asked, mode, temp, told>>

Chmod(w) ==
  /\ pc[w] = "chmod"
  /\ temp' = [temp EXCEPT ![w].mode = mode[w]]
  /\ Goto(w, "sync")
  /\ UNCHANGED <<file, disk, asked, mode, told>>

\* A bug of the code: no Sync before the rename.
SyncForgotten(w) ==
  /\ pc[w] = "sync"
  /\ Goto(w, "close")
  /\ UNCHANGED <<file, disk, asked, mode, temp, told>>

Sync(w) ==
  /\ pc[w] = "sync"
  /\ temp' = [temp EXCEPT ![w].synced = TRUE]
  /\ Goto(w, "close")
  /\ UNCHANGED <<file, disk, asked, mode, told>>

Close(w) ==
  /\ pc[w] = "close"
  /\ Goto(w, "rename")
  /\ UNCHANGED <<file, disk, asked, mode, temp, told>>

Rename(w) ==
  /\ pc[w] = "rename"
  /\ file' = temp[w]
  /\ temp' = [temp EXCEPT ![w] = None]
  /\ Goto(w, "renamed")
  /\ UNCHANGED <<disk, asked, mode, told>>

\* Each system call may fail, and Write then returns its error.  A failed
\* write, chmod, sync or close leaves the temporary to the deferred Remove.
SystemCallFails(w) ==
  /\ pc[w] \in Labels \ {"idle", "failed", "renamed"}
  /\ Goto(w, "failed")
  /\ UNCHANGED <<file, disk, asked, mode, temp, told>>

\* A bug of the code: no deferred Remove.
ReturnLeaves(w) ==
  /\ pc[w] \in {"failed", "renamed"}
  /\ told' = [told EXCEPT ![w] = IF pc[w] = "renamed" THEN "ok" ELSE "error"]
  /\ Goto(w, "idle")
  /\ UNCHANGED <<file, disk, asked, mode, temp>>

\* The deferred Remove, which finds nothing after a rename, and the return.
Return(w) ==
  /\ pc[w] \in {"failed", "renamed"}
  /\ temp' = [temp EXCEPT ![w] = None]
  /\ told' = [told EXCEPT ![w] = IF pc[w] = "renamed" THEN "ok" ELSE "error"]
  /\ Goto(w, "idle")
  /\ UNCHANGED <<file, disk, asked, mode>>

Kill(w) ==
  /\ pc[w] # "idle"
  /\ temp' = [temp EXCEPT ![w] = None]
  /\ Goto(w, "idle")
  /\ UNCHANGED <<file, disk, asked, mode, told>>

-----------------------------------------------------------------------------
(* The machine around the writers. *)

\* Somebody changes the permission bits of the file.
UserChmod ==
  /\ file # None
  /\ \E m \in Modes : file' = [file EXCEPT !.mode = m]
  /\ UNCHANGED <<disk, pc, asked, mode, temp, told>>

Flush ==
  /\ disk' = file
  /\ UNCHANGED <<file, pc, asked, mode, temp, told>>

\* What a power loss may leave of an inode the disk's directory names.
Survivors(f) ==
  IF f = None THEN {None}
  ELSE IF f.synced THEN {f}
  ELSE {[content |-> c, mode |-> m, synced |-> TRUE] :
          c \in {f.content, Part}, m \in {f.mode, Private}}

PowerLoss ==
  /\ file' \in Survivors(disk)
  /\ disk' = file'
  /\ pc' = [w \in Writers |-> "idle"]
  /\ temp' = [w \in Writers |-> None]
  /\ UNCHANGED <<asked, mode, told>>

Step(w) ==
  \/ Call(w) \/ Stat(w) \/ CreateTemp(w) \/ WriteTemp(w) \/ Chmod(w) \/ Sync(w)
  \/ Close(w) \/ Rename(w) \/ SystemCallFails(w) \/ Return(w) \/ Kill(w)

Machine == UserChmod \/ Flush \/ PowerLoss

\* The history variable, written by every step.
Remember ==
  had' = [w \in Writers |->
            IF pc'[w] = "idle" THEN {}
            ELSE had[w] \cup {ModeOf(file')}]

Next == (Machine \/ \E w \in Writers : Step(w)) /\ Remember

Spec == Init /\ [][Next]_vars

-----------------------------------------------------------------------------
(* Properties *)

\* The values of the variables, and of what a writer that is idle holds: no
\* temporary, so a call that returned, failed ones included, left none.
TypeOK ==
  /\ file \in Inode \cup {None} /\ disk \in Inode \cup {None}
  /\ pc \in [Writers -> Labels]
  /\ asked \in [Writers -> Contents]
  /\ mode \in [Writers -> Modes]
  /\ temp \in [Writers -> Inode \cup {None}]
  /\ told \in [Writers -> {"nothing", "ok", "error"}]
  /\ \A w \in Writers : pc[w] \in {"idle", "stat", "create", "renamed"} => temp[w] = None
  /\ \A w \in Writers : pc[w] \in {"write", "chmod", "sync", "close", "rename"} => temp[w] # None

\* "An existing file keeps its permission bits": a rename gives the file bits
\* the path had at some moment while that Write ran (0644 where there was no
\* file), never the 0600 of its temporary, whatever the other writers and a
\* chmod do meanwhile.
ModeKept ==
  [][\A w \in Writers : (pc[w] = "rename" /\ pc'[w] = "renamed") => file'.mode \in had[w]]_vars

\* What a reader of f finds, and how far a call at label l has come.
ContentOf(f) == IF f = None THEN None ELSE f.content

CallAt(l) == CASE l = "idle" -> "idle" [] l = "renamed" -> "replaced" [] OTHER -> "asked"

\* The promise: the file is replaced in one step or not at all.
Promise == INSTANCE ReplacedFile WITH
  content <- ContentOf(file),
  durable <- ContentOf(disk),
  call    <- [w \in Writers |-> CallAt(pc[w])]

\* Write implements it: no reader, and no power loss, finds a part of a
\* content, an error leaves the file as it was and a success has replaced it.
Replaces == Promise!Spec
=============================================================================
