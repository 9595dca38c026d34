--------------------------- MODULE AtomicFileProofs ---------------------------
(* Theorems about atomicfile.Write, for any writers, contents and modes.     *)
EXTENDS AtomicFile, TLAPS

(***************************************************************************)
(* The invariant.  What the path and the disk name is whole and synced; a  *)
(* temporary holds what its writer was asked to write once that is         *)
(* written, has reached the disk once it is synced, and has the bits that  *)
(* Stat found once these are set; and Stat found bits the path had.        *)
(***************************************************************************)
FileInv ==
  \A f \in {file, disk} : f # None => f.content \in Contents /\ f.synced

TempInv ==
  \A w \in Writers :
    /\ pc[w] \in {"chmod", "sync", "close", "rename"} => temp[w].content = asked[w]
    /\ pc[w] \in {"close", "rename"} => temp[w].synced
    /\ pc[w] \in {"sync", "close", "rename"} => temp[w].mode = mode[w]
    /\ pc[w] \in {"create", "write", "chmod", "sync", "close", "rename"} => mode[w] \in had[w]

IInv == TypeOK /\ FileInv /\ TempInv

LEMMA InitIInv == Init => IInv
<1> SUFFICES ASSUME Init PROVE IInv
  OBVIOUS
<1>1. file \in Inode \cup {None} /\ disk = file
  BY DEF Init, Inode, Inode0
<1>2. TypeOK
  BY <1>1, AtomicFileAssumption DEF Init, TypeOK, Labels
<1>3. FileInv
  BY DEF Init, FileInv, Inode0
<1>4. TempInv
  BY DEF Init, TempInv
<1> QED BY <1>2, <1>3, <1>4 DEF IInv

LEMMA StepIInv ==
  ASSUME IInv, Remember, NEW w \in Writers, Step(w)
  PROVE  IInv'
<1> USE DEF IInv
<1>h. ASSUME NEW v \in Writers, pc'[v] # "idle"
      PROVE  had[v] \subseteq had'[v] /\ ModeOf(file') \in had'[v]
  BY <1>h DEF Remember
<1>1. CASE Call(w)
  <2>1. TypeOK'
    BY <1>1 DEF Call, Goto, TypeOK, Labels
  <2>2. FileInv'
    BY <1>1 DEF Call, FileInv
  <2>3. TempInv'
    BY <1>1, <1>h DEF Call, Goto, TypeOK, TempInv
  <2> QED BY <2>1, <2>2, <2>3
<1>2. CASE Stat(w)
  <2>0. ModeOf(file) \in Modes
    BY AtomicFileAssumption DEF ModeOf, TypeOK, Inode
  <2>1. TypeOK'
    BY <1>2, <2>0 DEF Stat, Goto, TypeOK, Labels
  <2>2. FileInv'
    BY <1>2 DEF Stat, FileInv
  <2>3. TempInv'
    BY <1>2, <1>h DEF Stat, Goto, TypeOK, TempInv
  <2> QED BY <2>1, <2>2, <2>3
<1>3. CASE CreateTemp(w)
  <2>0. [content |-> Part, mode |-> Private, synced |-> FALSE] \in Inode
    BY AtomicFileAssumption DEF Inode
  <2>1. TypeOK'
    BY <1>3, <2>0, AtomicFileAssumption DEF CreateTemp, Goto, TypeOK, Labels
  <2>2. FileInv'
    BY <1>3 DEF CreateTemp, FileInv
  <2>3. TempInv'
    BY <1>3, <1>h DEF CreateTemp, Goto, TypeOK, TempInv
  <2> QED BY <2>1, <2>2, <2>3
<1>4. CASE WriteTemp(w)
  <2>a. temp[w] \in Inode /\ asked[w] \in Contents
    BY <1>4 DEF WriteTemp, TypeOK
  <2> DEFINE t == [temp[w] EXCEPT !.content = asked[w]]
  <2>b. t \in Inode /\ t.content = asked[w] /\ temp' = [temp EXCEPT ![w] = t]
    BY <1>4, <2>a DEF WriteTemp, Inode
  <2> HIDE DEF t
  <2>1. TypeOK'
    BY <1>4, <2>b, AtomicFileAssumption DEF WriteTemp, Goto, TypeOK, Labels
  <2>2. FileInv'
    BY <1>4 DEF WriteTemp, FileInv
  <2>3. TempInv'
    BY <1>4, <1>h, <2>b DEF WriteTemp, Goto, TypeOK, TempInv
  <2> QED BY <2>1, <2>2, <2>3
<1>5. CASE Chmod(w)
  <2>a. temp[w] \in Inode /\ mode[w] \in Modes
    BY <1>5 DEF Chmod, TypeOK
  <2> DEFINE t == [temp[w] EXCEPT !.mode = mode[w]]
  <2>b. /\ t \in Inode /\ t.mode = mode[w] /\ t.content = temp[w].content
        /\ temp' = [temp EXCEPT ![w] = t]
    BY <1>5, <2>a DEF Chmod, Inode
  <2> HIDE DEF t
  <2>1. TypeOK'
    BY <1>5, <2>b, AtomicFileAssumption DEF Chmod, Goto, TypeOK, Labels
  <2>2. FileInv'
    BY <1>5 DEF Chmod, FileInv
  <2>3. TempInv'
    BY <1>5, <1>h, <2>b DEF Chmod, Goto, TypeOK, TempInv
  <2> QED BY <2>1, <2>2, <2>3
<1>6. CASE Sync(w)
  <2>a. temp[w] \in Inode
    BY <1>6 DEF Sync, TypeOK
  <2> DEFINE t == [temp[w] EXCEPT !.synced = TRUE]
  <2>b. /\ t \in Inode /\ t.synced /\ t.content = temp[w].content /\ t.mode = temp[w].mode
        /\ temp' = [temp EXCEPT ![w] = t]
    BY <1>6, <2>a DEF Sync, Inode
  <2> HIDE DEF t
  <2>1. TypeOK'
    BY <1>6, <2>b, AtomicFileAssumption DEF Sync, Goto, TypeOK, Labels
  <2>2. FileInv'
    BY <1>6 DEF Sync, FileInv
  <2>3. TempInv'
    BY <1>6, <1>h, <2>b DEF Sync, Goto, TypeOK, TempInv
  <2> QED BY <2>1, <2>2, <2>3
<1>7. CASE Close(w)
  <2>1. TypeOK'
    BY <1>7 DEF Close, Goto, TypeOK, Labels
  <2>2. FileInv'
    BY <1>7 DEF Close, FileInv
  <2>3. TempInv'
    BY <1>7, <1>h DEF Close, Goto, TypeOK, TempInv
  <2> QED BY <2>1, <2>2, <2>3
<1>8. CASE Rename(w)
  <2>a. temp[w] \in Inode /\ temp[w].content = asked[w] /\ temp[w].synced /\ asked[w] \in Contents
    BY <1>8 DEF Rename, TypeOK, TempInv
  <2>1. TypeOK'
    BY <1>8, <2>a DEF Rename, Goto, TypeOK, Labels
  <2>2. FileInv'
    BY <1>8, <2>a DEF Rename, FileInv
  <2>3. TempInv'
    BY <1>8, <1>h DEF Rename, Goto, TypeOK, TempInv
  <2> QED BY <2>1, <2>2, <2>3
<1>9. CASE SystemCallFails(w)
  <2>1. TypeOK'
    BY <1>9 DEF SystemCallFails, Goto, TypeOK, Labels
  <2>2. FileInv'
    BY <1>9 DEF SystemCallFails, FileInv
  <2>3. TempInv'
    BY <1>9, <1>h DEF SystemCallFails, Goto, TypeOK, TempInv
  <2> QED BY <2>1, <2>2, <2>3
<1>10. CASE Return(w)
  <2>1. TypeOK'
    BY <1>10 DEF Return, Goto, TypeOK, Labels
  <2>2. FileInv'
    BY <1>10 DEF Return, FileInv
  <2>3. TempInv'
    BY <1>10, <1>h DEF Return, Goto, TypeOK, TempInv
  <2> QED BY <2>1, <2>2, <2>3
<1>11. CASE Kill(w)
  <2>1. TypeOK'
    BY <1>11 DEF Kill, Goto, TypeOK, Labels
  <2>2. FileInv'
    BY <1>11 DEF Kill, FileInv
  <2>3. TempInv'
    BY <1>11, <1>h DEF Kill, Goto, TypeOK, TempInv
  <2> QED BY <2>1, <2>2, <2>3
<1> QED
  BY <1>1, <1>2, <1>3, <1>4, <1>5, <1>6, <1>7, <1>8, <1>9, <1>10, <1>11 DEF Step

LEMMA MachineIInv ==
  ASSUME IInv, Remember, Machine
  PROVE  IInv'
<1> USE DEF IInv
<1>h. ASSUME NEW v \in Writers, pc'[v] # "idle"
      PROVE  had[v] \subseteq had'[v]
  BY <1>h DEF Remember
<1>1. CASE UserChmod
  <2>1. PICK m \in Modes : file' = [file EXCEPT !.mode = m]
    BY <1>1 DEF UserChmod
  <2>2. file \in Inode
    BY <1>1 DEF UserChmod, TypeOK
  <2>3. file' \in Inode /\ file'.content = file.content /\ file'.synced = file.synced
    BY <2>1, <2>2 DEF Inode
  <2>4. TypeOK'
    BY <1>1, <2>3 DEF UserChmod, TypeOK
  <2>5. FileInv'
    BY <1>1, <2>3 DEF UserChmod, FileInv
  <2>6. TempInv'
    BY <1>1, <1>h DEF UserChmod, TempInv
  <2> QED BY <2>4, <2>5, <2>6
<1>2. CASE Flush
  <2>1. TypeOK'
    BY <1>2 DEF Flush, TypeOK
  <2>2. FileInv'
    BY <1>2 DEF Flush, FileInv
  <2>3. TempInv'
    BY <1>2, <1>h DEF Flush, TempInv
  <2> QED BY <2>1, <2>2, <2>3
<1>3. CASE PowerLoss
  <2>1. file' = disk
    BY <1>3 DEF PowerLoss, Survivors, FileInv
  <2>2. TypeOK'
    BY <1>3, <2>1 DEF PowerLoss, TypeOK, Labels
  <2>3. FileInv'
    BY <1>3, <2>1 DEF PowerLoss, FileInv
  <2>4. TempInv'
    BY <1>3 DEF PowerLoss, TempInv
  <2> QED BY <2>2, <2>3, <2>4
<1> QED
  BY <1>1, <1>2, <1>3 DEF Machine

THEOREM Invariance == Spec => []IInv
<1>1. IInv /\ [Next]_vars => IInv'
  <2> SUFFICES ASSUME IInv, [Next]_vars PROVE IInv'
    OBVIOUS
  <2>1. CASE Next
    BY <2>1, StepIInv, MachineIInv DEF Next
  <2>2. CASE UNCHANGED vars
    BY <2>2 DEF vars, IInv, TypeOK, FileInv, TempInv
  <2> QED BY <2>1, <2>2
<1> QED BY <1>1, InitIInv, PTL DEF Spec

(***************************************************************************)
(* Every variable of Write keeps its type, and a call that returned left   *)
(* no temporary (internal/atomicfile).                                     *)
(***************************************************************************)
THEOREM TypeCorrect == Spec => []TypeOK
<1>1. IInv => TypeOK
  BY DEF IInv
<1> QED BY <1>1, Invariance, PTL

(***************************************************************************)
(* A rename gives the file permission bits it had while that Write ran.    *)
(***************************************************************************)
THEOREM ModeKeptAlways == Spec => ModeKept
<1>1. IInv /\ [Next]_vars =>
        [\A w \in Writers : (pc[w] = "rename" /\ pc'[w] = "renamed") => file'.mode \in had[w]]_vars
  <2> SUFFICES ASSUME IInv, Next, NEW w \in Writers, pc[w] = "rename", pc'[w] = "renamed"
               PROVE  file'.mode \in had[w]
    OBVIOUS
  <2>1. pc \in [Writers -> Labels]
    BY DEF IInv, TypeOK
  <2>2. ~Machine
    BY DEF Machine, UserChmod, Flush, PowerLoss
  <2>3. ASSUME NEW v \in Writers, Step(v) PROVE Rename(w)
    <3>1. pc'[w] # pc[w]
      OBVIOUS
    <3>2. ASSUME NEW l \in Labels, Goto(v, l) PROVE v = w /\ l = "renamed"
      BY <3>1, <3>2, <2>1 DEF Goto
    <3> QED
      BY <2>3, <3>2 DEF Step, Call, Stat, CreateTemp, WriteTemp, Chmod, Sync, Close,
         Rename, SystemCallFails, Return, Kill, Labels
  <2>4. Rename(w)
    BY <2>2, <2>3 DEF Next
  <2>5. file' = temp[w] /\ temp[w].mode = mode[w] /\ mode[w] \in had[w]
    BY <2>4 DEF Rename, IInv, TempInv
  <2> QED BY <2>5
<1> QED BY <1>1, Invariance, PTL DEF Spec, ModeKept

-----------------------------------------------------------------------------
(* The refinement. *)

Calls == [w \in Writers |-> CallAt(pc[w])]

\* A writer that goes to l has come as far as l says, and the others stay.
LEMMA CallGoes ==
  ASSUME TypeOK, NEW w \in Writers, NEW l \in Labels, Goto(w, l)
  PROVE  /\ Calls' = [Calls EXCEPT ![w] = CallAt(l)]
         /\ Calls[w] = CallAt(pc[w])
<1>1. pc \in [Writers -> Labels] /\ pc' = [pc EXCEPT ![w] = l]
  BY DEF TypeOK, Goto
<1>2. \A v \in Writers : pc'[v] = IF v = w THEN l ELSE pc[v]
  BY <1>1
<1> QED BY <1>2 DEF Calls

\* A step that leaves its call where it was.
LEMMA CallStays ==
  ASSUME TypeOK, NEW w \in Writers, NEW l \in Labels, Goto(w, l), CallAt(l) = CallAt(pc[w])
  PROVE  Calls' = Calls
BY CallGoes DEF Calls

LEMMA InitRefines == Init => Promise!Init
<1> SUFFICES ASSUME Init PROVE Promise!Init
  OBVIOUS
<1>1. ContentOf(file) \in Contents \cup {None} /\ disk = file
  BY DEF Init, ContentOf, Inode0
<1>2. [w \in Writers |-> CallAt(pc[w])] = [w \in Writers |-> "idle"]
  BY DEF Init, CallAt
<1> QED BY <1>1, <1>2 DEF Init, Promise!Init

LEMMA StepRefines ==
  ASSUME IInv, NEW w \in Writers, Step(w)
  PROVE  [Promise!Next]_Promise!vars
<1> DEFINE stutter == /\ ContentOf(file)' = ContentOf(file) /\ ContentOf(disk)' = ContentOf(disk)
                      /\ Calls' = Calls /\ UNCHANGED <<asked, told>>
<1>s. stutter => UNCHANGED Promise!vars
  BY DEF Promise!vars, Calls
<1>t. TypeOK
  BY DEF IInv
<1>l. {"idle", "stat", "create", "write", "chmod", "sync", "close", "rename", "failed",
       "renamed"} \subseteq Labels
  BY DEF Labels
<1>1. CASE Call(w)
  <2>1. Calls' = [Calls EXCEPT ![w] = "asked"] /\ Calls[w] = "idle"
    BY <1>1, <1>t, <1>l, CallGoes DEF Call, CallAt
  <2>2. Promise!Ask(w)
    BY <1>1, <2>1 DEF Call, Promise!Ask, Calls
  <2> QED BY <2>2 DEF Promise!Next
<1>2. CASE Stat(w) \/ CreateTemp(w) \/ WriteTemp(w) \/ Chmod(w) \/ Sync(w) \/ Close(w)
              \/ SystemCallFails(w)
  <2>1. Calls' = Calls
    BY <1>2, <1>t, <1>l, CallStays DEF Stat, CreateTemp, WriteTemp, Chmod, Sync, Close,
       SystemCallFails, CallAt, Labels
  <2>2. UNCHANGED <<file, disk, told, asked>>
    BY <1>2 DEF Stat, CreateTemp, WriteTemp, Chmod, Sync, Close, SystemCallFails
  <2> QED BY <1>s, <2>1, <2>2 DEF ContentOf
<1>3. CASE Rename(w)
  <2>1. Calls' = [Calls EXCEPT ![w] = "replaced"] /\ Calls[w] = "asked"
    BY <1>3, <1>t, <1>l, CallGoes DEF Rename, CallAt
  <2>2. ContentOf(file') = asked[w]
    BY <1>3 DEF Rename, ContentOf, IInv, TypeOK, TempInv
  <2>3. Promise!Replace(w)
    BY <1>3, <2>1, <2>2 DEF Rename, Promise!Replace, Calls, ContentOf
  <2> QED BY <2>3 DEF Promise!Next
<1>4. CASE Return(w)
  <2>1. Calls' = [Calls EXCEPT ![w] = "idle"]
    BY <1>4, <1>t, <1>l, CallGoes DEF Return, CallAt
  <2>2. Calls[w] = CallAt(pc[w])
    BY DEF Calls
  <2>3. CASE pc[w] = "renamed"
    <3>1. Promise!Succeed(w)
      BY <1>4, <2>1, <2>2, <2>3 DEF Return, CallAt, Promise!Succeed, Calls, ContentOf
    <3> QED BY <3>1 DEF Promise!Next
  <2>4. CASE pc[w] = "failed"
    <3>1. Promise!Fail(w)
      BY <1>4, <2>1, <2>2, <2>4 DEF Return, CallAt, Promise!Fail, Calls, ContentOf
    <3> QED BY <3>1 DEF Promise!Next
  <2> QED BY <1>4, <2>3, <2>4 DEF Return
<1>5. CASE Kill(w)
  <2>1. Calls' = [Calls EXCEPT ![w] = "idle"]
    BY <1>5, <1>t, <1>l, CallGoes DEF Kill, CallAt
  <2>2. Calls[w] # "idle"
    BY <1>5 DEF Kill, CallAt, Calls
  <2>3. Promise!Die(w)
    BY <1>5, <2>1, <2>2 DEF Kill, Promise!Die, Calls, ContentOf
  <2> QED BY <2>3 DEF Promise!Next
<1> QED
  BY <1>1, <1>2, <1>3, <1>4, <1>5 DEF Step

LEMMA MachineRefines ==
  ASSUME IInv, Machine
  PROVE  [Promise!Next]_Promise!vars
<1>1. CASE UserChmod
  <2>1. PICK m \in Modes : file' = [file EXCEPT !.mode = m]
    BY <1>1 DEF UserChmod
  <2>2. file \in Inode
    BY <1>1 DEF UserChmod, IInv, TypeOK
  <2>3. file' \in Inode /\ file'.content = file.content
    BY <2>1, <2>2 DEF Inode
  <2>4. ContentOf(file') = ContentOf(file)
    BY <2>2, <2>3, AtomicFileAssumption DEF ContentOf
  <2> QED BY <1>1, <2>4 DEF UserChmod, Promise!vars, ContentOf
<1>2. CASE Flush
  <2>1. Promise!Settle
    BY <1>2 DEF Flush, Promise!Settle, ContentOf
  <2> QED BY <2>1 DEF Promise!Next
<1>3. CASE PowerLoss
  <2>1. file' = disk /\ disk' = disk
    BY <1>3 DEF PowerLoss, Survivors, IInv, FileInv
  <2>2. Calls' = [w \in Writers |-> "idle"]
    BY <1>3 DEF PowerLoss, Calls, CallAt
  <2>3. Promise!LosePower
    BY <1>3, <2>1, <2>2 DEF PowerLoss, Promise!LosePower, Calls, ContentOf
  <2> QED BY <2>3 DEF Promise!Next
<1> QED
  BY <1>1, <1>2, <1>3 DEF Machine

(***************************************************************************)
(* Write implements a replacement in one step: no reader and no power loss *)
(* finds a part of a content, an error replaced nothing and a success did. *)
(***************************************************************************)
THEOREM ReplacesAlways == Spec => Replaces
<1>1. IInv /\ [Next]_vars => [Promise!Next]_Promise!vars
  <2> SUFFICES ASSUME IInv, [Next]_vars PROVE [Promise!Next]_Promise!vars
    OBVIOUS
  <2>1. CASE Next
    BY <2>1, StepRefines, MachineRefines DEF Next
  <2>2. CASE UNCHANGED vars
    BY <2>2 DEF vars, Promise!vars, ContentOf
  <2> QED BY <2>1, <2>2
<1> QED BY <1>1, InitRefines, Invariance, PTL DEF Spec, Replaces, Promise!Spec

=============================================================================
