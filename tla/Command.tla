-------------------------------- MODULE Command --------------------------------
(***************************************************************************)
(* One run of a subject (pkg/replay Command.Run): a program is started     *)
(* with a deadline in a process group of its own, its output is copied off *)
(* a pipe into a buffer that keeps the first MaxOutput bytes, and Run      *)
(* returns the buffer or an error.  The program may start others, which    *)
(* inherit the pipe and the group, and may leave either.                   *)
(*                                                                         *)
(* os/exec is external and modelled from its use here: Wait reaps the      *)
(* program, asks the goroutine that watches the context, and then waits    *)
(* for the copying goroutine, WaitDelay long at most.  The pipes of stdin  *)
(* and stderr are waited for in the same way; stdout stands for the three. *)
(* Nothing waits on the clock: a deadline or a delay may pass at any time. *)
(***************************************************************************)
EXTENDS Naturals, FiniteSets

CONSTANTS
    Leader,        \* The program that is run.
    Helpers,       \* What it, or one of them, may start.
    MaxOutput,     \* The limit, in bytes.
    PipeSize,      \* Bound: the bytes a pipe holds.
    MaxWritten     \* Bound: the bytes the subject writes.

ASSUME LeaderAssumption == Leader \notin Helpers

ASSUME SizesAssumption ==
    MaxOutput \in Nat /\ PipeSize \in Nat \ {0} /\ MaxWritten \in Nat

Members == {Leader} \cup Helpers

VARIABLES
    grouped,          \* Built for unix: the group is killed, not the leader alone.
    ctx,              \* "live" or "done": the timeout, or the caller's cancel.
    proc,             \* "unborn", "running", "exited"
    status,           \* How the leader exited: "none", "ok", "bad".
    group, stdout,    \* Who is in its group, and who holds the pipe.
    killed,           \* Who was killed.
    pipe, written,    \* The bytes in the pipe, and all that were written.
    kept, over,       \* capped: the bytes kept, and whether more arrived.
    copier,           \* The copying goroutine: "copying", "eof", "cut".
    watch, watchErr,  \* The watching one: "watching", "delaying", "ended".
    caller, err,      \* Where Run is, and the error of cmd.Run so far.
    result            \* "none", "output", "error"

subject == <<proc, status, group, stdout, killed>>
bytes == <<pipe, written, kept, over>>
run == <<copier, watch, watchErr, caller, err, result>>
vars == <<grouped, ctx, subject, bytes, run>>

Init ==
    /\ grouped \in BOOLEAN
    /\ ctx = "live"
    /\ proc = [p \in Members |-> "unborn"] /\ status = "none"
    /\ group = {} /\ stdout = {} /\ killed = {}
    /\ pipe = 0 /\ written = 0
    /\ kept = 0 /\ over = FALSE
    /\ copier = "copying" /\ watch = "watching" /\ watchErr = "none"
    /\ caller = "start" /\ err = "none" /\ result = "none"

\* The first of two errors stands.
First(e, f) == IF e # "none" THEN e ELSE f

----------------------------------------------------------------------------
(* The subject, which does what it likes. *)

Running == {p \in Members : proc[p] = "running"}

Write(p) ==
    /\ p \in Running \cap stdout
    /\ copier = "copying"
    /\ pipe < PipeSize /\ written < MaxWritten
    /\ pipe' = pipe + 1 /\ written' = written + 1
    /\ UNCHANGED <<grouped, ctx, subject, kept, over, run>>

Fork(p, q) ==
    /\ p \in Running /\ proc[q] = "unborn"
    /\ proc' = [proc EXCEPT ![q] = "running"]
    /\ group' = IF p \in group THEN group \cup {q} ELSE group
    /\ stdout' = IF p \in stdout THEN stdout \cup {q} ELSE stdout
    /\ UNCHANGED <<grouped, ctx, status, killed, bytes, run>>

LeaveGroup(p) ==
    /\ p \in Running \cap group
    /\ group' = group \ {p}
    /\ UNCHANGED <<grouped, ctx, proc, status, stdout, killed, bytes, run>>

CloseStdout(p) ==
    /\ p \in Running \cap stdout
    /\ stdout' = stdout \ {p}
    /\ UNCHANGED <<grouped, ctx, proc, status, group, killed, bytes, run>>

Exit(p, how) ==
    /\ p \in Running
    /\ proc' = [proc EXCEPT ![p] = "exited"]
    /\ stdout' = stdout \ {p}
    /\ status' = IF p = Leader THEN how ELSE status
    /\ UNCHANGED <<grouped, ctx, group, killed, bytes, run>>

\* Those of some members that run are killed.
Kill(members) ==
    /\ proc' = [p \in Members |-> IF p \in members \cap Running THEN "exited" ELSE proc[p]]
    /\ stdout' = stdout \ (members \cap Running)
    /\ killed' = killed \cup (members \cap Running)
    /\ status' = IF Leader \in members \cap Running THEN "bad" ELSE status
    /\ UNCHANGED group

----------------------------------------------------------------------------
(* The copying goroutine. *)

\* Mutant of Copy: room for one byte too many.
CopyOneMore ==
    /\ copier = "copying" /\ pipe > 0
    /\ pipe' = pipe - 1
    /\ IF kept <= MaxOutput
       THEN kept' = kept + 1 /\ UNCHANGED over
       ELSE over' = TRUE /\ UNCHANGED kept
    /\ UNCHANGED <<grouped, ctx, subject, written, run>>

\* A byte reaches capped.Write, which keeps it or notes that there was one more.
Copy ==
    /\ copier = "copying" /\ pipe > 0
    /\ pipe' = pipe - 1
    /\ IF kept < MaxOutput
       THEN kept' = kept + 1 /\ UNCHANGED over
       ELSE over' = TRUE /\ UNCHANGED kept
    /\ UNCHANGED <<grouped, ctx, subject, written, run>>

\* The pipe is empty and nobody can write to it any more.
CopyEnd ==
    /\ caller # "start"
    /\ copier = "copying" /\ pipe = 0 /\ stdout = {}
    /\ copier' = "eof"
    /\ UNCHANGED <<grouped, ctx, subject, bytes, watch, watchErr, caller, err, result>>

----------------------------------------------------------------------------
(* The deadline, and the goroutine that watches the context. *)

Expire ==
    /\ ctx = "live"
    /\ ctx' = "done"
    /\ UNCHANGED <<grouped, subject, bytes, run>>

\* Run is in Wait, and has not yet heard of this goroutine.
Watched == caller \in {"wait", "result"}

\* Mutant of Cancel: the group is never killed.
CancelLeader ==
    /\ Watched /\ watch = "watching" /\ ctx = "done"
    /\ watch' = "delaying"
    /\ watchErr' = "ctx"
    /\ Kill({Leader})
    /\ UNCHANGED <<grouped, ctx, bytes, copier, caller, err, result>>

\* cmd.Cancel, as killGroupOnCancel sets it, or Process.Kill.  A group that is
\* not there is an error too.  Where there are no groups, a leader that was
\* waited for is not an error, and one that only exited may be or not.
Cancel ==
    /\ Watched /\ watch = "watching" /\ ctx = "done"
    /\ watch' = "delaying"
    /\ \/ grouped /\ Kill(group) /\ watchErr' = "ctx"
       \/ /\ ~grouped /\ Kill({Leader})
          /\ watchErr' \in IF Leader \in Running THEN {"ctx"}
                           ELSE IF caller = "wait" THEN {"ctx", "none"} ELSE {"none"}
    /\ UNCHANGED <<grouped, ctx, bytes, copier, caller, err, result>>

\* WaitDelay after that the leader itself is killed and the pipe closed.  To
\* have killed something, on unix also a leader not yet waited for, is no error.
CancelDelayed ==
    /\ Watched /\ watch = "delaying"
    /\ watch' = "ended"
    /\ Kill({Leader})
    /\ copier' = IF copier = "copying" THEN "cut" ELSE copier
    /\ watchErr' = IF copier = "copying" /\ Leader \notin Running /\ ~(grouped /\ caller = "wait")
                   THEN First(watchErr, "delay") ELSE watchErr
    /\ UNCHANGED <<grouped, ctx, bytes, caller, err, result>>

----------------------------------------------------------------------------
(* Run. *)

\* The program does not start: it is not there, or the context is done.
StartFails ==
    /\ caller = "start"
    /\ caller' = "returned" /\ err' = "start" /\ result' = "error"
    /\ UNCHANGED <<grouped, ctx, subject, bytes, copier, watch, watchErr>>

Start ==
    /\ caller = "start" /\ ctx = "live"
    /\ proc' = [proc EXCEPT ![Leader] = "running"]
    /\ group' = IF grouped THEN {Leader} ELSE {}
    /\ stdout' = {Leader}
    /\ caller' = "wait"
    /\ UNCHANGED <<grouped, ctx, status, killed, bytes, copier, watch, watchErr, err, result>>

Reap ==
    /\ caller = "wait" /\ proc[Leader] = "exited"
    /\ caller' = "result"
    /\ err' = IF status = "ok" THEN "none" ELSE "exit"
    /\ UNCHANGED <<grouped, ctx, subject, bytes, copier, watch, watchErr, result>>

\* The watcher ends, with what it has to say of the context.
HearWatcher ==
    /\ caller = "result"
    /\ caller' = "drain" /\ watch' = "ended"
    /\ err' = First(err, watchErr)
    /\ UNCHANGED <<grouped, ctx, subject, bytes, copier, watchErr, result>>

\* Mutant of DrainDelayed: the delay counts from the kill, if there was one.
DrainDelayedOnCancel ==
    /\ caller = "drain" /\ copier = "copying" /\ watchErr # "none"
    /\ copier' = "cut"
    /\ err' = First(err, "delay")
    /\ UNCHANGED <<grouped, ctx, subject, bytes, watch, watchErr, caller, result>>

\* The pipe is still held WaitDelay later, and is closed: ErrWaitDelay.
DrainDelayed ==
    /\ caller = "drain" /\ copier = "copying"
    /\ copier' = "cut"
    /\ err' = First(err, "delay")
    /\ UNCHANGED <<grouped, ctx, subject, bytes, watch, watchErr, caller, result>>

\* Mutant of Return: the first MaxOutput bytes will do.
ReturnTruncated ==
    /\ caller = "drain" /\ copier # "copying"
    /\ caller' = "returned"
    /\ result' = IF err # "none" THEN "error" ELSE "output"
    /\ UNCHANGED <<grouped, ctx, subject, bytes, copier, watch, watchErr, err>>

Return ==
    /\ caller = "drain" /\ copier # "copying"
    /\ caller' = "returned"
    /\ result' = IF err # "none" \/ over THEN "error" ELSE "output"
    /\ UNCHANGED <<grouped, ctx, subject, bytes, copier, watch, watchErr, err>>

----------------------------------------------------------------------------

Subject ==
    \E p \in Members :
        \/ Write(p)
        \/ \E q \in Helpers : Fork(p, q)
        \/ LeaveGroup(p) \/ CloseStdout(p)
        \/ \E how \in {"ok", "bad"} : Exit(p, how)

Next ==
    \/ Subject
    \/ Copy \/ CopyEnd
    \/ Expire
    \/ Cancel \/ CancelDelayed
    \/ StartFails \/ Start
    \/ Reap \/ HearWatcher \/ DrainDelayed \/ Return

\* The goroutines run, and the deadline and the delays come.  Nothing is asked
\* of the subject.
Fairness ==
    /\ WF_vars(StartFails \/ Start)
    /\ WF_vars(Copy \/ CopyEnd)
    /\ WF_vars(Expire)
    /\ WF_vars(Cancel \/ CancelDelayed)
    /\ WF_vars(Reap \/ HearWatcher \/ DrainDelayed \/ Return)

Spec == Init /\ [][Next]_vars /\ Fairness

----------------------------------------------------------------------------
(* What must hold. *)

Errors == {"none", "start", "exit", "ctx", "delay"}

TypeOK ==
    /\ grouped \in BOOLEAN /\ ctx \in {"live", "done"}
    /\ proc \in [Members -> {"unborn", "running", "exited"}]
    /\ status \in {"none", "ok", "bad"}
    /\ status = "none" <=> proc[Leader] # "exited"
    /\ group \subseteq Members
    /\ stdout \subseteq Running
    /\ killed \subseteq Members
    /\ pipe \in 0..PipeSize /\ written \in 0..MaxWritten
    /\ kept \in 0..MaxOutput /\ over \in BOOLEAN
    /\ copier \in {"copying", "eof", "cut"}
    /\ watch \in {"watching", "delaying", "ended"}
    /\ watchErr \in Errors
    /\ caller \in {"start", "wait", "result", "drain", "returned"}
    /\ err \in Errors
    /\ result \in {"none", "output", "error"}

\* What Run returns for an output is the whole of it, from a run that ended of
\* itself: the program exited with 0, nobody was killed, everybody who could
\* write has ended or closed the pipe, and every byte written was kept.  A
\* deadline that passes, a child that outlives its parent and a limit that is
\* reached are errors, whichever comes when, and never a shorter output.
OutputIsWhole ==
    result = "output" =>
        status = "ok" /\ killed = {} /\ stdout = {} /\ kept = written

\* The group goes with its leader at the deadline: once Run saw the deadline
\* pass, nothing that stayed in the group runs any more, and nothing new does.
NoStragglers ==
    grouped /\ watchErr = "ctx" => group \cap Running = {}

\* Run returns, whatever the subject does: hang, write without end, leave the
\* group, or leave behind a child that holds the pipe.
Returns == <>(caller = "returned")

=============================================================================
