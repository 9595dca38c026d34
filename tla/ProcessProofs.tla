----------------------------- MODULE ProcessProofs -----------------------------
(* Theorems about the two places where another program is run: the subject    *)
(* command, for any members, limit and pipe, and the Stop hook, for any        *)
(* upstream machines, any fuel and any settings of others.                     *)
EXTENDS Command, StopGate, FiniteSetTheorems, TLAPS

(***************************************************************************)
(* The inductive invariant.  OutputIsWhole speaks of the end of a run, and *)
(* what makes it true is spread over it: each part is what one of the      *)
(* goroutines leaves behind for the next one to read.                      *)
(***************************************************************************)

\* Before the start there is no process, and nothing was done to one.
NothingYet ==
  caller = "start" =>
    /\ \A p \in Members : proc[p] = "unborn"
    /\ stdout = {} /\ group = {} /\ killed = {}
    /\ copier = "copying" /\ watch = "watching" /\ watchErr = "none"

\* Only a process that was started is in the group.
GroupIsBorn == \A p \in group : proc[p] # "unborn"

\* No byte is lost between the pipe and the buffer, as long as none was
\* dropped at the limit and the pipe was not closed.
BytesAddUp == ~over /\ copier # "cut" => kept + pipe = written

\* The end of the file is the end: nothing is in the pipe and nobody holds it.
EndOfFile == copier = "eof" => pipe = 0 /\ stdout = {}

\* Something was done to the run: somebody was killed, or the pipe closed.
Disturbed == killed # {} \/ copier = "cut"

\* The watcher has nothing to tell before the context is done, and on unix
\* always something after.
WatcherTells ==
  /\ watch = "watching" => watchErr = "none"
  /\ grouped /\ watch = "delaying" => watchErr = "ctx"

\* Each of the steps of Run that may still make an error has what it needs:
\* the leader that was reaped stays so, and what disturbed the run is in the
\* exit status or in the watcher's error until Run heard of both.
ErrorsReachRun ==
  /\ caller \in {"result", "drain"} \/ result = "output" => proc[Leader] = "exited"
  /\ caller \in {"wait", "result"} /\ Disturbed => watchErr # "none" \/ status = "bad"
  /\ caller = "result" /\ err = "none" => status = "ok"
  /\ caller = "drain" /\ err = "none" => status = "ok" /\ ~Disturbed
  /\ caller # "returned" => result = "none"
  /\ result = "output" => err = "none" /\ status = "ok" /\ ~over /\ killed = {} /\ copier = "eof"

IInv ==
  /\ TypeOK
  /\ NothingYet
  /\ GroupIsBorn
  /\ BytesAddUp
  /\ EndOfFile
  /\ WatcherTells
  /\ ErrorsReachRun
  /\ NoStragglers

LEMMA InitIInv == Init => IInv
<1> SUFFICES ASSUME Init PROVE IInv
  OBVIOUS
<1> USE SizesAssumption DEF Init
<1>1. TypeOK
  <2>1. proc[Leader] = "unborn"
    BY DEF Members
  <2>2. proc \in [Members -> {"unborn", "running", "exited"}]
    OBVIOUS
  <2>3. 0 \in 0..PipeSize /\ 0 \in 0..MaxWritten /\ 0 \in 0..MaxOutput
    OBVIOUS
  <2> QED
    BY <2>1, <2>2, <2>3 DEF TypeOK, Errors
<1>2. NothingYet /\ GroupIsBorn /\ BytesAddUp /\ EndOfFile
  BY DEF NothingYet, GroupIsBorn, BytesAddUp, EndOfFile
<1>3. WatcherTells /\ ErrorsReachRun /\ NoStragglers
  BY DEF WatcherTells, ErrorsReachRun, NoStragglers, Disturbed
<1> QED BY <1>1, <1>2, <1>3 DEF IInv

(***************************************************************************)
(* One lemma per action: first the types, then each part of the invariant  *)
(* that the action can disturb, and at last those whose variables it       *)
(* leaves alone.                                                           *)
(***************************************************************************)

LEMMA WriteStep ==
  ASSUME IInv, NEW p \in Members, Write(p)
  PROVE  IInv'
<1> USE SizesAssumption, LeaderAssumption DEF IInv, Write, subject, bytes, run
<1>1. TypeOK'
  BY DEF TypeOK, Running
<1>2. BytesAddUp'
  BY DEF BytesAddUp, TypeOK
<1>3. EndOfFile'
  BY DEF EndOfFile
<1>4. NothingYet' /\ GroupIsBorn' /\ WatcherTells' /\ ErrorsReachRun' /\ NoStragglers'
  BY DEF NothingYet, GroupIsBorn, WatcherTells, ErrorsReachRun, NoStragglers, Disturbed, Running
<1> QED BY <1>1, <1>2, <1>3, <1>4

LEMMA ForkStep ==
  ASSUME IInv, NEW p \in Members, NEW q \in Helpers, Fork(p, q)
  PROVE  IInv'
<1> USE SizesAssumption, LeaderAssumption DEF IInv, Fork, subject, bytes, run
<1>1. TypeOK'
  BY DEF TypeOK, Running, Members
<1>2. NothingYet'
  BY DEF NothingYet, Running
<1>3. GroupIsBorn'
  BY DEF GroupIsBorn, TypeOK, Members
<1>4. EndOfFile'
  BY DEF EndOfFile
<1>5. ErrorsReachRun'
  BY DEF ErrorsReachRun, Disturbed
<1>6. NoStragglers'
  BY DEF NoStragglers, GroupIsBorn, TypeOK, Running, Members
<1>7. BytesAddUp' /\ WatcherTells'
  BY DEF BytesAddUp, WatcherTells
<1> QED BY <1>1, <1>2, <1>3, <1>4, <1>5, <1>6, <1>7

LEMMA LeaveGroupStep ==
  ASSUME IInv, NEW p \in Members, LeaveGroup(p)
  PROVE  IInv'
<1> USE SizesAssumption, LeaderAssumption DEF IInv, LeaveGroup, subject, bytes, run
<1>1. TypeOK'
  BY DEF TypeOK, Running
<1>2. NothingYet'
  BY DEF NothingYet
<1>3. GroupIsBorn'
  BY DEF GroupIsBorn
<1>4. NoStragglers'
  BY DEF NoStragglers, Running
<1>5. BytesAddUp' /\ EndOfFile' /\ WatcherTells' /\ ErrorsReachRun'
  BY DEF BytesAddUp, EndOfFile, WatcherTells, ErrorsReachRun, Disturbed
<1> QED BY <1>1, <1>2, <1>3, <1>4, <1>5

LEMMA CloseStdoutStep ==
  ASSUME IInv, NEW p \in Members, CloseStdout(p)
  PROVE  IInv'
<1> USE SizesAssumption, LeaderAssumption DEF IInv, CloseStdout, subject, bytes, run
<1>1. TypeOK'
  BY DEF TypeOK, Running
<1>2. NothingYet'
  BY DEF NothingYet
<1>3. EndOfFile'
  BY DEF EndOfFile
<1>4. GroupIsBorn' /\ BytesAddUp' /\ WatcherTells' /\ ErrorsReachRun' /\ NoStragglers'
  BY DEF GroupIsBorn, BytesAddUp, WatcherTells, ErrorsReachRun, NoStragglers, Disturbed, Running
<1> QED BY <1>1, <1>2, <1>3, <1>4

LEMMA ExitStep ==
  ASSUME IInv, NEW p \in Members, NEW how \in {"ok", "bad"}, Exit(p, how)
  PROVE  IInv'
<1> USE SizesAssumption, LeaderAssumption DEF IInv, Exit, subject, bytes, run
<1>1. TypeOK'
  BY DEF TypeOK, Running
<1>2. NothingYet'
  BY DEF NothingYet, Running
<1>3. GroupIsBorn'
  BY DEF GroupIsBorn
<1>4. EndOfFile'
  BY DEF EndOfFile
<1>5. ErrorsReachRun'
  BY DEF ErrorsReachRun, Disturbed, TypeOK, Running
<1>6. NoStragglers'
  BY DEF NoStragglers, Running
<1>7. BytesAddUp' /\ WatcherTells'
  BY DEF BytesAddUp, WatcherTells
<1> QED BY <1>1, <1>2, <1>3, <1>4, <1>5, <1>6, <1>7

LEMMA CopyStep ==
  ASSUME IInv, Copy
  PROVE  IInv'
<1> USE SizesAssumption, LeaderAssumption DEF IInv, Copy, subject, bytes, run
<1>1. TypeOK'
  <2>1. pipe' \in 0..PipeSize
    BY DEF Copy, TypeOK
  <2>2. kept' \in 0..MaxOutput
    BY DEF Copy, TypeOK
  <2>3. over' \in BOOLEAN
    BY DEF Copy, TypeOK
  <2> QED
    BY <2>1, <2>2, <2>3 DEF Copy, subject, run, TypeOK, Running
<1>2. BytesAddUp'
  BY DEF BytesAddUp, TypeOK
<1>3. EndOfFile'
  BY DEF EndOfFile
<1>4. ErrorsReachRun'
  BY DEF ErrorsReachRun, Disturbed
<1>5. NothingYet' /\ GroupIsBorn' /\ WatcherTells' /\ NoStragglers'
  BY DEF NothingYet, GroupIsBorn, WatcherTells, NoStragglers, Running
<1> QED BY <1>1, <1>2, <1>3, <1>4, <1>5

LEMMA CopyEndStep ==
  ASSUME IInv, CopyEnd
  PROVE  IInv'
<1> USE SizesAssumption, LeaderAssumption DEF IInv, CopyEnd, subject, bytes, run
<1>1. TypeOK'
  BY DEF TypeOK, Running
<1>2. NothingYet'
  BY DEF NothingYet
<1>3. BytesAddUp'
  BY DEF BytesAddUp, TypeOK
<1>4. EndOfFile'
  BY DEF EndOfFile
<1>5. ErrorsReachRun'
  BY DEF ErrorsReachRun, Disturbed
<1>6. GroupIsBorn' /\ WatcherTells' /\ NoStragglers'
  BY DEF GroupIsBorn, WatcherTells, NoStragglers, Running
<1> QED BY <1>1, <1>2, <1>3, <1>4, <1>5, <1>6

LEMMA ExpireStep ==
  ASSUME IInv, Expire
  PROVE  IInv'
<1> USE SizesAssumption, LeaderAssumption DEF IInv, Expire, subject, bytes, run
<1>1. TypeOK'
  BY DEF TypeOK, Running
<1>2. NothingYet' /\ GroupIsBorn' /\ BytesAddUp' /\ EndOfFile' /\ WatcherTells' /\ ErrorsReachRun' /\ NoStragglers'
  BY DEF NothingYet, GroupIsBorn, BytesAddUp, EndOfFile, WatcherTells, ErrorsReachRun, NoStragglers, Disturbed, Running
<1> QED BY <1>1, <1>2

LEMMA CancelStep ==
  ASSUME IInv, Cancel
  PROVE  IInv'
<1> USE SizesAssumption, LeaderAssumption DEF IInv, Cancel, subject, bytes, run
<1>1. TypeOK'
  BY DEF TypeOK, Running, Kill, Members, Errors
<1>2. NothingYet'
  BY DEF NothingYet, Watched
<1>3. GroupIsBorn'
  BY DEF GroupIsBorn, Kill, TypeOK
<1>4. EndOfFile'
  BY DEF EndOfFile, Kill
<1>5. WatcherTells'
  BY DEF WatcherTells
<1>6. ErrorsReachRun'
  <2>1. caller \in {"wait", "result"} /\ result = "none"
    BY DEF Cancel, Watched, ErrorsReachRun
  <2>2. caller' = caller /\ err' = err /\ result' = "none"
    BY <2>1 DEF Cancel, subject, bytes, run
  <2>3. caller = "result" => Leader \notin Running /\ proc'[Leader] = "exited" /\ status' = status
    BY <2>1 DEF Cancel, Kill, ErrorsReachRun, Running, TypeOK, Members
  <2>4. Disturbed' => watchErr' # "none" \/ status' = "bad"
    BY <2>1 DEF Cancel, Kill, ErrorsReachRun, WatcherTells, Disturbed, bytes, run, TypeOK, First
  <2> QED BY <2>1, <2>2, <2>3, <2>4 DEF ErrorsReachRun
<1>7. NoStragglers'
  BY DEF NoStragglers, Running, Kill, TypeOK
<1>8. BytesAddUp'
  BY DEF BytesAddUp
<1> QED BY <1>1, <1>2, <1>3, <1>4, <1>5, <1>6, <1>7, <1>8

LEMMA CancelDelayedStep ==
  ASSUME IInv, CancelDelayed
  PROVE  IInv'
<1> USE SizesAssumption, LeaderAssumption DEF IInv, CancelDelayed, subject, bytes, run
<1>1. TypeOK'
  BY DEF TypeOK, Running, Kill, Members, Errors, First
<1>2. NothingYet'
  BY DEF NothingYet, Watched
<1>3. GroupIsBorn'
  BY DEF GroupIsBorn, Kill, TypeOK
<1>4. BytesAddUp'
  BY DEF BytesAddUp, TypeOK
<1>5. EndOfFile'
  BY DEF EndOfFile, Kill
<1>6. WatcherTells'
  BY DEF WatcherTells
<1>7. ErrorsReachRun'
  <2>1. caller \in {"wait", "result"} /\ result = "none"
    BY DEF CancelDelayed, Watched, ErrorsReachRun
  <2>2. caller' = caller /\ err' = err /\ result' = "none"
    BY <2>1 DEF CancelDelayed, subject, bytes, run
  <2>3. caller = "result" => Leader \notin Running /\ proc'[Leader] = "exited" /\ status' = status
    BY <2>1 DEF CancelDelayed, Kill, ErrorsReachRun, Running, TypeOK, Members
  <2>4. Disturbed' => watchErr' # "none" \/ status' = "bad"
    BY <2>1 DEF CancelDelayed, Kill, ErrorsReachRun, WatcherTells, Disturbed, bytes, run, TypeOK, First
  <2> QED BY <2>1, <2>2, <2>3, <2>4 DEF ErrorsReachRun
<1>8. NoStragglers'
  BY DEF NoStragglers, Running, Kill, TypeOK, First
<1> QED BY <1>1, <1>2, <1>3, <1>4, <1>5, <1>6, <1>7, <1>8

LEMMA StartFailsStep ==
  ASSUME IInv, StartFails
  PROVE  IInv'
<1> USE SizesAssumption, LeaderAssumption DEF IInv, StartFails, subject, bytes, run
<1>1. TypeOK'
  BY DEF TypeOK, Running, Errors
<1>2. NothingYet'
  BY DEF NothingYet
<1>3. ErrorsReachRun'
  BY DEF ErrorsReachRun, Disturbed
<1>4. GroupIsBorn' /\ BytesAddUp' /\ EndOfFile' /\ WatcherTells' /\ NoStragglers'
  BY DEF GroupIsBorn, BytesAddUp, EndOfFile, WatcherTells, NoStragglers, Running
<1> QED BY <1>1, <1>2, <1>3, <1>4

LEMMA StartStep ==
  ASSUME IInv, Start
  PROVE  IInv'
<1> USE SizesAssumption, LeaderAssumption DEF IInv, Start, subject, bytes, run
<1>1. TypeOK'
  BY DEF TypeOK, Running, NothingYet, Members
<1>2. NothingYet'
  BY DEF NothingYet
<1>3. GroupIsBorn'
  BY DEF GroupIsBorn, TypeOK, Members
<1>4. EndOfFile'
  BY DEF EndOfFile, NothingYet
<1>5. ErrorsReachRun'
  BY DEF ErrorsReachRun, Disturbed, NothingYet, TypeOK
<1>6. NoStragglers'
  BY DEF NoStragglers, Running, NothingYet
<1>7. BytesAddUp' /\ WatcherTells'
  BY DEF BytesAddUp, WatcherTells
<1> QED BY <1>1, <1>2, <1>3, <1>4, <1>5, <1>6, <1>7

LEMMA ReapStep ==
  ASSUME IInv, Reap
  PROVE  IInv'
<1> USE SizesAssumption, LeaderAssumption DEF IInv, Reap, subject, bytes, run
<1>1. TypeOK'
  BY DEF TypeOK, Running, Errors
<1>2. NothingYet'
  BY DEF NothingYet
<1>3. ErrorsReachRun'
  BY DEF ErrorsReachRun, Disturbed
<1>4. GroupIsBorn' /\ BytesAddUp' /\ EndOfFile' /\ WatcherTells' /\ NoStragglers'
  BY DEF GroupIsBorn, BytesAddUp, EndOfFile, WatcherTells, NoStragglers, Running
<1> QED BY <1>1, <1>2, <1>3, <1>4

LEMMA HearWatcherStep ==
  ASSUME IInv, HearWatcher
  PROVE  IInv'
<1> USE SizesAssumption, LeaderAssumption DEF IInv, HearWatcher, subject, bytes, run
<1>1. TypeOK'
  BY DEF TypeOK, Running, First, Errors
<1>2. NothingYet'
  BY DEF NothingYet
<1>3. WatcherTells'
  BY DEF WatcherTells
<1>4. ErrorsReachRun'
  BY DEF ErrorsReachRun, Disturbed, TypeOK, First
<1>5. GroupIsBorn' /\ BytesAddUp' /\ EndOfFile' /\ NoStragglers'
  BY DEF GroupIsBorn, BytesAddUp, EndOfFile, NoStragglers, Running
<1> QED BY <1>1, <1>2, <1>3, <1>4, <1>5

LEMMA DrainDelayedStep ==
  ASSUME IInv, DrainDelayed
  PROVE  IInv'
<1> USE SizesAssumption, LeaderAssumption DEF IInv, DrainDelayed, subject, bytes, run
<1>1. TypeOK'
  BY DEF TypeOK, Running, First, Errors
<1>2. NothingYet'
  BY DEF NothingYet
<1>3. BytesAddUp'
  BY DEF BytesAddUp, TypeOK
<1>4. EndOfFile'
  BY DEF EndOfFile
<1>5. ErrorsReachRun'
  BY DEF ErrorsReachRun, Disturbed, TypeOK, First
<1>6. GroupIsBorn' /\ WatcherTells' /\ NoStragglers'
  BY DEF GroupIsBorn, WatcherTells, NoStragglers, Running
<1> QED BY <1>1, <1>2, <1>3, <1>4, <1>5, <1>6

LEMMA ReturnStep ==
  ASSUME IInv, Return
  PROVE  IInv'
<1> USE SizesAssumption, LeaderAssumption DEF IInv, Return, subject, bytes, run
<1>1. TypeOK'
  BY DEF TypeOK, Running
<1>2. NothingYet'
  BY DEF NothingYet
<1>3. ErrorsReachRun'
  BY DEF ErrorsReachRun, Disturbed, TypeOK
<1>4. GroupIsBorn' /\ BytesAddUp' /\ EndOfFile' /\ WatcherTells' /\ NoStragglers'
  BY DEF GroupIsBorn, BytesAddUp, EndOfFile, WatcherTells, NoStragglers, Running
<1> QED BY <1>1, <1>2, <1>3, <1>4

LEMMA StutterStep ==
  ASSUME IInv, UNCHANGED vars
  PROVE  IInv'
BY DEF vars, subject, bytes, run, IInv, TypeOK, Running, NothingYet, GroupIsBorn, BytesAddUp,
       EndOfFile, WatcherTells, ErrorsReachRun, Disturbed, NoStragglers

\* Every step of the subject, of the goroutines and of Run keeps the invariant.
THEOREM Invariance == Spec => []IInv
<1>1. Init => IInv
  BY InitIInv
<1>2. IInv /\ [Next]_vars => IInv'
  <2> SUFFICES ASSUME IInv, [Next]_vars PROVE IInv'
    OBVIOUS
  <2>1. CASE Subject
    BY <2>1, WriteStep, ForkStep, LeaveGroupStep, CloseStdoutStep, ExitStep DEF Subject
  <2>2. CASE Copy \/ CopyEnd
    BY <2>2, CopyStep, CopyEndStep
  <2>3. CASE Expire \/ Cancel \/ CancelDelayed
    BY <2>3, ExpireStep, CancelStep, CancelDelayedStep
  <2>4. CASE StartFails \/ Start \/ Reap
    BY <2>4, StartFailsStep, StartStep, ReapStep
  <2>5. CASE HearWatcher \/ DrainDelayed \/ Return
    BY <2>5, HearWatcherStep, DrainDelayedStep, ReturnStep
  <2>6. CASE UNCHANGED vars
    BY <2>6, StutterStep
  <2> QED
    BY <2>1, <2>2, <2>3, <2>4, <2>5, <2>6 DEF Next
<1> QED
  BY <1>1, <1>2, PTL DEF Spec

\* The parts of the model keep their types, whatever the subject does.
THEOREM TypeCorrect == Spec => []TypeOK
<1>1. IInv => TypeOK
  BY DEF IInv
<1> QED
  BY <1>1, Invariance, PTL

LEMMA OutputWasWhole ==
  ASSUME IInv
  PROVE  OutputIsWhole
<1> SUFFICES ASSUME result = "output"
             PROVE  status = "ok" /\ killed = {} /\ stdout = {} /\ kept = written
  BY DEF OutputIsWhole
<1>1. status = "ok" /\ killed = {} /\ ~over /\ copier = "eof"
  BY DEF IInv, ErrorsReachRun
<1>2. pipe = 0 /\ stdout = {} /\ kept + pipe = written
  BY <1>1 DEF IInv, EndOfFile, BytesAddUp
<1>3. kept \in Nat
  BY SizesAssumption DEF IInv, TypeOK
<1> QED BY <1>1, <1>2, <1>3

\* Command.Run never returns a part of an output for an output: not at the
\* limit, not at the deadline, and not from a child that held the pipe.
THEOREM OutputIsWholeAlways == Spec => []OutputIsWhole
BY Invariance, OutputWasWhole, PTL

\* killGroupOnCancel leaves nobody behind who stayed in the group: what runs
\* there when the deadline is noticed is killed, and nothing joins it after.
THEOREM NoStragglersAlways == Spec => []NoStragglers
<1>1. IInv => NoStragglers
  BY DEF IInv
<1> QED
  BY <1>1, Invariance, PTL

-----------------------------------------------------------------------------
(***************************************************************************)
(* What wrap makes of a machine it does not refuse: one state, which every *)
(* reading leads back to.                                                  *)
(***************************************************************************)
Stands(m, loop) ==
  /\ wrap(m) = [initial |-> loop, cell |-> m.cell, states |-> wrap(m).states]
  /\ wrap(m).states = [s \in {loop} |->
       [terminal |-> FALSE,
        on |-> [r \in Readings |->
                  [to |-> loop, says |-> Instructed(m.states[loop].on[r].says)]]]]
  /\ loop \in DOMAIN m.states

LEMMA OneLive ==
  ASSUME NEW m \in Machines, Cardinality(Live(m)) = 1
  PROVE  Live(m) = {m.initial}
<1>1. IsFiniteSet(Live(m))
  BY MachinesAssumption, FS_Subset DEF Live
<1>2. PICK x : Live(m) = {x}
  BY <1>1, FS_Singleton
<1> QED
  BY <1>2, MachinesAssumption

LEMMA WrapStands ==
  ASSUME NEW m \in Machines, wrap(m) # Refused
  PROVE  Stands(m, m.initial)
<1>1. Cardinality(Live(m)) = 1
  BY DEF wrap
<1>2. Live(m) = {m.initial}
  BY <1>1, OneLive
<1>3. (CHOOSE s \in Live(m) : TRUE) = m.initial
  BY <1>2
<1>4. m = [initial |-> m.initial, cell |-> m.cell, states |-> m.states]
  BY MachinesAssumption DEF MachineOver
<1>5. m.initial \in DOMAIN m.states
  BY <1>2 DEF Live
<1> DEFINE standing == [s \in {m.initial} |->
                 [terminal |-> FALSE,
                  on |-> [r \in Readings |->
                            [to   |-> m.initial,
                             says |-> Instructed(m.states[s].on[r].says)]]]]
<1>6. wrap(m) = [m EXCEPT !.states = standing]
  BY <1>3, <1>1 DEF wrap
<1>7. [m EXCEPT !.states = standing]
        = [initial |-> m.initial, cell |-> m.cell, states |-> standing]
  <2> HIDE DEF standing
  <2> QED BY <1>4
<1>8. wrap(m).states = standing
  <2> HIDE DEF standing
  <2> QED BY <1>6, <1>7
<1>9. standing = [s \in {m.initial} |->
       [terminal |-> FALSE,
        on |-> [r \in Readings |->
                  [to |-> m.initial,
                   says |-> Instructed(m.states[m.initial].on[r].says)]]]]
  OBVIOUS
<1> QED
  <2> HIDE DEF standing
  <2> QED BY <1>5, <1>6, <1>7, <1>8, <1>9 DEF Stands

(***************************************************************************)
(* The same, as the steps of the session use it.                           *)
(***************************************************************************)
LEMMA MachineStands ==
  ASSUME upstream \in Machines, Machine # Refused
  PROVE  /\ Machine.initial \in DOMAIN Machine.states
         /\ ~Machine.states[Machine.initial].terminal
         /\ \A r \in Readings :
              LET move == Machine.states[Machine.initial].on[r]
              IN  /\ move.to = Machine.initial
                  /\ move.says \in {{}, {"output", "Instruction"}}
<1> DEFINE loop == upstream.initial
<1>1. Stands(upstream, loop)
  BY WrapStands DEF Machine
<1>2. Machine.initial = loop
  BY <1>1 DEF Stands, Machine
<1>3. Machine.states[loop] =
        [terminal |-> FALSE,
         on |-> [r \in Readings |->
                   [to |-> loop, says |-> Instructed(upstream.states[loop].on[r].says)]]]
  BY <1>1 DEF Stands, Machine
<1>4. loop \in DOMAIN Machine.states
  BY <1>1 DEF Stands, Machine
<1>5. ASSUME NEW r \in Readings
      PROVE  Instructed(upstream.states[loop].on[r].says) \in {{}, {"output", "Instruction"}}
  <2>1. upstream.states[loop].on[r].says \in SUBSET {"output"}
    BY <1>1, MachinesAssumption DEF Stands, MachineOver
  <2>2. upstream.states[loop].on[r].says \in {{}, {"output"}}
    BY <2>1
  <2> QED BY <2>2 DEF Instructed
<1>6. ASSUME NEW r \in Readings
      PROVE  /\ Machine.states[loop].on[r].to = loop
             /\ Machine.states[loop].on[r].says \in {{}, {"output", "Instruction"}}
  <2> DEFINE says == Instructed(upstream.states[loop].on[r].says)
  <2>1. Machine.states[loop].on = [q \in Readings |->
          [to |-> loop, says |-> Instructed(upstream.states[loop].on[q].says)]]
    BY <1>3
  <2>2. Machine.states[loop].on[r] = [to |-> loop, says |-> says]
    BY <2>1
  <2>3. says \in {{}, {"output", "Instruction"}}
    BY <1>5
  <2> HIDE DEF says
  <2> QED BY <2>2, <2>3
<1>7. ~Machine.states[loop].terminal
  BY <1>3
<1> HIDE DEF loop
<1> QED
  BY <1>2, <1>4, <1>6, <1>7

\* A machine that runs a command lets a stop through on a reading that is not
\* "nonzero" only.
LEMMA RedIsRefused ==
  ASSUME upstream \in Machines, Machine # Refused, Machine.cell = "exec"
  PROVE  Machine.states[Machine.initial].on["nonzero"].says # {}
<1> DEFINE loop == upstream.initial
<1>1. Stands(upstream, loop)
  BY WrapStands DEF Machine
<1>2. upstream.cell = "exec" /\ Machine.initial = loop
  BY <1>1 DEF Stands, Machine
<1>3. Cardinality(Blocks(upstream)) = 1 /\ Cardinality(Live(upstream)) = 1
  BY DEF Machine, wrap
<1>4. PICK s \in Live(upstream) : Blocks(upstream) = {<<s, "nonzero">>}
  BY <1>2, <1>3, MachinesAssumption
<1>5. s = loop
  BY <1>3, <1>4, OneLive
<1>6. upstream.states[loop].on["nonzero"].says # {}
  <2> DEFINE p == <<s, "nonzero">>
  <2>1. p \in Blocks(upstream)
    BY <1>4
  <2>2. upstream.states[p[1]].on[p[2]].says # {}
    <3> HIDE DEF p
    <3> QED BY <2>1 DEF Blocks
  <2> QED BY <1>5, <2>2
<1>7. Instructed(upstream.states[loop].on["nonzero"].says) # {}
  BY <1>6 DEF Instructed
<1>8. Machine.states[loop].on["nonzero"].says
        = Instructed(upstream.states[loop].on["nonzero"].says)
  <2>1. "nonzero" \in Readings
    BY DEF Readings
  <2> QED BY <1>1, <2>1 DEF Stands, Machine
<1> QED
  BY <1>2, <1>7, <1>8

-----------------------------------------------------------------------------
(* The invariant: a session stands where the machine begins, a hook that    *)
(* runs had fuel to, and what an installer read has all that others put in. *)

SessionInv ==
  /\ Machine # Refused => at = Machine.initial
  /\ phase = "judging" => Machine # Refused /\ fuel > 0

SettingsInv ==
  /\ install # "truncated" => put \subseteq settings.others
  /\ install \in {"merged", "truncated"} => put \subseteq read.others
  /\ install = "truncated" => settings.is = "torn"

GateIInv == GateTypeOK /\ SessionInv /\ SettingsInv

Settings == [is : {"absent", "torn", "json"}, hook : BOOLEAN, others : SUBSET Others]

LEMMA GateInitIInv == GateInit => GateIInv
<1> SUFFICES ASSUME GateInit PROVE GateIInv
  OBVIOUS
<1>1. upstream \in Machines /\ at = Machine.initial
  BY DEF GateInit
<1>2. Machine # Refused => at \in DOMAIN Machine.states
  BY <1>1, MachineStands
<1>3. settings \in Settings /\ read \in Settings /\ put = {}
  <2>1. Absent \in Settings
    BY DEF Absent, Settings
  <2>2. Json(FALSE, {}) \in Settings
    BY DEF Json, Settings
  <2> QED BY <2>1, <2>2 DEF GateInit
<1>4. GateTypeOK
  BY <1>1, <1>2, <1>3, StopGateAssumption DEF GateInit, GateTypeOK, Said, Settings
<1>5. SessionInv
  BY <1>1 DEF GateInit, SessionInv
<1>6. SettingsInv
  BY <1>3 DEF GateInit, SettingsInv
<1> QED BY <1>4, <1>5, <1>6 DEF GateIInv

\* The transition of a reading, under the invariant.
LEMMA FireKeeps ==
  ASSUME GateIInv, NEW r \in Readings, phase = "judging", Fire(r)
  PROVE  /\ phase' = "working" => refusal' = {"output", "Instruction"}
         /\ phase' = "stopped" => Machine.states[Machine.initial].on[r].says = {}
         /\ GateIInv'
<1> DEFINE move == Machine.states[Machine.initial].on[r]
<1>1. Machine # Refused /\ fuel > 0 /\ at = Machine.initial /\ upstream \in Machines
  BY DEF GateIInv, GateTypeOK, SessionInv
<1>2. /\ Machine.initial \in DOMAIN Machine.states
      /\ move.to = Machine.initial
      /\ move.says \in {{}, {"output", "Instruction"}}
  BY <1>1, MachineStands
<1>3. /\ phase' = IF move.says = {} THEN "stopped" ELSE "working"
      /\ refusal' = move.says
      /\ at' = move.to
      /\ fuel' = fuel - 1
      /\ UNCHANGED <<upstream, tree, file>>
  BY <1>1 DEF Fire
<1>4. Machine' = Machine
  BY <1>3 DEF Machine
<1> HIDE DEF move
<1>5. GateTypeOK'
  <2>1. fuel' \in 0..Fuel
    BY <1>1, <1>3, StopGateAssumption DEF GateIInv, GateTypeOK
  <2>2. Machine' # Refused => at' \in DOMAIN Machine'.states
    BY <1>2, <1>3, <1>4
  <2>3. refusal' \in Said
    BY <1>2, <1>3 DEF Said
  <2> QED
    BY <1>3, <2>1, <2>2, <2>3 DEF GateIInv, GateTypeOK, file
<1>6. SessionInv'
  BY <1>2, <1>3, <1>4 DEF SessionInv
<1>7. SettingsInv'
  BY <1>3 DEF GateIInv, SettingsInv, file
<1> QED
  BY <1>2, <1>3, <1>5, <1>6, <1>7 DEF GateIInv, move

LEMMA HookKeeps ==
  ASSUME GateIInv, Hook
  PROVE  /\ phase' = "working" => refusal' = {"output", "Instruction"}
         /\ (phase' = "stopped" /\ Machine.cell = "exec") => tree \in {"green", "broken"}
         /\ GateIInv'
<1> USE DEF Readings
<1>1. phase = "judging" /\ upstream \in Machines /\ Machine # Refused /\ tree \in Trees
  BY DEF Hook, ReplayEnds, TimesOut, NotOurs, GateIInv, GateTypeOK, SessionInv
<1>2. CASE Machine.cell = "exec"
  <2>1. Fire(ReadingOf(tree))
    BY <1>2 DEF Hook, ReplayEnds, TimesOut, NotOurs
  <2>2. ReadingOf(tree) \in Readings
    BY <1>1 DEF ReadingOf, Trees
  <2>3. tree \notin {"green", "broken"} => ReadingOf(tree) = "nonzero"
    BY <1>1 DEF ReadingOf, Trees
  <2>4. Machine.states[Machine.initial].on["nonzero"].says # {}
    BY <1>1, <1>2, RedIsRefused
  <2> QED BY <1>1, <2>1, <2>2, <2>3, <2>4, FireKeeps
<1>3. CASE Machine.cell # "exec"
  <2>1. Fire("unreadable")
    BY <1>3 DEF Hook, ReplayEnds, TimesOut, NotOurs
  <2> QED BY <1>1, <1>3, <2>1, FireKeeps
<1> QED BY <1>2, <1>3

LEMMA GateNextIInv ==
  ASSUME GateIInv, [GateNext]_gateVars
  PROVE  GateIInv'
<1> USE DEF file, session
<1>a. Machine' = wrap(upstream')
  BY DEF Machine
<1>1. CASE AskToStop
  BY <1>1, <1>a DEF AskToStop, Armed, GateIInv, GateTypeOK, SessionInv, SettingsInv, Machine
<1>2. CASE Hook
  BY <1>2, HookKeeps
<1>3. CASE Resume
  BY <1>3 DEF Resume, GateIInv, GateTypeOK, SessionInv, SettingsInv, Machine
<1>4. CASE Edit
  BY <1>4 DEF Edit, GateIInv, GateTypeOK, SessionInv, SettingsInv, Machine
<1>5. CASE InstallReads
  BY <1>5 DEF InstallReads, GateIInv, GateTypeOK, SessionInv, SettingsInv, Machine
<1>6. CASE InstallTruncates
  BY <1>6 DEF InstallTruncates, Torn, GateIInv, GateTypeOK, SessionInv, SettingsInv, Machine
<1>7. CASE InstallWrites
  BY <1>7 DEF InstallWrites, Json, GateIInv, GateTypeOK, SessionInv, SettingsInv, Machine
<1>8. CASE InstallStops
  BY <1>8 DEF InstallStops, GateIInv, GateTypeOK, SessionInv, SettingsInv, Machine
<1>9. CASE InstallStopsWriting
  BY <1>9 DEF InstallStopsWriting, Torn, GateIInv, GateTypeOK, SessionInv, SettingsInv, Machine
<1>10. CASE OtherWrites
  BY <1>10 DEF OtherWrites, Json, GateIInv, GateTypeOK, SessionInv, SettingsInv, Machine
<1>11. CASE Break \/ Mend
  BY <1>11 DEF Break, Mend, Torn, Json, GateIInv, GateTypeOK, SessionInv, SettingsInv, Machine
<1>12. CASE UNCHANGED gateVars
  BY <1>12 DEF gateVars, GateIInv, GateTypeOK, SessionInv, SettingsInv, Machine
<1> QED
  BY <1>1, <1>2, <1>3, <1>4, <1>5, <1>6, <1>7, <1>8, <1>9, <1>10, <1>11, <1>12 DEF GateNext

THEOREM GateInvariance == GateSpec => []GateIInv
<1> QED BY GateInitIInv, GateNextIInv, PTL DEF GateSpec

(***************************************************************************)
(* Every variable of the gate keeps its type, and a session stands in a    *)
(* state of its machine (hooks/replaygate: wrap, run, install).            *)
(***************************************************************************)
THEOREM GateTypeCorrect == GateSpec => []GateTypeOK
<1>1. GateIInv => GateTypeOK
  BY DEF GateIInv
<1> QED BY <1>1, GateInvariance, PTL

(***************************************************************************)
(* No install takes out of settings.local.json what others had put there   *)
(* before it read the file, and none begins on a file that does not parse, *)
(* such as one an install was killed writing (install, os.WriteFile).      *)
(* What that one had not written is lost, and so is what others write      *)
(* while an install runs.                                                  *)
(***************************************************************************)
THEOREM OthersKeptAlways == GateSpec => []OthersKept
<1>1. GateIInv => OthersKept
  BY DEF GateIInv, SettingsInv, OthersKept
<1> QED BY <1>1, GateInvariance, PTL

\* One step of the gate.
LEMMA StepStands ==
  ASSUME GateIInv, [GateNext]_gateVars
  PROVE  /\ (phase = "working" /\ phase' = "stopped" /\ Wired /\ Machine # Refused) => fuel = 0
         /\ (phase = "judging" /\ phase' = "stopped" /\ Machine.cell = "exec")
              => tree \in {"green", "broken"}
         /\ (phase = "judging" /\ phase' = "working") => refusal' = {"output", "Instruction"}
<1> USE DEF file, session
<1>1. CASE AskToStop
  <2>1. phase = "working"
    BY <1>1 DEF AskToStop
  <2>2. (phase' = "stopped" /\ Wired /\ Machine # Refused) => ~Armed
    BY <1>1 DEF AskToStop
  <2>3. Machine # Refused => ~Machine.states[at].terminal
    BY MachineStands DEF GateIInv, GateTypeOK, SessionInv
  <2>4. fuel \in Nat
    BY StopGateAssumption DEF GateIInv, GateTypeOK
  <2> QED BY <2>1, <2>2, <2>3, <2>4 DEF Armed
<1>2. CASE Hook
  <2>1. phase = "judging"
    BY <1>2 DEF Hook, ReplayEnds, TimesOut, NotOurs
  <2> QED BY <1>2, <2>1, HookKeeps
<1>3. CASE Resume
  BY <1>3 DEF Resume
<1>4. CASE UNCHANGED session
  <2>1. phase' = phase
    BY <1>4
  <2> QED BY <2>1
<1>5. CASE Edit
  BY <1>5 DEF Edit
<1>6. ASSUME InstallReads \/ InstallTruncates \/ InstallWrites \/ InstallStops
               \/ InstallStopsWriting \/ OtherWrites \/ Break \/ Mend
               \/ UNCHANGED gateVars
      PROVE  UNCHANGED session
  BY <1>6 DEF InstallReads, InstallTruncates, InstallWrites, InstallStops,
              InstallStopsWriting, OtherWrites, Break, Mend, gateVars
<1> QED
  BY <1>1, <1>2, <1>3, <1>4, <1>5, <1>6 DEF GateNext

(***************************************************************************)
(* The gate stands: while it has fuel no stop goes by unjudged and none    *)
(* with a replay that is red or does not end, whatever machine of the      *)
(* assumed kind upstream has, and each refusal says how to close.          *)
(***************************************************************************)
THEOREM GateStandsAlways == GateSpec => GateStands
<1>1. GateIInv /\ [GateNext]_gateVars =>
        [/\ (phase = "working" /\ phase' = "stopped" /\ Wired /\ Machine # Refused) => fuel = 0
         /\ (phase = "judging" /\ phase' = "stopped" /\ Machine.cell = "exec")
              => tree \in {"green", "broken"}
         /\ (phase = "judging" /\ phase' = "working") => refusal' = {"output", "Instruction"}]_gateVars
  BY StepStands
<1> QED BY <1>1, GateInvariance, PTL DEF GateSpec, GateStands

=============================================================================
