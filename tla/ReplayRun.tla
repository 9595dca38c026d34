------------------------------- MODULE ReplayRun -------------------------------
(***************************************************************************)
(* replay.Run (pkg/replay/replay.go): a pool of workers takes the indices  *)
(* of the active inputs off an unbuffered channel, replays each against    *)
(* both versions, writes its outcome into the slot of that input, and      *)
(* reports progress under a lock.  The caller's goroutine feeds the        *)
(* channel, closes it, waits for the pool, asks whether ctx was cancelled, *)
(* and only then folds the outcomes into a Result in manifest order.       *)
(*                                                                         *)
(* ctx may be cancelled at any moment by somebody else (a signal).  From   *)
(* then on a subject's run may end in an error that is no fact about the   *)
(* input, or may still finish.                                             *)
(***************************************************************************)
EXTENDS ReplayData, FiniteSets

CONSTANTS
    Worlds,          \* The corpora a replay may start from.
    Workers,         \* The pool: Workers(n), one worker by default.
    WithProgress,    \* Whether the Progress setting is given.
    Nobody           \* The owner of a lock that nobody holds.

ASSUME WorldsAssumption == Worlds \subseteq Corpora

ASSUME WorkersAssumption == Workers # {} /\ IsFiniteSet(Workers)

ASSUME ProgressAssumption == WithProgress \in BOOLEAN

ASSUME NobodyAssumption == Nobody \notin Workers

NoItem == 0

VARIABLES
    corpus,      \* The facts of every input.
    cancelled,   \* ctx.Err() # nil.
    caller,      \* Where the goroutine of Run is.
    queue,       \* The active inputs not yet sent on the channel.
    worker,      \* Where each worker is.
    item,        \* The index each worker holds.
    before,      \* What the previous version put out for that index.
    outcome,     \* outcomes[i]
    done,        \* The atomic counter of finished inputs.
    counted,     \* n := done.Add(1), each worker's own.
    progressMu,  \* The worker inside the progress callback.
    told,        \* The counts Progress was called with, in order.
    pos,         \* How far the collecting loop has come.
    result,      \* What Run returns.
    verdict      \* "running", "done", "cancelled".

workerVars   == <<worker, item, before, outcome>>
progressVars == <<done, counted, progressMu, told>>
resultVars   == <<pos, result, verdict>>
vars == <<corpus, cancelled, caller, queue, workerVars, progressVars, resultVars>>

Init ==
    /\ corpus \in Worlds
    /\ cancelled = FALSE
    /\ caller = "send"
    /\ queue = Active(corpus)
    /\ worker = [w \in Workers |-> "receive"]
    /\ item = [w \in Workers |-> NoItem]
    /\ before = [w \in Workers |-> Fails]
    /\ outcome = [i \in Inputs |-> NotRun]
    /\ done = 0
    /\ counted = [w \in Workers |-> 0]
    /\ progressMu = Nobody
    /\ told = <<>>
    /\ pos = 0
    /\ result = EmptyResult
    /\ verdict = "running"

----------------------------------------------------------------------------
(* The caller. *)

\* Mutant of Send: an index stays to be sent after it was.
SendAgain(w) ==
    /\ caller = "send"
    /\ worker[w] = "receive"
    /\ \E i \in queue : queue' \in {queue, queue \ {i}} /\ item' = [item EXCEPT ![w] = i]
    /\ worker' = [worker EXCEPT ![w] = "fetch"]
    /\ UNCHANGED <<corpus, cancelled, caller, before, outcome, progressVars, resultVars>>

\* indices <- i: the channel holds nothing, so the send is also w's receive.
\* The inputs go out in manifest order.
Send(w) ==
    /\ caller = "send"
    /\ worker[w] = "receive"
    /\ \E i \in queue :
          /\ \A j \in queue : i <= j
          /\ queue' = queue \ {i}
          /\ item' = [item EXCEPT ![w] = i]
    /\ worker' = [worker EXCEPT ![w] = "fetch"]
    /\ UNCHANGED <<corpus, cancelled, caller, before, outcome, progressVars, resultVars>>

\* close(indices), and on to wg.Wait().
Close ==
    /\ caller = "send"
    /\ queue = {}
    /\ caller' = "wait"
    /\ UNCHANGED <<corpus, cancelled, queue, workerVars, progressVars, resultVars>>

\* Mutant of Join: the caller does not wait for the pool.
JoinNobody ==
    /\ caller = "wait"
    /\ caller' = "check"
    /\ UNCHANGED <<corpus, cancelled, queue, workerVars, progressVars, resultVars>>

\* wg.Wait() returns when every worker has left its loop.
Join ==
    /\ caller = "wait"
    /\ \A w \in Workers : worker[w] = "exited"
    /\ caller' = "check"
    /\ UNCHANGED <<corpus, cancelled, queue, workerVars, progressVars, resultVars>>

\* Mutant of CheckContext: a cancelled replay is collected like any other.
CheckNothing ==
    /\ caller = "check"
    /\ caller' = "collect"
    /\ UNCHANGED <<corpus, cancelled, queue, workerVars, progressVars, resultVars>>

\* if err := ctx.Err(); err != nil { return r, err }
CheckContext ==
    /\ caller = "check"
    /\ IF cancelled
       THEN caller' = "returned" /\ verdict' = "cancelled"
       ELSE caller' = "collect" /\ UNCHANGED verdict
    /\ UNCHANGED <<corpus, cancelled, queue, workerVars, progressVars, pos, result>>

\* Mutant of CollectNext: the loop runs one outcome too far.
CollectPastTheEnd ==
    /\ caller = "collect"
    /\ pos <= N
    /\ pos' = pos + 1
    /\ UNCHANGED <<corpus, cancelled, caller, queue, workerVars, progressVars, result, verdict>>

\* One outcome of the collecting loop.  The code loops over the active inputs
\* only; the positions of the others pass without effect.
CollectNext ==
    /\ caller = "collect"
    /\ pos < N
    /\ pos' = pos + 1
    /\ result' = IF pos + 1 \in Active(corpus)
                 THEN Collect(result, pos + 1, outcome[pos + 1])
                 ELSE result
    /\ UNCHANGED <<corpus, cancelled, caller, queue, workerVars, progressVars, verdict>>

Return ==
    /\ caller = "collect"
    /\ pos = N
    /\ caller' = "returned"
    /\ verdict' = "done"
    /\ UNCHANGED <<corpus, cancelled, queue, workerVars, progressVars, pos, result>>

----------------------------------------------------------------------------
(* A worker. *)

\* Mutant of Finish: a worker leaves the pool at the first error it meets.
FinishOrQuit(w, o) ==
    /\ outcome' = [outcome EXCEPT ![item[w]] = o]
    /\ worker' = [worker EXCEPT ![w] = IF o.kind = "failed" THEN "exited" ELSE "count"]
    /\ before' = [before EXCEPT ![w] = Fails]
    /\ item' = [item EXCEPT ![w] = NoItem]

\* replayOne returned o: outcomes[i] = o, and on to the progress report if
\* one was asked for, or the next receive.
Finish(w, o) ==
    /\ outcome' = [outcome EXCEPT ![item[w]] = o]
    /\ worker' = [worker EXCEPT ![w] = IF WithProgress THEN "count" ELSE "receive"]
    /\ before' = [before EXCEPT ![w] = Fails]
    /\ item' = [item EXCEPT ![w] = NoItem]

\* store.Get: it does not look at ctx.
Fetch(w) ==
    /\ worker[w] = "fetch"
    /\ IF corpus[item[w]].intact
       THEN /\ worker' = [worker EXCEPT ![w] = "was"]
            /\ UNCHANGED <<item, before, outcome>>
       ELSE Finish(w, FailedBy("store"))
    /\ UNCHANGED <<corpus, cancelled, caller, queue, progressVars, resultVars>>

\* The ways a subject's run of facts f's output can end: as the program does,
\* or, once ctx is cancelled, in the error of a killed or never started child.
RunOf(own) == {own} \cup (IF cancelled THEN {Fails} ELSE {})

RunWas(w) ==
    /\ worker[w] = "was"
    /\ \E out \in RunOf(corpus[item[w]].was) :
          IF out = Fails
          THEN Finish(w, FailedBy("was"))
          ELSE /\ before' = [before EXCEPT ![w] = out]
               /\ worker' = [worker EXCEPT ![w] = "now"]
               /\ UNCHANGED <<item, outcome>>
    /\ UNCHANGED <<corpus, cancelled, caller, queue, progressVars, resultVars>>

RunNow(w) ==
    /\ worker[w] = "now"
    /\ \E out \in RunOf(corpus[item[w]].now) :
          Finish(w, IF out = Fails THEN FailedBy("now") ELSE Compared(before[w], out))
    /\ UNCHANGED <<corpus, cancelled, caller, queue, progressVars, resultVars>>

\* n := done.Add(1), before the lock is asked for.
Count(w) ==
    /\ worker[w] = "count"
    /\ done' = done + 1
    /\ counted' = [counted EXCEPT ![w] = done + 1]
    /\ worker' = [worker EXCEPT ![w] = "lock"]
    /\ UNCHANGED <<corpus, cancelled, caller, queue, item, before, outcome,
                   progressMu, told, resultVars>>

\* Mutant of EnterProgress: the counter is read again under the lock.
EnterProgressRereading(w) ==
    /\ worker[w] = "lock"
    /\ progressMu = Nobody
    /\ progressMu' = w
    /\ told' = Append(told, done)
    /\ worker' = [worker EXCEPT ![w] = "progress"]
    /\ UNCHANGED <<corpus, cancelled, caller, queue, item, before, outcome,
                   done, counted, resultVars>>

\* progressMu.Lock(), and the callback begins: s.progress(n, len(active)).
EnterProgress(w) ==
    /\ worker[w] = "lock"
    /\ progressMu = Nobody
    /\ progressMu' = w
    /\ told' = Append(told, counted[w])
    /\ worker' = [worker EXCEPT ![w] = "progress"]
    /\ UNCHANGED <<corpus, cancelled, caller, queue, item, before, outcome,
                   done, counted, resultVars>>

\* The callback ends: progressMu.Unlock(), and back to the receive.
LeaveProgress(w) ==
    /\ worker[w] = "progress"
    /\ progressMu' = Nobody
    /\ counted' = [counted EXCEPT ![w] = 0]
    /\ worker' = [worker EXCEPT ![w] = "receive"]
    /\ UNCHANGED <<corpus, cancelled, caller, queue, item, before, outcome,
                   done, told, resultVars>>

\* The channel is closed and, being unbuffered, empty: the range loop ends.
Exit(w) ==
    /\ worker[w] = "receive"
    /\ caller # "send"
    /\ worker' = [worker EXCEPT ![w] = "exited"]
    /\ UNCHANGED <<corpus, cancelled, caller, queue, item, before, outcome,
                   progressVars, resultVars>>

----------------------------------------------------------------------------

\* Somebody else cancels ctx.  A cancelled context stays cancelled.
Cancel ==
    /\ ~cancelled
    /\ caller # "returned"
    /\ cancelled' = TRUE
    /\ UNCHANGED <<corpus, caller, queue, workerVars, progressVars, resultVars>>

CallerStep == Close \/ Join \/ CheckContext \/ CollectNext \/ Return

WorkerStep(w) ==
    \/ Fetch(w) \/ RunWas(w) \/ RunNow(w)
    \/ Count(w) \/ EnterProgress(w) \/ LeaveProgress(w)
    \/ Exit(w)

Next ==
    \/ CallerStep
    \/ \E w \in Workers : Send(w) \/ WorkerStep(w)
    \/ Cancel

Spec == Init /\ [][Next]_vars

\* The Go scheduler runs every goroutine that can run, a subject's run ends
\* (Command bounds it by its timeout), and a send is taken by some receiver
\* that is ready.  A waiter for progressMu needs no more than weak fairness:
\* the others finish the inputs they have, and the lock stays free.
Fairness ==
    /\ WF_vars(CallerStep)
    /\ WF_vars(\E w \in Workers : Send(w))
    /\ \A w \in Workers : WF_vars(WorkerStep(w))

FairSpec == Spec /\ Fairness

----------------------------------------------------------------------------
(* What must hold. *)

Returned == caller = "returned"

TypeOK ==
    /\ corpus \in Corpora
    /\ cancelled \in BOOLEAN
    /\ caller \in {"send", "wait", "check", "collect", "returned"}
    /\ queue \subseteq Inputs
    /\ worker \in [Workers -> {"receive", "fetch", "was", "now", "count", "lock",
                               "progress", "exited"}]
    /\ item \in [Workers -> Inputs \cup {NoItem}]
    /\ before \in [Workers -> Bytes \cup {Fails}]
    /\ outcome \in [Inputs -> Outcomes]
    /\ done \in Nat
    /\ counted \in [Workers -> Nat]
    /\ progressMu \in Workers \cup {Nobody}
    /\ told \in Seq(Nat)
    /\ pos \in 0..N
    /\ result \in Results
    /\ verdict \in {"running", "done", "cancelled"}

\* The slots of the outcomes array are written without a lock.  That is
\* sound because no input is ever in two hands: not held by two workers, and
\* not held by one while it is still to be sent.
OneHand ==
    \A w \in Workers : item[w] # NoItem =>
        /\ item[w] \notin queue
        /\ outcome[item[w]] = NotRun
        /\ \A v \in Workers : item[v] = item[w] => v = w

\* The collecting loop reads outcomes that are final and are facts about the
\* input: every active input was replayed to its own outcome, whichever
\* worker had it and whatever the others did, and no error of a cancelled
\* context is among them.
CollectsTheFacts ==
    caller = "collect" \/ verdict = "done" =>
        \A i \in Inputs :
            outcome[i] = IF corpus[i].active THEN ReplayOne(corpus[i]) ELSE NotRun

\* A replay that returns without an error accounts for every active input
\* once, as run or as failed, and its Outputs are those of the inputs that
\* ran: nothing is lost to another input's crash.
EveryInputAccountedFor ==
    verdict = "done" =>
        /\ result.ran + Len(result.failures) = Cardinality(Active(corpus))
        /\ result.ran = result.same + Len(result.differences)
        /\ {i \in Inputs : result.outputs[i] # NoOutput}
             = {i \in Active(corpus) : outcome[i].kind = "ran"}

\* When the pool has been joined, progress was told each count from one to
\* the number of active inputs exactly once, cancelled or not.  In which
\* order is another matter: the counter is outside of the lock.
ProgressComplete ==
    WithProgress /\ caller \notin {"send", "wait"} =>
        /\ Len(told) = Cardinality(Active(corpus))
        /\ {told[k] : k \in DOMAIN told} = 1..Cardinality(Active(corpus))

\* A replay reports exactly what a sequential one would.
Sequential == INSTANCE SequentialReplay

RefinesSequential == Sequential!Spec

\* Run returns: no crash of an input, cancellation or slow progress callback
\* leaves the caller sending to a pool that no longer receives.
Terminates == <>Returned

=============================================================================
