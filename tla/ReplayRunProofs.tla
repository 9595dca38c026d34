--------------------------- MODULE ReplayRunProofs ---------------------------
(***************************************************************************)
(* Proofs about ReplayRun, for any corpus, any pool and any subjects:      *)
(* type correctness, that outcomes are written by one worker each, that    *)
(* the caller collects the facts and accounts for every input, that        *)
(* progress is told every count once, and that the pool implements the     *)
(* sequential replay.                                                      *)
(***************************************************************************)
EXTENDS ReplayRun, FiniteSetTheorems, TLAPS

(* What a worker holds agrees with where it is. *)
HandInv ==
    /\ queue \subseteq Active(corpus)
    /\ \A w \in Workers :
          /\ (item[w] # NoItem) <=> (worker[w] \in {"fetch", "was", "now"})
          /\ item[w] # NoItem => item[w] \in Active(corpus)
          /\ worker[w] \in {"was", "now"} => corpus[item[w]].intact
          /\ worker[w] = "now" => /\ before[w] = corpus[item[w]].was
                                  /\ before[w] # Fails
    /\ \A i \in queue : outcome[i] = NotRun

(* Every active input is to be sent, in a hand, or has its outcome, and an  *)
(* outcome that is not a fact needs a cancelled context.                    *)
OutcomeInv ==
    /\ \A i \in Active(corpus) :
          \/ i \in queue
          \/ \E w \in Workers : item[w] = i
          \/ outcome[i] # NotRun
    /\ \A i \in Inputs : outcome[i] # NotRun =>
          /\ i \in Active(corpus)
          /\ cancelled \/ outcome[i] = ReplayOne(corpus[i])

(* How far the caller is says what the workers may still do. *)
PhaseInv ==
    /\ caller # "send" => queue = {}
    /\ caller \in {"check", "collect", "returned"} =>
          \A w \in Workers : worker[w] = "exited"
    /\ caller \in {"send", "wait", "check"} \/ verdict = "cancelled" =>
          pos = 0 /\ result = EmptyResult
    /\ verdict = "running" <=> caller # "returned"

IInv == TypeOK /\ OneHand /\ HandInv /\ OutcomeInv /\ PhaseInv /\ CollectsTheFacts

----------------------------------------------------------------------------
(* Facts about the operators. *)

(* A version's output, an error, and what a replay of one input makes of    *)
(* them, are outcomes (replayOne returns an outcome on every path).         *)
LEMMA ReplayOneType ==
    ASSUME NEW f \in Facts
    PROVE  ReplayOne(f) \in Outcomes /\ ReplayOne(f) # NotRun
<1>1. \A v \in {"store", "was", "now"} : FailedBy(v) \in Outcomes /\ FailedBy(v).kind = "failed"
  BY DEF Outcomes, FailedBy
<1>2. \A b \in Bytes, a \in Bytes : Compared(b, a) \in Outcomes /\ Compared(b, a).kind = "ran"
  BY DEF Outcomes, Compared
<1>3. NotRun.kind = "not run"
  BY DEF NotRun
<1>4. f.was \in Bytes \cup {Fails} /\ f.now \in Bytes \cup {Fails}
  BY DEF Facts
<1>5. \/ \E v \in {"store", "was", "now"} : ReplayOne(f) = FailedBy(v)
      \/ \E b \in Bytes, a \in Bytes : ReplayOne(f) = Compared(b, a)
  BY <1>4 DEF ReplayOne
<1> QED BY <1>1, <1>2, <1>3, <1>5

(* One turn of the collecting loop keeps a result a result.                 *)
LEMMA CollectType ==
    ASSUME NEW r \in Results, NEW i \in Inputs, NEW o \in Outcomes
    PROVE  Collect(r, i, o) \in Results
<1> DEFINE Failed == [input : Inputs, version : {"store", "was", "now"}]
<1>1. /\ r.ran \in Nat /\ r.same \in Nat
      /\ r.differences \in Seq(Inputs)
      /\ r.failures \in Seq(Failed)
      /\ r.outputs \in [Inputs -> Bytes \cup {NoOutput}]
  BY DEF Results
<1>2. CASE o = NotRun
  BY <1>2 DEF Collect, NotRun
<1>3. ASSUME NEW v \in {"store", "was", "now"}, o = FailedBy(v)
      PROVE  Collect(r, i, o) \in Results
  <2>1. Append(r.failures, [input |-> i, version |-> v]) \in Seq(Failed)
    BY <1>1
  <2>2. Collect(r, i, o) =
          [r EXCEPT !.failures = Append(r.failures, [input |-> i, version |-> v])]
    BY <1>3 DEF Collect, FailedBy
  <2> QED BY <2>1, <2>2 DEF Results
<1>4. ASSUME NEW b \in Bytes, NEW a \in Bytes, o = Compared(b, a)
      PROVE  Collect(r, i, o) \in Results
  <2>1. [r.outputs EXCEPT ![i] = a] \in [Inputs -> Bytes \cup {NoOutput}]
    BY <1>1
  <2>2. Append(r.differences, i) \in Seq(Inputs)
    BY <1>1
  <2>3. CASE a = b
    <3>1. Collect(r, i, o) =
            [ran |-> r.ran + 1, same |-> r.same + 1, differences |-> r.differences,
             failures |-> r.failures, outputs |-> [r.outputs EXCEPT ![i] = a]]
      BY <1>4, <2>3 DEF Collect, Compared, Results
    <3> QED BY <1>1, <2>1, <3>1 DEF Results
  <2>4. CASE a # b
    <3>1. Collect(r, i, o) =
            [ran |-> r.ran + 1, same |-> r.same, differences |-> Append(r.differences, i),
             failures |-> r.failures, outputs |-> [r.outputs EXCEPT ![i] = a]]
      BY <1>4, <2>4 DEF Collect, Compared, Results
    <3> QED BY <1>1, <2>1, <2>2, <3>1 DEF Results
  <2> QED BY <2>3, <2>4
<1> QED BY <1>2, <1>3, <1>4 DEF Outcomes

(* What a worker's return from replayOne leaves of the variables' types.    *)
LEMMA FinishType ==
    ASSUME TypeOK, NEW w \in Workers, NEW o \in Outcomes, Finish(w, o)
    PROVE  /\ outcome' \in [Inputs -> Outcomes]
           /\ worker' \in [Workers -> {"receive", "fetch", "was", "now", "count", "lock",
                                       "progress", "exited"}]
           /\ before' \in [Workers -> Bytes \cup {Fails}]
           /\ item' \in [Workers -> Inputs \cup {NoItem}]
BY DEF TypeOK, Finish

(* An input in a worker's hand has facts, and its outcome so far fits.      *)
LEMMA HandFacts ==
    ASSUME IInv, NEW w \in Workers, worker[w] \in {"fetch", "was", "now"}
    PROVE  /\ item[w] \in Inputs
           /\ corpus[item[w]] \in Facts
           /\ corpus[item[w]].was \in Bytes \cup {Fails}
           /\ corpus[item[w]].now \in Bytes \cup {Fails}
           /\ worker[w] = "now" => before[w] \in Bytes
<1>1. item[w] \in Active(corpus)
  BY DEF IInv, HandInv
<1>2. item[w] \in Inputs
  BY <1>1 DEF Active
<1>3. corpus[item[w]] \in Facts
  BY <1>2 DEF IInv, TypeOK, Corpora
<1>4. worker[w] = "now" => before[w] \in Bytes
  BY DEF IInv, HandInv, TypeOK
<1> QED BY <1>2, <1>3, <1>4 DEF Facts

(* Every step keeps the types: what replayOne returns on a path is an      *)
(* outcome, and the collecting loop stops at the end of the manifest.       *)
LEMMA TypeStep == IInv /\ [Next]_vars => TypeOK'
<1> SUFFICES ASSUME IInv, [Next]_vars PROVE TypeOK'
  OBVIOUS
<1> USE DEF workerVars, progressVars, resultVars
<1>0. TypeOK
  BY DEF IInv
<1>1. CASE Close
  BY <1>0, <1>1 DEF TypeOK, Close
<1>2. CASE Join
  BY <1>0, <1>2 DEF TypeOK, Join
<1>3. CASE CheckContext
  BY <1>0, <1>3 DEF TypeOK, CheckContext
<1>4. CASE CollectNext
  <2>1. pos + 1 \in Inputs
    BY <1>0, <1>4, NAssumption DEF TypeOK, CollectNext, Inputs
  <2>2. Collect(result, pos + 1, outcome[pos + 1]) \in Results
    BY <1>0, <2>1, CollectType DEF TypeOK
  <2>3. pos' \in 0..N
    BY <1>0, <1>4, NAssumption DEF TypeOK, CollectNext
  <2> QED BY <1>0, <1>4, <2>2, <2>3 DEF TypeOK, CollectNext
<1>5. CASE Return
  BY <1>0, <1>5 DEF TypeOK, Return
<1>6. ASSUME NEW w \in Workers, Send(w) PROVE TypeOK'
  <2>1. queue' \subseteq Inputs /\ item' \in [Workers -> Inputs \cup {NoItem}]
    BY <1>0, <1>6 DEF TypeOK, Send
  <2>2. worker' \in [Workers -> {"receive", "fetch", "was", "now", "count", "lock",
                                 "progress", "exited"}]
    BY <1>0, <1>6 DEF TypeOK, Send
  <2> QED BY <1>0, <1>6, <2>1, <2>2 DEF TypeOK, Send
<1>7. ASSUME NEW w \in Workers, Fetch(w) PROVE TypeOK'
  <2>1. FailedBy("store") \in Outcomes
    BY DEF Outcomes
  <2>2. CASE Finish(w, FailedBy("store"))
    BY <1>0, <1>7, <2>1, <2>2, FinishType DEF TypeOK, Fetch
  <2>3. CASE ~Finish(w, FailedBy("store"))
    BY <1>0, <1>7, <2>3 DEF TypeOK, Fetch
  <2> QED BY <2>2, <2>3
<1>8. ASSUME NEW w \in Workers, RunWas(w) PROVE TypeOK'
  <2>1. PICK out \in RunOf(corpus[item[w]].was) :
            IF out = Fails
            THEN Finish(w, FailedBy("was"))
            ELSE /\ before' = [before EXCEPT ![w] = out]
                 /\ worker' = [worker EXCEPT ![w] = "now"]
                 /\ UNCHANGED <<item, outcome>>
    BY <1>8 DEF RunWas
  <2>2. FailedBy("was") \in Outcomes
    BY DEF Outcomes
  <2>3. out \in Bytes \cup {Fails}
    BY <1>8, HandFacts DEF RunWas, RunOf
  <2>4. CASE out = Fails
    BY <1>0, <1>8, <2>1, <2>2, <2>4, FinishType DEF TypeOK, RunWas
  <2>5. CASE out # Fails
    BY <1>0, <1>8, <2>1, <2>3, <2>5 DEF TypeOK, RunWas
  <2> QED BY <2>4, <2>5
<1>9. ASSUME NEW w \in Workers, RunNow(w) PROVE TypeOK'
  <2>1. PICK out \in RunOf(corpus[item[w]].now) :
            Finish(w, IF out = Fails THEN FailedBy("now") ELSE Compared(before[w], out))
    BY <1>9 DEF RunNow
  <2>2. out \in Bytes \cup {Fails} /\ before[w] \in Bytes
    BY <1>9, HandFacts DEF RunNow, RunOf
  <2>3. (IF out = Fails THEN FailedBy("now") ELSE Compared(before[w], out)) \in Outcomes
    BY <2>2 DEF Outcomes
  <2> QED BY <1>0, <1>9, <2>1, <2>3, FinishType DEF TypeOK, RunNow
<1>10. ASSUME NEW w \in Workers, Count(w) PROVE TypeOK'
  BY <1>0, <1>10 DEF TypeOK, Count
<1>11. ASSUME NEW w \in Workers, EnterProgress(w) PROVE TypeOK'
  <2>1. told' \in Seq(Nat)
    BY <1>0, <1>11 DEF TypeOK, EnterProgress
  <2> QED BY <1>0, <1>11, <2>1 DEF TypeOK, EnterProgress
<1>12. ASSUME NEW w \in Workers, LeaveProgress(w) PROVE TypeOK'
  BY <1>0, <1>12 DEF TypeOK, LeaveProgress
<1>13. ASSUME NEW w \in Workers, Exit(w) PROVE TypeOK'
  BY <1>0, <1>13 DEF TypeOK, Exit
<1>14. CASE Cancel
  BY <1>0, <1>14 DEF TypeOK, Cancel
<1>15. CASE UNCHANGED vars
  BY <1>0, <1>15 DEF TypeOK, vars
<1> QED BY <1>1, <1>2, <1>3, <1>4, <1>5, <1>6, <1>7, <1>8, <1>9, <1>10, <1>11,
           <1>12, <1>13, <1>14, <1>15 DEF Next, CallerStep, WorkerStep

(* A worker that takes nothing and lets nothing go, and an outcome array     *)
(* that nobody writes, leave every hand as it was.                          *)
LEMMA HandUnchanged ==
    ASSUME IInv, UNCHANGED <<corpus, queue, item, before, outcome>>,
           \A w \in Workers : \/ worker'[w] = worker[w]
                              \/ /\ worker[w] \notin {"fetch", "was", "now"}
                                 /\ worker'[w] \notin {"fetch", "was", "now"}
    PROVE  OneHand' /\ HandInv'
BY DEF IInv, OneHand, HandInv, Active

(* A worker that finishes an input empties its hand, and no other worker    *)
(* held that input.                                                         *)
LEMMA HandFinish ==
    ASSUME IInv, NEW w \in Workers, NEW o \in Outcomes, Finish(w, o),
           worker[w] \in {"fetch", "was", "now"}, UNCHANGED <<corpus, queue>>
    PROVE  OneHand' /\ HandInv'
<1>1. /\ item \in [Workers -> Inputs \cup {NoItem}]
      /\ worker \in [Workers -> {"receive", "fetch", "was", "now", "count", "lock",
                                 "progress", "exited"}]
      /\ before \in [Workers -> Bytes \cup {Fails}]
      /\ outcome \in [Inputs -> Outcomes]
  BY DEF IInv, TypeOK
<1>2. /\ item' = [item EXCEPT ![w] = NoItem]
      /\ outcome' = [outcome EXCEPT ![item[w]] = o]
      /\ before' = [before EXCEPT ![w] = Fails]
      /\ worker'[w] \notin {"fetch", "was", "now"}
      /\ \A v \in Workers : v # w => worker'[v] = worker[v]
  BY <1>1 DEF Finish
<1>3. item[w] \in Inputs /\ item[w] # NoItem
  BY HandFacts, NAssumption DEF NoItem, Inputs
<1>4. OneHand'
  <2> SUFFICES ASSUME NEW v \in Workers, item'[v] # NoItem
               PROVE  /\ item'[v] \notin queue
                      /\ outcome'[item'[v]] = NotRun
                      /\ \A u \in Workers : item'[u] = item'[v] => u = v
    BY DEF OneHand
  <2>1. v # w /\ item'[v] = item[v]
    BY <1>1, <1>2
  <2>2. item[v] # item[w]
    BY <1>3, <2>1 DEF IInv, OneHand
  <2> QED BY <1>1, <1>2, <2>1, <2>2 DEF IInv, OneHand
<1>5. HandInv'
  <2>1. \A i \in queue : i # item[w]
    BY <1>3 DEF IInv, OneHand
  <2>2. \A i \in queue' : outcome'[i] = NotRun
    BY <1>1, <1>2, <2>1 DEF IInv, HandInv, TypeOK
  <2>3. ASSUME NEW v \in Workers
        PROVE  /\ (item'[v] # NoItem) <=> (worker'[v] \in {"fetch", "was", "now"})
               /\ item'[v] # NoItem => item'[v] \in Active(corpus)
               /\ worker'[v] \in {"was", "now"} => corpus[item'[v]].intact
               /\ worker'[v] = "now" => /\ before'[v] = corpus[item'[v]].was
                                       /\ before'[v] # Fails
    <3>1. CASE v = w
      BY <1>1, <1>2, <3>1
    <3>2. CASE v # w
      BY <1>1, <1>2, <3>2 DEF IInv, HandInv
    <3> QED BY <3>1, <3>2
  <2> QED BY <2>2, <2>3 DEF HandInv, IInv, Active
<1> QED BY <1>4, <1>5

(* No step puts an input into two hands, and what a worker holds keeps      *)
(* agreeing with where the worker is.                                       *)
LEMMA HandStep == IInv /\ [Next]_vars => OneHand' /\ HandInv'
<1> SUFFICES ASSUME IInv, [Next]_vars PROVE OneHand' /\ HandInv'
  OBVIOUS
<1> USE DEF workerVars, progressVars, resultVars
<1>0. TypeOK
  BY DEF IInv
<1>1. CASE CallerStep
  BY <1>1, HandUnchanged DEF CallerStep, Close, Join, CheckContext, CollectNext, Return
<1>2. ASSUME NEW w \in Workers, Send(w) PROVE OneHand' /\ HandInv'
  <2>1. PICK i \in queue : queue' = queue \ {i} /\ item' = [item EXCEPT ![w] = i]
    BY <1>2 DEF Send
  <2>2. /\ worker' = [worker EXCEPT ![w] = "fetch"]
        /\ worker[w] = "receive"
        /\ UNCHANGED <<corpus, before, outcome>>
    BY <1>2 DEF Send
  <2>3. i \in Active(corpus) /\ i \in Inputs /\ i # NoItem /\ outcome[i] = NotRun
    BY NAssumption DEF IInv, HandInv, Active, Inputs, NoItem
  <2>4. \A v \in Workers : item[v] # i
    BY <2>3 DEF IInv, OneHand
  <2>5. item'[w] = i /\ \A v \in Workers : v # w => item'[v] = item[v]
    BY <1>0, <2>1 DEF TypeOK
  <2>6. worker'[w] = "fetch" /\ \A v \in Workers : v # w => worker'[v] = worker[v]
    BY <1>0, <2>2 DEF TypeOK
  <2>7. OneHand'
    <3> SUFFICES ASSUME NEW v \in Workers, item'[v] # NoItem
                 PROVE  /\ item'[v] \notin queue'
                        /\ outcome'[item'[v]] = NotRun
                        /\ \A u \in Workers : item'[u] = item'[v] => u = v
      BY DEF OneHand
    <3>1. CASE v = w
      BY <2>1, <2>2, <2>3, <2>4, <2>5, <3>1
    <3>2. CASE v # w
      BY <2>1, <2>2, <2>4, <2>5, <3>2 DEF IInv, OneHand
    <3> QED BY <3>1, <3>2
  <2>8. HandInv'
    BY <2>1, <2>2, <2>3, <2>5, <2>6 DEF IInv, HandInv, Active
  <2> QED BY <2>7, <2>8
<1>3. ASSUME NEW w \in Workers, Fetch(w) PROVE OneHand' /\ HandInv'
  <2>1. CASE Finish(w, FailedBy("store"))
    BY <1>3, <2>1, HandFinish DEF Fetch, Outcomes
  <2>2. CASE ~Finish(w, FailedBy("store"))
    <3>1. /\ corpus[item[w]].intact
          /\ worker' = [worker EXCEPT ![w] = "was"]
          /\ UNCHANGED <<corpus, queue, item, before, outcome>>
      BY <1>3, <2>2 DEF Fetch
    <3>2. worker'[w] = "was" /\ \A v \in Workers : v # w => worker'[v] = worker[v]
      BY <1>0, <3>1 DEF TypeOK
    <3> QED BY <1>3, <3>1, <3>2 DEF Fetch, IInv, OneHand, HandInv, Active
  <2> QED BY <2>1, <2>2
<1>4. ASSUME NEW w \in Workers, RunWas(w) PROVE OneHand' /\ HandInv'
  <2>1. PICK out \in RunOf(corpus[item[w]].was) :
            IF out = Fails
            THEN Finish(w, FailedBy("was"))
            ELSE /\ before' = [before EXCEPT ![w] = out]
                 /\ worker' = [worker EXCEPT ![w] = "now"]
                 /\ UNCHANGED <<item, outcome>>
    BY <1>4 DEF RunWas
  <2>2. CASE out = Fails
    BY <1>4, <2>1, <2>2, HandFinish DEF RunWas, Outcomes
  <2>3. CASE out # Fails
    <3>1. /\ out = corpus[item[w]].was
          /\ UNCHANGED <<corpus, queue, item, outcome>>
      BY <1>4, <2>1, <2>3 DEF RunWas, RunOf
    <3>2. worker'[w] = "now" /\ \A v \in Workers : v # w => worker'[v] = worker[v]
      BY <1>0, <2>1, <2>3 DEF TypeOK
    <3>3. before'[w] = out /\ \A v \in Workers : v # w => before'[v] = before[v]
      BY <1>0, <2>1, <2>3 DEF TypeOK
    <3> QED BY <1>4, <2>3, <3>1, <3>2, <3>3 DEF RunWas, IInv, OneHand, HandInv, Active
  <2> QED BY <2>2, <2>3
<1>5. ASSUME NEW w \in Workers, RunNow(w) PROVE OneHand' /\ HandInv'
  <2>1. PICK out \in RunOf(corpus[item[w]].now) :
            Finish(w, IF out = Fails THEN FailedBy("now") ELSE Compared(before[w], out))
    BY <1>5 DEF RunNow
  <2>2. out \in Bytes \cup {Fails} /\ before[w] \in Bytes
    BY <1>5, HandFacts DEF RunNow, RunOf
  <2>3. (IF out = Fails THEN FailedBy("now") ELSE Compared(before[w], out)) \in Outcomes
    BY <2>2 DEF Outcomes
  <2> QED BY <1>5, <2>1, <2>3, HandFinish DEF RunNow
<1>6. ASSUME NEW w \in Workers,
             Count(w) \/ EnterProgress(w) \/ LeaveProgress(w) \/ Exit(w)
      PROVE  OneHand' /\ HandInv'
  BY <1>0, <1>6, HandUnchanged DEF TypeOK, Count, EnterProgress, LeaveProgress, Exit
<1>7. CASE Cancel
  BY <1>7, HandUnchanged DEF Cancel
<1>8. CASE UNCHANGED vars
  BY <1>8, HandUnchanged DEF vars
<1> QED BY <1>1, <1>2, <1>3, <1>4, <1>5, <1>6, <1>7, <1>8 DEF Next, WorkerStep

(* Finishing an input moves it from a hand to its slot, and what is written *)
(* there is a fact about the input unless ctx was cancelled.                *)
LEMMA OutcomeFinish ==
    ASSUME IInv, NEW w \in Workers, NEW o \in Outcomes, Finish(w, o),
           worker[w] \in {"fetch", "was", "now"},
           UNCHANGED <<corpus, queue, cancelled>>,
           o # NotRun, cancelled \/ o = ReplayOne(corpus[item[w]])
    PROVE  OutcomeInv'
<1>1. /\ item \in [Workers -> Inputs \cup {NoItem}]
      /\ outcome \in [Inputs -> Outcomes]
      /\ item' = [item EXCEPT ![w] = NoItem]
      /\ outcome' = [outcome EXCEPT ![item[w]] = o]
  BY DEF IInv, TypeOK, Finish
<1>2. item[w] \in Inputs /\ item[w] \in Active(corpus)
  BY HandFacts DEF IInv, HandInv
<1>3. ASSUME NEW i \in Active(corpus)
      PROVE  \/ i \in queue
             \/ \E v \in Workers : item'[v] = i
             \/ outcome'[i] # NotRun
  <2>1. i \in Inputs
    BY DEF Active
  <2>2. CASE i = item[w]
    BY <1>1, <1>2, <2>2
  <2>3. CASE i # item[w]
    BY <1>1, <2>1, <2>3 DEF IInv, OutcomeInv
  <2> QED BY <2>2, <2>3
<1>4. ASSUME NEW i \in Inputs, outcome'[i] # NotRun
      PROVE  i \in Active(corpus) /\ (cancelled \/ outcome'[i] = ReplayOne(corpus[i]))
  <2>1. CASE i = item[w]
    BY <1>1, <1>2, <2>1
  <2>2. CASE i # item[w]
    BY <1>1, <1>4, <2>2 DEF IInv, OutcomeInv
  <2> QED BY <2>1, <2>2
<1> QED BY <1>3, <1>4 DEF OutcomeInv, Active

(* No active input is ever dropped, and an error in a slot that is no fact   *)
(* about the input needs a cancelled context.                               *)
LEMMA OutcomeStep == IInv /\ [Next]_vars => OutcomeInv'
<1> SUFFICES ASSUME IInv, [Next]_vars PROVE OutcomeInv'
  OBVIOUS
<1> USE DEF workerVars, progressVars, resultVars
<1>0. TypeOK /\ OutcomeInv
  BY DEF IInv
<1>1. CASE UNCHANGED <<corpus, queue, item, outcome>> /\ (cancelled => cancelled')
  BY <1>0, <1>1 DEF OutcomeInv, Active
<1>2. CASE CallerStep \/ Cancel \/ UNCHANGED vars
  BY <1>1, <1>2 DEF CallerStep, Close, Join, CheckContext, CollectNext, Return, Cancel, vars
<1>3. ASSUME NEW w \in Workers, Send(w) PROVE OutcomeInv'
  <2>1. PICK i \in queue : queue' = queue \ {i} /\ item' = [item EXCEPT ![w] = i]
    BY <1>3 DEF Send
  <2>2. worker[w] = "receive" /\ UNCHANGED <<corpus, outcome, cancelled>>
    BY <1>3 DEF Send
  <2>3. item[w] = NoItem
    BY <2>2 DEF IInv, HandInv
  <2>4. item'[w] = i /\ \A v \in Workers : v # w => item'[v] = item[v]
    BY <1>0, <2>1 DEF TypeOK
  <2>5. \A j \in Active(corpus) : j # NoItem
    BY NAssumption DEF Active, Inputs, NoItem
  <2> QED BY <1>0, <2>1, <2>2, <2>3, <2>4, <2>5 DEF OutcomeInv, Active
<1>4. ASSUME NEW w \in Workers, Fetch(w) PROVE OutcomeInv'
  <2>1. CASE Finish(w, FailedBy("store")) /\ ~corpus[item[w]].intact
    <3>1. FailedBy("store") = ReplayOne(corpus[item[w]])
      BY <2>1 DEF ReplayOne
    <3>2. FailedBy("store") \in Outcomes /\ FailedBy("store") # NotRun
      BY <1>4, <3>1, HandFacts, ReplayOneType DEF Fetch
    <3> QED BY <1>4, <2>1, <3>1, <3>2, OutcomeFinish DEF Fetch
  <2>2. CASE corpus[item[w]].intact
    BY <1>1, <1>4, <2>2 DEF Fetch
  <2> QED BY <1>4, <2>1, <2>2 DEF Fetch
<1>5. ASSUME NEW w \in Workers, RunWas(w) PROVE OutcomeInv'
  <2>1. PICK out \in RunOf(corpus[item[w]].was) :
            IF out = Fails
            THEN Finish(w, FailedBy("was"))
            ELSE /\ before' = [before EXCEPT ![w] = out]
                 /\ worker' = [worker EXCEPT ![w] = "now"]
                 /\ UNCHANGED <<item, outcome>>
    BY <1>5 DEF RunWas
  <2>2. CASE out = Fails
    <3>1. corpus[item[w]].intact
      BY <1>5 DEF RunWas, IInv, HandInv
    <3>2. cancelled \/ FailedBy("was") = ReplayOne(corpus[item[w]])
      BY <2>2, <3>1 DEF RunOf, ReplayOne
    <3>3. FailedBy("was").kind = "failed" /\ NotRun.kind = "not run"
      BY DEF FailedBy, NotRun
    <3>4. FailedBy("was") \in Outcomes
      BY DEF Outcomes
    <3> QED BY <1>5, <2>1, <2>2, <3>2, <3>3, <3>4, OutcomeFinish DEF RunWas
  <2>3. CASE out # Fails
    BY <1>1, <1>5, <2>1, <2>3 DEF RunWas
  <2> QED BY <2>2, <2>3
<1>6. ASSUME NEW w \in Workers, RunNow(w) PROVE OutcomeInv'
  <2>1. PICK out \in RunOf(corpus[item[w]].now) :
            Finish(w, IF out = Fails THEN FailedBy("now") ELSE Compared(before[w], out))
    BY <1>6 DEF RunNow
  <2> DEFINE o == IF out = Fails THEN FailedBy("now") ELSE Compared(before[w], out)
  <2>2. out \in Bytes \cup {Fails} /\ before[w] \in Bytes
    BY <1>6, HandFacts DEF RunNow, RunOf
  <2>3. o \in Outcomes
    BY <2>2 DEF Outcomes
  <2>4. o.kind \in {"failed", "ran"} /\ NotRun.kind = "not run"
    BY DEF FailedBy, Compared, NotRun
  <2>5. corpus[item[w]].intact /\ before[w] = corpus[item[w]].was /\ before[w] # Fails
    BY <1>6 DEF RunNow, IInv, HandInv
  <2>6. cancelled \/ o = ReplayOne(corpus[item[w]])
    BY <2>5 DEF RunOf, ReplayOne
  <2> HIDE DEF o
  <2>7. Finish(w, o)
    BY <2>1 DEF o
  <2>8. o # NotRun
    BY <2>4
  <2> QED BY <1>6, <2>3, <2>6, <2>7, <2>8, OutcomeFinish DEF RunNow
<1>7. ASSUME NEW w \in Workers,
             Count(w) \/ EnterProgress(w) \/ LeaveProgress(w) \/ Exit(w)
      PROVE  OutcomeInv'
  BY <1>1, <1>7 DEF Count, EnterProgress, LeaveProgress, Exit
<1> QED BY <1>2, <1>3, <1>4, <1>5, <1>6, <1>7 DEF Next, WorkerStep

(* The caller leaves a phase only when its condition holds, and a worker     *)
(* that has exited stays out: once the pool is joined nobody writes.        *)
LEMMA PhaseStep == IInv /\ [Next]_vars => PhaseInv'
<1> SUFFICES ASSUME IInv, [Next]_vars PROVE PhaseInv'
  OBVIOUS
<1> USE DEF workerVars, progressVars, resultVars
<1>0. TypeOK /\ PhaseInv
  BY DEF IInv
<1>1. CASE CallerStep
  BY <1>0, <1>1 DEF TypeOK, PhaseInv, CallerStep, Close, Join, CheckContext, CollectNext, Return
<1>2. ASSUME NEW w \in Workers, Send(w) PROVE PhaseInv'
  BY <1>0, <1>2 DEF PhaseInv, Send
<1>3. ASSUME NEW w \in Workers, WorkerStep(w) PROVE PhaseInv'
  <2>1. worker[w] # "exited" /\ UNCHANGED <<caller, queue, resultVars>>
    BY <1>3 DEF WorkerStep, Fetch, RunWas, RunNow, Count, EnterProgress, LeaveProgress, Exit
  <2> QED BY <1>0, <2>1 DEF PhaseInv
<1>4. CASE Cancel \/ UNCHANGED vars
  BY <1>0, <1>4 DEF PhaseInv, Cancel, vars
<1> QED BY <1>1, <1>2, <1>3, <1>4 DEF Next

(* The caller collects only after it joined the pool and saw ctx alive, when *)
(* every slot holds a fact; nobody writes a slot after that.                *)
LEMMA CollectStep == IInv /\ [Next]_vars => CollectsTheFacts'
<1> SUFFICES ASSUME IInv, [Next]_vars, (caller = "collect" \/ verdict = "done")'
             PROVE  \A i \in Inputs : outcome'[i] =
                       IF corpus'[i].active THEN ReplayOne(corpus'[i]) ELSE NotRun
  BY DEF CollectsTheFacts
<1> USE DEF workerVars, progressVars, resultVars
<1>0. TypeOK /\ PhaseInv /\ OutcomeInv /\ HandInv /\ CollectsTheFacts
  BY DEF IInv
<1>1. CASE CheckContext
  <2>1. ~cancelled /\ UNCHANGED <<corpus, outcome>>
    BY <1>0, <1>1 DEF CheckContext, PhaseInv
  <2>2. queue = {} /\ \A w \in Workers : item[w] = NoItem
    BY <1>0, <1>1 DEF CheckContext, PhaseInv, HandInv
  <2>3. \A i \in Active(corpus) : i # NoItem
    BY NAssumption DEF Active, Inputs, NoItem
  <2>4. \A i \in Active(corpus) : outcome[i] # NotRun
    BY <1>0, <2>2, <2>3 DEF OutcomeInv
  <2> QED BY <1>0, <2>1, <2>4 DEF OutcomeInv, Active
<1>2. CASE CollectNext \/ Return \/ Cancel \/ UNCHANGED vars
  BY <1>0, <1>2 DEF CollectNext, Return, Cancel, vars, CollectsTheFacts
<1>3. CASE Close \/ Join
  BY <1>0, <1>3 DEF Close, Join, PhaseInv, TypeOK
<1>4. ASSUME NEW w \in Workers, Send(w) \/ WorkerStep(w)
      PROVE  caller \in {"send", "wait"} /\ UNCHANGED <<caller, verdict>> /\ verdict = "running"
  <2>1. UNCHANGED <<caller, verdict>> /\ (caller = "send" \/ worker[w] # "exited")
    BY <1>4 DEF Send, WorkerStep, Fetch, RunWas, RunNow, Count, EnterProgress,
                LeaveProgress, Exit
  <2> QED BY <1>0, <2>1 DEF PhaseInv, TypeOK
<1>5. CASE \E w \in Workers : Send(w) \/ WorkerStep(w)
  BY <1>4, <1>5
<1> QED BY <1>1, <1>2, <1>3, <1>5 DEF Next, CallerStep

(* The invariant holds before the first worker starts.                      *)
LEMMA Initial == Init => IInv
<1> SUFFICES ASSUME Init PROVE IInv
  OBVIOUS
<1>1. EmptyResult \in Results
  BY DEF EmptyResult, Results, NoOutput
<1>2. TypeOK
  <2>1. outcome \in [Inputs -> Outcomes]
    BY DEF Init, Outcomes
  <2>2. corpus \in Corpora /\ queue \subseteq Inputs /\ pos \in 0..N
    BY WorldsAssumption, NAssumption DEF Init, Active
  <2>3. told \in Seq(Nat)
    BY DEF Init
  <2> QED BY <1>1, <2>1, <2>2, <2>3 DEF Init, TypeOK
<1>3. OneHand /\ HandInv
  BY WorldsAssumption DEF Init, OneHand, HandInv, Active, NoItem
<1>4. OutcomeInv /\ PhaseInv /\ CollectsTheFacts
  BY DEF Init, OutcomeInv, PhaseInv, CollectsTheFacts, Active
<1> QED BY <1>2, <1>3, <1>4 DEF IInv

----------------------------------------------------------------------------
(* What is counted: the result the caller folds, and the progress told.     *)

(* The outcomes the collecting loop has come past are all in the result.    *)
Taken == {i \in Active(corpus) : i <= pos}

AccountInv ==
    /\ result.ran + Len(result.failures) = Cardinality(Taken)
    /\ result.ran = result.same + Len(result.differences)
    /\ {i \in Inputs : result.outputs[i] # NoOutput}
         = {i \in Taken : outcome[i].kind = "ran"}
    /\ verdict = "done" => pos = N

(* Every finished input is counted or about to be; every count up to done    *)
(* was told, or is held by one worker that waits to tell it, never both.    *)
Finished == {i \in Inputs : outcome[i] # NotRun}

Counting == {w \in Workers : worker[w] = "count"}

Waiting == {w \in Workers : worker[w] = "lock"}

TallyInv ==
    /\ done + Cardinality(Counting) = Cardinality(Finished)
    /\ \A k \in 1..Len(told) : told[k] \in 1..done
    /\ \A k, l \in 1..Len(told) : told[k] = told[l] => k = l
    /\ \A w \in Waiting :
          /\ counted[w] \in 1..done
          /\ \A k \in 1..Len(told) : told[k] # counted[w]
          /\ \A v \in Waiting : counted[v] = counted[w] => v = w
    /\ \A n \in 1..done :
          \/ \E k \in 1..Len(told) : told[k] = n
          \/ \E w \in Waiting : counted[w] = n

LEMMA ActiveFinite ==
    ASSUME NEW S \in SUBSET Inputs
    PROVE  IsFiniteSet(S)
<1>1. N \in Nat
  BY NAssumption
<1>2. IsFiniteSet(1..N)
  BY <1>1, FS_Interval
<1> QED BY <1>2, FS_Subset DEF Inputs

(* One turn of the collecting loop: a run or a failure more, one output more *)
(* if it ran, and of the runs one more is the same or differs.              *)
LEMMA CollectCounts ==
    ASSUME NEW r \in Results, NEW i \in Inputs, NEW o \in Outcomes, o # NotRun
    PROVE  LET s == Collect(r, i, o)
           IN  /\ s.ran + Len(s.failures) = r.ran + Len(r.failures) + 1
               /\ r.ran = r.same + Len(r.differences) => s.ran = s.same + Len(s.differences)
               /\ \A j \in Inputs \ {i} : s.outputs[j] = r.outputs[j]
               /\ o.kind = "ran" => s.outputs[i] # NoOutput
               /\ o.kind # "ran" => s.outputs[i] = r.outputs[i]
<1> DEFINE Failed == [input : Inputs, version : {"store", "was", "now"}]
<1>1. /\ r.ran \in Nat /\ r.same \in Nat
      /\ r.differences \in Seq(Inputs)
      /\ r.failures \in Seq(Failed)
      /\ r.outputs \in [Inputs -> Bytes \cup {NoOutput}]
      /\ Len(r.failures) \in Nat /\ Len(r.differences) \in Nat
  BY DEF Results
<1>2. CASE \E v \in {"store", "was", "now"} : o = FailedBy(v)
  <2>1. PICK v \in {"store", "was", "now"} : o = FailedBy(v)
    BY <1>2
  <2> DEFINE e == [input |-> i, version |-> v]
  <2>2. Collect(r, i, o) = [r EXCEPT !.failures = Append(r.failures, e)] /\ o.kind = "failed"
    BY <2>1 DEF Collect, FailedBy
  <2>3. Len(Append(r.failures, e)) = Len(r.failures) + 1
    BY <1>1
  <2>4. LET s == Collect(r, i, o)
        IN  /\ s.ran = r.ran /\ s.same = r.same /\ s.differences = r.differences
            /\ s.outputs = r.outputs /\ s.failures = Append(r.failures, e)
    BY <2>2 DEF Results
  <2> QED BY <1>1, <2>2, <2>3, <2>4
<1>3. CASE \E b \in Bytes, a \in Bytes : o = Compared(b, a)
  <2>1. PICK b \in Bytes, a \in Bytes : o = Compared(b, a)
    BY <1>3
  <2>2. Len(Append(r.differences, i)) = Len(r.differences) + 1
    BY <1>1
  <2>3. a # NoOutput
    BY FailsAssumption DEF NoOutput
  <2> DEFINE s == Collect(r, i, o)
  <2>4. /\ s.ran = r.ran + 1 /\ s.failures = r.failures
        /\ s.outputs = [r.outputs EXCEPT ![i] = a]
        /\ \/ s.same = r.same + 1 /\ s.differences = r.differences
           \/ s.same = r.same /\ s.differences = Append(r.differences, i)
    BY <2>1 DEF Collect, Compared, Results
  <2>5. o.kind = "ran"
    BY <2>1 DEF Compared
  <2>6. s.outputs[i] # NoOutput /\ \A j \in Inputs \ {i} : s.outputs[j] = r.outputs[j]
    BY <1>1, <2>3, <2>4
  <2> HIDE DEF s
  <2>7. s.ran + Len(s.failures) = r.ran + Len(r.failures) + 1
    BY <1>1, <2>4
  <2>8. r.ran = r.same + Len(r.differences) => s.ran = s.same + Len(s.differences)
    BY <1>1, <2>2, <2>4
  <2> QED BY <2>5, <2>6, <2>7, <2>8 DEF s
<1> QED BY <1>2, <1>3 DEF Outcomes

(* Nobody writes an outcome once the caller collects.                       *)
LEMMA OutcomesFinal ==
    ASSUME IInv, [Next]_vars
    PROVE  corpus' = corpus /\ (outcome' = outcome \/ (pos = 0 /\ pos' = pos))
<1> USE DEF workerVars, progressVars, resultVars
<1>1. CASE CallerStep \/ Cancel \/ UNCHANGED vars
  BY <1>1 DEF CallerStep, Close, Join, CheckContext, CollectNext, Return, Cancel, vars
<1>2. ASSUME NEW w \in Workers, Send(w) \/ WorkerStep(w)
      PROVE  corpus' = corpus /\ pos' = pos /\ caller \in {"send", "wait"}
  <2>1. UNCHANGED <<corpus, pos>> /\ (caller = "send" \/ worker[w] # "exited")
    BY <1>2 DEF Send, WorkerStep, Fetch, RunWas, RunNow, Count, EnterProgress,
                LeaveProgress, Exit
  <2> QED BY <2>1 DEF IInv, PhaseInv, TypeOK
<1>3. caller \in {"send", "wait"} => pos = 0
  BY DEF IInv, PhaseInv
<1> QED BY <1>1, <1>2, <1>3 DEF Next

LEMMA AccountStep == IInv /\ AccountInv /\ [Next]_vars => AccountInv'
<1> SUFFICES ASSUME IInv, AccountInv, [Next]_vars PROVE AccountInv'
  OBVIOUS
<1>0. TypeOK /\ CollectsTheFacts /\ PhaseInv
  BY DEF IInv
<1>1. CASE CollectNext
  <2> DEFINE i == pos + 1
             o == outcome[i]
  <2>1. /\ pos \in 0..N /\ pos < N /\ pos' = i /\ i \in Inputs /\ i \in Nat
        /\ UNCHANGED <<corpus, outcome, verdict>> /\ verdict = "running"
    BY <1>0, <1>1, NAssumption DEF CollectNext, TypeOK, PhaseInv, Inputs, workerVars
  <2>2. \A j \in Inputs : j <= i <=> j <= pos \/ j = i
    BY <2>1 DEF Inputs
  <2>3. CASE i \notin Active(corpus)
    <3>1. result' = result
      BY <1>1, <2>3 DEF CollectNext
    <3>2. Taken' = Taken
      BY <2>1, <2>2, <2>3 DEF Taken, Active
    <3> QED BY <2>1, <3>1, <3>2 DEF AccountInv
  <2>4. CASE i \in Active(corpus)
    <3>1. result' = Collect(result, i, o) /\ result \in Results
      BY <1>0, <1>1, <2>4 DEF CollectNext, TypeOK
    <3>2. o \in Outcomes /\ o # NotRun
      <4>1. o = ReplayOne(corpus[i]) /\ corpus[i] \in Facts
        BY <1>0, <1>1, <2>1, <2>4 DEF CollectNext, CollectsTheFacts, Active, TypeOK, Corpora
      <4> QED BY <4>1, ReplayOneType
    <3>3. Taken' = Taken \cup {i} /\ i \notin Taken
      BY <2>1, <2>2, <2>4 DEF Taken, Active
    <3>4. Cardinality(Taken') = Cardinality(Taken) + 1
      <4>1. IsFiniteSet(Taken)
        BY ActiveFinite DEF Taken, Active
      <4> QED BY <3>3, <4>1, FS_AddElement
    <3>5. /\ result'.ran + Len(result'.failures) = result.ran + Len(result.failures) + 1
          /\ result.ran = result.same + Len(result.differences)
               => result'.ran = result'.same + Len(result'.differences)
          /\ \A j \in Inputs \ {i} : result'.outputs[j] = result.outputs[j]
          /\ o.kind = "ran" => result'.outputs[i] # NoOutput
          /\ o.kind # "ran" => result'.outputs[i] = result.outputs[i]
      BY <2>1, <3>1, <3>2, CollectCounts
    <3>6. {j \in Inputs : result'.outputs[j] # NoOutput}
            = {j \in Taken' : outcome'[j].kind = "ran"}
      <4>1. {j \in Inputs : result.outputs[j] # NoOutput} = {j \in Taken : outcome[j].kind = "ran"}
        BY DEF AccountInv
      <4>2. Taken \subseteq Inputs
        BY DEF Taken, Active
      <4> QED BY <2>1, <3>3, <3>5, <4>1, <4>2
    <3> QED BY <2>1, <3>4, <3>5, <3>6 DEF AccountInv
  <2> QED BY <2>3, <2>4
<1>2. CASE ~CollectNext
  <2>1. result' = result /\ pos' = pos /\ (verdict' = verdict \/ verdict' = "cancelled" \/ pos = N)
    BY <1>2 DEF Next, CallerStep, Close, Join, CheckContext, Return, Cancel, vars, Send, WorkerStep,
            Fetch, RunWas, RunNow, Count, EnterProgress, LeaveProgress, Exit, resultVars
  <2>2. Taken' = Taken
    BY <2>1, OutcomesFinal DEF Taken
  <2>3. {i \in Taken : outcome'[i].kind = "ran"} = {i \in Taken : outcome[i].kind = "ran"}
    <3>1. CASE pos = 0
      BY <3>1 DEF Taken, Active, Inputs
    <3> QED BY <3>1, OutcomesFinal
  <2> QED BY <2>1, <2>2, <2>3 DEF AccountInv
<1> QED BY <1>1, <1>2

LEMMA AccountInitial == Init => AccountInv
<1> SUFFICES ASSUME Init PROVE AccountInv
  OBVIOUS
<1>1. pos = 0 /\ result = EmptyResult /\ verdict = "running"
  BY DEF Init
<1>2. Taken = {}
  BY <1>1 DEF Taken, Active, Inputs
<1> QED BY <1>1, <1>2, FS_EmptySet DEF AccountInv, EmptyResult

(* What the tally looks at, and what leaves it alone.                       *)
LEMMA TallyUnchanged ==
    ASSUME TallyInv, UNCHANGED <<outcome, done, told, counted>>,
           Counting' = Counting, Waiting' = Waiting
    PROVE  TallyInv'
<1>1. Finished' = Finished
  BY DEF Finished
<1> QED BY <1>1 DEF TallyInv

(* An input is finished once, and its worker is about to count it.          *)
LEMMA TallyFinish ==
    ASSUME WithProgress, IInv, TallyInv, NEW w \in Workers, NEW o \in Outcomes, Finish(w, o),
           worker[w] \in {"fetch", "was", "now"}, o # NotRun, UNCHANGED progressVars
    PROVE  TallyInv'
<1>1. /\ item[w] \in Inputs /\ outcome[item[w]] = NotRun
      /\ outcome \in [Inputs -> Outcomes] /\ worker' = [worker EXCEPT ![w] = "count"]
      /\ DOMAIN worker = Workers
      /\ outcome' = [outcome EXCEPT ![item[w]] = o]
  BY HandFacts DEF IInv, OneHand, HandInv, TypeOK, Finish
<1>2. Finished' = Finished \cup {item[w]} /\ item[w] \notin Finished
  BY <1>1 DEF Finished
<1>3. Counting' = Counting \cup {w} /\ w \notin Counting /\ Waiting' = Waiting
  BY <1>1 DEF Counting, Waiting
<1>4. IsFiniteSet(Finished) /\ IsFiniteSet(Counting)
  BY ActiveFinite, WorkersAssumption, FS_Subset DEF Finished, Counting
<1>5. Cardinality(Finished') = Cardinality(Finished) + 1
  BY <1>2, <1>4, FS_AddElement
<1>6. Cardinality(Counting') = Cardinality(Counting) + 1
  BY <1>3, <1>4, FS_AddElement
<1>7. done \in Nat /\ Cardinality(Counting) \in Nat
  BY <1>4, FS_CardinalityType DEF IInv, TypeOK
<1>8. done' + Cardinality(Counting') = Cardinality(Finished')
  BY <1>5, <1>6, <1>7 DEF TallyInv, progressVars
<1> QED BY <1>3, <1>8 DEF TallyInv, progressVars

(* The counter moves on by one, to a count nobody has told or holds.        *)
LEMMA TallyCount ==
    ASSUME IInv, TallyInv, NEW w \in Workers, Count(w)
    PROVE  TallyInv'
<1>1. /\ done \in Nat /\ done' = done + 1 /\ told' = told /\ outcome' = outcome
      /\ worker[w] = "count" /\ worker' = [worker EXCEPT ![w] = "lock"]
      /\ counted' = [counted EXCEPT ![w] = done + 1]
      /\ DOMAIN worker = Workers /\ DOMAIN counted = Workers
  BY DEF IInv, TypeOK, Count
<1>2. Counting' = Counting \ {w} /\ w \in Counting
  BY <1>1 DEF Counting
<1>3. Waiting' = Waiting \cup {w} /\ w \notin Waiting
  BY <1>1 DEF Waiting
<1>4. IsFiniteSet(Counting)
  BY WorkersAssumption, FS_Subset DEF Counting
<1>5. Cardinality(Counting') = Cardinality(Counting) - 1 /\ Cardinality(Counting) \in Nat
  BY <1>2, <1>4, FS_RemoveElement, FS_CardinalityType
<1>6. done' + Cardinality(Counting') = Cardinality(Finished')
  BY <1>1, <1>5 DEF TallyInv, Finished
<1>7. counted'[w] = done + 1 /\ \A v \in Waiting : v # w /\ counted'[v] = counted[v]
  BY <1>1, <1>3 DEF Waiting
<1>8. \A k \in 1..Len(told') : told'[k] \in 1..done' /\ told'[k] # done + 1
  BY <1>1 DEF TallyInv
<1>9. \A v \in Waiting' :
         /\ counted'[v] \in 1..done'
         /\ \A k \in 1..Len(told') : told'[k] # counted'[v]
         /\ \A u \in Waiting' : counted'[u] = counted'[v] => u = v
  BY <1>1, <1>3, <1>7, <1>8 DEF TallyInv
<1>10. \A n \in 1..done' : \/ \E k \in 1..Len(told') : told'[k] = n
                           \/ \E v \in Waiting' : counted'[v] = n
  <2> SUFFICES ASSUME NEW n \in 1..done'
               PROVE  \/ \E k \in 1..Len(told') : told'[k] = n
                      \/ \E v \in Waiting' : counted'[v] = n
    OBVIOUS
  <2>1. CASE n = done + 1
    BY <1>3, <1>7, <2>1
  <2>2. CASE n # done + 1
    <3>1. n \in 1..done
      BY <1>1, <2>2
    <3> QED BY <1>1, <1>3, <1>7, <3>1 DEF TallyInv
  <2> QED BY <2>1, <2>2
<1> QED BY <1>1, <1>6, <1>8, <1>9, <1>10 DEF TallyInv

(* A worker tells the count it holds, and holds it no more.                 *)
LEMMA TallyTell ==
    ASSUME IInv, TallyInv, NEW w \in Workers, EnterProgress(w)
    PROVE  TallyInv'
<1>1. /\ done' = done /\ outcome' = outcome /\ counted' = counted
      /\ told \in Seq(Nat) /\ told' = Append(told, counted[w]) /\ counted[w] \in Nat
      /\ worker[w] = "lock" /\ worker' = [worker EXCEPT ![w] = "progress"]
      /\ DOMAIN worker = Workers
  BY DEF IInv, TypeOK, EnterProgress
<1>2. Waiting' = Waiting \ {w} /\ w \in Waiting /\ Counting' = Counting
  BY <1>1 DEF Waiting, Counting
<1>3. /\ Len(told) \in Nat /\ Len(told') = Len(told) + 1
      /\ told'[Len(told) + 1] = counted[w]
      /\ \A k \in 1..Len(told) : told'[k] = told[k]
  BY <1>1
<1>4. \A k \in 1..Len(told') : k \in 1..Len(told) \/ k = Len(told) + 1
  BY <1>3
<1>5. \A k \in 1..Len(told') : told'[k] \in 1..done'
  BY <1>1, <1>2, <1>3, <1>4 DEF TallyInv
<1>6. \A k, l \in 1..Len(told') : told'[k] = told'[l] => k = l
  BY <1>2, <1>3, <1>4 DEF TallyInv
<1>7. \A v \in Waiting' :
         /\ counted'[v] \in 1..done'
         /\ \A k \in 1..Len(told') : told'[k] # counted'[v]
         /\ \A u \in Waiting' : counted'[u] = counted'[v] => u = v
  BY <1>1, <1>2, <1>3, <1>4 DEF TallyInv
<1>8. ASSUME NEW n \in 1..done'
      PROVE  \/ \E k \in 1..Len(told') : told'[k] = n
             \/ \E v \in Waiting' : counted'[v] = n
  <2>1. CASE \E k \in 1..Len(told) : told[k] = n
    BY <1>3, <2>1
  <2>2. CASE n = counted[w]
    BY <1>3, <2>2
  <2>3. CASE \E v \in Waiting : counted[v] = n /\ v # w
    BY <1>1, <1>2, <2>3
  <2> QED BY <1>1, <2>1, <2>2, <2>3 DEF TallyInv
<1>9. done' + Cardinality(Counting') = Cardinality(Finished')
  BY <1>1, <1>2 DEF TallyInv, Finished
<1> QED BY <1>5, <1>6, <1>7, <1>8, <1>9 DEF TallyInv

LEMMA TallyStep == WithProgress /\ IInv /\ TallyInv /\ [Next]_vars => TallyInv'
<1> SUFFICES ASSUME WithProgress, IInv, TallyInv, [Next]_vars PROVE TallyInv'
  OBVIOUS
<1>0. TypeOK
  BY DEF IInv
<1>1. CASE CallerStep \/ Cancel \/ UNCHANGED vars
  <2>1. UNCHANGED <<worker, outcome, done, told, counted>>
    BY <1>1 DEF CallerStep, Close, Join, CheckContext, CollectNext, Return, Cancel, vars,
            workerVars, progressVars
  <2> QED BY <2>1, TallyUnchanged DEF Counting, Waiting
<1>2. ASSUME NEW w \in Workers, Send(w) \/ LeaveProgress(w) \/ Exit(w)
      PROVE  TallyInv'
  <2>1. /\ worker[w] \in {"receive", "progress"}
        /\ \/ worker' = [worker EXCEPT ![w] = "fetch"]
           \/ worker' = [worker EXCEPT ![w] = "receive"]
           \/ worker' = [worker EXCEPT ![w] = "exited"]
        /\ counted' = counted \/ counted' = [counted EXCEPT ![w] = 0]
        /\ UNCHANGED <<outcome, done, told>>
    BY <1>2 DEF Send, LeaveProgress, Exit, progressVars
  <2>2. /\ Counting' = Counting /\ Waiting' = Waiting /\ w \notin Waiting
        /\ \A v \in Waiting : counted'[v] = counted[v]
    BY <1>0, <2>1 DEF Counting, Waiting, TypeOK
  <2>3. Finished' = Finished
    BY <2>1 DEF Finished
  <2> QED BY <2>1, <2>2, <2>3 DEF TallyInv
<1>3. ASSUME NEW w \in Workers, Fetch(w) \/ RunWas(w) \/ RunNow(w)
      PROVE  TallyInv'
  <2>1. worker[w] \in {"fetch", "was", "now"} /\ UNCHANGED progressVars
    BY <1>3 DEF Fetch, RunWas, RunNow
  <2>2. CASE \E o \in Outcomes : o # NotRun /\ Finish(w, o)
    BY <2>1, <2>2, TallyFinish
  <2>3. CASE /\ outcome' = outcome
             /\ \/ worker' = [worker EXCEPT ![w] = "was"]
                \/ worker' = [worker EXCEPT ![w] = "now"]
    <3>1. Counting' = Counting /\ Waiting' = Waiting
      BY <1>0, <2>1, <2>3 DEF Counting, Waiting, TypeOK
    <3> QED BY <2>1, <2>3, <3>1, TallyUnchanged DEF progressVars
  <2>4. ASSUME NEW v \in {"store", "was", "now"}
        PROVE  FailedBy(v) \in Outcomes /\ FailedBy(v) # NotRun
    <3>1. FailedBy(v).kind # NotRun.kind
      BY DEF FailedBy, NotRun
    <3> QED BY <3>1 DEF Outcomes
  <2>5. ASSUME NEW b \in Bytes, NEW a \in Bytes
        PROVE  Compared(b, a) \in Outcomes /\ Compared(b, a) # NotRun
    <3>1. Compared(b, a).kind # NotRun.kind
      BY DEF Compared, NotRun
    <3> QED BY <3>1 DEF Outcomes
  <2>6. CASE Fetch(w)
    BY <2>2, <2>3, <2>4, <2>6 DEF Fetch
  <2>7. CASE RunWas(w)
    BY <2>2, <2>3, <2>4, <2>7 DEF RunWas
  <2>8. CASE RunNow(w)
    <3>1. PICK out \in RunOf(corpus[item[w]].now) :
              Finish(w, IF out = Fails THEN FailedBy("now") ELSE Compared(before[w], out))
      BY <2>8 DEF RunNow
    <3>2. out \in Bytes \cup {Fails} /\ before[w] \in Bytes
      BY <2>8, HandFacts DEF RunNow, RunOf
    <3> QED BY <2>2, <2>4, <2>5, <3>1, <3>2
  <2> QED BY <1>3, <2>6, <2>7, <2>8
<1> QED BY <1>1, <1>2, <1>3, TallyCount, TallyTell DEF Next, WorkerStep

LEMMA TallyInitial == Init => TallyInv
<1> SUFFICES ASSUME Init PROVE TallyInv
  OBVIOUS
<1>1. Finished = {} /\ Counting = {} /\ Waiting = {}
  BY DEF Init, Finished, Counting, Waiting
<1>2. done = 0 /\ Len(told) = 0
  BY DEF Init
<1> QED BY <1>1, <1>2, FS_EmptySet DEF TallyInv

----------------------------------------------------------------------------
(* The theorems. *)

(* The invariant is inductive: it holds in every state of every replay.     *)
THEOREM Invariance == Spec => []IInv
<1>1. IInv /\ [Next]_vars => IInv'
  BY TypeStep, HandStep, OutcomeStep, PhaseStep, CollectStep DEF IInv
<1> QED BY Initial, <1>1, PTL DEF Spec

(* Every variable of Run keeps its type, the Result it returns included.    *)
THEOREM TypeCorrect == Spec => []TypeOK
<1>1. IInv => TypeOK
  BY DEF IInv
<1> QED BY Invariance, <1>1, PTL

(* The slots of outcomes[] are written without a lock, and no two workers   *)
(* ever hold the same index.                                                *)
THEOREM OneHandAlways == Spec => []OneHand
<1>1. IInv => OneHand
  BY DEF IInv
<1> QED BY Invariance, <1>1, PTL

(* What the caller collects are facts about the inputs: complete, final,    *)
(* and with no error of a cancelled context among them.                     *)
THEOREM CollectsTheFactsAlways == Spec => []CollectsTheFacts
<1>1. IInv => CollectsTheFacts
  BY DEF IInv
<1> QED BY Invariance, <1>1, PTL

(* A parallel replay reports exactly what a sequential one would: every step *)
(* of the pool is a step of the sequential replay or changes nothing of it. *)
THEOREM RefinesSequentialAlways == Spec => RefinesSequential
<1> USE DEF workerVars, progressVars, resultVars
<1>1. Init => Sequential!Init
  BY DEF Init, Sequential!Init, EmptyResult, Sequential!EmptyResult, NoOutput,
         Sequential!NoOutput, Inputs, Sequential!Inputs
<1>2. ASSUME IInv, [Next]_vars PROVE [Sequential!Next]_Sequential!vars
  <2> USE DEF Sequential!vars
  <2>1. CASE CheckContext
    <3>1. CASE cancelled
      <4>1. pos = 0 /\ verdict = "running"
        BY <1>2, <2>1 DEF CheckContext, IInv, PhaseInv
      <4> QED BY <2>1, <3>1, <4>1 DEF CheckContext, Sequential!Next, Sequential!Abort
    <3>2. CASE ~cancelled
      BY <2>1, <3>2 DEF CheckContext
    <3> QED BY <3>1, <3>2
  <2>2. CASE CollectNext
    <3>1. verdict = "running" /\ pos < N /\ pos + 1 \in Inputs
      BY <1>2, <2>2, NAssumption DEF CollectNext, IInv, PhaseInv, TypeOK, Inputs
    <3>2. outcome[pos + 1] = IF corpus[pos + 1].active
                             THEN ReplayOne(corpus[pos + 1]) ELSE NotRun
      BY <1>2, <2>2, <3>1 DEF CollectNext, IInv, CollectsTheFacts
    <3>3. result' = IF corpus[pos + 1].active
                    THEN Collect(result, pos + 1, ReplayOne(corpus[pos + 1]))
                    ELSE result
      BY <2>2, <3>1, <3>2 DEF CollectNext, Active
    <3>4. \A f : Sequential!ReplayOne(f) = ReplayOne(f)
      BY DEF ReplayOne, Sequential!ReplayOne, FailedBy, Sequential!FailedBy,
             Compared, Sequential!Compared
    <3>5. \A r, i, o : Sequential!Collect(r, i, o) = Collect(r, i, o)
      BY DEF Collect, Sequential!Collect
    <3> QED BY <2>2, <3>1, <3>3, <3>4, <3>5
            DEF CollectNext, Sequential!Next, Sequential!Report
  <2>3. CASE Return
    BY <1>2, <2>3 DEF Return, IInv, PhaseInv, Sequential!Next, Sequential!Finish
  <2>4. CASE Close \/ Join \/ Cancel \/ UNCHANGED vars
    BY <2>4 DEF Close, Join, Cancel, vars
  <2>5. ASSUME NEW w \in Workers, Send(w) \/ WorkerStep(w)
        PROVE  UNCHANGED Sequential!vars
    BY <2>5 DEF Send, WorkerStep, Fetch, RunWas, RunNow, Count, EnterProgress,
                LeaveProgress, Exit
  <2> QED BY <1>2, <2>1, <2>2, <2>3, <2>4, <2>5 DEF Next, CallerStep
<1> QED BY Invariance, <1>1, <1>2, PTL DEF Spec, RefinesSequential, Sequential!Spec

(* A replay that returns without an error has lost no input: each is counted *)
(* once, as run or as failed, each run as same or as a difference, and there *)
(* is an output of exactly those that ran.                                  *)
THEOREM EveryInputAccountedForAlways == Spec => []EveryInputAccountedFor
<1>1. IInv /\ AccountInv => EveryInputAccountedFor
  <2> SUFFICES ASSUME IInv, AccountInv, verdict = "done"
               PROVE  /\ result.ran + Len(result.failures) = Cardinality(Active(corpus))
                      /\ result.ran = result.same + Len(result.differences)
                      /\ {i \in Inputs : result.outputs[i] # NoOutput}
                           = {i \in Active(corpus) : outcome[i].kind = "ran"}
    BY DEF EveryInputAccountedFor
  <2>1. Taken = Active(corpus)
    BY NAssumption DEF AccountInv, Taken, Active, Inputs
  <2> QED BY <2>1 DEF AccountInv
<1> QED BY <1>1, Invariance, AccountInitial, AccountStep, PTL DEF Spec

(* Progress is told every count from one to the number of active inputs, and *)
(* each of them once, when the pool has been joined, cancelled or not.      *)
THEOREM ProgressCompleteAlways == Spec => []ProgressComplete
<1>1. IInv /\ (WithProgress => TallyInv) => ProgressComplete
  <2> SUFFICES ASSUME IInv, TallyInv, caller \notin {"send", "wait"}
               PROVE  /\ Len(told) = Cardinality(Active(corpus))
                      /\ {told[k] : k \in DOMAIN told} = 1..Cardinality(Active(corpus))
    BY DEF ProgressComplete
  <2>1. queue = {} /\ \A w \in Workers : worker[w] = "exited" /\ item[w] = NoItem
    BY DEF IInv, TypeOK, PhaseInv, HandInv
  <2>2. Counting = {} /\ Waiting = {}
    BY <2>1 DEF Counting, Waiting
  <2>3. Finished = Active(corpus)
    <3>1. \A i \in Active(corpus) : i # NoItem /\ i \in Inputs
      BY NAssumption DEF Active, Inputs, NoItem
    <3> QED BY <2>1, <3>1 DEF IInv, OutcomeInv, Finished
  <2>4. done = Cardinality(Active(corpus)) /\ done \in Nat
    BY <2>2, <2>3, FS_EmptySet DEF TallyInv, IInv, TypeOK
  <2>5. told \in Seq(Nat) /\ Len(told) \in Nat /\ DOMAIN told = 1..Len(told)
    BY DEF IInv, TypeOK
  <2>6. {told[k] : k \in DOMAIN told} = 1..done
    BY <2>2, <2>5 DEF TallyInv
  <2>7. told \in Surjection(1..Len(told), 1..done) /\ told \in Injection(1..Len(told), 1..done)
    <3>1. told \in [1..Len(told) -> 1..done]
      BY <2>5 DEF TallyInv
    <3>2. \A n \in 1..done : \E k \in 1..Len(told) : told[k] = n
      BY <2>2 DEF TallyInv
    <3> QED BY <3>1, <3>2 DEF TallyInv, Surjection, Injection, IsInjective
  <2>8. Cardinality(1..done) = Cardinality(1..Len(told)) /\ IsFiniteSet(1..Len(told))
    BY <2>5, <2>7, FS_Interval, FS_Surjection
  <2>9. Len(told) = done
    <3>1. \A n \in Nat : Cardinality(1..n) = n
      <4>1. ASSUME NEW n \in Nat PROVE Cardinality(1..n) = n
        <5>1. n \in Int /\ 1 \in Int /\ (IF 1 > n THEN 0 ELSE n - 1 + 1) = n
          OBVIOUS
        <5> QED BY <5>1, FS_Interval
      <4> QED BY <4>1
    <3> QED BY <2>4, <2>5, <2>8, <3>1
  <2> QED BY <2>4, <2>6, <2>9
<1>2. CASE WithProgress
  <2>1. IInv /\ TallyInv /\ [Next]_vars => TallyInv'
    BY <1>2, TallyStep
  <2>2. IInv /\ TallyInv => ProgressComplete
    BY <1>1
  <2> QED BY <2>1, <2>2, Invariance, TallyInitial, PTL DEF Spec
<1>3. CASE ~WithProgress
  <2>1. IInv => ProgressComplete
    BY <1>1, <1>3
  <2> QED BY <2>1, Invariance, PTL
<1> QED BY <1>2, <1>3

=============================================================================
