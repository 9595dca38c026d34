------------------------------ MODULE ReplayData ------------------------------
(***************************************************************************)
(* The data of a replay (pkg/replay/replay.go): what is true of each       *)
(* recorded input, what one input's replay produces (type outcome), and    *)
(* what a whole replay reports (type Result).                              *)
(*                                                                         *)
(* Inputs are named by their position in the manifest, 1..N.  Bytes are    *)
(* abstracted to a set Bytes of outputs that are equal or are not.         *)
(***************************************************************************)
EXTENDS Naturals, Sequences

CONSTANTS
    N,           \* How many inputs the manifest holds.
    Bytes,       \* The outputs a version can produce for an input.
    Fails        \* A version's run of an input that ends in an error.

ASSUME NAssumption == N \in Nat

ASSUME FailsAssumption == Fails \notin Bytes

Inputs == 1..N

\* What decides an input's replay: whether the manifest lists it as active,
\* whether its data file is present and hashes to its name, and what each
\* version does with it.  A replay runs a version on an input once, so fixing
\* what it will do beforehand loses nothing, not even of a flaky subject.
Facts == [active : BOOLEAN, intact : BOOLEAN, was : Bytes \cup {Fails},
          now : Bytes \cup {Fails}]

\* A corpus gives every input its facts.
Corpora == [Inputs -> Facts]

Active(corpus) == {i \in Inputs : corpus[i].active}

----------------------------------------------------------------------------
(* Outcomes. *)

\* The outcome array starts zeroed: no error, and not run.
NotRun == [kind |-> "not run"]

\* Who raised the error: the version replayed, or "store" for the empty
\* failedVersion of an input the store could not produce.
FailedBy(v) == [kind |-> "failed", version |-> v]

Compared(before, after) == [kind |-> "ran", was |-> before, now |-> after]

Outcomes ==
    {NotRun}
      \cup {FailedBy(v) : v \in {"store", "was", "now"}}
      \cup {Compared(b, a) : b \in Bytes, a \in Bytes}

\* What replayOne produces for an input when nobody cancels it.
ReplayOne(facts) ==
    IF ~facts.intact THEN FailedBy("store")
    ELSE IF facts.was = Fails THEN FailedBy("was")
    ELSE IF facts.now = Fails THEN FailedBy("now")
    ELSE Compared(facts.was, facts.now)

----------------------------------------------------------------------------
(* Results. *)

\* Result.Outputs is a map: the inputs with an output, and which.
NoOutput == Fails

Results == [ran : Nat, same : Nat,
            differences : Seq(Inputs),
            failures    : Seq([input : Inputs, version : {"store", "was", "now"}]),
            outputs     : [Inputs -> Bytes \cup {NoOutput}]]

EmptyResult == [ran |-> 0, same |-> 0, differences |-> <<>>, failures |-> <<>>,
                outputs |-> [i \in Inputs |-> NoOutput]]

\* Mutant of Collect: a failure replaces the ones before it.
CollectLastFailure(r, i, o) ==
    IF o.kind = "failed"
    THEN [r EXCEPT !.failures = <<[input |-> i, version |-> o.version]>>]
    ELSE IF o.kind = "not run" THEN r
    ELSE [r EXCEPT !.ran = @ + 1, !.outputs[i] = o.now,
                   !.same = IF o.was = o.now THEN @ + 1 ELSE @,
                   !.differences = IF o.was = o.now THEN @ ELSE Append(@, i)]

\* One turn of the loop at the end of Run: what outcome o of input i adds.
Collect(r, i, o) ==
    CASE o.kind = "failed" ->
            [r EXCEPT !.failures = Append(@, [input |-> i, version |-> o.version])]
      [] o.kind = "not run" -> r
      [] o.kind = "ran" /\ o.was = o.now ->
            [r EXCEPT !.ran = @ + 1, !.same = @ + 1, !.outputs[i] = o.now]
      [] o.kind = "ran" /\ o.was # o.now ->
            [r EXCEPT !.ran = @ + 1, !.differences = Append(@, i),
                      !.outputs[i] = o.now]

=============================================================================
