----------------------------- MODULE MCReplayRun -----------------------------
(* Model checking of ReplayRun: which corpora TLC starts from. *)
EXTENDS ReplayRun

\* The lives one input can have: retired, lost from the store, failing under
\* either version, the same under both, different.
Fact(active, intact, was, now) ==
    [active |-> active, intact |-> intact, was |-> was, now |-> now]

Retired  == Fact(FALSE, TRUE, "a", "b")
Lost     == Fact(TRUE, FALSE, "a", "b")
WasFails == Fact(TRUE, TRUE, Fails, "b")
NowFails == Fact(TRUE, TRUE, "a", Fails)
Same     == Fact(TRUE, TRUE, "a", "a")
Differs  == Fact(TRUE, TRUE, "a", "b")

MCBytes == {"a", "b"}

\* Every life in the first place, and in the places after it the ones that
\* tell the order of the report: two differences and a failure or retirement.
MCWorlds ==
    {c \in [1..3 -> {Retired, Lost, WasFails, NowFails, Same, Differs}] :
        c[2] \in {Retired, WasFails, Differs} /\ c[3] \in {NowFails, Differs}}

\* The least corpus in which two workers can tell their counts out of order.
TwoDiffer == {[i \in 1..2 |-> Differs]}

=============================================================================
