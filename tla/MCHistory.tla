------------------------------- MODULE MCHistory -------------------------------
(* Model checking of History: the manifests a history starts from. *)
EXTENDS History, TLC

\* Two recordings, one with an output and a close, one retired.
Grown ==
    [inputs |-> 1 :> [sha |-> "h1", weight |-> 1, status |-> "active", retired |-> None,
                      outputs |-> ("v1" :> "a" @@ "v2" :> None)]
             @@ 2 :> [sha |-> "h2", weight |-> 0, status |-> "retired", retired |-> "r1",
                      outputs |-> ("v1" :> None @@ "v2" :> None)],
     diffs |-> <<[input |-> 1, from |-> "v1", to |-> "v2", as |-> "law", reason |-> "r1"]>>,
     proposed |-> {}]

MCStarts == {Empty, Grown}
MCHashes == {"h1", "h2"}
MCVersions == {"v1", "v2"}
MCOuts == {"a", "b"}
MCReasons == {"r1", "r2"}

=============================================================================
