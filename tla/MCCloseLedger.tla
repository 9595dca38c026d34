----------------------------- MODULE MCCloseLedger -----------------------------
(* Model checking of CloseLedger: a difference on each of two inputs, whose   *)
(* outputs are on record already, so that recording them again adds nothing.  *)
EXTENDS CloseLedger, TLC

Input == [sha |-> "h1", weight |-> 1, status |-> "active", retired |-> None,
          outputs |-> [v \in {"v1", "v2"} |-> "a"]]

MCStart == [inputs |-> 1 :> Input @@ 2 :> [Input EXCEPT !.sha = "h2"],
            diffs |-> <<>>, proposed |-> {}]

MCKeys == {<<1, "v1", "v2">>, <<2, "v1", "v2">>}

\* The lines of an entry are told apart by nothing.
LineSymmetry == Permutations(Lines)

MCHashes == {"h1", "h2"}
MCVersions == {"v1", "v2"}
MCOuts == {"a"}

=============================================================================
