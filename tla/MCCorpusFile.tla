----------------------------- MODULE MCCorpusFile -----------------------------
(* Model checking of CorpusFile: the corpora it starts from, what the        *)
(* versions put out, and what a record is given.                             *)
EXTENDS CorpusFile, TLC

MCHashes == {"h1", "h2"}
MCVersions == {"v1", "v2"}
MCOuts == {"a", "b"}
MCReasons == {"r1"}

\* The versions agree on h1 and differ on h2.
MCOut(v, h) == IF v = "v1" THEN "a" ELSE IF h = "h1" THEN "a" ELSE "b"

MCFiles == {<<"h1">>, <<"h2">>, <<"h1", "h2">>, <<"h2", "h2">>}

\* Nothing recorded; h1 and then retired; or both, h2 with an output of v1 that
\* v1 does not produce any more.
One == [Empty EXCEPT !.inputs = 1 :> NewRecording("h1", 0)]
Gone == [One EXCEPT !.inputs[1].status = "retired", !.inputs[1].retired = "r1"]
Drifted == [Recorded(One, "h2", 0) EXCEPT !.inputs[2].outputs["v1"] = "b"]

MCStarts == {Empty, Gone, Drifted}

\* No command is different from another.
ProcSymmetry == Permutations(Procs)

=============================================================================
