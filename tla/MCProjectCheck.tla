---------------------------- MODULE MCProjectCheck ----------------------------
(* Two names, a decision that declines, one that retires, and records that     *)
(* decline for either system, for one nobody can read, or not at all.          *)
EXTENDS ProjectCheck

Decl(name, of) ==
    [name |-> name, exported |-> TRUE, object |-> "literal", system |-> of,
     observable |-> <<"plus">>, since |-> <<"1">>, reason |-> <<"legacy", "forms">>,
     subject |-> "D1"]

Claim(name) ==
    [name |-> name, exported |-> TRUE, object |-> "none", system |-> <<>>,
     observable |-> <<>>, since |-> <<>>, reason |-> <<>>, subject |-> "D1"]

File(decls) == [test |-> FALSE, parses |-> TRUE, decls |-> decls]

Claims == File(<<Claim("D1")>>)

ForA == Decl("PlusIsASpace", <<"a">>)
ForB == [Decl("CaseIsOpen", <<"b">>) EXCEPT !.observable = <<"case">>]
Draft == [ForA EXCEPT !.exported = FALSE]
Built == [ForA EXCEPT !.system = <<Computed>>]

\* The claims alone; with a decline for a, with one for each, with one whose
\* system is a constant's name, with a draft of one and a test beside it; a
\* directory without a file, and one with a file that does not parse.
MCRecords ==
    {<<Claims>>, <<Claims, File(<<ForA>>)>>, <<Claims, File(<<ForA, ForB>>)>>,
     <<Claims, File(<<Built>>)>>,
     <<Claims, File(<<Draft>>), [File(<<ForB>>) EXCEPT !.test = TRUE]>>,
     <<>>, <<[Claims EXCEPT !.parses = FALSE]>>}

EntryA == Published(DeclineOf(ForA))
EntryB == Published(DeclineOf(ForB))

MCEntries == {EntryA, EntryB, [EntryB EXCEPT !.decision = "D2"]}

Start(doc, own, recorded) ==
    [doc |-> doc, own |-> own, data |-> recorded,
     manifest |-> FoldSet(LAMBDA h, m : Recorded(m, h, 0), Empty, recorded)]

\* Nothing yet; a project with its own record, and one that publishes the same
\* from a record elsewhere, if from any.
MCStarts ==
    {Start(<<>>, NoRecord, {}), Start(<<EntryA>>, <<Claims, File(<<ForA>>)>>, {"h1"}),
     Start(<<EntryA>>, NoRecord, {"h1", "h2"})}

MCHashes == {"h1", "h2"}
MCReasons == {"D1", "D2"}
MCSystems == {"a", "b"}

=============================================================================
