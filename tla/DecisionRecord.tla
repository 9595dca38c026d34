---------------------------- MODULE DecisionRecord ----------------------------
(***************************************************************************)
(* The decision record (pkg/decide): a directory of Go files whose         *)
(* exported variables are the memories, some of which decline a promise.   *)
(* It is read by its shape and never run.                                  *)
(*                                                                         *)
(* A record is the sequence of its files, by name.  A file is its          *)
(* declarations, whether it parses and whether it is a test.  A string     *)
(* expression is the sequence of what it joins: pieces of literal text and *)
(* Computed ones, a constant's name or a call.                             *)
(***************************************************************************)
EXTENDS Integers, Sequences, SequencesExt, Picking

CONSTANTS Computed    \* A piece of a string that is no literal.

\* A subject that no identifier begins.
NoSubject == ""

\* stringValue: what is not a literal reads as nothing.
StringValue(expr) == SelectSeq(expr, LAMBDA piece : piece # Computed)

----------------------------------------------------------------------------

\* What declined makes of a declaration that has a composite literal for its
\* Object: the entry it publishes and the system that declines it.
DeclineOf(decl) ==
    [system |-> StringValue(decl.system), observable |-> StringValue(decl.observable),
     since |-> StringValue(decl.since), reason |-> StringValue(decl.reason),
     decision |-> decl.subject]

IsDecline(decl) == decl.object = "literal" /\ DeclineOf(decl).observable # <<>>

Incomplete(d) ==
    d.system = <<>> \/ d.since = <<>> \/ d.reason = <<>> \/ d.decision = NoSubject

\* A test is skipped, and so is a declaration that is not exported: a draft.
FilesRead(record) == Picked(record, {i \in DOMAIN record : ~record[i].test})

MemoriesOf(file) == Picked(file.decls, {i \in DOMAIN file.decls : file.decls[i].exported})

Memories(record) ==
    FlattenSeq([i \in DOMAIN FilesRead(record) |-> MemoriesOf(FilesRead(record)[i])])

\* Winze.load fails as a whole on a file that does not parse and on a decline
\* the projection cannot use.
LoadFails(record) ==
    \/ \E f \in Range(FilesRead(record)) : ~f.parses
    \/ \E d \in Range(Memories(record)) : IsDecline(d) /\ Incomplete(DeclineOf(d))

Names(record) == {d.name : d \in Range(Memories(record))}

\* In the order they are declared in.
Declines(record) ==
    LET all  == Memories(record)
        them == Picked(all, {i \in DOMAIN all : IsDecline(all[i])})
    IN  [i \in DOMAIN them |-> DeclineOf(them[i])]

\* A citation of nothing is passed over: the artifact's own check reports it.
Missing(record, cited) == cited \ (Names(record) \cup {NoSubject})

=============================================================================
