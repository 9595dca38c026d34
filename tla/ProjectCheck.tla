----------------------------- MODULE ProjectCheck -----------------------------
(***************************************************************************)
(* germline check of a whole project (internal/project): BOUNDARY.md, the  *)
(* corpus manifest, the recorded data and the decision record, each        *)
(* against itself and against the others, on the machine the project is    *)
(* worked on and in a clone of its last commit.                            *)
(*                                                                         *)
(* The record is one the project ships in its decisions directory, or one  *)
(* elsewhere that git config names and that several projects share.  The   *)
(* layout of BOUNDARY.md is BoundaryProjection's: here it is a list of     *)
(* entries.  The manifest is Manifest's; the reasons its events give are   *)
(* the decisions they cite.                                                *)
(***************************************************************************)
EXTENDS Manifest, DecisionRecord

CONSTANTS
    Systems,      \* The names the project's directory may have.
    Records,      \* What a decision record may hold.
    NoRecord,     \* No such directory.
    Unset,        \* git config names no record.
    Starts,       \* The trees a project may begin with.
    Entries,      \* What a person may write into BOUNDARY.md.
    MaxEntries,   \* Bound: entries of a list that is written by hand.
    MaxEdits      \* Bound: edits, renames and configurations in a behaviour.

ASSUME NoRecordAssumption == NoRecord \notin Records /\ Unset \notin Records \cup {NoRecord}

\* A record is a list of files, and a file one of declarations.
ASSUME ShapesAssumption ==
    /\ \A r \in Records :
          r \in Seq(Range(r)) /\ \A f \in Range(r) : f.decls \in Seq(Range(f.decls))
    /\ \A t \in Starts :
          /\ t = [doc |-> t.doc, own |-> t.own, data |-> t.data, manifest |-> t.manifest]
          /\ t.own \in Records \cup {NoRecord}

VARIABLES
    system,      \* The directory's name.
    tree,        \* The working tree: entries, own record, manifest and data.
    head,        \* The same at HEAD.
    shared,      \* What the record elsewhere holds; NoRecord when it is gone.
    configured,  \* Whether git config names it.
    tracksData,  \* Whether the recorded data is committed.
    edits        \* Counts edits.

vars == <<system, tree, head, shared, configured, tracksData, edits>>

\* A project somewhere: what germline check is run on.
Project(name, at, committed, config) ==
    [system |-> name, tree |-> at, head |-> committed, config |-> config]

Here == Project(system, tree, head, IF configured THEN shared ELSE Unset)

----------------------------------------------------------------------------
(* Where the decision record is. *)

NoStore == [dir |-> Unset, own |-> FALSE]

\* storeDir; or with -store the project's own directory, named from where the
\* command is run as in "-store examples/querystring/decisions".  It is the
\* same record, and not the same string as the path it is compared with.
StoreOf(p, flag) ==
    CASE flag = "none" /\ p.tree.own # NoRecord -> [dir |-> p.tree.own, own |-> TRUE]
      [] flag = "none" /\ p.tree.own = NoRecord -> [dir |-> p.config, own |-> FALSE]
      [] flag = "named" -> [dir |-> p.tree.own, own |-> FALSE]

\* ErrNoStore, or a record that does not load.
StoreFails(store) == store.dir = NoRecord \/ LoadFails(store.dir)

----------------------------------------------------------------------------
(* The boundary and its record. *)

Published(d) ==
    [observable |-> d.observable, since |-> d.since, reason |-> d.reason,
     decision |-> d.decision]

ForSystem(p, all) == Picked(all, {i \in DOMAIN all : all[i].system = <<p.system>>})

\* Mutant of RecordedFails: a decline of another system is somebody else's.
RecordedFailsOnLoad(p, store) == StoreFails(store)

\* Recorded's errors.  A record the project ships is for nobody else.
RecordedFails(p, store) ==
    \/ StoreFails(store)
    \/ store.own /\ \E d \in Range(Declines(store.dir)) : d.system # <<p.system>>

RecordedEntries(p, store) ==
    LET mine == ForSystem(p, Declines(store.dir))
    IN  [i \in DOMAIN mine |-> Published(mine[i])]

\* Mutant of Sourced: a record without declines for this system is no source.
SourcedForSystem(p, store) ==
    store # NoStore /\ ~RecordedFails(p, store) /\ RecordedEntries(p, store) # <<>>

\* The record leads as soon as it declines something for any system.
Sourced(p, store) ==
    store # NoStore /\ ~RecordedFails(p, store) /\ Declines(store.dir) # <<>>

Observables(entries) == {e.observable : e \in Range(entries)}

\* What stands in the way of a projection.
Unprojectable(p, store) ==
    \/ store # NoStore /\ RecordedFails(p, store)
    \/ /\ Sourced(p, store)
       /\ ~(Observables(p.tree.doc) \subseteq Observables(RecordedEntries(p, store)))

BoundaryAgrees(p, store) ==
    /\ ~Unprojectable(p, store)
    /\ Sourced(p, store) => p.tree.doc = RecordedEntries(p, store)

DocumentValid(doc) ==
    /\ IsInjective([i \in DOMAIN doc |-> doc[i].observable])
    /\ \A e \in Range(doc) :
         e.observable # <<>> /\ e.since # <<>> /\ e.reason # <<>> /\ e.decision # NoSubject

----------------------------------------------------------------------------
(* The corpus, and the citations of both. *)

\* A corpus with no data here at all is not checked.
InputsPresent(p) ==
    p.tree.data # {} =>
        \A i \in Active(p.tree.manifest) : p.tree.manifest.inputs[i].sha \in p.tree.data

Cited(p) ==
    {e.decision : e \in Range(p.tree.doc)}
      \cup {d.reason : d \in Range(p.tree.manifest.diffs)}
      \cup ({in.retired : in \in Range(p.tree.manifest.inputs)} \ {None})

\* Mutant of CitationsResolve: a citation with no record to resolve it is a problem.
CitationsResolveOrFail(p, store) ==
    IF store = NoStore THEN Cited(p) = {}
    ELSE ~StoreFails(store) /\ Missing(store.dir, Cited(p)) = {}

\* No record configured is not a problem.
CitationsResolve(p, store) ==
    store # NoStore => ~StoreFails(store) /\ Missing(store.dir, Cited(p)) = {}

\* No problem is found, and germline check exits 0.
Green(p, flag) ==
    LET store == StoreOf(p, flag)
    IN  /\ DocumentValid(p.tree.doc)
        /\ BoundaryAgrees(p, store)
        /\ Validate(p.tree.manifest)
        /\ VerifyAppendOnly(p.head.manifest, p.tree.manifest)
        /\ InputsPresent(p)
        /\ CitationsResolve(p, store)

----------------------------------------------------------------------------
(* What happens to a project. *)

Init ==
    /\ system \in Systems
    /\ tree \in Starts
    /\ head = tree
    /\ shared \in Records \cup {NoRecord}
    /\ configured \in BOOLEAN
    /\ tracksData \in BOOLEAN
    /\ edits = 0

Counted == edits < MaxEdits /\ edits' = edits + 1

Change(now) ==
    /\ now # tree
    /\ Counted
    /\ tree' = now
    /\ UNCHANGED <<system, head, shared, configured, tracksData>>

\* A person writes an entry, or takes one out.
EditDocument ==
    \/ \E e \in Entries :
          Len(tree.doc) < MaxEntries /\ Change([tree EXCEPT !.doc = Append(@, e)])
    \/ \E i \in DOMAIN tree.doc : Change([tree EXCEPT !.doc = RemoveAt(@, i)])

\* germline boundary -write, where it does not refuse.
WriteBoundary ==
    LET store == StoreOf(Here, "none")
    IN  /\ ~Unprojectable(Here, store)
        /\ Sourced(Here, store)
        /\ Change([tree EXCEPT !.doc = RecordedEntries(Here, store)])

EditOwn == \E r \in Records \cup {NoRecord} : Change([tree EXCEPT !.own = r])

\* germline record of a file.
Record(h) ==
    Change([tree EXCEPT !.manifest = Recorded(@, h, 0), !.data = @ \cup {h}])

\* A person retires an input, which is an edit of the manifest.
Retire(i, r) ==
    /\ i \in Active(tree.manifest)
    /\ Change([tree EXCEPT !.manifest.inputs[i].status = "retired",
                           !.manifest.inputs[i].retired = r])

LoseData(h) == Change([tree EXCEPT !.data = @ \ {h}])

\* The record elsewhere is edited, moved away or put there.
EditShared ==
    /\ Counted
    /\ \E r \in Records \cup {NoRecord} : shared' = r
    /\ UNCHANGED <<system, tree, head, configured, tracksData>>

Configure ==
    /\ Counted
    /\ configured' = ~configured
    /\ UNCHANGED <<system, tree, head, shared, tracksData>>

Rename ==
    /\ Counted
    /\ \E name \in Systems \ {system} : system' = name
    /\ UNCHANGED <<tree, head, shared, configured, tracksData>>

Commit ==
    /\ head' = tree
    /\ UNCHANGED <<system, tree, shared, configured, tracksData, edits>>

Next ==
    \/ EditDocument \/ WriteBoundary \/ EditOwn
    \/ \E h \in Hashes : Record(h) \/ LoseData(h)
    \/ \E i \in Listed(tree.manifest), r \in Reasons : Retire(i, r)
    \/ EditShared \/ Configure \/ Rename \/ Commit

Spec == Init /\ [][Next]_vars

----------------------------------------------------------------------------
(* A clone. *)

\* What git gives of a tree: recorded data where it is tracked, and no
\* directory that has no file.
Tracked(at) ==
    [at EXCEPT !.data = IF tracksData THEN @ ELSE {},
               !.own = IF @ = <<>> THEN NoRecord ELSE @]

\* A clone of HEAD into a directory of the same name, without a configuration.
Clone == Project(system, Tracked(head), Tracked(head), Unset)

----------------------------------------------------------------------------
(* What must hold. *)

\* "No record configured is not a problem": what is green where it was
\* committed from is green in a clone and on a CI runner, whether the record is
\* in the repository or private, and the recorded data all there or not at all.
CloneStaysGreen ==
    Green(Here, "none") /\ Tracked(tree) = Tracked(head) => Green(Clone, "none")

\* "A promise withdrawn in the record and still published in the file ... is
\* the one direction this must never fail quietly in": a green check with the
\* record the project ships, or without one that git config names, means that
\* the file has every declaration the reader takes for a decline, as it reads
\* it; in the record elsewhere those that name another system are that
\* system's.  The reader takes a declaration whose observable is computed for
\* no decline.  With -store see OwnRecordIsForNobodyElse.
NothingDeclinedIsUnpublished ==
    LET store == StoreOf(Here, "none")
    IN  Green(Here, "none") /\ store.dir # Unset =>
          \A decl \in Range(Memories(store.dir)) : IsDecline(decl) =>
              \/ Published(DeclineOf(decl)) \in Range(tree.doc)
              \/ tree.own = NoRecord /\ DeclineOf(decl).system \notin {<<>>, <<system>>}

\* "A record the project ships with itself serves nobody else, and a decline
\* naming another system is this project's own entry under the wrong name:
\* skipping it would publish a boundary missing it and call the check green."
\* So it does where -store names that record: the code is at odds with this.
OwnRecordIsForNobodyElse ==
    Green(Here, "named") =>
        \A d \in Range(Declines(tree.own)) : Published(d) \in Range(tree.doc)

\* "Renaming the directory disconnects a project from its own declines, and the
\* only defense built for that is that it fails loudly": a green project whose
\* record has declines for it, and has none under the new name, is red.
RenameIsLoud ==
    [][LET before == StoreOf(Here, "none") after == StoreOf(Here', "none")
       IN  /\ Rename /\ Green(Here, "none") /\ before # NoStore
           /\ RecordedEntries(Here, before) # <<>>
           /\ RecordedEntries(Here', after) = <<>>
           => ~Green(Here', "none")]_vars

=============================================================================
