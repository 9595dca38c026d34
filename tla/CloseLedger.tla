------------------------------ MODULE CloseLedger ------------------------------
(***************************************************************************)
(* The life of a difference: a replay finds it, a close discharges it      *)
(* against the artifact that must back it (pkg/replay Ledger, `germline    *)
(* close`), and a replay that follows reads the verdict off the manifest.  *)
(*                                                                         *)
(* A boundary close rests on an entry that is published in BOUNDARY.md and *)
(* whose source is committed: the decline in the decision record, or the   *)
(* entry of BOUNDARY.md while the record carries no decline.  An entry is  *)
(* the set of its lines, because approval is asked of each line.  Record,  *)
(* file and commits move while a close or a replay runs.                   *)
(*                                                                         *)
(* One close and one replay run at a time.  A close loads the manifest and *)
(* saves it in one step here; a replay works on the manifest it loaded     *)
(* before the run, and with -record it saves that one, over whatever was   *)
(* closed or proposed meanwhile.                                           *)
(***************************************************************************)
EXTENDS Naturals, FiniteSets, Sequences

CONSTANTS
    Hashes, Versions, Outs, Blank, Whole, None,     \* As in Manifest.
    Decisions,    \* The decisions there can be.
    Laws,         \* The names of laws found under laws/.
    NoLaw,        \* A name that is not one of them.
    Observables,  \* What the boundary can decline.
    Lines,        \* What an entry can consist of.
    Start,        \* The manifest to begin with.
    Keys,         \* The differences there can be: input, from, to.
    MaxChanges    \* Bound: edits of the record and of BOUNDARY.md, and builds
                  \* of the versions under replay.

\* What a close says for itself: the decision, the law or the entry it names,
\* and the lines whose commits it gives as the approval.
Cites == [decision : Decisions, names : Laws \cup Observables \cup {NoLaw, None},
          approval : SUBSET Lines]

INSTANCE Manifest WITH Reasons <- Cites

ASSUME CitesAssumption == Blank \notin Cites /\ None \notin Cites \cup {Blank}

ASSUME StartAssumption == IsManifest(Start) /\ Validate(Start)

ASSUME KeysAssumption ==
    Keys \subseteq Ids \X Versions \X Versions

ASSUME NamesAssumption ==
    /\ NoLaw \notin Laws /\ None \notin Laws \cup Observables \cup {NoLaw}
    /\ Laws \cap Observables = {} /\ NoLaw \notin Observables

ASSUME BoundsAssumption == MaxChanges \in Nat

VARIABLES
    file,          \* corpus/manifest.json.
    decisions,     \* The decisions the record carries.
    record,        \* The declines it carries: the lines of each observable's.
    boundary,      \* The entries of BOUNDARY.md.
    heads,         \* record and boundary as committed.
    carried,       \* The lines of each entry that some commit carried.
    published,     \* The observables BOUNDARY.md ever declined.
    pc, job, doc,  \* The close that runs: where it is, the close it was asked
                   \* for, and the observables of the BOUNDARY.md it loaded.
    shown,         \* The differences the builds under replay show now.
    copy, seen,    \* The replay that runs: the closes and proposals it loaded;
    verdict,       \* the differences and the verdict of the last that ended.
    changes        \* How often texts were edited and versions rebuilt.

artifacts == <<decisions, record, boundary, heads, carried, published>>
closing == <<pc, job, doc>>
replaying == <<copy, seen, verdict>>
vars == <<file, artifacts, closing, shown, replaying, changes>>

Nothing == [o \in Observables |-> {}]

NoJob == None

Init ==
    /\ file = Start
    /\ decisions = {}
    /\ record = Nothing
    /\ boundary = Nothing
    /\ heads = [record |-> Nothing, boundary |-> Nothing]
    /\ carried = Nothing
    /\ published = {}
    /\ pc = "idle" /\ job = NoJob /\ doc = {}
    /\ shown = {}
    /\ copy = None /\ seen = {} /\ verdict = "none"
    /\ changes = 0

----------------------------------------------------------------------------
(* The record, the boundary and their commits. *)

\* The observables a text has an entry for.
Declared(text) == {o \in Observables : text[o] # {}}

\* A decision is recorded; the record keeps those it supersedes.
Decide(d) ==
    /\ decisions' = decisions \cup {d}
    /\ UNCHANGED <<file, record, boundary, heads, carried, published, closing,
                   shown, replaying, changes>>

Change == changes < MaxChanges /\ changes' = changes + 1

Edit ==
    /\ Change
    /\ UNCHANGED <<file, decisions, heads, carried, closing, shown, replaying>>

\* Somebody writes, changes or withdraws a decline in the record.
WriteDecline(o, lines) ==
    /\ Edit
    /\ lines # record[o]
    /\ record' = [record EXCEPT ![o] = lines]
    /\ UNCHANGED <<boundary, published>>

\* Somebody does so with an entry of BOUNDARY.md.
WriteEntry(o, lines) ==
    /\ Edit
    /\ lines # boundary[o]
    /\ boundary' = [boundary EXCEPT ![o] = lines]
    /\ published' = published \cup Declared(boundary')
    /\ UNCHANGED record

\* The record is the source as soon as it carries a decline.
Sourced == Declared(record) # {}

\* germline boundary -write.  An entry the record does not carry is refused;
\* while the file is the source its entries stay what they are.
Publish ==
    /\ Sourced
    /\ Declared(boundary) \subseteq Declared(record)
    /\ boundary' = record
    /\ published' = published \cup Declared(boundary')
    /\ UNCHANGED <<file, decisions, record, heads, carried, closing, shown,
                   replaying, changes>>

Text(which) == IF which = "record" THEN record ELSE boundary

\* A person reviews one of the two and commits it.
Commit(which) ==
    /\ heads' = [heads EXCEPT ![which] = Text(which)]
    /\ carried' = [o \in Observables |-> carried[o] \cup Text(which)[o]]
    /\ UNCHANGED <<file, decisions, record, boundary, published, closing, shown,
                   replaying, changes>>

----------------------------------------------------------------------------
(* germline close. *)

\* entrySource: where an entry's lines are looked up.
Source == IF Sourced THEN "record" ELSE "boundary"

\* Mutant of Approved: to be written is enough.
Written(o) == Text(Source)[o] # {}

\* Approver: there is a source, and every line of it is in a commit.  A line
\* taken out of a committed entry leaves no line that is not.
Approved(o) ==
    /\ Text(Source)[o] # {}
    /\ Text(Source)[o] \subseteq heads[Source][o]

\* The command is given a close and loads BOUNDARY.md.
StartClose(d) ==
    /\ pc = "idle"
    /\ pc' = "judging"
    /\ job' = d
    /\ doc' = Declared(boundary)
    /\ UNCHANGED <<file, artifacts, shown, replaying, changes>>

\* Mutant of Decided: a decision needs no record.
DecidedAnyway(d) == d.reason # Blank

\* A reason, and a decision that the record carries.
Decided(d) == d.reason # Blank /\ d.reason.decision \in decisions

\* The evidence each kind of close demands beside its decision: none, a law
\* that is registered, an entry that is published.
Evidenced(d) ==
    /\ d.as = "law" => d.reason.names \in Laws
    /\ d.as = "boundary" => d.reason.names \in doc

WithApproval(d, lines) == [d EXCEPT !.reason.approval = lines]

\* The ledger lets the close through, with what approved its entry.
Judge ==
    /\ pc = "judging"
    /\ Decided(job) /\ Evidenced(job)
    /\ job.as = "boundary" => Approved(job.reason.names)
    /\ pc' = "accepting"
    /\ job' = IF job.as = "boundary"
              THEN WithApproval(job, Text(Source)[job.reason.names])
              ELSE job
    /\ UNCHANGED <<file, artifacts, doc, shown, replaying, changes>>

\* All but the approval is there: ErrAwaitingHuman.
JudgeAwaiting ==
    /\ pc = "judging"
    /\ Decided(job) /\ Evidenced(job)
    /\ job.as = "boundary" /\ ~Approved(job.reason.names)
    /\ pc' = "proposing"
    /\ UNCHANGED <<file, artifacts, job, doc, shown, replaying, changes>>

\* Mutant of EndClose: the close at hand is kept for the next command.
EndCloseKeeping == pc' = "idle" /\ doc' = {} /\ UNCHANGED job

EndClose == pc' = "idle" /\ job' = NoJob /\ doc' = {}

\* The manifest is loaded, and saved with the close appended,
Accept ==
    /\ pc = "accepting"
    /\ job.input \in Listed(file)
    /\ MayAccept(file, job)
    /\ file' = Accepted(file, job)
    /\ EndClose
    /\ UNCHANGED <<artifacts, shown, replaying, changes>>

\* or with the proposal that waits on a human.
Propose ==
    /\ pc = "proposing"
    /\ job.input \in Listed(file)
    /\ file' = Proposed(file, job)
    /\ EndClose
    /\ UNCHANGED <<artifacts, shown, replaying, changes>>

\* The close is refused, fails or is killed.
GiveUp ==
    /\ pc # "idle"
    /\ EndClose
    /\ UNCHANGED <<file, artifacts, shown, replaying, changes>>

----------------------------------------------------------------------------
(* germline replay. *)

\* A version is built again, and other inputs differ.
Build(differences) ==
    /\ Change
    /\ differences # shown
    /\ shown' = differences
    /\ UNCHANGED <<file, artifacts, closing, replaying>>

\* The manifest is loaded before the run, and read again never.
StartReplay ==
    /\ copy = None
    /\ Validate(file)
    /\ copy' = file
    /\ seen' = {}
    /\ verdict' = "none"
    /\ UNCHANGED <<file, artifacts, closing, shown, changes>>

\* Mutant of Verdict: a proposal is as good as a close.
VerdictProposed(m, differences, failed) ==
    IF Unproposed(m, Open(m, differences)) # {} \/ failed THEN "fail" ELSE "pass"

\* What the exit says: work left, a human awaited, or done.
Verdict(m, differences, failed) ==
    IF Unproposed(m, Open(m, differences)) # {} \/ failed THEN "fail"
    ELSE IF Awaiting(m, Open(m, differences)) # {} THEN "wait" ELSE "pass"

\* What the run finds, of the differences on inputs the copy has active, and
\* says, with an input that could not be compared or without.
Report(m, failed) ==
    /\ seen' = {k \in shown : k[1] \in Active(copy)}
    /\ verdict' = Verdict(m, seen', failed)
    /\ copy' = None
    /\ UNCHANGED <<artifacts, closing, shown, changes>>

EndReplay(failed) ==
    /\ copy # None
    /\ Report(copy, failed)
    /\ UNCHANGED file

\* With -record the copy is saved with the outputs of the new version v on the
\* inputs that ran, and the verdict is read off what was saved.
EndReplayRecording(v, outputs) ==
    LET ran == {i \in Listed(copy) : outputs[i] # None}
    IN  /\ copy # None
        /\ ran \subseteq Active(copy)
        /\ Active(copy) # {} => ran # {}
        /\ MayRecordOutputs(copy, v, outputs)
        /\ file' = OutputsRecorded(copy, v, outputs)
        /\ Report(file', ran # Active(copy))

\* It is killed, or fails, or an output disagrees with the one on record.
StopReplay ==
    /\ copy # None
    /\ copy' = None
    /\ UNCHANGED <<file, artifacts, closing, shown, seen, verdict, changes>>

----------------------------------------------------------------------------

\* The closes the command can be asked for.  Without a reason it is refused
\* whatever its kind, so one kind stands for all.
Asked ==
    {d \in [input : {k[1] : k \in Keys}, from : {k[2] : k \in Keys},
            to : {k[3] : k \in Keys}, as : Closes,
            reason : [decision : Decisions,
                      names : Laws \cup Observables \cup {NoLaw, None},
                      approval : {{}}] \cup {Blank}] :
        /\ Key(d) \in Keys
        /\ IF d.reason = Blank THEN d.as = "implementation" ELSE
              CASE d.as = "law" -> d.reason.names \in Laws \cup {NoLaw}
                [] d.as = "boundary" -> d.reason.names \in Observables
                [] OTHER -> d.reason.names = None}

Next ==
    \/ \E d \in Decisions : Decide(d)
    \/ \E o \in Observables, lines \in SUBSET Lines :
          WriteDecline(o, lines) \/ WriteEntry(o, lines)
    \/ Publish
    \/ \E which \in {"record", "boundary"} : Commit(which)
    \/ \E d \in Asked : StartClose(d)
    \/ Judge \/ JudgeAwaiting
    \/ Accept \/ Propose
    \/ GiveUp
    \/ \E differences \in SUBSET Keys : Build(differences)
    \/ StartReplay
    \/ \E failed \in BOOLEAN : EndReplay(failed)
    \/ /\ copy # None
       /\ \E v \in {k[3] : k \in Keys}, outputs \in [Listed(copy) -> Outs \cup {None}] :
             EndReplayRecording(v, outputs)
    \/ StopReplay

Spec == Init /\ [][Next]_vars

----------------------------------------------------------------------------
(* What must hold. *)

Texts == [Observables -> SUBSET Lines]

TypeOK ==
    /\ IsManifest(file)
    /\ decisions \subseteq Decisions
    /\ record \in Texts /\ boundary \in Texts /\ carried \in Texts
    /\ heads \in [{"record", "boundary"} -> Texts]
    /\ published \subseteq Observables
    /\ pc \in {"idle", "judging", "accepting", "proposing"}
    /\ IF pc = "idle" THEN job = NoJob ELSE job \in Diffs
    /\ doc \subseteq Observables
    /\ shown \subseteq Keys /\ seen \subseteq Keys
    /\ IF copy = None THEN TRUE ELSE IsManifest(copy)
    /\ verdict \in {"none", "pass", "wait", "fail"}
    /\ changes \in 0..MaxChanges

\* Every accepted close has the evidence of its kind behind it, whatever was
\* edited, withdrawn or committed while it was judged: a decision, a law that
\* is registered, or an entry that was published and whose every line, as the
\* approver read it, was in a commit.
EvidenceBehindEveryClose ==
    \A k \in DOMAIN file.diffs :
        LET d == file.diffs[k] IN
            /\ d.reason # Blank /\ d.reason.decision \in decisions
            /\ d.as = "law" => d.reason.names \in Laws
            /\ d.as = "boundary" =>
                  /\ d.reason.names \in published
                  /\ d.reason.approval # {}
                  /\ d.reason.approval \subseteq carried[d.reason.names]

\* No two closes of one difference: a reader never has two reasons to pick from.
OneCloseEach ==
    \A k, l \in DOMAIN file.diffs : Key(file.diffs[k]) = Key(file.diffs[l]) => k = l

\* A verdict read off a stale copy of the manifest stands: of a replay that
\* passed every difference is closed, and of one that waits on a human every
\* difference is closed or waits, whatever closes were saved meanwhile.
VerdictsStand ==
    /\ verdict = "pass" => seen \subseteq ClosedKeys(file)
    /\ verdict = "wait" => seen \subseteq ClosedKeys(file) \cup ProposedKeys(file)

\* A difference somebody accounted for stays accounted for: no close is lost,
\* and a proposal goes only when a close of the same difference comes.  A
\* replay -record alone may lose some, and no more than were saved while it ran.
AccountedForStays ==
    [][LET kept == IF copy # None /\ copy' = None THEN copy ELSE file
       IN  /\ ClosedKeys(kept) \subseteq ClosedKeys(file')
           /\ ProposedKeys(kept) \subseteq ProposedKeys(file') \cup ClosedKeys(file')]_vars

=============================================================================
