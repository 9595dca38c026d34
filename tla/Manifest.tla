------------------------------- MODULE Manifest -------------------------------
(***************************************************************************)
(* The corpus manifest (pkg/corpus) and the operations on it that the      *)
(* commands share: what a manifest is, when it validates, when it is an    *)
(* append to an earlier one, and how recording an input, recording         *)
(* outputs, reweighting and closing a difference change it.                *)
(*                                                                         *)
(* inputs is a function from ids to recordings.  Manifest.Save writes the  *)
(* inputs sorted by id, so the function is the file's list; a file that    *)
(* names one id twice, which Validate refuses, is not represented.         *)
(* sha stands for the three fields fixed at recording: the content hash,   *)
(* recorded_at and the confidentiality level.  A weight counts the parts   *)
(* of a profile of Whole parts.                                            *)
(***************************************************************************)
EXTENDS Naturals, Sequences, FiniteSetsExt, Functions

CONSTANTS
    Hashes,      \* The recordings there can be, by content hash.
    Versions,    \* The versions of the system under replay.
    Outs,        \* The outputs a version can be recorded with, by hash.
    Reasons,     \* What a close or a retirement says for itself: the decision
                 \* it names and a line of its reason.
    Blank,       \* One that leaves part of it out.
    Whole,       \* The operational profile.
    None         \* No output, no retirement event.

ASSUME WholeAssumption == Whole \in Nat

ASSUME NoneAssumption == None \notin Outs \cup Reasons \cup {Blank}

ASSUME BlankAssumption == Blank \notin Reasons

Ids == Nat \ {0}

Closes == {"implementation", "law", "boundary"}

Recordings == [sha : Hashes, weight : Nat, status : {"active", "retired"},
               retired : Reasons \cup {Blank, None},
               outputs : [Versions -> Outs \cup {None}]]

Diffs == [input : Ids, from : Versions, to : Versions, as : Closes,
          reason : Reasons \cup {Blank}]

IsManifest(m) ==
    /\ m \in [inputs : {m.inputs}, diffs : Seq(Diffs), proposed : SUBSET Diffs]
    /\ m.inputs \in [DOMAIN m.inputs -> Recordings]
    /\ DOMAIN m.inputs \subseteq Ids /\ IsFiniteSet(DOMAIN m.inputs)

\* Load of a file that does not exist, and New.
Empty == [inputs |-> [i \in {} |-> None], diffs |-> <<>>, proposed |-> {}]

Listed(m) == DOMAIN m.inputs

Active(m) == {i \in Listed(m) : m.inputs[i].status = "active"}

\* diffKey: what a close is a close of.
Key(d) == <<d.input, d.from, d.to>>

ClosedKeys(m) == {Key(m.diffs[k]) : k \in DOMAIN m.diffs}

ProposedKeys(m) == {Key(d) : d \in m.proposed}

----------------------------------------------------------------------------
(* Manifest.Validate: the manifest against itself. *)

\* A retired input carries a complete retirement event, an active one none.
ValidRecording(in) ==
    /\ in.weight <= Whole
    /\ in.status = "active" => in.retired = None
    /\ in.status = "retired" => in.retired \in Reasons

ActiveWeight(m) == SumFunction([i \in Active(m) |-> m.inputs[i].weight])

\* A close names a decision and a reason and an input of the manifest.
\* Nothing is asked of two closes of one difference.
ValidDiff(m, d) == d.reason # Blank /\ d.input \in Listed(m)

Validate(m) ==
    /\ \A i \in Listed(m) : ValidRecording(m.inputs[i])
    /\ ActiveWeight(m) <= Whole
    /\ \A k \in DOMAIN m.diffs : ValidDiff(m, m.diffs[k])

----------------------------------------------------------------------------
(* VerifyAppendOnly: an earlier manifest against a later one. *)

\* Mutant of KeepsStatus: only an event that is still there is compared.
KeepsEvent(old, cur) == old.retired # None => cur.retired \in {old.retired, None}

KeepsStatus(old, cur) ==
    /\ old.status = "retired" => cur.status = "retired"
    /\ old.retired # None => cur.retired = old.retired

\* compareInput.  The weight is the one field that may move.
KeepsRecording(old, cur) ==
    /\ cur.sha = old.sha
    /\ \A v \in Versions : old.outputs[v] # None => cur.outputs[v] = old.outputs[v]
    /\ KeepsStatus(old, cur)

\* compareDiffs: the later closes are indexed by difference, and of two
\* closes of one difference the index keeps the last.
KeepsDiffs(was, now) ==
    \A k \in DOMAIN was : \E j \in DOMAIN now :
        /\ now[j] = was[k]
        /\ \A l \in DOMAIN now : Key(now[l]) = Key(was[k]) => l <= j

VerifyAppendOnly(was, now) ==
    /\ \A i \in Listed(was) :
          i \in Listed(now) /\ KeepsRecording(was.inputs[i], now.inputs[i])
    /\ KeepsDiffs(was.diffs, now.diffs)

----------------------------------------------------------------------------
(* germline record. *)

\* Mutant of NextID: the highest id there is.
HighestID(m) == IF Listed(m) = {} THEN 0 ELSE Max(Listed(m))

\* nextID: one past the highest id there is.
NextID(m) == IF Listed(m) = {} THEN 1 ELSE Max(Listed(m)) + 1

\* Mutant of FoundByHash: only an active input counts.
FoundActive(m, h) == \E i \in Active(m) : m.inputs[i].sha = h

FoundByHash(m, h) == \E i \in Listed(m) : m.inputs[i].sha = h

NewRecording(h, w) ==
    [sha |-> h, weight |-> w, status |-> "active", retired |-> None,
     outputs |-> [v \in Versions |-> None]]

\* The manifest with a recording of h appended; a hash it has is left alone.
Recorded(m, h, w) ==
    IF FoundByHash(m, h) THEN m
    ELSE [m EXCEPT !.inputs = [i \in Listed(m) \cup {NextID(m)} |->
             IF i \in Listed(m) THEN m.inputs[i] ELSE NewRecording(h, w)]]

----------------------------------------------------------------------------
(* germline reweight -uniform: the profile in even shares over the active
   inputs, rounded down here as the floats are not.  A retired input keeps
   its weight. *)

Reweighted(m) ==
    [m EXCEPT !.inputs = [i \in Listed(m) |->
        IF i \in Active(m)
        THEN [m.inputs[i] EXCEPT !.weight = Whole \div Cardinality(Active(m))]
        ELSE m.inputs[i]]]

----------------------------------------------------------------------------
(* germline replay -record: Result.Record.  outputs gives what version v put
   out on the inputs that ran, and None on the others. *)

\* Mutant of Disagreeing: the record is not looked at.
DisagreeingNowhere(m, v, outputs) == {}

\* Those whose recorded output for v is another than the one of this replay.
Disagreeing(m, v, outputs) ==
    {i \in Listed(m) :
        outputs[i] # None /\ m.inputs[i].outputs[v] \notin {None, outputs[i]}}

\* Mutant of MayRecordOutputs: a disagreement is passed over.
AlwaysRecordOutputs(m, v, outputs) == v \in Versions

\* Record's error: an output is never rewritten.
MayRecordOutputs(m, v, outputs) == Disagreeing(m, v, outputs) = {}

\* The inputs are taken in order, and the first disagreement ends it.
TakesOutputs(m, v, outputs) ==
    {i \in Listed(m) : outputs[i] # None /\ \A j \in Disagreeing(m, v, outputs) : i < j}

\* What is then in the copy, whether Record went through or not.
OutputsRecorded(m, v, outputs) ==
    [m EXCEPT !.inputs = [i \in Listed(m) |->
        IF i \in TakesOutputs(m, v, outputs)
        THEN [m.inputs[i] EXCEPT !.outputs[v] = outputs[i]]
        ELSE m.inputs[i]]]

----------------------------------------------------------------------------
(* germline close: Accept and Propose, and what a replay makes of them. *)

\* Mutant of MayAccept: only the very same close is refused.
MayAcceptAgain(m, d) == \A k \in DOMAIN m.diffs : m.diffs[k] # d

\* Closing the same difference twice is refused.
MayAccept(m, d) == Key(d) \notin ClosedKeys(m)

Accepted(m, d) ==
    [inputs |-> m.inputs,
     diffs |-> Append(m.diffs, d),
     proposed |-> {p \in m.proposed : Key(p) # Key(d)}]

\* Mutant of Proposed: the earlier proposals deleted are those of any difference.
ProposedAlone(m, d) == [m EXCEPT !.proposed = {d}]

\* A proposal replaces any earlier one for the same difference.
Proposed(m, d) == [m EXCEPT !.proposed = {p \in @ : Key(p) # Key(d)} \cup {d}]

\* Of the differences a replay found, those no accepted close discharges, and
\* of these those that wait on a human.
Open(m, differences) == {k \in differences : k \notin ClosedKeys(m)}

Awaiting(m, open) == open \cap ProposedKeys(m)

Unproposed(m, open) == open \ ProposedKeys(m)

=============================================================================
