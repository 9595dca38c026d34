-------------------------- MODULE CloseLedgerProofs --------------------------
(***************************************************************************)
(* Proofs about CloseLedger, for any artifacts, entries, differences and   *)
(* builds: types, the evidence behind every close, one close for each      *)
(* difference, that what is accounted for stays so, and that verdicts      *)
(* stand.                                                                  *)
(***************************************************************************)
EXTENDS CloseLedger, TLAPS

----------------------------------------------------------------------------
(* What Accept and Propose make of a manifest. *)

(* Accept appends one close and takes away the proposals it settles.        *)
LEMMA AcceptedFacts ==
    ASSUME NEW m, IsManifest(m), NEW d \in Diffs
    PROVE  /\ IsManifest(Accepted(m, d))
           /\ Accepted(m, d).diffs = Append(m.diffs, d)
           /\ ClosedKeys(Accepted(m, d)) = ClosedKeys(m) \cup {Key(d)}
           /\ ProposedKeys(Accepted(m, d)) = ProposedKeys(m) \ {Key(d)}
<1> DEFINE n == Accepted(m, d)
<1>1. m.diffs \in Seq(Diffs) /\ m.proposed \in SUBSET Diffs
  BY DEF IsManifest
<1>2. n = [inputs |-> m.inputs, diffs |-> Append(m.diffs, d),
           proposed |-> {p \in m.proposed : Key(p) # Key(d)}]
  BY DEF Accepted
<1>3. n.diffs \in Seq(Diffs) /\ n.proposed \in SUBSET Diffs
  BY <1>1, <1>2
<1>4. IsManifest(n)
  BY <1>2, <1>3 DEF IsManifest
<1>5. ClosedKeys(n) = ClosedKeys(m) \cup {Key(d)}
  <2>1. /\ DOMAIN n.diffs = DOMAIN m.diffs \cup {Len(m.diffs) + 1}
        /\ n.diffs[Len(m.diffs) + 1] = d
        /\ \A k \in DOMAIN m.diffs : n.diffs[k] = m.diffs[k]
    BY <1>1, <1>2
  <2> HIDE DEF n
  <2> QED BY <2>1 DEF ClosedKeys
<1>6. ProposedKeys(n) = ProposedKeys(m) \ {Key(d)}
  BY <1>2 DEF ProposedKeys
<1> QED BY <1>2, <1>4, <1>5, <1>6

(* Propose leaves one proposal for the difference and every other alone.    *)
LEMMA ProposedFacts ==
    ASSUME NEW m, IsManifest(m), NEW d \in Diffs
    PROVE  /\ IsManifest(Proposed(m, d))
           /\ Proposed(m, d).diffs = m.diffs
           /\ ClosedKeys(Proposed(m, d)) = ClosedKeys(m)
           /\ ProposedKeys(Proposed(m, d)) = ProposedKeys(m) \cup {Key(d)}
<1> DEFINE n == Proposed(m, d)
<1>1. m \in [inputs : {m.inputs}, diffs : Seq(Diffs), proposed : SUBSET Diffs]
  BY DEF IsManifest
<1> DEFINE rest == {p \in m.proposed : Key(p) # Key(d)} \cup {d}
<1>2. n = [inputs |-> m.inputs, diffs |-> m.diffs, proposed |-> rest]
  <2>1. n = [m EXCEPT !.proposed = rest]
    BY DEF Proposed
  <2> HIDE DEF n, rest
  <2> QED BY <1>1, <2>1
<1>3. n.proposed \in SUBSET Diffs
  BY <1>1, <1>2
<1>4. IsManifest(n)
  BY <1>1, <1>2, <1>3 DEF IsManifest
<1>5. ProposedKeys(n) = ProposedKeys(m) \cup {Key(d)}
  BY <1>2 DEF ProposedKeys
<1> QED BY <1>2, <1>4, <1>5 DEF ClosedKeys

(* A replay's outputs change the inputs alone, whichever of them it takes.  *)
LEMMA OutputsRecordedFacts ==
    ASSUME NEW m, IsManifest(m), NEW v \in Versions,
           NEW outputs \in [Listed(m) -> Outs \cup {None}]
    PROVE  /\ IsManifest(OutputsRecorded(m, v, outputs))
           /\ OutputsRecorded(m, v, outputs).diffs = m.diffs
           /\ OutputsRecorded(m, v, outputs).proposed = m.proposed
<1> DEFINE f == [i \in Listed(m) |->
                   IF i \in TakesOutputs(m, v, outputs)
                   THEN [m.inputs[i] EXCEPT !.outputs[v] = outputs[i]]
                   ELSE m.inputs[i]]
           n == OutputsRecorded(m, v, outputs)
<1>1. /\ m \in [inputs : {m.inputs}, diffs : Seq(Diffs), proposed : SUBSET Diffs]
      /\ Listed(m) \subseteq Ids /\ IsFiniteSet(Listed(m))
      /\ m.inputs \in [Listed(m) -> Recordings]
  BY DEF IsManifest, Listed
<1>2. f \in [Listed(m) -> Recordings]
  <2> SUFFICES ASSUME NEW i \in Listed(m), i \in TakesOutputs(m, v, outputs)
               PROVE  [m.inputs[i] EXCEPT !.outputs[v] = outputs[i]] \in Recordings
    BY <1>1
  <2>1. m.inputs[i] \in Recordings /\ outputs[i] \in Outs
    BY <1>1 DEF TakesOutputs
  <2> QED BY <2>1 DEF Recordings
<1>3. n = [m EXCEPT !.inputs = f]
  BY DEF OutputsRecorded
<1> HIDE DEF f, n
<1>4. n = [inputs |-> f, diffs |-> m.diffs, proposed |-> m.proposed]
  BY <1>1, <1>3
<1>5. IsManifest(n)
  BY <1>1, <1>2, <1>4 DEF IsManifest
<1> QED BY <1>4, <1>5 DEF n

(* What the command can be asked for is a close, and carries no approval.   *)
LEMMA AskedAreDiffs == Asked \subseteq Diffs
<1> SUFFICES ASSUME NEW d \in Asked PROVE d \in Diffs
  OBVIOUS
<1>1. /\ d \in [input : {k[1] : k \in Keys}, from : {k[2] : k \in Keys},
                to : {k[3] : k \in Keys}, as : Closes,
                reason : [decision : Decisions,
                          names : Laws \cup Observables \cup {NoLaw, None},
                          approval : {{}}] \cup {Blank}]
  BY DEF Asked
<1>2. /\ {k[1] : k \in Keys} \subseteq Ids
      /\ {k[2] : k \in Keys} \subseteq Versions
      /\ {k[3] : k \in Keys} \subseteq Versions
  BY KeysAssumption
<1>3. [decision : Decisions, names : Laws \cup Observables \cup {NoLaw, None},
       approval : {{}}] \subseteq Cites
  BY DEF Cites
<1> QED BY <1>1, <1>2, <1>3 DEF Diffs

(* The approval is added to a close that has a reason; nothing else of it   *)
(* changes.                                                                 *)
LEMMA ApprovedFacts ==
    ASSUME NEW d \in Diffs, d.reason # Blank, NEW lines \in SUBSET Lines
    PROVE  /\ WithApproval(d, lines) \in Diffs
           /\ WithApproval(d, lines).as = d.as
           /\ WithApproval(d, lines).reason # Blank
           /\ WithApproval(d, lines).reason.decision = d.reason.decision
           /\ WithApproval(d, lines).reason.names = d.reason.names
           /\ WithApproval(d, lines).reason.approval = lines
<1> DEFINE e == WithApproval(d, lines)
<1> DEFINE r == [d.reason EXCEPT !.approval = lines]
<1>1. /\ d \in [input : Ids, from : Versions, to : Versions, as : Closes,
                reason : Cites \cup {Blank}]
      /\ d.reason \in [decision : Decisions,
                       names : Laws \cup Observables \cup {NoLaw, None},
                       approval : SUBSET Lines]
  BY DEF Diffs, Cites
<1>2. r = [decision |-> d.reason.decision, names |-> d.reason.names, approval |-> lines]
  BY <1>1
<1>3. r \in Cites
  BY <1>1, <1>2 DEF Cites
<1>4. e = [d EXCEPT !.reason = r]
  BY <1>1 DEF WithApproval
<1> HIDE DEF e, r
<1>5. e = [input |-> d.input, from |-> d.from, to |-> d.to, as |-> d.as, reason |-> r]
  BY <1>1, <1>4
<1>6. e \in Diffs /\ e.as = d.as /\ e.reason = r
  BY <1>1, <1>3, <1>5 DEF Diffs
<1>7. r # Blank
  BY <1>3, CitesAssumption
<1> QED BY <1>2, <1>6, <1>7 DEF e, r

----------------------------------------------------------------------------
(* Types. *)

(* Every step keeps the types.                                              *)
LEMMA TypeStep == TypeOK /\ [Next]_vars => TypeOK'
<1> SUFFICES ASSUME TypeOK, [Next]_vars PROVE TypeOK'
  OBVIOUS
<1> USE DEF TypeOK
<1>1. ASSUME NEW d \in Decisions, Decide(d) PROVE TypeOK'
  BY <1>1 DEF Decide, closing, replaying
<1>2. ASSUME NEW o \in Observables, NEW lines \in SUBSET Lines,
             WriteDecline(o, lines)
      PROVE  TypeOK'
  BY <1>2, BoundsAssumption DEF WriteDecline, Edit, Change, closing, replaying, Texts
<1>3. ASSUME NEW o \in Observables, NEW lines \in SUBSET Lines,
             WriteEntry(o, lines)
      PROVE  TypeOK'
  BY <1>3, BoundsAssumption
  DEF WriteEntry, Edit, Change, closing, replaying, Texts, Declared
<1>4. ASSUME Publish PROVE TypeOK'
  BY <1>4 DEF Publish, closing, replaying, Declared
<1>5. ASSUME NEW which \in {"record", "boundary"}, Commit(which) PROVE TypeOK'
  <2>1. Text(which) \in Texts
    BY DEF Text
  <2>2. heads' \in [{"record", "boundary"} -> Texts] /\ carried' \in Texts
    BY <1>5, <2>1 DEF Commit, Texts
  <2> QED BY <1>5, <2>2 DEF Commit, closing, replaying
<1>6. ASSUME NEW d \in Asked, StartClose(d) PROVE TypeOK'
  BY <1>6, AskedAreDiffs DEF StartClose, artifacts, replaying, Declared
<1>7. ASSUME Judge PROVE TypeOK'
  <2>1. job \in Diffs /\ job.reason # Blank
    BY <1>7 DEF Judge, Decided
  <2>2. job' \in Diffs
    <3>1. CASE job.as = "boundary"
      <4>1. job.reason.names \in Observables
        BY <1>7, <3>1 DEF Judge, Evidenced
      <4>2. Text(Source)[job.reason.names] \in SUBSET Lines
        BY <4>1 DEF Text, Source, Texts
      <4> QED BY <1>7, <2>1, <3>1, <4>2, ApprovedFacts DEF Judge
    <3>2. CASE job.as # "boundary"
      BY <1>7, <2>1, <3>2 DEF Judge
    <3> QED BY <3>1, <3>2
  <2> QED BY <1>7, <2>2 DEF Judge, artifacts, replaying
<1>8. ASSUME JudgeAwaiting PROVE TypeOK'
  BY <1>8 DEF JudgeAwaiting, artifacts, replaying
<1>9. ASSUME Accept PROVE TypeOK'
  <2>1. IsManifest(file')
    BY <1>9, AcceptedFacts DEF Accept
  <2> QED BY <1>9, <2>1 DEF Accept, EndClose, artifacts, replaying
<1>10. ASSUME Propose PROVE TypeOK'
  <2>1. IsManifest(file')
    BY <1>10, ProposedFacts DEF Propose
  <2> QED BY <1>10, <2>1 DEF Propose, EndClose, artifacts, replaying
<1>11. ASSUME GiveUp PROVE TypeOK'
  BY <1>11 DEF GiveUp, EndClose, artifacts, replaying
<1>12. ASSUME NEW differences \in SUBSET Keys, Build(differences) PROVE TypeOK'
  BY <1>12, BoundsAssumption DEF Build, Change, artifacts, closing, replaying
<1>13. ASSUME StartReplay PROVE TypeOK'
  BY <1>13 DEF StartReplay, artifacts, closing
<1>14. ASSUME NEW failed \in BOOLEAN, EndReplay(failed) PROVE TypeOK'
  <2>1. verdict' \in {"pass", "wait", "fail"}
    BY <1>14 DEF EndReplay, Report, Verdict
  <2> QED BY <1>14, <2>1 DEF EndReplay, Report, artifacts, closing
<1>15. CASE UNCHANGED vars
  BY <1>15 DEF vars, artifacts, closing, replaying
<1>16. ASSUME NEW v \in {k[3] : k \in Keys}, copy # None,
              NEW outputs \in [Listed(copy) -> Outs \cup {None}],
              EndReplayRecording(v, outputs)
       PROVE  TypeOK'
  <2>1. verdict' \in {"pass", "wait", "fail"}
    BY <1>16 DEF EndReplayRecording, Report, Verdict
  <2>2. v \in Versions
    BY KeysAssumption
  <2>3. file' = OutputsRecorded(copy, v, outputs)
    BY <1>16 DEF EndReplayRecording
  <2>4. IsManifest(file')
    BY <1>16, <2>2, <2>3, OutputsRecordedFacts
  <2> QED BY <1>16, <2>1, <2>4 DEF EndReplayRecording, Report, artifacts, closing
<1>17. ASSUME StopReplay PROVE TypeOK'
  BY <1>17 DEF StopReplay, artifacts, closing
<1> QED BY <1>1, <1>2, <1>3, <1>4, <1>5, <1>6, <1>7, <1>8, <1>9, <1>10, <1>11,
           <1>12, <1>13, <1>14, <1>15, <1>16, <1>17 DEF Next

(* Every variable of the ledger keeps the type the code gives it, whatever  *)
(* is written, closed and replayed in whatever order.                       *)
THEOREM TypeCorrect == Spec => []TypeOK
<1>1. Init => TypeOK
  <2> SUFFICES ASSUME Init PROVE TypeOK
    OBVIOUS
  <2>1. Nothing \in Texts
    BY DEF Nothing, Texts
  <2> QED BY <2>1, StartAssumption, BoundsAssumption DEF Init, TypeOK, NoJob
<1> QED BY <1>1, TypeStep, PTL DEF Spec

----------------------------------------------------------------------------
(* What a step makes of the file. *)

(* Only a close that was let through, a proposal, or the end of a replay    *)
(* that records changes the file, and the last makes it what the replay     *)
(* loaded, but for the inputs.                                              *)
LEMMA FileStep ==
    ASSUME TypeOK, [Next]_vars
    PROVE  \/ file' = file
           \/ /\ pc = "accepting" /\ job \in Diffs
              /\ Key(job) \notin ClosedKeys(file)
              /\ file' = Accepted(file, job) /\ UNCHANGED copy
           \/ /\ pc = "proposing" /\ job \in Diffs /\ file' = Proposed(file, job)
              /\ UNCHANGED copy
           \/ /\ copy # None /\ copy' = None
              /\ file'.diffs = copy.diffs /\ file'.proposed = copy.proposed
<1>1. CASE Accept
  BY <1>1 DEF Accept, MayAccept, TypeOK, replaying
<1>2. CASE Propose
  BY <1>2 DEF Propose, TypeOK, replaying
<1>3. ASSUME NEW v \in {k[3] : k \in Keys}, copy # None,
             NEW outputs \in [Listed(copy) -> Outs \cup {None}],
             EndReplayRecording(v, outputs)
      PROVE  /\ copy # None /\ copy' = None
             /\ file'.diffs = copy.diffs /\ file'.proposed = copy.proposed
  <2>1. v \in Versions /\ IsManifest(copy)
    BY <1>3, KeysAssumption DEF TypeOK
  <2>2. file' = OutputsRecorded(copy, v, outputs) /\ copy' = None
    BY <1>3 DEF EndReplayRecording, Report
  <2> QED BY <1>3, <2>1, <2>2, OutputsRecordedFacts
<1>4. CASE UNCHANGED file
  BY <1>4
<1> QED BY <1>1, <1>2, <1>3, <1>4
        DEF Next, vars, Decide, WriteDecline, WriteEntry, Edit, Publish, Commit,
            StartClose, Judge, JudgeAwaiting, GiveUp, Build, StartReplay, EndReplay,
            StopReplay

(* Whatever a file accounts for, a later one accounts for as well: what is  *)
(* closed there, and what is closed or proposed.                            *)
AccountsFor(m, n) ==
    /\ ClosedKeys(m) \subseteq ClosedKeys(n)
    /\ ProposedKeys(m) \subseteq ProposedKeys(n) \cup ClosedKeys(n)

(* Of the closes and the proposals alone.                                   *)
LEMMA SameAccounts ==
    ASSUME NEW m, NEW n, m.diffs = n.diffs, m.proposed = n.proposed
    PROVE  AccountsFor(m, n)
BY DEF AccountsFor, ClosedKeys, ProposedKeys

(* While no replay ends, no close is lost, and a proposal goes only for a   *)
(* close.                                                                   *)
LEMMA KeptStep ==
    ASSUME TypeOK, [Next]_vars, ~(copy # None /\ copy' = None)
    PROVE  AccountsFor(file, file')
<1>1. IsManifest(file)
  BY DEF TypeOK
<1> QED BY <1>1, FileStep, AcceptedFacts, ProposedFacts, SameAccounts DEF AccountsFor

(* What the copy of a running replay accounts for, the file accounts for:   *)
(* it grew since it was loaded.                                             *)
CopyInv == copy # None => AccountsFor(copy, file)

(* How a step changes the copy.                                             *)
LEMMA CopyChanges ==
    ASSUME [Next]_vars
    PROVE  copy' = copy \/ copy' = None \/ (copy = None /\ copy' = file /\ file' = file)
BY DEF Next, vars, replaying, Decide, WriteDecline, WriteEntry, Edit, Publish, Commit,
       StartClose, Judge, JudgeAwaiting, Accept, Propose, GiveUp, Build, StartReplay,
       EndReplay, EndReplayRecording, Report, StopReplay

(* It accounts for the same as before, or is a new copy of the file.        *)
LEMMA CopyStep == TypeOK /\ CopyInv /\ [Next]_vars => CopyInv'
<1> SUFFICES ASSUME TypeOK, CopyInv, [Next]_vars, copy' # None PROVE AccountsFor(copy', file')
  BY DEF CopyInv, AccountsFor
<1>1. CASE copy' = copy
  <2>1. AccountsFor(copy, file) /\ AccountsFor(file, file')
    BY <1>1, KeptStep DEF CopyInv
  <2> QED BY <1>1, <2>1 DEF AccountsFor
<1>2. CASE copy' = file /\ file' = file
  BY <1>2, SameAccounts
<1> QED BY <1>1, <1>2, CopyChanges

(* A step that ends a replay leaves what it loaded accounted for.           *)
LEMMA AccountedForStep ==
    ASSUME TypeOK, CopyInv, [Next]_vars
    PROVE  AccountsFor(IF copy # None /\ copy' = None THEN copy ELSE file, file')
<1>1. CASE ~(copy # None /\ copy' = None)
  BY <1>1, KeptStep
<1>2. CASE copy # None /\ copy' = None
  <2>1. CASE file' = file
    BY <1>2, <2>1 DEF CopyInv
  <2>2. CASE file'.diffs = copy.diffs /\ file'.proposed = copy.proposed
    BY <1>2, <2>2, SameAccounts
  <2> QED BY <1>2, <2>1, <2>2, FileStep
<1> QED BY <1>1, <1>2

(* A difference somebody closed or proposed to close stays so, but for what *)
(* was saved while a replay ran that then saves the manifest it had loaded. *)
THEOREM AccountedForStaysAlways == Spec => AccountedForStays
<1>1. Init => CopyInv
  BY DEF Init, CopyInv
<1>2. TypeOK /\ CopyInv /\ [Next]_vars =>
        [LET kept == IF copy # None /\ copy' = None THEN copy ELSE file
         IN  /\ ClosedKeys(kept) \subseteq ClosedKeys(file')
             /\ ProposedKeys(kept) \subseteq ProposedKeys(file') \cup ClosedKeys(file')]_vars
  BY AccountedForStep DEF AccountsFor
<1> QED BY <1>1, <1>2, CopyStep, TypeCorrect, PTL DEF Spec, AccountedForStays

(* No two closes of one difference, unless the manifest began with them.    *)
THEOREM OneCloseEachAlways ==
    ASSUME \A k, l \in DOMAIN Start.diffs :
              Key(Start.diffs[k]) = Key(Start.diffs[l]) => k = l
    PROVE  Spec => []OneCloseEach
<1> DEFINE Once(m) == \A k, l \in DOMAIN m.diffs : Key(m.diffs[k]) = Key(m.diffs[l]) => k = l
           CopyOnce == copy # None => Once(copy)
<1>1. Init => OneCloseEach /\ CopyOnce
  BY DEF Init, OneCloseEach
<1>2. TypeOK /\ OneCloseEach /\ CopyOnce /\ [Next]_vars => OneCloseEach'
  <2> SUFFICES ASSUME TypeOK, OneCloseEach, CopyOnce, [Next]_vars PROVE OneCloseEach'
    OBVIOUS
  <2>1. IsManifest(file) /\ file.diffs \in Seq(Diffs)
    BY DEF TypeOK, IsManifest
  <2>2. CASE file'.diffs = file.diffs
    BY <2>2 DEF OneCloseEach
  <2>3. CASE /\ job \in Diffs
             /\ Key(job) \notin ClosedKeys(file)
             /\ file'.diffs = Append(file.diffs, job)
    <3> DEFINE last == Len(file.diffs) + 1
    <3>1. /\ DOMAIN file'.diffs = DOMAIN file.diffs \cup {last}
          /\ file'.diffs[last] = job
          /\ \A k \in DOMAIN file.diffs : file'.diffs[k] = file.diffs[k]
      BY <2>1, <2>3
    <3>2. \A k \in DOMAIN file.diffs : Key(file.diffs[k]) # Key(job)
      BY <2>3 DEF ClosedKeys
    <3> HIDE DEF last
    <3> QED BY <3>1, <3>2 DEF OneCloseEach
  <2>4. CASE copy # None /\ file'.diffs = copy.diffs
    BY <2>4 DEF OneCloseEach
  <2> QED BY <2>1, <2>2, <2>3, <2>4, FileStep, AcceptedFacts, ProposedFacts
<1>3. OneCloseEach /\ CopyOnce /\ [Next]_vars => CopyOnce'
  BY CopyChanges DEF OneCloseEach
<1> QED BY <1>1, <1>2, <1>3, TypeCorrect, PTL DEF Spec

----------------------------------------------------------------------------
(* Verdicts. *)

(* Of a verdict read off m, what it says of the differences of m.           *)
LEMMA VerdictSays ==
    ASSUME NEW m, NEW differences, NEW failed
    PROVE  /\ Verdict(m, differences, failed) = "pass" => differences \subseteq ClosedKeys(m)
           /\ Verdict(m, differences, failed) = "wait" =>
                 differences \subseteq ClosedKeys(m) \cup ProposedKeys(m)
BY DEF Verdict, Unproposed, Awaiting, Open

(* Every step keeps the verdicts: one is read off a copy that accounts for  *)
(* no more than the file, or off the file as it is saved.                   *)
LEMMA VerdictStep ==
    ASSUME TypeOK, CopyInv, VerdictsStand, [Next]_vars
    PROVE  VerdictsStand'
<1>1. CASE StartReplay
  BY <1>1 DEF StartReplay, VerdictsStand
<1>2. ASSUME NEW failed \in BOOLEAN, EndReplay(failed)
      PROVE  VerdictsStand'
  <2>1. copy # None /\ file' = file /\ verdict' = Verdict(copy, seen', failed)
    BY <1>2 DEF EndReplay, Report
  <2> QED BY <2>1, VerdictSays DEF CopyInv, AccountsFor, VerdictsStand
<1>3. ASSUME NEW v \in {k[3] : k \in Keys}, copy # None,
             NEW outputs \in [Listed(copy) -> Outs \cup {None}],
             EndReplayRecording(v, outputs)
      PROVE  VerdictsStand'
  <2>1. PICK failed : verdict' = Verdict(file', seen', failed)
    BY <1>3 DEF EndReplayRecording, Report
  <2> QED BY <2>1, VerdictSays DEF VerdictsStand
<1>4. CASE UNCHANGED replaying
  <2>1. AccountsFor(file, file') /\ UNCHANGED <<seen, verdict>>
    BY <1>4, KeptStep DEF replaying
  <2> QED BY <2>1 DEF VerdictsStand, AccountsFor
<1>5. CASE StopReplay
  BY <1>5 DEF StopReplay, VerdictsStand
<1> QED BY <1>1, <1>2, <1>3, <1>4, <1>5
        DEF Next, vars, Decide, WriteDecline, WriteEntry, Edit, Publish, Commit,
            StartClose, Judge, JudgeAwaiting, Accept, Propose, GiveUp, Build

(* The verdict of a replay stands, though it was read off a stale copy, and *)
(* though that copy was saved over what was closed meanwhile.               *)
THEOREM VerdictsStandAlways == Spec => []VerdictsStand
<1>1. Init => CopyInv /\ VerdictsStand
  BY DEF Init, CopyInv, VerdictsStand
<1>2. TypeOK /\ CopyInv /\ VerdictsStand /\ [Next]_vars => VerdictsStand'
  BY VerdictStep
<1> QED BY <1>1, <1>2, CopyStep, TypeCorrect, PTL DEF Spec

----------------------------------------------------------------------------
(* Evidence. *)

(* What EvidenceBehindEveryClose asks of one close.                         *)
Backed(d) ==
    /\ d.reason # Blank /\ d.reason.decision \in decisions
    /\ d.as = "law" => d.reason.names \in Laws
    /\ d.as = "boundary" =>
          /\ d.reason.names \in published
          /\ d.reason.approval # {}
          /\ d.reason.approval \subseteq carried[d.reason.names]

(* What stays behind when a text moves on: what BOUNDARY.md declines was    *)
(* published, and so was what a close loaded of it, and what a text was     *)
(* committed with, a commit carried.                                        *)
TracesInv ==
    /\ Declared(boundary) \subseteq published
    /\ doc \subseteq published
    /\ \A which \in {"record", "boundary"}, o \in Observables :
          heads[which][o] \subseteq carried[o]

(* A close that was let through is backed before it is written.             *)
JobInv == pc = "accepting" => Backed(job)

(* Traces are kept by every step.                                           *)
LEMMA TracesStep ==
    ASSUME TypeOK, TracesInv, [Next]_vars
    PROVE  /\ TracesInv'
           /\ decisions \subseteq decisions'
           /\ published \subseteq published'
           /\ \A o \in Observables : carried[o] \subseteq carried'[o]
<1>1. ASSUME NEW o \in Observables, NEW lines \in SUBSET Lines, WriteEntry(o, lines)
      PROVE  /\ TracesInv'
             /\ UNCHANGED <<decisions, carried>> /\ published \subseteq published'
  BY <1>1 DEF WriteEntry, Edit, closing, TracesInv, Declared
<1>2. ASSUME Publish
      PROVE  /\ TracesInv'
             /\ UNCHANGED <<decisions, carried>> /\ published \subseteq published'
  BY <1>2 DEF Publish, closing, TracesInv, Declared
<1>3. ASSUME NEW which \in {"record", "boundary"}, Commit(which)
      PROVE  /\ TracesInv'
             /\ UNCHANGED <<decisions, published>>
             /\ \A o \in Observables : carried[o] \subseteq carried'[o]
  <2>1. Text(which) \in Texts
    BY DEF Text, TypeOK
  <2>2. \A o \in Observables : carried'[o] = carried[o] \cup Text(which)[o]
    BY <1>3 DEF Commit
  <2>3. \A x \in {"record", "boundary"} :
           heads'[x] = IF x = which THEN Text(which) ELSE heads[x]
    BY <1>3 DEF Commit, TypeOK
  <2>4. UNCHANGED <<boundary, doc, decisions, published>>
    BY <1>3 DEF Commit, closing
  <2> QED BY <2>2, <2>3, <2>4 DEF TracesInv, Declared
<1>4. ASSUME NEW d \in Asked, StartClose(d)
      PROVE  TracesInv' /\ UNCHANGED artifacts
  BY <1>4 DEF StartClose, artifacts, TracesInv, Declared
<1>5. CASE UNCHANGED <<boundary, heads, carried, published, doc>> /\ decisions \subseteq decisions'
  BY <1>5 DEF TracesInv, Declared
<1>6. CASE UNCHANGED <<boundary, heads, carried, published, decisions>> /\ doc' = {}
  BY <1>6 DEF TracesInv, Declared
<1> QED BY <1>1, <1>2, <1>3, <1>4, <1>5, <1>6
        DEF Next, vars, artifacts, closing, Decide, WriteDecline, Edit, Judge,
            JudgeAwaiting, Accept, Propose, GiveUp, EndClose, Build, StartReplay,
            EndReplay, EndReplayRecording, Report, StopReplay

(* What backed a close backs it after any step: nothing it rests on is ever *)
(* taken out of the record, of the commits, or of what was published.       *)
LEMMA BackedStays ==
    ASSUME TypeOK, TracesInv, [Next]_vars, NEW d, Backed(d)
    PROVE  Backed(d)'
<1>1. /\ decisions \subseteq decisions' /\ published \subseteq published'
      /\ \A o \in Observables : carried[o] \subseteq carried'[o]
  BY TracesStep
<1>2. published \subseteq Observables
  BY DEF TypeOK
<1> QED BY <1>1, <1>2 DEF Backed

(* What the ledger lets through is backed.                                  *)
LEMMA JudgedIsBacked ==
    ASSUME TypeOK, TracesInv, Judge
    PROVE  Backed(job)'
<1>1. /\ job \in Diffs /\ job.reason # Blank /\ job.reason.decision \in decisions
      /\ Evidenced(job) /\ UNCHANGED artifacts
  BY DEF Judge, Decided, TypeOK
<1>2. CASE job.as = "boundary"
  <2> DEFINE o == job.reason.names
             lines == Text(Source)[o]
  <2>1. o \in doc /\ o \in Observables /\ o \in published
    BY <1>1, <1>2 DEF Evidenced, TracesInv, TypeOK
  <2>2. Source \in {"record", "boundary"}
    BY DEF Source
  <2>3. lines \in SUBSET Lines
    BY <2>1 DEF Text, Texts, TypeOK
  <2>4. lines # {} /\ lines \subseteq heads[Source][o]
    BY <1>2 DEF Judge, Approved
  <2>5. lines \subseteq carried[o]
    BY <2>1, <2>2, <2>4 DEF TracesInv
  <2>6. /\ job'.as = "boundary" /\ job'.reason # Blank
        /\ job'.reason.decision = job.reason.decision
        /\ job'.reason.names = o /\ job'.reason.approval = lines
    <3>1. job' = WithApproval(job, lines)
      BY <1>2 DEF Judge
    <3> QED BY <1>1, <1>2, <2>3, <3>1, ApprovedFacts
  <2> QED BY <1>1, <2>1, <2>4, <2>5, <2>6 DEF Backed, artifacts
<1>3. CASE job.as # "boundary"
  BY <1>1, <1>3 DEF Judge, Evidenced, Backed, artifacts
<1> QED BY <1>2, <1>3

(* A step that leaves a close let through found it so or judged it.         *)
LEMMA JobStep ==
    ASSUME TypeOK, TracesInv, JobInv, [Next]_vars
    PROVE  JobInv'
<1>1. CASE Judge
  BY <1>1, JudgedIsBacked DEF JobInv
<1>2. CASE UNCHANGED <<pc, job>>
  BY <1>2, BackedStays DEF JobInv
<1>3. CASE pc' # "accepting"
  BY <1>3 DEF JobInv
<1> QED BY <1>1, <1>2, <1>3
        DEF Next, vars, closing, Decide, WriteDecline, WriteEntry, Edit, Publish,
            Commit, StartClose, JudgeAwaiting, Accept, Propose, GiveUp, EndClose,
            Build, StartReplay, EndReplay, EndReplayRecording, Report, StopReplay

(* Every accepted close has its evidence behind it, whatever moves while it *)
(* is judged and written; the closes the manifest began with excepted, for  *)
(* which there must be none.                                                *)
THEOREM EvidenceBehindEveryCloseAlways ==
    ASSUME Start.diffs = <<>>
    PROVE  Spec => []EvidenceBehindEveryClose
<1> DEFINE CopyBacked == copy # None => \A k \in DOMAIN copy.diffs : Backed(copy.diffs[k])
           IInv == TracesInv /\ JobInv /\ EvidenceBehindEveryClose /\ CopyBacked
<1>1. Init => IInv
  <2> SUFFICES ASSUME Init PROVE IInv
    OBVIOUS
  <2>1. TracesInv
    BY DEF Init, TracesInv, Declared, Nothing
  <2> QED BY <2>1 DEF Init, JobInv, EvidenceBehindEveryClose
<1>2. TypeOK /\ IInv /\ [Next]_vars => IInv'
  <2> SUFFICES ASSUME TypeOK, IInv, [Next]_vars PROVE IInv'
    OBVIOUS
  <2>1. IsManifest(file) /\ file.diffs \in Seq(Diffs)
    BY DEF TypeOK, IsManifest
  <2>2. \A k \in DOMAIN file.diffs : Backed(file.diffs[k])
    BY DEF EvidenceBehindEveryClose, Backed
  <2>3. ASSUME NEW k \in DOMAIN file'.diffs PROVE Backed(file'.diffs[k])
    <3>1. CASE file'.diffs = file.diffs
      BY <2>2, <3>1
    <3>2. CASE /\ pc = "accepting" /\ job \in Diffs
               /\ file'.diffs = Append(file.diffs, job)
      <4>1. file'.diffs[k] = job \/ \E l \in DOMAIN file.diffs : file'.diffs[k] = file.diffs[l]
        BY <2>1, <3>2
      <4>2. Backed(job)
        BY <3>2 DEF JobInv
      <4> QED BY <2>2, <4>1, <4>2
    <3>3. CASE copy # None /\ file'.diffs = copy.diffs
      <4>1. CopyBacked
        OBVIOUS
      <4>2. \A l \in DOMAIN copy.diffs : Backed(copy.diffs[l])
        BY <3>3, <4>1
      <4> QED BY <3>3, <4>2
    <3>4. CASE pc = "accepting" /\ job \in Diffs /\ file' = Accepted(file, job)
      <4>1. file'.diffs = Append(file.diffs, job)
        BY <2>1, <3>4, AcceptedFacts
      <4> QED BY <3>2, <3>4, <4>1
    <3>5. CASE job \in Diffs /\ file' = Proposed(file, job)
      <4>1. file'.diffs = file.diffs
        BY <2>1, <3>5, ProposedFacts
      <4> QED BY <3>1, <4>1
    <3>6. \/ file' = file
          \/ pc = "accepting" /\ job \in Diffs /\ file' = Accepted(file, job)
          \/ job \in Diffs /\ file' = Proposed(file, job)
          \/ copy # None /\ file'.diffs = copy.diffs
      BY FileStep
    <3> QED BY <3>1, <3>3, <3>4, <3>5, <3>6
  <2>4. EvidenceBehindEveryClose'
    <3> SUFFICES ASSUME NEW k \in DOMAIN file'.diffs,
                        NEW d, d = file'.diffs[k]
                 PROVE  Backed(d)'
      BY DEF EvidenceBehindEveryClose, Backed
    <3> QED BY <2>3, BackedStays
  <2>5. CopyBacked'
    <3> SUFFICES ASSUME copy' # None, NEW k \in DOMAIN copy'.diffs,
                        NEW d, d = copy'.diffs[k]
                 PROVE  Backed(d)'
      BY DEF Backed
    <3>1. Backed(d)
      BY <2>2, CopyChanges
    <3> QED BY <3>1, BackedStays
  <2> QED BY <2>4, <2>5, TracesStep, JobStep
<1> QED BY <1>1, <1>2, TypeCorrect, PTL DEF Spec

=============================================================================
