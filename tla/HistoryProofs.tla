---------------------------- MODULE HistoryProofs ----------------------------
(***************************************************************************)
(* Proofs about History: comparing with HEAD alone is enough.  For any     *)
(* manifests, edits and commits, where the hook is installed and commits   *)
(* take the working manifest whole, every earlier HEAD is related to the   *)
(* present one by the check, nothing it said is unsaid, and the check lets *)
(* honest work through.                                                    *)
(***************************************************************************)
EXTENDS History, ManifestProofs

(* What VerifyAppendOnly lets through unsays nothing a valid manifest said. *)
LEMMA AppendOnlyUnsaysNothing ==
    ASSUME NEW a, NEW b, Validate(a), VerifyAppendOnly(a, b)
    PROVE  Said(a) \subseteq Said(b)
<1>1. ASSUME NEW i \in Listed(a)
      PROVE  <<"recording", i, a.inputs[i].sha>> \in Said(b)
  BY DEF VerifyAppendOnly, KeepsRecording, Said
<1>2. ASSUME NEW i \in Listed(a), NEW v \in Versions, a.inputs[i].outputs[v] # None
      PROVE  <<"output", i, v, a.inputs[i].outputs[v]>> \in Said(b)
  <2>1. i \in Listed(b) /\ b.inputs[i].outputs[v] = a.inputs[i].outputs[v]
    BY <1>2 DEF VerifyAppendOnly, KeepsRecording
  <2> DEFINE t == <<i, v>>
  <2>2. t \in Listed(b) \X Versions /\ t[1] = i /\ t[2] = v
    BY <2>1
  <2>3. t \in {s \in Listed(b) \X Versions : b.inputs[s[1]].outputs[s[2]] # None}
    BY <1>2, <2>1, <2>2
  <2> QED BY <2>1, <2>2, <2>3 DEF Said
<1>3. ASSUME NEW i \in Listed(a), a.inputs[i].status = "retired"
      PROVE  <<"retired", i, a.inputs[i].retired>> \in Said(b)
  <2>1. a.inputs[i].retired # None
    BY <1>3, NoneAssumption DEF Validate, ValidRecording
  <2>2. /\ i \in Listed(b)
        /\ b.inputs[i].status = "retired"
        /\ b.inputs[i].retired = a.inputs[i].retired
    BY <1>3, <2>1 DEF VerifyAppendOnly, KeepsRecording, KeepsStatus
  <2> QED BY <2>2 DEF Said
<1>4. ASSUME NEW k \in DOMAIN a.diffs
      PROVE  <<"close", a.diffs[k]>> \in Said(b)
  <2>1. PICK j \in DOMAIN b.diffs : b.diffs[j] = a.diffs[k]
    BY DEF VerifyAppendOnly, KeepsDiffs
  <2> QED BY <2>1 DEF Said
<1> QED BY <1>1, <1>2, <1>3, <1>4 DEF Said

----------------------------------------------------------------------------

(* Where the hook runs, the invariant is that every earlier HEAD is related *)
(* to HEAD by the check: what a new HEAD is compared with is the last of    *)
(* them, and the others follow by transitivity.                             *)
THEOREM HistoryIsAppendOnlyAlways ==
    ASSUME Hooked, StagesAll
    PROVE  Spec => []HistoryIsAppendOnly
<1>1. Init => HistoryIsAppendOnly
  BY DEF Init, HistoryIsAppendOnly
<1>2. HistoryIsAppendOnly /\ [Next]_vars => HistoryIsAppendOnly'
  <2> SUFFICES ASSUME HistoryIsAppendOnly, [Next]_vars PROVE HistoryIsAppendOnly'
    OBVIOUS
  <2>1. CASE Commit
    <3>1. head' = file /\ past' = past \cup {head} /\ VerifyAppendOnly(head, file)
      BY <2>1 DEF Commit, Check
    <3>2. ASSUME NEW m \in past PROVE VerifyAppendOnly(m, file)
      BY <3>1, AppendOnlyTransitive DEF HistoryIsAppendOnly
    <3> QED BY <3>1, <3>2 DEF HistoryIsAppendOnly
  <2>2. CASE UNCHANGED <<head, past>>
    BY <2>2 DEF HistoryIsAppendOnly
  <2> QED BY <2>1, <2>2
          DEF Next, vars, Record, Reweight, RecordOutputs, Close, Propose, Retire,
              Tamper, TamperInput, TamperClose, Stage, Restore, Write
<1> QED BY <1>1, <1>2, PTL DEF Spec

(* HEAD always validates, and so does every manifest that was HEAD before.  *)
LEMMA HeadsValidate ==
    ASSUME Hooked, StagesAll
    PROVE  Spec => [](\A m \in {head} \cup past : Validate(m))
<1> DEFINE HeadsValid == \A m \in {head} \cup past : Validate(m)
<1>1. Init => HeadsValid
  BY StartsAssumption DEF Init
<1>2. HeadsValid /\ [Next]_vars => HeadsValid'
  <2> SUFFICES ASSUME HeadsValid, [Next]_vars PROVE HeadsValid'
    OBVIOUS
  <2>1. CASE Commit
    BY <2>1 DEF Commit, Check
  <2>2. CASE UNCHANGED <<head, past>>
    BY <2>2
  <2> QED BY <2>1, <2>2
          DEF Next, vars, Record, Reweight, RecordOutputs, Close, Propose, Retire,
              Tamper, TamperInput, TamperClose, Stage, Restore, Write
<1> QED BY <1>1, <1>2, PTL DEF Spec

(* The corpus rule itself: where the hook runs, a recording, an output, a   *)
(* retirement or a close that was ever committed is still there, unchanged. *)
THEOREM NothingCommittedIsUnsaidAlways ==
    ASSUME Hooked, StagesAll
    PROVE  Spec => []NothingCommittedIsUnsaid
<1>1. HistoryIsAppendOnly /\ (\A m \in {head} \cup past : Validate(m))
        => NothingCommittedIsUnsaid
  BY AppendOnlyUnsaysNothing DEF HistoryIsAppendOnly, NothingCommittedIsUnsaid
<1> QED BY <1>1, HistoryIsAppendOnlyAlways, HeadsValidate, PTL

----------------------------------------------------------------------------

LEMMA RewrittenIsRecording ==
    ASSUME NEW in \in Recordings
    PROVE  Rewritten(in) \subseteq Recordings
<1>1. ASSUME NEW h \in Hashes PROVE [in EXCEPT !.sha = h] \in Recordings
  BY DEF Recordings
<1>2. [in EXCEPT !.status = "active", !.retired = None] \in Recordings
  BY DEF Recordings
<1>3. ASSUME NEW r \in Reasons PROVE [in EXCEPT !.retired = r] \in Recordings
  BY DEF Recordings
<1>4. ASSUME NEW v \in Versions, NEW o \in Outs \cup {None}
      PROVE  [in EXCEPT !.outputs[v] = o] \in Recordings
  BY DEF Recordings
<1> QED BY <1>1, <1>2, <1>3, <1>4 DEF Rewritten

(* A close fewer closes nothing twice.                                      *)
LEMMA RemovedOnce ==
    ASSUME NEW c \in Seq(Diffs), NEW k \in DOMAIN c
    PROVE  /\ SubSeq(c, 1, k - 1) \o SubSeq(c, k + 1, Len(c)) \in Seq(Diffs)
           /\ Once(c) => Once(SubSeq(c, 1, k - 1) \o SubSeq(c, k + 1, Len(c)))
<1> DEFINE A == SubSeq(c, 1, k - 1)
           B == SubSeq(c, k + 1, Len(c))
           ds == A \o B
<1>1. Len(c) \in Nat /\ k \in 1..Len(c) /\ DOMAIN c = 1..Len(c) /\ \A l \in 1..Len(c) : c[l] \in Diffs
  OBVIOUS
<1>2. A \in Seq(Diffs) /\ Len(A) = k - 1 /\ \A l \in 1..(k - 1) : A[l] = c[l]
  BY <1>1, SubSeqProperties
<1>3. B \in Seq(Diffs) /\ Len(B) = Len(c) - k /\ \A l \in 1..(Len(c) - k) : B[l] = c[k + l]
  BY <1>1, SubSeqProperties
<1> HIDE DEF A, B
<1>4. /\ ds \in Seq(Diffs)
      /\ Len(ds) = Len(A) + Len(B)
      /\ \A l \in 1..(Len(A) + Len(B)) : ds[l] = IF l <= Len(A) THEN A[l] ELSE B[l - Len(A)]
  BY <1>2, <1>3, ConcatProperties
<1> HIDE DEF ds
<1> DEFINE At(l) == IF l < k THEN l ELSE l + 1
<1>5. DOMAIN ds = 1..(Len(c) - 1)
  BY <1>1, <1>2, <1>3, <1>4
<1>6. ASSUME NEW l \in DOMAIN ds
      PROVE  At(l) \in DOMAIN c /\ ds[l] = c[At(l)]
  <2>1. l \in 1..(Len(c) - 1)
    BY <1>5
  <2>2. CASE l < k
    BY <1>1, <1>2, <1>3, <1>4, <2>1, <2>2
  <2>3. CASE ~(l < k)
    <3>1. l - (k - 1) \in 1..(Len(c) - k) /\ k + (l - (k - 1)) = l + 1
      BY <1>1, <2>1, <2>3
    <3>2. B[l - (k - 1)] = c[l + 1]
      BY <1>3, <3>1
    <3> QED BY <1>1, <1>2, <1>3, <1>4, <2>1, <2>3, <3>2
  <2> QED BY <2>2, <2>3
<1>7. ASSUME Once(c), NEW i \in DOMAIN ds, NEW j \in DOMAIN ds, Key(ds[i]) = Key(ds[j])
      PROVE  i = j
  <2>1. At(i) = At(j)
    <3> HIDE DEF At
    <3> QED BY <1>6, <1>7 DEF Once
  <2>2. i \in Nat /\ j \in Nat
    BY <1>1, <1>5
  <2> QED BY <1>1, <2>1, <2>2
<1>8. Once(c) => Once(ds)
  BY <1>7 DEF Once
<1> QED BY <1>4, <1>8 DEF ds, A, B

(* Whatever an edit by hand makes of a manifest is one still: a rewritten   *)
(* history is refused for what it says, not for its form.  Unless it closes *)
(* a difference again, it leaves none closed twice.                         *)
LEMMA TamperedIsManifest ==
    ASSUME IsManifest(file), Tamper
    PROVE  /\ IsManifest(file')
           /\ ~Reclosing /\ ClosesOnce(file) => ClosesOnce(file')
<1> DEFINE c == file.diffs
<1>1. /\ file.inputs \in [Listed(file) -> Recordings]
      /\ Listed(file) \subseteq Ids /\ IsFiniteSet(Listed(file))
      /\ c \in Seq(Diffs)
  BY DEF IsManifest, Listed
<1>2. ASSUME NEW S \in SUBSET Listed(file), NEW f \in [S -> Recordings],
             file' = [file EXCEPT !.inputs = f]
      PROVE  IsManifest(file') /\ file'.diffs = c
  <2>1. IsFiniteSet(S) /\ S \in SUBSET Ids
    BY <1>1, FS_Subset
  <2>2. file'.diffs = c
    BY <1>2 DEF IsManifest
  <2> QED BY <1>2, <2>1, <2>2, InputsReplaced
<1>3. ASSUME NEW ds \in Seq(Diffs), file' = [file EXCEPT !.diffs = ds]
      PROVE  IsManifest(file') /\ file'.diffs = ds
  <2>1. file'.diffs = ds
    BY <1>3 DEF IsManifest
  <2> QED BY <1>3, <2>1, ClosesReplaced
<1>4. ASSUME NEW i \in Listed(file), NEW in \in Rewritten(file.inputs[i]),
             file' = [file EXCEPT !.inputs[i] = in]
      PROVE  IsManifest(file') /\ file'.diffs = c
  <2>1. in \in Recordings
    BY <1>1, RewrittenIsRecording
  <2>2. [file.inputs EXCEPT ![i] = in] \in [Listed(file) -> Recordings]
    BY <1>1, <2>1
  <2>3. file' = [file EXCEPT !.inputs = [file.inputs EXCEPT ![i] = in]]
    BY <1>4
  <2> QED BY <1>2, <2>2, <2>3
<1>5. ASSUME NEW i \in Listed(file),
             file' = [file EXCEPT !.inputs = Restrict(file.inputs, Listed(file) \ {i})]
      PROVE  IsManifest(file') /\ file'.diffs = c
  <2>1. Restrict(file.inputs, Listed(file) \ {i}) \in [Listed(file) \ {i} -> Recordings]
    BY <1>1 DEF Restrict
  <2> QED BY <1>2, <1>5, <2>1
<1>6. ASSUME NEW k \in DOMAIN c, NEW r \in Reasons,
             file' = [file EXCEPT !.diffs[k].reason = r]
      PROVE  IsManifest(file') /\ (Once(c) => Once(file'.diffs))
  <2> DEFINE ds == [c EXCEPT ![k] = [c[k] EXCEPT !.reason = r]]
  <2>1. c[k] \in Diffs
    BY <1>1
  <2>2. [c[k] EXCEPT !.reason = r] \in Diffs
    BY <2>1 DEF Diffs
  <2>3. ds \in Seq(Diffs)
    BY <1>1, <2>2
  <2>4. DOMAIN ds = DOMAIN c /\ \A l \in DOMAIN c : Key(ds[l]) = Key(c[l])
    BY <1>1, <2>1 DEF Key, Diffs
  <2>5. Once(c) => Once(ds)
    BY <2>4 DEF Once
  <2>6. file' = [file EXCEPT !.diffs = ds]
    BY <1>6
  <2> HIDE DEF ds
  <2> QED BY <1>3, <2>3, <2>5, <2>6
<1>7. ASSUME NEW k \in DOMAIN c,
             file' = [file EXCEPT !.diffs = SubSeq(c, 1, k - 1) \o SubSeq(c, k + 1, Len(c))]
      PROVE  IsManifest(file') /\ (Once(c) => Once(file'.diffs))
  <2> DEFINE ds == SubSeq(c, 1, k - 1) \o SubSeq(c, k + 1, Len(c))
  <2>1. ds \in Seq(Diffs) /\ (Once(c) => Once(ds))
    BY <1>1, RemovedOnce
  <2>2. file' = [file EXCEPT !.diffs = ds]
    BY <1>7
  <2> HIDE DEF ds
  <2> QED BY <1>3, <2>1, <2>2
<1>8. ASSUME NEW k \in DOMAIN c, NEW r \in Reasons,
             file' = [file EXCEPT !.diffs = <<[c[k] EXCEPT !.reason = r]>> \o c]
      PROVE  IsManifest(file')
  <2> DEFINE ds == <<[c[k] EXCEPT !.reason = r]>> \o c
  <2>1. c[k] \in Diffs
    BY <1>1
  <2>2. [c[k] EXCEPT !.reason = r] \in Diffs
    BY <2>1 DEF Diffs
  <2>3. ds \in Seq(Diffs)
    BY <1>1, <2>2
  <2>4. file' = [file EXCEPT !.diffs = ds]
    BY <1>8
  <2> HIDE DEF ds
  <2> QED BY <1>3, <2>3, <2>4
<1>9. CASE TamperInput
  BY <1>4, <1>5, <1>9 DEF TamperInput, Write, ClosesOnce
<1>10. CASE TamperClose
  <2>1. CASE \E k \in DOMAIN c : \E r \in Reasons : Write([file EXCEPT !.diffs[k].reason = r])
    BY <1>6, <2>1 DEF Write, ClosesOnce
  <2>2. CASE \E k \in DOMAIN c :
               Write([file EXCEPT !.diffs = SubSeq(c, 1, k - 1) \o SubSeq(c, k + 1, Len(c))])
    BY <1>7, <2>2 DEF Write, ClosesOnce
  <2>3. CASE Reclosing /\ \E k \in DOMAIN c : \E r \in Reasons :
               Write([file EXCEPT !.diffs = <<[c[k] EXCEPT !.reason = r]>> \o c])
    BY <1>8, <2>3 DEF Write
  <2> QED BY <1>10, <2>1, <2>2, <2>3 DEF TamperClose
<1> QED BY <1>9, <1>10 DEF Tamper

----------------------------------------------------------------------------

(* What a command or an edit leaves in the file is a manifest, and one that *)
(* closes nothing twice where the one before did not.                       *)
LEMMA FileStaysManifest ==
    ASSUME IsManifest(file), Next
    PROVE  /\ file' # head => IsManifest(file')
           /\ file' # head /\ ~Reclosing /\ ClosesOnce(file) => ClosesOnce(file')
<1>1. CASE \E h \in Hashes, w \in {0, Whole} : Record(h, w)
  <2>1. PICK h \in Hashes, w \in {0, Whole} : Record(h, w)
    BY <1>1
  <2>2. file' = Recorded(file, h, w) /\ w \in Nat
    BY <2>1, WholeAssumption DEF Record, Write
  <2> QED BY <2>2, RecordedIsManifest, RecordedAppends
<1>2. CASE Reweight
  BY <1>2, ReweightedIsManifest, ReweightedAppends DEF Reweight, Write
<1>3. CASE \E v \in Versions :
             \E outputs \in [Listed(file) -> Outs \cup {None}] : RecordOutputs(v, outputs)
  BY <1>3, OutputsRecordedIsManifest, OutputsRecordedAppends DEF RecordOutputs, Write
<1>4. CASE \E d \in [input : Listed(file), from : Versions, to : Versions, as : Closes,
                     reason : Reasons] : Close(d) \/ Propose(d)
  <2>1. PICK d \in [input : Listed(file), from : Versions, to : Versions, as : Closes,
                    reason : Reasons] : Close(d) \/ Propose(d)
    BY <1>4
  <2>2. d \in Diffs
    BY DEF Diffs, IsManifest, Listed
  <2>3. CASE Close(d)
    BY <2>2, <2>3, AcceptedIsManifest, AcceptedAppends DEF Close, Write
  <2>4. CASE Propose(d)
    BY <2>2, <2>4, ProposedIsManifest, ProposedAppends DEF Propose, Write
  <2> QED BY <2>1, <2>3, <2>4
<1>5. CASE \E i \in Listed(file), r \in Reasons \cup {Blank} : Retire(i, r)
  <2>1. PICK i \in Listed(file), r \in Reasons \cup {Blank} : Retire(i, r)
    BY <1>5
  <2> DEFINE in == [file.inputs[i] EXCEPT !.status = "retired", !.retired = r]
             f == [file.inputs EXCEPT ![i] = in]
  <2>2. file.inputs \in [Listed(file) -> Recordings] /\ Listed(file) \in SUBSET Ids
          /\ IsFiniteSet(Listed(file))
    BY DEF IsManifest, Listed
  <2>3. in \in Recordings
    BY <2>2 DEF Recordings
  <2>4. f \in [Listed(file) -> Recordings]
    BY <2>2, <2>3
  <2>5. file' = [file EXCEPT !.inputs = f]
    BY <2>1, <2>2 DEF Retire, Write, IsManifest
  <2>6. file'.diffs = file.diffs
    BY <2>5 DEF IsManifest
  <2> QED BY <2>2, <2>4, <2>5, <2>6, InputsReplaced DEF ClosesOnce
<1>6. CASE Tamper
  BY <1>6, TamperedIsManifest
<1>7. CASE Stage \/ Commit \/ Restore
  BY <1>7 DEF Stage, Commit, Restore
<1> QED BY <1>1, <1>2, <1>3, <1>4, <1>5, <1>6, <1>7 DEF Next

(* What the other two manifests become was the file, or HEAD, before.       *)
LEMMA OthersAreOld ==
    ASSUME [Next]_vars
    PROVE  /\ index' \in {index, file, head}
           /\ head' \in {head, index}
           /\ past' \subseteq past \cup {head}
           /\ (Next \/ file' = file)
           /\ honest \in BOOLEAN => honest' \in BOOLEAN
           /\ edits \in 0..MaxEdits => edits' \in 0..MaxEdits
<1>1. CASE UNCHANGED vars
  BY <1>1 DEF vars
<1>2. CASE Stage \/ Commit \/ Restore
  BY <1>2 DEF Stage, Commit, Restore, Next
<1>3. CASE (\E m : Write(m)) /\ (honest' = honest \/ honest' = FALSE) /\ Next
  <2>1. PICK m : Write(m)
    BY <1>3
  <2>2. edits \in 0..MaxEdits => edits' \in 0..MaxEdits
    BY <2>1, MaxEditsAssumption DEF Write
  <2>3. honest \in BOOLEAN => honest' \in BOOLEAN
    BY <1>3
  <2> QED BY <1>3, <2>1, <2>2, <2>3 DEF Write
<1>4. CASE Tamper
  <2>1. \E m : Write(m)
    BY <1>4 DEF Tamper, TamperInput, TamperClose
  <2> QED BY <1>3, <1>4, <2>1 DEF Next, Tamper
<1> QED
  BY <1>1, <1>2, <1>3, <1>4
     DEF Next, Record, Reweight, RecordOutputs, Close, Propose, Retire

(* Every manifest there is, in the file, the index, at HEAD and in the      *)
(* history, is one.                                                         *)
THEOREM TypeCorrect == Spec => []TypeOK
<1>1. Init => TypeOK
  BY StartsAssumption, MaxEditsAssumption DEF Init, TypeOK
<1>2. TypeOK /\ [Next]_vars => TypeOK'
  <2> SUFFICES ASSUME TypeOK, [Next]_vars PROVE TypeOK'
    OBVIOUS
  <2>1. IsManifest(file) /\ IsManifest(index) /\ IsManifest(head)
          /\ \A m \in past : IsManifest(m)
    BY DEF TypeOK
  <2>2. IsManifest(file')
    BY <2>1, FileStaysManifest, OthersAreOld
  <2> QED BY <2>1, <2>2, OthersAreOld DEF TypeOK
<1> QED BY <1>1, <1>2, PTL DEF Spec

(* Whoever edits the file by hand, as long as nobody writes a close of a    *)
(* closed difference: no difference is closed twice, in the working tree,   *)
(* the index or at HEAD, with the hook or without.                          *)
NothingClosedTwice == \A m \in {file, index, head} : ClosesOnce(m)

LEMMA NothingClosedTwiceAlways ==
    ASSUME ~Reclosing, \A m \in Starts : ClosesOnce(m)
    PROVE  Spec => []NothingClosedTwice
<1>1. Init => NothingClosedTwice
  BY DEF Init, NothingClosedTwice
<1>2. TypeOK /\ NothingClosedTwice /\ [Next]_vars => NothingClosedTwice'
  <2> SUFFICES ASSUME TypeOK, NothingClosedTwice, [Next]_vars PROVE NothingClosedTwice'
    OBVIOUS
  <2>1. ClosesOnce(file) /\ ClosesOnce(index) /\ ClosesOnce(head) /\ IsManifest(file)
    BY DEF NothingClosedTwice, TypeOK
  <2>2. ClosesOnce(file')
    BY <2>1, FileStaysManifest, OthersAreOld
  <2> QED BY <2>1, <2>2, OthersAreOld DEF NothingClosedTwice
<1> QED BY <1>1, <1>2, TypeCorrect, PTL DEF Spec

(* The only way to a history with a difference closed twice, which the      *)
(* check lets through, is to write the second close by hand: no command and *)
(* no other edit gets there.                                                *)
THEOREM NoReclosedDiffByCommands ==
    ASSUME ~Reclosing, \A m \in Starts : ClosesOnce(m)
    PROVE  Spec => []NoReclosedDiff
<1>1. NothingClosedTwice => NoReclosedDiff
  BY DEF NothingClosedTwice, ClosesOnce, Once, NoReclosedDiff
<1> QED BY <1>1, NothingClosedTwiceAlways, PTL

----------------------------------------------------------------------------

(* Where the hook runs: an honest file is an append to HEAD, and it names   *)
(* no retirement of an input that is not retired.  The second part is what  *)
(* a retirement needs to be an append, and what Validate asks of each file  *)
(* that becomes HEAD.                                                       *)
NoStrayEvent(m) == \A i \in Active(m) : m.inputs[i].retired = None

HonestFile == honest => VerifyAppendOnly(head, file) /\ NoStrayEvent(file)

LEMMA ValidHasNoStrayEvent ==
    ASSUME NEW m, Validate(m)
    PROVE  NoStrayEvent(m)
BY DEF Validate, ValidRecording, NoStrayEvent, Active

(* Each command, and each retirement, is an append to the file it finds.    *)
LEMMA HonestStepAppends ==
    ASSUME IsManifest(file), ClosesOnce(file), NoStrayEvent(file), Next, ~Tamper,
           ~(Stage \/ Commit \/ Restore)
    PROVE  /\ VerifyAppendOnly(file, file')
           /\ NoStrayEvent(file')
           /\ honest' = honest /\ head' = head
<1>1. CASE \E h \in Hashes, w \in {0, Whole} : Record(h, w)
  BY <1>1, RecordedAppends, ValidHasNoStrayEvent DEF Record, Write
<1>2. CASE Reweight
  BY <1>2, ReweightedAppends, ValidHasNoStrayEvent DEF Reweight, Write
<1>3. CASE \E v \in Versions :
             \E outputs \in [Listed(file) -> Outs \cup {None}] : RecordOutputs(v, outputs)
  <2>1. PICK v \in Versions : \E outputs \in [Listed(file) -> Outs \cup {None}] :
                                 RecordOutputs(v, outputs)
    BY <1>3
  <2>2. PICK outputs \in [Listed(file) -> Outs \cup {None}] : RecordOutputs(v, outputs)
    BY <2>1
  <2>3. file' = OutputsRecorded(file, v, outputs) /\ MayRecordOutputs(file, v, outputs)
          /\ honest' = honest /\ head' = head
    BY <2>2 DEF RecordOutputs, Write
  <2>4. VerifyAppendOnly(file, file')
    BY <2>3, OutputsRecordedAppends
  <2> DEFINE f == [i \in Listed(file) |->
                     IF i \in TakesOutputs(file, v, outputs)
                     THEN [file.inputs[i] EXCEPT !.outputs[v] = outputs[i]]
                     ELSE file.inputs[i]]
  <2>5. file'.inputs = f
    BY <2>3 DEF OutputsRecorded, IsManifest
  <2>6. \A i \in Listed(file) : file.inputs[i] \in Recordings
    BY DEF IsManifest, Listed
  <2>7. \A i \in Listed(file) : /\ f[i].status = file.inputs[i].status
                                /\ f[i].retired = file.inputs[i].retired
    BY <2>6 DEF Recordings
  <2>8. Listed(file') = Listed(file)
    BY <2>5 DEF Listed
  <2>9. NoStrayEvent(file')
    <3> HIDE DEF f
    <3> QED BY <2>5, <2>7, <2>8 DEF NoStrayEvent, Active
  <2> QED BY <2>3, <2>4, <2>9
<1>4. CASE \E d \in [input : Listed(file), from : Versions, to : Versions, as : Closes,
                     reason : Reasons] : Close(d) \/ Propose(d)
  <2>1. PICK d \in [input : Listed(file), from : Versions, to : Versions, as : Closes,
                    reason : Reasons] : Close(d) \/ Propose(d)
    BY <1>4
  <2>2. d \in Diffs
    BY DEF Diffs, IsManifest, Listed
  <2>3. CASE Close(d)
    <3>1. file'.inputs = file.inputs /\ VerifyAppendOnly(file, file')
      BY <2>2, <2>3, AcceptedAppends DEF Close, Write, Accepted
    <3> QED BY <2>3, <3>1 DEF Close, Write, NoStrayEvent, Active, Listed
  <2>4. CASE Propose(d)
    <3>1. file'.inputs = file.inputs /\ VerifyAppendOnly(file, file')
      BY <2>4, ProposedAppends DEF Propose, Write, Proposed, IsManifest
    <3> QED BY <2>4, <3>1 DEF Propose, Write, NoStrayEvent, Active, Listed
  <2> QED BY <2>1, <2>3, <2>4
<1>5. CASE \E i \in Listed(file), r \in Reasons \cup {Blank} : Retire(i, r)
  <2>1. PICK i \in Listed(file), r \in Reasons \cup {Blank} : Retire(i, r)
    BY <1>5
  <2> DEFINE in == [file.inputs[i] EXCEPT !.status = "retired", !.retired = r]
             f == [file.inputs EXCEPT ![i] = in]
  <2>2. file.inputs \in [Listed(file) -> Recordings]
    BY DEF IsManifest, Listed
  <2>3. file' = [file EXCEPT !.inputs = f]
    BY <2>1, <2>2 DEF Retire, Write, IsManifest
  <2>4. file'.inputs = f /\ Listed(file') = Listed(file)
    BY <2>2, <2>3 DEF IsManifest, Listed
  <2>5. /\ in.sha = file.inputs[i].sha /\ in.outputs = file.inputs[i].outputs
        /\ in.status = "retired" /\ in.retired = r
    BY <2>2 DEF Recordings
  <2>6. file.inputs[i].status = "active" /\ file.inputs[i].retired = None
    BY <2>1 DEF Retire, Active, NoStrayEvent
  <2>7. KeepsRecording(file.inputs[i], in)
    BY <2>5, <2>6 DEF KeepsRecording, KeepsStatus
  <2>8. \A j \in Listed(file) : KeepsRecording(file.inputs[j], f[j])
    BY <2>2, <2>7, KeepsRecordingReflexive
  <2>9. VerifyAppendOnly(file, file')
    <3>1. f = [j \in Listed(file) |-> f[j]]
      BY <2>2
    <3> HIDE DEF f
    <3> QED BY <2>3, <2>8, <3>1, InputsReplacedAppend
  <2>10. NoStrayEvent(file')
    <3>1. \A j \in Listed(file) : f[j].status = "active" => f[j] = file.inputs[j]
      BY <2>2, <2>5
    <3> HIDE DEF f
    <3> QED BY <2>4, <3>1 DEF NoStrayEvent, Active
  <2> QED BY <2>1, <2>9, <2>10 DEF Retire, Write
<1> QED BY <1>1, <1>2, <1>3, <1>4, <1>5 DEF Next

(* Somebody who only records, replays, reweights, closes and retires, and   *)
(* who commits and restores, is never told by the check that history was    *)
(* rewritten.                                                               *)
THEOREM HonestWorkAppendsAlways ==
    ASSUME Hooked, StagesAll, ~Reclosing, \A m \in Starts : ClosesOnce(m)
    PROVE  Spec => []HonestWorkAppends
<1> DEFINE HeadsValid == \A m \in {head} \cup past : Validate(m)
<1>1. Init /\ NothingClosedTwice => HonestFile
  <2> SUFFICES ASSUME Init, NothingClosedTwice PROVE HonestFile
    OBVIOUS
  <2>1. IsManifest(file) /\ Validate(file) /\ ClosesOnce(file) /\ head = file
    BY StartsAssumption DEF Init, NothingClosedTwice
  <2> QED BY <2>1, AppendOnlyReflexive, ValidHasNoStrayEvent DEF HonestFile
<1>2. TypeOK /\ NothingClosedTwice /\ HeadsValid /\ HonestFile /\ [Next]_vars => HonestFile'
  <2> SUFFICES ASSUME TypeOK, NothingClosedTwice, HeadsValid, HonestFile, [Next]_vars
               PROVE  HonestFile'
    OBVIOUS
  <2>1. /\ IsManifest(file) /\ IsManifest(head) /\ Validate(head)
        /\ ClosesOnce(file) /\ ClosesOnce(head)
    BY DEF NothingClosedTwice, TypeOK
  <2>2. CASE UNCHANGED vars
    BY <2>2 DEF vars, HonestFile, VerifyAppendOnly, NoStrayEvent, Active, Listed
  <2>3. CASE Tamper
    BY <2>3 DEF Tamper, HonestFile
  <2>4. CASE Stage
    BY <2>4 DEF Stage, HonestFile, VerifyAppendOnly, NoStrayEvent, Active, Listed
  <2>5. CASE Commit
    <3>1. head' = file /\ file' = file /\ Validate(file)
      BY <2>5 DEF Commit, Check
    <3> QED BY <2>1, <3>1, AppendOnlyReflexive, ValidHasNoStrayEvent DEF HonestFile
  <2>6. CASE Restore
    <3>1. head' = head /\ file' = head
      BY <2>6 DEF Restore
    <3> QED BY <2>1, <3>1, AppendOnlyReflexive, ValidHasNoStrayEvent DEF HonestFile
  <2>7. CASE Next /\ ~Tamper /\ ~(Stage \/ Commit \/ Restore)
    <3> SUFFICES ASSUME honest'
                 PROVE  VerifyAppendOnly(head', file') /\ NoStrayEvent(file')
      BY DEF HonestFile
    <3>1. CASE honest
      <4>1. VerifyAppendOnly(head, file) /\ NoStrayEvent(file)
        BY <3>1 DEF HonestFile
      <4>2. VerifyAppendOnly(file, file') /\ NoStrayEvent(file') /\ head' = head
        BY <2>1, <2>7, <4>1, HonestStepAppends
      <4> QED BY <4>1, <4>2, AppendOnlyTransitive
    <3>2. CASE ~honest
      BY <2>7, <3>2 DEF Next, Record, Reweight, RecordOutputs, Close, Propose, Retire
    <3> QED BY <3>1, <3>2
  <2> QED BY <2>2, <2>3, <2>4, <2>5, <2>6, <2>7
<1>3. HonestFile => HonestWorkAppends
  BY DEF HonestFile, HonestWorkAppends
<1> QED
  BY <1>1, <1>2, <1>3, TypeCorrect, NothingClosedTwiceAlways, HeadsValidate, PTL DEF Spec

=============================================================================
