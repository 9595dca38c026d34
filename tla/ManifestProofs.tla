---------------------------- MODULE ManifestProofs ----------------------------
(***************************************************************************)
(* Lemmas about the operations on a manifest, for any manifest and any     *)
(* recordings, versions and outputs: each makes a manifest of a manifest,  *)
(* and each is an append to the manifest it works on.                      *)
(***************************************************************************)
EXTENDS Manifest, FiniteSetTheorems, SequenceTheorems, TLAPS

(***************************************************************************)
(* The highest id.  Induction over the finite sets is their strict order,  *)
(* which is well founded: of the sets without a largest member none can be *)
(* least.                                                                  *)
(***************************************************************************)
LEMMA FiniteHasMax ==
  ASSUME NEW L \in SUBSET Nat, IsFiniteSet(L), L # {}
  PROVE  Max(L) \in L /\ \A y \in L : y <= Max(L)
<1> DEFINE Above == StrictSubsetOrdering(L)
           Without == {U \in FiniteSubsetsOf(L) : U # {} /\ \A x \in U : \E y \in U : ~(y <= x)}
<1>1. IsWellFoundedOn(Above, FiniteSubsetsOf(L))
  BY FS_StrictSubsetOrderingWellFounded
<1>2. \A U, V \in SUBSET L : U \subseteq V /\ U # V => <<U, V>> \in Above
  BY DEF StrictSubsetOrdering
<1>3. Without = {}
  <2> SUFFICES ASSUME Without # {} PROVE FALSE
    OBVIOUS
  <2> HIDE DEF Above
  <2>1. PICK U \in Without : \A V \in Without : ~(<<V, U>> \in Above)
    <3> HIDE DEF Without
    <3>1. Without \subseteq FiniteSubsetsOf(L)
      BY DEF Without
    <3> QED BY <1>1, <3>1, WFMin
  <2>2. U \subseteq L /\ IsFiniteSet(U)
    BY DEF FiniteSubsetsOf
  <2>3. PICK x \in U : TRUE
    OBVIOUS
  <2>4. U \ {x} \in FiniteSubsetsOf(L)
    BY <2>2, FS_RemoveElement DEF FiniteSubsetsOf
  <2>5. U \ {x} \notin Without
    BY <1>2, <2>1, <2>2
  <2>6. CASE U \ {x} = {}
    BY <2>2, <2>6
  <2>7. CASE U \ {x} # {}
    <3>1. PICK z \in U \ {x} : \A y \in U \ {x} : y <= z
      BY <2>4, <2>5, <2>7
    <3>2. \A y \in U : y \in Nat
      BY <2>2
    <3>3. CASE x <= z
      BY <3>1, <3>3
    <3>4. CASE ~(x <= z)
      <4>1. \A y \in U : y <= x
        BY <3>1, <3>2, <3>4
      <4> QED BY <4>1
    <3> QED BY <3>3, <3>4
  <2> QED BY <2>6, <2>7
<1>4. \E x \in L : \A y \in L : y <= x
  <2>1. L \in FiniteSubsetsOf(L)
    BY DEF FiniteSubsetsOf
  <2> QED BY <1>3, <2>1
<1>5. \E x \in L : \A y \in L : x >= y
  BY <1>4
<1>6. Max(L) \in L /\ \A y \in L : Max(L) >= y
  BY <1>5 DEF Max
<1> QED BY <1>6

\* nextID gives an id above every other: it is no input's yet.
LEMMA NextIDIsNew ==
  ASSUME NEW m, IsManifest(m)
  PROVE  NextID(m) \in Ids /\ \A i \in Listed(m) : i < NextID(m)
<1>1. Listed(m) \subseteq Nat /\ IsFiniteSet(Listed(m))
  BY DEF IsManifest, Ids, Listed
<1>2. CASE Listed(m) = {}
  BY <1>2 DEF NextID, Ids
<1>3. CASE Listed(m) # {}
  <2>1. Max(Listed(m)) \in Nat /\ \A i \in Listed(m) : i <= Max(Listed(m))
    BY <1>1, <1>3, FiniteHasMax
  <2>2. NextID(m) = Max(Listed(m)) + 1
    BY <1>3 DEF NextID
  <2> QED BY <1>1, <2>1, <2>2 DEF Ids
<1> QED BY <1>2, <1>3

(***************************************************************************)
(* What a manifest becomes is a manifest.                                  *)
(***************************************************************************)
LEMMA EmptyIsManifest == IsManifest(Empty)
BY FS_EmptySet DEF Empty, IsManifest, Listed

LEMMA InputsReplaced ==
  ASSUME NEW m, IsManifest(m),
         NEW S \in SUBSET Ids, IsFiniteSet(S), NEW f \in [S -> Recordings]
  PROVE  IsManifest([m EXCEPT !.inputs = f])
<1> DEFINE n == [m EXCEPT !.inputs = f]
<1>1. n.inputs = f /\ n.diffs = m.diffs /\ n.proposed = m.proposed
  BY DEF IsManifest
<1>2. n = [inputs |-> f, diffs |-> m.diffs, proposed |-> m.proposed]
  BY DEF IsManifest
<1>3. DOMAIN f = S
  OBVIOUS
<1>4. m.diffs \in Seq(Diffs) /\ m.proposed \in SUBSET Diffs
  BY DEF IsManifest
<1> HIDE DEF n
<1>5. n \in [inputs : {f}, diffs : Seq(Diffs), proposed : SUBSET Diffs]
  BY <1>2, <1>4
<1>6. IsManifest(n)
  BY <1>1, <1>3, <1>5 DEF IsManifest
<1> QED BY <1>6 DEF n

LEMMA DiffsReplaced ==
  ASSUME NEW m, IsManifest(m), NEW ds \in Seq(Diffs), NEW ps \in SUBSET Diffs
  PROVE  IsManifest([inputs |-> m.inputs, diffs |-> ds, proposed |-> ps])
BY DEF IsManifest

LEMMA ClosesReplaced ==
  ASSUME NEW m, IsManifest(m), NEW ds \in Seq(Diffs)
  PROVE  IsManifest([m EXCEPT !.diffs = ds])
<1>1. m.proposed \in SUBSET Diffs
  BY DEF IsManifest
<1>2. [m EXCEPT !.diffs = ds] = [inputs |-> m.inputs, diffs |-> ds, proposed |-> m.proposed]
  BY DEF IsManifest
<1> QED
  <2> DEFINE q == [inputs |-> m.inputs, diffs |-> ds, proposed |-> m.proposed]
  <2>1. IsManifest(q)
    BY <1>1, DiffsReplaced
  <2> HIDE DEF q
  <2>2. [m EXCEPT !.diffs = ds] = q
    BY <1>2 DEF q
  <2> QED BY <2>1, <2>2

LEMMA RecordedIsManifest ==
  ASSUME NEW m, IsManifest(m), NEW h \in Hashes, NEW w \in Nat
  PROVE  IsManifest(Recorded(m, h, w))
<1>1. CASE FoundByHash(m, h)
  BY <1>1 DEF Recorded
<1>2. CASE ~FoundByHash(m, h)
  <2> DEFINE S == Listed(m) \cup {NextID(m)}
             f == [i \in S |-> IF i \in Listed(m) THEN m.inputs[i] ELSE NewRecording(h, w)]
  <2>1. S \subseteq Ids /\ IsFiniteSet(S)
    BY NextIDIsNew, FS_AddElement DEF IsManifest, Listed
  <2>2. NewRecording(h, w) \in Recordings
    BY DEF NewRecording, Recordings
  <2>3. f \in [S -> Recordings]
    BY <2>2 DEF IsManifest, Listed
  <2>4. Recorded(m, h, w) = [m EXCEPT !.inputs = f]
    BY <1>2 DEF Recorded
  <2> HIDE DEF f, S
  <2> QED BY <2>1, <2>3, <2>4, InputsReplaced
<1> QED BY <1>1, <1>2

LEMMA ReweightedIsManifest ==
  ASSUME NEW m, IsManifest(m), Active(m) # {}
  PROVE  IsManifest(Reweighted(m))
<1> DEFINE share == Whole \div Cardinality(Active(m))
           f == [i \in Listed(m) |->
                   IF i \in Active(m) THEN [m.inputs[i] EXCEPT !.weight = share]
                   ELSE m.inputs[i]]
<1>1. Listed(m) \subseteq Ids /\ IsFiniteSet(Listed(m)) /\ m.inputs \in [Listed(m) -> Recordings]
  BY DEF IsManifest, Listed
<1>2. share \in Nat
  <2>1. Active(m) \in SUBSET Listed(m)
    BY DEF Active
  <2>2. IsFiniteSet(Active(m))
    BY <1>1, <2>1, FS_Subset
  <2>3. Cardinality(Active(m)) \in Nat /\ Cardinality(Active(m)) # 0
    BY <2>2, FS_CardinalityType, FS_EmptySet
  <2> QED BY <2>3, WholeAssumption
<1> HIDE DEF share
<1>3. f \in [Listed(m) -> Recordings]
  BY <1>1, <1>2 DEF Recordings
<1>4. Reweighted(m) = [m EXCEPT !.inputs = f]
  BY DEF Reweighted, share
<1> HIDE DEF f
<1> QED BY <1>1, <1>3, <1>4, InputsReplaced

LEMMA OutputsRecordedIsManifest ==
  ASSUME NEW m, IsManifest(m), NEW v \in Versions,
         NEW outputs \in [Listed(m) -> Outs \cup {None}]
  PROVE  IsManifest(OutputsRecorded(m, v, outputs))
<1> DEFINE f == [i \in Listed(m) |->
                   IF i \in TakesOutputs(m, v, outputs)
                   THEN [m.inputs[i] EXCEPT !.outputs[v] = outputs[i]]
                   ELSE m.inputs[i]]
<1>1. Listed(m) \subseteq Ids /\ IsFiniteSet(Listed(m)) /\ m.inputs \in [Listed(m) -> Recordings]
  BY DEF IsManifest, Listed
<1>2. f \in [Listed(m) -> Recordings]
  <2> SUFFICES ASSUME NEW i \in Listed(m), i \in TakesOutputs(m, v, outputs)
               PROVE  [m.inputs[i] EXCEPT !.outputs[v] = outputs[i]] \in Recordings
    BY <1>1
  <2>1. m.inputs[i] \in Recordings /\ outputs[i] \in Outs
    BY <1>1 DEF TakesOutputs
  <2> QED BY <2>1 DEF Recordings
<1>3. OutputsRecorded(m, v, outputs) = [m EXCEPT !.inputs = f]
  BY DEF OutputsRecorded
<1> HIDE DEF f
<1> QED BY <1>1, <1>2, <1>3, InputsReplaced

LEMMA AcceptedIsManifest ==
  ASSUME NEW m, IsManifest(m), NEW d \in Diffs
  PROVE  IsManifest(Accepted(m, d))
<1> DEFINE ds == Append(m.diffs, d)
           ps == {p \in m.proposed : Key(p) # Key(d)}
<1>1. ds \in Seq(Diffs)
  BY DEF IsManifest
<1>2. ps \in SUBSET Diffs
  BY DEF IsManifest
<1>3. Accepted(m, d) = [inputs |-> m.inputs, diffs |-> ds, proposed |-> ps]
  BY DEF Accepted
<1> HIDE DEF ds, ps
<1> QED BY <1>1, <1>2, <1>3, DiffsReplaced

LEMMA ProposedIsManifest ==
  ASSUME NEW m, IsManifest(m), NEW d \in Diffs
  PROVE  IsManifest(Proposed(m, d))
<1> DEFINE ps == {p \in m.proposed : Key(p) # Key(d)} \cup {d}
<1>1. ps \in SUBSET Diffs /\ m.diffs \in Seq(Diffs)
  BY DEF IsManifest
<1>2. Proposed(m, d) = [m EXCEPT !.proposed = ps]
  BY DEF Proposed
<1> HIDE DEF ps
<1>3. Proposed(m, d) = [inputs |-> m.inputs, diffs |-> m.diffs, proposed |-> ps]
  BY <1>2 DEF IsManifest
<1> QED BY <1>1, <1>3, DiffsReplaced

(***************************************************************************)
(* Each operation is an append, by VerifyAppendOnly itself.  It compares   *)
(* the closes by an index that keeps the last of two closes of one         *)
(* difference, so a list that closes one twice is no append to itself.     *)
(***************************************************************************)
Once(ds) == \A k, l \in DOMAIN ds : Key(ds[k]) = Key(ds[l]) => k = l

ClosesOnce(m) == Once(m.diffs)

LEMMA KeepsRecordingReflexive ==
  ASSUME NEW in
  PROVE  KeepsRecording(in, in)
BY DEF KeepsRecording, KeepsStatus

LEMMA KeepsDiffsReflexive ==
  ASSUME NEW m, IsManifest(m), ClosesOnce(m)
  PROVE  KeepsDiffs(m.diffs, m.diffs)
BY DEF IsManifest, KeepsDiffs, ClosesOnce, Once

LEMMA AppendOnlyReflexive ==
  ASSUME NEW m, IsManifest(m), ClosesOnce(m)
  PROVE  VerifyAppendOnly(m, m)
BY KeepsRecordingReflexive, KeepsDiffsReflexive DEF VerifyAppendOnly

(* Inputs may change in what KeepsRecording lets change, and be added.     *)
LEMMA InputsReplacedAppend ==
  ASSUME NEW m, IsManifest(m), ClosesOnce(m),
         NEW S, Listed(m) \subseteq S, NEW f, f = [i \in S |-> f[i]],
         \A i \in Listed(m) : KeepsRecording(m.inputs[i], f[i])
  PROVE  VerifyAppendOnly(m, [m EXCEPT !.inputs = f]) /\ ClosesOnce([m EXCEPT !.inputs = f])
<1> DEFINE n == [m EXCEPT !.inputs = f]
<1>1. n.inputs = f /\ n.diffs = m.diffs
  BY DEF IsManifest
<1>2. Listed(n) = S
  BY <1>1 DEF Listed
<1> HIDE DEF n
<1>3. VerifyAppendOnly(m, n) /\ ClosesOnce(n)
  BY <1>1, <1>2, KeepsDiffsReflexive DEF VerifyAppendOnly, ClosesOnce, Once
<1> QED BY <1>3 DEF n

LEMMA RecordedAppends ==
  ASSUME NEW m, IsManifest(m), ClosesOnce(m), NEW h, NEW w
  PROVE  VerifyAppendOnly(m, Recorded(m, h, w)) /\ ClosesOnce(Recorded(m, h, w))
<1>1. CASE FoundByHash(m, h)
  BY <1>1, AppendOnlyReflexive DEF Recorded
<1>2. CASE ~FoundByHash(m, h)
  <2> DEFINE S == Listed(m) \cup {NextID(m)}
             f == [i \in S |-> IF i \in Listed(m) THEN m.inputs[i] ELSE NewRecording(h, w)]
  <2>1. \A i \in Listed(m) : KeepsRecording(m.inputs[i], f[i])
    BY KeepsRecordingReflexive
  <2>2. f = [i \in S |-> f[i]] /\ Listed(m) \subseteq S
    OBVIOUS
  <2>3. Recorded(m, h, w) = [m EXCEPT !.inputs = f]
    BY <1>2 DEF Recorded
  <2> HIDE DEF f, S
  <2> QED BY <2>1, <2>2, <2>3, InputsReplacedAppend
<1> QED BY <1>1, <1>2

LEMMA ReweightedAppends ==
  ASSUME NEW m, IsManifest(m), ClosesOnce(m)
  PROVE  VerifyAppendOnly(m, Reweighted(m)) /\ ClosesOnce(Reweighted(m))
<1> DEFINE f == [i \in Listed(m) |->
                   IF i \in Active(m)
                   THEN [m.inputs[i] EXCEPT !.weight = Whole \div Cardinality(Active(m))]
                   ELSE m.inputs[i]]
<1>1. ASSUME NEW i \in Listed(m) PROVE KeepsRecording(m.inputs[i], f[i])
  <2>1. m.inputs[i] \in Recordings
    BY DEF IsManifest, Listed
  <2> QED BY <2>1 DEF KeepsRecording, KeepsStatus, Recordings
<1>2. f = [i \in Listed(m) |-> f[i]] /\ Reweighted(m) = [m EXCEPT !.inputs = f]
  BY DEF Reweighted
<1> HIDE DEF f
<1> QED BY <1>1, <1>2, InputsReplacedAppend

LEMMA OutputsRecordedAppends ==
  ASSUME NEW m, IsManifest(m), ClosesOnce(m), NEW v \in Versions, NEW outputs
  PROVE  /\ VerifyAppendOnly(m, OutputsRecorded(m, v, outputs))
         /\ ClosesOnce(OutputsRecorded(m, v, outputs))
<1> DEFINE f == [i \in Listed(m) |->
                   IF i \in TakesOutputs(m, v, outputs)
                   THEN [m.inputs[i] EXCEPT !.outputs[v] = outputs[i]]
                   ELSE m.inputs[i]]
<1>1. ASSUME NEW i \in Listed(m) PROVE KeepsRecording(m.inputs[i], f[i])
  <2>1. m.inputs[i] \in Recordings
    BY DEF IsManifest, Listed
  <2>2. CASE i \notin TakesOutputs(m, v, outputs)
    BY <2>2, KeepsRecordingReflexive
  <2>3. CASE i \in TakesOutputs(m, v, outputs)
    <3>1. m.inputs[i].outputs[v] \in {None, outputs[i]}
      <4>1. i \in Nat
        BY DEF IsManifest, Listed, Ids
      <4>2. outputs[i] # None /\ i \notin Disagreeing(m, v, outputs)
        BY <2>3, <4>1 DEF TakesOutputs
      <4> QED BY <4>2 DEF Disagreeing
    <3> QED BY <2>1, <2>3, <3>1 DEF KeepsRecording, KeepsStatus, Recordings
  <2> QED BY <2>2, <2>3
<1>2. f = [i \in Listed(m) |-> f[i]] /\ OutputsRecorded(m, v, outputs) = [m EXCEPT !.inputs = f]
  BY DEF OutputsRecorded
<1> HIDE DEF f
<1> QED BY <1>1, <1>2, InputsReplacedAppend

LEMMA AcceptedAppends ==
  ASSUME NEW m, IsManifest(m), ClosesOnce(m), NEW d \in Diffs, MayAccept(m, d)
  PROVE  VerifyAppendOnly(m, Accepted(m, d)) /\ ClosesOnce(Accepted(m, d))
<1> DEFINE ds == Append(m.diffs, d)
           n == Len(m.diffs)
<1>1. /\ n \in Nat /\ DOMAIN m.diffs = 1..n /\ DOMAIN ds = 1..(n + 1)
      /\ \A k \in 1..n : ds[k] = m.diffs[k]
      /\ ds[n + 1] = d
  BY DEF IsManifest
<1>2. \A k \in 1..n : Key(ds[k]) # Key(ds[n + 1])
  BY <1>1 DEF MayAccept, ClosedKeys
<1>3. \A k, l \in 1..(n + 1) : Key(ds[k]) = Key(ds[l]) => k = l
  <2> HIDE DEF ds, n
  <2>1. \A k \in 1..(n + 1) : k \in 1..n \/ k = n + 1
    BY <1>1
  <2>2. \A k, l \in 1..n : Key(ds[k]) = Key(ds[l]) => k = l
    BY <1>1 DEF ClosesOnce, Once
  <2> QED BY <1>2, <2>1, <2>2
<1> HIDE DEF ds, n
<1>4. KeepsDiffs(m.diffs, ds)
  <2> SUFFICES ASSUME NEW k \in DOMAIN m.diffs
               PROVE  \E j \in DOMAIN ds :
                        /\ ds[j] = m.diffs[k]
                        /\ \A l \in DOMAIN ds : Key(ds[l]) = Key(m.diffs[k]) => l <= j
    BY DEF KeepsDiffs
  <2>1. k \in DOMAIN ds /\ ds[k] = m.diffs[k]
    BY <1>1
  <2>2. \A l \in DOMAIN ds : Key(ds[l]) = Key(m.diffs[k]) => l <= k
    BY <1>1, <1>3, <2>1
  <2> QED BY <2>1, <2>2
<1>5. Accepted(m, d).inputs = m.inputs /\ Accepted(m, d).diffs = ds
  BY DEF Accepted, ds
<1> QED
  BY <1>1, <1>3, <1>4, <1>5, KeepsRecordingReflexive DEF VerifyAppendOnly, ClosesOnce, Once, Listed

LEMMA ProposedAppends ==
  ASSUME NEW m, IsManifest(m), ClosesOnce(m), NEW d
  PROVE  VerifyAppendOnly(m, Proposed(m, d)) /\ ClosesOnce(Proposed(m, d))
<1> DEFINE p == Proposed(m, d)
<1>1. p.inputs = m.inputs /\ p.diffs = m.diffs
  BY DEF Proposed, IsManifest
<1> HIDE DEF p
<1>2. VerifyAppendOnly(m, p) /\ ClosesOnce(p)
  BY <1>1, KeepsRecordingReflexive, KeepsDiffsReflexive DEF VerifyAppendOnly, ClosesOnce, Once, Listed
<1> QED BY <1>2 DEF p

(* An input that kept its recording twice kept it.                          *)
LEMMA KeepsRecordingTransitive ==
    ASSUME NEW a, NEW b, NEW c, KeepsRecording(a, b), KeepsRecording(b, c)
    PROVE  KeepsRecording(a, c)
BY DEF KeepsRecording, KeepsStatus

(* The close the index keeps is kept by the next index.                     *)
LEMMA KeepsDiffsTransitive ==
    ASSUME NEW a, NEW b, NEW c, KeepsDiffs(a, b), KeepsDiffs(b, c)
    PROVE  KeepsDiffs(a, c)
<1> SUFFICES ASSUME NEW k \in DOMAIN a
             PROVE  \E j \in DOMAIN c :
                       /\ c[j] = a[k]
                       /\ \A l \in DOMAIN c : Key(c[l]) = Key(a[k]) => l <= j
  BY DEF KeepsDiffs
<1>1. PICK i \in DOMAIN b : b[i] = a[k]
  BY DEF KeepsDiffs
<1>2. PICK j \in DOMAIN c : /\ c[j] = b[i]
                            /\ \A l \in DOMAIN c : Key(c[l]) = Key(b[i]) => l <= j
  BY DEF KeepsDiffs
<1> QED BY <1>1, <1>2

(* VerifyAppendOnly is transitive: appends to an append are appends.  No    *)
(* condition is needed on the manifests, valid or not.                      *)
THEOREM AppendOnlyTransitive ==
    ASSUME NEW a, NEW b, NEW c, VerifyAppendOnly(a, b), VerifyAppendOnly(b, c)
    PROVE  VerifyAppendOnly(a, c)
<1>1. ASSUME NEW i \in Listed(a)
      PROVE  i \in Listed(c) /\ KeepsRecording(a.inputs[i], c.inputs[i])
  <2>1. i \in Listed(b) /\ KeepsRecording(a.inputs[i], b.inputs[i])
    BY DEF VerifyAppendOnly
  <2>2. i \in Listed(c) /\ KeepsRecording(b.inputs[i], c.inputs[i])
    BY <2>1 DEF VerifyAppendOnly
  <2> QED BY <2>1, <2>2, KeepsRecordingTransitive
<1>2. KeepsDiffs(a.diffs, c.diffs)
  BY KeepsDiffsTransitive DEF VerifyAppendOnly
<1> QED BY <1>1, <1>2 DEF VerifyAppendOnly

===============================================================================
