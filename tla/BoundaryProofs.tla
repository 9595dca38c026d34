----------------------------- MODULE BoundaryProofs -----------------------------
(* Theorems about the boundary: the page and the record it is projected from,  *)
(* for any texts, width and files; the check of a whole project, for any       *)
(* records, names and trees; and the witnesses, for any boundary and suite.    *)
EXTENDS BoundaryProjection, ProjectCheck, Witnesses, FiniteSetTheorems, SequenceTheorems, TLAPS

(***************************************************************************)
(* Numbers.  The library's induction takes an operator, which no prover    *)
(* here can instantiate; a least counterexample does as well.              *)
(***************************************************************************)

\* A set of numbers has a least one: of the sets 1..n, none is below it.
LEMMA LeastElement ==
  ASSUME NEW T, T \subseteq Nat, T # {}
  PROVE  \E n \in T : \A m \in T : n <= m
<1> DEFINE Below == StrictSubsetOrdering(Nat)
           Initial == {1..n : n \in T}
<1>1. IsWellFoundedOn(Below, FiniteSubsetsOf(Nat))
  BY FS_StrictSubsetOrderingWellFounded
<1>2. Initial \subseteq FiniteSubsetsOf(Nat) /\ Initial # {}
  <2>1. ASSUME NEW n \in Nat PROVE 1..n \in SUBSET Nat /\ IsFiniteSet(1..n)
    BY FS_Interval
  <2> QED BY <2>1 DEF FiniteSubsetsOf
<1>3. PICK I \in Initial : \A J \in Initial : ~(<<J, I>> \in Below)
  <2> HIDE DEF Below, Initial
  <2> QED BY <1>1, <1>2, WFMin
<1>4. PICK n \in T : I = 1..n
  OBVIOUS
<1>5. ASSUME NEW m \in T, ~(n <= m) PROVE FALSE
  <2>1. n \in 1..n /\ n \notin 1..m
    BY <1>5
  <2>2. 1..m \subseteq 1..n /\ 1..m # 1..n
    BY <2>1, <1>5
  <2>3. <<1..m, 1..n>> \in Below
    BY <2>2 DEF StrictSubsetOrdering
  <2> QED BY <2>3, <1>3, <1>4
<1> QED BY <1>5


\* Induction up to a bound, for a set of numbers.
LEMMA Ascent ==
  ASSUME NEW n \in Nat, NEW G, 0 \in G,
         \A k \in 0..n : k < n /\ k \in G => k + 1 \in G
  PROVE  \A k \in 0..n : k \in G
<1> DEFINE T == {k \in 0..n : k \notin G}
<1> SUFFICES ASSUME T # {} PROVE FALSE
  OBVIOUS
<1>1. T \subseteq Nat
  OBVIOUS
<1>2. PICK k \in T : \A m \in T : k <= m
  <2> HIDE DEF T
  <2> QED BY <1>1, LeastElement
<1>3. k \in 0..n /\ k \notin G /\ k # 0
  OBVIOUS
<1>4. k - 1 \in 0..n /\ k - 1 < n /\ k - 1 \notin T
  BY <1>2, <1>3
<1>5. k - 1 \in G
  BY <1>4
<1>6. (k - 1) + 1 \in G
  BY <1>4, <1>5
<1> QED BY <1>3, <1>6

\* A run of steps, each from where the one before it came to.
Unfolds(f, N, S, first, step) ==
  /\ f \in [0..N -> S]
  /\ f[0] = first
  /\ \A i \in 1..N : f[i] = step[i][f[i - 1]]

\* Some function unfolds so.
LEMMA Unfolding ==
  ASSUME NEW N \in Nat, NEW S, NEW first \in S, NEW step \in [1..N -> [S -> S]]
  PROVE  \E f : Unfolds(f, N, S, first, step)
<1> DEFINE Upto(n) == {f \in [0..n -> S] :
              f[0] = first /\ \A i \in 1..n : f[i] = step[i][f[i - 1]]}
           G == {n \in 0..N : Upto(n) # {}}
<1>1. 0 \in G
  <2>1. [i \in 0..0 |-> first] \in Upto(0)
    OBVIOUS
  <2> HIDE DEF Upto
  <2>2. 0 \in 0..N /\ Upto(0) # {}
    BY <2>1
  <2> QED BY <2>2
<1>2. ASSUME NEW n \in 0..N, n < N, n \in G PROVE n + 1 \in G
  <2>1. PICK f \in Upto(n) : TRUE
    BY <1>2
  <2>2. f \in [0..n -> S] /\ f[0] = first /\ \A i \in 1..n : f[i] = step[i][f[i - 1]]
    BY <2>1
  <2>3. n \in Nat /\ n + 1 \in 1..N /\ step[n + 1][f[n]] \in S
    BY <1>2, <2>2
  <2> DEFINE g == [i \in 0..(n + 1) |-> IF i = n + 1 THEN step[n + 1][f[n]] ELSE f[i]]
  <2>4. g \in [0..(n + 1) -> S]
    BY <2>2, <2>3
  <2>5. g[0] = first
    BY <2>2, <2>3
  <2>6. ASSUME NEW i \in 1..(n + 1) PROVE g[i] = step[i][g[i - 1]]
    <3>1. CASE i = n + 1
      <4>1. i - 1 = n /\ n \in 0..(n + 1) /\ n # n + 1 /\ i \in 0..(n + 1)
        BY <2>3, <3>1
      <4>2. g[i] = step[n + 1][f[n]] /\ g[i - 1] = f[n]
        BY <4>1, <3>1
      <4> QED BY <4>2, <3>1
    <3>2. CASE i # n + 1
      <4>1. i \in 1..n /\ g[i] = f[i] /\ g[i - 1] = f[i - 1]
        BY <2>3, <3>2
      <4> QED BY <4>1, <2>2
    <3> QED BY <3>1, <3>2
  <2>7. g \in Upto(n + 1)
    <3> HIDE DEF g
    <3> QED BY <2>4, <2>5, <2>6
  <2> HIDE DEF Upto, g
  <2> QED BY <2>3, <2>7
<1> HIDE DEF G
<1>3. N \in G
  <2>1. \A n \in 0..N : n \in G
    BY <1>1, <1>2, Ascent
  <2> QED BY <2>1
<1> QED BY <1>3 DEF G, Unfolds

(***************************************************************************)
(* The sequences that FlattenSeq joins, joined one by one.                 *)
(***************************************************************************)
Joins(seqs, joined) ==
  /\ joined[0] = <<>>
  /\ \A i \in 1..Len(seqs) : joined[i] = joined[i - 1] \o seqs[i]

\* Such a function there is, and its last value is what FlattenSeq makes.
LEMMA FlattenJoins ==
  ASSUME NEW S, NEW seqs \in Seq(Seq(S))
  PROVE  \E joined \in [0..Len(seqs) -> Seq(S)] :
            Joins(seqs, joined) /\ FlattenSeq(seqs) = joined[Len(seqs)]
<1> DEFINE N == Len(seqs)
           step == [i \in 1..N |-> [x \in Seq(S) |-> x \o seqs[i]]]
<1>1. N \in Nat /\ \A i \in 1..N : seqs[i] \in Seq(S)
  OBVIOUS
<1>2. PICK f \in [0..N -> Seq(S)] :
         f[0] = <<>> /\ \A i \in 1..N : f[i] = f[i - 1] \o seqs[i]
  <2>1. step \in [1..N -> [Seq(S) -> Seq(S)]]
    BY <1>1
  <2>2. \A x \in Seq(S), i \in 1..N : step[i][x] = x \o seqs[i]
    OBVIOUS
  <2>3. <<>> \in Seq(S)
    OBVIOUS
  <2> HIDE DEF step, N
  <2>4. PICK f : Unfolds(f, N, Seq(S), <<>>, step)
    BY <1>1, <2>1, <2>3, Unfolding
  <2>5. \A i \in 1..N : f[i - 1] \in Seq(S)
    BY <1>1, <2>4 DEF Unfolds
  <2> QED BY <2>2, <2>4, <2>5 DEF Unfolds
<1>3. FlattenSeq(seqs) = f[N]
  <2>1. CASE N = 0
    BY <1>2, <2>1 DEF FlattenSeq
  <2>2. CASE N # 0
    <3> DEFINE F == CHOOSE h : h = [i \in 1..N |-> IF i = 1 THEN seqs[i] ELSE h[i-1] \o seqs[i]]
               f1 == [i \in 1..N |-> f[i]]
    <3>3. FlattenSeq(seqs) = F[N]
      BY <2>2 DEF FlattenSeq
    <3>0. ASSUME NEW i \in 1..N PROVE f[i] = IF i = 1 THEN seqs[i] ELSE f1[i-1] \o seqs[i]
      <4>1. CASE i = 1
        <5>1. f[1] = f[0] \o seqs[1] /\ seqs[1] \in Seq(S) /\ f[0] = <<>>
          <6>1. 1 \in 1..N /\ 1 - 1 = 0
            BY <4>1
          <6> HIDE DEF N, f1
          <6> QED BY <6>1, <1>2, <1>1
        <5> QED BY <5>1, <4>1, ConcatProperties
      <4>2. CASE i # 1
        <5>1. i - 1 \in 1..N
          BY <4>2, <1>1
        <5> QED BY <5>1, <1>2, <4>2
      <4> QED BY <4>1, <4>2
    <3>1. f1 = [i \in 1..N |-> IF i = 1 THEN seqs[i] ELSE f1[i-1] \o seqs[i]]
      BY <3>0
    <3>2. F = [i \in 1..N |-> IF i = 1 THEN seqs[i] ELSE F[i-1] \o seqs[i]]
      <4> HIDE DEF f1
      <4> QED BY <3>1
    <3> DEFINE G == {i \in 0..N : i = 0 \/ F[i] = f[i]}
    <3> HIDE DEF F, N
    <3>4. ASSUME NEW i \in 0..N, i < N, i \in G PROVE i + 1 \in G
      <4>1. i + 1 \in 1..N
        BY <3>4, <1>1
      <4>2. f[i + 1] = IF i + 1 = 1 THEN seqs[i + 1] ELSE f1[i] \o seqs[i + 1]
        BY <3>0, <4>1, <1>1
      <4>3. F[i + 1] = IF i + 1 = 1 THEN seqs[i + 1] ELSE F[i] \o seqs[i + 1]
        <5>1. F[i + 1] = IF i + 1 = 1 THEN seqs[i + 1] ELSE F[(i + 1) - 1] \o seqs[i + 1]
          <6> HIDE DEF f1
          <6> QED BY <3>2, <4>1
        <5>2. (i + 1) - 1 = i
          BY <3>4, <1>1
        <5> QED BY <5>1, <5>2
      <4>4. CASE i = 0
        BY <4>1, <4>2, <4>3, <4>4
      <4>5. CASE i # 0
        <5>1. i \in 1..N /\ f1[i] = f[i] /\ F[i] = f[i] /\ i + 1 # 1
          BY <4>5, <3>4, <1>1
        <5>2. F[i + 1] = f[i + 1]
          <6> HIDE DEF f1, G
          <6> QED BY <5>1, <4>2, <4>3
        <5>3. i + 1 \in 0..N
          BY <4>1, <1>1
        <5> QED BY <5>2, <5>3
      <4> QED BY <4>4, <4>5
    <3>5. 0 \in G
      BY <1>1
    <3>6. N \in G
      <4> HIDE DEF G
      <4>1. \A k \in 0..N : k \in G
        BY <1>1, <3>4, <3>5, Ascent
      <4> QED BY <4>1, <1>1
    <3> QED BY <3>3, <3>6, <2>2
  <2> QED BY <2>1, <2>2
<1> QED BY <1>2, <1>3 DEF Joins

(***************************************************************************)
(* Picking.                                                                *)
(***************************************************************************)
Rank(places, i) == Cardinality({j \in places : j < i})

\* Each place has a rank of its own, and every rank below their number is taken.
LEMMA Ranks ==
  ASSUME NEW places, places \subseteq Int, IsFiniteSet(places)
  PROVE  /\ Cardinality(places) \in Nat
         /\ \A i \in places : Rank(places, i) \in 0..(Cardinality(places) - 1)
         /\ \A i, j \in places : Rank(places, i) = Rank(places, j) => i = j
<1>1. ASSUME NEW i \in places
      PROVE  /\ IsFiniteSet({j \in places : j < i}) /\ Rank(places, i) \in Nat
             /\ Cardinality({j \in places : j < i} \cup {i}) = Rank(places, i) + 1
             /\ Rank(places, i) + 1 <= Cardinality(places)
  <2> DEFINE low == {j \in places : j < i}
  <2>1. low \subseteq places /\ i \notin low /\ low \cup {i} \subseteq places
    OBVIOUS
  <2> HIDE DEF low
  <2>2. IsFiniteSet(low) /\ Cardinality(low) \in Nat
    BY <2>1, FS_Subset, FS_CardinalityType
  <2>3. Cardinality(low \cup {i}) = Cardinality(low) + 1
    BY <2>1, <2>2, FS_AddElement
  <2>4. Cardinality(low \cup {i}) <= Cardinality(places)
    BY <2>1, FS_Subset
  <2> QED BY <2>2, <2>3, <2>4 DEF low, Rank
<1>2. Cardinality(places) \in Nat
  BY FS_CardinalityType
<1>3. ASSUME NEW i \in places, NEW j \in places, i < j PROVE Rank(places, i) < Rank(places, j)
  <2> DEFINE lowi == {k \in places : k < i} \cup {i}
             lowj == {k \in places : k < j}
  <2>1. lowi \subseteq lowj
    <3>1. i \in Int /\ j \in Int /\ \A k \in places : k \in Int
      OBVIOUS
    <3>2. ASSUME NEW k \in places, k < i PROVE k < j
      BY <3>1, <3>2, <1>3
    <3> QED BY <3>2, <1>3
  <2>2. Cardinality(lowi) <= Cardinality(lowj)
    <3> HIDE DEF lowi
    <3> QED BY <1>1, <2>1, FS_Subset
  <2>3. Cardinality(lowi) = Rank(places, i) + 1 /\ Cardinality(lowj) = Rank(places, j)
    BY <1>1 DEF Rank
  <2>4. Rank(places, i) \in Nat /\ Rank(places, j) \in Nat
    BY <1>1
  <2> QED BY <2>2, <2>3, <2>4
<1>4. ASSUME NEW i \in places, NEW j \in places, Rank(places, i) = Rank(places, j) PROVE i = j
  <2>1. i \in Int /\ j \in Int /\ Rank(places, i) \in Nat
    BY <1>1
  <2>2. Rank(places, i) < Rank(places, j) \/ Rank(places, j) < Rank(places, i) => FALSE
    BY <2>1, <1>4
  <2>3. ~(i < j) /\ ~(j < i)
    BY <1>3, <2>2
  <2> QED BY <2>1, <2>3
<1>5. ASSUME NEW i \in places PROVE Rank(places, i) \in 0..(Cardinality(places) - 1)
  <2> DEFINE r == Rank(places, i)
             c == Cardinality(places)
  <2>1. r \in Nat /\ r + 1 <= c /\ c \in Nat
    BY <1>1, <1>2
  <2> HIDE DEF r, c
  <2>2. r \in 0..(c - 1)
    BY <2>1
  <2> QED BY <2>2 DEF r, c
<1> QED BY <1>2, <1>4, <1>5

\* InOrder counts out the places, all of them.
LEMMA InOrderOnto ==
  ASSUME NEW places, places \subseteq Int, IsFiniteSet(places)
  PROVE  /\ Cardinality(places) \in Nat
         /\ InOrder(places) \in [1..Cardinality(places) -> places]
         /\ \A i \in places : \E k \in 1..Cardinality(places) : InOrder(places)[k] = i
<1> DEFINE n == Cardinality(places)
           ranks == {Rank(places, i) : i \in places}
<1>1. n \in Nat
  BY Ranks
<1>2. ranks = 0..(n - 1)
  <2>1. ranks \subseteq 0..(n - 1)
    <3>1. \A i \in places : Rank(places, i) \in 0..(n - 1)
      BY Ranks
    <3> HIDE DEF n
    <3> QED BY <3>1
  <2>2. IsFiniteSet(0..(n - 1)) /\ Cardinality(0..(n - 1)) = n
    <3>1. 0 \in Int /\ n - 1 \in Int
      BY <1>1
    <3>2. IsFiniteSet(0..(n - 1))
      BY <3>1, FS_Interval
    <3>3. Cardinality(0..(n - 1)) = IF 0 > n - 1 THEN 0 ELSE n - 1 - 0 + 1
      BY <3>1, FS_Interval
    <3> QED BY <3>2, <3>3, <1>1
  <2>3. ExistsBijection(places, ranks)
    <3> DEFINE f == [i \in places |-> Rank(places, i)]
    <3>1. f \in Bijection(places, ranks)
      BY Ranks DEF Bijection, Injection, Surjection, IsInjective
    <3> QED BY <3>1 DEF ExistsBijection
  <2>4. IsFiniteSet(ranks) /\ Cardinality(ranks) = n
    <3> HIDE DEF ranks
    <3> QED BY <2>3, FS_Bijection
  <2> HIDE DEF ranks
  <2> QED BY <2>1, <2>2, <2>4, FS_Subset
<1>3. ASSUME NEW k \in 1..n PROVE \E i \in places : Rank(places, i) = k - 1
  <2>1. k - 1 \in ranks
    BY <1>1, <1>2
  <2> QED BY <2>1
<1>4. ASSUME NEW k \in 1..n
      PROVE  InOrder(places)[k] \in places /\ Rank(places, InOrder(places)[k]) = k - 1
  <2>1. InOrder(places)[k] = CHOOSE i \in places : Rank(places, i) = k - 1
    BY DEF InOrder, Rank
  <2> QED BY <2>1, <1>3
<1>5. DOMAIN InOrder(places) = 1..n
  BY DEF InOrder
<1>6. InOrder(places) \in [1..n -> places]
  BY <1>4, <1>5 DEF InOrder
<1>7. ASSUME NEW i \in places PROVE \E k \in 1..n : InOrder(places)[k] = i
  <2>1. Rank(places, i) \in 0..(n - 1)
    BY Ranks
  <2>2. Rank(places, i) + 1 \in 1..n
    BY <2>1, <1>1
  <2>3. Rank(places, InOrder(places)[Rank(places, i) + 1]) = Rank(places, i)
    BY <2>1, <2>2, <1>4
  <2>4. InOrder(places)[Rank(places, i) + 1] \in places
    BY <2>2, <1>4
  <2> QED BY <2>2, <2>3, <2>4, Ranks
<1> QED BY <1>1, <1>6, <1>7

\* What is picked is exactly what stands at the places.
LEMMA PickedIsPart ==
  ASSUME NEW S, NEW s \in Seq(S), NEW places \in SUBSET DOMAIN s
  PROVE  /\ Picked(s, places) \in Seq({s[i] : i \in places})
         /\ \A i \in places : \E k \in DOMAIN Picked(s, places) : Picked(s, places)[k] = s[i]
<1>1. places \subseteq Int /\ IsFiniteSet(places)
  <2>1. DOMAIN s = 1..Len(s) /\ Len(s) \in Nat
    OBVIOUS
  <2>2. IsFiniteSet(1..Len(s))
    BY <2>1, FS_Interval
  <2> QED BY <2>1, <2>2, FS_Subset
<1> DEFINE n == Cardinality(places)
<1>2. n \in Nat /\ InOrder(places) \in [1..n -> places]
  BY <1>1, InOrderOnto
<1>3. Picked(s, places) \in [1..n -> {s[i] : i \in places}]
  BY <1>2 DEF Picked
<1>4. Picked(s, places) \in Seq({s[i] : i \in places})
  BY <1>2, <1>3, SeqDef
<1>5. ASSUME NEW i \in places PROVE \E k \in DOMAIN Picked(s, places) : Picked(s, places)[k] = s[i]
  <2>1. PICK k \in 1..n : InOrder(places)[k] = i
    BY <1>1, InOrderOnto
  <2> QED BY <2>1 DEF Picked
<1> QED BY <1>4, <1>5

-----------------------------------------------------------------------------
(***************************************************************************)
(* The page.                                                               *)
(***************************************************************************)

\* The entry whose words the line of an entry has.
ReadAs(e) == IF Shown[e] = Illegible THEN e ELSE Shown[e]

LinesWith(T) == [kind : Kinds, words : Seq(T)]

\* What wrapping makes of an entry: one item and its continuations.
Wrapped(T) ==
  {lines \in Seq(LinesWith(T)) :
     /\ Len(lines) >= 1 /\ lines[1].kind = "item"
     /\ \A i \in 2..Len(lines) : lines[i].kind = "more"}

\* A word put on wrapped lines leaves wrapped lines, the last of them with a word.
LEMMA PutWraps ==
  ASSUME NEW T, NEW lines \in Wrapped(T), NEW w \in T
  PROVE  Put(lines, w) \in Wrapped(T) /\ Last(Put(lines, w)).words # <<>>
<1> DEFINE n == Len(lines)
<1>1. /\ lines \in Seq(LinesWith(T)) /\ n \in Nat /\ n >= 1 /\ lines[1].kind = "item"
      /\ \A i \in 2..n : lines[i].kind = "more"
  BY DEF Wrapped
<1>2. lines[n] \in LinesWith(T)
  BY <1>1
<1>3. CASE Wide(Last(lines)) + 1 + Lengths[w[1]][w[2]] > Width
  <2> DEFINE more == [kind |-> "more", words |-> <<w>>]
             longer == Append(lines, more)
  <2>1. more \in LinesWith(T) /\ more.kind = "more" /\ more.words # <<>>
    BY DEF LinesWith, Kinds
  <2>2. Put(lines, w) = longer
    BY <1>3 DEF Put
  <2> HIDE DEF more, n
  <2>3. /\ longer \in Seq(LinesWith(T)) /\ Len(longer) = n + 1
        /\ \A i \in 1..n : longer[i] = lines[i]
        /\ longer[n + 1] = more
    BY <1>1, <2>1, AppendProperties DEF n
  <2> HIDE DEF longer
  <2>4. longer \in Wrapped(T)
    <3>1. Len(longer) >= 1 /\ longer[1].kind = "item"
      BY <1>1, <2>3
    <3>2. ASSUME NEW i \in 2..Len(longer) PROVE longer[i].kind = "more"
      <4>1. i = n + 1 \/ (i \in 2..n /\ i \in 1..n)
        BY <1>1, <2>3
      <4> QED BY <1>1, <2>1, <2>3, <4>1
    <3> QED BY <2>3, <3>1, <3>2 DEF Wrapped
  <2> QED BY <2>1, <2>2, <2>3, <2>4 DEF Last
<1>4. CASE ~(Wide(Last(lines)) + 1 + Lengths[w[1]][w[2]] > Width)
  <2> DEFINE filled == [lines[n] EXCEPT !.words = Append(@, w)]
             front == SubSeq(lines, 1, n - 1)
             fuller == front \o <<filled>>
  <2>1. filled \in LinesWith(T) /\ filled.kind = lines[n].kind /\ filled.words # <<>>
    BY <1>2 DEF LinesWith
  <2>2. Put(lines, w) = fuller
    BY <1>4 DEF Put, Front, Last
  <2> HIDE DEF filled
  <2>3. /\ front \in Seq(LinesWith(T)) /\ Len(front) = n - 1
        /\ \A i \in 1..(n - 1) : front[i] = lines[i]
    <3>1. n - 1 \in Int /\ 1 \in Int /\ \A i \in 1..(n - 1) : lines[i] \in LinesWith(T)
      BY <1>1
    <3> HIDE DEF n
    <3>2. /\ front \in Seq(LinesWith(T))
          /\ Len(front) = IF 1 <= n - 1 THEN (n - 1) - 1 + 1 ELSE 0
          /\ \A i \in 1..((n - 1) - 1 + 1) : front[i] = lines[1 + i - 1]
      BY <3>1, SubSeqProperties
    <3> HIDE DEF front
    <3> QED BY <1>1, <3>2
  <2> HIDE DEF front, n
  <2>4. /\ fuller \in Seq(LinesWith(T)) /\ Len(fuller) = n
        /\ \A i \in 1..(n - 1) : fuller[i] = lines[i]
        /\ fuller[n] = filled
    <3>1. <<filled>> \in Seq(LinesWith(T)) /\ Len(<<filled>>) = 1 /\ <<filled>>[1] = filled
      BY <2>1
    <3>2. /\ fuller \in Seq(LinesWith(T)) /\ Len(fuller) = (n - 1) + 1
          /\ \A i \in 1..((n - 1) + 1) : fuller[i] =
                IF i <= n - 1 THEN front[i] ELSE <<filled>>[i - (n - 1)]
      BY <2>3, <3>1, ConcatProperties
    <3> HIDE DEF fuller
    <3>3. \A i \in 1..(n - 1) : fuller[i] = lines[i]
      BY <1>1, <2>3, <3>2
    <3>4. fuller[n] = <<filled>>[n - (n - 1)]
      BY <1>1, <3>2
    <3>5. n - (n - 1) = 1
      BY <1>1
    <3> QED BY <1>1, <3>1, <3>2, <3>3, <3>4, <3>5
  <2> HIDE DEF fuller
  <2>5. fuller \in Wrapped(T)
    <3>1. ASSUME NEW i \in 1..n PROVE fuller[i].kind = lines[i].kind
      <4>1. i = n \/ i \in 1..(n - 1)
        BY <1>1
      <4> QED BY <2>1, <2>4, <4>1
    <3>2. 1 \in 1..n /\ \A i \in 2..n : i \in 1..n
      BY <1>1
    <3>3. fuller[1].kind = "item" /\ \A i \in 2..n : fuller[i].kind = "more"
      BY <1>1, <3>1, <3>2
    <3> QED BY <1>1, <2>4, <3>3 DEF Wrapped
  <2> QED BY <2>1, <2>2, <2>4, <2>5 DEF Last
<1> QED BY <1>3, <1>4

\* A function that puts the words of an entry on lines one by one, up to all.
Puts(f, e) ==
  /\ f \in [0..Len(WordsOf(e)) -> Wrapped({ReadAs(e)} \X Nat)]
  /\ f[0] = <<Plain("item")>>
  /\ \A i \in 1..Len(WordsOf(e)) : f[i] = Put(f[i - 1], WordsOf(e)[i])
  /\ Wrap(e) = f[Len(WordsOf(e))]

\* An entry has words, and its lines come of putting them one by one.
LEMMA WrapPuts ==
  ASSUME NEW e \in Texts
  PROVE  /\ ReadAs(e) \in Texts
         /\ WordsOf(e) \in Seq({ReadAs(e)} \X Nat) /\ Len(WordsOf(e)) \in Nat \ {0}
         /\ Len(WordsOf(e)) = Len(Lengths[e])
         /\ \A i \in 1..Len(WordsOf(e)) : WordsOf(e)[i] = <<ReadAs(e), i>>
         /\ \E f : Puts(f, e)
<1> DEFINE T == {ReadAs(e)} \X Nat
           w == WordsOf(e)
           N == Len(w)
           step == [i \in 1..N |-> [x \in Wrapped(T) |-> Put(x, w[i])]]
           empty == <<Plain("item")>>
<1>1. ReadAs(e) \in Texts
  BY EntriesAssumption DEF ReadAs
<1>2. /\ w \in Seq(T) /\ N \in Nat /\ N >= 1 /\ N = Len(Lengths[e])
      /\ \A i \in 1..N : w[i] = <<ReadAs(e), i>>
  <2>1. Lengths[e] \in Seq(Nat \ {0}) /\ ObservableWords[e] \in 1..Len(Lengths[e])
    BY EntriesAssumption
  <2>2. DOMAIN Lengths[e] = 1..Len(Lengths[e]) /\ Len(Lengths[e]) \in Nat
        /\ Len(Lengths[e]) >= 1
    BY <2>1
  <2>3. w = [i \in 1..Len(Lengths[e]) |-> <<ReadAs(e), i>>]
    BY <2>2 DEF WordsOf, ReadAs
  <2> HIDE DEF w
  <2>4. w \in [1..Len(Lengths[e]) -> T]
    BY <2>2, <2>3
  <2>5. w \in Seq(T)
    BY <2>2, <2>4, SeqDef
  <2>6. Len(w) = Len(Lengths[e])
    BY <2>2, <2>4
  <2> QED BY <2>2, <2>3, <2>5, <2>6
<1> HIDE DEF T, w
<1>3. \A i \in 1..N : w[i] \in T
  BY <1>2
<1>4. empty \in Wrapped(T)
  <2>1. Plain("item") \in LinesWith(T) /\ Plain("item").kind = "item"
    BY DEF Plain, LinesWith, Kinds
  <2>2. empty \in Seq(LinesWith(T)) /\ Len(empty) = 1 /\ empty[1] = Plain("item")
    BY <2>1
  <2>3. Len(empty) >= 1 /\ \A i \in 2..Len(empty) : FALSE
    BY <2>2
  <2> HIDE DEF empty
  <2> QED BY <2>1, <2>2, <2>3 DEF Wrapped
<1>5. \A x \in Wrapped(T), i \in 1..N : step[i][x] = Put(x, w[i])
  OBVIOUS
<1>6. step \in [1..N -> [Wrapped(T) -> Wrapped(T)]]
  BY <1>3, PutWraps
<1> HIDE DEF step, empty, N
<1>7. PICK f : Unfolds(f, N, Wrapped(T), empty, step)
  BY <1>2, <1>4, <1>6, Unfolding
<1>8. \A i \in 1..N : f[i - 1] \in Wrapped(T) /\ f[i] = Put(f[i - 1], w[i])
  <2>1. N \in Nat
    BY <1>2
  <2> QED BY <2>1, <1>5, <1>7 DEF Unfolds
<1> DEFINE put == CHOOSE g : g = [n \in 0..N |->
                     IF n = 0 THEN empty ELSE Put(g[n - 1], w[n])]
<1>9. Wrap(e) = put[N]
  BY DEF Wrap, w, N, empty
<1>10. f = [n \in 0..N |-> IF n = 0 THEN empty ELSE Put(f[n - 1], w[n])]
  <2>1. ASSUME NEW n \in 0..N PROVE f[n] = IF n = 0 THEN empty ELSE Put(f[n - 1], w[n])
    <3>1. n = 0 \/ n \in 1..N
      BY <1>2
    <3> QED BY <1>7, <1>8, <3>1 DEF Unfolds
  <2>2. f \in [0..N -> Wrapped(T)]
    BY <1>7 DEF Unfolds
  <2> QED BY <2>1, <2>2
<1>11. put = [n \in 0..N |-> IF n = 0 THEN empty ELSE Put(put[n - 1], w[n])]
  BY <1>10
<1> HIDE DEF put
<1> DEFINE G == {n \in 0..N : put[n] = f[n]}
<1>12. 0 \in G
  BY <1>2, <1>7, <1>11 DEF Unfolds
<1>13. ASSUME NEW n \in 0..N, n < N, n \in G PROVE n + 1 \in G
  <2>1. n + 1 \in 1..N /\ n + 1 \in 0..N /\ n + 1 # 0 /\ (n + 1) - 1 = n
    BY <1>2, <1>13
  <2>2. put[n + 1] = Put(put[n], w[n + 1])
    BY <1>11, <2>1
  <2>3. f[n + 1] = Put(f[n], w[n + 1])
    BY <1>8, <2>1
  <2> QED BY <1>13, <2>1, <2>2, <2>3
<1>14. N \in G
  <2> HIDE DEF G
  <2>1. \A n \in 0..N : n \in G
    BY <1>2, <1>12, <1>13, Ascent
  <2> QED BY <1>2, <2>1
<1>15. Wrap(e) = f[N] /\ f[0] = empty /\ f \in [0..N -> Wrapped(T)]
  BY <1>7, <1>9, <1>14 DEF Unfolds
<1>16. Puts(f, e)
  BY <1>8, <1>15 DEF Puts, N, w, T, empty
<1> QED BY <1>1, <1>2, <1>16 DEF N, w, T

\* An entry's lines are wrapped words of what it reads as, and there are some.
LEMMA WrapWraps ==
  ASSUME NEW e \in Texts
  PROVE  /\ ReadAs(e) \in Texts
         /\ Wrap(e) \in Wrapped({ReadAs(e)} \X Nat)
         /\ Last(Wrap(e)).words # <<>>
<1> DEFINE T == {ReadAs(e)} \X Nat
           w == WordsOf(e)
           N == Len(w)
<1>1. ReadAs(e) \in Texts /\ w \in Seq(T) /\ N \in Nat \ {0} /\ \E f : Puts(f, e)
  BY WrapPuts
<1>2. PICK f : Puts(f, e)
  BY <1>1
<1>3. f \in [0..N -> Wrapped(T)] /\ Wrap(e) = f[N] /\ \A i \in 1..N : f[i] = Put(f[i - 1], w[i])
  BY <1>2 DEF Puts
<1> HIDE DEF T, w, N
<1>4. N \in 1..N /\ N - 1 \in 0..N
  BY <1>1
<1>5. f[N - 1] \in Wrapped(T) /\ w[N] \in T /\ Wrap(e) = Put(f[N - 1], w[N])
  BY <1>1, <1>3, <1>4 DEF N
<1>6. Wrap(e) \in Wrapped(T) /\ Last(Wrap(e)).words # <<>>
  BY <1>5, PutWraps
<1> QED BY <1>1, <1>6 DEF T

\* Wrapped lines are lines.
LEMMA WrappedLines ==
  ASSUME NEW T, T \subseteq Texts \X Nat, NEW lines \in Wrapped(T)
  PROVE  lines \in Wrapped(Texts \X Nat) /\ lines \in Seq(Line)
<1>1. LinesWith(T) \subseteq Line /\ LinesWith(Texts \X Nat) = Line
  <2>1. Seq(T) \subseteq Seq(Texts \X Nat)
    OBVIOUS
  <2> QED BY <2>1 DEF LinesWith, Line
<1>2. lines \in Seq(LinesWith(T))
  BY DEF Wrapped
<1>3. lines \in Seq(Line)
  BY <1>1, <1>2
<1> QED BY <1>1, <1>3 DEF Wrapped

\* Entries whose lines are the same read as the same.
LEMMA SameLines ==
  ASSUME NEW d \in Texts, NEW e \in Texts, Wrap(d) = Wrap(e)
  PROVE  ReadAs(d) = ReadAs(e)
<1> DEFINE lines == Wrap(d)
           last == Last(lines).words
<1>1. /\ lines \in Wrapped({ReadAs(d)} \X Nat) /\ lines \in Wrapped({ReadAs(e)} \X Nat)
      /\ last # <<>>
  BY WrapWraps
<1> HIDE DEF lines
<1>2. ASSUME NEW T, lines \in Wrapped(T) PROVE last \in Seq(T)
  <2>1. lines \in Seq(LinesWith(T)) /\ Len(lines) >= 1
    BY <1>2 DEF Wrapped
  <2>2. lines[Len(lines)] \in LinesWith(T)
    BY <2>1
  <2> QED BY <2>2 DEF Last, LinesWith
<1>3. last \in Seq({ReadAs(d)} \X Nat) /\ last \in Seq({ReadAs(e)} \X Nat)
  BY <1>1, <1>2
<1> HIDE DEF last
<1>4. last[1] \in {ReadAs(d)} \X Nat /\ last[1] \in {ReadAs(e)} \X Nat
  BY <1>1, <1>3
<1> QED BY <1>4

\* What is joined at the end can be taken off both sides.
LEMMA CancelRight ==
  ASSUME NEW a \in Seq(Line), NEW b \in Seq(Line), NEW c \in Seq(Line), a \o c = b \o c
  PROVE  a = b
  BY ConcatSimplifications

\* What is joined in front can be taken off both sides.
LEMMA CancelLeft ==
  ASSUME NEW a \in Seq(Line), NEW b \in Seq(Line), NEW c \in Seq(Line), c \o a = c \o b
  PROVE  a = b
  BY ConcatSimplifications

\* An item and its continuations.
IsBlock(lines) ==
  /\ lines \in Seq(Line)
  /\ Len(lines) >= 1 /\ lines[1].kind = "item"
  /\ \A i \in 2..Len(lines) : lines[i].kind = "more"

\* Where the last item of a list begins can be seen.
LEMMA LastItem ==
  ASSUME NEW a \in Seq(Line), NEW b \in Seq(Line), NEW v, NEW w, IsBlock(v), IsBlock(w),
         a \o v = b \o w
  PROVE  a = b /\ v = w
<1> DEFINE la == Len(a)
           lb == Len(b)
           lv == Len(v)
           lw == Len(w)
           all == a \o v
<1>b. /\ v \in Seq(Line) /\ lv >= 1 /\ v[1].kind = "item"
      /\ \A i \in 2..lv : v[i].kind = "more"
      /\ w \in Seq(Line) /\ lw >= 1 /\ w[1].kind = "item"
      /\ \A i \in 2..lw : w[i].kind = "more"
  BY DEF IsBlock
<1>1. la \in Nat /\ lb \in Nat /\ lv \in Nat /\ lw \in Nat
  BY <1>b
<1>2. /\ Len(all) = la + lv /\ Len(all) = lb + lw
      /\ \A i \in 1..(la + lv) : all[i] = IF i <= la THEN a[i] ELSE v[i - la]
      /\ \A i \in 1..(lb + lw) : all[i] = IF i <= lb THEN b[i] ELSE w[i - lb]
  BY <1>b, ConcatProperties
<1>3. la = lb
  <2> HIDE DEF la, lb, all
  <2>1. CASE la < lb
    <3>1. lb + 1 \in 1..(lb + lw) /\ lb + 1 \in 1..(la + lv) /\ (lb + 1) - lb = 1
          /\ (lb + 1) - la \in 2..lv /\ ~(lb + 1 <= la) /\ ~(lb + 1 <= lb)
      BY <1>1, <1>2, <1>b, <2>1
    <3>2. all[lb + 1] = w[(lb + 1) - lb] /\ all[lb + 1] = v[(lb + 1) - la]
      BY <1>2, <3>1
    <3>3. all[lb + 1].kind = "item" /\ all[lb + 1].kind = "more"
      BY <1>b, <3>1, <3>2
    <3> QED BY <3>3
  <2>2. CASE lb < la
    <3>1. la + 1 \in 1..(lb + lw) /\ la + 1 \in 1..(la + lv) /\ (la + 1) - la = 1
          /\ (la + 1) - lb \in 2..lw /\ ~(la + 1 <= la) /\ ~(la + 1 <= lb)
      BY <1>1, <1>2, <1>b, <2>2
    <3>2. all[la + 1] = v[(la + 1) - la] /\ all[la + 1] = w[(la + 1) - lb]
      BY <1>2, <3>1
    <3>3. all[la + 1].kind = "item" /\ all[la + 1].kind = "more"
      BY <1>b, <3>1, <3>2
    <3> QED BY <3>3
  <2> QED BY <1>1, <2>1, <2>2
<1>4. a = b
  <2>1. ASSUME NEW i \in 1..la PROVE a[i] = b[i]
    <3>1. i \in 1..(la + lv) /\ i \in 1..(lb + lw) /\ i <= la /\ i <= lb
      BY <1>1, <1>2, <1>3
    <3> HIDE DEF la, lb, all
    <3> QED BY <1>2, <3>1
  <2> QED BY <1>3, <2>1
<1>5. v = w
  <2>1. a \o v = a \o w
    BY <1>4
  <2> QED BY <1>b, <2>1, CancelLeft
<1> QED BY <1>4, <1>5

Blocks(entries) == [k \in DOMAIN entries |-> Wrap(entries[k])]

\* The blocks of entries are lines, one block for each.
LEMMA BlocksAreLines ==
  ASSUME NEW E \in Seq(Texts)
  PROVE  /\ Blocks(E) \in Seq(Seq(Line)) /\ Len(Blocks(E)) = Len(E)
         /\ \A k \in 1..Len(E) :
              Blocks(E)[k] = Wrap(E[k]) /\ IsBlock(Blocks(E)[k])
<1>1. DOMAIN E = 1..Len(E) /\ Len(E) \in Nat /\ \A k \in 1..Len(E) : E[k] \in Texts
  OBVIOUS
<1>2. ASSUME NEW k \in 1..Len(E)
      PROVE  Wrap(E[k]) \in Seq(Line) /\ IsBlock(Wrap(E[k]))
  <2>1. E[k] \in Texts
    BY <1>1
  <2>2. ReadAs(E[k]) \in Texts /\ Wrap(E[k]) \in Wrapped({ReadAs(E[k])} \X Nat)
    BY <2>1, WrapWraps
  <2>3. {ReadAs(E[k])} \X Nat \subseteq Texts \X Nat
    BY <2>2
  <2>4. Wrap(E[k]) \in Wrapped(Texts \X Nat) /\ Wrap(E[k]) \in Seq(Line)
    BY <2>2, <2>3, WrappedLines
  <2> QED BY <2>4 DEF IsBlock, Wrapped
<1>3. Blocks(E) = [k \in 1..Len(E) |-> Wrap(E[k])]
  BY <1>1 DEF Blocks
<1>4. Blocks(E) \in [1..Len(E) -> Seq(Line)]
  BY <1>2, <1>3
<1>5. Blocks(E) \in Seq(Seq(Line))
  BY <1>1, <1>4, SeqDef
<1>6. Len(Blocks(E)) = Len(E)
  BY <1>1, <1>4
<1> QED BY <1>2, <1>3, <1>5, <1>6

\* A list of lines is the entries it was made of: no other ones make it.
LEMMA ListDecodes ==
  ASSUME NEW D \in Seq(Texts), NEW E \in Seq(Texts),
         FlattenSeq(Blocks(D)) = FlattenSeq(Blocks(E))
  PROVE  Len(D) = Len(E) /\ \A k \in 1..Len(D) : Wrap(D[k]) = Wrap(E[k])
<1> DEFINE n == Len(D)
           m == Len(E)
           bd == Blocks(D)
           be == Blocks(E)
<1>1. /\ n \in Nat /\ m \in Nat /\ Len(bd) = n /\ Len(be) = m
      /\ bd \in Seq(Seq(Line)) /\ be \in Seq(Seq(Line))
      /\ \A k \in 1..n : bd[k] = Wrap(D[k]) /\ IsBlock(bd[k])
      /\ \A k \in 1..m : be[k] = Wrap(E[k]) /\ IsBlock(be[k])
  BY BlocksAreLines
<1>0. FlattenSeq(bd) = FlattenSeq(be)
  OBVIOUS
<1> HIDE DEF n, m, bd, be
<1>n. /\ n \in Nat /\ m \in Nat /\ Len(bd) = n /\ Len(be) = m
      /\ bd \in Seq(Seq(Line)) /\ be \in Seq(Seq(Line))
  BY <1>1
<1>2. PICK F \in [0..n -> Seq(Line)] : Joins(bd, F) /\ FlattenSeq(bd) = F[n]
  BY <1>n, FlattenJoins
<1>3. PICK H \in [0..m -> Seq(Line)] : Joins(be, H) /\ FlattenSeq(be) = H[m]
  BY <1>n, FlattenJoins
<1>4. F[0] = <<>> /\ \A i \in 1..n : F[i] = F[i - 1] \o bd[i]
  BY <1>n, <1>2 DEF Joins
<1>5. H[0] = <<>> /\ \A j \in 1..m : H[j] = H[j - 1] \o be[j]
  BY <1>n, <1>3 DEF Joins
<1>6. ASSUME NEW i \in 1..n PROVE F[i] # <<>> /\ F[i - 1] \in Seq(Line) /\ i - 1 \in 0..n
  <2>1. i - 1 \in 0..n /\ F[i - 1] \in Seq(Line) /\ F[i] = F[i - 1] \o bd[i]
    <3>1. i - 1 \in 0..n
      BY <1>n
    <3>2. F[i - 1] \in Seq(Line)
      BY <1>2, <3>1
    <3> QED BY <1>4, <3>1, <3>2
  <2>2. bd[i] \in Seq(Line) /\ bd[i] # <<>>
    BY <1>1 DEF IsBlock
  <2>3. F[i] # <<>>
    BY <2>1, <2>2, ConcatSimplifications
  <2> QED BY <2>1, <2>3
<1>7. ASSUME NEW j \in 1..m PROVE H[j] # <<>> /\ H[j - 1] \in Seq(Line) /\ j - 1 \in 0..m
  <2>1. j - 1 \in 0..m /\ H[j - 1] \in Seq(Line) /\ H[j] = H[j - 1] \o be[j]
    <3>1. j - 1 \in 0..m
      BY <1>n
    <3>2. H[j - 1] \in Seq(Line)
      BY <1>3, <3>1
    <3> QED BY <1>5, <3>1, <3>2
  <2>2. be[j] \in Seq(Line) /\ be[j] # <<>>
    BY <1>1 DEF IsBlock
  <2>3. H[j] # <<>>
    BY <2>1, <2>2, ConcatSimplifications
  <2> QED BY <2>1, <2>3
<1> DEFINE Agree(i, j) == i = j /\ \A k \in 1..i : bd[k] = be[k]
           G == {i \in 0..n : \A j \in 0..m : F[i] = H[j] => Agree(i, j)}
<1>8. 0 \in G
  <2>1. ASSUME NEW j \in 0..m, F[0] = H[j] PROVE j = 0
    <3>1. j \notin 1..m
      BY <1>4, <1>7, <2>1
    <3> QED BY <1>1, <3>1
  <2>2. \A k \in 1..0 : FALSE
    OBVIOUS
  <2> QED BY <1>1, <2>1, <2>2
<1>9. ASSUME NEW i \in 0..n, i < n, i \in G PROVE i + 1 \in G
  <2>1. i + 1 \in 1..n /\ (i + 1) - 1 = i /\ F[i + 1] = F[i] \o bd[i + 1]
    <3>1. i + 1 \in 1..n /\ (i + 1) - 1 = i
      BY <1>n, <1>9
    <3> QED BY <1>4, <3>1
  <2>2. ASSUME NEW j \in 0..m, F[i + 1] = H[j] PROVE Agree(i + 1, j)
    <3>1. j \in 1..m
      <4>1. j # 0
        BY <1>5, <1>6, <2>1, <2>2
      <4> QED BY <1>1, <4>1
    <3>2. j - 1 \in 0..m /\ H[j] = H[j - 1] \o be[j] /\ H[j - 1] \in Seq(Line)
      BY <1>5, <1>7, <3>1
    <3>3. F[i] = H[j - 1] /\ bd[i + 1] = be[j]
      <4> DEFINE a == F[i]
                 b == H[j - 1]
                 v == bd[i + 1]
                 w == be[j]
      <4>1. a \in Seq(Line) /\ b \in Seq(Line) /\ a \o v = b \o w
        BY <1>2, <2>1, <2>2, <3>2
      <4>2. IsBlock(v) /\ IsBlock(w)
        BY <1>1, <2>1, <3>1
      <4> HIDE DEF G, a, b, v, w
      <4>3. a = b /\ v = w
        BY <4>1, <4>2, LastItem
      <4> QED BY <4>3 DEF a, b, v, w
    <3>4. Agree(i, j - 1)
      BY <1>9, <3>2, <3>3
    <3>5. i + 1 = j
      BY <1>9, <3>1, <3>4
    <3>6. ASSUME NEW k \in 1..(i + 1) PROVE bd[k] = be[k]
      <4>1. k = i + 1 \/ k \in 1..i
        BY <1>9
      <4> QED BY <3>3, <3>4, <3>5, <4>1
    <3> QED BY <3>5, <3>6
  <2>3. i + 1 \in 0..n
    BY <1>1, <2>1
  <2> HIDE DEF Agree
  <2> QED BY <2>2, <2>3
<1>10. n \in G
  <2> HIDE DEF G
  <2>1. \A i \in 0..n : i \in G
    BY <1>1, <1>8, <1>9, Ascent
  <2> QED BY <1>1, <2>1
<1>11. F[n] = H[m]
  BY <1>0, <1>2, <1>3
<1>12. n = m /\ \A k \in 1..n : bd[k] = be[k]
  BY <1>1, <1>10, <1>11
<1>13. n = Len(D) /\ m = Len(E) /\ \A k \in 1..n : bd[k] = Wrap(D[k]) /\ be[k] = Wrap(E[k])
  BY <1>1, <1>12 DEF n, m
<1> QED BY <1>12, <1>13

\* What stands between the list and the prose after it.
Gap(E, epi) ==
  IF E # <<>> /\ epi # <<>> /\ Head(epi).kind # "blank" THEN <<Plain("blank")>> ELSE <<>>

Written(pre, E, epi) == Render([preamble |-> pre, entries |-> E, epilogue |-> epi])

\* A page that is written is its prose, its blocks, a gap and its prose.
LEMMA WrittenLines ==
  ASSUME NEW E \in Seq(Texts), NEW pre \in Seq(Line), NEW epi \in Seq(Line)
  PROVE  /\ Gap(E, epi) \in Seq(Line)
         /\ FlattenSeq(Blocks(E)) \in Seq(Line)
         /\ Len(FlattenSeq(Blocks(E))) >= Len(E)
         /\ Written(pre, E, epi) = ((pre \o FlattenSeq(Blocks(E))) \o Gap(E, epi)) \o epi
         /\ Written(pre, E, epi) \in Seq(Line)
         /\ Len(Written(pre, E, epi))
              = Len(pre) + Len(FlattenSeq(Blocks(E))) + Len(Gap(E, epi)) + Len(epi)
<1> DEFINE gap == Gap(E, epi)
           list == FlattenSeq(Blocks(E))
           m == Len(E)
<1>1. gap \in Seq(Line)
  <2>1. Plain("blank") \in Line
    BY DEF Plain, Line, Kinds
  <2> QED BY <2>1 DEF Gap
<1>2. Written(pre, E, epi) = ((pre \o list) \o gap) \o epi
  BY DEF Written, Render, Blocks, Gap
<1>3. list \in Seq(Line) /\ Len(list) >= m
  <2> DEFINE be == Blocks(E)
  <2>1. m \in Nat /\ Len(be) = m /\ be \in Seq(Seq(Line))
        /\ \A k \in 1..m : be[k] \in Seq(Line) /\ Len(be[k]) >= 1
    <3>1. m \in Nat /\ Len(be) = m /\ be \in Seq(Seq(Line)) /\ \A k \in 1..m : IsBlock(be[k])
      BY BlocksAreLines
    <3> HIDE DEF be, m
    <3> QED BY <3>1 DEF IsBlock
  <2> HIDE DEF be, m
  <2>2. PICK H \in [0..m -> Seq(Line)] : Joins(be, H) /\ FlattenSeq(be) = H[m]
    BY <2>1, FlattenJoins
  <2> DEFINE G == {k \in 0..m : Len(H[k]) >= k}
  <2>3. 0 \in G
    BY <2>1, <2>2 DEF Joins
  <2>4. ASSUME NEW k \in 0..m, k < m, k \in G PROVE k + 1 \in G
    <3>1. k + 1 \in 1..m /\ (k + 1) - 1 = k /\ k + 1 \in 0..m
      BY <2>1, <2>4
    <3>2. H[k] \in Seq(Line) /\ be[k + 1] \in Seq(Line) /\ H[k + 1] = H[k] \o be[k + 1]
      BY <2>1, <2>2, <3>1 DEF Joins
    <3>3. Len(H[k + 1]) = Len(H[k]) + Len(be[k + 1])
      BY <3>2, ConcatProperties
    <3>4. Len(H[k]) \in Nat /\ Len(be[k + 1]) \in Nat /\ Len(be[k + 1]) >= 1 /\ Len(H[k]) >= k
      BY <2>1, <2>4, <3>1, <3>2
    <3> QED BY <3>1, <3>3, <3>4
  <2> HIDE DEF G
  <2>5. m \in G
    <3>1. \A k \in 0..m : k \in G
      BY <2>1, <2>3, <2>4, Ascent
    <3> QED BY <2>1, <3>1
  <2> QED BY <2>1, <2>2, <2>5 DEF G, be
<1> HIDE DEF gap, list, m
<1>4. pre \o list \in Seq(Line) /\ Len(pre \o list) = Len(pre) + Len(list)
  BY <1>3, ConcatProperties
<1>5. /\ (pre \o list) \o gap \in Seq(Line)
      /\ Len((pre \o list) \o gap) = Len(pre) + Len(list) + Len(gap)
  BY <1>1, <1>4, ConcatProperties
<1>6. /\ ((pre \o list) \o gap) \o epi \in Seq(Line)
      /\ Len(((pre \o list) \o gap) \o epi) = Len(pre) + Len(list) + Len(gap) + Len(epi)
  BY <1>5, ConcatProperties
<1> QED BY <1>1, <1>2, <1>3, <1>6 DEF gap, list, m

\* Two lists between the same prose that are written alike read alike.
LEMMA WrittenAlike ==
  ASSUME NEW D \in Seq(Texts), NEW E \in Seq(Texts),
         NEW pre \in Seq(Line), NEW epi \in Seq(Line), D = <<>> => E = <<>>,
         Written(pre, D, epi) = Written(pre, E, epi)
  PROVE  Len(D) = Len(E) /\ \A k \in 1..Len(D) : ReadAs(D[k]) = ReadAs(E[k])
<1> DEFINE lD == FlattenSeq(Blocks(D))
           lE == FlattenSeq(Blocks(E))
           gD == Gap(D, epi)
           gE == Gap(E, epi)
           rD == Written(pre, D, epi)
           rE == Written(pre, E, epi)
<1>1. /\ gD \in Seq(Line) /\ lD \in Seq(Line) /\ Len(lD) >= Len(D)
      /\ rD = ((pre \o lD) \o gD) \o epi
      /\ Len(rD) = Len(pre) + Len(lD) + Len(gD) + Len(epi)
  BY WrittenLines
<1>2. /\ gE \in Seq(Line) /\ lE \in Seq(Line) /\ Len(lE) >= Len(E)
      /\ rE = ((pre \o lE) \o gE) \o epi
      /\ Len(rE) = Len(pre) + Len(lE) + Len(gE) + Len(epi)
  BY WrittenLines
<1>3. rD = rE
  OBVIOUS
<1>4. E = <<>> => lE = <<>> /\ gE = <<>>
  <2> SUFFICES ASSUME E = <<>> PROVE lE = <<>> /\ gE = <<>>
    OBVIOUS
  <2>1. Blocks(E) = <<>>
    BY DEF Blocks
  <2>2. FlattenSeq(<<>>) = <<>>
    BY DEF FlattenSeq
  <2> QED BY <2>1, <2>2 DEF Gap
<1> HIDE DEF lD, lE, gD, gE, rD, rE
<1>5. E = <<>> => D = <<>>
  <2> SUFFICES ASSUME E = <<>> PROVE D = <<>>
    OBVIOUS
  <2>1. Len(lE) = 0 /\ Len(gE) = 0
    BY <1>4
  <2>2. Len(pre) \in Nat /\ Len(epi) \in Nat /\ Len(lD) \in Nat /\ Len(gD) \in Nat
        /\ Len(D) \in Nat
    BY <1>1
  <2>3. Len(pre) + Len(lD) + Len(gD) + Len(epi) = Len(pre) + Len(lE) + Len(gE) + Len(epi)
    BY <1>1, <1>2, <1>3
  <2>4. Len(D) = 0
    BY <1>1, <2>1, <2>2, <2>3
  <2> QED BY <2>4
<1>6. gD = gE
  BY <1>5 DEF gD, gE, Gap
<1>7. lD = lE
  <2>1. pre \o lD \in Seq(Line) /\ pre \o lE \in Seq(Line)
    BY <1>1, <1>2, ConcatProperties
  <2>2. (pre \o lD) \o gD \in Seq(Line) /\ (pre \o lE) \o gD \in Seq(Line)
    BY <1>1, <2>1, ConcatProperties
  <2>3. (pre \o lD) \o gD = (pre \o lE) \o gD
    <3>1. ((pre \o lD) \o gD) \o epi = ((pre \o lE) \o gD) \o epi
      BY <1>1, <1>2, <1>3, <1>6
    <3> QED BY <2>2, <3>1, CancelRight
  <2>4. pre \o lD = pre \o lE
    BY <1>1, <2>1, <2>3, CancelRight
  <2> QED BY <1>1, <1>2, <2>4, CancelLeft
<1>8. Len(D) = Len(E) /\ \A k \in 1..Len(D) : Wrap(D[k]) = Wrap(E[k])
  BY <1>7, ListDecodes DEF lD, lE
<1>9. ASSUME NEW k \in 1..Len(D) PROVE D[k] \in Texts /\ E[k] \in Texts
  BY <1>8
<1> QED BY <1>8, <1>9, SameLines

\* Prose, an item and a blank line are lines; a record declines texts.
PageTyped == file \in Seq(Line) /\ declines \in Seq(Texts \cup {Foreign})

\* A member that is below every other is the least.
\* The least of some natural numbers is one of them.
LEMMA LeastIsOne ==
  ASSUME NEW T, T \subseteq Nat, T # {}
  PROVE  Least(T) \in T
  BY LeastElement DEF Least

\* A part of a sequence is one, of the same things.
LEMMA PartOfSequence ==
  ASSUME NEW S, NEW s \in Seq(S), NEW m \in Int, m >= 1, NEW n \in Int, n <= Len(s)
  PROVE  SubSeq(s, m, n) \in Seq(S)
<1>1. ASSUME NEW i \in m..n PROVE s[i] \in S
  <2>1. i \in 1..Len(s)
    OBVIOUS
  <2> QED BY <2>1
<1> QED BY <1>1, SubSeqProperties

\* A sequence with one thing put in is one.
LEMMA InsertIsLines ==
  ASSUME NEW S, NEW s \in Seq(S), NEW i \in 1..(Len(s) + 1), NEW e \in S
  PROVE  InsertAt(s, i, e) \in Seq(S)
<1> DEFINE front == SubSeq(s, 1, i - 1)
           back == SubSeq(s, i, Len(s))
<1>1. Len(s) \in Nat /\ i \in Int /\ i >= 1 /\ i - 1 \in Int /\ i - 1 <= Len(s)
  OBVIOUS
<1>2. front \in Seq(S) /\ back \in Seq(S)
  BY <1>1, PartOfSequence
<1> HIDE DEF front, back
<1>3. (front \o <<e>>) \o back \in Seq(S)
  BY <1>2
<1> QED BY <1>3 DEF InsertAt, front, back

\* A sequence with one thing taken out is one.
LEMMA RemoveIsLines ==
  ASSUME NEW S, NEW s \in Seq(S), NEW i \in 1..Len(s)
  PROVE  RemoveAt(s, i) \in Seq(S)
<1> DEFINE front == SubSeq(s, 1, i - 1)
           back == SubSeq(s, i + 1, Len(s))
<1>1. Len(s) \in Nat /\ i + 1 \in Int /\ i + 1 >= 1 /\ i - 1 \in Int /\ i - 1 <= Len(s)
  OBVIOUS
<1>2. front \in Seq(S) /\ back \in Seq(S)
  BY <1>1, PartOfSequence
<1> HIDE DEF front, back
<1>3. front \o back \in Seq(S)
  BY <1>2
<1> QED BY <1>3 DEF RemoveAt, front, back

\* The list lies within the file.
LEMMA ListBounds ==
  ASSUME NEW lines \in Seq(Line)
  PROVE  /\ Under(lines) \subseteq 1..Len(lines)
         /\ ListedAt(lines) \subseteq 1..Len(lines)
         /\ ListFirst(lines) \in 1..(Len(lines) + 1)
         /\ ListEnd(lines) \in 1..(Len(lines) + 1)
<1> DEFINE n == Len(lines)
           items == ItemsAt(lines)
           first == ListFirst(lines)
<1>1. n \in Nat /\ DOMAIN lines = 1..n
  OBVIOUS
<1>2. Under(lines) \subseteq 1..n
  BY <1>1 DEF Under
<1>3. items \subseteq 1..n /\ ListedAt(lines) \subseteq 1..n
  BY <1>2 DEF ItemsAt, ListedAt
<1> DEFINE starts == IF items # {} THEN items
                     ELSE {i \in Under(lines) : lines[i].kind = "title"} \cup {n + 1}
           ends == {i \in first..n :
                       ~OpensItem(lines[i]) /\ lines[i].kind # "more"} \cup {n + 1}
<1>4. starts \subseteq 1..(n + 1) /\ starts # {}
  <2> HIDE DEF n
  <2>1. n + 1 \in 1..(n + 1) /\ 1..n \subseteq 1..(n + 1)
    BY <1>1
  <2> HIDE DEF items
  <2> QED BY <1>2, <1>3, <2>1
<1>5. first \in 1..(n + 1)
  <2>1. first = Least(starts)
    BY DEF ListFirst
  <2> HIDE DEF starts, first, n
  <2>2. starts \subseteq Nat
    BY <1>1, <1>4
  <2> QED BY <1>4, <2>1, <2>2, LeastIsOne
<1>6. CASE items = {}
  BY <1>2, <1>3, <1>5, <1>6 DEF ListEnd
<1>7. CASE items # {}
  <2>1. ListEnd(lines) = Least(ends)
    BY <1>7 DEF ListEnd
  <2> HIDE DEF first, n
  <2>2. ends \subseteq 1..(n + 1) /\ ends # {}
    BY <1>1, <1>5
  <2> HIDE DEF ends
  <2>3. ends \subseteq Nat
    BY <1>1, <2>2
  <2>4. ListEnd(lines) \in 1..(n + 1)
    BY <2>1, <2>2, <2>3, LeastIsOne
  <2> QED BY <1>2, <1>3, <1>5, <2>4 DEF n, first
<1> QED BY <1>6, <1>7

\* What a file lists, where it loads, reads as itself.
LEMMA ListedRead ==
  ASSUME NEW lines \in Seq(Line), Loads(lines)
  PROVE  /\ EntriesOf(lines) \in Seq(Texts)
         /\ \A k \in 1..Len(EntriesOf(lines)) : Shown[EntriesOf(lines)[k]] = EntriesOf(lines)[k]
<1> DEFINE places == ListedAt(lines)
           n == Cardinality(places)
           order == InOrder(places)
           E == EntriesOf(lines)
<1>1. places \subseteq Int /\ IsFiniteSet(places)
  <2>1. places \subseteq 1..Len(lines) /\ Len(lines) \in Nat
    BY ListBounds
  <2>2. IsFiniteSet(1..Len(lines))
    BY <2>1, FS_Interval
  <2> HIDE DEF places
  <2>3. IsFiniteSet(places)
    BY <2>1, <2>2, FS_Subset
  <2> QED BY <2>1, <2>3
<1> HIDE DEF places
<1>2. n \in Nat /\ order \in [1..n -> places]
  BY <1>1, InOrderOnto
<1>3. E = [k \in DOMAIN order |-> CHOOSE e \in Reads(Joined(lines, order[k])) : TRUE]
  BY DEF EntriesOf, places
<1> HIDE DEF n, order, E
<1>4. ASSUME NEW k \in 1..n PROVE E[k] \in Texts /\ Shown[E[k]] = E[k]
  <2>1. Reads(Joined(lines, order[k])) # {}
    BY <1>2 DEF Loads, places
  <2>2. E[k] \in Reads(Joined(lines, order[k]))
    BY <1>2, <1>3, <2>1
  <2> QED BY <2>2 DEF Reads
<1>5. DOMAIN E = 1..n
  BY <1>2, <1>3
<1>6. E \in [1..n -> Texts]
  BY <1>2, <1>3, <1>4
<1>7. E \in Seq(Texts) /\ Len(E) = n
  BY <1>2, <1>5, <1>6, SeqDef
<1> QED BY <1>4, <1>7 DEF E

\* What a record holds of this boundary are texts.
LEMMA RecordedTexts ==
  ASSUME declines \in Seq(Texts \cup {Foreign})
  PROVE  RecordedHere \in Seq(Texts)
<1> DEFINE places == {k \in DOMAIN declines : declines[k] # Foreign}
<1>1. places \in SUBSET DOMAIN declines
  OBVIOUS
<1>2. {declines[k] : k \in places} \subseteq Texts
  OBVIOUS
<1>3. RecordedHere = Picked(declines, places)
  BY DEF RecordedHere
<1> HIDE DEF places
<1>4. Picked(declines, places) \in Seq({declines[k] : k \in places})
  BY <1>1, PickedIsPart
<1> QED BY <1>2, <1>3, <1>4

\* The files a page starts from are sequences of lines.
LEMMA InitPageTyped == PageInit => PageTyped
  BY FilesAssumption DEF PageInit, PageTyped

\* A step keeps lines lines, and declines declines.
LEMMA NextPageTyped == PageTyped /\ [PageNext]_pageVars => PageTyped'
<1> SUFFICES ASSUME PageTyped, [PageNext]_pageVars PROVE PageTyped'
  OBVIOUS
<1>1. file \in Seq(Line) /\ declines \in Seq(Texts \cup {Foreign}) /\ Len(file) \in Nat
      /\ DOMAIN file = 1..Len(file)
  BY DEF PageTyped
<1>2. /\ Under(file) \subseteq 1..Len(file)
      /\ ListFirst(file) \in 1..(Len(file) + 1)
      /\ ListEnd(file) \in 1..(Len(file) + 1)
  BY <1>1, ListBounds
<1>3. ASSUME NEW lines \in Seq(Line), Edit(lines) PROVE PageTyped'
  BY <1>1, <1>3 DEF Edit, PageTyped
<1>4. CASE EditFile
  <2>1. ASSUME NEW i \in {j + 1 : j \in Under(file)} \cup {ListFirst(file)}, NEW e \in Texts,
               Edit(InsertAt(file, i, [kind |-> "item", words |-> WordsOf(e)]))
        PROVE  PageTyped'
    <3>1. i \in 1..(Len(file) + 1)
      BY <1>1, <1>2
    <3>2. WordsOf(e) \in Seq(Texts \X Nat)
      <4>1. Lengths[e] \in Seq(Nat \ {0}) /\ ReadAs(e) \in Texts
        BY EntriesAssumption DEF ReadAs
      <4>2. DOMAIN Lengths[e] = 1..Len(Lengths[e]) /\ Len(Lengths[e]) \in Nat
        BY <4>1
      <4>3. WordsOf(e) = [k \in 1..Len(Lengths[e]) |-> <<ReadAs(e), k>>]
        BY <4>2 DEF WordsOf, ReadAs
      <4>4. WordsOf(e) \in [1..Len(Lengths[e]) -> Texts \X Nat]
        BY <4>1, <4>2, <4>3
      <4> QED BY <4>2, <4>4, SeqDef
    <3>3. [kind |-> "item", words |-> WordsOf(e)] \in Line
      BY <3>2 DEF Line, Kinds
    <3>4. InsertAt(file, i, [kind |-> "item", words |-> WordsOf(e)]) \in Seq(Line)
      BY <1>1, <3>1, <3>3, InsertIsLines
    <3> QED BY <1>3, <2>1, <3>4
  <2>2. ASSUME NEW i \in Under(file), Edit(InsertAt(file, i, Plain("blank"))) PROVE PageTyped'
    <3>1. Plain("blank") \in Line /\ i \in 1..(Len(file) + 1)
      BY <1>1, <1>2 DEF Plain, Line, Kinds
    <3>2. InsertAt(file, i, Plain("blank")) \in Seq(Line)
      BY <1>1, <3>1, InsertIsLines
    <3> QED BY <1>3, <2>2, <3>2
  <2>3. ASSUME NEW i \in DOMAIN file, Edit(RemoveAt(file, i)) PROVE PageTyped'
    <3>1. RemoveAt(file, i) \in Seq(Line)
      BY <1>1, RemoveIsLines
    <3> QED BY <1>3, <2>3, <3>1
  <2> QED BY <1>4, <2>1, <2>2, <2>3 DEF EditFile
<1>5. CASE EditRecord
  <2>1. ASSUME NEW k \in DOMAIN declines PROVE RemoveAt(declines, k) \in Seq(Texts \cup {Foreign})
    <3>1. k \in 1..Len(declines)
      BY <1>1
    <3> QED BY <1>1, <3>1, RemoveIsLines
  <2>2. ASSUME NEW d \in Texts \cup {Foreign}
        PROVE  Append(declines, d) \in Seq(Texts \cup {Foreign})
    BY <1>1
  <2>3. file' = file /\ declines' \in Seq(Texts \cup {Foreign})
    BY <1>5, <2>1, <2>2 DEF EditRecord
  <2> QED BY <1>1, <2>3 DEF PageTyped
<1>6. CASE Write
  <2> DEFINE pre == SubSeq(file, 1, ListFirst(file) - 1)
             epi == SubSeq(file, ListEnd(file), Len(file))
             E == IF HasRecord THEN RecordedHere ELSE EntriesOf(file)
  <2>1. pre \in Seq(Line) /\ epi \in Seq(Line)
    <3>1. 1 \in Int /\ ListFirst(file) - 1 \in Int /\ ListFirst(file) - 1 <= Len(file)
          /\ ListEnd(file) \in Int /\ ListEnd(file) >= 1 /\ Len(file) \in Int
      BY <1>1, <1>2
    <3> QED BY <1>1, <3>1, PartOfSequence
  <2>2. E \in Seq(Texts)
    <3>1. Loads(file)
      BY <1>6 DEF Write
    <3>2. EntriesOf(file) \in Seq(Texts)
      BY <1>1, <3>1, ListedRead
    <3>3. RecordedHere \in Seq(Texts)
      BY <1>1, RecordedTexts
    <3> QED BY <3>2, <3>3
  <2>3. Projected(Parse(file)) = [preamble |-> pre, entries |-> E, epilogue |-> epi]
    <3> DEFINE listed == EntriesOf(file)
    <3>1. Parse(file) = [preamble |-> pre, entries |-> listed, epilogue |-> epi]
      BY DEF Parse
    <3> HIDE DEF pre, epi, listed
    <3>2. Projected(Parse(file)) = [preamble |-> pre,
                                    entries |-> IF HasRecord THEN RecordedHere ELSE listed,
                                    epilogue |-> epi]
      BY <3>1 DEF Projected
    <3> QED BY <3>2 DEF listed
  <2> HIDE DEF pre, epi, E
  <2>4. Written(pre, E, epi) \in Seq(Line)
    BY <2>1, <2>2, WrittenLines
  <2>5. file' = Written(pre, E, epi) /\ declines' = declines
    BY <1>6, <2>3 DEF Write, Written
  <2> QED BY <1>1, <2>4, <2>5 DEF PageTyped
<1>7. CASE UNCHANGED pageVars
  BY <1>1, <1>7 DEF pageVars, PageTyped
<1> QED BY <1>4, <1>5, <1>6, <1>7 DEF PageNext

\* What the check compares are lines; lines decode, so what it compares are
\* the entries, as far as their lines tell them apart.
LEMMA TypedCheckedIsRecorded == PageTyped => CheckedIsRecorded
<1> SUFFICES ASSUME PageTyped, Checked, HasRecord
             PROVE  EntriesOf(file) = [k \in DOMAIN RecordedHere |-> Shown[RecordedHere[k]]]
  BY DEF CheckedIsRecorded
<1> DEFINE pre == SubSeq(file, 1, ListFirst(file) - 1)
           epi == SubSeq(file, ListEnd(file), Len(file))
           D == RecordedHere
           E == EntriesOf(file)
<1>1. file \in Seq(Line) /\ declines \in Seq(Texts \cup {Foreign}) /\ Len(file) \in Nat
  BY DEF PageTyped
<1>2. pre \in Seq(Line) /\ epi \in Seq(Line)
  <2>1. 1 \in Int /\ ListFirst(file) - 1 \in Int /\ ListFirst(file) - 1 <= Len(file)
        /\ ListEnd(file) \in Int /\ ListEnd(file) >= 1 /\ Len(file) \in Int
    BY <1>1, ListBounds
  <2> QED BY <1>1, <2>1, PartOfSequence
<1>3. Loads(file) /\ ~RecordProblem
  BY DEF Checked
<1>4. D \in Seq(Texts) /\ E \in Seq(Texts) /\ \A k \in 1..Len(E) : Shown[E[k]] = E[k]
  BY <1>1, <1>3, RecordedTexts, ListedRead
<1>5. Parse(file) = [preamble |-> pre, entries |-> E, epilogue |-> epi]
  BY DEF Parse
<1> HIDE DEF pre, epi, E
<1>6. Projected(Parse(file)) = [preamble |-> pre, entries |-> D, epilogue |-> epi]
  BY <1>5 DEF Projected
<1> HIDE DEF D
<1>7. Written(pre, D, epi) = Written(pre, E, epi)
  BY <1>3, <1>5, <1>6 DEF RecordProblem, Written
<1>8. ObservablesOf(E) \subseteq ObservablesOf(D)
  BY <1>3, <1>5 DEF RecordProblem, Unrecorded, D
<1>9. D = <<>> => E = <<>>
  <2> SUFFICES ASSUME D = <<>>, E # <<>> PROVE FALSE
    OBVIOUS
  <2>1. 1 \in DOMAIN E
    BY <1>4
  <2>2. Observable[E[1]] \in ObservablesOf(E)
    BY <2>1 DEF ObservablesOf
  <2>3. ObservablesOf(D) = {}
    BY DEF ObservablesOf
  <2> QED BY <1>8, <2>2, <2>3
<1>10. Len(D) = Len(E) /\ \A k \in 1..Len(D) : ReadAs(D[k]) = ReadAs(E[k])
  BY <1>2, <1>4, <1>7, <1>9, WrittenAlike
<1>11. ASSUME NEW k \in 1..Len(D) PROVE E[k] = Shown[D[k]]
  <2>1. D[k] \in Texts /\ E[k] \in Texts /\ Shown[E[k]] = E[k] /\ ReadAs(D[k]) = ReadAs(E[k])
    BY <1>4, <1>10
  <2>2. Illegible \notin Texts
    BY EntriesAssumption
  <2>3. ReadAs(E[k]) = E[k]
    BY <2>1, <2>2 DEF ReadAs
  <2>4. Shown[D[k]] # Illegible
    BY <2>1, <2>2, <2>3 DEF ReadAs
  <2> QED BY <2>1, <2>3, <2>4 DEF ReadAs
<1>12. E = [k \in DOMAIN D |-> Shown[D[k]]]
  BY <1>4, <1>10, <1>11
<1> QED BY <1>12 DEF D, E

\* For every set of texts, every width and every file it begins with: a green
\* check leaves on the page the record's part for this system and nothing else.
THEOREM CheckedPageIsRecord == PageSpec => []CheckedIsRecorded
  BY InitPageTyped, NextPageTyped, TypedCheckedIsRecorded, PTL DEF PageSpec

-----------------------------------------------------------------------------
(***************************************************************************)
(* The page, written and read back.                                        *)
(***************************************************************************)

\* The words of some lines, joined.
WordsIn(lines) == FlattenSeq([i \in 1..Len(lines) |-> lines[i].words])

\* A sequence more to join is joined at the end.
LEMMA FlattenAppend ==
  ASSUME NEW S, NEW seqs \in Seq(Seq(S)), NEW x \in Seq(S)
  PROVE  /\ FlattenSeq(seqs) \in Seq(S)
         /\ FlattenSeq(Append(seqs, x)) = FlattenSeq(seqs) \o x
<1> DEFINE n == Len(seqs)
           more == Append(seqs, x)
<1>1. /\ n \in Nat /\ more \in Seq(Seq(S)) /\ Len(more) = n + 1 /\ more[n + 1] = x
      /\ \A i \in 1..n : more[i] = seqs[i]
  BY AppendProperties
<1> HIDE DEF n, more
<1>2. PICK F \in [0..n -> Seq(S)] : Joins(seqs, F) /\ FlattenSeq(seqs) = F[n]
  BY FlattenJoins DEF n
<1>3. PICK H \in [0..(n + 1) -> Seq(S)] : Joins(more, H) /\ FlattenSeq(more) = H[n + 1]
  <2>1. \E H \in [0..Len(more) -> Seq(S)] : Joins(more, H) /\ FlattenSeq(more) = H[Len(more)]
    BY <1>1, FlattenJoins
  <2> QED BY <2>1, <1>1
<1>4. F[0] = <<>> /\ \A i \in 1..n : F[i] = F[i - 1] \o seqs[i]
  BY <1>2 DEF Joins, n
<1>5. H[0] = <<>> /\ \A i \in 1..(n + 1) : H[i] = H[i - 1] \o more[i]
  BY <1>1, <1>3 DEF Joins
<1> DEFINE G == {i \in 0..n : H[i] = F[i]}
<1>6. 0 \in G
  BY <1>1, <1>4, <1>5
<1>7. ASSUME NEW i \in 0..n, i < n, i \in G PROVE i + 1 \in G
  <2>1. i + 1 \in 1..n /\ i + 1 \in 1..(n + 1) /\ i + 1 \in 0..n /\ (i + 1) - 1 = i
    <3>1. n \in Nat /\ i \in 0..n /\ i < n
      BY <1>1, <1>7
    <3> QED BY <3>1
  <2>2. F[i + 1] = F[i] \o seqs[i + 1]
    BY <1>4, <2>1
  <2>3. H[i + 1] = H[i] \o more[i + 1]
    BY <1>5, <2>1
  <2> QED BY <1>1, <1>7, <2>1, <2>2, <2>3
<1>8. n \in G
  <2> HIDE DEF G
  <2>1. \A i \in 0..n : i \in G
    BY <1>1, <1>6, <1>7, Ascent
  <2> QED BY <1>1, <2>1
<1>9. H[n + 1] = H[n] \o x
  <2>1. n + 1 \in 1..(n + 1) /\ (n + 1) - 1 = n
    BY <1>1
  <2> QED BY <1>1, <1>5, <2>1
<1>10. F[n] \in Seq(S)
  BY <1>1, <1>2
<1> QED BY <1>2, <1>3, <1>8, <1>9, <1>10 DEF more

\* A line more adds its words at the end.
LEMMA WordsGrow ==
  ASSUME NEW T, NEW lines \in Seq(LinesWith(T)), NEW x \in LinesWith(T)
  PROVE  /\ WordsIn(lines) \in Seq(T)
         /\ WordsIn(Append(lines, x)) = WordsIn(lines) \o x.words
<1> DEFINE n == Len(lines)
           more == Append(lines, x)
           former == [i \in 1..n |-> lines[i].words]
           is == [i \in 1..Len(more) |-> more[i].words]
           v == x.words
<1>1. /\ n \in Nat /\ Len(more) = n + 1 /\ more[n + 1] = x
      /\ \A i \in 1..n : more[i] = lines[i] /\ lines[i] \in LinesWith(T)
  BY AppendProperties
<1>2. v \in Seq(T) /\ \A i \in 1..n : lines[i].words \in Seq(T)
  BY <1>1 DEF LinesWith
<1> HIDE DEF n, more
<1>3. former \in [1..n -> Seq(T)]
  BY <1>2
<1>4. former \in Seq(Seq(T)) /\ Len(former) = n
  BY <1>1, <1>3, SeqDef
<1>5. is = Append(former, v)
  <2>1. /\ Append(former, v) \in Seq(Seq(T)) /\ Len(Append(former, v)) = n + 1
        /\ \A i \in 1..n : Append(former, v)[i] = former[i]
        /\ Append(former, v)[n + 1] = v
    <3> HIDE DEF former, v
    <3> QED BY <1>2, <1>4, AppendProperties
  <2>2. ASSUME NEW i \in 1..(n + 1) PROVE is[i] = Append(former, v)[i]
    <3>1. i \in 1..n \/ i = n + 1
      BY <1>1
    <3> QED BY <1>1, <2>1, <3>1
  <2>3. is = [i \in 1..(n + 1) |-> is[i]]
    BY <1>1
  <2>4. DOMAIN Append(former, v) = 1..(n + 1)
    BY <2>1, <1>1
  <2>5. DOMAIN is = 1..(n + 1)
    BY <1>1
  <2>6. Append(former, v) = [i \in 1..(n + 1) |-> Append(former, v)[i]]
    <3> DEFINE a == Append(former, v)
    <3>1. a \in Seq(Seq(T)) /\ Len(a) = n + 1
      BY <2>1
    <3> HIDE DEF a
    <3>2. a = [i \in 1..(n + 1) |-> a[i]]
      BY <3>1
    <3> QED BY <3>2 DEF a
  <2> HIDE DEF is, former, v
  <2> QED BY <2>2, <2>3, <2>6
<1> HIDE DEF former, v, is
<1>6. FlattenSeq(former) \in Seq(T) /\ FlattenSeq(Append(former, v)) = FlattenSeq(former) \o v
  BY <1>2, <1>4, FlattenAppend
<1> QED BY <1>5, <1>6 DEF WordsIn, former, is, v, more, n

\* A word put on lines is the last of their words, and no word of the first
\* line is lost.
LEMMA PutAdds ==
  ASSUME NEW T, NEW lines \in Wrapped(T), NEW w \in T
  PROVE  /\ WordsIn(lines) \in Seq(T)
         /\ WordsIn(Put(lines, w)) = Append(WordsIn(lines), w)
         /\ lines[1].words # <<>> => Put(lines, w)[1].words # <<>>
<1> DEFINE n == Len(lines)
           x == lines[n]
           front == SubSeq(lines, 1, n - 1)
<1>1. lines \in Seq(LinesWith(T)) /\ n \in Nat /\ n >= 1 /\ x \in LinesWith(T)
  BY DEF Wrapped
<1>2. x.words \in Seq(T)
  BY <1>1 DEF LinesWith
<1>3. WordsIn(lines) \in Seq(T)
  BY <1>1, WordsGrow
<1>4. CASE Wide(Last(lines)) + 1 + Lengths[w[1]][w[2]] > Width
  <2> DEFINE more == [kind |-> "more", words |-> <<w>>]
             longer == Append(lines, more)
             v == WordsIn(lines)
  <2>1. more \in LinesWith(T) /\ more.words = <<w>>
    BY DEF LinesWith, Kinds
  <2>2. Put(lines, w) = longer
    BY <1>4 DEF Put
  <2> HIDE DEF more
  <2>3. WordsIn(longer) = v \o <<w>>
    BY <1>1, <2>1, WordsGrow
  <2>4. longer[1] = lines[1]
    <3> HIDE DEF n
    <3>1. 1 \in 1..n
      BY <1>1
    <3> QED BY <1>1, <2>1, <3>1, AppendProperties DEF n
  <2>5. v \o <<w>> = Append(v, w)
    <3>1. v \in Seq(T)
      BY <1>3
    <3> HIDE DEF v
    <3> QED BY <3>1, AppendIsConcat
  <2> HIDE DEF v, longer
  <2>6. WordsIn(Put(lines, w)) = Append(v, w) /\ Put(lines, w)[1] = lines[1]
    BY <2>2, <2>3, <2>4, <2>5
  <2> QED BY <1>3, <2>6 DEF v
<1>5. CASE ~(Wide(Last(lines)) + 1 + Lengths[w[1]][w[2]] > Width)
  <2> DEFINE filled == [x EXCEPT !.words = Append(@, w)]
             fuller == front \o <<filled>>
             u == WordsIn(front)
  <2>1. filled \in LinesWith(T) /\ filled.words = Append(x.words, w) /\ filled.words # <<>>
    <3> HIDE DEF x
    <3>1. Append(x.words, w) \in Seq(T) /\ Append(x.words, w) # <<>>
      BY <1>2
    <3> QED BY <1>1, <3>1 DEF LinesWith
  <2>2. Put(lines, w) = fuller
    BY <1>5 DEF Put, Front, Last
  <2> HIDE DEF filled
  <2>3. front \in Seq(LinesWith(T)) /\ Len(front) = n - 1 /\ Append(front, x) = lines
    <3>1. front \in Seq(LinesWith(T))
      BY <1>1, PartOfSequence
    <3>2. Len(front) = n - 1 /\ \A i \in 1..(n - 1) : front[i] = lines[i]
      <4>1. n - 1 \in Int /\ 1 \in Int /\ \A i \in 1..(n - 1) : lines[i] \in LinesWith(T)
        BY <1>1
      <4> HIDE DEF n
      <4>2. /\ Len(front) = IF 1 <= n - 1 THEN (n - 1) - 1 + 1 ELSE 0
            /\ \A i \in 1..((n - 1) - 1 + 1) : front[i] = lines[1 + i - 1]
        BY <4>1, SubSeqProperties
      <4> HIDE DEF front
      <4> QED BY <1>1, <4>2
    <3> HIDE DEF front, n, x
    <3>3. /\ Append(front, x) \in Seq(LinesWith(T)) /\ Len(Append(front, x)) = (n - 1) + 1
          /\ \A i \in 1..(n - 1) : Append(front, x)[i] = front[i]
          /\ Append(front, x)[(n - 1) + 1] = x
      BY <1>1, <3>1, <3>2, AppendProperties
    <3> DEFINE a == Append(front, x)
    <3>4. a \in Seq(LinesWith(T)) /\ Len(a) = n /\ Len(lines) = n
      BY <1>1, <3>3 DEF n
    <3>5. ASSUME NEW i \in 1..n PROVE a[i] = lines[i]
      <4>1. i \in 1..(n - 1) \/ (i = n /\ (n - 1) + 1 = n)
        BY <1>1
      <4> QED BY <3>2, <3>3, <4>1 DEF x
    <3> HIDE DEF a
    <3>6. a = lines
      BY <3>4, <3>5, <1>1
    <3> QED BY <3>1, <3>2, <3>6 DEF a
  <2>4. fuller = Append(front, filled)
    <3> HIDE DEF front
    <3> QED BY <2>1, <2>3, AppendIsConcat
  <2> DEFINE v == x.words
  <2> HIDE DEF front, fuller, x
  <2>5. u \in Seq(T) /\ WordsIn(lines) = u \o v
    BY <1>1, <2>3, WordsGrow
  <2>6. WordsIn(fuller) = u \o Append(v, w)
    BY <1>1, <2>1, <2>3, <2>4, WordsGrow
  <2> HIDE DEF u
  <2>7. u \o Append(v, w) = Append(u \o v, w)
    <3>1. v \in Seq(T)
      BY <1>2
    <3> HIDE DEF v
    <3> QED BY <2>5, <3>1
  <2>8. lines[1].words # <<>> => fuller[1].words # <<>>
    <3> HIDE DEF n
    <3>1. CASE n = 1
      <4>1. fuller[1] = filled
        BY <2>1, <2>3, <2>4, <3>1, AppendProperties
      <4> QED BY <2>1, <4>1
    <3>2. CASE n # 1
      <4>1. 1 \in 1..(n - 1)
        BY <1>1, <3>2
      <4>2. fuller[1] = front[1] /\ lines[1] = front[1]
        BY <1>1, <2>1, <2>3, <2>4, <4>1, AppendProperties
      <4> QED BY <4>2
    <3> QED BY <3>1, <3>2
  <2> QED BY <1>3, <2>2, <2>5, <2>6, <2>7, <2>8
<1> QED BY <1>4, <1>5

\* The dash of an item, with no word beside it, is one wide.
LEMMA DashIsOneWide == Wide(Plain("item")) = 1
<1> DEFINE words == Plain("item").words
           F == CHOOSE f : f = [n \in 0..Len(words) |->
                   IF n = 0 THEN 1 ELSE f[n - 1] + 1 + Lengths[words[n][1]][words[n][2]]]
           g == [n \in 0..0 |-> 1]
<1>1. words = <<>> /\ Len(words) = 0
  BY DEF Plain
<1>2. Wide(Plain("item")) = F[Len(words)]
  BY DEF Wide
<1> HIDE DEF words
<1>3. g = [n \in 0..Len(words) |->
             IF n = 0 THEN 1 ELSE g[n - 1] + 1 + Lengths[words[n][1]][words[n][2]]]
  BY <1>1
<1>4. F = [n \in 0..Len(words) |->
             IF n = 0 THEN 1 ELSE F[n - 1] + 1 + Lengths[words[n][1]][words[n][2]]]
  <2> HIDE DEF g
  <2> QED BY <1>3
<1> HIDE DEF F
<1> QED BY <1>1, <1>2, <1>4

\* The lines of an entry hold its words, in their order; the first of them is
\* beside the dash where there is room.
LEMMA WrapHolds ==
  ASSUME NEW e \in Texts
  PROVE  /\ WordsIn(Wrap(e)) = WordsOf(e)
         /\ Shown[e] = e /\ 2 + Head(Lengths[e]) <= Width => Wrap(e)[1].words # <<>>
<1> DEFINE T == {ReadAs(e)} \X Nat
           w == WordsOf(e)
           N == Len(w)
           empty == <<Plain("item")>>
<1>1. /\ w \in Seq(T) /\ N \in Nat /\ N >= 1 /\ N = Len(Lengths[e])
      /\ \A i \in 1..N : w[i] = <<ReadAs(e), i>> /\ w[i] \in T
  BY WrapPuts
<1>n. N \in Nat /\ N >= 1
  BY <1>1
<1>2. PICK f : Puts(f, e)
  BY WrapPuts
<1>3. /\ f \in [0..N -> Wrapped(T)] /\ f[0] = empty /\ Wrap(e) = f[N]
      /\ \A i \in 1..N : f[i] = Put(f[i - 1], w[i])
  BY <1>2 DEF Puts
<1> HIDE DEF T, w, N
<1>4. ASSUME NEW i \in 0..N, i < N
      PROVE  /\ i + 1 \in 1..N /\ i + 1 \in 0..N /\ f[i] \in Wrapped(T)
             /\ w[i + 1] \in T /\ f[i + 1] = Put(f[i], w[i + 1])
  <2>1. i + 1 \in 1..N /\ i + 1 \in 0..N /\ (i + 1) - 1 = i
    BY <1>n, <1>4
  <2> QED BY <1>1, <1>3, <2>1
<1>5. WordsIn(empty) = <<>>
  <2> DEFINE x == Plain("item")
  <2>1. x \in LinesWith(T) /\ x.words = <<>>
    BY DEF Plain, LinesWith, Kinds
  <2>2. WordsIn(<<>>) = <<>>
    BY DEF WordsIn, FlattenSeq
  <2> HIDE DEF x
  <2>3. WordsIn(Append(<<>>, x)) = WordsIn(<<>>) \o x.words
    <3>1. <<>> \in Seq(LinesWith(T))
      OBVIOUS
    <3> QED BY <2>1, <3>1, WordsGrow
  <2>4. Append(<<>>, x) = <<x>>
    OBVIOUS
  <2> QED BY <2>1, <2>2, <2>3, <2>4 DEF x
<1> DEFINE G == {i \in 0..N : WordsIn(f[i]) = SubSeq(w, 1, i)}
<1>6. 0 \in G
  <2>1. SubSeq(w, 1, 0) = <<>> /\ 0 \in 0..N
    BY <1>n, <1>1
  <2> QED BY <2>1, <1>3, <1>5
<1>7. ASSUME NEW i \in 0..N, i < N, i \in G PROVE i + 1 \in G
  <2> DEFINE lines == f[i]
             v == w[i + 1]
  <2>1. lines \in Wrapped(T) /\ v \in T
    BY <1>4, <1>7
  <2>2. WordsIn(f[i + 1]) = WordsIn(Put(lines, v))
    BY <1>4, <1>7
  <2>3. Append(SubSeq(w, 1, i), v) = SubSeq(w, 1, i + 1)
    BY <1>1, <1>7 DEF N
  <2>4. WordsIn(lines) = SubSeq(w, 1, i)
    BY <1>7
  <2> HIDE DEF lines, v
  <2>5. WordsIn(Put(lines, v)) = Append(WordsIn(lines), v)
    BY <2>1, PutAdds
  <2>6. i + 1 \in 0..N
    BY <1>4, <1>7
  <2> QED BY <2>2, <2>3, <2>4, <2>5, <2>6
<1>8. WordsIn(Wrap(e)) = w
  <2>1. N \in G
    <3> HIDE DEF G
    <3>1. \A i \in 0..N : i \in G
      BY <1>n, <1>6, <1>7, Ascent
    <3> QED BY <1>n, <3>1
  <2>2. SubSeq(w, 1, N) = w
    BY <1>1 DEF N
  <2> QED BY <1>3, <2>1, <2>2
<1>9. ASSUME Shown[e] = e, 2 + Head(Lengths[e]) <= Width PROVE Wrap(e)[1].words # <<>>
  <2> DEFINE H == {i \in 0..N : i = 0 \/ f[i][1].words # <<>>}
  <2>1. 0 \in H
    BY <1>n
  <2>2. ASSUME NEW i \in 0..N, i < N, i \in H PROVE i + 1 \in H
    <3> DEFINE lines == f[i]
               v == w[i + 1]
    <3>1. lines \in Wrapped(T) /\ v \in T /\ f[i + 1] = Put(lines, v) /\ i + 1 \in 0..N
      BY <1>4, <2>2
    <3>2. CASE i # 0
      <4>1. lines[1].words # <<>>
        BY <2>2, <3>2
      <4> HIDE DEF lines, v
      <4>2. Put(lines, v)[1].words # <<>>
        BY <3>1, <4>1, PutAdds
      <4> QED BY <3>1, <4>2
    <3>3. CASE i = 0
      <4>1. lines = empty /\ Last(lines) = Plain("item") /\ v = <<e, 1>>
        <5>1. lines = empty
          BY <1>3, <3>3
        <5>2. Last(empty) = Plain("item")
          BY DEF Last
        <5>3. 1 \in 1..N
          BY <1>n
        <5>4. w[1] = <<ReadAs(e), 1>> /\ ReadAs(e) = e
          BY <1>1, <1>9, <5>3 DEF ReadAs
        <5> QED BY <3>3, <5>1, <5>2, <5>4
      <4>2. Lengths[v[1]][v[2]] = Head(Lengths[e]) /\ Head(Lengths[e]) \in Nat
        <5>1. Lengths[e] \in Seq(Nat \ {0}) /\ Len(Lengths[e]) >= 1
          BY <1>n, <1>1, EntriesAssumption
        <5>2. Head(Lengths[e]) = Lengths[e][1] /\ Lengths[e][1] \in Nat
          BY <5>1
        <5> QED BY <4>1, <5>2
      <4>3. ~(Wide(Last(lines)) + 1 + Lengths[v[1]][v[2]] > Width)
        <5>1. Wide(Last(lines)) = 1
          BY <4>1, DashIsOneWide
        <5> HIDE DEF lines, v
        <5> QED BY <1>9, <4>2, <5>1, WidthAssumption
      <4>4. Put(lines, v) = Front(lines) \o <<[Last(lines) EXCEPT !.words = Append(@, v)]>>
        BY <4>3 DEF Put
      <4>5. Front(empty) = <<>>
        BY DEF Front
      <4>6. [Plain("item") EXCEPT !.words = Append(@, v)].words # <<>>
        BY DEF Plain
      <4> DEFINE x == [Plain("item") EXCEPT !.words = Append(@, v)]
      <4>7. Put(lines, v) = <<>> \o <<x>>
        BY <4>1, <4>4, <4>5
      <4> HIDE DEF x
      <4>8. (<<>> \o <<x>>)[1] = x
        OBVIOUS
      <4> QED BY <3>1, <4>6, <4>7, <4>8 DEF x
    <3> QED BY <3>2, <3>3
  <2>3. N \in H
    <3> HIDE DEF H
    <3>1. \A i \in 0..N : i \in H
      BY <1>n, <2>1, <2>2, Ascent
    <3> QED BY <1>n, <3>1
  <2> QED BY <1>n, <1>3, <2>3
<1> QED BY <1>8, <1>9 DEF w

\* Where each of the sequences that FlattenSeq joins is in what it makes of
\* them: seqs[k] at the places after ends[k - 1] and up to ends[k].
Layout(ends, seqs) ==
  LET all == FlattenSeq(seqs) IN
  /\ ends \in [0..Len(seqs) -> Nat]
  /\ ends[0] = 0 /\ ends[Len(seqs)] = Len(all)
  /\ \A k \in 1..Len(seqs) : ends[k] = ends[k - 1] + Len(seqs[k]) /\ ends[k] <= Len(all)
  /\ \A k \in 1..Len(seqs) :
        \A i \in 1..Len(seqs[k]) : all[ends[k - 1] + i] = seqs[k][i]
  /\ \A p \in 1..Len(all) : \E k \in 1..Len(seqs) : ends[k - 1] < p /\ p <= ends[k]

\* What FlattenSeq makes has a layout.
LEMMA FlattenLayout ==
  ASSUME NEW S, NEW seqs \in Seq(Seq(S))
  PROVE  \E ends : Layout(ends, seqs)
<1> DEFINE n == Len(seqs)
<1>1. n \in Nat /\ \A k \in 1..n : seqs[k] \in Seq(S)
  OBVIOUS
<1>2. PICK F \in [0..n -> Seq(S)] : Joins(seqs, F) /\ FlattenSeq(seqs) = F[n]
  BY FlattenJoins
<1>3. F[0] = <<>> /\ \A i \in 1..n : F[i] = F[i - 1] \o seqs[i]
  BY <1>2 DEF Joins
<1>n. n \in Nat
  BY <1>1
<1> HIDE DEF n
<1> DEFINE ends == [k \in 0..n |-> Len(F[k])]
<1>4. ends \in [0..n -> Nat] /\ ends[0] = 0 /\ ends[n] = Len(F[n])
  <2>1. \A k \in 0..n : Len(F[k]) \in Nat
    BY <1>2
  <2>2. 0 \in 0..n /\ n \in 0..n
    BY <1>n
  <2> QED BY <2>1, <2>2, <1>3
<1>5. ASSUME NEW k \in 0..n, k < n
      PROVE  /\ k + 1 \in 0..n /\ k + 1 \in 1..n /\ F[k] \in Seq(S) /\ seqs[k + 1] \in Seq(S)
             /\ F[k + 1] = F[k] \o seqs[k + 1] /\ ends[k] = Len(F[k])
             /\ ends[k + 1] = ends[k] + Len(seqs[k + 1])
             /\ ends[k] \in Nat /\ Len(seqs[k + 1]) \in Nat
  <2>1. k + 1 \in 0..n /\ k + 1 \in 1..n /\ (k + 1) - 1 = k
    BY <1>n, <1>5
  <2>2. F[k] \in Seq(S) /\ seqs[k + 1] \in Seq(S) /\ F[k + 1] = F[k] \o seqs[k + 1]
    BY <1>1, <1>2, <1>3, <2>1
  <2>3. Len(F[k + 1]) = Len(F[k]) + Len(seqs[k + 1])
    BY <2>2, ConcatProperties
  <2> QED BY <2>1, <2>2, <2>3
<1> DEFINE Kept(j) == \A k \in 1..j :
              ends[k] <= ends[j] /\ \A i \in 1..Len(seqs[k]) : F[j][ends[k - 1] + i] = seqs[k][i]
           Covered(j) == \A p \in 1..ends[j] : \E k \in 1..j : ends[k - 1] < p /\ p <= ends[k]
           G == {j \in 0..n : Kept(j) /\ Covered(j)}
<1>6. 0 \in G
  <2>1. Kept(0)
    OBVIOUS
  <2>2. Covered(0)
    BY <1>4
  <2> HIDE DEF Kept, Covered
  <2> QED BY <2>1, <2>2, <1>n
<1>e. ASSUME NEW k \in 1..n PROVE ends[k] = ends[k - 1] + Len(seqs[k]) /\ k - 1 \in 0..n
  <2>1. k - 1 \in 0..n /\ k - 1 < n /\ (k - 1) + 1 = k
    BY <1>n
  <2> HIDE DEF ends
  <2> QED BY <2>1, <1>5
<1> HIDE DEF ends
<1>7. ASSUME NEW j \in 0..n, j < n, j \in G PROVE j + 1 \in G
  <2> DEFINE v == seqs[j + 1]
             l == Len(v)
             longer == F[j + 1]
  <2>1. /\ j + 1 \in 0..n /\ j + 1 \in 1..n /\ F[j] \in Seq(S) /\ v \in Seq(S)
        /\ longer = F[j] \o v /\ ends[j] = Len(F[j]) /\ ends[j + 1] = ends[j] + l
        /\ ends[j] \in Nat /\ l \in Nat /\ j \in Nat /\ (j + 1) - 1 = j
    <3>1. j \in Nat /\ (j + 1) - 1 = j
      BY <1>n
    <3> HIDE DEF G
    <3> QED BY <1>5, <1>7, <3>1
  <2>2. /\ \A i \in 1..ends[j] : longer[i] = F[j][i]
        /\ \A i \in 1..l : longer[ends[j] + i] = v[i]
    <3> DEFINE a == F[j]
               m == ends[j]
    <3>1. a \in Seq(S) /\ v \in Seq(S) /\ m = Len(a) /\ l = Len(v) /\ longer = a \o v
      BY <2>1
    <3> HIDE DEF a, m, v, l, longer
    <3>2. /\ \A i \in 1..(m + l) : longer[i] = IF i <= m THEN a[i] ELSE v[i - m]
          /\ m \in Nat /\ l \in Nat
      BY <3>1, ConcatProperties
    <3>3. \A i \in 1..m : longer[i] = a[i]
      BY <3>2
    <3>4. ASSUME NEW i \in 1..l PROVE longer[m + i] = v[i]
      <4>1. m + i \in 1..(m + l) /\ ~(m + i <= m) /\ (m + i) - m = i
        BY <3>2
      <4> QED BY <3>2, <4>1
    <3> QED BY <3>3, <3>4 DEF a, m
  <2> HIDE DEF v, l, longer
  <2>3. Kept(j) /\ Covered(j)
    BY <1>7
  <2>4. Kept(j + 1)
    <3>1. ASSUME NEW k \in 1..(j + 1)
          PROVE  /\ ends[k] <= ends[j + 1]
                 /\ \A i \in 1..Len(seqs[k]) : longer[ends[k - 1] + i] = seqs[k][i]
      <4>1. CASE k = j + 1
        <5>1. ends[k] = ends[j + 1] /\ ends[k - 1] = ends[j] /\ seqs[k] = v /\ Len(seqs[k]) = l
          BY <2>1, <4>1 DEF v, l
        <5>2. ends[j + 1] <= ends[j + 1]
          BY <2>1
        <5> QED BY <2>2, <5>1, <5>2
      <4>2. CASE k # j + 1
        <5>1. k \in 1..j /\ k \in 1..n
          BY <1>n, <1>7, <4>2
        <5>2. /\ ends[k] <= ends[j]
              /\ \A i \in 1..Len(seqs[k]) : F[j][ends[k - 1] + i] = seqs[k][i]
          BY <2>3, <5>1
        <5>3. /\ ends[k] = ends[k - 1] + Len(seqs[k]) /\ ends[k - 1] \in Nat
              /\ Len(seqs[k]) \in Nat /\ ends[k] \in Nat
          <6>1. ends[k] = ends[k - 1] + Len(seqs[k]) /\ k - 1 \in 0..n
            BY <1>e, <5>1
          <6>2. Len(seqs[k]) \in Nat
            BY <1>1, <5>1
          <6>3. ends[k - 1] \in Nat
            BY <1>4, <6>1
          <6> QED BY <6>1, <6>2, <6>3
        <5>4. ends[k] <= ends[j + 1]
          BY <2>1, <5>2, <5>3
        <5>5. ASSUME NEW i \in 1..Len(seqs[k]) PROVE longer[ends[k - 1] + i] = seqs[k][i]
          <6>1. ends[k - 1] + i \in 1..ends[j]
            <7> DEFINE from == ends[k - 1]
                       to == ends[k]
                       m == Len(seqs[k])
                       end == ends[j]
            <7>1. to <= end /\ to = from + m /\ from \in Nat /\ m \in Nat /\ end \in Nat
                  /\ i \in 1..m
              BY <2>1, <5>2, <5>3
            <7> HIDE DEF from, to, m, end
            <7>2. from + i \in 1..end
              BY <7>1
            <7> QED BY <7>2 DEF from, end
          <6>2. longer[ends[k - 1] + i] = F[j][ends[k - 1] + i]
            BY <2>2, <6>1
          <6> QED BY <5>2, <6>2
        <5> QED BY <5>4, <5>5
      <4> QED BY <4>1, <4>2
    <3> QED BY <3>1 DEF longer
  <2>5. Covered(j + 1)
    <3>1. ASSUME NEW p \in 1..ends[j + 1]
          PROVE  \E k \in 1..(j + 1) : ends[k - 1] < p /\ p <= ends[k]
      <4>1. CASE p <= ends[j]
        <5>1. p \in 1..ends[j]
          BY <2>1, <4>1
        <5>2. PICK k \in 1..j : ends[k - 1] < p /\ p <= ends[k]
          BY <2>3, <5>1
        <5>3. k \in 1..(j + 1)
          BY <2>1
        <5> QED BY <5>2, <5>3
      <4>2. CASE ~(p <= ends[j])
        <5>1. j + 1 \in 1..(j + 1) /\ ends[j] < p /\ p <= ends[j + 1]
          BY <2>1, <4>2
        <5>2. ends[(j + 1) - 1] < p
          BY <2>1, <5>1
        <5> QED BY <5>1, <5>2
      <4> QED BY <4>1, <4>2
    <3> QED BY <3>1
  <2> HIDE DEF Kept, Covered
  <2> QED BY <2>1, <2>4, <2>5
<1>8. Kept(n) /\ Covered(n)
  <2>1. n \in G
    <3> HIDE DEF G
    <3>1. \A j \in 0..n : j \in G
      BY <1>n, <1>6, <1>7, Ascent
    <3> QED BY <1>n, <3>1
  <2> HIDE DEF Kept, Covered
  <2> QED BY <2>1
<1>9. Layout(ends, seqs)
  <2> DEFINE all == FlattenSeq(seqs)
  <2>1. all = F[n] /\ ends[n] = Len(all)
    BY <1>2, <1>4
  <2> HIDE DEF all
  <2>2. /\ ends \in [0..n -> Nat] /\ ends[0] = 0 /\ ends[n] = Len(all)
        /\ \A k \in 1..n : ends[k] = ends[k - 1] + Len(seqs[k]) /\ ends[k] <= Len(all)
    BY <1>4, <1>8, <1>e, <2>1
  <2>3. \A k \in 1..n : \A i \in 1..Len(seqs[k]) : all[ends[k - 1] + i] = seqs[k][i]
    BY <1>8, <2>1
  <2>4. \A p \in 1..Len(all) : \E k \in 1..n : ends[k - 1] < p /\ p <= ends[k]
    BY <1>8, <2>1
  <2> QED BY <2>2, <2>3, <2>4 DEF Layout, n, all
<1> QED BY <1>9

\* A function on 0..n that grows at each step is ascending.
LEMMA Ascending ==
  ASSUME NEW n \in Nat, NEW c \in [0..n -> Nat], \A k \in 1..n : c[k - 1] < c[k]
  PROVE  \A j, k \in 0..n : j < k => c[j] < c[k]
<1> DEFINE G == {k \in 0..n : \A j \in 0..n : j < k => c[j] < c[k]}
<1>1. 0 \in G
  OBVIOUS
<1>2. ASSUME NEW k \in 0..n, k < n, k \in G PROVE k + 1 \in G
  <2>1. k + 1 \in 1..n /\ k + 1 \in 0..n /\ (k + 1) - 1 = k
    BY <1>2
  <2>2. c[k] < c[k + 1] /\ c[k] \in Nat /\ c[k + 1] \in Nat
    BY <2>1
  <2>3. ASSUME NEW j \in 0..n, j < k + 1 PROVE c[j] < c[k + 1]
    <3>1. j = k \/ j < k
      BY <2>3
    <3>2. j < k => c[j] < c[k] /\ c[j] \in Nat
      BY <1>2
    <3> QED BY <2>2, <3>1, <3>2
  <2> QED BY <2>1, <2>3
<1> HIDE DEF G
<1>3. \A k \in 0..n : k \in G
  BY <1>1, <1>2, Ascent
<1> QED BY <1>3 DEF G

\* The numbers of an ascending sequence, in order, are the sequence.
LEMMA InOrderIs ==
  ASSUME NEW n \in Nat, NEW g \in [1..n -> Int], \A j, k \in 1..n : j < k => g[j] < g[k]
  PROVE  InOrder({g[k] : k \in 1..n}) = g
<1> DEFINE places == {g[k] : k \in 1..n}
<1>0. ASSUME NEW j \in 1..n, NEW k \in 1..n PROVE (g[j] < g[k] <=> j < k) /\ (g[j] = g[k] => j = k)
  <2>1. j < k \/ j = k \/ k < j
    OBVIOUS
  <2>2. g[j] \in Int /\ g[k] \in Int
    OBVIOUS
  <2> QED BY <2>1, <2>2
<1>1. ASSUME NEW m \in 0..n
      PROVE  IsFiniteSet({g[k] : k \in 1..m}) /\ Cardinality({g[k] : k \in 1..m}) = m
  <2> DEFINE part == {g[k] : k \in 1..m}
             h == [k \in 1..m |-> g[k]]
  <2>1. h \in Bijection(1..m, part)
    <3>0. \A k \in 1..m : k \in 1..n
      OBVIOUS
    <3>1. h \in [1..m -> part]
      OBVIOUS
    <3>2. \A j, k \in 1..m : h[j] = h[k] => j = k
      BY <1>0, <3>0
    <3>3. \A p \in part : \E k \in 1..m : h[k] = p
      OBVIOUS
    <3> HIDE DEF h, part
    <3> QED BY <3>1, <3>2, <3>3 DEF Bijection, Injection, Surjection, IsInjective
  <2>2. IsFiniteSet(1..m) /\ Cardinality(1..m) = m
    <3>1. 1 \in Int /\ m \in Int /\ m \in Nat
      OBVIOUS
    <3>2. IsFiniteSet(1..m) /\ Cardinality(1..m) = IF 1 > m THEN 0 ELSE m - 1 + 1
      BY <3>1, FS_Interval
    <3> QED BY <3>1, <3>2
  <2> HIDE DEF part, h
  <2>3. ExistsBijection(1..m, part)
    BY <2>1 DEF ExistsBijection
  <2> QED BY <2>2, <2>3, FS_Bijection DEF part
<1>2. IsFiniteSet(places) /\ Cardinality(places) = n /\ places \subseteq Int
  <2>1. n \in 0..n
    OBVIOUS
  <2> QED BY <1>1, <2>1
<1>3. ASSUME NEW k \in 1..n PROVE Rank(places, g[k]) = k - 1
  <2>1. {p \in places : p < g[k]} = {g[j] : j \in 1..(k - 1)}
    <3>1. ASSUME NEW j \in 1..n PROVE g[j] < g[k] <=> j \in 1..(k - 1)
      <4>1. g[j] < g[k] <=> j < k
        BY <1>0
      <4> QED BY <4>1
    <3>2. \A j \in 1..(k - 1) : j \in 1..n
      OBVIOUS
    <3> QED BY <3>1, <3>2
  <2>2. k - 1 \in 0..n
    OBVIOUS
  <2>3. Cardinality({g[j] : j \in 1..(k - 1)}) = k - 1
    BY <1>1, <2>2
  <2> QED BY <2>1, <2>3 DEF Rank
<1>4. ASSUME NEW k \in 1..n PROVE InOrder(places)[k] = g[k]
  <2> DEFINE r == CHOOSE i \in places : Rank(places, i) = k - 1
  <2>1. InOrder(places)[k] = r
    BY <1>2 DEF InOrder, Rank
  <2>2. g[k] \in places /\ Rank(places, g[k]) = k - 1
    BY <1>3
  <2> HIDE DEF places
  <2>3. r \in places /\ Rank(places, r) = k - 1
    BY <2>2
  <2>4. r = g[k]
    <3> HIDE DEF r
    <3> DEFINE q == g[k]
    <3>1. q \in places /\ Rank(places, r) = Rank(places, q)
      BY <2>2, <2>3
    <3> HIDE DEF q
    <3>2. r = q
      BY <1>2, <2>3, <3>1, Ranks
    <3> QED BY <3>2 DEF q
  <2> QED BY <2>1, <2>4
<1>5. DOMAIN InOrder(places) = 1..n
  BY <1>2 DEF InOrder
<1>6. InOrder(places) = [k \in 1..n |-> InOrder(places)[k]]
  <2> HIDE DEF places
  <2>1. InOrder(places) \in [1..n -> places]
    BY <1>2, InOrderOnto
  <2> QED BY <2>1
<1> HIDE DEF places
<1>7. InOrder(places) = g
  BY <1>4, <1>6
<1> QED BY <1>7 DEF places

LEMMA LeastIs ==
  ASSUME NEW T, T \subseteq Int, NEW m \in T, \A i \in T : m <= i
  PROVE  Least(T) = m
<1> DEFINE l == CHOOSE i \in T : \A j \in T : i <= j
<1>1. l \in T /\ \A j \in T : l <= j
  OBVIOUS
<1> HIDE DEF l
<1>2. l <= m /\ m <= l /\ l \in Int /\ m \in Int
  BY <1>1
<1>3. l = m
  BY <1>2
<1> QED BY <1>3 DEF Least, l

\* Where the lines of a page that is written are.
PagePlaces(pre, E, epi) ==
  LET list  == FlattenSeq(Blocks(E))
      rest  == Gap(E, epi) \o epi
      lines == Written(pre, E, epi)
  IN  /\ list \in Seq(Line) /\ rest \in Seq(Line) /\ lines \in Seq(Line)
      /\ lines = (pre \o list) \o rest
      /\ Len(lines) = Len(pre) + Len(list) + Len(rest)
      /\ \A i \in 1..Len(pre) : lines[i] = pre[i]
      /\ \A i \in 1..Len(list) : lines[Len(pre) + i] = list[i]
      /\ \A i \in 1..Len(rest) : lines[Len(pre) + Len(list) + i] = rest[i]
      /\ rest # <<>> => rest[1].kind = "blank"

\* A page that was written has places.
LEMMA WrittenPlaces ==
  ASSUME NEW E \in Seq(Texts), E # <<>>, NEW pre \in Seq(Line), NEW epi \in Seq(Line)
  PROVE  PagePlaces(pre, E, epi)
<1> DEFINE list == FlattenSeq(Blocks(E))
           lines == Written(pre, E, epi)
           gap == Gap(E, epi)
           rest == gap \o epi
           both == pre \o list
<1>1. /\ gap \in Seq(Line) /\ list \in Seq(Line) /\ lines = ((pre \o list) \o gap) \o epi
      /\ lines \in Seq(Line)
  BY WrittenLines
<1> HIDE DEF list, lines
<1>0. rest = gap \o epi
  OBVIOUS
<1>2. rest # <<>> => rest[1].kind = "blank"
  <2>1. CASE epi # <<>> /\ Head(epi).kind # "blank"
    <3>1. gap = <<Plain("blank")>>
      BY <2>1 DEF Gap
    <3>2. rest[1] = Plain("blank")
      <4> DEFINE x == Plain("blank")
      <4>1. rest = <<x>> \o epi
        BY <1>0, <3>1
      <4> HIDE DEF x, gap
      <4>2. rest[1] = x
        BY <4>1
      <4> QED BY <4>2 DEF x
    <3> QED BY <3>2 DEF Plain
  <2>2. CASE ~(epi # <<>> /\ Head(epi).kind # "blank")
    <3>1. gap = <<>>
      BY <2>2 DEF Gap
    <3>2. rest = epi
      <4>1. rest = <<>> \o epi
        BY <1>0, <3>1
      <4> QED BY <4>1, ConcatSimplifications
    <3> QED BY <2>2, <3>2
  <2> QED BY <2>1, <2>2
<1>3. rest \in Seq(Line) /\ lines = both \o rest
  <2> HIDE DEF gap
  <2>1. gap \o epi \in Seq(Line) /\ both \in Seq(Line)
    BY <1>1
  <2>2. (both \o gap) \o epi = both \o (gap \o epi)
    <3> HIDE DEF both
    <3> QED BY <1>1, <2>1
  <2> QED BY <1>1, <2>1, <2>2 DEF gap
<1> HIDE DEF rest
<1>4. /\ both \in Seq(Line) /\ Len(both) = Len(pre) + Len(list)
      /\ \A i \in 1..(Len(pre) + Len(list)) :
            both[i] = IF i <= Len(pre) THEN pre[i] ELSE list[i - Len(pre)]
  BY <1>1, ConcatProperties
<1> DEFINE a == Len(pre)
           b == Len(list)
           c == Len(rest)
<1>n. a \in Nat /\ b \in Nat /\ c \in Nat
  BY <1>1, <1>3
<1> HIDE DEF both
<1>5. /\ Len(lines) = (a + b) + c
      /\ \A i \in 1..((a + b) + c) : lines[i] = IF i <= a + b THEN both[i] ELSE rest[i - (a + b)]
  <2>1. Len(both) = a + b /\ Len(rest) = c /\ both \in Seq(Line) /\ rest \in Seq(Line)
    BY <1>3, <1>4
  <2> HIDE DEF a, b, c
  <2>2. /\ Len(both \o rest) = Len(both) + Len(rest)
        /\ \A i \in 1..(Len(both) + Len(rest)) : (both \o rest)[i] =
              IF i <= Len(both) THEN both[i] ELSE rest[i - Len(both)]
    BY <2>1, ConcatProperties
  <2> QED BY <1>3, <2>1, <2>2
<1>6. \A i \in 1..(a + b) : both[i] = IF i <= a THEN pre[i] ELSE list[i - a]
  BY <1>4
<1>f. list \in Seq(Line) /\ lines \in Seq(Line) /\ lines = (pre \o list) \o rest
  BY <1>1, <1>3 DEF both
<1>7. \A i \in 1..a : lines[i] = pre[i]
  <2> HIDE DEF a, b, c
  <2>1. ASSUME NEW i \in 1..a PROVE lines[i] = pre[i]
    <3>1. i \in 1..((a + b) + c) /\ i \in 1..(a + b) /\ i <= a + b /\ i <= a
      BY <1>n
    <3> QED BY <1>5, <1>6, <3>1
  <2> QED BY <2>1
<1>8. \A i \in 1..b : lines[a + i] = list[i]
  <2> HIDE DEF a, b, c
  <2>1. ASSUME NEW i \in 1..b PROVE lines[a + i] = list[i]
    <3>1. a + i \in 1..((a + b) + c) /\ a + i \in 1..(a + b) /\ a + i <= a + b
          /\ ~(a + i <= a) /\ (a + i) - a = i
      BY <1>n
    <3> QED BY <1>5, <1>6, <3>1
  <2> QED BY <2>1
<1>9. \A i \in 1..c : lines[a + b + i] = rest[i]
  <2> HIDE DEF a, b, c
  <2>1. ASSUME NEW i \in 1..c PROVE lines[a + b + i] = rest[i]
    <3>1. a + b + i \in 1..((a + b) + c) /\ ~(a + b + i <= a + b) /\ (a + b + i) - (a + b) = i
      BY <1>n
    <3> QED BY <1>5, <3>1
  <2> QED BY <2>1
<1>10. Len(lines) = a + b + c
  BY <1>5
<1> QED BY <1>2, <1>3, <1>7, <1>8, <1>9, <1>10, <1>f DEF PagePlaces, list, lines, rest, gap

\* The items of a list that was written, and what is between them.
LEMMA ListStarts ==
  ASSUME NEW E \in Seq(Texts), Printable(E), NEW ends, Layout(ends, Blocks(E)),
         NEW list, list = FlattenSeq(Blocks(E))
  PROVE  /\ \A k \in 1..Len(E) : ends[k - 1] < ends[k]
         /\ \A p \in 1..Len(list) :
              /\ OpensItem(list[p]) <=> \E k \in 1..Len(E) : p = ends[k - 1] + 1
              /\ OpensItem(list[p]) \/ list[p].kind = "more"
<1> DEFINE n == Len(E)
           blocks == Blocks(E)
<1>n. n \in Nat
  OBVIOUS
<1>1. /\ Len(blocks) = n
      /\ \A k \in 1..n : blocks[k] = Wrap(E[k]) /\ IsBlock(blocks[k])
  BY BlocksAreLines
<1>2. /\ ends \in [0..n -> Nat]
      /\ \A k \in 1..n : ends[k] = ends[k - 1] + Len(blocks[k])
      /\ \A k \in 1..n : \A i \in 1..Len(blocks[k]) : list[ends[k - 1] + i] = blocks[k][i]
      /\ \A p \in 1..Len(list) : \E k \in 1..n : ends[k - 1] < p /\ p <= ends[k]
  BY <1>1 DEF Layout
<1>3. ASSUME NEW k \in 1..n
      PROVE  /\ ends[k - 1] \in Nat /\ ends[k] \in Nat /\ ends[k] = ends[k - 1] + Len(blocks[k])
             /\ Len(blocks[k]) \in Nat /\ Len(blocks[k]) >= 1
             /\ OpensItem(blocks[k][1])
             /\ \A i \in 2..Len(blocks[k]) : blocks[k][i].kind = "more"
  <2>1. E[k] \in Texts /\ Shown[E[k]] = E[k] /\ 2 + Head(Lengths[E[k]]) <= Width
    BY DEF Printable
  <2>2. Wrap(E[k])[1].words # <<>>
    <3> DEFINE e == E[k]
    <3>1. e \in Texts /\ Shown[e] = e /\ 2 + Head(Lengths[e]) <= Width
      BY <2>1
    <3> HIDE DEF e
    <3>2. Wrap(e)[1].words # <<>>
      BY <3>1, WrapHolds
    <3> QED BY <3>2 DEF e
  <2> HIDE DEF blocks, n
  <2>3. OpensItem(blocks[k][1]) /\ Len(blocks[k]) \in Nat /\ Len(blocks[k]) >= 1
        /\ \A i \in 2..Len(blocks[k]) : blocks[k][i].kind = "more"
    BY <1>1, <2>2 DEF IsBlock, OpensItem
  <2>4. k \in 0..n /\ k - 1 \in 0..n
    BY <1>n
  <2> QED BY <1>2, <2>3, <2>4
<1> HIDE DEF blocks, n
<1>4. ASSUME NEW k \in 1..n PROVE ends[k - 1] < ends[k]
  <2> DEFINE from == ends[k - 1]
             to == ends[k]
             l == Len(blocks[k])
  <2>1. from \in Nat /\ l \in Nat /\ l >= 1 /\ to = from + l
    BY <1>3
  <2> HIDE DEF from, to, l
  <2>2. from < to
    BY <2>1
  <2> QED BY <2>2 DEF from, to
<1>5. \A j, k \in 0..n : j < k => ends[j] < ends[k]
  BY <1>n, <1>2, <1>4, Ascending
<1>6. ASSUME NEW p \in 1..Len(list)
      PROVE  /\ OpensItem(list[p]) <=> \E k \in 1..n : p = ends[k - 1] + 1
             /\ OpensItem(list[p]) \/ list[p].kind = "more"
  <2>1. PICK k \in 1..n : ends[k - 1] < p /\ p <= ends[k]
    BY <1>2
  <2> DEFINE from == ends[k - 1]
             to == ends[k]
             l == Len(blocks[k])
             i == p - from
  <2>2. from \in Nat /\ l \in Nat /\ to = from + l /\ from < p /\ p <= to /\ p \in Nat
    BY <1>3, <2>1
  <2>3. \A q \in 1..l : list[from + q] = blocks[k][q]
    BY <1>2
  <2>e. \A j \in 1..n : j # k => p # ends[j - 1] + 1
    <3> SUFFICES ASSUME NEW j \in 1..n, j # k PROVE p # ends[j - 1] + 1
      OBVIOUS
    <3> DEFINE other == ends[j - 1]
    <3>1. j - 1 \in 0..n /\ k - 1 \in 0..n /\ k \in 0..n /\ (j < k \/ k < j)
      BY <1>n
    <3>2. other \in Nat
      BY <1>2, <3>1
    <3>3. CASE j < k
      <4>1. j - 1 < k - 1
        BY <3>3
      <4>2. other < from
        BY <1>5, <3>1, <4>1
      <4> HIDE DEF other, from, to, l, i
      <4> QED BY <2>2, <3>2, <4>2 DEF other
    <3>4. CASE k < j
      <4>1. k < j - 1 \/ k = j - 1
        BY <3>4
      <4>2. to <= other
        <5>1. CASE k < j - 1
          <6>1. to < other
            BY <1>5, <3>1, <5>1
          <6> HIDE DEF other, from, to, l, i
          <6> QED BY <2>2, <3>2, <6>1
        <5>2. CASE k = j - 1
          <6>1. to = other
            BY <5>2
          <6> HIDE DEF other, from, to, l, i
          <6> QED BY <3>2, <6>1
        <5> QED BY <4>1, <5>1, <5>2
      <4> HIDE DEF other, from, to, l, i
      <4> QED BY <2>2, <3>2, <4>2 DEF other
    <3> QED BY <3>1, <3>3, <3>4
  <2>4. OpensItem(blocks[k][1]) /\ \A q \in 2..l : blocks[k][q].kind = "more"
    BY <1>3
  <2>5. p = from + 1 <=> p = ends[k - 1] + 1
    OBVIOUS
  <2> HIDE DEF from, to, l
  <2>6. i \in 1..l /\ from + i = p /\ (i = 1 <=> p = from + 1) /\ (i # 1 => i \in 2..l)
    BY <2>2
  <2>7. list[p] = blocks[k][i]
    <3> HIDE DEF i
    <3> QED BY <2>3, <2>6
  <2> HIDE DEF i
  <2>8. CASE i = 1
    BY <2>4, <2>5, <2>6, <2>7, <2>8
  <2>9. CASE i # 1
    <3>1. list[p].kind = "more" /\ ~OpensItem(list[p])
      BY <2>4, <2>6, <2>7, <2>9 DEF OpensItem
    <3>2. p # ends[k - 1] + 1
      BY <2>5, <2>6, <2>9
    <3> QED BY <2>e, <3>1, <3>2
  <2> QED BY <2>8, <2>9
<1> QED BY <1>4, <1>6 DEF n

\* Prose that ends where a list may begin: the heading is in it and no item is
\* below that.
Opens(pre) ==
  /\ pre \in Seq(Line)
  /\ \E h \in 1..Len(pre) : pre[h].kind = "heading"
  /\ \A i \in 1..Len(pre) :
       OpensItem(pre[i]) => \A h \in 1..(i - 1) : pre[h].kind # "heading"

\* Where the items of a page that was written are.
LEMMA WrittenItems ==
  ASSUME NEW E \in Seq(Texts), E # <<>>, Printable(E), NEW pre, Opens(pre), NEW epi \in Seq(Line),
         NEW ends, Layout(ends, Blocks(E)), NEW list, list = FlattenSeq(Blocks(E)),
         NEW lines, lines = Written(pre, E, epi)
  PROVE  /\ ItemsAt(lines) \subseteq 1..Len(lines)
         /\ \A i \in ItemsAt(lines) : i > Len(pre)
         /\ \A p \in 1..Len(list) :
              Len(pre) + p \in ItemsAt(lines) <=> \E k \in 1..Len(E) : p = ends[k - 1] + 1
<1> DEFINE rest == Gap(E, epi) \o epi
           o == Len(pre)
           l == Len(list)
<1>1. pre \in Seq(Line) /\ o \in Nat
  BY DEF Opens
<1>2. /\ list \in Seq(Line) /\ rest \in Seq(Line) /\ lines \in Seq(Line)
      /\ Len(lines) = o + l + Len(rest)
      /\ \A i \in 1..o : lines[i] = pre[i]
      /\ \A i \in 1..l : lines[o + i] = list[i]
  <2>1. PagePlaces(pre, E, epi)
    BY <1>1, WrittenPlaces
  <2> QED BY <2>1 DEF PagePlaces
<1>n. o \in Nat /\ l \in Nat /\ Len(lines) \in Nat /\ o + l <= Len(lines)
  <2>1. Len(rest) \in Nat /\ l \in Nat
    BY <1>2
  <2> HIDE DEF rest, l, o
  <2> QED BY <1>1, <1>2, <2>1
<1> HIDE DEF rest, o, l
<1>3. ItemsAt(lines) \subseteq 1..Len(lines)
  BY <1>2, ListBounds DEF ItemsAt
<1>4. ASSUME NEW i \in ItemsAt(lines) PROVE i > o
  <2> SUFFICES ASSUME i \in 1..o PROVE FALSE
    BY <1>n, <1>3
  <2>1. OpensItem(lines[i]) /\ \E h \in 1..(i - 1) : lines[h].kind = "heading"
    BY DEF ItemsAt, Under
  <2>2. PICK h \in 1..(i - 1) : lines[h].kind = "heading"
    BY <2>1
  <2>3. h \in 1..o
    BY <1>n
  <2>4. OpensItem(pre[i]) /\ pre[h].kind = "heading"
    BY <1>2, <2>1, <2>2, <2>3
  <2> QED BY <2>4 DEF Opens, o
<1>5. ASSUME NEW p \in 1..l
      PROVE  o + p \in ItemsAt(lines) <=> OpensItem(list[p])
  <2>1. PICK h \in 1..o : pre[h].kind = "heading"
    BY DEF Opens, o
  <2>2. o + p \in 1..Len(lines) /\ h \in 1..((o + p) - 1)
    BY <1>n
  <2>3. lines[h].kind = "heading" /\ lines[o + p] = list[p]
    BY <1>2, <2>1
  <2>4. DOMAIN lines = 1..Len(lines)
    BY <1>2
  <2>5. o + p \in Under(lines)
    BY <2>2, <2>3, <2>4 DEF Under
  <2> QED BY <2>3, <2>5 DEF ItemsAt
<1>6. \A p \in 1..l : OpensItem(list[p]) <=> \E k \in 1..Len(E) : p = ends[k - 1] + 1
  BY ListStarts DEF l
<1> QED BY <1>3, <1>4, <1>5, <1>6 DEF o, l

\* The list of a page that was written ends where its blocks do.
LEMMA WrittenBounds ==
  ASSUME NEW E \in Seq(Texts), E # <<>>, Printable(E), NEW pre, Opens(pre), NEW epi \in Seq(Line),
         NEW ends, Layout(ends, Blocks(E)), NEW list, list = FlattenSeq(Blocks(E)),
         NEW lines, lines = Written(pre, E, epi)
  PROVE  /\ Len(pre) + 1 \in ItemsAt(lines)
         /\ ListFirst(lines) = Len(pre) + 1
         /\ ListEnd(lines) = Len(pre) + Len(list) + 1
<1> DEFINE rest == Gap(E, epi) \o epi
           o == Len(pre)
           l == Len(list)
           n == Len(E)
           r == Len(rest)
<1>1. pre \in Seq(Line) /\ o \in Nat /\ n \in Nat /\ n >= 1
  BY DEF Opens
<1>2. /\ list \in Seq(Line) /\ rest \in Seq(Line) /\ lines \in Seq(Line)
      /\ Len(lines) = o + l + r
      /\ \A i \in 1..l : lines[o + i] = list[i]
      /\ \A i \in 1..r : lines[o + l + i] = rest[i]
      /\ rest # <<>> => rest[1].kind = "blank"
  <2>1. PagePlaces(pre, E, epi)
    BY <1>1, WrittenPlaces
  <2> QED BY <2>1 DEF PagePlaces
<1>3. ends[0] = 0 /\ l >= n
  <2>1. ends[0] = 0
    BY DEF Layout
  <2>2. l >= n
    BY <1>1, WrittenLines
  <2> QED BY <2>1, <2>2
<1>n. o \in Nat /\ l \in Nat /\ r \in Nat /\ l >= 1
  <2>1. l \in Nat /\ r \in Nat
    BY <1>2
  <2> HIDE DEF l, r, n, o
  <2> QED BY <1>1, <1>3, <2>1
<1>4. /\ ItemsAt(lines) \subseteq 1..Len(lines) /\ \A i \in ItemsAt(lines) : i > o
      /\ \A p \in 1..l : o + p \in ItemsAt(lines) <=> \E k \in 1..n : p = ends[k - 1] + 1
  BY WrittenItems
<1>5. \A p \in 1..l : OpensItem(list[p]) \/ list[p].kind = "more"
  BY ListStarts
<1> HIDE DEF rest, o, l, n, r
<1>6. o + 1 \in ItemsAt(lines)
  <2>1. 1 \in 1..l /\ 1 \in 1..n /\ ends[1 - 1] = 0
    BY <1>1, <1>n, <1>3
  <2>2. \E k \in 1..n : 1 = ends[k - 1] + 1
    BY <2>1
  <2> QED BY <1>4, <2>1, <2>2
<1>7. ListFirst(lines) = o + 1
  <2> DEFINE T == ItemsAt(lines)
             m == o + 1
  <2>1. T \subseteq Int /\ m \in T
    BY <1>4, <1>6
  <2>2. \A i \in T : m <= i
    BY <1>n, <1>4
  <2>3. ListFirst(lines) = Least(T)
    BY <1>6 DEF ListFirst
  <2> HIDE DEF T, m
  <2>4. Least(T) = m
    BY <2>1, <2>2, LeastIs
  <2> QED BY <2>3, <2>4 DEF m
<1>8. ListEnd(lines) = o + l + 1
  <2> DEFINE T == {i \in (o + 1)..(o + l + r) :
                     ~OpensItem(lines[i]) /\ lines[i].kind # "more"} \cup {o + l + r + 1}
             m == o + l + 1
  <2>1. ListEnd(lines) = Least(T)
    BY <1>2, <1>6, <1>7 DEF ListEnd
  <2>2. T \subseteq Int
    BY <1>n
  <2>3. m \in T
    <3>1. CASE r = 0
      BY <1>n, <3>1
    <3>2. CASE r # 0
      <4>1. 1 \in 1..r /\ m \in (o + 1)..(o + l + r) /\ m = o + l + 1
        BY <1>n, <3>2
      <4>2. lines[m] = rest[1] /\ rest # <<>>
        <5>1. lines[o + l + 1] = rest[1]
          BY <1>2, <4>1
        <5>2. rest # <<>>
          BY <1>2, <3>2 DEF r
        <5> QED BY <5>1, <5>2
      <4>3. lines[m].kind = "blank"
        BY <1>2, <4>2
      <4> HIDE DEF m
      <4> QED BY <4>1, <4>3 DEF OpensItem
    <3> QED BY <3>1, <3>2
  <2>4. ASSUME NEW i \in T PROVE m <= i
    <3> SUFFICES ASSUME i < m PROVE FALSE
      BY <1>n, <2>2
    <3>1. i \in (o + 1)..(o + l + r) /\ ~OpensItem(lines[i]) /\ lines[i].kind # "more"
      BY <1>n
    <3>2. i - o \in 1..l /\ o + (i - o) = i
      BY <1>n, <3>1
    <3>3. lines[i] = list[i - o]
      <4> DEFINE p == i - o
      <4>1. p \in 1..l /\ o + p = i
        BY <3>2
      <4> HIDE DEF p
      <4>2. lines[i] = list[p]
        BY <1>2, <4>1
      <4> QED BY <4>2 DEF p
    <3> QED BY <1>5, <3>1, <3>2, <3>3
  <2> HIDE DEF T, m
  <2>5. Least(T) = m
    BY <2>2, <2>3, <2>4, LeastIs
  <2> QED BY <2>1, <2>5 DEF m
<1> QED BY <1>6, <1>7, <1>8 DEF o, l

\* An item of a page that was written is joined to the words it was written from.
LEMMA WrittenJoined ==
  ASSUME NEW E \in Seq(Texts), E # <<>>, Printable(E), NEW pre, Opens(pre), NEW epi \in Seq(Line),
         NEW ends, Layout(ends, Blocks(E)), NEW k \in 1..Len(E), NEW lines,
         lines = Written(pre, E, epi)
  PROVE  Joined(lines, Len(pre) + ends[k - 1] + 1) = WordsOf(E[k])
<1> DEFINE list == FlattenSeq(Blocks(E))
           o == Len(pre)
           l == Len(list)
           n == Len(E)
           block == Blocks(E)[k]
           m == Len(block)
           from == ends[k - 1]
           to == ends[k]
           top == o + from + 1
           end == Least({i \in ItemsAt(lines) : i > top} \cup {ListEnd(lines)})
<1>1. pre \in Seq(Line) /\ o \in Nat /\ n \in Nat
  BY DEF Opens
<1>2. list \in Seq(Line) /\ \A i \in 1..l : lines[o + i] = list[i]
  <2>1. PagePlaces(pre, E, epi)
    BY <1>1, WrittenPlaces
  <2> QED BY <2>1 DEF PagePlaces
<1>3. /\ ItemsAt(lines) \subseteq 1..Len(lines)
      /\ \A i \in ItemsAt(lines) : i > o
      /\ \A p \in 1..l : o + p \in ItemsAt(lines) <=> \E j \in 1..n : p = ends[j - 1] + 1
  BY WrittenItems
<1>4. ListEnd(lines) = o + l + 1
  BY WrittenBounds
<1>5. \A j \in 1..n : ends[j - 1] < ends[j]
  BY ListStarts
<1>6. /\ Len(Blocks(E)) = n /\ block = Wrap(E[k]) /\ IsBlock(block)
  BY BlocksAreLines
<1>7. /\ ends \in [0..n -> Nat] /\ ends[n] = l /\ to = from + m /\ to <= l
      /\ \A i \in 1..m : list[from + i] = block[i]
  BY <1>6 DEF Layout
<1>8. \A j, q \in 0..n : j < q => ends[j] < ends[q]
  BY <1>1, <1>5, <1>7, Ascending
<1>w. k \in 1..n /\ WordsIn(Wrap(E[k])) = WordsOf(E[k])
  <2>1. E[k] \in Texts
    OBVIOUS
  <2> QED BY <2>1, WrapHolds
<1>9. Joined(lines, top) = FlattenSeq([i \in 1..(end - top) |-> lines[top + i - 1].words])
  BY DEF Joined
<1> HIDE DEF list, o, l, n, block
<1>n. /\ o \in Nat /\ n \in Nat /\ l \in Nat /\ m \in Nat /\ k \in 0..n /\ k - 1 \in 0..n
      /\ from \in Nat /\ to \in Nat
  <2>1. l \in Nat /\ m \in Nat
    BY <1>2, <1>6 DEF l, IsBlock
  <2>2. k \in 0..n /\ k - 1 \in 0..n
    BY <1>1, <1>w
  <2>3. from \in Nat /\ to \in Nat
    BY <1>7, <2>2
  <2> QED BY <1>1, <2>1, <2>2, <2>3
<1> HIDE DEF m
<1>10. ASSUME NEW j \in 1..n, ends[j - 1] > from PROVE ends[j - 1] >= to
  <2> DEFINE other == ends[j - 1]
  <2>1. j - 1 \in 0..n
    BY <1>n
  <2>2. other \in Nat
    BY <1>7, <2>1
  <2>3. CASE j - 1 < k - 1
    <3>1. other < from
      BY <1>8, <1>n, <2>1, <2>3
    <3> HIDE DEF other, from
    <3> QED BY <1>n, <1>10, <2>2, <3>1 DEF other
  <2>4. CASE j - 1 = k - 1
    <3>1. other = from
      BY <2>4
    <3> HIDE DEF from, other
    <3> QED BY <1>n, <1>10, <3>1 DEF other
  <2>5. CASE j - 1 = k
    <3>1. other = to
      BY <2>5
    <3> HIDE DEF to
    <3> QED BY <1>n, <3>1
  <2>6. CASE k < j - 1
    <3>1. to < other
      BY <1>8, <1>n, <2>1, <2>6
    <3> HIDE DEF to, other
    <3> QED BY <1>n, <2>2, <3>1 DEF other
  <2>7. j - 1 < k - 1 \/ j - 1 = k - 1 \/ j - 1 = k \/ k < j - 1
    BY <1>n
  <2> QED BY <2>3, <2>4, <2>5, <2>6, <2>7
<1>11. end = o + to + 1
  <2> DEFINE T == {i \in ItemsAt(lines) : i > top} \cup {ListEnd(lines)}
             least == o + to + 1
  <2>1. T \subseteq Int
    BY <1>3, <1>4, <1>n
  <2>2. least \in T
    <3>1. CASE k = n
      <4>1. to = l
        BY <1>7, <3>1
      <4> QED BY <1>4, <4>1
    <3>2. CASE k # n
      <4>1. k + 1 \in 1..n /\ (k + 1) - 1 = k /\ k + 1 \in 0..n /\ n \in 0..n
        BY <1>n, <1>w, <3>2
      <4>2. to < l /\ from < to
        <5>1. k < n
          BY <1>n, <3>2
        <5>2. ends[k] < ends[n] /\ ends[k - 1] < ends[k]
          BY <1>8, <1>5, <1>n, <1>w, <4>1, <5>1
        <5> QED BY <1>7, <5>2
      <4>3. \E j \in 1..n : to + 1 = ends[j - 1] + 1
        BY <4>1
      <4> HIDE DEF from, to
      <4>4. to + 1 \in 1..l /\ least > top /\ least = o + (to + 1)
        BY <1>n, <4>2
      <4>5. o + (to + 1) \in ItemsAt(lines)
        BY <1>3, <4>3, <4>4
      <4> HIDE DEF least, top
      <4> QED BY <4>4, <4>5
    <3> QED BY <3>1, <3>2
  <2>3. ASSUME NEW i \in T PROVE least <= i
    <3>1. CASE i = ListEnd(lines)
      <4> HIDE DEF to
      <4> QED BY <1>4, <1>7, <1>n, <3>1
    <3>2. CASE i \in ItemsAt(lines) /\ i > top
      <4>1. i \in Int /\ i > o
        BY <1>3, <3>2
      <4>2. CASE i <= o + l
        <5> DEFINE p == i - o
        <5>1. p \in 1..l /\ o + p = i
          BY <1>n, <4>1, <4>2
        <5>2. p > from + 1
          <6> HIDE DEF from
          <6> QED BY <1>n, <3>2, <4>1
        <5> HIDE DEF p
        <5>3. PICK j \in 1..n : p = ends[j - 1] + 1
          BY <1>3, <3>2, <5>1
        <5> DEFINE other == ends[j - 1]
        <5>4. other \in Nat
          <6>1. j - 1 \in 0..n
            BY <1>n
          <6> QED BY <1>7, <6>1
        <5>5. other > from
          <6> HIDE DEF other, from
          <6> QED BY <1>n, <5>2, <5>3, <5>4 DEF other
        <5>6. other >= to
          BY <1>10, <5>5
        <5>7. p = other + 1
          BY <5>3
        <5> HIDE DEF other, to
        <5> QED BY <1>n, <5>1, <5>4, <5>6, <5>7
      <4>3. CASE ~(i <= o + l)
        <5> HIDE DEF to
        <5> QED BY <1>7, <1>n, <4>1, <4>3
      <4> QED BY <4>2, <4>3
    <3> QED BY <3>1, <3>2
  <2> HIDE DEF T, least
  <2>4. Least(T) = least
    BY <2>1, <2>2, <2>3, LeastIs
  <2> QED BY <2>4 DEF T, least
<1>12. end - top = m
  <2> HIDE DEF end, from, to
  <2> QED BY <1>7, <1>11, <1>n
<1>13. ASSUME NEW i \in 1..m PROVE lines[top + i - 1] = block[i]
  <2> HIDE DEF end, from, to
  <2>1. from + i \in 1..l /\ top + i - 1 = o + (from + i)
    BY <1>7, <1>n
  <2>2. lines[o + (from + i)] = list[from + i] /\ list[from + i] = block[i]
    BY <1>2, <1>7, <2>1
  <2> QED BY <2>1, <2>2
<1>14. [i \in 1..(end - top) |-> lines[top + i - 1].words] = [i \in 1..m |-> block[i].words]
  <2> HIDE DEF end, top
  <2> QED BY <1>12, <1>13
<1>15. FlattenSeq([i \in 1..m |-> block[i].words]) = WordsOf(E[k])
  BY <1>6, <1>w DEF WordsIn, m
<1>16. Joined(lines, top) = WordsOf(E[k])
  <2> HIDE DEF end, top
  <2> QED BY <1>9, <1>14, <1>15
<1> QED BY <1>16 DEF o

\* A page that was written reads as the entries it was written from.
LEMMA WrittenReads ==
  ASSUME NEW E \in Seq(Texts), E # <<>>, Printable(E), NEW pre, Opens(pre), NEW epi \in Seq(Line)
  PROVE  Loads(Written(pre, E, epi)) /\ EntriesOf(Written(pre, E, epi)) = E
<1> DEFINE lines == Written(pre, E, epi)
           list == FlattenSeq(Blocks(E))
           o == Len(pre)
           l == Len(list)
           n == Len(E)
<1>1. pre \in Seq(Line) /\ o \in Nat /\ n \in Nat
  BY DEF Opens
<1>2. PICK ends : Layout(ends, Blocks(E))
  <2>1. Blocks(E) \in Seq(Seq(Line))
    BY BlocksAreLines
  <2> QED BY <2>1, FlattenLayout
<1>3. /\ list \in Seq(Line) /\ lines \in Seq(Line) /\ Len(lines) >= o
      /\ \A i \in 1..o : lines[i] = pre[i]
  <2>1. PagePlaces(pre, E, epi)
    BY <1>1, WrittenPlaces
  <2> DEFINE rest == Gap(E, epi) \o epi
  <2>2. /\ list \in Seq(Line) /\ lines \in Seq(Line) /\ rest \in Seq(Line)
        /\ Len(lines) = o + l + Len(rest) /\ \A i \in 1..o : lines[i] = pre[i]
    BY <2>1 DEF PagePlaces
  <2> DEFINE r == Len(rest)
  <2>3. l \in Nat /\ r \in Nat /\ Len(lines) = o + l + r
    BY <2>2
  <2> HIDE DEF l, r, o, lines
  <2>4. Len(lines) >= o
    BY <1>1, <2>3
  <2> QED BY <2>2, <2>4
<1>4. /\ ItemsAt(lines) \subseteq 1..Len(lines)
      /\ \A i \in ItemsAt(lines) : i > o
      /\ \A p \in 1..l : o + p \in ItemsAt(lines) <=> \E j \in 1..n : p = ends[j - 1] + 1
  BY <1>2, WrittenItems
<1>5. ListEnd(lines) = o + l + 1
  BY <1>2, WrittenBounds
<1>6. /\ ends \in [0..n -> Nat] /\ ends[n] = l
      /\ \A j \in 1..n : ends[j - 1] < ends[j] /\ ends[j] <= l
  <2>1. Len(Blocks(E)) = n
    BY BlocksAreLines
  <2>2. \A j \in 1..n : ends[j - 1] < ends[j]
    BY <1>2, ListStarts
  <2> QED BY <1>2, <2>1, <2>2 DEF Layout
<1>7. \A j, q \in 0..n : j < q => ends[j] < ends[q]
  BY <1>1, <1>6, Ascending
<1> DEFINE g == [k \in 1..n |-> o + ends[k - 1] + 1]
<1>8. ASSUME NEW k \in 1..n
      PROVE  Joined(lines, g[k]) = WordsOf(E[k]) /\ Reads(Joined(lines, g[k])) = {E[k]}
  <2>1. Joined(lines, g[k]) = WordsOf(E[k])
    <3> DEFINE top == o + ends[k - 1] + 1
    <3>1. Joined(lines, Len(pre) + ends[k - 1] + 1) = WordsOf(E[k])
      <4>1. lines = Written(pre, E, epi)
        OBVIOUS
      <4> HIDE DEF lines
      <4> QED BY <1>2, <4>1, WrittenJoined
    <3>2. g[k] = top
      OBVIOUS
    <3> QED BY <3>1, <3>2
  <2>2. E[k] \in Texts /\ Shown[E[k]] = E[k]
    BY DEF Printable
  <2>3. ASSUME NEW e \in Texts, Shown[e] = e, WordsOf(e) = WordsOf(E[k]) PROVE e = E[k]
    <3> DEFINE d == E[k]
    <3>1. d \in Texts /\ Shown[d] = d /\ WordsOf(e) = WordsOf(d)
      BY <2>2, <2>3
    <3> HIDE DEF d
    <3>2. /\ Len(WordsOf(e)) \in Nat \ {0} /\ Len(WordsOf(e)) = Len(WordsOf(d))
          /\ \A i \in 1..Len(WordsOf(e)) : WordsOf(e)[i] = <<ReadAs(e), i>>
          /\ \A i \in 1..Len(WordsOf(d)) : WordsOf(d)[i] = <<ReadAs(d), i>>
      BY <3>1, WrapPuts
    <3>3. 1 \in 1..Len(WordsOf(e)) /\ 1 \in 1..Len(WordsOf(d))
      BY <3>2
    <3>4. <<ReadAs(e), 1>> = <<ReadAs(d), 1>>
      BY <3>1, <3>2, <3>3
    <3>5. ReadAs(e) = e /\ ReadAs(d) = d
      BY <2>3, <3>1 DEF ReadAs
    <3> QED BY <3>4, <3>5 DEF d
  <2> HIDE DEF g
  <2> QED BY <2>1, <2>2, <2>3 DEF Reads
<1> HIDE DEF lines, list, o, l, n
<1>n. l \in Nat
  BY <1>3 DEF l
<1>9. ASSUME NEW k \in 1..n
      PROVE  /\ k - 1 \in 0..n /\ ends[k - 1] \in Nat /\ ends[k - 1] + 1 \in 1..l
             /\ g[k] = o + (ends[k - 1] + 1)
  <2> DEFINE from == ends[k - 1]
             to == ends[k]
  <2>1. k - 1 \in 0..n /\ k \in 0..n
    BY <1>1
  <2>2. from \in Nat /\ to \in Nat /\ from < to /\ to <= l
    BY <1>6, <2>1
  <2>3. g[k] = o + from + 1
    OBVIOUS
  <2> HIDE DEF from, to, g
  <2>4. from + 1 \in 1..l /\ g[k] = o + (from + 1)
    BY <1>1, <1>n, <2>2, <2>3
  <2> QED BY <2>1, <2>2, <2>4 DEF from
<1>10. g \in [1..n -> Int] /\ \A j, k \in 1..n : j < k => g[j] < g[k]
  <2>1. ASSUME NEW k \in 1..n PROVE g[k] \in Int
    <3> DEFINE from == ends[k - 1]
    <3>1. from \in Nat /\ g[k] = o + (from + 1)
      BY <1>9
    <3> HIDE DEF from, g
    <3> QED BY <1>1, <3>1
  <2>2. ASSUME NEW j \in 1..n, NEW k \in 1..n, j < k PROVE g[j] < g[k]
    <3> DEFINE a == ends[j - 1]
               b == ends[k - 1]
    <3>1. a \in Nat /\ b \in Nat /\ g[j] = o + (a + 1) /\ g[k] = o + (b + 1)
      BY <1>9
    <3>2. j - 1 \in 0..n /\ k - 1 \in 0..n /\ j - 1 < k - 1
      BY <1>1, <2>2
    <3>3. a < b
      BY <1>7, <3>2
    <3> HIDE DEF a, b, g
    <3> QED BY <1>1, <3>1, <3>3
  <2>3. g \in [1..n -> Int]
    BY <2>1
  <2> QED BY <2>2, <2>3
<1> HIDE DEF g
<1>11. ListedAt(lines) = {g[k] : k \in 1..n}
  <2>1. ASSUME NEW k \in 1..n PROVE g[k] \in ListedAt(lines)
    <3> DEFINE p == ends[k - 1] + 1
    <3>1. p \in 1..l /\ g[k] = o + p /\ \E j \in 1..n : p = ends[j - 1] + 1
      BY <1>9
    <3> HIDE DEF p
    <3>2. o + p \in ItemsAt(lines) /\ o + p < o + l + 1
      BY <1>1, <1>4, <1>n, <3>1
    <3> QED BY <1>5, <3>1, <3>2 DEF ListedAt
  <2>2. ASSUME NEW i \in ListedAt(lines) PROVE \E k \in 1..n : g[k] = i
    <3>1. i \in ItemsAt(lines) /\ i < o + l + 1 /\ i > o /\ i \in Int
      BY <1>4, <1>5 DEF ListedAt
    <3> DEFINE p == i - o
    <3>2. p \in 1..l /\ o + p = i
      BY <1>1, <1>n, <3>1
    <3> HIDE DEF p
    <3>3. PICK k \in 1..n : p = ends[k - 1] + 1
      BY <1>4, <3>1, <3>2
    <3> QED BY <1>9, <3>2, <3>3
  <2> QED BY <2>1, <2>2
<1>12. InOrder(ListedAt(lines)) = g
  <2>1. InOrder({g[k] : k \in 1..n}) = g
    BY <1>1, <1>10, InOrderIs
  <2> QED BY <1>11, <2>1
<1>13. DOMAIN g = 1..n
  BY <1>10
<1>14. EntriesOf(lines) = E
  <2> DEFINE order == InOrder(ListedAt(lines))
             D == EntriesOf(lines)
  <2>1. D = [k \in DOMAIN order |-> CHOOSE e \in Reads(Joined(lines, order[k])) : TRUE]
    BY DEF EntriesOf
  <2>2. order = g
    BY <1>12
  <2> HIDE DEF order, D
  <2>3. ASSUME NEW k \in 1..n PROVE D[k] = E[k]
    <3>1. Reads(Joined(lines, order[k])) = {E[k]} /\ k \in DOMAIN order
      BY <1>8, <1>13, <2>2
    <3>2. D[k] \in Reads(Joined(lines, order[k]))
      BY <2>1, <3>1
    <3> QED BY <3>1, <3>2
  <2>5. D = [k \in 1..n |-> D[k]]
    BY <2>1, <2>2, <1>13
  <2>4. E = [k \in 1..n |-> E[k]]
    BY DEF n
  <2>6. D = E
    BY <2>3, <2>4, <2>5
  <2> QED BY <2>6 DEF D
<1>15. Loads(lines)
  <2>1. PICK h \in 1..o : pre[h].kind = "heading"
    BY DEF Opens, o
  <2>2. h \in DOMAIN lines /\ lines[h].kind = "heading"
    BY <1>1, <1>3, <2>1
  <2>3. ASSUME NEW i \in ListedAt(lines) PROVE Reads(Joined(lines, i)) # {}
    <3>1. PICK k \in 1..n : i = g[k]
      BY <1>11
    <3> QED BY <1>8, <3>1
  <2> QED BY <2>2, <2>3 DEF Loads
<1> QED BY <1>14, <1>15 DEF lines

\* What stands before the list of a file that loads is where a list may begin.
LEMMA PreambleOpens ==
  ASSUME NEW lines \in Seq(Line), Loads(lines)
  PROVE  /\ Opens(SubSeq(lines, 1, ListFirst(lines) - 1))
         /\ SubSeq(lines, ListEnd(lines), Len(lines)) \in Seq(Line)
<1> DEFINE n == Len(lines)
           first == ListFirst(lines)
           pre == SubSeq(lines, 1, first - 1)
           items == ItemsAt(lines)
           starts == IF items # {} THEN items
                     ELSE {i \in Under(lines) : lines[i].kind = "title"} \cup {n + 1}
<1>1. /\ n \in Nat /\ DOMAIN lines = 1..n /\ first \in 1..(n + 1) /\ ListEnd(lines) \in 1..(n + 1)
      /\ Under(lines) \subseteq 1..n
  BY ListBounds
<1>2. items \subseteq Under(lines)
  BY DEF ItemsAt
<1>3. first = Least(starts)
  BY DEF ListFirst
<1>4. starts \subseteq Nat /\ starts # {}
  <2> HIDE DEF n, items
  <2> QED BY <1>1, <1>2
<1>5. first \in starts /\ \A i \in items : first <= i
  <2>1. first \in starts
    <3> HIDE DEF starts, first
    <3> QED BY <1>3, <1>4, LeastIsOne
  <2>2. \A i \in starts : first <= i
    <3> HIDE DEF starts, first
    <3> QED BY <1>3, <1>4, LeastElement DEF Least
  <2> QED BY <2>1, <2>2
<1>6. \E h \in 1..(first - 1) : lines[h].kind = "heading"
  <2>1. CASE first \in Under(lines)
    BY <2>1 DEF Under
  <2>2. CASE first = n + 1
    <3>1. PICK h \in 1..n : lines[h].kind = "heading"
      BY <1>1 DEF Loads
    <3>2. h \in 1..(first - 1)
      BY <1>1, <2>2
    <3> QED BY <3>1, <3>2
  <2> HIDE DEF first, n
  <2> QED BY <1>2, <1>5, <2>1, <2>2
<1> HIDE DEF starts, items, first, n
<1>7. pre \in Seq(Line) /\ Len(pre) = first - 1 /\ \A i \in 1..(first - 1) : pre[i] = lines[i]
  <2> DEFINE last == first - 1
             one == 1
  <2>1. one \in Int /\ one >= 1 /\ last \in Int /\ last <= Len(lines) /\ last \in Nat
    BY <1>1 DEF n
  <2>2. \A i \in 1..last : lines[i] \in Line
    BY <1>1 DEF n
  <2>3. pre \in Seq(Line)
    <3> HIDE DEF last, one
    <3>1. SubSeq(lines, one, last) \in Seq(Line)
      BY <2>1, PartOfSequence
    <3> QED BY <3>1 DEF one, last
  <2>4. Len(pre) = last /\ \A i \in 1..last : pre[i] = lines[i]
    <3> HIDE DEF last
    <3>1. /\ Len(SubSeq(lines, 1, last)) = IF 1 <= last THEN last - 1 + 1 ELSE 0
          /\ \A i \in 1..(last - 1 + 1) : SubSeq(lines, 1, last)[i] = lines[1 + i - 1]
      BY <2>1, <2>2, SubSeqProperties
    <3>2. pre = SubSeq(lines, 1, last)
      BY DEF last
    <3> HIDE DEF pre
    <3>3. Len(pre) = last
      BY <2>1, <3>1, <3>2
    <3>4. ASSUME NEW i \in 1..last PROVE pre[i] = lines[i]
      <4>1. i \in 1..(last - 1 + 1) /\ 1 + i - 1 = i
        BY <2>1
      <4>2. pre[i] = lines[1 + i - 1]
        BY <3>1, <3>2, <4>1
      <4> QED BY <4>1, <4>2
    <3> QED BY <3>3, <3>4
  <2> QED BY <2>3, <2>4
<1> HIDE DEF pre
<1>8. ASSUME NEW i \in 1..Len(pre), OpensItem(pre[i]), NEW h \in 1..(i - 1),
             pre[h].kind = "heading"
      PROVE  FALSE
  <2>1. i \in 1..(first - 1) /\ h \in 1..(first - 1) /\ i \in 1..n
    BY <1>1, <1>7
  <2>2. OpensItem(lines[i]) /\ lines[h].kind = "heading"
    BY <1>7, <1>8, <2>1
  <2>3. i \in items
    BY <1>1, <2>1, <2>2 DEF items, ItemsAt, Under
  <2>4. first <= i
    BY <1>5, <2>3
  <2> QED BY <1>1, <2>1, <2>4
<1>9. Opens(pre)
  BY <1>6, <1>7, <1>8 DEF Opens
<1>10. SubSeq(lines, ListEnd(lines), Len(lines)) \in Seq(Line)
  <2>1. ListEnd(lines) \in Int /\ ListEnd(lines) >= 1 /\ Len(lines) \in Int
        /\ Len(lines) <= Len(lines)
    BY <1>1 DEF n
  <2> QED BY <2>1, PartOfSequence
<1> QED BY <1>9, <1>10 DEF pre, first

\* A file with no entry is its prose.
LEMMA NothingListed ==
  ASSUME NEW lines \in Seq(Line), EntriesOf(lines) = <<>>
  PROVE  Render(Parse(lines)) = lines
<1> DEFINE n == Len(lines)
           first == ListFirst(lines)
           items == ItemsAt(lines)
<1>1. n \in Nat /\ first \in 1..(n + 1) /\ ListEnd(lines) \in 1..(n + 1) /\ items \subseteq 1..n
      /\ ListedAt(lines) \subseteq 1..n
  BY ListBounds DEF ItemsAt
<1>2. ListedAt(lines) = {}
  <2> DEFINE places == ListedAt(lines)
             order == InOrder(places)
             D == EntriesOf(lines)
  <2>1. IsFiniteSet(1..n)
    BY <1>1, FS_Interval
  <2>2. places \subseteq Int /\ IsFiniteSet(places)
    <3>1. places \subseteq 1..n /\ n \in Nat
      BY <1>1
    <3> HIDE DEF places
    <3>2. IsFiniteSet(places)
      BY <2>1, <3>1, FS_Subset
    <3>3. 1..n \subseteq Int
      OBVIOUS
    <3> QED BY <3>1, <3>2, <3>3
  <2>3. D = [k \in DOMAIN order |-> CHOOSE e \in Reads(Joined(lines, order[k])) : TRUE]
    BY DEF EntriesOf
  <2>4. DOMAIN D = {}
    OBVIOUS
  <2> HIDE DEF places, D
  <2>5. \A i \in places : \E k \in 1..Cardinality(places) : order[k] = i
    BY <2>2, InOrderOnto
  <2>6. DOMAIN order = 1..Cardinality(places)
    BY DEF InOrder
  <2>7. DOMAIN order = {}
    <3> HIDE DEF order
    <3> QED BY <2>3, <2>4
  <2> HIDE DEF order
  <2> QED BY <2>5, <2>6, <2>7 DEF places
<1>3. items = {}
  <2> SUFFICES ASSUME items # {} PROVE FALSE
    OBVIOUS
  <2> DEFINE T == {i \in first..n : ~OpensItem(lines[i]) /\ lines[i].kind # "more"} \cup {n + 1}
             end == ListEnd(lines)
  <2>1. first = Least(items) /\ end = Least(T)
    BY DEF ListFirst, ListEnd
  <2>2. items \subseteq Nat /\ T \subseteq Nat /\ T # {}
    <3> HIDE DEF n, first, items
    <3> QED BY <1>1
  <2> HIDE DEF T, end, first, items
  <2>3. first \in items
    BY <2>1, <2>2, LeastIsOne
  <2>4. end \in T
    BY <2>1, <2>2, LeastIsOne
  <2>5. OpensItem(lines[first])
    BY <2>3 DEF items, ItemsAt
  <2>6. first # end
    <3>1. first # n + 1
      BY <1>1, <2>3
    <3> QED BY <2>4, <2>5, <3>1 DEF T
  <2>7. first < end
    BY <1>1, <2>4, <2>6 DEF T
  <2>8. first \in ListedAt(lines)
    BY <2>3, <2>7 DEF ListedAt, items, end
  <2> QED BY <1>2, <2>8
<1>4. ListEnd(lines) = first
  BY <1>3 DEF ListEnd
<1> DEFINE pre == SubSeq(lines, 1, first - 1)
           epi == SubSeq(lines, first, n)
<1>5. Parse(lines) = [preamble |-> pre, entries |-> <<>>, epilogue |-> epi]
  BY <1>4 DEF Parse
<1>6. pre \o epi = lines
  <2> DEFINE k == first - 1
             one == 1
  <2>1. /\ one \in 1..(Len(lines) + 1) /\ k \in (one - 1)..Len(lines) /\ n \in k..Len(lines)
        /\ k + 1 = first
    BY <1>1
  <2> HIDE DEF first, k, one, n
  <2>2. SubSeq(lines, one, k) \o SubSeq(lines, k + 1, n) = SubSeq(lines, one, n)
    BY <2>1, ConcatAdjacentSubSeq
  <2>3. SubSeq(lines, one, n) = lines
    BY SubSeqFull DEF one, n
  <2> QED BY <2>1, <2>2, <2>3 DEF k, one
<1> HIDE DEF first
<1>7. pre \in Seq(Line) /\ epi \in Seq(Line)
  <2>1. 1 \in Int /\ 1 >= 1 /\ first - 1 \in Int /\ first - 1 <= Len(lines)
        /\ first \in Int /\ first >= 1 /\ n \in Int /\ n <= Len(lines)
    BY <1>1
  <2> HIDE DEF n
  <2> QED BY <2>1, PartOfSequence
<1> HIDE DEF pre, epi
<1>8. Render(Parse(lines)) = ((pre \o FlattenSeq(Blocks(<<>>))) \o <<>>) \o epi
  BY <1>5 DEF Render, Blocks
<1>9. FlattenSeq(Blocks(<<>>)) = <<>>
  BY DEF Blocks, FlattenSeq
<1>10. (pre \o <<>>) \o <<>> = pre
  BY <1>7, ConcatSimplifications
<1> QED BY <1>6, <1>8, <1>9, <1>10

\* A page that was written parses as what it was written from, but for the
\* blank line that keeps the list and the prose apart.
LEMMA WrittenParses ==
  ASSUME NEW E \in Seq(Texts), E # <<>>, Printable(E), NEW pre, Opens(pre), NEW epi \in Seq(Line)
  PROVE  /\ Parse(Written(pre, E, epi))
              = [preamble |-> pre, entries |-> E, epilogue |-> Gap(E, epi) \o epi]
         /\ Render(Parse(Written(pre, E, epi))) = Written(pre, E, epi)
<1> DEFINE lines == Written(pre, E, epi)
           list == FlattenSeq(Blocks(E))
           rest == Gap(E, epi) \o epi
           o == Len(pre)
           l == Len(list)
           r == Len(rest)
<1>1. pre \in Seq(Line) /\ o \in Nat
  BY DEF Opens
<1>2. PICK ends : Layout(ends, Blocks(E))
  <2>1. Blocks(E) \in Seq(Seq(Line))
    BY BlocksAreLines
  <2> QED BY <2>1, FlattenLayout
<1>3. ListFirst(lines) = o + 1 /\ ListEnd(lines) = o + l + 1
  BY <1>2, WrittenBounds
<1>4. /\ list \in Seq(Line) /\ rest \in Seq(Line) /\ lines = (pre \o list) \o rest
      /\ Len(lines) = o + l + r
      /\ rest # <<>> => rest[1].kind = "blank"
  <2>1. PagePlaces(pre, E, epi)
    BY <1>1, WrittenPlaces
  <2> QED BY <2>1 DEF PagePlaces
<1>5. Loads(lines) /\ EntriesOf(lines) = E
  BY WrittenReads
<1>r. rest = Gap(E, epi) \o epi
  OBVIOUS
<1> HIDE DEF list, rest, lines
<1>n. l \in Nat /\ r \in Nat
  BY <1>4
<1>6. SubSeq(lines, 1, o) = pre /\ SubSeq(lines, o + l + 1, o + l + r) = rest
  <2> DEFINE both == pre \o list
  <2>1. both \in Seq(Line) /\ Len(both) = o + l /\ lines = both \o rest
    BY <1>1, <1>4, ConcatProperties
  <2>2. SubSeq(both, 1, o) = pre
    BY <1>1, <1>4, ConcatSimplifications
  <2> HIDE DEF both
  <2>3. SubSeq(lines, o + l + 1, o + l + r) = rest
    <3>1. SubSeq(both \o rest, Len(both) + 1, Len(both) + Len(rest)) = rest
      BY <1>4, <2>1
    <3> QED BY <2>1, <3>1
  <2>4. SubSeq(lines, 1, o) = pre
    <3> DEFINE more == list \o rest
    <3>1. more \in Seq(Line) /\ lines = pre \o more
      <4>1. pre \in Seq(Line) /\ list \in Seq(Line) /\ rest \in Seq(Line)
        BY <1>1, <1>4
      <4>2. list \o rest \in Seq(Line) /\ (pre \o list) \o rest = pre \o (list \o rest)
        BY <4>1
      <4> QED BY <1>4, <4>2
    <3> HIDE DEF more
    <3>2. SubSeq(pre \o more, 1, Len(pre)) = pre
      BY <1>1, <3>1
    <3> QED BY <3>1, <3>2
  <2> QED BY <2>3, <2>4
<1>7. Parse(lines) = [preamble |-> pre, entries |-> E, epilogue |-> rest]
  <2> HIDE DEF o, l, r
  <2>1. ListFirst(lines) - 1 = o
    BY <1>1, <1>3
  <2> QED BY <1>3, <1>4, <1>5, <1>6, <2>1 DEF Parse
<1>8. Render(Parse(lines)) = lines
  <2>1. ~(rest # <<>> /\ Head(rest).kind # "blank")
    BY <1>4
  <2>2. Gap(E, rest) = <<>>
    BY <2>1 DEF Gap
  <2>3. Render(Parse(lines)) = Written(pre, E, rest)
    BY <1>7 DEF Written
  <2>4. Written(pre, E, rest) = ((pre \o list) \o <<>>) \o rest
    <3>1. Written(pre, E, rest)
            = ((pre \o FlattenSeq(Blocks(E))) \o Gap(E, rest)) \o rest
      BY <1>1, <1>4, WrittenLines
    <3> QED BY <2>2, <3>1 DEF list
  <2>5. (pre \o list) \o <<>> = pre \o list
    <3>1. pre \o list \in Seq(Line)
      BY <1>1, <1>4, ConcatProperties
    <3> QED BY <3>1, ConcatSimplifications
  <2> QED BY <1>4, <2>3, <2>4, <2>5
<1> QED BY <1>7, <1>8, <1>r DEF lines

\* What one write makes of the page.
Settled ==
  /\ Loads(file')
  /\ Parse(file').entries = Projected(Parse(file)).entries
  /\ Parse(file').preamble = Parse(file).preamble
  /\ Parse(file').epilogue \in {Parse(file).epilogue, <<Plain("blank")>> \o Parse(file).epilogue}
  /\ Render(Parse(file')) = file'

\* A write of a page of lines settles.
LEMMA TypedWriteSettles ==
  ASSUME PageTyped, Write, Printable(Projected(Parse(file)).entries)
  PROVE  /\ Settled
         /\ ObservablesOf(EntriesOf(file)) \subseteq ObservablesOf(EntriesOf(file'))
<1> DEFINE pre == SubSeq(file, 1, ListFirst(file) - 1)
           epi == SubSeq(file, ListEnd(file), Len(file))
           D == IF HasRecord THEN RecordedHere ELSE EntriesOf(file)
           E == EntriesOf(file)
           new == file'
<1>1. file \in Seq(Line) /\ declines \in Seq(Texts \cup {Foreign}) /\ Loads(file)
  BY DEF PageTyped, Write
<1>2. Opens(pre) /\ epi \in Seq(Line)
  BY <1>1, PreambleOpens
<1>3. D \in Seq(Texts) /\ E \in Seq(Texts)
  BY <1>1, RecordedTexts, ListedRead
<1>4. Parse(file) = [preamble |-> pre, entries |-> E, epilogue |-> epi]
  BY DEF Parse
<1>5. ObservablesOf(E) \subseteq ObservablesOf(D)
  BY <1>4 DEF Write, Unrecorded
<1>d. HasRecord => D = RecordedHere
  OBVIOUS
<1>e. ~HasRecord => D = E
  OBVIOUS
<1> HIDE DEF pre, epi, E
<1> HIDE DEF D
<1>6. Projected(Parse(file)) = [preamble |-> pre, entries |-> D, epilogue |-> epi]
  <2>1. CASE HasRecord
    BY <1>4, <1>d, <2>1 DEF Projected
  <2>2. CASE ~HasRecord
    BY <1>4, <1>e, <2>2 DEF Projected
  <2> QED BY <2>1, <2>2
<1>7. new = Written(pre, D, epi) /\ new = Render(Projected(Parse(file)))
  BY <1>6 DEF Write, Written
<1>8. Printable(D)
  BY <1>6
<1> HIDE DEF new
<1>9. CASE D # <<>>
  <2>1. /\ Parse(new) = [preamble |-> pre, entries |-> D, epilogue |-> Gap(D, epi) \o epi]
        /\ Render(Parse(new)) = new
    <3>1. /\ Parse(Written(pre, D, epi))
               = [preamble |-> pre, entries |-> D, epilogue |-> Gap(D, epi) \o epi]
          /\ Render(Parse(Written(pre, D, epi))) = Written(pre, D, epi)
      BY <1>2, <1>3, <1>8, <1>9, WrittenParses
    <3> QED BY <1>7, <3>1
  <2>2. Loads(new) /\ EntriesOf(new) = D
    BY <1>2, <1>3, <1>7, <1>8, <1>9, WrittenReads
  <2>3. Gap(D, epi) \o epi \in {epi, <<Plain("blank")>> \o epi}
    <3>1. <<>> \o epi = epi
      BY <1>2, ConcatSimplifications
    <3> QED BY <3>1 DEF Gap
  <2>4. Settled
    BY <1>4, <1>6, <2>1, <2>2, <2>3 DEF Settled, new
  <2> QED BY <1>5, <2>2, <2>4 DEF new, E
<1>10. CASE D = <<>>
  <2>1. E = <<>>
    <3> SUFFICES ASSUME E # <<>> PROVE FALSE
      OBVIOUS
    <3>1. 1 \in DOMAIN E
      BY <1>3
    <3>2. Observable[E[1]] \in ObservablesOf(E)
      BY <3>1 DEF ObservablesOf
    <3>3. ObservablesOf(D) = {}
      BY <1>10 DEF ObservablesOf
    <3> QED BY <1>5, <3>2, <3>3
  <2>2. Render(Parse(file)) = file
    BY <1>1, <2>1, NothingListed DEF E
  <2>3. new = file
    BY <1>4, <1>6, <1>7, <1>10, <2>1, <2>2
  <2>4. Settled
    BY <1>1, <1>4, <1>6, <1>10, <2>1, <2>2, <2>3 DEF Settled, new
  <2> QED BY <2>3, <2>4 DEF new
<1> QED BY <1>9, <1>10

\* boundary -write, for all texts, widths, files and edits: a page written for
\* entries that are Printable reads back as its prose and those entries, and
\* writing it again leaves it as it is.
THEOREM WrittenPageSettles == PageSpec => WriteSettles
<1>1. PageTyped =>
        LET had == Parse(file) now == Parse(file')
        IN  Write /\ Printable(Projected(had).entries) =>
              /\ Loads(file')
              /\ now.entries = Projected(had).entries
              /\ now.preamble = had.preamble
              /\ now.epilogue \in {had.epilogue, <<Plain("blank")>> \o had.epilogue}
              /\ Render(now) = file'
  BY TypedWriteSettles DEF Settled
<1> QED BY <1>1, InitPageTyped, NextPageTyped, PTL DEF PageSpec, WriteSettles

\* boundary -write: no write for entries that are Printable takes an
\* observable off the page, so nothing stops being a promise by accident.
THEOREM NothingIsUnpublished == PageSpec => NoPromiseByAccident
<1>1. PageTyped =>
        (Write /\ Printable(Projected(Parse(file)).entries) =>
           ObservablesOf(EntriesOf(file)) \subseteq ObservablesOf(EntriesOf(file')))
  BY TypedWriteSettles
<1> QED BY <1>1, InitPageTyped, NextPageTyped, PTL DEF PageSpec, NoPromiseByAccident

-----------------------------------------------------------------------------
(***************************************************************************)
(* The project.                                                            *)
(***************************************************************************)

\* The memories of a record are a sequence.
LEMMA MemoriesAreSequence ==
  ASSUME NEW r \in Records
  PROVE  \E S : Memories(r) \in Seq(S)
<1> DEFINE S == UNION {Range(f.decls) : f \in Range(r)}
           read == FilesRead(r)
           parts == [i \in DOMAIN read |-> MemoriesOf(read[i])]
<1>1. r \in Seq(Range(r)) /\ \A f \in Range(r) : f.decls \in Seq(Range(f.decls))
  BY ShapesAssumption
<1>2. ASSUME NEW f \in Range(r) PROVE MemoriesOf(f) \in Seq(S)
  <2> DEFINE places == {i \in DOMAIN f.decls : f.decls[i].exported}
  <2>1. f.decls \in Seq(S)
    BY <1>1
  <2>2. places \in SUBSET DOMAIN f.decls
    OBVIOUS
  <2>3. {f.decls[i] : i \in places} \subseteq S
    BY <2>1, <2>2
  <2>4. Picked(f.decls, places) \in Seq({f.decls[i] : i \in places})
    <3> HIDE DEF places, S
    <3> QED BY <2>1, <2>2, PickedIsPart
  <2>5. Picked(f.decls, places) \in Seq(S)
    <3> HIDE DEF places, S
    <3> QED BY <2>3, <2>4
  <2> QED BY <2>5 DEF MemoriesOf
<1>3. read \in Seq(Range(r))
  <2> DEFINE places == {i \in DOMAIN r : ~r[i].test}
  <2>1. places \in SUBSET DOMAIN r
    OBVIOUS
  <2>2. {r[i] : i \in places} \subseteq Range(r)
    BY DEF Range
  <2>3. Picked(r, places) \in Seq({r[i] : i \in places})
    <3> HIDE DEF places
    <3> QED BY <1>1, <2>1, PickedIsPart
  <2>4. Picked(r, places) \in Seq(Range(r))
    <3> HIDE DEF places
    <3> QED BY <2>2, <2>3
  <2> QED BY <2>4 DEF FilesRead
<1>4. parts \in Seq(Seq(S))
  <2> HIDE DEF S, read
  <2>1. DOMAIN read = 1..Len(read) /\ Len(read) \in Nat
    BY <1>3
  <2>2. parts \in [1..Len(read) -> Seq(S)]
    BY <1>2, <1>3, <2>1
  <2> QED BY <2>1, <2>2, SeqDef
<1>5. FlattenSeq(parts) \in Seq(S)
  <2> HIDE DEF S, parts
  <2>1. PICK joined \in [0..Len(parts) -> Seq(S)] : FlattenSeq(parts) = joined[Len(parts)]
    BY <1>4, FlattenJoins
  <2> QED BY <2>1, <1>4
<1>6. Memories(r) \in Seq(S)
  BY <1>5 DEF Memories
<1> QED BY <1>6

\* Every decline of a record is among those it is read for.
LEMMA DeclinesHaveAll ==
  ASSUME NEW r \in Records
  PROVE  /\ \E S : Declines(r) \in Seq(S)
         /\ \A decl \in Range(Memories(r)) :
               IsDecline(decl) => DeclineOf(decl) \in Range(Declines(r))
<1> DEFINE all == Memories(r)
           places == {i \in DOMAIN all : IsDecline(all[i])}
           them == Picked(all, places)
<1>1. PICK S : all \in Seq(S)
  BY MemoriesAreSequence
<1>2. /\ them \in Seq({all[i] : i \in places})
      /\ \A i \in places : \E k \in DOMAIN them : them[k] = all[i]
  <2>1. places \in SUBSET DOMAIN all
    OBVIOUS
  <2> HIDE DEF all, places
  <2> QED BY <1>1, <2>1, PickedIsPart
<1>3. Declines(r) = [i \in DOMAIN them |-> DeclineOf(them[i])]
  BY DEF Declines
<1> HIDE DEF them
<1>4. Declines(r) \in Seq({DeclineOf(them[i]) : i \in DOMAIN them})
  <2>1. DOMAIN them = 1..Len(them) /\ Len(them) \in Nat
    BY <1>2
  <2>2. Declines(r) \in [1..Len(them) -> {DeclineOf(them[i]) : i \in DOMAIN them}]
    BY <1>3, <2>1
  <2> QED BY <2>1, <2>2, SeqDef
<1>5. ASSUME NEW decl \in Range(all), IsDecline(decl)
      PROVE  DeclineOf(decl) \in Range(Declines(r))
  <2>1. PICK i \in DOMAIN all : all[i] = decl
    BY DEF Range
  <2>2. i \in places
    BY <1>5, <2>1
  <2>3. PICK k \in DOMAIN them : them[k] = decl
    BY <1>2, <2>1, <2>2
  <2>4. k \in DOMAIN Declines(r) /\ Declines(r)[k] = DeclineOf(decl)
    BY <1>3, <2>3
  <2> QED BY <2>4 DEF Range
<1> QED BY <1>4, <1>5

\* What a record declines for a system is among the entries it gives it.
LEMMA RecordedHasAll ==
  ASSUME NEW p, NEW where, where.dir \in Records, NEW d \in Range(Declines(where.dir)),
         d.system = <<p.system>>
  PROVE  Published(d) \in Range(RecordedEntries(p, where))
<1> DEFINE all == Declines(where.dir)
           places == {i \in DOMAIN all : all[i].system = <<p.system>>}
           mine == Picked(all, places)
<1>1. PICK S : all \in Seq(S)
  BY DeclinesHaveAll
<1>2. PICK i \in places : all[i] = d
  BY DEF Range
<1>3. PICK k \in DOMAIN mine : mine[k] = d
  <2>1. places \in SUBSET DOMAIN all
    OBVIOUS
  <2> HIDE DEF all, places
  <2> QED BY <1>1, <1>2, <2>1, PickedIsPart
<1>4. RecordedEntries(p, where) = [j \in DOMAIN mine |-> Published(mine[j])]
  BY DEF RecordedEntries, ForSystem
<1> HIDE DEF mine
<1> QED BY <1>3, <1>4 DEF Range

\* A record that declines nothing has no entry for anybody.
LEMMA NothingRecorded ==
  ASSUME NEW p, NEW where, Declines(where.dir) = <<>>
  PROVE  RecordedEntries(p, where) = <<>>
<1>1. ForSystem(p, <<>>) = Picked(<<>>, {})
  BY DEF ForSystem
<1>2. Cardinality({}) = 0
  BY FS_EmptySet
<1>3. DOMAIN Picked(<<>>, {}) = {}
  BY <1>2 DEF Picked
<1> QED BY <1>1, <1>3 DEF RecordedEntries

\* A tree has its four parts, and where a record can be there is one or none.
IsTree(t) ==
  /\ t = [doc |-> t.doc, own |-> t.own, data |-> t.data, manifest |-> t.manifest]
  /\ t.own \in Records \cup {NoRecord}

Shaped == IsTree(tree) /\ IsTree(head) /\ shared \in Records \cup {NoRecord}

\* The first trees have their shape.
LEMMA InitShaped == Init => Shaped
  BY ShapesAssumption DEF Init, Shaped, IsTree

\* A step leaves the trees their shape.
LEMMA NextShaped == Shaped /\ [Next]_vars => Shaped'
<1> SUFFICES ASSUME Shaped, [Next]_vars PROVE Shaped'
  OBVIOUS
<1> USE DEF Shaped
<1>1. ASSUME NEW now, Change(now), IsTree(now) PROVE Shaped'
  BY <1>1 DEF Change
<1>2. CASE EditDocument
  <2>1. ASSUME NEW e, Change([tree EXCEPT !.doc = Append(@, e)]) PROVE Shaped'
    <3>1. IsTree([tree EXCEPT !.doc = Append(@, e)])
      BY DEF IsTree
    <3> QED BY <1>1, <2>1, <3>1
  <2>2. ASSUME NEW i, Change([tree EXCEPT !.doc = RemoveAt(@, i)]) PROVE Shaped'
    <3>1. IsTree([tree EXCEPT !.doc = RemoveAt(@, i)])
      BY DEF IsTree
    <3> QED BY <1>1, <2>2, <3>1
  <2> QED BY <1>2, <2>1, <2>2 DEF EditDocument
<1>3. CASE WriteBoundary
  <2>1. PICK written : Change([tree EXCEPT !.doc = written])
    BY <1>3 DEF WriteBoundary
  <2>2. IsTree([tree EXCEPT !.doc = written])
    BY DEF IsTree
  <2> QED BY <1>1, <2>1, <2>2
<1>4. CASE EditOwn
  <2>1. PICK r \in Records \cup {NoRecord} : Change([tree EXCEPT !.own = r])
    BY <1>4 DEF EditOwn
  <2>2. IsTree([tree EXCEPT !.own = r])
    BY DEF IsTree
  <2> QED BY <1>1, <2>1, <2>2
<1>5. ASSUME NEW h \in Hashes, Record(h) PROVE Shaped'
  <2> DEFINE written == [tree EXCEPT !.manifest = Recorded(@, h, 0)]
             both == [tree EXCEPT !.manifest = Recorded(@, h, 0), !.data = @ \cup {h}]
  <2>1. IsTree(written)
    BY DEF IsTree
  <2>2. both = [written EXCEPT !.data = tree.data \cup {h}]
    OBVIOUS
  <2> HIDE DEF written, both
  <2>3. IsTree(both)
    BY <2>1, <2>2 DEF IsTree
  <2>4. Change(both)
    BY <1>5 DEF Record, both
  <2> QED BY <1>1, <2>3, <2>4
<1>6. ASSUME NEW h \in Hashes, LoseData(h) PROVE Shaped'
  <2>1. IsTree([tree EXCEPT !.data = @ \ {h}])
    BY DEF IsTree
  <2> QED BY <1>1, <1>6, <2>1 DEF LoseData
<1>7. ASSUME NEW i, NEW r, Retire(i, r) PROVE Shaped'
  <2> DEFINE over == [tree EXCEPT !.manifest.inputs[i].status = "retired"]
             both == [tree EXCEPT !.manifest.inputs[i].status = "retired",
                                  !.manifest.inputs[i].retired = r]
  <2>1. IsTree(over)
    BY DEF IsTree
  <2>2. both = [over EXCEPT !.manifest.inputs[i].retired = r]
    OBVIOUS
  <2> HIDE DEF over, both
  <2>3. IsTree(both)
    BY <2>1, <2>2 DEF IsTree
  <2>4. Change(both)
    BY <1>7 DEF Retire, both
  <2> QED BY <1>1, <2>3, <2>4
<1>8. CASE EditShared
  BY <1>8 DEF EditShared
<1>9. CASE Configure \/ Rename \/ Commit
  BY <1>9 DEF Configure, Rename, Commit
<1>10. CASE UNCHANGED vars
  BY <1>10 DEF vars
<1> QED BY <1>2, <1>3, <1>4, <1>5, <1>6, <1>7, <1>8, <1>9, <1>10 DEF Next

\* A clone has the record of the tree it was taken of, or no record at all.
LEMMA ShapedCloneStaysGreen == Shaped => CloneStaysGreen
<1> SUFFICES ASSUME Shaped, Green(Here, "none"), Tracked(tree) = Tracked(head)
             PROVE  Green(Clone, "none")
  BY DEF CloneStaysGreen
<1> DEFINE copy == Tracked(head)
<1>1. /\ copy.doc = tree.doc /\ copy.manifest = tree.manifest
      /\ head.manifest = tree.manifest
      /\ copy.own = (IF tree.own = <<>> THEN NoRecord ELSE tree.own)
      /\ copy.data = (IF tracksData THEN tree.data ELSE {})
  BY DEF Shaped, IsTree, Tracked
<1>2. /\ Here.system = system /\ Here.tree = tree /\ Here.head = head
      /\ Clone.system = system /\ Clone.tree = copy /\ Clone.head = copy
      /\ Clone.config = Unset
  BY DEF Here, Clone, Project
<1> HIDE DEF copy
<1> DEFINE from == StoreOf(Here, "none")
           to == StoreOf(Clone, "none")
<1>3. /\ DocumentValid(tree.doc) /\ BoundaryAgrees(Here, from)
      /\ Validate(tree.manifest) /\ VerifyAppendOnly(tree.manifest, tree.manifest)
      /\ InputsPresent(Here) /\ CitationsResolve(Here, from)
  BY <1>1, <1>2 DEF Green
<1>4. to = NoStore \/ to = from
  BY <1>1, <1>2 DEF StoreOf, NoStore
<1>5. ASSUME NEW where PROVE
      /\ RecordedFails(Clone, where) <=> RecordedFails(Here, where)
      /\ RecordedEntries(Clone, where) = RecordedEntries(Here, where)
  BY <1>2 DEF RecordedFails, RecordedEntries, ForSystem
<1>6. BoundaryAgrees(Clone, to)
  <2>1. CASE to = NoStore
    BY <2>1 DEF BoundaryAgrees, Unprojectable, Sourced
  <2>2. CASE to = from
    <3> HIDE DEF from, to
    <3> QED BY <1>1, <1>2, <1>3, <1>5, <2>2 DEF BoundaryAgrees, Unprojectable, Sourced
  <2> QED BY <1>4, <2>1, <2>2
<1>7. CitationsResolve(Clone, to)
  <2>1. Cited(Clone) = Cited(Here)
    BY <1>1, <1>2 DEF Cited
  <2> HIDE DEF from, to
  <2> QED BY <1>3, <1>4, <2>1 DEF CitationsResolve
<1>8. InputsPresent(Clone)
  BY <1>1, <1>2, <1>3 DEF InputsPresent
<1> QED BY <1>1, <1>2, <1>3, <1>6, <1>7, <1>8 DEF Green

\* A green check has seen every decline of the record on the page.
LEMMA ShapedNothingDeclined == Shaped => NothingDeclinedIsUnpublished
<1> DEFINE where == StoreOf(Here, "none")
<1> SUFFICES ASSUME Shaped, Green(Here, "none"), where.dir # Unset,
                    NEW decl \in Range(Memories(where.dir)), IsDecline(decl)
             PROVE  \/ Published(DeclineOf(decl)) \in Range(tree.doc)
                    \/ /\ tree.own = NoRecord
                       /\ DeclineOf(decl).system \notin {<<>>, <<system>>}
  BY DEF NothingDeclinedIsUnpublished
<1> DEFINE d == DeclineOf(decl)
<1>1. Here.system = system /\ Here.tree = tree
      /\ Here.config = IF configured THEN shared ELSE Unset
  BY DEF Here, Project
<1>2. where # NoStore /\ BoundaryAgrees(Here, where)
  BY DEF Green, NoStore
<1>3. ~RecordedFails(Here, where)
  <2> HIDE DEF where
  <2> QED BY <1>2 DEF BoundaryAgrees, Unprojectable
<1>4. where.dir # NoRecord /\ ~LoadFails(where.dir)
  <2> HIDE DEF where
  <2> QED BY <1>3 DEF RecordedFails, StoreFails
<1>5. where.dir \in Records /\ (tree.own # NoRecord => where.own)
  BY <1>1, <1>4 DEF StoreOf, Shaped, IsTree
<1> HIDE DEF where
<1>6. decl \in Range(Memories(where.dir))
  OBVIOUS
<1>7. d \in Range(Declines(where.dir)) /\ d.system # <<>>
  BY <1>4, <1>5, <1>6, DeclinesHaveAll DEF LoadFails, Incomplete
<1> HIDE DEF d
<1>8. Declines(where.dir) # <<>>
  BY <1>7 DEF Range
<1>9. tree.doc = RecordedEntries(Here, where)
  BY <1>1, <1>2, <1>3, <1>8 DEF BoundaryAgrees, Sourced
<1>10. CASE d.system = <<system>>
  BY <1>1, <1>5, <1>7, <1>9, <1>10, RecordedHasAll DEF d
<1>11. CASE d.system # <<system>>
  <2>1. ~where.own
    BY <1>1, <1>3, <1>7, <1>11 DEF RecordedFails
  <2> QED BY <1>5, <1>7, <1>11, <2>1 DEF d
<1> QED BY <1>10, <1>11

\* Under either name the list would be the record's part for that name, and the
\* record declines something for somebody.
LEMMA TwoNames ==
  ASSUME NEW p, NEW q, NEW where, p.tree = q.tree, where # NoStore,
         BoundaryAgrees(p, where), BoundaryAgrees(q, where),
         RecordedEntries(p, where) # <<>>
  PROVE  RecordedEntries(q, where) # <<>>
<1>1. Declines(where.dir) # <<>>
  BY NothingRecorded
<1>2. Sourced(p, where) /\ Sourced(q, where)
  BY <1>1 DEF BoundaryAgrees, Unprojectable, Sourced
<1>3. p.tree.doc = RecordedEntries(p, where) /\ q.tree.doc = RecordedEntries(q, where)
  BY <1>2 DEF BoundaryAgrees
<1> QED BY <1>3

\* What is green in the place it was committed from is green in a clone, for
\* every record, every tree and every name.
THEOREM CloneIsGreen == Spec => []CloneStaysGreen
  BY InitShaped, NextShaped, ShapedCloneStaysGreen, PTL DEF Spec

\* A green check with the record the project ships, or with the one git config
\* names, leaves no decline that is read from it unpublished; the second may
\* have those of other systems.
THEOREM DeclinedIsPublished == Spec => []NothingDeclinedIsUnpublished
  BY InitShaped, NextShaped, ShapedNothingDeclined, PTL DEF Spec

\* A directory renamed away from its declines is red.
THEOREM RenameFailsLoudly == Spec => RenameIsLoud
<1> DEFINE before == StoreOf(Here, "none")
           after == StoreOf(Here', "none")
           Loud == /\ Rename /\ Green(Here, "none") /\ before # NoStore
                   /\ RecordedEntries(Here, before) # <<>>
                   /\ RecordedEntries(Here', after) = <<>>
                   => ~Green(Here', "none")
<1>1. Loud
  <2> SUFFICES ASSUME Rename, Green(Here, "none"), before # NoStore,
                      RecordedEntries(Here, before) # <<>>, Green(Here', "none")
               PROVE  RecordedEntries(Here', after) # <<>>
    OBVIOUS
  <2>1. Here.tree = tree /\ Here'.tree = tree /\ Here'.config = Here.config
    BY DEF Here, Project, Rename
  <2>2. after = before
    BY <2>1 DEF StoreOf
  <2>3. BoundaryAgrees(Here, before) /\ BoundaryAgrees(Here', after)
    BY DEF Green
  <2> HIDE DEF before, after
  <2> QED BY <2>1, <2>2, <2>3, TwoNames
<1> QED BY <1>1, PTL DEF Spec, RenameIsLoud

-----------------------------------------------------------------------------
(***************************************************************************)
(* The witnesses.                                                          *)
(***************************************************************************)

\* While a perturbation is on the subject the undo at hand puts the form back.
Undone ==
  /\ SubjectRestored
  /\ pc \in {"perturbed", "judged"} => was = Form

\* Before the run nothing has been perturbed.
LEMMA InitUndone == DistinguishInit => Undone
  BY DEF DistinguishInit, Undone, SubjectRestored

\* A step leaves the subject as found, or the undo at hand.
LEMMA NextUndone == Undone /\ [DistinguishNext]_distinguishVars => Undone'
<1> SUFFICES ASSUME Undone, [DistinguishNext]_distinguishVars PROVE Undone'
  OBVIOUS
<1> USE DEF Undone, SubjectRestored
<1>1. ASSUME NEW draws, Baseline(draws) PROVE Undone'
  BY <1>1 DEF Baseline
<1>2. ASSUME NEW draws, RunSuite(draws) PROVE Undone'
  BY <1>2 DEF RunSuite
<1>3. CASE Skip
  BY <1>3 DEF Skip, Advance
<1>4. CASE Perturb
  BY <1>4 DEF Perturb
<1>5. CASE Restore
  BY <1>5 DEF Restore, Advance
<1>6. CASE UNCHANGED distinguishVars
  BY <1>6 DEF distinguishVars
<1> QED BY <1>1, <1>2, <1>3, <1>4, <1>5, <1>6 DEF DistinguishNext

\* In every run of Distinguish, whatever the boundary, the witnesses and the
\* suite are, and however the suite ends: no perturbation outlives its run.
THEOREM SubjectIsRestored == DistinguishSpec => []SubjectRestored
<1>1. Undone => SubjectRestored
  BY DEF Undone
<1> QED BY InitUndone, NextUndone, <1>1, PTL DEF DistinguishSpec

\* Every law is one, under a name of its own.
SoundSuite ==
  \A i \in DOMAIN suite :
    Valid(suite[i]) /\ \A j \in 1..(i - 1) : suite[j].name # suite[i].name

\* Every law holds of a codec, whatever query it is tried on.
AllHold(c) == \A i \in DOMAIN suite : \A q \in Everything : Holds(suite[i].prop, c, q)

\* The codec that the witness of an entry is caught with, or not.
Tested(i) == Perturbed(witnesses[WitnessOf(doc[i])].perturb, Form)

\* The entries behind the one at hand were judged by the laws, but for those
\* that some law was not tried on everything for.
Settles(i) ==
  WitnessOf(doc[i]) # 0 =>
    /\ doc[i] \in confirmed /\ complete => AllHold(Tested(i))
    /\ doc[i] \notin confirmed => ~AllHold(Tested(i))

\* What a run knows at each step: nothing is confirmed before the laws were found
\* sound, what is behind is judged, and the subject is the codec of the witness at hand.
Judged ==
  /\ doc \in Documents /\ suite \in Suites
  /\ pc = "baseline" => confirmed = {}
  /\ pc \in {"next", "perturbed", "judged"} => at \in 1..Len(doc)
  /\ pc = "done" => at = Len(doc) + 1
  /\ pc \in {"next", "perturbed", "judged", "done"} =>
        /\ SoundSuite
        /\ \A e \in confirmed : \E i \in 1..(at - 1) : e = doc[i]
        /\ \A i \in 1..(at - 1) : Settles(i)
  /\ pc \in {"perturbed", "judged"} => WitnessOf(doc[at]) # 0 /\ subject = Tested(at)
  /\ pc = "judged" =>
        /\ caught \in {"nothing", "law", "panic"}
        /\ caught = "nothing" /\ complete => AllHold(subject)
        /\ caught = "law" => ~AllHold(subject)

\* A sound suite reports nothing exactly when its laws hold of what they are tried on.
LEMMA ReportedIs ==
  ASSUME SoundSuite, NEW c, NEW draws \in Draws
  PROVE  /\ Reported(suite, c, draws) = {} /\ DrewAll(draws) => AllHold(c)
         /\ Reported(suite, c, draws) # {} => ~AllHold(c)
<1>1. \A i \in DOMAIN suite : i \in Reported(suite, c, draws)
        <=> \E q \in draws[i] : ~Holds(suite[i].prop, c, q)
  BY DEF SoundSuite, Reported, Verifies
<1>2. \A i \in DOMAIN suite : \A q \in draws[i] : q \in Everything
  BY DEF Draws, Everything
<1>3. Reported(suite, c, draws) \subseteq DOMAIN suite
  BY DEF Reported
<1>4. ASSUME Reported(suite, c, draws) = {}, DrewAll(draws) PROVE AllHold(c)
  BY <1>1, <1>4 DEF DrewAll, AllHold
<1>5. ASSUME Reported(suite, c, draws) # {} PROVE ~AllHold(c)
  <2>1. PICK i \in DOMAIN suite : i \in Reported(suite, c, draws)
    BY <1>3, <1>5
  <2>2. PICK q \in draws[i] : ~Holds(suite[i].prop, c, q)
    BY <1>1, <2>1
  <2> QED BY <1>2, <2>2 DEF AllHold
<1> QED BY <1>4, <1>5

\* All four laws leave nothing of a query open.
LEMMA LawsPin ==
  ASSUME {suite[i].prop : i \in DOMAIN suite} = Props, NEW c
  PROVE  AllHold(c) <=> Faithful(c)
<1>1. \A q \in Everything : IsQuery(q)
  BY InputsAssumption DEF Everything
<1>2. ASSUME AllHold(c), NEW q \in Everything PROVE ReadsBack(c, q) /\ ReadBack(c, q) = q
  <2>1. \A p \in Props : Holds(p, c, q)
    <3>1. ASSUME NEW p \in Props PROVE \E i \in DOMAIN suite : p = suite[i].prop
      OBVIOUS
    <3> QED BY <1>2, <3>1 DEF AllHold
  <2>2. Holds("RoundTrips", c, q) /\ Holds("KeyOrderSurvives", c, q)
    BY <2>1 DEF Props
  <2>3. /\ ReadsBack(c, q) /\ ReadBack(c, q).values = q.values
        /\ ReadBack(c, q).keys = q.keys
    BY <2>2 DEF Holds, Canonical
  <2>4. ReadBack(c, q) = [keys |-> ReadBack(c, q).keys, values |-> ReadBack(c, q).values]
    BY DEF ReadBack, ParseQuery
  <2>5. q = [keys |-> q.keys, values |-> q.values]
    BY <1>1 DEF IsQuery
  <2> QED BY <2>3, <2>4, <2>5
<1>3. ASSUME Faithful(c), NEW i \in DOMAIN suite, NEW q \in Everything
      PROVE  Holds(suite[i].prop, c, q)
  <2>1. ReadsBack(c, q) /\ ReadBack(c, q) = q
    BY <1>3 DEF Faithful
  <2>2. suite[i].prop \in Props
    OBVIOUS
  <2>3. \A k \in Range(q.keys) : k \in DOMAIN q.values
    BY <1>1 DEF IsQuery
  <2> QED BY <2>1, <2>2, <2>3 DEF Props, Holds
<1> QED BY <1>2, <1>3 DEF AllHold, Faithful

\* Before the baseline there is nothing to know.
LEMMA InitJudged == DistinguishInit => Judged
  BY DEF DistinguishInit, Judged

\* With what it was given a step changes no law, no witness and no entry.
LEMMA GivenStays ==
  ASSUME UNCHANGED given
  PROVE  /\ doc' = doc /\ witnesses' = witnesses /\ suite' = suite
         /\ SoundSuite' <=> SoundSuite
         /\ \A c : AllHold(c)' <=> AllHold(c)
         /\ \A i : Tested(i)' = Tested(i)
         /\ \A e : WitnessOf(e)' = WitnessOf(e)
<1>1. doc' = doc /\ witnesses' = witnesses /\ suite' = suite
  BY DEF given
<1>2. SoundSuite' <=> SoundSuite
  BY <1>1 DEF SoundSuite
<1>3. \A c : AllHold(c)' <=> AllHold(c)
  BY <1>1 DEF AllHold
<1>4. \A e : WitnessOf(e)' = WitnessOf(e)
  BY <1>1 DEF WitnessOf, SelectLastInSeq
<1>5. \A i : Tested(i)' = Tested(i)
  BY <1>1, <1>4 DEF Tested
<1> QED BY <1>1, <1>2, <1>3, <1>4, <1>5

\* A step that judges nothing keeps what was judged.
LEMMA SettledStay ==
  ASSUME UNCHANGED given, UNCHANGED confirmed, complete' => complete, NEW i, Settles(i)
  PROVE  Settles(i)'
<1>1. doc' = doc /\ (WitnessOf(doc[i])' = WitnessOf(doc[i])) /\ Tested(i)' = Tested(i)
  BY GivenStays
<1>2. AllHold(Tested(i))' <=> AllHold(Tested(i))
  BY GivenStays, <1>1
<1> QED BY <1>1, <1>2 DEF Settles

\* Where the suite was found sound.
Running == {"next", "perturbed", "judged", "done"}

\* Of a suite that is sound, the entries behind the place are settled.
BehindAreSettled ==
  /\ SoundSuite
  /\ \A e \in confirmed : \E i \in 1..(at - 1) : e = doc[i]
  /\ \A i \in 1..(at - 1) : Settles(i)

\* Where nothing is judged and the place is the same.
LEMMA BehindStay ==
  ASSUME UNCHANGED <<given, at, confirmed>>, complete' => complete, BehindAreSettled
  PROVE  BehindAreSettled'
<1>1. doc' = doc /\ at' = at /\ confirmed' = confirmed /\ SoundSuite'
  BY GivenStays DEF BehindAreSettled
<1>2. ASSUME NEW i \in 1..(at - 1) PROVE Settles(i)'
  BY <1>2, SettledStay DEF BehindAreSettled
<1> QED BY <1>1, <1>2 DEF BehindAreSettled

\* Past the entry at hand: it has to be settled too.
LEMMA BehindAdvance ==
  ASSUME UNCHANGED given, at \in Nat, at' = at + 1, SoundSuite,
         \A e \in confirmed' : \E i \in 1..at : e = doc[i],
         \A i \in 1..at : Settles(i)'
  PROVE  BehindAreSettled'
<1>1. doc' = doc /\ SoundSuite'
  BY GivenStays
<1>2. at' - 1 = at
  OBVIOUS
<1> QED BY <1>1, <1>2 DEF BehindAreSettled

\* A place that is not the last has one after it.
LEMMA NextPlace == \A n \in Nat : \A k \in 1..n : k # n => k + 1 \in 1..n
  OBVIOUS

\* Each step of a run keeps it: the place moves on only past an entry that is
\* settled, by the laws just run or for want of a witness.
LEMMA NextJudged == Judged /\ Undone /\ [DistinguishNext]_distinguishVars => Judged'
<1> SUFFICES ASSUME Judged, Undone, [DistinguishNext]_distinguishVars PROVE Judged'
  OBVIOUS
<1>1. /\ doc \in Documents /\ suite \in Suites
      /\ pc = "baseline" => confirmed = {}
      /\ pc \in {"next", "perturbed", "judged"} => at \in 1..Len(doc)
      /\ pc = "done" => at = Len(doc) + 1
      /\ pc \in Running => BehindAreSettled
      /\ pc \in {"perturbed", "judged"} => WitnessOf(doc[at]) # 0 /\ subject = Tested(at)
      /\ pc = "judged" => /\ caught \in {"nothing", "law", "panic"}
                          /\ caught = "nothing" /\ complete => AllHold(subject)
                          /\ caught = "law" => ~AllHold(subject)
  BY DEF Judged, BehindAreSettled, Running
<1>2. doc \in Seq(Range(doc)) /\ IsInjective(doc)
  BY <1>1, InputsAssumption
<1>3. Len(doc) \in Nat /\ DOMAIN doc = 1..Len(doc)
  BY <1>2
<1>4. \A i, j \in 1..Len(doc) : doc[i] = doc[j] => i = j
  BY <1>2, <1>3 DEF IsInjective
<1>5. ASSUME doc' \in Documents, suite' \in Suites,
             pc' = "baseline" => confirmed' = {},
             pc' \in {"next", "perturbed", "judged"} => at' \in 1..Len(doc'),
             pc' = "done" => at' = Len(doc') + 1,
             pc' \in Running => BehindAreSettled',
             pc' \in {"perturbed", "judged"} =>
               (WitnessOf(doc[at]) # 0)' /\ subject' = Tested(at)',
             pc' = "judged" => /\ caught' \in {"nothing", "law", "panic"}
                               /\ caught' = "nothing" /\ complete' => AllHold(subject)'
                               /\ caught' = "law" => ~AllHold(subject)'
      PROVE  Judged'
  BY <1>5 DEF Judged, BehindAreSettled, Running
<1>6. ASSUME NEW draws \in Draws, Baseline(draws) PROVE Judged'
  <2>1. /\ pc = "baseline" /\ UNCHANGED given /\ confirmed' = confirmed /\ confirmed = {}
        /\ doc' = doc /\ suite' = suite
    BY <1>1, <1>6 DEF Baseline, given
  <2>2. CASE Reported(suite, subject, draws) # {}
    <3>1. pc' = "refused"
      BY <1>6, <2>2 DEF Baseline
    <3> QED BY <1>1, <2>1, <3>1, <1>5 DEF Running
  <2>3. CASE Reported(suite, subject, draws) = {}
    <3>1. at' = 1 /\ pc' = IF doc = <<>> THEN "done" ELSE "next"
      BY <1>6, <2>3 DEF Baseline
    <3>2. SoundSuite
      BY <2>3 DEF SoundSuite, Reported, Verifies
    <3>3. BehindAreSettled'
      <4>1. SoundSuite'
        BY <3>2, <2>1, GivenStays
      <4>2. 1..(at' - 1) = {}
        BY <3>1
      <4> QED BY <4>1, <4>2, <2>1 DEF BehindAreSettled
    <3>4. Len(doc) = 0 <=> doc = <<>>
      BY <1>2
    <3> QED BY <1>1, <1>3, <2>1, <3>1, <3>3, <3>4, <1>5
  <2> QED BY <2>2, <2>3
<1>7. CASE Skip
  <2>1. /\ pc = "next" /\ WitnessOf(doc[at]) = 0 /\ at' = at + 1
        /\ pc' = IF at = Len(doc) THEN "done" ELSE "next"
        /\ UNCHANGED given /\ doc' = doc /\ suite' = suite
        /\ confirmed' = confirmed /\ complete' = complete
    BY <1>7 DEF Skip, Advance, given
  <2>2. at \in 1..Len(doc) /\ BehindAreSettled /\ at \in Nat
    BY <1>1, <1>3, <2>1 DEF Running
  <2>3. ASSUME NEW i \in 1..at PROVE Settles(i)'
    <3>1. CASE i \in 1..(at - 1)
      BY <3>1, <2>1, <2>2, SettledStay DEF BehindAreSettled
    <3>2. CASE i = at
      <4>1. WitnessOf(doc[i]) = 0
        BY <2>1, <3>2
      <4>2. \A e : WitnessOf(e)' = WitnessOf(e)
        BY <2>1, GivenStays
      <4> QED BY <4>1, <4>2, <2>1 DEF Settles
    <3> QED BY <3>1, <3>2, <2>2
  <2>4. BehindAreSettled'
    BY <2>1, <2>2, <2>3, BehindAdvance DEF BehindAreSettled
  <2>5. /\ pc' = "next" => at' \in 1..Len(doc')
        /\ pc' = "done" => at' = Len(doc') + 1
    <3>1. at # Len(doc) => at + 1 \in 1..Len(doc)
      BY <1>3, <2>2, NextPlace
    <3>2. Len(doc') = Len(doc)
      BY <2>1
    <3> QED BY <2>1, <3>1, <3>2
  <2> QED BY <1>1, <2>1, <2>4, <2>5, <1>5
<1>8. CASE Perturb
  <2>1. /\ pc = "next" /\ WitnessOf(doc[at]) # 0 /\ at' = at /\ pc' = "perturbed"
        /\ subject' = Perturbed(witnesses[WitnessOf(doc[at])].perturb, subject)
        /\ UNCHANGED given /\ doc' = doc /\ suite' = suite
        /\ confirmed' = confirmed /\ complete' = complete
    BY <1>8 DEF Perturb, given
  <2>2. at \in 1..Len(doc) /\ BehindAreSettled /\ subject = Form
    BY <1>1, <2>1 DEF Running, Undone, SubjectRestored
  <2>3. BehindAreSettled'
    BY <2>1, <2>2, BehindStay
  <2>4. subject' = Tested(at)
    BY <2>1, <2>2 DEF Tested
  <2>5. Tested(at)' = Tested(at) /\ (WitnessOf(doc[at]) # 0)'
    BY <2>1, GivenStays
  <2> QED BY <1>1, <2>1, <2>2, <2>3, <2>4, <2>5, <1>5
<1>9. ASSUME NEW draws \in Draws, RunSuite(draws) PROVE Judged'
  <2>1. /\ pc = "perturbed" /\ pc' = "judged" /\ at' = at /\ subject' = subject
        /\ caught' \in {IF Reported(suite, subject, draws) = {} THEN "nothing" ELSE "law", "panic"}
        /\ complete' = (complete /\ DrewAll(draws))
        /\ UNCHANGED given /\ doc' = doc /\ suite' = suite /\ confirmed' = confirmed
    BY <1>9 DEF RunSuite, given
  <2>2. at \in 1..Len(doc) /\ BehindAreSettled /\ WitnessOf(doc[at]) # 0 /\ subject = Tested(at)
    BY <1>1, <2>1 DEF Running
  <2>3. BehindAreSettled'
    BY <2>1, <2>2, BehindStay
  <2>4. Tested(at)' = Tested(at) /\ (WitnessOf(doc[at]) # 0)'
    BY <2>1, <2>2, GivenStays
  <2>5. AllHold(subject)' <=> AllHold(subject)
    BY <2>1, GivenStays
  <2>6. /\ Reported(suite, subject, draws) = {} /\ DrewAll(draws) => AllHold(subject)
        /\ Reported(suite, subject, draws) # {} => ~AllHold(subject)
    BY <2>2, ReportedIs DEF BehindAreSettled
  <2>7. /\ caught' \in {"nothing", "law", "panic"}
        /\ caught' = "nothing" /\ complete' => AllHold(subject)'
        /\ caught' = "law" => ~AllHold(subject)'
    BY <2>1, <2>5, <2>6
  <2> QED BY <1>1, <2>1, <2>2, <2>3, <2>4, <2>7, <1>5
<1>10. CASE Restore
  <2>1. pc = "judged" /\ UNCHANGED given /\ doc' = doc /\ suite' = suite /\ complete' = complete
    BY <1>10 DEF Restore, given
  <2>2. /\ at \in 1..Len(doc) /\ at \in Nat /\ BehindAreSettled
        /\ WitnessOf(doc[at]) # 0 /\ subject = Tested(at)
        /\ caught \in {"nothing", "law", "panic"}
        /\ caught = "nothing" /\ complete => AllHold(Tested(at))
        /\ caught = "law" => ~AllHold(Tested(at))
    BY <1>1, <1>3, <2>1 DEF Running
  <2>3. CASE caught = "panic"
    <3>1. pc' = "panicked" /\ confirmed' = confirmed
      BY <1>10, <2>3 DEF Restore
    <3> QED BY <1>1, <2>1, <3>1, <1>5 DEF Running
  <2>4. CASE caught # "panic"
    <3>1. /\ at' = at + 1 /\ pc' = IF at = Len(doc) THEN "done" ELSE "next"
          /\ confirmed' = IF caught = "law" THEN confirmed ELSE confirmed \cup {doc[at]}
      BY <1>10, <2>4 DEF Restore, Advance
    <3>2. doc[at] \notin confirmed
      BY <1>3, <1>4, <2>2 DEF BehindAreSettled
    <3>3. ASSUME NEW i \in 1..at PROVE Settles(i)'
      <4>1. /\ WitnessOf(doc[i])' = WitnessOf(doc[i]) /\ Tested(i)' = Tested(i)
            /\ AllHold(Tested(i))' <=> AllHold(Tested(i))
        BY <2>1, GivenStays
      <4>2. CASE i \in 1..(at - 1)
        <5>1. doc[i] # doc[at]
          BY <1>3, <1>4, <2>2, <4>2
        <5>2. doc[i] \in confirmed' <=> doc[i] \in confirmed
          BY <3>1, <5>1
        <5>3. Settles(i)
          BY <2>2, <4>2 DEF BehindAreSettled
        <5> QED BY <2>1, <4>1, <5>2, <5>3 DEF Settles
      <4>3. CASE i = at
        <5>1. /\ doc[i] \in confirmed' /\ complete => AllHold(Tested(i))
              /\ doc[i] \notin confirmed' => ~AllHold(Tested(i))
          BY <2>2, <2>4, <3>1, <3>2, <4>3
        <5> QED BY <2>1, <4>1, <5>1 DEF Settles
      <4> QED BY <4>2, <4>3, <2>2
    <3>4. \A i \in 1..(at - 1) : i \in 1..at
      BY <2>2
    <3>5. \A e \in confirmed' : \E i \in 1..at : e = doc[i]
      <4>1. ASSUME NEW e \in confirmed', e # doc[at] PROVE \E i \in 1..(at - 1) : e = doc[i]
        BY <2>2, <3>1, <4>1 DEF BehindAreSettled
      <4>2. at \in 1..at
        BY <2>2
      <4> QED BY <3>4, <4>1, <4>2
    <3>6. BehindAreSettled'
      BY <2>1, <2>2, <3>1, <3>3, <3>5, BehindAdvance DEF BehindAreSettled
    <3>7. /\ pc' = "next" => at' \in 1..Len(doc')
          /\ pc' = "done" => at' = Len(doc') + 1
      <4>1. at # Len(doc) => at + 1 \in 1..Len(doc)
        BY <1>3, <2>2, NextPlace
      <4>2. Len(doc') = Len(doc)
        BY <2>1
      <4> QED BY <3>1, <4>1, <4>2
    <3> QED BY <1>1, <2>1, <3>1, <3>6, <3>7, <1>5
  <2> QED BY <2>3, <2>4
<1>11. CASE UNCHANGED distinguishVars
  <2>1. /\ UNCHANGED <<given, at, confirmed>> /\ complete' = complete /\ pc' = pc
        /\ doc' = doc /\ suite' = suite /\ subject' = subject /\ caught' = caught
    BY <1>11 DEF distinguishVars, given
  <2>2. BehindAreSettled => BehindAreSettled'
    BY <2>1, BehindStay
  <2>3. \A i : Tested(i)' = Tested(i) /\ (AllHold(subject)' <=> AllHold(subject))
    BY <2>1, GivenStays
  <2>4. \A e : WitnessOf(e)' = WitnessOf(e)
    BY <2>1, GivenStays
  <2> QED BY <1>1, <1>5, <2>1, <2>2, <2>3, <2>4
<1> QED BY <1>6, <1>7, <1>8, <1>9, <1>10, <1>11 DEF DistinguishNext

\* In every finished run with all four laws tried on every query there is,
\* whatever the boundary, the witnesses and the queries: an entry is confirmed
\* exactly when the codec its witness leaves gives every query back.
THEOREM VerdictsAreTrueAlways == DistinguishSpec => []VerdictsAreTrue
<1>1. Judged => VerdictsAreTrue
  <2> SUFFICES ASSUME Judged, pc = "done", complete,
                      {suite[i].prop : i \in DOMAIN suite} = Props,
                      NEW i \in DOMAIN doc, WitnessOf(doc[i]) # 0
               PROVE  doc[i] \in confirmed <=> Faithful(Tested(i))
    BY DEF VerdictsAreTrue, Tested
  <2>1. doc \in Seq(Range(doc))
    BY InputsAssumption DEF Judged
  <2>2. i \in 1..Len(doc) /\ Len(doc) \in Nat
    BY <2>1
  <2>3. at - 1 = Len(doc) /\ \A k \in 1..(at - 1) : Settles(k)
    BY <2>2 DEF Judged
  <2>4. doc[i] \in confirmed <=> AllHold(Tested(i))
    BY <2>2, <2>3 DEF Settles
  <2> QED BY <2>4, LawsPin
<1> QED BY InitJudged, InitUndone, NextJudged, NextUndone, <1>1, PTL DEF DistinguishSpec

=============================================================================
