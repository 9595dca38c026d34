--------------------------- MODULE CorpusFileProofs ---------------------------
(***************************************************************************)
(* Theorems about the commands that change the corpus, for any number of   *)
(* them that overlap in any way, any files, and any data lost.             *)
(***************************************************************************)
EXTENDS CorpusFile, ManifestProofs

Pcs == {"idle", "files", "writing", "replay", "recorded", "refused", "close", "reweight"}

\* A record that writes has a file to write, and one that runs no more holds none.
WritingHasFile == \A p \in Procs : pc[p] = "writing" => todo[p] # <<>>
IdleHasNone == \A p \in Procs : pc[p] = "idle" => given[p] = {}

TypeInv == TypeOK /\ DOMAIN mem = Procs /\ WritingHasFile /\ IdleHasNone

(***************************************************************************)
(* The list of files a record has still to take.                           *)
(***************************************************************************)
LEMMA HeadAndTail ==
  ASSUME NEW s \in Seq(Hashes), s # <<>>
  PROVE  /\ Head(s) \in Hashes /\ Tail(s) \in Seq(Hashes)
         /\ Head(s) \in Range(s)
         /\ Range(Tail(s)) \subseteq Range(s)
         /\ \A h \in Range(s) : h = Head(s) \/ h \in Range(Tail(s))
<1>1. /\ Len(s) \in Nat \ {0} /\ DOMAIN s = 1..Len(s) /\ \A i \in 1..Len(s) : s[i] \in Hashes
      /\ Head(s) = s[1]
      /\ Tail(s) \in Seq(Hashes) /\ Len(Tail(s)) = Len(s) - 1
      /\ DOMAIN Tail(s) = 1..(Len(s) - 1)
      /\ \A i \in 1..(Len(s) - 1) : Tail(s)[i] = s[i + 1]
  OBVIOUS
<1>2. Range(Tail(s)) \subseteq Range(s)
  BY <1>1 DEF Range
<1>3. ASSUME NEW h \in Range(s) PROVE h = Head(s) \/ h \in Range(Tail(s))
  <2>1. PICK i \in 1..Len(s) : h = s[i]
    BY <1>1 DEF Range
  <2>2. CASE i = 1
    BY <1>1, <2>1, <2>2
  <2>3. CASE i # 1
    <3>1. i - 1 \in 1..(Len(s) - 1) /\ (i - 1) + 1 = i
      BY <1>1, <2>3
    <3>2. Tail(s)[i - 1] = h
      BY <1>1, <2>1, <3>1
    <3> QED BY <1>1, <3>1, <3>2 DEF Range
  <2> QED BY <2>2, <2>3
<1>4. Head(s) \in Range(s) /\ Head(s) \in Hashes
  BY <1>1 DEF Range
<1> QED BY <1>1, <1>2, <1>3, <1>4

(***************************************************************************)
(* The types.                                                              *)
(***************************************************************************)
LEMMA InitType == Init => TypeInv
<1> SUFFICES ASSUME Init PROVE TypeInv
  OBVIOUS
<1>1. IsManifest(file) /\ \A p \in Procs : IsManifest(mem[p])
  BY StartsAssumption, EmptyIsManifest DEF Init
<1>2. \A p \in Procs : Range(todo[p]) \subseteq given[p]
  BY DEF Init, Range
<1>3. /\ data \in [Hashes -> {"absent", "torn", "good"}] /\ pc \in [Procs -> Pcs]
      /\ todo \in [Procs -> Seq(Hashes)] /\ given \in [Procs -> SUBSET Hashes]
      /\ outs \in [Procs -> SUBSET (Hashes \X Versions)] /\ DOMAIN mem = Procs
  BY DEF Init, Pcs
<1>4. /\ told \subseteq Hashes /\ said \subseteq Hashes \X Versions
      /\ behind \subseteq Running /\ shared \subseteq Hashes /\ lost \subseteq Hashes
  BY DEF Init
<1>5. started \in 0..MaxCommands /\ losses \in 0..MaxLosses
  BY BoundsAssumption DEF Init
<1>6. overwrote \in BOOLEAN
  BY DEF Init
<1>7. WritingHasFile /\ IdleHasNone
  BY DEF Init, WritingHasFile, IdleHasNone
<1> QED BY <1>1, <1>2, <1>3, <1>4, <1>5, <1>6, <1>7 DEF TypeInv, TypeOK, Pcs

(* A command that starts, with the files it was given.                     *)
LEMMA LoadType ==
  ASSUME TypeInv, NEW p \in Procs, NEW at \in Pcs \ {"idle", "writing"}, Load(p, at),
         NEW files \in Seq(Hashes), NEW names \in SUBSET Hashes, Range(files) \subseteq names,
         todo' = [todo EXCEPT ![p] = files], given' = [given EXCEPT ![p] = names],
         shared' \subseteq Hashes
  PROVE  TypeInv'
<1>1. started' \in 0..MaxCommands
  BY BoundsAssumption DEF Load, TypeInv, TypeOK
<1>2. (\A q \in Procs : IsManifest(mem'[q])) /\ DOMAIN mem' = Procs
  BY DEF Load, TypeInv, TypeOK
<1>3. pc' \in [Procs -> Pcs] /\ pc'[p] = at /\ \A q \in Procs \ {p} : pc'[q] = pc[q]
  BY DEF Load, TypeInv, TypeOK, Pcs
<1>4. /\ todo' \in [Procs -> Seq(Hashes)] /\ given' \in [Procs -> SUBSET Hashes]
      /\ \A q \in Procs : Range(todo'[q]) \subseteq given'[q]
  BY DEF TypeInv, TypeOK
<1>5. behind' \subseteq Running'
  BY <1>3 DEF Load, TypeInv, TypeOK, Running
<1>6. WritingHasFile' /\ IdleHasNone'
  BY <1>3 DEF TypeInv, TypeOK, WritingHasFile, IdleHasNone
<1> QED
  BY <1>1, <1>2, <1>3, <1>4, <1>5, <1>6 DEF Load, TypeInv, TypeOK, Pcs, claims

(* One that ends, whatever it saved.                                       *)
LEMMA EndType ==
  ASSUME TypeInv, NEW p \in Procs, End(p), IsManifest(file'),
         UNCHANGED <<data, shared, lost, counters>>,
         told' \subseteq Hashes, said' \subseteq Hashes \X Versions,
         behind' \subseteq Running \ {p}, overwrote' \in BOOLEAN
  PROVE  TypeInv'
<1>1. (\A q \in Procs : IsManifest(mem'[q])) /\ DOMAIN mem' = Procs
  BY EmptyIsManifest DEF End, TypeInv, TypeOK
<1>2. /\ pc' \in [Procs -> Pcs]
      /\ todo' \in [Procs -> Seq(Hashes)]
      /\ given' \in [Procs -> SUBSET Hashes]
      /\ outs' \in [Procs -> SUBSET (Hashes \X Versions)]
      /\ behind' \subseteq Running'
  BY DEF End, TypeInv, TypeOK, Pcs, Running
<1>3. \A q \in Procs : Range(todo'[q]) \subseteq given'[q]
  BY DEF End, TypeInv, TypeOK, Range
<1>4. WritingHasFile' /\ IdleHasNone'
  BY DEF End, TypeInv, TypeOK, WritingHasFile, IdleHasNone
<1> QED BY <1>1, <1>2, <1>3, <1>4 DEF TypeInv, TypeOK, counters, Pcs

(* One that goes on with another copy.                                     *)
LEMMA WorkType ==
  ASSUME TypeInv, NEW p \in Procs, pc[p] # "idle",
         NEW at \in Pcs \ {"idle"}, pc' = [pc EXCEPT ![p] = at],
         NEW n, IsManifest(n), mem' = [mem EXCEPT ![p] = n] \/ mem' = mem,
         NEW files \in Seq(Hashes), todo' = [todo EXCEPT ![p] = files],
         Range(files) \subseteq given[p], at = "writing" => files # <<>>,
         data' \in [Hashes -> {"absent", "torn", "good"}],
         outs' \in [Procs -> SUBSET (Hashes \X Versions)],
         UNCHANGED <<file, given, claims, overlaps, lost, counters>>
  PROVE  TypeInv'
<1>1. (\A q \in Procs : IsManifest(mem'[q])) /\ DOMAIN mem' = Procs
  BY DEF TypeInv, TypeOK
<1>2. pc' \in [Procs -> Pcs] /\ pc'[p] = at /\ \A q \in Procs \ {p} : pc'[q] = pc[q]
  BY DEF TypeInv, TypeOK, Pcs
<1>3. todo' \in [Procs -> Seq(Hashes)] /\ \A q \in Procs : Range(todo'[q]) \subseteq given'[q]
  BY DEF TypeInv, TypeOK
<1>4. Running' = Running
  BY <1>2 DEF Running
<1>5. WritingHasFile' /\ IdleHasNone'
  BY <1>2 DEF TypeInv, TypeOK, WritingHasFile, IdleHasNone
<1> QED
  BY <1>1, <1>2, <1>3, <1>4, <1>5 DEF TypeInv, TypeOK, Pcs, claims, overlaps, counters

(* A record deals with the next file.                                      *)
LEMMA TakeType ==
  ASSUME TypeInv, NEW p \in Procs, SkipFile(p) \/ OpenFile(p) \/ WriteFile(p)
  PROVE  /\ TypeInv'
         /\ todo[p] \in Seq(Hashes) /\ todo[p] # <<>> /\ Head(todo[p]) \in Hashes
         /\ Head(todo[p]) \in given[p]
<1>1. todo[p] \in Seq(Hashes) /\ todo[p] # <<>> /\ pc[p] \in {"files", "writing"}
  BY DEF SkipFile, OpenFile, WriteFile, TypeInv, TypeOK, WritingHasFile
<1>2. /\ Head(todo[p]) \in Hashes /\ Tail(todo[p]) \in Seq(Hashes)
      /\ Head(todo[p]) \in Range(todo[p]) /\ Range(Tail(todo[p])) \subseteq Range(todo[p])
  BY <1>1, HeadAndTail
<1>3. Range(todo[p]) \subseteq given[p] /\ IsManifest(mem[p]) /\ pc[p] # "idle"
  BY <1>1 DEF TypeInv, TypeOK
<1>4. /\ data \in [Hashes -> {"absent", "torn", "good"}]
      /\ outs \in [Procs -> SUBSET (Hashes \X Versions)]
      /\ pc = [pc EXCEPT ![p] = pc[p]]
      /\ todo = [todo EXCEPT ![p] = todo[p]]
  BY DEF TypeInv, TypeOK
<1>5. CASE SkipFile(p)
  <2>1. pc' = [pc EXCEPT ![p] = "files"] /\ mem' = mem
        /\ data' = data /\ outs' = outs /\ todo' = [todo EXCEPT ![p] = Tail(todo[p])]
        /\ UNCHANGED <<file, given, claims, overlaps, lost, counters>>
    BY <1>4, <1>5 DEF SkipFile
  <2>2. "files" \in Pcs \ {"idle"}
    BY DEF Pcs
  <2>3. TypeInv'
    BY <1>2, <1>3, <1>4, <2>1, <2>2, WorkType
  <2> QED BY <1>1, <1>2, <1>3, <2>3
<1>6. CASE OpenFile(p)
  <2>1. pc' = [pc EXCEPT ![p] = "writing"] /\ mem' = mem
        /\ outs' = outs /\ todo' = [todo EXCEPT ![p] = todo[p]]
        /\ UNCHANGED <<file, given, claims, overlaps, lost, counters>>
    BY <1>4, <1>6 DEF OpenFile
  <2>2. "writing" \in Pcs \ {"idle"}
    BY DEF Pcs
  <2>3. data' \in [Hashes -> {"absent", "torn", "good"}]
    BY <1>2, <1>4, <1>6 DEF OpenFile
  <2>4. TypeInv'
    BY <1>1, <1>2, <1>3, <1>4, <2>1, <2>2, <2>3, WorkType
  <2> QED BY <1>1, <1>2, <1>3, <2>4
<1>7. CASE WriteFile(p)
  <2>1. pc' = [pc EXCEPT ![p] = "files"]
        /\ mem' = [mem EXCEPT ![p] = Recorded(mem[p], Head(todo[p]), 0)]
        /\ outs' = outs /\ todo' = [todo EXCEPT ![p] = Tail(todo[p])]
        /\ UNCHANGED <<file, given, claims, overlaps, lost, counters>>
    BY <1>4, <1>7 DEF WriteFile
  <2>2. "files" \in Pcs \ {"idle"}
    BY DEF Pcs
  <2>3. data' \in [Hashes -> {"absent", "torn", "good"}]
    BY <1>2, <1>4, <1>7 DEF WriteFile
  <2>4. IsManifest(Recorded(mem[p], Head(todo[p]), 0))
    BY <1>2, <1>3, RecordedIsManifest
  <2>5. TypeInv'
    BY <1>2, <1>3, <1>4, <2>1, <2>2, <2>3, <2>4, WorkType
  <2> QED BY <1>1, <1>2, <1>3, <2>5
<1> QED BY <1>5, <1>6, <1>7

LEMMA OutputsType ==
  ASSUME NEW m, IsManifest(m), NEW v \in Versions, NEW ran
  PROVE  Outputs(m, v, ran) \in [Listed(m) -> Outs \cup {None}]
<1>1. \A i \in Listed(m) : m.inputs[i] \in Recordings
  BY DEF IsManifest, Listed
<1>2. \A i \in Listed(m) : m.inputs[i].sha \in Hashes
  BY <1>1 DEF Recordings
<1> QED BY <1>2, OutAssumption DEF Outputs

(* A replay ends with outputs to record.                                   *)
LEMMA ReplayType ==
  ASSUME TypeInv, NEW p \in Procs, NEW v \in Versions, NEW ran \in SUBSET Listed(mem[p]),
         RecordReplay(p, v, ran) \/ RefuseReplay(p, v, ran)
  PROVE  TypeInv'
<1> DEFINE n == OutputsRecorded(mem[p], v, Outputs(mem[p], v, ran))
           ended == IF RecordReplay(p, v, ran) THEN "recorded" ELSE "refused"
<1>1. /\ IsManifest(mem[p]) /\ todo[p] \in Seq(Hashes) /\ Range(todo[p]) \subseteq given[p]
      /\ data \in [Hashes -> {"absent", "torn", "good"}]
      /\ outs \in [Procs -> SUBSET (Hashes \X Versions)]
      /\ pc[p] # "idle" /\ todo = [todo EXCEPT ![p] = todo[p]]
  BY DEF RecordReplay, RefuseReplay, Ran, TypeInv, TypeOK
<1>2. IsManifest(n)
  BY <1>1, OutputsType, OutputsRecordedIsManifest
<1>3. \A i \in ran : mem[p].inputs[i].sha \in Hashes
  BY <1>1 DEF IsManifest, Recordings, Listed
<1>4. outs' \in [Procs -> SUBSET (Hashes \X Versions)]
  BY <1>1, <1>3 DEF RecordReplay, RefuseReplay
<1>5. /\ mem' = [mem EXCEPT ![p] = n] /\ pc' = [pc EXCEPT ![p] = ended]
      /\ todo' = [todo EXCEPT ![p] = todo[p]]
      /\ UNCHANGED <<file, data, given, claims, overlaps, lost, counters>>
  BY <1>1 DEF RecordReplay, RefuseReplay
<1>6. ended \in Pcs \ {"idle"} /\ ended # "writing"
  BY DEF Pcs
<1> HIDE DEF n, ended
<1> QED BY <1>1, <1>2, <1>4, <1>5, <1>6, WorkType

\* A step of Next, taken apart.
Start(p) ==
  \/ \E files \in Files : StartRecord(p, files)
  \/ StartReplay(p) \/ StartClose(p) \/ StartReweight(p)

Ends(p) ==
  \/ SaveRecord(p) \/ SaveReplay(p) \/ SaveReweight(p) \/ Stop(p)
  \/ \E d \in Diffs : SaveClose(p, d)

Step(p) ==
  \/ Start(p)
  \/ SkipFile(p) \/ OpenFile(p) \/ WriteFile(p)
  \/ \E v \in Versions, ran \in SUBSET Listed(mem[p]) :
        RecordReplay(p, v, ran) \/ RefuseReplay(p, v, ran)
  \/ Ends(p)

LEMMA NextIsStep ==
  ASSUME TypeInv, Next
  PROVE  (\E p \in Procs : Step(p)) \/ (\E h \in Hashes : Lose(h))
<1>1. ASSUME NEW p \in Procs,
             NEW d \in [input : Listed(mem[p]), from : Versions, to : Versions,
                        as : {"law"}, reason : Reasons]
      PROVE  d \in Diffs
  <2>1. IsManifest(mem[p])
    BY DEF TypeInv, TypeOK
  <2> QED BY <2>1 DEF Diffs, Closes, IsManifest, Listed
<1>2. CASE \E h \in Hashes : Lose(h)
  BY <1>2
<1>3. CASE \E p \in Procs :
             \E d \in [input : Listed(mem[p]), from : Versions, to : Versions,
                       as : {"law"}, reason : Reasons] : d.from # d.to /\ SaveClose(p, d)
  BY <1>1, <1>3 DEF Step, Ends
<1>4. CASE \E p \in Procs :
             \/ \E files \in Files : StartRecord(p, files)
             \/ SkipFile(p) \/ OpenFile(p) \/ WriteFile(p) \/ SaveRecord(p)
             \/ StartReplay(p) \/ StartClose(p) \/ StartReweight(p)
             \/ \E v \in Versions, ran \in SUBSET Listed(mem[p]) :
                   RecordReplay(p, v, ran) \/ RefuseReplay(p, v, ran)
             \/ SaveReplay(p) \/ SaveReweight(p) \/ Stop(p)
  BY <1>4 DEF Step, Start, Ends
<1> QED BY <1>2, <1>3, <1>4 DEF Next

(* What a command that starts has loaded, and what it was given.            *)
LEMMA Starting ==
  ASSUME TypeInv, NEW p \in Procs, Start(p)
  PROVE  \E at \in Pcs \ {"idle", "writing", "recorded"}, files \in Seq(Hashes) :
            /\ Load(p, at)
            /\ todo' = [todo EXCEPT ![p] = files]
            /\ given' = [given EXCEPT ![p] = Range(files)]
            /\ shared' = shared \cup (Range(files) \cap UNION {given[q] : q \in Procs \ {p}})
<1>1. CASE \E files \in Files : StartRecord(p, files)
  <2>1. PICK files \in Files : StartRecord(p, files)
    BY <1>1
  <2> QED BY <2>1, FilesAssumption DEF StartRecord, Pcs
<1>2. CASE StartReplay(p) \/ StartClose(p) \/ StartReweight(p)
  <2>1. PICK at \in {"replay", "close", "reweight"} : Load(p, at)
    BY <1>2 DEF StartReplay, StartClose, StartReweight
  <2>2. given[p] = {}
    BY <2>1 DEF Load, TypeInv, IdleHasNone
  <2>3. todo[p] \in Seq(Hashes) /\ Range(todo[p]) = {} /\ todo = [todo EXCEPT ![p] = todo[p]]
        /\ given = [given EXCEPT ![p] = Range(todo[p])]
    BY <2>2 DEF TypeInv, TypeOK
  <2>4. shared = shared \cup (Range(todo[p]) \cap UNION {given[q] : q \in Procs \ {p}})
    BY <2>3
  <2>5. UNCHANGED <<todo, given, shared>> /\ at \in Pcs \ {"idle", "writing", "recorded"}
    BY <1>2 DEF StartReplay, StartClose, StartReweight, Pcs
  <2> HIDE DEF Pcs
  <2> QED BY <2>1, <2>3, <2>4, <2>5
<1> QED BY <1>1, <1>2 DEF Start

(* What a command that ends has saved, if anything: its copy, with a close  *)
(* or other weights or as it is.                                            *)
LEMMA EndingType ==
  ASSUME TypeInv, NEW p \in Procs, Ends(p)
  PROVE  TypeInv'
<1>1. IsManifest(mem[p]) /\ IsManifest(file) /\ Running \subseteq Procs
  BY DEF TypeInv, TypeOK, Running
<1>2. ASSUME NEW n, IsManifest(n), Save(p, n), told' \subseteq Hashes,
             said' \subseteq Hashes \X Versions
      PROVE  TypeInv'
  <2>1. behind' \subseteq Running \ {p} /\ overwrote' \in BOOLEAN
    BY <1>2 DEF Save, TypeInv, TypeOK
  <2> QED BY <1>2, <2>1, EndType DEF Save
<1>3. told \subseteq Hashes /\ said \subseteq Hashes \X Versions /\ given[p] \subseteq Hashes
      /\ outs[p] \subseteq Hashes \X Versions
  BY DEF TypeInv, TypeOK
<1>4. CASE SaveRecord(p) \/ SaveReplay(p)
  BY <1>1, <1>2, <1>3, <1>4 DEF SaveRecord, SaveReplay
<1>5. CASE SaveReweight(p)
  BY <1>1, <1>2, <1>3, <1>5, ReweightedIsManifest DEF SaveReweight, claims
<1>6. CASE \E d \in Diffs : SaveClose(p, d)
  BY <1>1, <1>2, <1>3, <1>6, AcceptedIsManifest DEF SaveClose, claims
<1>7. CASE Stop(p)
  <2>1. behind' \subseteq Running \ {p} /\ overwrote' \in BOOLEAN
    BY <1>7 DEF Stop, TypeInv, TypeOK
  <2> QED BY <1>1, <1>3, <1>7, <2>1, EndType DEF Stop, claims
<1> QED BY <1>4, <1>5, <1>6, <1>7 DEF Ends

LEMMA StepType ==
  ASSUME TypeInv, NEW p \in Procs, Step(p)
  PROVE  TypeInv'
<1>1. CASE Start(p)
  <2>1. PICK at \in Pcs \ {"idle", "writing", "recorded"}, files \in Seq(Hashes) :
            /\ Load(p, at)
            /\ todo' = [todo EXCEPT ![p] = files]
            /\ given' = [given EXCEPT ![p] = Range(files)]
            /\ shared' = shared \cup (Range(files) \cap UNION {given[q] : q \in Procs \ {p}})
    BY <1>1, Starting
  <2>2. Range(files) \in SUBSET Hashes
    BY DEF Range
  <2>3. shared' \subseteq Hashes
    BY <2>1, <2>2 DEF TypeInv, TypeOK
  <2> QED BY <2>1, <2>2, <2>3, LoadType
<1>2. CASE SkipFile(p) \/ OpenFile(p) \/ WriteFile(p)
  BY <1>2, TakeType
<1>3. CASE \E v \in Versions, ran \in SUBSET Listed(mem[p]) :
              RecordReplay(p, v, ran) \/ RefuseReplay(p, v, ran)
  BY <1>3, ReplayType
<1>4. CASE Ends(p)
  BY <1>4, EndingType
<1> QED BY <1>1, <1>2, <1>3, <1>4 DEF Step

LEMMA LoseType ==
  ASSUME TypeInv, NEW h \in Hashes, Lose(h)
  PROVE  TypeInv'
<1>1. losses' \in 0..MaxLosses
  BY BoundsAssumption DEF Lose, TypeInv, TypeOK
<1>2. data' \in [Hashes -> {"absent", "torn", "good"}]
  BY DEF Lose, TypeInv, TypeOK
<1> QED
  BY <1>1, <1>2 DEF Lose, TypeInv, TypeOK, WritingHasFile, IdleHasNone, claims, overlaps, Running

LEMMA TypeInvariant == Spec => []TypeInv
<1>1. TypeInv /\ [Next]_vars => TypeInv'
  <2> SUFFICES ASSUME TypeInv, [Next]_vars PROVE TypeInv'
    OBVIOUS
  <2>1. CASE Next
    BY <2>1, NextIsStep, StepType, LoseType
  <2>2. CASE UNCHANGED vars
    BY <2>2 DEF vars, claims, overlaps, counters, TypeInv, TypeOK, WritingHasFile, IdleHasNone,
                Running
  <2> QED BY <2>1, <2>2
<1> QED BY InitType, <1>1, PTL DEF Spec

\* However many commands run at a time, what each works on and what it saves
\* is a manifest.
THEOREM TypeCorrect == Spec => []TypeOK
<1>1. TypeInv => TypeOK
  BY DEF TypeInv
<1> QED BY <1>1, TypeInvariant, PTL

----------------------------------------------------------------------------
(* What the operations keep of a manifest. *)

\* What is listed stays, and so does what VerifyAppendOnly asks of it;
Keeps(m, n) ==
  \A i \in Listed(m) : i \in Listed(n) /\ KeepsRecording(m.inputs[i], n.inputs[i])

\* and nothing else is listed.
KeepsAll(m, n) == Keeps(m, n) /\ Listed(n) = Listed(m)

OneId(m) == \A i, j \in Listed(m) : m.inputs[i].sha = m.inputs[j].sha => i = j

HasOutput(m, t) ==
  \E i \in Listed(m) : m.inputs[i].sha = t[1] /\ m.inputs[i].outputs[t[2]] = Out(t[2], t[1])

LEMMA KeepsReflexive ==
  ASSUME NEW m
  PROVE  Keeps(m, m) /\ KeepsAll(m, m)
BY KeepsRecordingReflexive DEF Keeps, KeepsAll

LEMMA KeepsTransitive ==
  ASSUME NEW a, NEW b, NEW c, Keeps(a, b), Keeps(b, c)
  PROVE  Keeps(a, c)
BY KeepsRecordingTransitive DEF Keeps

LEMMA KeepsFound ==
  ASSUME NEW m, NEW n, NEW h, Keeps(m, n), FoundByHash(m, h)
  PROVE  FoundByHash(n, h)
BY DEF Keeps, KeepsRecording, FoundByHash

LEMMA KeepsOutput ==
  ASSUME NEW m, NEW n, NEW t \in Hashes \X Versions, Keeps(m, n), HasOutput(m, t)
  PROVE  HasOutput(n, t)
<1>1. t[1] \in Hashes /\ t[2] \in Versions
  OBVIOUS
<1>2. Out(t[2], t[1]) # None
  BY <1>1, OutAssumption, NoneAssumption
<1> QED BY <1>1, <1>2 DEF Keeps, KeepsRecording, HasOutput

\* The other way round: an operation that keeps all lists no other hash.
LEMMA KeepsAllFacts ==
  ASSUME NEW m, NEW n, KeepsAll(m, n)
  PROVE  /\ Keeps(m, n)
         /\ \A h : FoundByHash(n, h) => FoundByHash(m, h)
         /\ OneId(m) => OneId(n)
         /\ \A i \in Listed(n) : i \in Listed(m) /\ n.inputs[i].sha = m.inputs[i].sha
BY DEF KeepsAll, Keeps, KeepsRecording, FoundByHash, OneId

LEMMA ReweightedKeeps ==
  ASSUME NEW m, IsManifest(m)
  PROVE  KeepsAll(m, Reweighted(m))
<1> DEFINE f == [i \in Listed(m) |->
                   IF i \in Active(m)
                   THEN [m.inputs[i] EXCEPT !.weight = Whole \div Cardinality(Active(m))]
                   ELSE m.inputs[i]]
<1>1. Reweighted(m).inputs = f
  BY DEF Reweighted, IsManifest
<1>2. ASSUME NEW i \in Listed(m) PROVE KeepsRecording(m.inputs[i], f[i])
  <2>1. m.inputs[i] \in Recordings
    BY DEF IsManifest, Listed
  <2> QED BY <2>1 DEF KeepsRecording, KeepsStatus, Recordings
<1>3. DOMAIN f = Listed(m)
  OBVIOUS
<1> HIDE DEF f
<1> QED BY <1>1, <1>2, <1>3 DEF KeepsAll, Keeps, Listed

LEMMA AcceptedKeeps ==
  ASSUME NEW m, NEW d
  PROVE  KeepsAll(m, Accepted(m, d))
BY KeepsRecordingReflexive DEF KeepsAll, Keeps, Accepted, Listed

(* Outputs recorded, all or up to the first that disagrees.                 *)
LEMMA OutputsRecordedKeeps ==
  ASSUME NEW m, IsManifest(m), NEW v \in Versions, NEW outputs
  PROVE  KeepsAll(m, OutputsRecorded(m, v, outputs))
<1> DEFINE f == [i \in Listed(m) |->
                   IF i \in TakesOutputs(m, v, outputs)
                   THEN [m.inputs[i] EXCEPT !.outputs[v] = outputs[i]]
                   ELSE m.inputs[i]]
<1>1. OutputsRecorded(m, v, outputs).inputs = f
  BY DEF OutputsRecorded, IsManifest
<1>2. ASSUME NEW i \in Listed(m) PROVE KeepsRecording(m.inputs[i], f[i])
  <2>1. m.inputs[i] \in Recordings /\ m.inputs[i].outputs \in [Versions -> Outs \cup {None}]
    BY DEF IsManifest, Listed, Recordings
  <2>2. CASE i \notin TakesOutputs(m, v, outputs)
    BY <2>2, KeepsRecordingReflexive
  <2>3. CASE i \in TakesOutputs(m, v, outputs)
    <3>1. i \notin Disagreeing(m, v, outputs) /\ outputs[i] # None
      <4>1. i \in Nat
        BY DEF IsManifest, Listed, Ids
      <4> QED BY <2>3, <4>1 DEF TakesOutputs
    <3>2. m.inputs[i].outputs[v] \in {None, outputs[i]}
      BY <3>1 DEF Disagreeing
    <3>3. f[i] = [m.inputs[i] EXCEPT !.outputs[v] = outputs[i]]
      BY <2>3
    <3> QED BY <2>1, <3>2, <3>3 DEF KeepsRecording, KeepsStatus, Recordings
  <2> QED BY <2>2, <2>3
<1>3. DOMAIN f = Listed(m)
  OBVIOUS
<1> HIDE DEF f
<1> QED BY <1>1, <1>2, <1>3 DEF KeepsAll, Keeps, Listed

(* When none disagrees, those of all that ran are there.                    *)
LEMMA OutputsRecordedHas ==
  ASSUME NEW m, IsManifest(m), NEW v \in Versions, NEW ran \in SUBSET Listed(m),
         MayRecordOutputs(m, v, Outputs(m, v, ran)), NEW i \in ran
  PROVE  HasOutput(OutputsRecorded(m, v, Outputs(m, v, ran)), <<m.inputs[i].sha, v>>)
<1> DEFINE o == Outputs(m, v, ran)
           n == OutputsRecorded(m, v, o)
           t == <<m.inputs[i].sha, v>>
<1>1. m.inputs[i] \in Recordings /\ m.inputs[i].outputs \in [Versions -> Outs \cup {None}]
      /\ m.inputs[i].sha \in Hashes
  BY DEF IsManifest, Listed, Recordings
<1>2. o[i] = Out(v, m.inputs[i].sha)
  BY DEF Outputs
<1>3. o[i] # None
  BY <1>1, <1>2, OutAssumption, NoneAssumption
<1> HIDE DEF o
<1>4. i \in TakesOutputs(m, v, o)
  BY <1>3 DEF TakesOutputs, MayRecordOutputs, o
<1>5. n.inputs = [j \in Listed(m) |->
                    IF j \in TakesOutputs(m, v, o)
                    THEN [m.inputs[j] EXCEPT !.outputs[v] = o[j]] ELSE m.inputs[j]]
  BY DEF OutputsRecorded, IsManifest
<1>6. i \in Listed(n) /\ n.inputs[i] = [m.inputs[i] EXCEPT !.outputs[v] = o[i]]
  BY <1>4, <1>5 DEF Listed
<1> HIDE DEF n
<1>7. n.inputs[i].sha = t[1] /\ n.inputs[i].outputs[t[2]] = Out(t[2], t[1])
  BY <1>1, <1>2, <1>6 DEF Recordings
<1> HIDE DEF t
<1>8. HasOutput(n, t)
  BY <1>6, <1>7 DEF HasOutput
<1> QED BY <1>8 DEF n, o, t

\* A new recording is listed once, and it is the one it was made of.
LEMMA RecordedHashes ==
  ASSUME NEW m, IsManifest(m), NEW h, NEW w
  PROVE  /\ OneId(m) => OneId(Recorded(m, h, w))
         /\ FoundByHash(Recorded(m, h, w), h)
         /\ Keeps(m, Recorded(m, h, w))
         /\ \A i \in Listed(Recorded(m, h, w)) :
               \/ Recorded(m, h, w).inputs[i].sha = h
               \/ i \in Listed(m) /\ Recorded(m, h, w).inputs[i].sha = m.inputs[i].sha
<1>1. CASE FoundByHash(m, h)
  BY <1>1, KeepsReflexive DEF Recorded
<1>2. CASE ~FoundByHash(m, h)
  <2> DEFINE S == Listed(m) \cup {NextID(m)}
             f == [i \in S |-> IF i \in Listed(m) THEN m.inputs[i] ELSE NewRecording(h, w)]
             n == Recorded(m, h, w)
  <2>1. n.inputs = f
    BY <1>2 DEF Recorded, IsManifest
  <2>2. NextID(m) \notin Listed(m)
    <3>1. NextID(m) \in Nat /\ \A i \in Listed(m) : i < NextID(m)
      BY NextIDIsNew DEF Ids
    <3> QED BY <3>1
  <2>3. Listed(n) = S
    BY <2>1 DEF Listed
  <2>4. n.inputs[NextID(m)].sha = h
    BY <2>1, <2>2 DEF NewRecording
  <2>5. \A i \in Listed(m) : n.inputs[i] = m.inputs[i]
    BY <2>1
  <2> HIDE DEF n, f
  <2>6. OneId(m) => OneId(n)
    BY <1>2, <2>3, <2>4, <2>5 DEF OneId, FoundByHash
  <2>7. FoundByHash(n, h) /\ Keeps(m, n)
    BY <2>3, <2>4, <2>5, KeepsRecordingReflexive DEF FoundByHash, Keeps
  <2>8. \A i \in Listed(n) : \/ n.inputs[i].sha = h
                             \/ i \in Listed(m) /\ n.inputs[i].sha = m.inputs[i].sha
    BY <2>3, <2>4, <2>5
  <2> QED BY <2>6, <2>7, <2>8 DEF n
<1> QED BY <1>1, <1>2

(***************************************************************************)
(* Ids, however the commands interleave: each copy has one id for a        *)
(* recording, whatever the others did to the file since it was loaded, and *)
(* the file is always one of the copies.                                   *)
(***************************************************************************)
OneIdEach == OneId(file) /\ \A p \in Procs : OneId(mem[p])

\* What a command that ends has saved: its copy, or one that keeps all of it.
Saves(p, n) == KeepsAll(mem[p], n) /\ Save(p, n)

LEMMA Ending ==
  ASSUME TypeInv, NEW p \in Procs, Ends(p), ~Stop(p)
  PROVE  /\ \E n : Saves(p, n) /\ n = file'
         /\ pc[p] # "idle"
         /\ \/ UNCHANGED <<told, said>>
            \/ told' = told \cup given[p] /\ todo[p] = <<>> /\ said' = said
            \/ said' = said \cup outs[p] /\ pc[p] = "recorded" /\ told' = told
               /\ file' = mem[p]
<1>1. IsManifest(mem[p]) /\ KeepsAll(mem[p], mem[p])
  BY KeepsReflexive DEF TypeInv, TypeOK
<1>2. CASE SaveRecord(p) \/ SaveReplay(p)
  BY <1>1, <1>2 DEF SaveRecord, SaveReplay, Save, Saves
<1>3. CASE SaveReweight(p)
  BY <1>1, <1>3, ReweightedKeeps DEF SaveReweight, claims, Save, Saves
<1>4. CASE \E d \in Diffs : SaveClose(p, d)
  BY <1>1, <1>4, AcceptedKeeps DEF SaveClose, claims, Save, Saves
<1> QED BY <1>2, <1>3, <1>4 DEF Ends

\* What a step other than an end or a save changes of a copy.
LEMMA Working ==
  ASSUME TypeInv, NEW p \in Procs, NEW v \in Versions, NEW ran \in SUBSET Listed(mem[p]),
         RecordReplay(p, v, ran) \/ RefuseReplay(p, v, ran)
  PROVE  /\ KeepsAll(mem[p], mem'[p]) /\ pc[p] = "replay" /\ pc'[p] \in {"recorded", "refused"}
         /\ \A q \in Procs \ {p} : /\ mem'[q] = mem[q] /\ outs'[q] = outs[q]
                                   /\ pc'[q] = pc[q]
         /\ UNCHANGED <<file, data, todo, given, told, said, behind, overwrote, shared, lost>>
<1>1. KeepsAll(mem[p], OutputsRecorded(mem[p], v, Outputs(mem[p], v, ran)))
  BY OutputsRecordedKeeps DEF TypeInv, TypeOK
<1> QED BY <1>1 DEF RecordReplay, RefuseReplay, Ran, TypeInv, TypeOK, claims, overlaps

LEMMA OneIdStep ==
  ASSUME TypeInv, OneIdEach, NEW p \in Procs, Step(p)
  PROVE  OneIdEach'
<1>0. /\ IsManifest(file) /\ IsManifest(mem[p]) /\ DOMAIN mem = Procs
      /\ OneId(file) /\ OneId(mem[p]) /\ OneId(Empty)
  BY DEF TypeInv, TypeOK, OneIdEach, OneId, Listed, Empty
<1>1. CASE End(p) /\ OneId(file')
  BY <1>0, <1>1 DEF End, OneIdEach
<1>2. CASE UNCHANGED <<file, mem>>
  BY <1>2 DEF OneIdEach, OneId, Listed
<1>3. CASE \E at : Load(p, at)
  BY <1>0, <1>3 DEF Load, OneIdEach
<1>4. CASE WriteFile(p)
  <2>1. OneId(Recorded(mem[p], Head(todo[p]), 0))
    BY <1>0, RecordedHashes
  <2> QED BY <1>0, <1>4, <2>1 DEF WriteFile, OneIdEach
<1>5. CASE \E v \in Versions, ran \in SUBSET Listed(mem[p]) :
              RecordReplay(p, v, ran) \/ RefuseReplay(p, v, ran)
  BY <1>0, <1>5, Working, KeepsAllFacts DEF OneIdEach
<1>6. CASE Stop(p)
  BY <1>0, <1>1, <1>6 DEF Stop
<1>7. CASE Ends(p) /\ ~Stop(p)
  BY <1>0, <1>1, <1>7, Ending, KeepsAllFacts DEF Saves, Save
<1> QED
  BY <1>2, <1>3, <1>4, <1>5, <1>6, <1>7
     DEF Step, Start, StartRecord, SkipFile, OpenFile, StartReplay, StartClose, StartReweight

\* A recording is listed once, whatever is recorded again, after which crash,
\* and whichever commands run at the same time.
THEOREM OneIdPerRecordingAlways ==
  ASSUME \A m \in Starts : OneId(m)
  PROVE  Spec => []OneIdPerRecording
<1>1. Init => OneIdEach
  BY DEF Init, OneIdEach, OneId, Listed, Empty
<1>2. TypeInv /\ OneIdEach /\ [Next]_vars => OneIdEach'
  <2> SUFFICES ASSUME TypeInv, OneIdEach, [Next]_vars PROVE OneIdEach'
    OBVIOUS
  <2>1. CASE \E h \in Hashes : Lose(h)
    BY <2>1 DEF Lose, OneIdEach, OneId, Listed
  <2>2. CASE UNCHANGED vars
    BY <2>2 DEF vars, OneIdEach, OneId, Listed
  <2> QED BY <2>1, <2>2, NextIsStep, OneIdStep
<1>3. OneIdEach => OneIdPerRecording
  BY DEF OneIdEach, OneId, OneIdPerRecording
<1> QED BY <1>1, <1>2, <1>3, TypeInvariant, PTL DEF Spec

(***************************************************************************)
(* The inductive invariant.  What makes the properties hold at a save is   *)
(* how the copy a command works on relates to the file, which others save  *)
(* meanwhile.  Until it is behind, its copy keeps what the file lists.     *)
(* While nothing was overwritten, all it lists more than the file was      *)
(* given to it; and it lists whatever it was given and the file has, for   *)
(* only a record given the same recording can have listed it meanwhile.    *)
(***************************************************************************)

\* Two records at a time were given the same recordings only if shared says so.
Apart == \A p, q \in Procs : p # q => given[p] \cap given[q] \subseteq shared

\* What a record was given is in its copy or still to do.
Taken ==
  \A p \in Procs : \A h \in given[p] : h \in Range(todo[p]) \/ FoundByHash(mem[p], h)

Produced == \A p \in Procs : pc[p] = "recorded" => \A t \in outs[p] : HasOutput(mem[p], t)

UpToDate == \A p \in Procs : pc[p] # "idle" /\ p \notin behind => Keeps(file, mem[p])

HasData(m) ==
  \A i \in Listed(m) : m.inputs[i].sha \notin lost \cup shared => data[m.inputs[i].sha] = "good"

Origin ==
  \A p \in Procs : \A h \in Hashes :
    FoundByHash(mem[p], h) => FoundByHash(file, h) \/ h \in given[p]

Noticed ==
  \A p \in Procs : \A h \in given[p] \ shared : FoundByHash(file, h) => FoundByHash(mem[p], h)

Told == \A h \in told : FoundByHash(file, h)

Said == \A t \in said : HasOutput(file, t)

Order == Apart /\ Taken /\ Produced /\ UpToDate

Sound == HasData(file) /\ (\A p \in Procs : HasData(mem[p])) /\ Origin /\ Noticed /\ Told /\ Said

IInv == TypeInv /\ Order /\ (~overwrote => Sound)

LEMMA InitIInv == Init => IInv
<1> SUFFICES ASSUME Init PROVE IInv
  OBVIOUS
<1>1. TypeInv
  BY InitType
<1>2. HasData(file) /\ \A p \in Procs : HasData(mem[p])
  <2>1. \A i \in Listed(file) : file.inputs[i].sha \in Hashes
    BY <1>1 DEF TypeInv, TypeOK, IsManifest, Recordings, Listed
  <2>2. HasData(file)
    BY <2>1 DEF Init, HasData, FoundByHash
  <2>3. HasData(Empty)
    BY DEF HasData, Listed, Empty
  <2> QED BY <2>2, <2>3 DEF Init
<1>3. \A h : ~FoundByHash(Empty, h)
  BY DEF FoundByHash, Listed, Empty
<1>4. Order
  BY DEF Init, Order, Apart, Taken, Produced, UpToDate
<1>5. Origin /\ Noticed /\ Told /\ Said
  BY <1>3 DEF Init, Origin, Noticed, Told, Said
<1> QED BY <1>1, <1>2, <1>4, <1>5 DEF IInv, Sound

(* A command starts.                                                        *)
LEMMA StartStep ==
  ASSUME IInv, NEW p \in Procs, Start(p)
  PROVE  Order' /\ (~overwrote' => Sound')
<1>0. TypeInv /\ given \in [Procs -> SUBSET Hashes] /\ DOMAIN mem = Procs
  BY DEF IInv, TypeInv, TypeOK
<1>1. PICK at \in Pcs \ {"idle", "writing", "recorded"}, files \in Seq(Hashes) :
            /\ Load(p, at)
            /\ todo' = [todo EXCEPT ![p] = files]
            /\ given' = [given EXCEPT ![p] = Range(files)]
            /\ shared' = shared \cup (Range(files) \cap UNION {given[q] : q \in Procs \ {p}})
  BY <1>0, Starting
<1>2. /\ UNCHANGED <<file, data, outs, told, said, behind, overwrote, lost>>
      /\ mem'[p] = file /\ pc'[p] \notin {"idle", "recorded"}
      /\ todo'[p] = files /\ given'[p] = Range(files)
      /\ \A q \in Procs \ {p} : /\ mem'[q] = mem[q] /\ pc'[q] = pc[q] /\ todo'[q] = todo[q]
                                /\ given'[q] = given[q]
      /\ shared \subseteq shared'
  BY <1>0, <1>1 DEF Load, TypeInv, TypeOK, claims
<1>3. Apart'
  <2> SUFFICES ASSUME NEW r \in Procs, NEW q \in Procs, r # q
               PROVE  given'[r] \cap given'[q] \subseteq shared'
    BY DEF Apart
  <2>1. \A q1 \in Procs \ {p} : Range(files) \cap given[q1] \subseteq shared'
    BY <1>1
  <2>2. CASE r = p \/ q = p
    BY <1>2, <2>1, <2>2
  <2>3. CASE r # p /\ q # p
    BY <1>2, <2>3 DEF IInv, Order, Apart
  <2> QED BY <2>2, <2>3
<1>4. Taken' /\ Produced'
  BY <1>2 DEF IInv, Order, Taken, Produced
<1>5. UpToDate'
  BY <1>2, KeepsReflexive DEF IInv, Order, UpToDate
<1>6. ASSUME ~overwrote' PROVE Sound'
  <2>1. Sound
    BY <1>2, <1>6 DEF IInv
  <2>2. HasData(file)' /\ \A q \in Procs : HasData(mem[q])'
    BY <1>2, <2>1 DEF Sound, HasData
  <2>3. Origin' /\ Noticed'
    BY <1>2, <2>1 DEF Sound, Origin, Noticed
  <2>4. Told' /\ Said'
    BY <1>2, <2>1 DEF Sound, Told, Said, HasOutput, Listed
  <2> QED BY <2>2, <2>3, <2>4 DEF Sound
<1> QED BY <1>3, <1>4, <1>5, <1>6 DEF Order

(* A record finds the next file done, or opens it: nothing new in its copy. *)
LEMMA SkipStep ==
  ASSUME IInv, NEW p \in Procs, SkipFile(p)
  PROVE  Order' /\ (~overwrote' => Sound')
<1>1. todo[p] \in Seq(Hashes) /\ todo[p] # <<>> /\ FoundByHash(mem[p], Head(todo[p]))
  BY TakeType DEF SkipFile, IInv
<1>2. /\ UNCHANGED <<file, data, pc, mem, given, outs, told, said, behind, overwrote, shared, lost>>
      /\ todo'[p] = Tail(todo[p]) /\ \A q \in Procs \ {p} : todo'[q] = todo[q]
  BY DEF SkipFile, claims, overlaps, IInv, TypeInv, TypeOK
<1>3. Taken'
  <2>1. \A h \in Range(todo[p]) : h = Head(todo[p]) \/ h \in Range(todo'[p])
    BY <1>1, <1>2, HeadAndTail
  <2> QED BY <1>1, <1>2, <2>1 DEF IInv, Order, Taken
<1>4. Apart' /\ Produced' /\ UpToDate'
  BY <1>2 DEF IInv, Order, Apart, Produced, UpToDate, HasOutput, Listed
<1>5. Sound => Sound'
  BY <1>2 DEF Sound, HasData, Origin, Noticed, Told, Said, HasOutput, Listed
<1> QED BY <1>2, <1>3, <1>4, <1>5 DEF IInv, Order

LEMMA OpenStep ==
  ASSUME IInv, NEW p \in Procs, OpenFile(p)
  PROVE  Order' /\ (~overwrote' => Sound')
<1> DEFINE h == Head(todo[p])
<1>1. h \in Hashes /\ h \in given[p]
  BY TakeType DEF IInv
<1>2. /\ UNCHANGED <<file, mem, todo, given, outs, told, said, behind, overwrote, shared, lost>>
      /\ pc[p] = "files" /\ pc'[p] = "writing" /\ \A q \in Procs \ {p} : pc'[q] = pc[q]
      /\ \A g \in Hashes \ {h} : data'[g] = data[g]
      /\ ~FoundByHash(mem[p], h) \/ data[h] = "absent"
  BY <1>1 DEF OpenFile, claims, overlaps, IInv, TypeInv, TypeOK
<1> HIDE DEF h
<1>3. Order'
  BY <1>2 DEF IInv, Order, Apart, Taken, Produced, UpToDate, HasOutput, Listed
<1>4. ASSUME ~overwrote' PROVE Sound'
  <2>1. Sound /\ Apart
    BY <1>2, <1>4 DEF IInv, Order
  <2>2. h \in lost \cup shared \/ data[h] # "good" \/ ~FoundByHash(file, h)
    BY <1>1, <1>2, <2>1 DEF Sound, Noticed
  <2>3. ASSUME NEW m, IsManifest(m), HasData(m), FoundByHash(m, h) => h \in lost \cup shared
        PROVE  \A i \in Listed(m) :
                  m.inputs[i].sha \notin lost \cup shared => data'[m.inputs[i].sha] = "good"
    <3> SUFFICES ASSUME NEW i \in Listed(m), m.inputs[i].sha \notin lost \cup shared
                 PROVE  data'[m.inputs[i].sha] = "good"
      OBVIOUS
    <3>1. data[m.inputs[i].sha] = "good"
      BY <2>3 DEF HasData
    <3>2. m.inputs[i].sha # h
      BY <2>3 DEF FoundByHash
    <3>3. m.inputs[i].sha \in Hashes
      BY <2>3 DEF IsManifest, Recordings, Listed
    <3> QED BY <1>2, <3>1, <3>2, <3>3
  <2>4. ASSUME NEW m, HasData(m), FoundByHash(m, h), data[h] # "good"
        PROVE  h \in lost \cup shared
    BY <2>4 DEF HasData, FoundByHash
  <2>5. IsManifest(file) /\ HasData(file) /\ \A q \in Procs : IsManifest(mem[q]) /\ HasData(mem[q])
    BY <2>1 DEF IInv, TypeInv, TypeOK, Sound
  <2>6. FoundByHash(file, h) => h \in lost \cup shared
    BY <2>2, <2>4, <2>5
  <2>7. ASSUME NEW q \in Procs, FoundByHash(mem[q], h) PROVE h \in lost \cup shared
    <3>1. CASE q = p
      <4>1. data[h] # "good"
        BY <1>2, <2>7, <3>1
      <4> QED BY <2>4, <2>5, <2>7, <4>1
    <3>2. CASE q # p /\ h \in given[q]
      BY <1>1, <2>1, <3>2 DEF Apart
    <3>3. CASE FoundByHash(file, h)
      BY <2>6, <3>3
    <3> QED BY <1>1, <2>1, <2>7, <3>1, <3>2, <3>3 DEF Sound, Origin
  <2>8. HasData(file)' /\ \A q \in Procs : HasData(mem[q])'
    <3>1. HasData(file)'
      BY <1>2, <2>3, <2>5, <2>6 DEF HasData
    <3>2. ASSUME NEW q \in Procs PROVE HasData(mem[q])'
      <4> DEFINE m == mem[q]
      <4>1. IsManifest(m) /\ HasData(m) /\ (FoundByHash(m, h) => h \in lost \cup shared)
        BY <2>5, <2>7
      <4>2. mem'[q] = m /\ lost' = lost /\ shared' = shared
        BY <1>2
      <4> HIDE DEF m
      <4>3. \A i \in Listed(m) :
                  m.inputs[i].sha \notin lost \cup shared => data'[m.inputs[i].sha] = "good"
        BY <2>3, <4>1
      <4> QED BY <4>2, <4>3 DEF HasData
    <3> QED BY <3>1, <3>2
  <2>9. (Origin /\ Noticed /\ Told /\ Said)'
    BY <1>2, <2>1 DEF Sound, Origin, Noticed, Told, Said, HasOutput, Listed
  <2> QED BY <2>8, <2>9 DEF Sound
<1> QED BY <1>3, <1>4

(* Its bytes are there, and it joins the copy.                              *)
LEMMA WriteStep ==
  ASSUME IInv, NEW p \in Procs, WriteFile(p)
  PROVE  Order' /\ (~overwrote' => Sound')
<1> DEFINE h == Head(todo[p])
           n == Recorded(mem[p], h, 0)
<1>1. /\ todo[p] \in Seq(Hashes) /\ todo[p] # <<>> /\ h \in Hashes /\ h \in given[p]
      /\ \A g \in Range(todo[p]) : g = h \/ g \in Range(Tail(todo[p]))
  BY TakeType, HeadAndTail DEF IInv
<1>2. /\ UNCHANGED <<file, given, outs, told, said, behind, overwrote, shared, lost>>
      /\ pc[p] = "writing" /\ pc'[p] = "files" /\ \A q \in Procs \ {p} : pc'[q] = pc[q]
      /\ mem'[p] = n /\ \A q \in Procs \ {p} : mem'[q] = mem[q]
      /\ todo'[p] = Tail(todo[p]) /\ \A q \in Procs \ {p} : todo'[q] = todo[q]
      /\ data'[h] = "good" /\ \A g : data[g] = "good" => data'[g] = "good"
  BY <1>1 DEF WriteFile, claims, overlaps, IInv, TypeInv, TypeOK
<1>3. /\ FoundByHash(n, h) /\ Keeps(mem[p], n)
      /\ \A i \in Listed(n) :
               \/ n.inputs[i].sha = h
               \/ i \in Listed(mem[p]) /\ n.inputs[i].sha = mem[p].inputs[i].sha
  BY RecordedHashes DEF IInv, TypeInv, TypeOK
<1> HIDE DEF h, n
<1>4. \A g : FoundByHash(n, g) => g = h \/ FoundByHash(mem[p], g)
  BY <1>3 DEF FoundByHash
<1>5. \A g : FoundByHash(mem[p], g) => FoundByHash(n, g)
  BY <1>3, KeepsFound
<1>6. Apart' /\ Taken' /\ Produced'
  <2>1. Taken'
    BY <1>1, <1>2, <1>3, <1>5 DEF IInv, Order, Taken
  <2>2. Produced'
    BY <1>2 DEF IInv, Order, Produced, HasOutput, Listed
  <2> QED BY <1>2, <2>1, <2>2 DEF IInv, Order, Apart
<1>7. UpToDate'
  <2>1. Keeps(file, mem[p]) => Keeps(file, n)
    BY <1>3, KeepsTransitive
  <2> QED BY <1>2, <2>1 DEF IInv, Order, UpToDate
<1>8. ASSUME ~overwrote' PROVE Sound'
  <2>1. Sound
    BY <1>2, <1>8 DEF IInv
  <2>2. HasData(file)' /\ \A q \in Procs \ {p} : HasData(mem[q])'
    BY <1>2, <2>1 DEF Sound, HasData
  <2>3. HasData(mem[p])'
    BY <1>2, <1>3, <2>1 DEF Sound, HasData
  <2>4. Origin' /\ Noticed'
    BY <1>1, <1>2, <1>4, <1>5, <2>1 DEF Sound, Origin, Noticed
  <2>5. Told' /\ Said'
    BY <1>2, <2>1 DEF Sound, Told, Said, HasOutput, Listed
  <2> QED BY <2>2, <2>3, <2>4, <2>5 DEF Sound
<1> QED BY <1>6, <1>7, <1>8 DEF Order

(* A replay records in its copy.                                            *)
LEMMA ReplayStep ==
  ASSUME IInv, NEW p \in Procs, NEW v \in Versions, NEW ran \in SUBSET Listed(mem[p]),
         RecordReplay(p, v, ran) \/ RefuseReplay(p, v, ran)
  PROVE  Order' /\ (~overwrote' => Sound')
<1>1. /\ KeepsAll(mem[p], mem'[p]) /\ pc[p] = "replay" /\ pc'[p] \in {"recorded", "refused"}
      /\ \A q \in Procs \ {p} : mem'[q] = mem[q] /\ outs'[q] = outs[q] /\ pc'[q] = pc[q]
      /\ UNCHANGED <<file, data, todo, given, told, said, behind, overwrote, shared, lost>>
  BY Working DEF IInv
<1>2. /\ Keeps(mem[p], mem'[p])
      /\ \A h : FoundByHash(mem'[p], h) => FoundByHash(mem[p], h)
      /\ \A i \in Listed(mem'[p]) : /\ i \in Listed(mem[p])
                                    /\ mem'[p].inputs[i].sha = mem[p].inputs[i].sha
  BY <1>1, KeepsAllFacts
<1>3. \A h : FoundByHash(mem[p], h) => FoundByHash(mem'[p], h)
  BY <1>2, KeepsFound
<1>4. Apart' /\ Taken'
  BY <1>1, <1>3 DEF IInv, Order, Apart, Taken
<1>5. Produced'
  <2>1. ASSUME pc'[p] = "recorded", NEW t \in outs'[p] PROVE HasOutput(mem'[p], t)
    <3>1. /\ mem'[p] = OutputsRecorded(mem[p], v, Outputs(mem[p], v, ran))
          /\ MayRecordOutputs(mem[p], v, Outputs(mem[p], v, ran))
          /\ outs'[p] = {<<mem[p].inputs[i].sha, v>> : i \in ran}
      BY <2>1 DEF RecordReplay, RefuseReplay, IInv, TypeInv, TypeOK
    <3>2. PICK i \in ran : t = <<mem[p].inputs[i].sha, v>>
      BY <2>1, <3>1
    <3>3. IsManifest(mem[p])
      BY DEF IInv, TypeInv, TypeOK
    <3> DEFINE n == OutputsRecorded(mem[p], v, Outputs(mem[p], v, ran))
    <3>4. HasOutput(n, t)
      BY <3>1, <3>2, <3>3, OutputsRecordedHas
    <3>5. mem'[p] = n
      BY <3>1
    <3> HIDE DEF n
    <3> QED BY <3>4, <3>5
  <2>2. ASSUME NEW q \in Procs \ {p}, pc'[q] = "recorded", NEW t \in outs'[q]
        PROVE  HasOutput(mem'[q], t)
    BY <1>1, <2>2 DEF IInv, Order, Produced
  <2>3. ASSUME NEW q \in Procs, pc'[q] = "recorded", NEW t \in outs'[q]
        PROVE  HasOutput(mem'[q], t)
    BY <2>1, <2>2, <2>3
  <2> QED BY <2>3 DEF Produced, HasOutput, Listed
<1>6. UpToDate'
  <2>1. Keeps(file, mem[p]) => Keeps(file, mem'[p])
    BY <1>2, KeepsTransitive
  <2> QED BY <1>1, <2>1 DEF IInv, Order, UpToDate
<1>7. ASSUME ~overwrote' PROVE Sound'
  <2>1. Sound
    BY <1>1, <1>7 DEF IInv
  <2>2. HasData(file)' /\ \A q \in Procs : HasData(mem[q])'
    BY <1>1, <1>2, <2>1 DEF Sound, HasData
  <2>3. Origin' /\ Noticed'
    BY <1>1, <1>2, <1>3, <2>1 DEF Sound, Origin, Noticed
  <2>4. Told' /\ Said'
    BY <1>1, <2>1 DEF Sound, Told, Said, HasOutput, Listed
  <2> QED BY <2>2, <2>3, <2>4 DEF Sound
<1> QED BY <1>4, <1>5, <1>6, <1>7 DEF Order

(* A command ends.  What it leaves to the others, if it saved nothing new   *)
(* or none of them is up to date any more.                                  *)
LEMMA EndOrder ==
  ASSUME IInv, NEW p \in Procs, End(p), shared' = shared,
         (file' = file /\ behind' = behind \ {p}) \/ Running \ {p} \subseteq behind'
  PROVE  Order'
<1>1. /\ mem'[p] = Empty /\ given'[p] = {} /\ pc'[p] = "idle"
      /\ \A q \in Procs \ {p} : /\ mem'[q] = mem[q] /\ given'[q] = given[q] /\ pc'[q] = pc[q]
                                /\ todo'[q] = todo[q] /\ outs'[q] = outs[q]
  BY DEF End, IInv, TypeInv, TypeOK
<1>2. Apart' /\ Taken'
  BY <1>1 DEF IInv, Order, Apart, Taken
<1>3. Produced'
  BY <1>1 DEF IInv, Order, Produced, HasOutput, Listed
<1>4. UpToDate'
  BY <1>1 DEF IInv, Order, UpToDate, Running
<1> QED BY <1>2, <1>3, <1>4 DEF Order

LEMMA StopStep ==
  ASSUME IInv, NEW p \in Procs, Stop(p)
  PROVE  Order' /\ (~overwrote' => Sound')
<1>1. /\ End(p) /\ UNCHANGED <<file, data, told, said, overwrote, shared, lost>>
      /\ behind' = behind \ {p}
  BY DEF Stop, claims
<1>2. Order'
  BY <1>1, EndOrder
<1>3. /\ mem'[p] = Empty /\ given'[p] = {}
      /\ \A q \in Procs \ {p} : mem'[q] = mem[q] /\ given'[q] = given[q]
  BY <1>1 DEF End, IInv, TypeInv, TypeOK
<1>4. Listed(Empty) = {} /\ \A h : ~FoundByHash(Empty, h)
  BY DEF FoundByHash, Listed, Empty
<1>5. ASSUME Sound PROVE Sound'
  <2>1. HasData(file)' /\ \A q \in Procs : HasData(mem[q])'
    BY <1>1, <1>3, <1>4, <1>5 DEF Sound, HasData
  <2>2. Origin' /\ Noticed'
    BY <1>1, <1>3, <1>4, <1>5 DEF Sound, Origin, Noticed
  <2>3. Told' /\ Said'
    BY <1>1, <1>5 DEF Sound, Told, Said, HasOutput, Listed
  <2> QED BY <2>1, <2>2, <2>3 DEF Sound
<1> QED BY <1>1, <1>2, <1>5 DEF IInv

LEMMA SaveStep ==
  ASSUME IInv, NEW p \in Procs, Ends(p), ~Stop(p)
  PROVE  Order' /\ (~overwrote' => Sound')
<1>0. TypeInv /\ TypeInv'
  BY EndingType DEF IInv
<1>1. /\ \E n : Saves(p, n) /\ n = file'
      /\ pc[p] # "idle"
      /\ \/ UNCHANGED <<told, said>>
         \/ told' = told \cup given[p] /\ todo[p] = <<>> /\ said' = said
         \/ said' = said \cup outs[p] /\ pc[p] = "recorded" /\ told' = told /\ file' = mem[p]
  BY <1>0, Ending
<1>2. /\ KeepsAll(mem[p], file') /\ End(p) /\ UNCHANGED <<data, shared, lost>>
      /\ behind' = (IF file' = file THEN behind ELSE Running) \ {p}
      /\ overwrote' = (overwrote \/ p \in behind)
  BY <1>1 DEF Saves, Save
<1>3. Order'
  BY <1>2, EndOrder
<1>4. ASSUME ~overwrote' PROVE Sound'
  <2>1. Sound /\ p \notin behind
    BY <1>2, <1>4, Zenon DEF IInv
  <2>2. /\ Keeps(mem[p], file') /\ Keeps(file, mem[p])
        /\ \A h : FoundByHash(file', h) => FoundByHash(mem[p], h)
        /\ \A i \in Listed(file') : /\ i \in Listed(mem[p])
                                    /\ file'.inputs[i].sha = mem[p].inputs[i].sha
    BY <1>1, <1>2, <2>1, KeepsAllFacts DEF IInv, Order, UpToDate
  <2>3. Keeps(file, file')
    BY <2>2, KeepsTransitive
  <2>4. \A h : FoundByHash(file, h) \/ FoundByHash(mem[p], h) => FoundByHash(file', h)
    BY <2>2, <2>3, KeepsFound
  <2>5. /\ mem'[p] = Empty /\ given'[p] = {}
        /\ \A q \in Procs \ {p} : mem'[q] = mem[q] /\ given'[q] = given[q]
    BY <1>2 DEF End, IInv, TypeInv, TypeOK
  <2>6. Listed(Empty) = {} /\ \A h : ~FoundByHash(Empty, h)
    BY DEF FoundByHash, Listed, Empty
  <2>7. HasData(file)' /\ \A q \in Procs : HasData(mem[q])'
    BY <1>2, <2>1, <2>2, <2>5, <2>6 DEF Sound, HasData
  <2>8. Origin'
    BY <2>1, <2>4, <2>5, <2>6 DEF Sound, Origin
  <2>9. Noticed'
    <3> SUFFICES ASSUME NEW q \in Procs, NEW h \in given'[q] \ shared', FoundByHash(file', h)
                 PROVE  FoundByHash(mem'[q], h)
      BY DEF Noticed
    <3>1. q # p /\ h \in given[q] /\ h \notin shared /\ h \in Hashes
      BY <1>0, <1>2, <2>5 DEF TypeInv, TypeOK
    <3>2. FoundByHash(file, h) \/ h \in given[p]
      BY <2>1, <2>2, <3>1 DEF Sound, Origin
    <3>3. h \notin given[p]
      BY <3>1 DEF IInv, Order, Apart
    <3> QED BY <2>1, <2>5, <3>1, <3>2, <3>3 DEF Sound, Noticed
  <2>10. Told'
    <3>1. \A h \in told : FoundByHash(file', h)
      BY <2>1, <2>4 DEF Sound, Told
    <3>2. ASSUME todo[p] = <<>>, NEW h \in given[p] PROVE FoundByHash(file', h)
      <4>1. Range(todo[p]) = {}
        BY <3>2 DEF Range
      <4> QED BY <2>4, <4>1 DEF IInv, Order, Taken
    <3> QED BY <1>1, <3>1, <3>2 DEF Told
  <2>11. Said'
    <3>1. ASSUME NEW t \in said PROVE HasOutput(file', t)
      <4>1. t \in Hashes \X Versions /\ HasOutput(file, t)
        BY <1>0, <2>1 DEF TypeInv, TypeOK, Sound, Said
      <4> QED BY <2>3, <4>1, KeepsOutput
    <3>2. ASSUME pc[p] = "recorded", file' = mem[p], NEW t \in outs[p] PROVE HasOutput(file', t)
      BY <3>2 DEF IInv, Order, Produced
    <3>3. \A t \in said' : HasOutput(file', t)
      BY <1>1, <3>1, <3>2
    <3> QED BY <3>3 DEF Said, HasOutput, Listed
  <2> QED BY <2>7, <2>8, <2>9, <2>10, <2>11 DEF Sound
<1> QED BY <1>3, <1>4

LEMMA LoseStep ==
  ASSUME IInv, NEW h \in Hashes, Lose(h)
  PROVE  Order' /\ (~overwrote' => Sound')
<1>1. /\ UNCHANGED <<file, pc, mem, todo, given, outs, told, said, behind, overwrote, shared>>
      /\ lost' = lost \cup {h} /\ \A g \in Hashes \ {h} : data'[g] = data[g]
  BY DEF Lose, claims, overlaps, IInv, TypeInv, TypeOK
<1>2. Order'
  BY <1>1 DEF IInv, Order, Apart, Taken, Produced, UpToDate, HasOutput, Listed
<1>3. ASSUME Sound PROVE Sound'
  <2>1. ASSUME NEW m, IsManifest(m), HasData(m)
        PROVE  \A i \in Listed(m) :
                  m.inputs[i].sha \notin lost' \cup shared' => data'[m.inputs[i].sha] = "good"
    <3>1. \A i \in Listed(m) : m.inputs[i].sha \in Hashes
      BY <2>1 DEF IsManifest, Recordings, Listed
    <3> QED BY <1>1, <2>1, <3>1 DEF HasData
  <2>2. HasData(file)' /\ \A q \in Procs : HasData(mem[q])'
    <3>1. IsManifest(file) /\ HasData(file) /\ \A q \in Procs : IsManifest(mem[q]) /\ HasData(mem[q])
      BY <1>3 DEF IInv, TypeInv, TypeOK, Sound
    <3>2. file' = file /\ mem' = mem
      BY <1>1
    <3> QED BY <2>1, <3>1, <3>2 DEF HasData
  <2>3. (Origin /\ Noticed /\ Told /\ Said)'
    BY <1>1, <1>3 DEF Sound, Origin, Noticed, Told, Said, HasOutput, Listed
  <2> QED BY <2>2, <2>3 DEF Sound
<1> QED BY <1>1, <1>2, <1>3 DEF IInv

LEMMA IInvStep == IInv /\ [Next]_vars => IInv'
<1> SUFFICES ASSUME IInv, [Next]_vars PROVE IInv'
  OBVIOUS
<1>0. TypeInv
  BY DEF IInv
<1>1. ASSUME NEW p \in Procs, Step(p) PROVE IInv'
  <2>1. TypeInv'
    BY <1>0, <1>1, StepType
  <2>2. Order' /\ (~overwrote' => Sound')
    BY <1>1, StartStep, SkipStep, OpenStep, WriteStep, ReplayStep, StopStep, SaveStep DEF Step
  <2> QED BY <2>1, <2>2 DEF IInv
<1>2. ASSUME NEW h \in Hashes, Lose(h) PROVE IInv'
  BY <1>0, <1>2, LoseType, LoseStep DEF IInv
<1>3. CASE UNCHANGED vars
  <2>1. TypeInv'
    BY <1>0, <1>3 DEF vars, claims, overlaps, counters, TypeInv, TypeOK, WritingHasFile,
                      IdleHasNone, Running
  <2>2. Order'
    BY <1>3 DEF vars, claims, overlaps, IInv, Order, Apart, Taken, Produced, UpToDate,
                HasOutput, Listed
  <2>3. Sound => Sound'
    BY <1>3 DEF vars, claims, overlaps, Sound, HasData, Origin, Noticed, Told, Said,
                HasOutput, Listed
  <2> QED BY <1>3, <2>1, <2>2, <2>3 DEF IInv, vars, overlaps
<1> QED BY <1>0, <1>1, <1>2, <1>3, NextIsStep

LEMMA Invariance == Spec => []IInv
BY InitIInv, IInvStep, PTL DEF Spec

(***************************************************************************)
(* The properties, from any corpus and however commands overlap.           *)
(***************************************************************************)

\* Wherever commands are killed, the manifest lists an input only with its data:
\* unless the file was lost, two records of it overlapped, or a command saved
\* over what another had saved.
THEOREM DataBeforeManifestAlways == Spec => []DataBeforeManifest
<1>1. IInv => DataBeforeManifest
  BY DEF IInv, Sound, HasData, DataBeforeManifest
<1> QED BY <1>1, Invariance, PTL

\* What a record said it recorded stays listed, until a command saves over what
\* another had saved.
THEOREM ToldIsListedAlways == Spec => []ToldIsListed
<1>1. IInv => ToldIsListed
  BY DEF IInv, Sound, Told, ToldIsListed
<1> QED BY <1>1, Invariance, PTL

\* So do the outputs a replay said it recorded, which are those the version had.
THEOREM SaidIsRecordedAlways == Spec => []SaidIsRecorded
<1>1. IInv => SaidIsRecorded
  BY DEF IInv, Sound, Said, SaidIsRecorded, HasOutput
<1> QED BY <1>1, Invariance, PTL

=============================================================================
