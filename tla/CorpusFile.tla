------------------------------ MODULE CorpusFile ------------------------------
(***************************************************************************)
(* The commands that change the corpus, step by step over the two places   *)
(* it lives in: corpus/manifest.json and the content-addressed data files  *)
(* of corpus/inputs.                                                       *)
(*                                                                         *)
(* Every command loads the manifest, works on its own copy, and saves the  *)
(* copy whole.  No lock is held, so commands overlap, and one that saves   *)
(* may overwrite what another saved since it loaded its copy.              *)
(*                                                                         *)
(* Save replaces the file by a rename (internal/atomicfile) and is one     *)
(* step.  record writes a data file in place with os.WriteFile, which      *)
(* truncates first: two steps.  A command may be killed between any two,   *)
(* or stop on an error there, and a data file may be lost behind its back. *)
(***************************************************************************)
EXTENDS Manifest

CONSTANTS
    Procs,          \* The commands that can be running at a time.
    Files,          \* The lists of files a record may be given.
    Starts,         \* The manifests the corpus may start with.
    Out(_, _),      \* What a version puts out for a recording.
    MaxCommands,    \* Bound: commands started in a behaviour.
    MaxLosses       \* Bound: data files lost.

ASSUME StartsAssumption == \A m \in Starts : IsManifest(m) /\ Validate(m)

ASSUME FilesAssumption == Files \subseteq Seq(Hashes)

ASSUME OutAssumption == \A v \in Versions, h \in Hashes : Out(v, h) \in Outs

ASSUME BoundsAssumption ==
    /\ MaxCommands \in Nat /\ MaxLosses \in Nat

VARIABLES
    file,        \* corpus/manifest.json
    data,        \* corpus/inputs/<hash>: "absent", "torn", "good".
    pc,          \* Where each command is; "idle" when there is none.
    mem,         \* Each command's copy of the manifest.
    todo,        \* The files a record has still to take.
    given,       \* The hashes of all it was given.
    outs,        \* What a replay records: hashes, and the version they ran on.
    told,        \* The hashes a record that succeeded was given,
    said,        \* and what a replay that succeeded said it recorded.
    behind,      \* The commands whose copy the file has moved on from.
    overwrote,   \* Whether one of them saved its copy all the same.
    shared,      \* The hashes given to two records that overlapped.
    lost,        \* The hashes whose data was lost at some time.
    started,     \* How many commands were started,
    losses       \* and how many data files lost.

claims == <<told, said>>
overlaps == <<behind, overwrote, shared>>
counters == <<started, losses>>
vars == <<file, data, pc, mem, todo, given, outs, claims, overlaps, lost, counters>>

Init ==
    /\ file \in Starts
    /\ data = [h \in Hashes |-> IF FoundByHash(file, h) THEN "good" ELSE "absent"]
    /\ pc = [p \in Procs |-> "idle"]
    /\ mem = [p \in Procs |-> Empty]
    /\ todo = [p \in Procs |-> <<>>]
    /\ given = [p \in Procs |-> {}]
    /\ outs = [p \in Procs |-> {}]
    /\ told = {}
    /\ said = {}
    /\ behind = {}
    /\ overwrote = FALSE
    /\ shared = {}
    /\ lost = {}
    /\ started = 0
    /\ losses = 0

Running == {p \in Procs : pc[p] # "idle"}

\* A command begins by loading the manifest.
Load(p, at) ==
    /\ pc[p] = "idle"
    /\ started < MaxCommands
    /\ started' = started + 1
    /\ mem' = [mem EXCEPT ![p] = file]
    /\ pc' = [pc EXCEPT ![p] = at]
    /\ UNCHANGED <<file, data, outs, claims, behind, overwrote, lost, losses>>

\* A command ends, and its copy with it.
End(p) ==
    /\ pc' = [pc EXCEPT ![p] = "idle"]
    /\ mem' = [mem EXCEPT ![p] = Empty]
    /\ todo' = [todo EXCEPT ![p] = <<>>]
    /\ given' = [given EXCEPT ![p] = {}]
    /\ outs' = [outs EXCEPT ![p] = {}]

\* Manifest.Save of m, the last thing a command does, whatever was saved since
\* it loaded.
Save(p, m) ==
    /\ file' = m
    /\ behind' = (IF m = file THEN behind ELSE Running) \ {p}
    /\ overwrote' = (overwrote \/ p \in behind)
    /\ End(p)
    /\ UNCHANGED <<data, shared, lost, counters>>

----------------------------------------------------------------------------
(* germline record. *)

StartRecord(p, files) ==
    /\ Load(p, "files")
    /\ todo' = [todo EXCEPT ![p] = files]
    /\ given' = [given EXCEPT ![p] = Range(files)]
    /\ shared' = shared \cup
          (Range(files) \cap UNION {given[q] : q \in Procs \ {p}})

\* Mutant of SkipFile: a file whose name is in corpus/inputs counts as recorded.
SkipPresent(p) ==
    /\ pc[p] = "files"
    /\ todo[p] # <<>>
    /\ data[Head(todo[p])] # "absent"
    /\ todo' = [todo EXCEPT ![p] = Tail(@)]
    /\ UNCHANGED <<file, data, pc, mem, given, outs, claims, overlaps, lost, counters>>

\* The next file: its data is there and its hash recorded, so there is
\* nothing to do; os.Stat asks for the name alone.
SkipFile(p) ==
    /\ pc[p] = "files"
    /\ todo[p] # <<>>
    /\ FoundByHash(mem[p], Head(todo[p])) /\ data[Head(todo[p])] # "absent"
    /\ todo' = [todo EXCEPT ![p] = Tail(@)]
    /\ UNCHANGED <<file, data, pc, mem, given, outs, claims, overlaps, lost, counters>>

\* Or its data is written: because the hash is new, or to restore it.  The
\* file is created or truncated first.
OpenFile(p) ==
    /\ pc[p] = "files"
    /\ todo[p] # <<>>
    /\ ~FoundByHash(mem[p], Head(todo[p])) \/ data[Head(todo[p])] = "absent"
    /\ data' = [data EXCEPT ![Head(todo[p])] = "torn"]
    /\ pc' = [pc EXCEPT ![p] = "writing"]
    /\ UNCHANGED <<file, mem, todo, given, outs, claims, overlaps, lost, counters>>

\* Mutant of WriteFile: the hash is listed though its bytes were not written.
WriteNothing(p) ==
    /\ pc[p] = "writing"
    /\ mem' = [mem EXCEPT ![p] = Recorded(@, Head(todo[p]), 0)]
    /\ todo' = [todo EXCEPT ![p] = Tail(@)]
    /\ pc' = [pc EXCEPT ![p] = "files"]
    /\ UNCHANGED <<file, data, given, outs, claims, overlaps, lost, counters>>

\* The bytes are in the file; a new hash joins the copy of the manifest.
WriteFile(p) ==
    /\ pc[p] = "writing"
    /\ data' = [data EXCEPT ![Head(todo[p])] = "good"]
    /\ mem' = [mem EXCEPT ![p] = Recorded(@, Head(todo[p]), 0)]
    /\ todo' = [todo EXCEPT ![p] = Tail(@)]
    /\ pc' = [pc EXCEPT ![p] = "files"]
    /\ UNCHANGED <<file, given, outs, claims, overlaps, lost, counters>>

SaveRecord(p) ==
    /\ pc[p] = "files"
    /\ todo[p] = <<>>
    /\ Validate(mem[p])
    /\ Save(p, mem[p])
    /\ told' = told \cup given[p]
    /\ UNCHANGED said

----------------------------------------------------------------------------
(* germline replay -record. *)

StartReplay(p) ==
    /\ Load(p, "replay")
    /\ Validate(file)
    /\ UNCHANGED <<todo, given, shared>>

\* What version v puts out on the inputs that ran.
Outputs(m, v, ran) ==
    [i \in Listed(m) |-> IF i \in ran THEN Out(v, m.inputs[i].sha) ELSE None]

\* The replay ends.  An input whose data is not good fails to run, and so may
\* any other; nothing to show for active inputs is an error.
Ran(p, ran) ==
    /\ pc[p] = "replay"
    /\ ran \subseteq Active(mem[p])
    /\ \A i \in ran : data[mem[p].inputs[i].sha] = "good"
    /\ Active(mem[p]) # {} => ran # {}

\* The outputs of the new version v go into the copy loaded before the run,
RecordReplay(p, v, ran) ==
    /\ Ran(p, ran)
    /\ MayRecordOutputs(mem[p], v, Outputs(mem[p], v, ran))
    /\ mem' = [mem EXCEPT ![p] = OutputsRecorded(@, v, Outputs(@, v, ran))]
    /\ outs' = [outs EXCEPT ![p] = {<<mem[p].inputs[i].sha, v>> : i \in ran}]
    /\ pc' = [pc EXCEPT ![p] = "recorded"]
    /\ UNCHANGED <<file, data, todo, given, claims, overlaps, lost, counters>>

\* or part of them do, and one that disagrees with the copy ends the command.
RefuseReplay(p, v, ran) ==
    /\ Ran(p, ran)
    /\ ~MayRecordOutputs(mem[p], v, Outputs(mem[p], v, ran))
    /\ mem' = [mem EXCEPT ![p] = OutputsRecorded(@, v, Outputs(@, v, ran))]
    /\ pc' = [pc EXCEPT ![p] = "refused"]
    /\ UNCHANGED <<file, data, todo, given, outs, claims, overlaps, lost, counters>>

SaveReplay(p) ==
    /\ pc[p] = "recorded"
    /\ Save(p, mem[p])
    /\ said' = said \cup outs[p]
    /\ UNCHANGED told

----------------------------------------------------------------------------
(* germline close, with its evidence in order, and germline reweight. *)

StartClose(p) ==
    /\ Load(p, "close")
    /\ UNCHANGED <<todo, given, shared>>

SaveClose(p, d) ==
    /\ pc[p] = "close"
    /\ d.input \in Listed(mem[p])
    /\ MayAccept(mem[p], d)
    /\ Save(p, Accepted(mem[p], d))
    /\ UNCHANGED claims

StartReweight(p) ==
    /\ Load(p, "reweight")
    /\ UNCHANGED <<todo, given, shared>>

SaveReweight(p) ==
    /\ pc[p] = "reweight"
    /\ Active(mem[p]) # {}
    /\ Validate(Reweighted(mem[p]))
    /\ Save(p, Reweighted(mem[p]))
    /\ UNCHANGED claims

----------------------------------------------------------------------------
(* What happens to commands and files. *)

\* A command is killed, or an error or a refusal ends it: before its Save it
\* changes nothing but data files, and leaves one torn if it was writing it.
Stop(p) ==
    /\ pc[p] # "idle"
    /\ End(p)
    /\ behind' = behind \ {p}
    /\ UNCHANGED <<file, data, claims, overwrote, shared, lost, counters>>

\* A data file is lost while no command runs: a clone made without it, a disk
\* cleaned up.
Lose(h) ==
    /\ \A p \in Procs : pc[p] = "idle"
    /\ data[h] = "good"
    /\ losses < MaxLosses
    /\ losses' = losses + 1
    /\ data' = [data EXCEPT ![h] = "absent"]
    /\ lost' = lost \cup {h}
    /\ UNCHANGED <<file, pc, mem, todo, given, outs, claims, overlaps, started>>

Next ==
    \/ \E p \in Procs :
          \/ \E files \in Files : StartRecord(p, files)
          \/ SkipFile(p) \/ OpenFile(p) \/ WriteFile(p) \/ SaveRecord(p)
          \/ StartReplay(p)
          \/ \E v \in Versions, ran \in SUBSET Listed(mem[p]) :
                RecordReplay(p, v, ran) \/ RefuseReplay(p, v, ran)
          \/ SaveReplay(p)
          \/ StartClose(p)
          \/ \E d \in [input : Listed(mem[p]), from : Versions, to : Versions,
                       as : {"law"}, reason : Reasons] :
                d.from # d.to /\ SaveClose(p, d)
          \/ StartReweight(p) \/ SaveReweight(p)
          \/ Stop(p)
    \/ \E h \in Hashes : Lose(h)

Spec == Init /\ [][Next]_vars

----------------------------------------------------------------------------
(* What must hold. *)

TypeOK ==
    /\ IsManifest(file)
    /\ data \in [Hashes -> {"absent", "torn", "good"}]
    /\ pc \in [Procs -> {"idle", "files", "writing", "replay", "recorded", "refused",
                         "close", "reweight"}]
    /\ \A p \in Procs : IsManifest(mem[p])
    /\ todo \in [Procs -> Seq(Hashes)]
    /\ given \in [Procs -> SUBSET Hashes]
    /\ \A p \in Procs : Range(todo[p]) \subseteq given[p]
    /\ outs \in [Procs -> SUBSET (Hashes \X Versions)]
    /\ told \subseteq Hashes /\ said \subseteq Hashes \X Versions
    /\ behind \subseteq Running
    /\ overwrote \in BOOLEAN
    /\ shared \subseteq Hashes /\ lost \subseteq Hashes
    /\ started \in 0..MaxCommands
    /\ losses \in 0..MaxLosses

\* The corpus a reader finds is whole, wherever commands were killed and
\* however they overlap: the manifest lists an input only after its data was
\* written.  What leaves a listed input without it is the loss of its data
\* file, two records of it at a time, of which the second truncates what the
\* first has listed, or a save over what another command saved.
DataBeforeManifest ==
    ~overwrote =>
        \A i \in Listed(file) :
            file.inputs[i].sha \notin lost \cup shared => data[file.inputs[i].sha] = "good"

\* A recording has one id for its lifetime: recording the same bytes again,
\* after a crash or in one command, never lists them twice.
OneIdPerRecording ==
    \A i, j \in Listed(file) : file.inputs[i].sha = file.inputs[j].sha => i = j

\* "a corpus input, once recorded, is never rewritten and never deleted": what
\* a record that succeeded was given stays listed, until a command saves over
\* what was saved since it loaded.
ToldIsListed == ~overwrote => \A h \in told : FoundByHash(file, h)

\* "what a version did is history": the outputs a replay said it recorded are
\* all in the manifest and stay, until a command saves over what was saved
\* since it loaded.  A replay refused halfway, with its copy partly changed,
\* must not have saved it.
SaidIsRecorded ==
    ~overwrote =>
        \A t \in said : \E i \in Listed(file) :
            /\ file.inputs[i].sha = t[1]
            /\ file.inputs[i].outputs[t[2]] = Out(t[2], t[1])

=============================================================================
