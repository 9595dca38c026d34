# A verification of germline

germline keeps four durable artifacts beside a program whose code may be
regenerated at any time: laws, a boundary, a corpus of recorded inputs, and a
record of decisions. This directory holds TLA+ models of the parts of it that
must not go wrong for the method to mean anything, the runs that check them
with TLC, and theorems about them that TLAPS checks.

`PROJECT.json` lists every run, mutant, mapped definition, hazard, finding and
theorem; this file explains them.

## 1. The system

| component | state | operations | interacts with |
|---|---|---|---|
| replay engine, `pkg/replay/replay.go` | outcome slots, a channel of indices, a progress counter, `ctx` | `Run`, `replayOne`, `Result.Record` | reads the manifest and the data files, runs subjects |
| subject command, `Command.Run` | child process, capped output, timeout | `Run`, kill of the process group | one call per input and version |
| corpus manifest, `pkg/corpus` | `corpus/manifest.json`: inputs, accepted and proposed closes | `Load`, `Save`, `Validate`, `VerifyAppendOnly` | every command |
| corpus data, `corpus/inputs/<hash>` | content-addressed files | written by `record`, read by replay | may be absent from a clone |
| commands, `cmd/germline` | a copy of the manifest while one runs | `record`, `reweight`, `replay`, `close`, `boundary`, `check` | load, change the copy, save it whole; no lock |
| ledger, `pkg/replay/close.go` | none of its own | `AsImplementation`, `AsLaw`, `AsBoundary`, `Accept`, `Propose`, `Open`, `Awaiting` | reads boundary, laws, decisions, git |
| boundary, `pkg/boundary` | `BOUNDARY.md` | `Parse`, `Render`, `Project`, `Distinguish` | projected from the record, read by closes |
| decision record, `pkg/decide` | Go source of a store | `Names`, `Declines`, `Missing` | written by people |
| approval, `internal/approve` | git history | `Committed` (blame of an entry's lines) | called by the ledger |
| project check, `internal/project` | none | `Check`, `Status` | manifest against itself and HEAD, citations, drift |
| witnesses, `pkg/boundary/witness.go` | the subject a test package swaps | `Distinguish` | applies a perturbation per entry, runs laws |
| laws, `pkg/law` | a set of laws | `Verify`, `Check`, scans of Go source | `testing/quick` draws the inputs |
| metrics, `internal/metric` | none | counts for a report | reads the artifacts |
| atomic replacement, `internal/atomicfile` | a file and a temporary beside it | `Write` | every save of the manifest and of `BOUNDARY.md` |
| stop hook, `hooks/replaygate` | fuel, kept by stull; `settings.local.json` | `wrap`, `run`, `install -write` | runs `make replay` when a session stops |
| sample system, `examples/querystring` | none | `Parse`, `Render` of two codecs | governed by laws, boundary and witnesses |

Hard behaviours: the worker pool of a replay with cancellation; read-modify-write
of one manifest by commands that may overlap or be killed; a relation between
commits that is only ever checked one commit at a time; evidence (decision,
entry, approval) that is read before it is used and can change in between; a
verdict computed from a manifest loaded before a run of minutes; files replaced by
processes that fail, are killed or lose power; a check that must say the same in a
clone that has less than the place it was committed from; a gate with one budget for
two purposes.

What makes each component correct is the properties of section 3. The hazards in
`PROJECT.json` are the places where these can go wrong, each at its line.

## 2. The modules

| module | models | abstraction |
|---|---|---|
| `ReplayData` | facts about an input, outcomes, results, `replayOne`, one turn of the collecting loop | outputs are equal or not |
| `SequentialReplay` | what `Run` promises: the active inputs one by one, by their own facts; cancelling is all or nothing | abstract specification |
| `ReplayRun` | `replay.Run`: caller, workers, channel, slots, counter, lock, callback, cancellation | a subject's run is one step with any ending |
| `Manifest` | `pkg/corpus` and what the commands make of a manifest; no variables | a manifest is a function from ids to recordings plus a sequence of closes; `sha` stands for the three fields fixed at recording |
| `History` | the manifest in the working tree, in the index and at HEAD; every command, edits by hand, stage, commit with or without the hook, restore | commands are whole |
| `CorpusFile` | the commands step by step over manifest and data files, overlapping, killed or failing anywhere | a manifest save is one step (it is a rename); a data write is two (truncate, write) |
| `Command` | one run of a subject: program, children, process group, pipe, output limit, deadline, `WaitDelay` | the three pipes are one; time is an event that may come whenever |
| `BoundaryProjection` | `BOUNDARY.md` as lines, the record beside it, `Parse`, `Render`, `wrap`, `Project`, `boundary -write`, the check of one against the other, `entrySource` | a word is its entry, place and length; what a rendered line reads back as is a constant |
| `CloseLedger` | evidence, approval, accept, propose, and the verdict of a replay and its save, while record, boundary and commits move | an entry is the set of its lines; one close and one replay run at a time, and a close loads and saves the manifest in one step |
| `ReplacedFile` | what `atomicfile` promises: a file replaced in one step or not at all, by several processes, with power losses | abstract specification |
| `AtomicFile` | `Write`, one action per system call, with failures, kills, a chmod, and what a power loss leaves of unsynced data | an inode is its content, its bits and whether they reached the disk |
| `QueryString` | the sample system's `Parse` and `Render`, both codecs and the perturbed ones; no variables | an escape is one byte with the case of its digits |
| `Laws` | the four laws of a codec, `Verify`, `Set.Check`; no variables | the draws of `testing/quick` are a set of queries |
| `Witnesses` | `Distinguish`, step by step, over `Laws` | a suite reports or panics |
| `DecisionRecord` | what `pkg/decide` reads of a record's files; no variables | a declaration is the fields the reader looks at; a string is the pieces it joins |
| `ProjectCheck` | `germline check` of a whole project: store, boundary, manifest, data, citations; edits, renames, configuration, commits and clones | a check is one step; a file's layout is `BoundaryProjection`'s |
| `StopGate` | `wrap`, the hook's run, `install -write`, with stull's runtime around them | a machine is its states and what each reading of the replay does |
| `Picking` | the part of a sequence that a loop of the code keeps, in its order; no variables | a filter without recursion, which proofs can follow |
| `ManifestProofs` | lemmas about the operators of `Manifest`: what each operation keeps of a manifest, that it appends, that appending composes | |
| `ReplayRunProofs`, `HistoryProofs`, `CorpusFileProofs`, `CloseLedgerProofs`, `AtomicFileProofs` | theorems about the module of that name | |
| `ProcessProofs` | theorems about `Command` and `StopGate`, the two places that run another program | |
| `BoundaryProofs` | theorems about `BoundaryProjection`, `ProjectCheck` and `Witnesses` | |
| `MC...` | the instances TLC checks | |

`History`, `CorpusFile`, `CloseLedger` and `ProjectCheck` are built on the one
`Manifest`, so a command changes the manifest in the same way in all four; they
differ in what they take apart: commits, file steps, evidence, the places a check
runs in. A save of the manifest is one step in `CorpusFile` because `AtomicFile`
implements `ReplacedFile`. `ProjectCheck` reads `DecisionRecord`, and `Witnesses`
runs the `Laws` of `QueryString`.

Correspondence, where it is not one action per operation:

* `ReplayRun`. `Send` is the rendezvous on the unbuffered channel and is a step of
  the caller and of the worker that receives. `Fetch`, `RunWas` and `RunNow` are
  the three calls of `replayOne`; each may end it. `Count`, `EnterProgress` and
  `LeaveProgress` are lines 316 to 319, apart because the counter is incremented
  outside the lock. The collecting loop runs over active inputs; `CollectNext`
  passes over the others without effect so that positions are those of the
  manifest. A subject's outputs are fixed beforehand in `corpus`: a replay runs a
  version on an input once, so this loses no behaviour, flaky subjects included.
* `CorpusFile`. `record` is `StartRecord`, then `SkipFile` or `OpenFile` and
  `WriteFile` per file, then `SaveRecord`. `Stop` is a kill, an error or a refusal
  at any point. `Lose` is a data file that disappears while no command runs. `replay
  -record` is `StartReplay`, then `RecordReplay` and `SaveReplay`, or `RefuseReplay`, after
  which the copy has what `Result.Record` took before the input that disagrees. Any number
  of commands run at a time, each on the copy it loaded. `behind`, `overwrote` and `shared`
  are no state of the code: they remember that a command saved over what another had saved
  since it loaded, and that two records of one file ran at a time.
* `CloseLedger`. `close` is `StartClose` (loads `BOUNDARY.md`), `Judge` or
  `JudgeAwaiting` (record, laws, blame), and `Accept` or `Propose` (loads and saves
  the manifest). `JudgeAwaiting` covers every error of the approver, as
  `AsBoundary` wraps them all in `ErrAwaitingHuman`. `replay` is `StartReplay` and
  `EndReplay`, with anything in between; with `-record` it is `EndReplayRecording`, which
  saves the manifest loaded before the run. Reading the record and the blame is one
  step. A decline of another system in a shared record is not represented.

* `Command`. `os/exec` is external: `Reap` and `HearWatcher` are its `Wait`, `Cancel`
  and `CancelDelayed` its watching goroutine, `Copy` its copying one, which calls
  `capped.Write`. `Cancel` is `killGroupOnCancel` (`grouped`: built for unix) or the
  default. What the program and its children do, `Subject`, is anything at all.
* `AtomicFile`. `CreateTemp` gives a name nobody has, so a temporary that outlives its
  writer touches nothing and is forgotten. `Return` is the deferred `os.Remove` and the
  return. `had` remembers the bits the path had since each call began. `Flush` is the
  file system writing the directory out at a time of its own: `Write` does not sync the
  directory, so a power loss may bring back an earlier file, whole.
* `Witnesses`. `runPerturbed` is `Perturb`, `RunSuite` and `Restore`, the last being the
  deferred undo with what `Distinguish` makes of the verdict. Every draw of
  `testing/quick` is a choice of the action, one per law.
* `ProjectCheck`. `Green` is `Project.check` with no problem found; `StoreOf` with the
  flag "named" is `-store` naming the project's own directory from where the command is
  run, which the code does not take for the project's own. `Clone` is a checkout of
  HEAD elsewhere: no git configuration, no untracked data, no empty directory.
* `StopGate`. `AskToStop` is the session's stop reaching the hook, or finding it absent or
  unable to run, which lets the session go; `ReplayEnds`, `TimesOut` and `NotOurs` are
  the ways `execModel` comes back, each with stull's one transition, `Fire`. The
  installer reads in one step and writes in two, and others write the settings before,
  between and after: the code holds no lock. `InstallStops` is an installer killed or
  failing before it truncates the file, `InstallStopsWriting` one that does after: any part
  of what it had read is left, with the hook or without, and the rest is gone. `Break` and
  `Mend` are a slip of somebody who edits the file, and its repair from what is in it.
  `put` is no state of the code: it is what others had in the file while no install ran,
  less what an install killed in its write destroyed.
* `BoundaryProjection`. `Write` is `boundary -write` as one step; a refusal changes
  nothing and is no step. `Put` is one turn of the loop of `wrap`; `ListFirst`,
  `ListEnd` and `Joined` are `collectItems`. An empty item, a blank line that has
  spaces and a heading that is missing are not represented.

## 3. What is checked

Passing runs:

* `replay_run` (2 workers, 3 inputs, any of them retired, damaged, failing or
  different, progress on, cancelled at any time or not). No input is in two
  hands (`OneHand`), which is why the unlocked slots are sound; the loop reads each input's own outcome and
  no error of a cancelled context (`CollectsTheFacts`); everything active is
  accounted for (`EveryInputAccountedFor`); each count is reported once
  (`ProgressComplete`); the pool implements `SequentialReplay`
  (`RefinesSequential`) and `Run` returns (`Terminates`).
* `history` (2 recordings, 2 versions, 3 changes, hook installed, whole files
  committed). Nothing a commit said is ever unsaid (`NothingCommittedIsUnsaid`);
  the check would pass from every earlier HEAD (`HistoryIsAppendOnly`); somebody
  who only runs commands and retires inputs is never refused (`HonestWorkAppends`).
* `corpus_file` (two commands at a time, 4 commands, 1 lost file; 897,000 states). The
  same bytes never get two ids, whatever overlaps (`OneIdPerRecording`). Until a command
  saves over what another saved since it loaded: a listed input has its data, unless that
  was lost or two records of it overlapped, of which the second truncates the file the
  first has listed (`DataBeforeManifest`); what a record reported stays listed
  (`ToldIsListed`); and the outputs a replay reported are in the manifest and stay, while
  none comes of a `Record` that refused halfway (`SaidIsRecorded`).
* `close_ledger` (two differences, an entry of two lines, 2 edits or builds; 2.6 million
  states). Every accepted close has the evidence of its kind behind it, at least once
  while it was judged (`EvidenceBehindEveryClose`), and no difference has two closes
  (`OneCloseEach`). A verdict read off a stale copy is still true of the manifest as it is
  (`VerdictsStand`). A difference once closed or proposed stays accounted for, whatever
  becomes of the other; a `replay -record` that saves the manifest it loaded before its run
  undoes what was saved meanwhile, and never more (`AccountedForStays`).

* `command` (a program and two it may start, a limit of one byte, two bytes
  written). What `Run` returns for an output is all that was written, by a run that
  nobody killed and that exited with 0 (`OutputIsWhole`), whichever of deadline,
  exit and delay comes first; nothing that stayed in the group survives a deadline
  that `Run` saw (`NoStragglers`); and `Run` returns whatever the subject does
  (`Returns`).
* `boundary` (seven entries of the shapes that matter, three files to begin with, an edit
  by hand, two declines at a time, any number of writes). A written file reads back as
  its prose and the entries it was given, and a second write changes nothing
  (`WriteSettles`); no write takes an observable off the list
  (`NoPromiseByAccident`); a green check means that the list is the record's, in its
  order (`CheckedIsRecorded`). The first two are said of entries that are `Printable`.
  The last says of each entry what the line of the recorded one reads as: the check
  compares rendered lines, in which two blanks are one, so a reason that differs from the
  record's in its spacing alone (the entry `padded`) is green.

* `atomic_file` (two writers, two contents, two modes, any call failing, kills, a
  chmod and a power loss at any time). `Write` implements `ReplacedFile` (`Replaces`):
  neither a reader nor a power loss finds a part of a content, an error has replaced
  nothing and a success has. The file never keeps the bits of a temporary (`ModeKept`),
  and a call that returned left none (`TypeOK`).
* `witnesses` (three boundaries, four lists of witnesses, four suites, queries of up to two
  pairs over keys and values every codec treats differently). The subject is back
  outside of a run, whatever the suite does (`SubjectRestored`). With all four laws,
  each tried on every query, an entry is confirmed exactly when the perturbed codec
  still gives every query back (`VerdictsAreTrue`): the laws pin all of a query and
  nothing else. The laws never catch a behaviour the shipped boundary declines, whatever is
  drawn (`ShippedBoundaryHolds`).
* `project_check` (two names, seven records, three trees to begin with, three edits, any
  number of commits). What is green and committed is green in a clone, without a
  record, a configuration or the data (`CloneStaysGreen`). A green check with the record the
  project ships, or else with the one git config names, means that no declaration the
  reader takes for a decline is missing from the file, but in the second those of other
  systems (`NothingDeclinedIsUnpublished`). A declaration whose observable is computed is
  no decline to the reader, and `-store` is another matter: see `project_named`. A rename that takes a project's declines from it
  makes the check red (`RenameIsLoud`).
* `stop_gate` (today's upstream machine and five it might become, four units of fuel,
  two foreign entries of the settings). While there is fuel no stop goes by unjudged,
  none that is red, and each refusal says how to close (`GateStands`); a session that
  keeps trying stops in the end (`SessionsEnd`). An install takes out of the settings
  nothing that others had put there before it began, and nothing of what an install killed
  in its write has left, which the next one refuses to read (`OthersKept`). An installer
  killed between truncation and write does destroy what it has not written back, and one
  that another tool's write meets takes that out: the property promises neither.

Violated: `boundary_wrapped`. `entrySource` looks for the whole observable on one line
(`project.go:191`), and `boundary -write` wraps at 76 columns, so an entry whose
observable spans two lines is never approved, committed or not.

Violated: `project_named`. A record is taken for the project's own when its path is the
string `project.go:117` compares it with, which is absolute. Named with `-store` from where
the command is run, as `examples/querystring/README.md:54` does, the record the project
ships counts as one elsewhere, and its decline under another system's name is passed over
with a green check, against the comment at `project.go:121`.

Behaviours the models have and no run is spent on:

* `History` without `StagesAll`: the hook checks the working tree and the commit takes the
  index, so a rewritten manifest that is staged and put back in the tree is committed.
* `CorpusFile`, `CloseLedger`: of two commands that overlap, the one that saves last undoes
  what the other saved: a recording, an output, a close (`corpuscmd.go:178`). A replay
  `-record` that takes minutes makes this easy to meet. Without `~overwrote`,
  `ToldIsListed` fails in a few steps.
* `CloseLedger`: what a close rests on may be withdrawn between judging and saving, and the
  close is saved.
* `StopGate`: a killed install destroys the settings, and one that another tool's write
  meets takes that write out.
* `CorpusFile`: a restore killed half way leaves a torn data file, and recording the
  input again answers that it is already recorded (`corpuscmd.go:60`).
* `CloseLedger`: a difference closed as implementation that shows again is passed over in
  silence (`close.go:69` against `:222`).

Seen while reading: `Save` says inputs and accepted diffs are
sorted and sorts inputs only; the index of `compareDiffs` keeps the last of two
closes of one difference, so one written in front of it goes unseen
(`NoReclosedDiff` in `History` states what `README.md` promises); progress counts
may reach the callback out of order, as the counter is outside of its lock; what
the hook refuses passes in CI, where the manifest is compared with itself, against
`.githooks/pre-commit:3`; an entry whose first word does not fit beside the dash, or
whose version holds a comma, is rendered and not read back, against
`boundary.go:186`; the boundary reopen rate counts closes by decision and not by entry;
ids of two branches that record at once collide, as `nextID` is one past the highest;
approval is asked of the lines an entry has, so one that lost a line since is approved;
`record` does not sync the data files, so a power loss can leave a synced manifest that
lists a torn one; an observable that is a constant's name in the record reads as nothing
and is no decline (`decide.go:351`); the witness for the plus sign changes what is parsed and what is
rendered, two observables, against `witness_test.go:14`; removing the `=` of an empty
value turns the pair of an empty key into no pair at all (`witness_test.go:46`), which
no law meets as generated keys are not empty; an `init` killed while it writes leaves a
torn file that the next one keeps (`init.go:64`).

### Bounds

Every bound is a constant named in its module (`MaxEdits`, `MaxCommands`,
`MaxLosses`, `MaxChanges`, `PipeSize`, `MaxWritten`, `MaxDeclines`, `MaxLines`). Two workers and three inputs make every pairwise
meeting of workers, and one input more than there are workers makes one worker go
round twice. Three edits and any number of commits reach a rewrite, a commit and
a second rewrite on top of it; transitivity, which is what more commits would
exercise, is proved. Four commands, two of them at a time, reach record, loss, killed restore and record, and
any two overlapping twice.
Two bytes against a limit of one pass it, and two children make one that
leaves the group and one that stays. A width of 10 wraps entries of three words at
every place `wrap` tells apart, and two declines make a record that forgets one of
two. Two edits of a two-line entry, or an edit and a build, reach write, commit, and a
change between judging and saving, or while a replay runs. Two writers make every meeting of two renames; the two modes are
that of a temporary and that of a new file, either of which a file may have had before. Two pairs make every order of equal and
different keys, which is what `KeyOrderSurvives` and `ValuesKeepTheirOrder` tell apart.
Three edits, counted by `MaxEdits`, reach a record put there, an entry taken out and a
rename, from trees that already agree with a record. Four units of fuel make two full
rounds of refusal and green stop. Every property has a mutant of the code that breaks it
under the same bounds.

`LineSymmetry` in `MCCloseLedger` permutes the lines of an entry, which no
definition tells apart, and `ProcSymmetry` in `MCCorpusFile` the commands; they are used
only with invariants and an action property.

Deadlock is checked in `stop_gate` and `atomic_file`, which never rest. It is not
elsewhere: a replay, a run and a check of witnesses end, bounds run out, and a corpus
with nothing to do may rest.

### Fairness

Only `Terminates`, `Returns` and `SessionsEnd` need any. The Go scheduler runs every goroutine that can run
(weak fairness of the caller and of each worker), a blocked send is taken once a
receiver waits, and a subject's run ends because `Command` bounds it by a
timeout (`Returns`). No fairness is assumed of cancellation. In `Command` the
goroutines of `os/exec` run, and the deadline and the delays come; nothing is asked of
the subject. In `StopGate` a session keeps trying to stop, and a replay that runs ends or
is cut off by `execTimeout`; nothing is asked of the working tree, which may stay red or
never end.

## 4. What is proved

`ReplayRunProofs`, for any number of inputs, any pool and any corpus:

* `TypeCorrect`: the type invariant.
* `OneHandAlways`, `CollectsTheFactsAlways`: from the inductive invariant of
  `Invariance`. It adds to the types that a held or queued index has an unwritten slot,
  that a slot that is written holds the input's own outcome or, once `ctx` is
  cancelled, a failure, and that after the join nobody holds anything. The
  properties alone are not inductive: that slots are right when the loop begins rests
  on what was true of every worker before.
* `EveryInputAccountedForAlways`: from an invariant of the loop (`AccountInv`) that
  counts the active inputs the loop has come past. Each turn adds one to runs or
  failures because the slot holds a run or a failure, which `CollectsTheFacts` says.
* `ProgressCompleteAlways`: from `TallyInv`, which puts every finished input with the
  counter or with a worker about to count, and every count up to the counter with the
  callback, once, or with one worker that waits for the lock. That told counts are
  distinct and fill `1..n` gives their number.
* `RefinesSequentialAlways`: `Spec => Sequential!Spec` under the identity mapping. The
  steps of the pool before the loop are stutters; a turn of the loop is `Report`
  because the slot holds `ReplayOne` of the facts.

`ManifestProofs`, for any manifests: what each operation of the commands makes of a
manifest is a manifest and, if it closed nothing twice, an append to it that closes
nothing twice. A manifest is finite, so that a next id exists that nobody has
(`NextIDIsNew`); an induction over its ids, as a descent in the well-founded order of
finite subsets, gives the highest one.

* `AppendOnlyTransitive`: the check composes. Needed because the code only ever
  compares with HEAD. Append-only is reflexive only where no difference is closed twice
  (`AppendOnlyReflexive`): the code's index keeps the last of two closes, and a manifest
  that closes one difference in two ways is no append to itself.

`HistoryProofs`, for any manifests, edits and commits:

* `TypeCorrect`: working tree, index, HEAD and history hold manifests, also after any
  edit by hand that `Tamper` stands for.
* `HistoryIsAppendOnlyAlways`, `NothingCommittedIsUnsaidAlways`, assuming `Hooked` and
  `StagesAll`: by induction over commits with transitivity. The second also needs that
  HEAD validates: a retired input with no event could be given one later.
* `HonestWorkAppendsAlways`, assuming these, that nobody writes a second close by hand
  (`~Reclosing`) and that the corpus began with none. The property is not inductive: to
  retire an input is an append only if it has no event of a retirement yet, which
  `Validate` asks of what is committed, and every operation keeps (`HonestFile`).
* `NoReclosedDiffByCommands`, with no hook at all: only a second close written by hand
  leads to one at HEAD.

`CorpusFileProofs`, for any commands, files and losses:

* `TypeCorrect`, and `OneIdPerRecordingAlways` where the corpus began without a recording
  listed twice, however the commands interleave: each copy has one id for a recording, and
  the file is always one of the copies.
* `DataBeforeManifestAlways`, `ToldIsListedAlways`, `SaidIsRecordedAlways`, with no
  hypothesis: any number of commands, however they overlap. The properties speak of the
  file, and what a save puts there was made before, in a copy. The inductive invariant
  says that the copy of a command that is not `behind` has everything the file has, and
  what the command added; that a running record has what it was given in its copy or still
  to do, and no other wrote it unless it is `shared`; that a copy that is to be saved
  came of a `Record` that went through. A save by a command that is `behind` ends these
  promises, and sets `overwrote`.

`CloseLedgerProofs`, for any artifacts, entries, differences and builds:

* `TypeCorrect`, `EvidenceBehindEveryCloseAlways`, `OneCloseEachAlways`,
  `AccountedForStaysAlways`, `VerdictsStandAlways`. The evidence of a close is
  judged in one step and written in a later one; the invariant that carries it over
  says that what a close at "accepting" rests on is in sets that only grow
  (decisions, published observables, committed lines). A verdict stands because the
  copy a replay loaded has no closes and proposals that are not accounted for in
  the file (`CopyInv`), or is the file when it was saved; the copy has one close for a
  difference and its evidence too, as it may become the file. `EvidenceBehindEveryCloseAlways` asks that the manifest begin without
  closes and `OneCloseEachAlways` that it begin with no difference closed twice:
  germline takes over what an earlier manifest holds without judging it again.

`ProcessProofs`, on `Command`, for any children, limit, pipe and output:

* `TypeCorrect`, `OutputIsWholeAlways`, `NoStragglersAlways`. An output is judged at the
  end by an exit status, a watcher's error and an overrun flag, each left by another
  goroutine earlier. The invariant follows them: no byte is lost between pipe and buffer
  until one is dropped at the limit or the pipe is cut (`BytesAddUp`), the end of the
  file comes when nobody holds the pipe (`EndOfFile`), and what disturbed the run is in
  the status or in the watcher's error until `Run` heard it (`ErrorsReachRun`), for
  which the watcher must have nothing to tell while it watches (`WatcherTells`).

`AtomicFileProofs`, for any writers, contents and modes:

* `TypeCorrect`, `ModeKeptAlways`, `ReplacesAlways`, from an invariant that follows the
  temporary: from its write on it holds what was asked, from its chmod on it has the
  bits that `Stat` found, from its sync on it is on the disk; and Stat found bits the
  path had. The mapping reads a file as its content and a call as asked until its
  rename and as replaced from then on.

`ProcessProofs`, on `StopGate`, for any fuel, settings and upstream machines. Of upstream it is assumed
that a machine begins in a live state and that one that runs a command, and refuses in
one place only, refuses there what is not zero (`MachinesAssumption`); the code checks
neither.

* `GateTypeCorrect`, `GateStandsAlways`, `OthersKeptAlways`. What carries the gate is that
  `wrap` leaves one state, so that a session never leaves it (`WrapStands`); what carries
  the settings is that an installer's copy has all that others had put in before it read,
  and that it never reads a torn file. `OthersKept` speaks of files that are torn too.

`BoundaryProofs`, on `BoundaryProjection`, for any texts, width, first files and edits:

* `CheckedPageIsRecord`: `CheckedIsRecorded`, from the types of file and record alone
  (`PageTyped`), as it speaks of one state. What is hard is under it. The check compares
  two renderings as lines, and nothing in it says that equal lines are equal entries: an
  entry may take any number of lines, wherever its words happen to fit. The proof goes
  over the lines from the end. `Wrap` opens an entry with the one line of kind "item" it
  has (`PutWraps`, `WrapWraps`), so the last such line of a list is where its last
  entry begins, and what is in front of it is a shorter list (`BlocksAreLines`). Two
  lists with equal lines agree in their last entry's words and, cut there, are again two
  lists with equal lines (`ListDecodes`, `SameLines`). `ListedRead` adds that an entry the
  file holds was read from words that say the same as its rendering.
* `WrittenPageSettles`, `NothingIsUnpublished`: `WriteSettles` and `NoPromiseByAccident`,
  for entries that are `Printable`, as the properties say, also from `PageTyped` alone.
  They are about a page no state of the model holds yet: what is read back is what
  `Render` makes of any entries, at any width. `Wrap` keeps an entry's words, in their
  order, and its first word beside the dash if it fits there (`WrapHolds`, `PutAdds`);
  without that an item's first line would be a bare dash, which no list begins with.
  `Layout` says where each block is in the page. The items of the page are the first
  lines of its blocks, no more, for no item stands between heading and list in a file
  that loads (`PreambleOpens`, `WrittenItems`), and after the last block a blank line or
  the end of the file ends the list (`WrittenBounds`). So the list that is read starts
  and ends where the one that was written does; each item joined is its entry's words
  (`WrittenJoined`), read as that entry (`WrittenReads`); taken in the order of their
  places they are the entries in their order (`InOrderIs`). With nothing to list the
  file stays as it was (`NothingListed`). That a width is a number
  (`WidthAssumption`) is assumed of it; the code's is a constant.
* The induction is on a number, the length of a list: a least counterexample
  (`LeastElement`, from the well-foundedness of finite subsets) gives induction up to a
  bound (`Ascent`) with no operator as a parameter. What a recursive function
  says for one number more is the library's definition unfolded (`Unfolding`), and a
  concatenation of a sequence of sequences is put together from its last one
  (`FlattenJoins`). Sorting a finite set of places is a bijection by rank (`Ranks`).

`BoundaryProofs`, on `ProjectCheck`, for any records, trees, names and systems:

* `CloneIsGreen`, `DeclinedIsPublished`, `RenameFailsLoudly`, from the shape of a project
  (`Shaped`). A record put into a place where there was none makes a check look at more and
  never at less, and what it looks at in a clone was looked at before the commit; a
  decline that is complete, exported and for this project is in what the record is
  read for (`DeclinesHaveAll`, `RecordedHasAll`), in which an empty file has nothing
  (`NothingRecorded`); and a document that agrees with the record under two names says
  the same under both (`TwoNames`).

`BoundaryProofs`, on `Witnesses`, for any boundary, witnesses and suite:

* `SubjectIsRestored`: while a perturbation is on the subject, the undo at hand puts the
  codec of forms back (`Undone`). The property says nothing of a run under way and is
  not inductive without it.
* `VerdictsAreTrueAlways`, from `Undone` and `Judged`. A suite that passes the baseline has
  only valid laws under names of their own (`SoundSuite`), so what it reports of a codec is
  empty exactly if the laws hold of what they are tried on (`ReportedIs`). The entries
  behind the one at hand are `Settles`d: one is not confirmed only if some law fails of
  the codec its witness leaves, and confirmed only if all hold, as far as every law was tried on
  every query; the codec at hand is that of the entry at hand, which is why `Undone` is needed.
  The four laws hold of a codec exactly if it gives every query back (`LawsPin`), for
  queries as a generator builds them (`IsQuery`, in `InputsAssumption`): the
  round trip compares the values, and only the law of the key order the keys.

The theorems rest on the named assumptions on constants, which TLC evaluates in
every run, on the hypotheses named above, which the instances TLC checks satisfy, and
on nothing else.

Only model-checked:

* `Terminates`, `Returns`, `SessionsEnd`: liveness.
* `ShippedBoundaryHolds` (`Witnesses`): it says that four codecs give a query of any
  length back, byte for byte: induction over the data that the sample system, not
  germline, defines. What a run makes of a codec that does is proved
  (`VerdictsAreTrueAlways`).

The invariant parts named here, `PageTyped`, `Shaped`, `Undone` and `Judged` among them, were
checked by TLC on the instances of section 3 before they were proved. `StopGate`'s type
invariant is proved and not checked again; `BoundaryProjection`, `Witnesses` and
`ProjectCheck` have none among the properties of their runs, their other properties
reading every variable there is.

## 5. Not modelled

Left out:

* metrics: counts over the artifacts that decide nothing;
* the law families and the scans of Go source for declared and unchecked laws: text in,
  a list of names out;
* `init` and its templates: each file that is not there is written once;
* flags, usage, printing, `status` and its counts;
* artifacts that cannot be read or parsed at all, which every command refuses;
* `boundary.Append`, which no command calls;
* `install` without `-write`, which prints.
