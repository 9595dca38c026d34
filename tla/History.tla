-------------------------------- MODULE History --------------------------------
(***************************************************************************)
(* The corpus under version control: the manifest in the working tree, the *)
(* one committed at HEAD, and the check that stands between them           *)
(* (project.checkAppendOnly, run by `germline check`).                     *)
(*                                                                         *)
(* The commands append to the working manifest; a person retires inputs by *)
(* editing it; and anybody may edit it in ways no command would.  What is  *)
(* committed is what was staged; where the pre-commit hook is installed it *)
(* compares the working manifest with HEAD first.  Commands run here one   *)
(* at a time and whole; CorpusFile models their steps.                     *)
(***************************************************************************)
EXTENDS Manifest

CONSTANTS
    Starts,      \* The manifests a history may start from.
    Hooked,      \* Whether the clone runs the tracked pre-commit hook.
    StagesAll,   \* Whether nothing is committed but what is in the working tree.
    Reclosing,   \* Whether a hand edit may close a difference a second time.
    MaxEdits     \* Bound: changes of the working manifest in a behaviour.

ASSUME StartsAssumption == \A m \in Starts : IsManifest(m) /\ Validate(m)

ASSUME HookedAssumption ==
    Hooked \in BOOLEAN /\ StagesAll \in BOOLEAN /\ Reclosing \in BOOLEAN

ASSUME MaxEditsAssumption == MaxEdits \in Nat

VARIABLES
    file,        \* corpus/manifest.json in the working tree.
    index,       \* The same in the index, staged for the next commit.
    head,        \* The same at HEAD.
    past,        \* Every manifest that was HEAD before.
    honest,      \* No edit but appends since file and HEAD were the same.
    edits        \* How often the file was changed.

vars == <<file, index, head, past, honest, edits>>

Init ==
    /\ file \in Starts
    /\ index = file
    /\ head = file
    /\ past = {}
    /\ honest = TRUE
    /\ edits = 0

\* The file becomes m, and nothing is committed.
Write(m) ==
    /\ edits < MaxEdits
    /\ file' = m
    /\ edits' = edits + 1
    /\ UNCHANGED <<index, head, past>>

----------------------------------------------------------------------------
(* The commands. *)

\* germline record of one file that is not recorded yet.
Record(h, w) ==
    /\ ~FoundByHash(file, h)
    /\ Validate(Recorded(file, h, w))
    /\ Write(Recorded(file, h, w))
    /\ UNCHANGED honest

\* germline reweight -uniform.
Reweight ==
    /\ Active(file) # {}
    /\ Validate(Reweighted(file))
    /\ Write(Reweighted(file))
    /\ UNCHANGED honest

\* germline replay -record: the outputs of the active inputs that ran.
RecordOutputs(v, outputs) ==
    /\ Validate(file)
    /\ \E i \in Listed(file) : outputs[i] # None
    /\ MayRecordOutputs(file, v, outputs)
    /\ Write(OutputsRecorded(file, v, outputs))
    /\ UNCHANGED honest

\* germline close, its evidence in order: the ledger refuses a blank reason.
Close(d) ==
    /\ d.reason # Blank
    /\ d.input \in Listed(file)
    /\ MayAccept(file, d)
    /\ Write(Accepted(file, d))
    /\ UNCHANGED honest

\* germline close of a boundary entry no human has committed.
Propose(d) ==
    /\ d.reason # Blank
    /\ d.as = "boundary"
    /\ d.input \in Listed(file)
    /\ Write(Proposed(file, d))
    /\ UNCHANGED honest

----------------------------------------------------------------------------
(* Edits by hand. *)

\* Retiring an input is an edit of the file: there is no command for it.
Retire(i, r) ==
    /\ i \in Active(file)
    /\ Write([file EXCEPT !.inputs[i].status = "retired", !.inputs[i].retired = r])
    /\ UNCHANGED honest

\* What appending would never do to a recording: rewrite it, bring it back,
\* edit its retirement event or an output.
Rewritten(in) ==
    {[in EXCEPT !.sha = h] : h \in Hashes}
      \cup {[in EXCEPT !.status = "active", !.retired = None]}
      \cup {[in EXCEPT !.retired = r] : r \in Reasons}
      \cup {[in EXCEPT !.outputs[v] = o] : v \in Versions, o \in Outs \cup {None}}

\* That, or deleting it.
TamperInput ==
    \E i \in Listed(file) :
        \/ \E in \in Rewritten(file.inputs[i]) : Write([file EXCEPT !.inputs[i] = in])
        \/ Write([file EXCEPT !.inputs = Restrict(@, Listed(file) \ {i})])

\* A close edited, deleted, or written a second time in front of the first.
TamperClose ==
    \E k \in DOMAIN file.diffs :
        \/ \E r \in Reasons : Write([file EXCEPT !.diffs[k].reason = r])
        \/ Write([file EXCEPT !.diffs = SubSeq(@, 1, k - 1) \o SubSeq(@, k + 1, Len(@))])
        \/ Reclosing /\ \E r \in Reasons :
              Write([file EXCEPT !.diffs = <<[@[k] EXCEPT !.reason = r]>> \o @])

Tamper ==
    /\ TamperInput \/ TamperClose
    /\ file' # file
    /\ honest' = FALSE

----------------------------------------------------------------------------
(* Version control. *)

\* Mutant of Check: the manifest is checked against itself only.
CheckItself(was, now) == Validate(now)

\* germline check of a working manifest against the one at HEAD.
Check(was, now) == Validate(now) /\ VerifyAppendOnly(was, now)

\* git add of the manifest.
Stage ==
    /\ index # file
    /\ index' = file
    /\ UNCHANGED <<file, head, past, honest, edits>>

\* git commit: the hook, where somebody ran `make git-hooks`, checks the working
\* tree, and what becomes HEAD is the index.
Commit ==
    /\ index # head
    /\ StagesAll => index = file
    /\ Hooked => Check(head, file)
    /\ head' = index
    /\ past' = past \cup {head}
    /\ honest' = (index = file)
    /\ UNCHANGED <<file, index, edits>>

\* git checkout HEAD of the manifest, index and all.
Restore ==
    /\ file # head
    /\ file' = head
    /\ index' = head
    /\ honest' = TRUE
    /\ UNCHANGED <<head, past, edits>>

Next ==
    \/ \E h \in Hashes, w \in {0, Whole} : Record(h, w)
    \/ Reweight
    \/ \E v \in Versions :
          \E outputs \in [Listed(file) -> Outs \cup {None}] :
             /\ \A i \in Listed(file) \ Active(file) : outputs[i] = None
             /\ RecordOutputs(v, outputs)
    \/ \E d \in [input : Listed(file), from : Versions, to : Versions, as : Closes,
                 reason : Reasons] :
          d.from # d.to /\ (Close(d) \/ Propose(d))
    \/ \E i \in Listed(file), r \in Reasons \cup {Blank} : Retire(i, r)
    \/ Tamper
    \/ Stage
    \/ Commit
    \/ Restore

Spec == Init /\ [][Next]_vars

----------------------------------------------------------------------------
(* What must hold. *)

TypeOK ==
    /\ \A m \in {file, index, head} \cup past : IsManifest(m)
    /\ honest \in BOOLEAN
    /\ edits \in 0..MaxEdits

\* What a manifest says that may never be unsaid: which recording an id is,
\* what each version put out for it, its retirement, and every close.
Said(m) ==
    {<<"recording", i, m.inputs[i].sha>> : i \in Listed(m)}
      \cup {<<"output", s[1], s[2], m.inputs[s[1]].outputs[s[2]]>> :
               s \in {t \in Listed(m) \X Versions : m.inputs[t[1]].outputs[t[2]] # None}}
      \cup {<<"retired", i, m.inputs[i].retired>> :
               i \in {j \in Listed(m) : m.inputs[j].status = "retired"}}
      \cup {<<"close", m.diffs[k]>> : k \in DOMAIN m.diffs}

\* Where the hook is installed and commits take the whole working manifest,
\* nothing that was ever committed is unsaid by a later commit, however many
\* edits and commits lie between: the check against HEAD alone is enough for
\* the whole history.
NothingCommittedIsUnsaid == \A m \in past : Said(m) \subseteq Said(head)

\* The check itself would pass from any earlier HEAD to this one.
HistoryIsAppendOnly == \A m \in past : VerifyAppendOnly(m, head)

\* Every command and every retirement is an append: somebody who does nothing
\* else is never told by the check that history was rewritten.
HonestWorkAppends == honest => VerifyAppendOnly(head, file)

\* README: `germline check` "reports any change that is not an append: [...] a
\* re-closed diff", so no two closes of one difference are ever committed.
NoReclosedDiff ==
    \A k, l \in DOMAIN head.diffs : Key(head.diffs[k]) = Key(head.diffs[l]) => k = l

=============================================================================
