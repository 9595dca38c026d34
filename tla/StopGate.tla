------------------------------ MODULE StopGate ------------------------------
(***************************************************************************)
(* hooks/replaygate: the Stop hook.  A session that asks to stop is        *)
(* refused while `make replay` is red.  The machine is stull's, a value    *)
(* this code wraps; stull's runtime, `make replay` and the settings file's *)
(* other writers are external and modelled as this code uses them.         *)
(*                                                                         *)
(* A machine is a record: its first state, what its one cell runs, and of  *)
(* each state whether it is terminal and what each reading of the replay   *)
(* does: the state it leads to, and what the refusal says (nothing: the    *)
(* stop is let through).                                                   *)
(***************************************************************************)
EXTENDS Naturals, FiniteSets

CONSTANTS Machines,   \* the machines upstream may be, today's among them
          Fuel,       \* stull's budget of transitions for a session
          Others      \* what the settings file holds that is not this hook

ASSUME StopGateAssumption == Fuel \in Nat

Readings == {"zero", "nonzero", "unreadable"}
Said == SUBSET {"output", "Instruction"}

\* A machine over a set of states, as stull has them: a refusal says what the
\* command printed, and nothing of this repository's.
MachineOver(S) ==
  [initial : S, cell : STRING,
   states : [S -> [terminal : BOOLEAN,
                   on : [Readings -> [to : S, says : SUBSET {"output"}]]]]]

VARIABLES
  upstream,  \* the machine this binary was built against
  phase,     \* the session: "working", "judging" (the hook runs) or "stopped"
  at, fuel,  \* what stull keeps for the session
  refusal,   \* what the last refusal said
  tree,      \* what a replay of the working tree would do
  settings,  \* settings.local.json: whether it is JSON, and what its text holds
  install,   \* the installer: "idle", "merged" or "truncated"
  read,      \* what the installer read
  put        \* history: what others put into the settings, less what they
             \* wrote while an install ran that then replaced it, and less
             \* what an install destroyed that was killed writing

session == <<upstream, phase, at, fuel, refusal, tree>>
file    == <<settings, install, read, put>>
gateVars    == <<session, file>>

-----------------------------------------------------------------------------
(* wrap *)

Refused == [initial |-> "none", cell |-> "none", states |-> <<>>]

Live(m) == {s \in DOMAIN m.states : ~m.states[s].terminal}

Blocks(m) == {p \in (DOMAIN m.states) \X Readings : m.states[p[1]].on[p[2]].says # {}}

\* What this code takes for granted of upstream: the machine begins in a state
\* that is live, and one that runs a command and refuses in one place only
\* refuses there what is not zero.
ASSUME MachinesAssumption ==
  \A m \in Machines :
    /\ IsFiniteSet(DOMAIN m.states)
    /\ m \in MachineOver(DOMAIN m.states)
    /\ m.initial \in Live(m)
    /\ (m.cell = "exec" /\ Cardinality(Blocks(m)) = 1)
         => \E s \in Live(m) : Blocks(m) = {<<s, "nonzero">>}

\* Every refusal gets the instruction.
Instructed(says) == IF says = {} THEN {} ELSE says \cup {"Instruction"}

\* A bug of the code: upstream's terminal states stay, and its way into them.
WrapConverging(m) ==
  IF Cardinality(Live(m)) # 1 \/ Cardinality(Blocks(m)) # 1
  THEN Refused
  ELSE [m EXCEPT !.states =
          [s \in DOMAIN m.states |->
             [m.states[s] EXCEPT !.on =
                [r \in Readings |-> [to |-> m.states[s].on[r].to,
                                     says |-> Instructed(m.states[s].on[r].says)]]]]]

\* The machine made standing: one state, every transition back to it.
wrap(m) ==
  IF Cardinality(Live(m)) # 1 \/ Cardinality(Blocks(m)) # 1
  THEN Refused
  ELSE LET loop == CHOOSE s \in Live(m) : TRUE
       IN  [m EXCEPT !.states =
              [s \in {loop} |->
                 [terminal |-> FALSE,
                  on |-> [r \in Readings |->
                            [to   |-> loop,
                             says |-> Instructed(m.states[s].on[r].says)]]]]]

Machine == wrap(upstream)

-----------------------------------------------------------------------------
(* The session and the hook.  tree is "green", "red", "slow" (a replay that *)
(* does not end) or "broken" (no exit code can be read of it).              *)

Trees == {"green", "red", "slow", "broken"}

Wired == settings.is = "json" /\ settings.hook

\* stull has a transition left to fire for this session.
Armed == fuel > 0 /\ ~Machine.states[at].terminal

\* The working tree is edited, by the session or anybody, at any time.
Edit ==
  /\ \E t \in Trees \ {tree} : tree' = t
  /\ UNCHANGED <<upstream, phase, at, fuel, refusal, file>>

\* The session asks to stop.  A hook that cannot run exits 0: it is let go.
AskToStop ==
  /\ phase = "working"
  /\ phase' = IF Wired /\ Machine # Refused /\ Armed THEN "judging" ELSE "stopped"
  /\ UNCHANGED <<upstream, at, fuel, refusal, tree, file>>

\* stull fires the transition of the reading, and one unit of fuel is spent.
Fire(reading) ==
  LET move == Machine.states[at].on[reading]
  IN  /\ phase' = IF move.says = {} THEN "stopped" ELSE "working"
      /\ refusal' = move.says
      /\ at' = move.to
      /\ fuel' = fuel - 1
      /\ UNCHANGED <<upstream, tree, file>>

ReadingOf(t) ==
  CASE t = "green" -> "zero"
    [] t = "broken" -> "unreadable"
    [] OTHER -> "nonzero"

\* The command ends and its exit code is read.
ReplayEnds ==
  /\ phase = "judging" /\ Machine.cell = "exec" /\ tree # "slow"
  /\ Fire(ReadingOf(tree))

\* A bug of the code: no bound on how long the command runs.
RunsOn ==
  /\ phase = "judging" /\ Machine.cell = "exec" /\ tree = "slow"
  /\ UNCHANGED gateVars

\* execTimeout: the command is cut off, which reads as a nonzero exit.
TimesOut ==
  /\ phase = "judging" /\ Machine.cell = "exec" /\ tree = "slow"
  /\ Fire(ReadingOf(tree))

\* A cell of another kind is not run: nothing comes back, which is unreadable.
NotOurs ==
  /\ phase = "judging" /\ Machine.cell # "exec"
  /\ Fire("unreadable")

\* Somebody prompts the session again.
Resume ==
  /\ phase = "stopped"
  /\ phase' = "working"
  /\ UNCHANGED <<upstream, at, fuel, refusal, tree, file>>

-----------------------------------------------------------------------------
(* install -write, and the settings file's other writers.  Nobody holds a   *)
(* lock, so these come and write while an install runs.                     *)

Absent == [is |-> "absent", hook |-> FALSE, others |-> {}]
Json(hook, others) == [is |-> "json", hook |-> hook, others |-> others]

\* Text that is not JSON: an install was killed, or somebody mistyped.
Torn(hook, others) == [is |-> "torn", hook |-> hook, others |-> others]

\* A bug of the code: a file that is not JSON is taken for an empty one.
InstallReadsAnything ==
  /\ install = "idle" /\ Machine # Refused
  /\ read' = IF settings.is = "torn" THEN Absent ELSE settings
  /\ install' = "merged"
  /\ UNCHANGED <<session, settings, put>>

\* The file is read; one that is not JSON is refused, and stays.
InstallReads ==
  /\ install = "idle" /\ Machine # Refused
  /\ settings.is # "torn"
  /\ read' = settings
  /\ install' = "merged"
  /\ UNCHANGED <<session, settings, put>>

\* os.WriteFile truncates the file and then writes what was merged.
InstallTruncates ==
  /\ install = "merged"
  /\ settings' = Torn(FALSE, {})
  /\ install' = "truncated"
  /\ UNCHANGED <<session, read, put>>

InstallWrites ==
  /\ install = "truncated"
  /\ settings' = Json(TRUE, read.others)
  /\ install' = "idle"
  /\ UNCHANGED <<session, read, put>>

\* A system call fails, or the installer is killed, before it writes
InstallStops ==
  /\ install = "merged"
  /\ install' = "idle"
  /\ put' = put \cup settings.others
  /\ UNCHANGED <<session, settings, read>>

\* or while it does: some of the text is there, and the rest is lost.
InstallStopsWriting ==
  /\ install = "truncated"
  /\ \E hook \in BOOLEAN, left \in SUBSET read.others :
        /\ settings' = Torn(hook, left)
        /\ put' = put \cap left
  /\ install' = "idle"
  /\ UNCHANGED <<session, read>>

\* Another tool adds an entry.
OtherWrites ==
  /\ settings.is # "torn"
  /\ \E o \in Others :
        /\ settings' = Json(settings.hook, settings.others \cup {o})
        /\ put' = IF install = "idle" THEN put \cup {o} ELSE put
  /\ UNCHANGED <<session, install, read>>

\* Somebody edits the file by hand and leaves a slip that is not JSON,
Break ==
  /\ settings.is = "json"
  /\ settings' = Torn(settings.hook, settings.others)
  /\ UNCHANGED <<session, install, read, put>>

\* or makes JSON again of what is in it.
Mend ==
  /\ settings.is = "torn" /\ install # "truncated"
  /\ settings' = Json(settings.hook, settings.others)
  /\ UNCHANGED <<session, install, read, put>>

-----------------------------------------------------------------------------

GateInit ==
  /\ upstream \in Machines
  /\ phase = "working"
  /\ at = Machine.initial
  /\ fuel = Fuel
  /\ refusal = {}
  /\ tree \in Trees
  /\ settings \in {Absent, Json(FALSE, {})}
  /\ install = "idle" /\ read = Absent /\ put = {}

Hook == ReplayEnds \/ TimesOut \/ NotOurs

GateNext ==
  \/ AskToStop \/ Hook \/ Resume \/ Edit
  \/ InstallReads \/ InstallTruncates \/ InstallWrites
  \/ InstallStops \/ InstallStopsWriting
  \/ OtherWrites \/ Break \/ Mend

\* A session keeps trying to stop, and a command that is run ends or is cut off.
GateFairness == WF_gateVars(AskToStop) /\ WF_gateVars(Hook)

GateSpec == GateInit /\ [][GateNext]_gateVars /\ GateFairness

-----------------------------------------------------------------------------
(* Properties *)

\* The values of the variables.  The session's state is one of the machine's.
GateTypeOK ==
  /\ upstream \in Machines
  /\ phase \in {"working", "judging", "stopped"}
  /\ Machine # Refused => at \in DOMAIN Machine.states
  /\ fuel \in 0..Fuel
  /\ refusal \in Said
  /\ tree \in Trees
  /\ {settings, read} \subseteq
       [is : {"absent", "torn", "json"}, hook : BOOLEAN, others : SUBSET Others]
  /\ install \in {"idle", "merged", "truncated"}
  /\ put \subseteq Others

\* The gate stands: while there is fuel, whatever upstream's machine looked
\* like and however many stops went before, a wired hook lets no stop through
\* unjudged and none whose replay is red or does not end, and each refusal
\* carries the command's output and the close instruction.
GateStands ==
  [][/\ (phase = "working" /\ phase' = "stopped" /\ Wired /\ Machine # Refused) => fuel = 0
     /\ (phase = "judging" /\ phase' = "stopped" /\ Machine.cell = "exec")
          => tree \in {"green", "broken"}
     /\ (phase = "judging" /\ phase' = "working") => refusal' = {"output", "Instruction"}]_gateVars

\* No session is trapped: one that keeps trying to stop does, though every
\* replay is red or never ends.
SessionsEnd == (phase # "stopped") ~> (phase = "stopped")

\* An install takes nothing out of the settings that others had put there
\* before it began, and none begins on a file that does not parse, be it what
\* an install that was killed has left of it.  What is destroyed between the
\* truncation and the write, and what others write while an install runs, the
\* code does not keep.
OthersKept == install # "truncated" => put \subseteq settings.others
=============================================================================
