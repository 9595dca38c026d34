--------------------------- MODULE SequentialReplay ---------------------------
(***************************************************************************)
(* What replay.Run promises, whatever the number of workers: the active    *)
(* inputs are replayed one after the other in manifest order, each by its  *)
(* own facts alone, and a cancelled replay reports nothing.                *)
(*                                                                         *)
(* replay.go says so of the type outcome ("a parallel replay reports       *)
(* exactly what a sequential one would") and of Run ("One input crashing a *)
(* version does not stop the rest", "Canceling ctx still aborts the whole  *)
(* replay").  ReplayRun is the code, and implements this.                  *)
(***************************************************************************)
EXTENDS ReplayData

CONSTANT Worlds          \* The corpora a replay may start from (of Corpora:
                         \* ReplayRun assumes it).

VARIABLES
    corpus,      \* The facts of every input, fixed while a replay runs.
    pos,         \* The inputs reported so far.
    result,      \* What Run will return.
    verdict      \* "running", "done", or "cancelled" (ctx.Err() returned).

vars == <<corpus, pos, result, verdict>>

Init ==
    /\ corpus \in Worlds
    /\ pos = 0
    /\ result = EmptyResult
    /\ verdict = "running"

\* The next input in manifest order, reported by its facts; a retired one is
\* passed over.
Report ==
    /\ verdict = "running"
    /\ pos < N
    /\ pos' = pos + 1
    /\ result' = IF corpus[pos + 1].active
                 THEN Collect(result, pos + 1, ReplayOne(corpus[pos + 1]))
                 ELSE result
    /\ UNCHANGED <<corpus, verdict>>

Finish ==
    /\ verdict = "running"
    /\ pos = N
    /\ verdict' = "done"
    /\ UNCHANGED <<corpus, pos, result>>

\* Cancelling is all or nothing.
Abort ==
    /\ verdict = "running"
    /\ pos = 0
    /\ verdict' = "cancelled"
    /\ UNCHANGED <<corpus, pos, result>>

Next == Report \/ Finish \/ Abort

Spec == Init /\ [][Next]_vars

=============================================================================
