----------------------------- MODULE MCStopGate -----------------------------
(* Today's upstream machine, and five it might become.                      *)
EXTENDS StopGate, TLC

State(terminal, zero, nonzero, unreadable) ==
  [terminal |-> terminal,
   on |-> ("zero" :> zero @@ "nonzero" :> nonzero @@ "unreadable" :> unreadable)]

Pass(s)  == [to |-> s, says |-> {}]
Block(s) == [to |-> s, says |-> {"output"}]

Ended == State(TRUE, Pass("done"), Pass("done"), Pass("done"))

Of(cell, states) == [initial |-> "replay", cell |-> cell, states |-> states]

\* A convergence loop: a red replay is refused, a green one ends the machine.
Converging == Of("exec",
  "replay" :> State(FALSE, Pass("done"), Block("replay"), Pass("done")) @@ "done" :> Ended)

\* The same, with a cell a model answers.
Modelled == [Converging EXCEPT !.cell = "model"]

\* One that stands already.
Standing == Of("exec",
  "replay" :> State(FALSE, Pass("replay"), Block("replay"), Pass("replay")))

\* No refusal, two of them, and two live states.
Silent == Of("exec",
  "replay" :> State(FALSE, Pass("done"), Pass("replay"), Pass("done")) @@ "done" :> Ended)
Twice == Of("exec",
  "replay" :> State(FALSE, Pass("done"), Block("replay"), Block("replay")) @@ "done" :> Ended)
Forked == Of("exec",
  "replay" :> State(FALSE, Pass("done"), Block("again"), Pass("done"))
  @@ "again" :> State(FALSE, Pass("done"), Pass("replay"), Pass("done"))
  @@ "done" :> Ended)

MCMachines == {Converging, Modelled, Standing, Silent, Twice, Forked}
=============================================================================
