---------------------------- MODULE ReplacedFile ----------------------------
(***************************************************************************)
(* What internal/atomicfile promises the callers of Write: a file that is  *)
(* replaced in one step, or not at all.  The file is None or one of the    *)
(* contents somebody asked for, never a part of one; a call that reports   *)
(* success has replaced it, and a call that reports an error has not.  A   *)
(* power loss may bring back an earlier file, whole.                       *)
(***************************************************************************)

CONSTANTS Writers,   \* the callers of Write, processes of their own
          Contents,  \* what a caller may ask the file to hold
          None       \* there is no file

VARIABLES content,   \* what a reader finds in the file
          durable,   \* what a power loss would leave of it
          call,      \* of each writer: "idle", "asked" or "replaced"
          asked,     \* of each writer: the content of its last call
          told       \* of each writer: what its last call returned

vars == <<content, durable, call, asked, told>>

Init ==
  /\ content \in Contents \cup {None}
  /\ durable = content
  /\ call = [w \in Writers |-> "idle"]
  /\ asked \in [Writers -> Contents]
  /\ told = [w \in Writers |-> "nothing"]

Ask(w) ==
  /\ call[w] = "idle"
  /\ \E b \in Contents : asked' = [asked EXCEPT ![w] = b]
  /\ call' = [call EXCEPT ![w] = "asked"]
  /\ told' = [told EXCEPT ![w] = "nothing"]
  /\ UNCHANGED <<content, durable>>

Replace(w) ==
  /\ call[w] = "asked"
  /\ content' = asked[w]
  /\ call' = [call EXCEPT ![w] = "replaced"]
  /\ UNCHANGED <<durable, asked, told>>

Succeed(w) ==
  /\ call[w] = "replaced"
  /\ call' = [call EXCEPT ![w] = "idle"]
  /\ told' = [told EXCEPT ![w] = "ok"]
  /\ UNCHANGED <<content, durable, asked>>

Fail(w) ==
  /\ call[w] = "asked"
  /\ call' = [call EXCEPT ![w] = "idle"]
  /\ told' = [told EXCEPT ![w] = "error"]
  /\ UNCHANGED <<content, durable, asked>>

Die(w) ==
  /\ call[w] # "idle"
  /\ call' = [call EXCEPT ![w] = "idle"]
  /\ UNCHANGED <<content, durable, asked, told>>

\* The file system writes its directory out when it likes.
Settle ==
  /\ durable' = content
  /\ UNCHANGED <<content, call, asked, told>>

LosePower ==
  /\ content' = durable
  /\ call' = [w \in Writers |-> "idle"]
  /\ UNCHANGED <<durable, asked, told>>

Next ==
  \/ \E w \in Writers : Ask(w) \/ Replace(w) \/ Succeed(w) \/ Fail(w) \/ Die(w)
  \/ Settle
  \/ LosePower

Spec == Init /\ [][Next]_vars
=============================================================================
