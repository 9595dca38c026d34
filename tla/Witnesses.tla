------------------------------- MODULE Witnesses -------------------------------
(***************************************************************************)
(* Distinguish (pkg/boundary/witness.go) over the sample system: does the  *)
(* suite see the behaviour a boundary entry declines to promise?  The      *)
(* suite runs once on the subject as it is and once per entry on a subject *)
(* that a witness perturbed and whose undo runs whatever the suite does.   *)
(* What the suite checks and the witnesses change is all in one variable,  *)
(* the subject, that the test package swaps.                               *)
(***************************************************************************)
EXTENDS Laws

CONSTANTS
    Documents,      \* Boundaries: sequences of observables.
    WitnessLists,   \* Sequences of witnesses.
    Suites,         \* Sequences of laws.
    Samples         \* Sets of queries that testing/quick may generate for a law.

Perturbations == {"rfc", "lowerHex", "bareKey", "reversedKey"}

WitnessesAt(entries) == [entry : entries, perturb : Perturbations]

ASSUME InputsAssumption ==
    /\ \A d \in Documents : d \in Seq(Range(d)) /\ IsInjective(d)
    /\ \A laws \in Suites : laws \in Seq(Laws)
    /\ \A q \in UNION Samples : IsQuery(q)

VARIABLES
    doc, witnesses, suite,    \* What Distinguish was given.
    subject,      \* The codec the suite runs against.
    was,          \* What the undo at hand would put back.
    pc,           \* "baseline", "next", "perturbed", "judged", and the ends
                  \* "done", "refused" and "panicked".
    at,           \* The entry it is at.
    caught,       \* What the suite said of it: "nothing", "law", "panic".
    complete,     \* Whether every law was tried on all of its inputs so far.
    findings,     \* What the report says, in order.
    confirmed     \* The entries it confirms.

given == <<doc, witnesses, suite>>
distinguishVars == <<given, subject, was, pc, at, caught, complete, findings, confirmed>>

Everything == UNION Samples

Perturbed(name, codec) ==
    CASE name = "rfc" -> RFC
      [] name = "lowerHex" -> LowerHex(codec)
      [] name = "bareKey" -> BareKey(codec)
      [] name = "reversedKey" -> ReversedKey(codec)

Draws == [DOMAIN suite -> Samples]

DrewAll(draws) == \A i \in DOMAIN suite : draws[i] = Everything

DistinguishInit ==
    /\ doc \in Documents
    /\ witnesses \in WitnessLists
    /\ suite \in Suites
    /\ subject = Form /\ was = Form
    /\ pc = "baseline"
    /\ at = 0
    /\ caught = "nothing"
    /\ complete = TRUE
    /\ findings = <<>>
    /\ confirmed = {}

----------------------------------------------------------------------------

Finding(kind, entry) == [kind |-> kind, entry |-> entry]

\* The witnesses that no entry asks for.
Unclaimed == SelectSeq(witnesses, LAMBDA w : ~Contains(doc, w.entry))

\* The witness of an entry: of several the last, which the map keeps.
WitnessOf(entry) ==
    SelectLastInSeq(witnesses, LAMBDA w : w.entry = entry)

\* The suite must be green on the subject as it is.  Then each witness is kept
\* for its entry, and one that no entry asks for is reported.
Baseline(draws) ==
    /\ pc = "baseline"
    /\ IF Reported(suite, subject, draws) # {}
       THEN pc' = "refused" /\ UNCHANGED <<at, findings>>
       ELSE /\ pc' = IF doc = <<>> THEN "done" ELSE "next"
            /\ at' = 1
            /\ findings' = [i \in DOMAIN Unclaimed |-> Finding("unclaimed", Unclaimed[i].entry)]
    /\ UNCHANGED <<given, subject, was, caught, complete, confirmed>>

\* The loop goes on to the next entry.
Advance ==
    /\ pc' = IF at = Len(doc) THEN "done" ELSE "next"
    /\ at' = at + 1

Skip ==
    /\ pc = "next" /\ WitnessOf(doc[at]) = 0
    /\ findings' = Append(findings, Finding("unwitnessed", doc[at]))
    /\ Advance
    /\ UNCHANGED <<given, subject, was, caught, complete, confirmed>>

\* runPerturbed: the undo is taken before the suite runs.
Perturb ==
    /\ pc = "next" /\ WitnessOf(doc[at]) # 0
    /\ was' = subject
    /\ subject' = Perturbed(witnesses[WitnessOf(doc[at])].perturb, subject)
    /\ pc' = "perturbed"
    /\ UNCHANGED <<given, at, caught, complete, findings, confirmed>>

\* The suite runs on the perturbed subject: it reports, or it panics.
RunSuite(draws) ==
    /\ pc = "perturbed"
    /\ \/ caught' = IF Reported(suite, subject, draws) = {} THEN "nothing" ELSE "law"
       \/ caught' = "panic"
    /\ complete' = (complete /\ DrewAll(draws))
    /\ pc' = "judged"
    /\ UNCHANGED <<given, subject, was, at, findings, confirmed>>

\* Mutant of Restore: the undo runs where the suite saw nothing.
RestoreGreen ==
    /\ pc = "judged"
    /\ subject' = IF caught = "nothing" THEN was ELSE subject
    /\ IF caught = "panic"
       THEN pc' = "panicked" /\ UNCHANGED <<at, findings, confirmed>>
       ELSE /\ findings' = IF caught = "law"
                           THEN Append(findings, Finding("distinguished", doc[at])) ELSE findings
            /\ confirmed' = IF caught = "law" THEN confirmed ELSE confirmed \cup {doc[at]}
            /\ Advance
    /\ UNCHANGED <<given, was, caught, complete>>

\* The deferred undo, and the verdict on the entry; or the panic goes on.
Restore ==
    /\ pc = "judged"
    /\ subject' = was
    /\ IF caught = "panic"
       THEN pc' = "panicked" /\ UNCHANGED <<at, findings, confirmed>>
       ELSE /\ findings' = IF caught = "law"
                           THEN Append(findings, Finding("distinguished", doc[at])) ELSE findings
            /\ confirmed' = IF caught = "law" THEN confirmed ELSE confirmed \cup {doc[at]}
            /\ Advance
    /\ UNCHANGED <<given, was, caught, complete>>

DistinguishNext ==
    \/ \E draws \in Draws : Baseline(draws) \/ RunSuite(draws)
    \/ Skip \/ Perturb \/ Restore

DistinguishSpec == DistinguishInit /\ [][DistinguishNext]_distinguishVars

----------------------------------------------------------------------------
(* What must hold. *)

\* "applies a witness, runs the suite, and always restores": outside of a run
\* no perturbation is left on the subject, so that none is wrapped in the next
\* and none outlives the check, whether the suite was green, red or panicked.
SubjectRestored == pc \notin {"perturbed", "judged"} => subject = Form

\* A codec that gives every query back as it was.
Faithful(c) == \A q \in Everything : ReadsBack(c, q) /\ ReadBack(c, q) = q

\* What the laws leave open is no part of a query, and all of a query is pinned
\* by one: with all four laws, each tried on every query, an entry is
\* confirmed exactly when the perturbed codec still gives every query back.
\* "A map-backed parser that lost first-seen order would still round-trip."
VerdictsAreTrue ==
    pc = "done" /\ complete /\ {suite[i].prop : i \in DOMAIN suite} = Props =>
        \A i \in DOMAIN doc :
            WitnessOf(doc[i]) # 0 =>
                (doc[i] \in confirmed
                    <=> Faithful(Perturbed(witnesses[WitnessOf(doc[i])].perturb, Form)))

\* The boundary and the laws of the sample system agree, whatever queries the
\* generator comes up with: a suite whose laws are laws is green on the version
\* that ships, and no witness is caught but the one that reverses the keys.
ShippedBoundaryHolds ==
    /\ pc = "refused" => \E i \in DOMAIN suite :
          ~Valid(suite[i]) \/ \E j \in 1..(i - 1) : suite[j].name = suite[i].name
    /\ \A i \in DOMAIN findings : findings[i].kind = "distinguished" =>
          witnesses[WitnessOf(findings[i].entry)].perturb = "reversedKey"

=============================================================================
