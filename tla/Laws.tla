---------------------------------- MODULE Laws ----------------------------------
(***************************************************************************)
(* A set of laws and what checking it reports (pkg/law), with the laws of  *)
(* the sample system (examples/querystring/laws).  A law is quantified     *)
(* over the inputs testing/quick happens to generate for it.               *)
(***************************************************************************)
EXTENDS QueryString

CONSTANT Lacking    \* A name, a statement or an executable form that is missing.

Props == {"RoundTrips", "RenderIsIdempotent", "KeyOrderSurvives", "ValuesKeepTheirOrder"}

Laws == [name : Props \cup {Lacking}, statement : {"stated", Lacking}, prop : Props \cup {Lacking}]

----------------------------------------------------------------------------
(* The four laws of any codec. *)

ReadBack(c, q) == ParseQuery(c, RenderQuery(c, q))
ReadsBack(c, q) == Parses(c, RenderQuery(c, q))

Holds(prop, c, q) ==
    CASE prop = "RoundTrips" ->
            ReadsBack(c, q) /\ Canonical(ReadBack(c, q)) = Canonical(q)
      [] prop = "RenderIsIdempotent" ->
            ReadsBack(c, q) /\ RenderQuery(c, ReadBack(c, q)) = RenderQuery(c, q)
      [] prop = "KeyOrderSurvives" -> ReadsBack(c, q) /\ ReadBack(c, q).keys = q.keys
      [] prop = "ValuesKeepTheirOrder" ->
            /\ ReadsBack(c, q)
            /\ \A k \in Range(q.keys) :
                  /\ k \in DOMAIN ReadBack(c, q).values
                  /\ ReadBack(c, q).values[k] = q.values[k]

----------------------------------------------------------------------------
(* Verify and Check. *)

\* Without a name, a statement or an executable form a law is none.
Valid(law) == law.name # Lacking /\ law.statement # Lacking /\ law.prop # Lacking

\* Mutant of Verifies: a law is looked at and not tried.
VerifiesForm(law, c, tried) == Valid(law)

Verifies(law, c, tried) == Valid(law) /\ \A q \in tried : Holds(law.prop, c, q)

\* The laws that Check reports, each tried on the inputs drawn for it: a law is
\* reported for a name that an earlier one has, and for not holding.
Reported(laws, c, draws) ==
    {i \in DOMAIN laws :
        \/ \E j \in 1..(i - 1) : laws[j].name = laws[i].name
        \/ ~Verifies(laws[i], c, draws[i])}

=============================================================================
