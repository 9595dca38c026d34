------------------------------ MODULE MCWitnesses ------------------------------
(* Queries of up to two pairs over keys and values that the codecs treat       *)
(* differently, with witnesses as shipped, missing, doubled and unclaimed.     *)
EXTENDS Witnesses

MCReserved == {" ", "+", "%", "&", "=", "?"}
MCBytes == MCReserved \cup {"x"}
MCLettered == {"+", "=", "?"}

MCKeys == {<<"x">>, <<"?", "+">>, <<" ", "=">>}
MCValues == {<<>>, <<"+">>, <<"%", "&">>}

Pairwise == MCKeys \X MCValues

Queries ==
    {NoQuery} \cup {AddPair(NoQuery, p) : p \in Pairwise}
        \cup {AddPair(AddPair(NoQuery, p), r) : p, r \in Pairwise}

\* A generator that comes up with everything, and one that comes up with the
\* empty query alone.
MCSamples == {Queries, {NoQuery}}

Law(prop) == [name |-> prop, statement |-> "stated", prop |-> prop]

Sound == <<Law("RoundTrips"), Law("RenderIsIdempotent"), Law("KeyOrderSurvives"),
           Law("ValuesKeepTheirOrder")>>

\* The laws that ship, one short, one named twice and one that nothing executes.
MCSuites ==
    {Sound, SubSeq(Sound, 1, 2), <<Sound[1], Sound[1]>>,
     <<[Sound[1] EXCEPT !.prop = Lacking]>>}

MCDocuments == {<<"plus", "case", "empty">>, <<"order", "case">>, <<>>}

Witness(entry, name) == [entry |-> entry, perturb |-> name]

Shipped == <<Witness("plus", "rfc"), Witness("case", "lowerHex"), Witness("empty", "bareKey")>>

MCWitnessLists ==
    {Shipped, <<Witness("order", "reversedKey"), Witness("case", "lowerHex")>>,
     <<Witness("case", "reversedKey"), Witness("case", "lowerHex")>>,
     <<Witness("case", "lowerHex"), Witness("case", "reversedKey")>>}

=============================================================================
