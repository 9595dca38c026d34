------------------------------ MODULE QueryString ------------------------------
(***************************************************************************)
(* The query-string codec germline governs as its sample system            *)
(* (examples/querystring): parse and render, the two versions that are     *)
(* shipped, and the perturbed ones the boundary's witnesses install.       *)
(*                                                                         *)
(* A raw query is a sequence of bytes in which a percent sign and its two  *)
(* hex digits are one byte of their own: the byte escaped and the case of  *)
(* the digits.  A percent sign with anything else behind it is a plain one.*)
(***************************************************************************)
EXTENDS Integers, Sequences, SequencesExt

CONSTANTS
    Bytes,      \* The bytes there are, among them " ", "+", "%", "&", "=" and "?".
    Reserved,   \* Those that RFC 3986 wants escaped,
    Lettered    \* and of these the ones with a letter in their code: %2B, %3D.

ASSUME BytesAssumption ==
    /\ {" ", "+", "%", "&", "=", "?"} \subseteq Reserved
    /\ Lettered \subseteq Reserved /\ Reserved \subseteq Bytes

Raw == [byte : Bytes, as : {"plain", "upper", "lower"}]

Unescaped(b) == [byte |-> b, as |-> "plain"]
Escaped(b) == [byte |-> b, as |-> "upper"]

\* A version: whether + is a space in what it reads and writes, and what a
\* witness changed of it.  Reversed is the control, an order of keys.
Codecs == [plus : BOOLEAN, lower : BOOLEAN, bare : BOOLEAN, reversed : BOOLEAN]

Form == [plus |-> TRUE, lower |-> FALSE, bare |-> FALSE, reversed |-> FALSE]
RFC == [Form EXCEPT !.plus = FALSE]

LowerHex(c) == [c EXCEPT !.lower = TRUE]
BareKey(c) == [c EXCEPT !.bare = TRUE]
ReversedKey(c) == [c EXCEPT !.reversed = TRUE]

----------------------------------------------------------------------------
(* Bytes in and out. *)

\* Mutant of Decodes: an escape in lower case is refused.
DecodesUpper(text) ==
    \A i \in DOMAIN text :
        text[i].as # "lower" /\ (text[i].byte = "%" => text[i].as # "plain")

\* decode fails on a percent sign that no two hex digits follow.
Decodes(text) == \A i \in DOMAIN text : text[i].byte = "%" => text[i].as # "plain"

Decoded(text, plus) ==
    [i \in DOMAIN text |->
        IF plus /\ text[i] = Unescaped("+") THEN " " ELSE text[i].byte]

Encoded(bytes, plus) ==
    [i \in DOMAIN bytes |->
        IF plus /\ bytes[i] = " " THEN Unescaped("+")
        ELSE IF bytes[i] \in Reserved THEN Escaped(bytes[i]) ELSE Unescaped(bytes[i])]

----------------------------------------------------------------------------
(* Queries: the keys in the order they were first seen, and their values. *)

NoQuery == [keys |-> <<>>, values |-> [k \in {} |-> <<>>]]

\* What a generator builds: no key is empty or there twice, each has a value.
IsQuery(q) ==
    /\ q = [keys |-> q.keys, values |-> q.values]
    /\ q.keys \in Seq(Seq(Bytes) \ {<<>>}) /\ IsInjective(q.keys)
    /\ q.values \in [Range(q.keys) -> Seq(Seq(Bytes)) \ {<<>>}]

AddPair(q, pair) ==
    LET key == pair[1] IN
    [keys |-> IF Contains(q.keys, key) THEN q.keys ELSE Append(q.keys, key),
     values |-> [k \in DOMAIN q.values \cup {key} |->
        (IF k \in DOMAIN q.values THEN q.values[k] ELSE <<>>)
            \o (IF k = key THEN <<pair[2]>> ELSE <<>>)]]

\* strings.Split: what stands between the separators.
Split(text, sep) ==
    FoldLeft(LAMBDA parts, t : IF t = sep THEN Append(parts, <<>>)
                               ELSE Front(parts) \o <<Append(Last(parts), t)>>,
             << <<>> >>, text)

\* strings.Cut: the key before the first =, and the value after it or nothing.
Cut(pair) ==
    LET at == SelectInSeq(pair, LAMBDA t : t = Unescaped("="))
    IN  IF at = 0 THEN <<pair, <<>>>>
        ELSE <<SubSeq(pair, 1, at - 1), SubSeq(pair, at + 1, Len(pair))>>

Pairs(raw) ==
    LET text == IF raw # <<>> /\ Head(raw) = Unescaped("?") THEN Tail(raw) ELSE raw
        kept == SelectSeq(Split(text, Unescaped("&")), LAMBDA p : p # <<>>)
    IN  [i \in DOMAIN kept |-> Cut(kept[i])]

Parses(c, raw) ==
    \A i \in DOMAIN Pairs(raw) : Decodes(Pairs(raw)[i][1]) /\ Decodes(Pairs(raw)[i][2])

ParseQuery(c, raw) ==
    LET read == [i \in DOMAIN Pairs(raw) |->
                    <<Decoded(Pairs(raw)[i][1], c.plus), Decoded(Pairs(raw)[i][2], c.plus)>>]
        q == FoldLeft(AddPair, NoQuery, read)
    IN  [keys |-> IF c.reversed THEN Reverse(q.keys) ELSE q.keys, values |-> q.values]

\* bareKeyCodec: every "=&" becomes "&", and an "=" at the end goes.
Bared(text) ==
    LET goes(i) == text[i] = Unescaped("=") /\ (i = Len(text) \/ text[i + 1] = Unescaped("&"))
    IN  FlattenSeq([i \in DOMAIN text |-> IF goes(i) THEN <<>> ELSE <<text[i]>>])

\* lowerHexCodec: the letters of an escape.
Lowered(text) ==
    [i \in DOMAIN text |->
        IF text[i].as = "upper" /\ text[i].byte \in Lettered
        THEN [text[i] EXCEPT !.as = "lower"] ELSE text[i]]

RenderQuery(c, q) ==
    LET pairsOf(k) == [j \in DOMAIN q.values[k] |->
            Encoded(k, c.plus) \o <<Unescaped("=")>> \o Encoded(q.values[k][j], c.plus)]
        pairs == FlattenSeq([i \in DOMAIN q.keys |-> pairsOf(q.keys[i])])
        text == FlattenSeq([i \in DOMAIN pairs |->
            IF i = 1 THEN pairs[i] ELSE <<Unescaped("&")>> \o pairs[i]])
        bare == IF c.bare THEN Bared(text) ELSE text
    IN  IF c.lower THEN Lowered(bare) ELSE bare

\* Canonical forgets the order of the keys and nothing else.
Canonical(q) == q.values

=============================================================================
