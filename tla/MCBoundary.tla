------------------------------- MODULE MCBoundary -------------------------------
(* Entries of every shape, at a width that some of them just fit. *)
EXTENDS BoundaryProjection

\* "reworded" has another reason than "short", "long" an observable of two words
\* that do not fit on a line, "wide" a word that does not fit beside the dash;
\* "spaced" is "short" with two blanks in its observable, "padded" with two in
\* its reason, and "comma" has a version "1, beta".
MCTexts == {"short", "reworded", "long", "wide", "spaced", "padded", "comma"}

MCObservable ==
    [e \in MCTexts |-> CASE e \in {"reworded", "padded"} -> "short" [] OTHER -> e]

MCLengths ==
    [e \in MCTexts |->
        CASE e \in {"short", "spaced", "padded"} -> <<4, 2>>
          [] e = "reworded" -> <<4, 3, 2>>
          [] e = "long" -> <<5, 5, 2>>
          [] e = "wide" -> <<9, 2>>
          [] e = "comma" -> <<3, 3>>]

MCObservableWords == [e \in MCTexts |-> IF e = "long" THEN 2 ELSE 1]

MCShown ==
    [e \in MCTexts |->
        CASE e \in {"spaced", "padded"} -> "short" [] e = "comma" -> "illegible" [] OTHER -> e]

MCFirstFiles ==
    {<<Plain("prose"), Plain("heading")>>,
     <<Plain("heading"), Plain("blank"), Plain("title"), Plain("prose")>>,
     <<Plain("heading"), Plain("prose"), Plain("blank"), Plain("prose")>>}

=============================================================================
