------------------------------- MODULE Lists -------------------------------
(***************************************************************************)
(* Python lists and ordered dictionaries whose entries are taken out.      *)
(***************************************************************************)
EXTENDS Integers, Sequences, SequencesExt, Functions

\* The members of S that s has, in their order.
Filter(s, S) ==
    LET kept[i \in 0..Len(s)] ==
            IF i = 0 THEN <<>>
            ELSE IF s[i] \in S THEN Append(kept[i - 1], s[i]) ELSE kept[i - 1]
    IN  kept[Len(s)]
Without(s, x) == Filter(s, Range(s) \ {x})
=============================================================================
