------------------------------- MODULE Filter -------------------------------
(***************************************************************************)
(* Iterator::filter and Vec::retain, as a recursive function.               *)
(***************************************************************************)
EXTENDS Naturals, Sequences

(* The elements of s that stand in `keep`, in their order. *)
Kept(s, keep) ==
    LET upTo[i \in 0..Len(s)] ==
            IF i = 0 THEN <<>>
            ELSE IF s[i] \in keep THEN Append(upTo[i - 1], s[i])
            ELSE upTo[i - 1]
    IN  upTo[Len(s)]

=============================================================================
