------------------------------- MODULE Sieve -------------------------------
(* The elements of a sequence at some of its positions, in their order:    *)
(* what a loop over a vector that pushes some of its elements on another   *)
(* leaves there.  (SelectSeq, written so that one can prove about it.)     *)
EXTENDS Naturals, Sequences

Sieved(s, I) ==
    LET f[i \in 0 .. Len(s)] ==
            IF i = 0 THEN <<>>
            ELSE IF i \in I THEN Append(f[i - 1], s[i])
            ELSE f[i - 1]
    IN  f[Len(s)]
=============================================================================
