------------------------------ MODULE Selection ------------------------------
(***************************************************************************)
(* The entries of a sequence at the places of a set, in their order: what  *)
(* a loop that passes over some entries makes of a list.                   *)
(***************************************************************************)
EXTENDS Integers, Sequences

Selected(s, K) ==
    LET part[i \in 0 .. Len(s)] ==
            IF i = 0 THEN << >>
            ELSE IF i \in K THEN Append(part[i - 1], s[i]) ELSE part[i - 1]
    IN  part[Len(s)]
=============================================================================
