-------------------------------- MODULE MCWare --------------------------------
(***************************************************************************)
(* Small instances of Ware: which request repeats which.                   *)
(***************************************************************************)
EXTENDS Ware, TLC

CONSTANTS v1, v2, b1, b2, c1, c2, c3

\* v2 repeats v1, b2 repeats b1; any other sale has a key of its own.
MCSchluessel ==
    [a \in Anfragen |-> CASE a \in {v1, v2} -> c1 [] a \in {b1, b2} -> c2 [] OTHER -> c3]

WareSymmetrie == Permutations(Stuecke) \cup Permutations(Halter) \cup Permutations(Pflegen)

=============================================================================
