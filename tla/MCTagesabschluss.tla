-------------------------- MODULE MCTagesabschluss --------------------------
(***************************************************************************)
(* Instances of Tagesabschluss for TLC.                                    *)
(***************************************************************************)
EXTENDS Tagesabschluss, TLC

CONSTANTS k1, k2

Eine == [s \in Schichten |-> k1]

\* Requests of one kind are interchangeable.
Symmetrie == Permutations(Vorgaenge) \cup Permutations(Abschluesse)
=============================================================================
