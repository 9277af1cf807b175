----------------------------- MODULE MCKassenlade -----------------------------
(***************************************************************************)
(* Small instances of Kassenlade: which movements repeat which.            *)
(***************************************************************************)
EXTENDS Kassenlade

CONSTANT r

\* All movements of an instance carry the same reference.
MCReferenz == [m \in Bewegungen |-> r]

=============================================================================
