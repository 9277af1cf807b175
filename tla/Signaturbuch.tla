------------------------------ MODULE Signaturbuch ------------------------------
(***************************************************************************)
(* What an auditor may rely on: a receipt is signed at most once, at the   *)
(* TSE and after its intention; a till that holds a signature keeps it;    *)
(* the server gets at most one per receipt, and one the TSE has made; and  *)
(* nothing counts as delivered before it is.                               *)
(***************************************************************************)
EXTENDS Naturals

CONSTANT Belege

VARIABLES
    tse,        \* of a receipt: no intention, an open one, a finished one
    gemerkt,    \* receipts whose signature the till has on disk
    abgelegt,   \* signatures the server has of a receipt
    bestaetigt  \* receipts the till takes for delivered

vars == <<tse, gemerkt, abgelegt, bestaetigt>>

Init ==
    /\ tse = [b \in Belege |-> "keine"]
    /\ gemerkt = {}
    /\ abgelegt = [b \in Belege |-> 0]
    /\ bestaetigt = {}

Eroeffne(b) ==
    /\ tse[b] = "keine"
    /\ tse' = [tse EXCEPT ![b] = "offen"]
    /\ UNCHANGED <<gemerkt, abgelegt, bestaetigt>>

Beende(b) ==
    /\ tse[b] = "offen"
    /\ tse' = [tse EXCEPT ![b] = "beendet"]
    /\ UNCHANGED <<gemerkt, abgelegt, bestaetigt>>

Merke(b) ==
    /\ tse[b] = "beendet"
    /\ gemerkt' = gemerkt \cup {b}
    /\ UNCHANGED <<tse, abgelegt, bestaetigt>>

\* Several arrive at once when the till ends with reports on the wire.
LegeAb(B) ==
    /\ \A b \in B : tse[b] = "beendet"
    /\ abgelegt' = [b \in Belege |-> IF b \in B THEN 1 ELSE abgelegt[b]]
    /\ UNCHANGED <<tse, gemerkt, bestaetigt>>

\* A delivery that is in doubt again is repeated.
Bestaetige(B) ==
    /\ \A b \in B : abgelegt[b] = 1
    /\ bestaetigt' = B
    /\ UNCHANGED <<tse, gemerkt, abgelegt>>

Next ==
    \/ \E b \in Belege : Eroeffne(b) \/ Beende(b) \/ Merke(b)
    \/ \E B \in SUBSET Belege : LegeAb(B) \/ Bestaetige(B)

Spec == Init /\ [][Next]_vars

=============================================================================
