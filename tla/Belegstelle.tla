------------------------------ MODULE Belegstelle ------------------------------
(***************************************************************************)
(* What a till may rely on when it sends a fiscal request under a key, by  *)
(* whatever way and however often: the key gets at most one receipt, that  *)
(* receipt stays, and nobody is shown another one.  What somebody was      *)
(* shown may be forgotten.                                                 *)
(*                                                                         *)
(* The server keeps this promise (Ware!IstBelegstelle), and so do the till *)
(* and the server together (Ausgang!BleibtBelegstelle).                    *)
(***************************************************************************)
CONSTANTS
    Kennungen,   \* idempotency keys
    Quittungen,  \* receipts
    Keine        \* no receipt

VARIABLES
    beleg,   \* the receipt of each key
    gezeigt  \* the receipts that are shown to somebody who asked for the key

vars == <<beleg, gezeigt>>

Init ==
    /\ beleg \in [Kennungen -> Quittungen \cup {Keine}]
    /\ gezeigt \in [Kennungen -> SUBSET Quittungen]
    /\ \A k \in Kennungen : gezeigt[k] \subseteq {beleg[k]}

\* Keys without a receipt get one; at a crash several requests may be on the
\* wire.
Buche ==
    /\ beleg' \in [Kennungen -> Quittungen \cup {Keine}]
    /\ \A k \in Kennungen : beleg[k] # Keine => beleg'[k] = beleg[k]

Zeige ==
    /\ gezeigt' \in [Kennungen -> SUBSET Quittungen]
    /\ \A k \in Kennungen : gezeigt'[k] \subseteq gezeigt[k] \cup {beleg'[k]}

Next == Buche /\ Zeige

Spec == Init /\ [][Next]_vars

=============================================================================
