----------------------------- MODULE Kartenverkauf -----------------------------
(***************************************************************************)
(* What customer and shop may rely on in a card payment, whatever happens  *)
(* between till, server, provider and reader: the payment is shown once,   *)
(* the card is charged at most once and only for what was shown, a         *)
(* cancelled payment is never charged, and the sale is booked only on a    *)
(* charged card.                                                           *)
(*                                                                         *)
(* It is not promised that a charged card gets its sale: the till may give *)
(* up.                                                                     *)
(***************************************************************************)
EXTENDS Naturals

CONSTANT Zahlungen

VARIABLES
    gezeigt,  \* how often the customer was asked
    karte,    \* "frei" until charged or cancelled, which is final
    verkauf   \* "offen", "bezahlt" once the till knows, then booked or given up

vars == <<gezeigt, karte, verkauf>>

Init ==
    /\ gezeigt = [z \in Zahlungen |-> 0]
    /\ karte = [z \in Zahlungen |-> "frei"]
    /\ verkauf = [z \in Zahlungen |-> "offen"]

Zeige(z) ==
    /\ gezeigt[z] = 0 /\ karte[z] = "frei"
    /\ gezeigt' = [gezeigt EXCEPT ![z] = 1]
    /\ UNCHANGED <<karte, verkauf>>

Belaste(z) ==
    /\ gezeigt[z] = 1 /\ karte[z] = "frei"
    /\ karte' = [karte EXCEPT ![z] = "belastet"]
    /\ UNCHANGED <<gezeigt, verkauf>>

Storniere(z) ==
    /\ karte[z] = "frei"
    /\ karte' = [karte EXCEPT ![z] = "storniert"]
    /\ UNCHANGED <<gezeigt, verkauf>>

Erfahre(z) ==
    /\ verkauf[z] = "offen" /\ karte[z] = "belastet"
    /\ verkauf' = [verkauf EXCEPT ![z] = "bezahlt"]
    /\ UNCHANGED <<gezeigt, karte>>

Buche(z) ==
    /\ verkauf[z] = "bezahlt"
    /\ verkauf' = [verkauf EXCEPT ![z] = "gebucht"]
    /\ UNCHANGED <<gezeigt, karte>>

GibAuf(z) ==
    /\ verkauf[z] \in {"offen", "bezahlt"}
    /\ verkauf' = [verkauf EXCEPT ![z] = "aufgegeben"]
    /\ UNCHANGED <<gezeigt, karte>>

Next ==
    \E z \in Zahlungen :
        Zeige(z) \/ Belaste(z) \/ Storniere(z) \/ Erfahre(z) \/ Buche(z) \/ GibAuf(z)

Spec == Init /\ [][Next]_vars

=============================================================================
