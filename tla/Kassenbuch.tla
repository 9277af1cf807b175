----------------------------- MODULE Kassenbuch -----------------------------
(***************************************************************************)
(* What the daily closing promises, without locks, statements or requests: *)
(* a book with one page per business day.  A receipt is entered on a page  *)
(* that is still open; closing a page is one step that copies what the     *)
(* page says into its Z-Bon and gives it the next number.  Nothing on a    *)
(* closed page changes again.                                              *)
(*                                                                         *)
(* Tagesabschluss implements this book (Tagesabschluss!IstKassenbuch).     *)
(***************************************************************************)
EXTENDS Integers

CONSTANTS
    Belege,  \* receipts
    Seiten   \* business days

VARIABLES
    buch,    \* the receipts on each page
    zbon,    \* the Z-Bon of each page
    zaehler  \* the last Z number given

vars == <<buch, zbon, zaehler>>

\* The Z-Bon of a page that is still open.
Keiner == [belege |-> {}, nr |-> 0]

Offen(d) == zbon[d] = Keiner

Init ==
    /\ buch = [d \in Seiten |-> {}]
    /\ zbon = [d \in Seiten |-> Keiner]
    /\ zaehler = 0

Buche(p, d) ==
    /\ Offen(d)
    /\ \A e \in Seiten : p \notin buch[e]
    /\ buch' = [buch EXCEPT ![d] = buch[d] \cup {p}]
    /\ UNCHANGED <<zbon, zaehler>>

Versiegle(d) ==
    /\ Offen(d)
    /\ zaehler' = zaehler + 1
    /\ zbon' = [zbon EXCEPT ![d] = [belege |-> buch[d], nr |-> zaehler + 1]]
    /\ UNCHANGED buch

Next == \E d \in Seiten : Versiegle(d) \/ \E p \in Belege : Buche(p, d)

Spec == Init /\ [][Next]_vars
=============================================================================
