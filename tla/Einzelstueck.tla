----------------------------- MODULE Einzelstueck -----------------------------
(***************************************************************************)
(* What the shop promises about its unique pieces, without requests, locks *)
(* or retries: a piece is elsewhere, in the shop, or with the customer of  *)
(* exactly one sale; a sale happens once; only a return brings a piece     *)
(* back from its customer.                                                 *)
(***************************************************************************)
CONSTANTS Stuecke, Schluessel, Fremd, Laden

VARIABLES
    besitzer,   \* where each piece is: Fremd, Laden or the key of a sale
    verbraucht  \* the sales that have happened

vars == <<besitzer, verbraucht>>

Orte == Schluessel \cup {Fremd, Laden}

Init ==
    /\ besitzer \in [Stuecke -> Orte]
    /\ verbraucht = {k \in Schluessel : \E s \in Stuecke : besitzer[s] = k}

Versetze(S, wohin) == besitzer' = [s \in Stuecke |-> IF s \in S THEN wohin ELSE besitzer[s]]

Erwirb(S) ==
    /\ \A s \in S : besitzer[s] = Fremd
    /\ Versetze(S, Laden)
    /\ UNCHANGED verbraucht

Verkaufe(k, S) ==
    /\ k \notin verbraucht
    /\ \A s \in S : besitzer[s] = Laden
    /\ Versetze(S, k)
    /\ verbraucht' = verbraucht \cup {k}

NimmZurueck(k, S) ==
    /\ \A s \in S : besitzer[s] = k
    /\ Versetze(S, Laden)
    /\ UNCHANGED verbraucht

ScheideAus(s) ==
    /\ besitzer[s] = Laden
    /\ Versetze({s}, Fremd)
    /\ UNCHANGED verbraucht

Next ==
    \E S \in SUBSET Stuecke :
        \/ Erwirb(S)
        \/ \E k \in Schluessel : Verkaufe(k, S) \/ NimmZurueck(k, S)
        \/ \E s \in S : ScheideAus(s)

Spec == Init /\ [][Next]_vars

=============================================================================
