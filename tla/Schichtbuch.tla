------------------------------ MODULE Schichtbuch ------------------------------
(***************************************************************************)
(* What the owner of a drawer may rely on: a till has one open shift at a  *)
(* time; what is booked is booked on a shift there is, and once, however   *)
(* often it was asked for; closing is one step that copies what stands on  *)
(* the shift, and neither that copy nor the close is ever taken back.      *)
(*                                                                         *)
(* A shift that is closed may still be booked on: the copy does not move.  *)
(***************************************************************************)

CONSTANTS
    Geraete,          \* tills
    Kassenschichten,  \* shifts
    Posten,           \* what can be booked
    Vorgang,          \* of a Posten: what it books; a repetition books the same
    Ohne              \* no till

VARIABLES
    stand,    \* of a shift: "KEINE" as long as there is none, "OPEN", "CLOSED"
    geraet,   \* of a shift: its till
    posten,   \* of a shift: what is booked on it
    soll      \* of a shift: what was booked on it when it was closed

vars == <<stand, geraet, posten, soll>>

Init ==
    /\ stand = [s \in Kassenschichten |-> "KEINE"]
    /\ geraet = [s \in Kassenschichten |-> Ohne]
    /\ posten = [s \in Kassenschichten |-> {}]
    /\ soll = [s \in Kassenschichten |-> {}]

Oeffne(s, g) ==
    /\ stand[s] = "KEINE"
    /\ \A t \in Kassenschichten : ~(stand[t] = "OPEN" /\ geraet[t] = g)
    /\ stand' = [stand EXCEPT ![s] = "OPEN"]
    /\ geraet' = [geraet EXCEPT ![s] = g]
    /\ UNCHANGED <<posten, soll>>

Buche(s, p) ==
    /\ stand[s] # "KEINE"
    /\ \A t \in Kassenschichten : \A q \in posten[t] : Vorgang[q] # Vorgang[p]
    /\ posten' = [posten EXCEPT ![s] = posten[s] \cup {p}]
    /\ UNCHANGED <<stand, geraet, soll>>

Schliesse(s) ==
    /\ stand[s] = "OPEN"
    /\ stand' = [stand EXCEPT ![s] = "CLOSED"]
    /\ soll' = [soll EXCEPT ![s] = posten[s]]
    /\ UNCHANGED <<geraet, posten>>

Next ==
    \E s \in Kassenschichten :
        \/ \E g \in Geraete : Oeffne(s, g)
        \/ \E p \in Posten : Buche(s, p)
        \/ Schliesse(s)

Spec == Init /\ [][Next]_vars

=============================================================================
