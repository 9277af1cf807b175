-------------------------------- MODULE MCKasse --------------------------------
(***************************************************************************)
(* Small instances of what the till does over the network: the outbox, the *)
(* signatures and the card payment.  They share no variable, so a          *)
(* behaviour is one of one of them, and the others stand still.            *)
(***************************************************************************)
EXTENDS Ausgang, Nachreichen, Leserzahlung

CONSTANTS v1, v2, l1, l2, n1, n2, g1, a1, a2, w1, w2

VARIABLE teil

\* dialog:    a request is made while one of an earlier session waits
\* rest:      two controllers share what an earlier session has left
\* geste:     a till repeats a start; one delivery at a time
\* zustellung: one start; two deliveries at a time
AusgangTeile == {"dialog", "rest"}
LeserTeile   == {"geste", "zustellung"}
Teile == AusgangTeile \cup LeserTeile \cup {"signatur"}

ImAusgang == teil \in AusgangTeile
ImLeser   == teil \in LeserTeile

MCInit ==
    /\ AusgangInit /\ NachInit /\ LeserInit
    /\ teil \in Teile
    /\ nr = CASE teil = "rest" -> [v \in Vorgaenge |-> IF v = v1 THEN 2 ELSE 1]
              [] teil = "dialog" -> [v \in Vorgaenge |-> IF v = v1 THEN 0 ELSE 1]
              [] OTHER -> [v \in Vorgaenge |-> 0]

MCAusgang ==
    /\ ImAusgang /\ AusgangNext
    /\ teil = "dialog" => aktuell' # l2
    /\ UNCHANGED <<nachVars, leserVars>>

MCSignatur ==
    /\ teil = "signatur" /\ NachNext
    /\ UNCHANGED <<ausgangVars, leserVars>>

MCLeser ==
    /\ ImLeser /\ LeserNext
    /\ teil = "geste" => fuer'[w2] = Offen /\ abbruch' = abbruch
    /\ teil = "zustellung" => anfrage'[a2] = "frei"
    /\ Cardinality(gemeldet'[g1]) <= 2
    /\ UNCHANGED <<ausgangVars, nachVars>>

MCNext ==
    /\ UNCHANGED teil
    /\ MCAusgang \/ MCSignatur \/ MCLeser

MCvars == <<teil, ausgangVars, nachVars, leserVars>>

Stoerung ==
    \/ ImAusgang /\ AusgangStoerung
    \/ teil = "signatur" /\ NachStoerung
    \/ ImLeser /\ ServerAbsturz

\* AusgangFair, NachFair and LeserFair, each where its component moves.
MCFair ==
    /\ <>[][~Stoerung]_MCvars
    /\ \A l \in Laeufe : WF_ausgangVars(ImAusgang /\ (LaufSchritt(l) \/ ServerSchritt(l)))
    /\ WF_ausgangVars(ImAusgang /\ \E l \in Laeufe : Anmelden(l))
    /\ WF_ausgangVars(ImAusgang /\ \E l \in Laeufe : Netzereignis(l))
    /\ WF_nachVars(teil = "signatur" /\ \E n \in Nachreicher : HaengeEin(n))
    /\ \A n \in Nachreicher :
          WF_nachVars(teil = "signatur" /\ (PassSchritt(n) \/ MeldeSchritt(n)))
    /\ SF_nachVars(teil = "signatur" /\ \E n \in Nachreicher : Liste(n) /\ liste'[n] = Nachreichbar)
    /\ WF_leserVars(ImLeser /\ FrageStand(g1))
    /\ WF_leserVars(ImLeser /\ BricheAb(g1))
    /\ WF_leserVars(ImLeser /\ AbbruchSchritt(g1))

MCSpec ==
    /\ MCInit
    /\ [][MCNext]_MCvars
    /\ MCFair

=============================================================================
