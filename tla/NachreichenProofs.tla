--------------------------- MODULE NachreichenProofs ---------------------------
(***************************************************************************)
(* Proofs about the signatures, for any number of receipts and drain       *)
(* controllers.                                                            *)
(*                                                                         *)
(* The argument: a controller reports only the receipt whose row it holds  *)
(* (MeldetNurGehaltenes), so an answer "ok" and every row that is put away *)
(* because of it stand for a signature at the server (SignaturTraegt); and *)
(* a row, once written, neither disappears nor loses what it has.          *)
(***************************************************************************)
EXTENDS Nachreichen, TLAPS

(***************************************************************************)
(* The inductive invariant                                                 *)
(***************************************************************************)

MeldetNurGehaltenes ==
    \A n \in Nachreicher : meldung[n] # "keine" => schritt[n] = "wartet"

\* "ok", and what is done because of it, is about a signature at the server.
SignaturTraegt ==
    /\ SignaturEinmal
    /\ \A q \in Belege \cup Nachreicher : meldung[q] = "ok" => beiServer[Beleg(q)] = 1
    /\ \A n \in Nachreicher : schritt[n] = "abgelegt" => beiServer[haelt[n]] = 1

\* While the dialog has not come to FINISH, the receipt has no row, so that no
\* pass is at it; and whoever has a signature in hand, on disk, on the wire or
\* at the server has it from the TSE.
NurSigniertes ==
    /\ \A b \in Belege :
          /\ kasse[b] = "bereit" => tse[b] = "keine"
          /\ kasse[b] = "gebucht" => tse[b] = "offen"
          /\ kasse[b] \in {"signiert", "gemeldet"} => tse[b] = "beendet"
          /\ kasse[b] \in {"bereit", "gebucht", "ausfall", "signiert", "gemeldet"} => eintrag[b] = "KEINER"
          /\ meldung[b] # "keine" => kasse[b] = "gemeldet"
          /\ signatur[b] \/ beiServer[b] # 0 => tse[b] = "beendet"
    /\ \A n \in Nachreicher :
          /\ \A b \in liste[n] : eintrag[b] # "KEINER"
          /\ haelt[n] # Keiner => eintrag[haelt[n]] # "KEINER"
          /\ \A b \in gelesen[n] : tse[b] = "beendet"
          /\ schritt[n] \in {"merken", "melden", "wartet"} => tse[haelt[n]] = "beendet"

NachInduktiv ==
    /\ NachTypeOK
    /\ MeldetNurGehaltenes
    /\ SignaturTraegt
    /\ NurSigniertes
    /\ AuskunftStimmt

(***************************************************************************)
(* One step of the specification                                           *)
(***************************************************************************)

LEMMA NachTypSchritt ==
    ASSUME NachTypeOK, [NachNext]_nachVars
    PROVE  NachTypeOK'
  <1> USE NachAnnahme DEF NachTypeOK, Kassenstand, reiheVars, passVars
  <1>1. CASE UNCHANGED nachVars
    BY <1>1 DEF nachVars, reiheVars, passVars
  <1>2. ASSUME NEW b \in Belege, Buche(b) PROVE NachTypeOK'
    BY <1>2 DEF Buche
  <1>3. ASSUME NEW b \in Belege, ReiheVerkaufEin(b) PROVE NachTypeOK'
    BY <1>3 DEF ReiheVerkaufEin
  <1>4. ASSUME NEW b \in Belege, Signiere(b) PROVE NachTypeOK'
    BY <1>4 DEF Signiere
  <1>5. ASSUME NEW b \in Belege, VermerkeAusfall(b) PROVE NachTypeOK'
    BY <1>5 DEF VermerkeAusfall, Schreibe
  <1>6. ASSUME NEW b \in Belege, SichereAusfall(b) PROVE NachTypeOK'
    BY <1>6 DEF SichereAusfall, Schreibe
  <1>7. ASSUME NEW b \in Belege, VermerkeDauerhaft(b) PROVE NachTypeOK'
    BY <1>7 DEF VermerkeDauerhaft, Schreibe
  <1>8. ASSUME NEW b \in Belege, MeldeAnServer(b) PROVE NachTypeOK'
    BY <1>8 DEF MeldeAnServer
  <1>9. ASSUME NEW b \in Belege, NimmAntwort(b) PROVE NachTypeOK'
    BY <1>9 DEF NimmAntwort, Schreibe
  <1>10. ASSUME NEW n \in Nachreicher, HaengeEin(n) PROVE NachTypeOK'
    BY <1>10 DEF HaengeEin, Ruht
  <1>11. ASSUME NEW n \in Nachreicher, Liste(n) PROVE NachTypeOK'
    BY <1>11 DEF Liste, Ruht, Nachreichbar
  <1>12. ASSUME NEW n \in Nachreicher, Nimm(n) PROVE NachTypeOK'
    BY <1>12 DEF Nimm
  <1>13. ASSUME NEW n \in Nachreicher, NehmenScheitert(n) PROVE NachTypeOK'
    BY <1>13 DEF NehmenScheitert
  <1>14. ASSUME NEW n \in Nachreicher, SigniereNach(n) PROVE NachTypeOK'
    BY <1>14 DEF SigniereNach
  <1>15. ASSUME NEW n \in Nachreicher, SigniereNachVerloren(n) PROVE NachTypeOK'
    BY <1>15 DEF SigniereNachVerloren
  <1>16. ASSUME NEW n \in Nachreicher, TseLehntAb(n) PROVE NachTypeOK'
    BY <1>16 DEF TseLehntAb
  <1>17. ASSUME NEW n \in Nachreicher, MerkeSignatur(n) PROVE NachTypeOK'
    BY <1>17 DEF MerkeSignatur
  <1>18. ASSUME NEW n \in Nachreicher, MeldeNach(n) PROVE NachTypeOK'
    BY <1>18 DEF MeldeNach
  <1>19. ASSUME NEW n \in Nachreicher, NimmAntwortNach(n) PROVE NachTypeOK'
    BY <1>19 DEF NimmAntwortNach
  <1>20. ASSUME NEW n \in Nachreicher, LegeAb(n) PROVE NachTypeOK'
    BY <1>20 DEF LegeAb, GibFrei
  <1>21. ASSUME NEW n \in Nachreicher, AblegenScheitert(n) PROVE NachTypeOK'
    BY <1>21 DEF AblegenScheitert
  <1>22. ASSUME NEW n \in Nachreicher, VersucheWieder(n) PROVE NachTypeOK'
    BY <1>22 DEF VersucheWieder, GibFrei
  <1>23. ASSUME NEW n \in Nachreicher, GibAuf(n) PROVE NachTypeOK'
    BY <1>23 DEF GibAuf, GibFrei
  <1>24. ASSUME NEW q \in Belege \cup Nachreicher, SchlageNach(q) PROVE NachTypeOK'
    BY <1>24 DEF SchlageNach
  <1>25. ASSUME NEW q \in Belege \cup Nachreicher, TrageEin(q) PROVE NachTypeOK'
    BY <1>25 DEF TrageEin
  <1>26. ASSUME NEW q \in Belege \cup Nachreicher, MeldungScheitert(q) PROVE NachTypeOK'
    BY <1>26 DEF MeldungScheitert
  <1>27. ASSUME HaengeAus PROVE NachTypeOK'
    BY <1>27 DEF HaengeAus
  <1>28. ASSUME Kassenabsturz PROVE NachTypeOK'
    <2>1. beiServer' \in [Belege -> Nat]
      BY <1>28 DEF Kassenabsturz
    <2>2. kasse' \in [Belege -> Kassenstand]
      BY <1>28 DEF Kassenabsturz
    <2> QED
      BY <1>28, <2>1, <2>2 DEF Kassenabsturz
  <1> QED
    BY <1>1, <1>2, <1>3, <1>4, <1>5, <1>6, <1>7, <1>8, <1>9, <1>10, <1>11, <1>12, <1>13, <1>14, <1>15, <1>16, <1>17, <1>18, <1>19, <1>20, <1>21, <1>22, <1>23, <1>24, <1>25, <1>26, <1>27, <1>28 DEF NachNext, KassenSchritt, PassSchritt, MeldeSchritt

LEMMA MeldetSchritt ==
    ASSUME NachTypeOK, MeldetNurGehaltenes, [NachNext]_nachVars
    PROVE  MeldetNurGehaltenes'
  <1> USE NachAnnahme DEF NachTypeOK, MeldetNurGehaltenes, reiheVars, passVars
  <1>1. CASE UNCHANGED nachVars
    BY <1>1 DEF nachVars, reiheVars, passVars
  <1>2. ASSUME NEW b \in Belege, Buche(b) PROVE MeldetNurGehaltenes'
    BY <1>2 DEF Buche
  <1>3. ASSUME NEW b \in Belege, ReiheVerkaufEin(b) PROVE MeldetNurGehaltenes'
    BY <1>3 DEF ReiheVerkaufEin
  <1>4. ASSUME NEW b \in Belege, Signiere(b) PROVE MeldetNurGehaltenes'
    BY <1>4 DEF Signiere
  <1>5. ASSUME NEW b \in Belege, VermerkeAusfall(b) PROVE MeldetNurGehaltenes'
    BY <1>5 DEF VermerkeAusfall, Schreibe
  <1>6. ASSUME NEW b \in Belege, SichereAusfall(b) PROVE MeldetNurGehaltenes'
    BY <1>6 DEF SichereAusfall, Schreibe
  <1>7. ASSUME NEW b \in Belege, VermerkeDauerhaft(b) PROVE MeldetNurGehaltenes'
    BY <1>7 DEF VermerkeDauerhaft, Schreibe
  <1>8. ASSUME NEW b \in Belege, MeldeAnServer(b) PROVE MeldetNurGehaltenes'
    BY <1>8 DEF MeldeAnServer
  <1>9. ASSUME NEW b \in Belege, NimmAntwort(b) PROVE MeldetNurGehaltenes'
    BY <1>9 DEF NimmAntwort, Schreibe
  <1>10. ASSUME NEW n \in Nachreicher, HaengeEin(n) PROVE MeldetNurGehaltenes'
    BY <1>10 DEF HaengeEin, Ruht
  <1>11. ASSUME NEW n \in Nachreicher, Liste(n) PROVE MeldetNurGehaltenes'
    BY <1>11 DEF Liste, Ruht, Nachreichbar
  <1>12. ASSUME NEW n \in Nachreicher, Nimm(n) PROVE MeldetNurGehaltenes'
    BY <1>12 DEF Nimm
  <1>13. ASSUME NEW n \in Nachreicher, NehmenScheitert(n) PROVE MeldetNurGehaltenes'
    BY <1>13 DEF NehmenScheitert
  <1>14. ASSUME NEW n \in Nachreicher, SigniereNach(n) PROVE MeldetNurGehaltenes'
    BY <1>14 DEF SigniereNach
  <1>15. ASSUME NEW n \in Nachreicher, SigniereNachVerloren(n) PROVE MeldetNurGehaltenes'
    BY <1>15 DEF SigniereNachVerloren
  <1>16. ASSUME NEW n \in Nachreicher, TseLehntAb(n) PROVE MeldetNurGehaltenes'
    BY <1>16 DEF TseLehntAb
  <1>17. ASSUME NEW n \in Nachreicher, MerkeSignatur(n) PROVE MeldetNurGehaltenes'
    BY <1>17 DEF MerkeSignatur
  <1>18. ASSUME NEW n \in Nachreicher, MeldeNach(n) PROVE MeldetNurGehaltenes'
    BY <1>18 DEF MeldeNach
  <1>19. ASSUME NEW n \in Nachreicher, NimmAntwortNach(n) PROVE MeldetNurGehaltenes'
    BY <1>19 DEF NimmAntwortNach
  <1>20. ASSUME NEW n \in Nachreicher, LegeAb(n) PROVE MeldetNurGehaltenes'
    BY <1>20 DEF LegeAb, GibFrei
  <1>21. ASSUME NEW n \in Nachreicher, AblegenScheitert(n) PROVE MeldetNurGehaltenes'
    BY <1>21 DEF AblegenScheitert
  <1>22. ASSUME NEW n \in Nachreicher, VersucheWieder(n) PROVE MeldetNurGehaltenes'
    BY <1>22 DEF VersucheWieder, GibFrei
  <1>23. ASSUME NEW n \in Nachreicher, GibAuf(n) PROVE MeldetNurGehaltenes'
    BY <1>23 DEF GibAuf, GibFrei
  <1>24. ASSUME NEW q \in Belege \cup Nachreicher, SchlageNach(q) PROVE MeldetNurGehaltenes'
    BY <1>24 DEF SchlageNach
  <1>25. ASSUME NEW q \in Belege \cup Nachreicher, TrageEin(q) PROVE MeldetNurGehaltenes'
    BY <1>25 DEF TrageEin
  <1>26. ASSUME NEW q \in Belege \cup Nachreicher, MeldungScheitert(q) PROVE MeldetNurGehaltenes'
    BY <1>26 DEF MeldungScheitert
  <1>27. ASSUME HaengeAus PROVE MeldetNurGehaltenes'
    BY <1>27 DEF HaengeAus
  <1>28. ASSUME Kassenabsturz PROVE MeldetNurGehaltenes'
    BY <1>28 DEF Kassenabsturz
  <1> QED
    BY <1>1, <1>2, <1>3, <1>4, <1>5, <1>6, <1>7, <1>8, <1>9, <1>10, <1>11, <1>12, <1>13, <1>14, <1>15, <1>16, <1>17, <1>18, <1>19, <1>20, <1>21, <1>22, <1>23, <1>24, <1>25, <1>26, <1>27, <1>28 DEF NachNext, KassenSchritt, PassSchritt, MeldeSchritt

LEMMA SignaturSchritt ==
    ASSUME NachTypeOK, MeldetNurGehaltenes, SignaturTraegt, [NachNext]_nachVars
    PROVE  SignaturTraegt'
  <1> USE NachAnnahme DEF NachTypeOK, MeldetNurGehaltenes, SignaturTraegt, SignaturEinmal, Beleg, reiheVars, passVars
  <1>1. CASE UNCHANGED nachVars
    BY <1>1 DEF nachVars, reiheVars, passVars
  <1>2. ASSUME NEW b \in Belege, Buche(b) PROVE SignaturTraegt'
    BY <1>2 DEF Buche
  <1>3. ASSUME NEW b \in Belege, ReiheVerkaufEin(b) PROVE SignaturTraegt'
    BY <1>3 DEF ReiheVerkaufEin
  <1>4. ASSUME NEW b \in Belege, Signiere(b) PROVE SignaturTraegt'
    BY <1>4 DEF Signiere
  <1>5. ASSUME NEW b \in Belege, VermerkeAusfall(b) PROVE SignaturTraegt'
    BY <1>5 DEF VermerkeAusfall, Schreibe
  <1>6. ASSUME NEW b \in Belege, SichereAusfall(b) PROVE SignaturTraegt'
    BY <1>6 DEF SichereAusfall, Schreibe
  <1>7. ASSUME NEW b \in Belege, VermerkeDauerhaft(b) PROVE SignaturTraegt'
    BY <1>7 DEF VermerkeDauerhaft, Schreibe
  <1>8. ASSUME NEW b \in Belege, MeldeAnServer(b) PROVE SignaturTraegt'
    BY <1>8 DEF MeldeAnServer
  <1>9. ASSUME NEW b \in Belege, NimmAntwort(b) PROVE SignaturTraegt'
    BY <1>9 DEF NimmAntwort, Schreibe
  <1>10. ASSUME NEW n \in Nachreicher, HaengeEin(n) PROVE SignaturTraegt'
    BY <1>10 DEF HaengeEin, Ruht
  <1>11. ASSUME NEW n \in Nachreicher, Liste(n) PROVE SignaturTraegt'
    BY <1>11 DEF Liste, Ruht, Nachreichbar
  <1>12. ASSUME NEW n \in Nachreicher, Nimm(n) PROVE SignaturTraegt'
    BY <1>12 DEF Nimm
  <1>13. ASSUME NEW n \in Nachreicher, NehmenScheitert(n) PROVE SignaturTraegt'
    BY <1>13 DEF NehmenScheitert
  <1>14. ASSUME NEW n \in Nachreicher, SigniereNach(n) PROVE SignaturTraegt'
    BY <1>14 DEF SigniereNach
  <1>15. ASSUME NEW n \in Nachreicher, SigniereNachVerloren(n) PROVE SignaturTraegt'
    BY <1>15 DEF SigniereNachVerloren
  <1>16. ASSUME NEW n \in Nachreicher, TseLehntAb(n) PROVE SignaturTraegt'
    BY <1>16 DEF TseLehntAb
  <1>17. ASSUME NEW n \in Nachreicher, MerkeSignatur(n) PROVE SignaturTraegt'
    BY <1>17 DEF MerkeSignatur
  <1>18. ASSUME NEW n \in Nachreicher, MeldeNach(n) PROVE SignaturTraegt'
    BY <1>18 DEF MeldeNach
  <1>19. ASSUME NEW n \in Nachreicher, NimmAntwortNach(n) PROVE SignaturTraegt'
    BY <1>19 DEF NimmAntwortNach
  <1>20. ASSUME NEW n \in Nachreicher, LegeAb(n) PROVE SignaturTraegt'
    BY <1>20 DEF LegeAb, GibFrei
  <1>21. ASSUME NEW n \in Nachreicher, AblegenScheitert(n) PROVE SignaturTraegt'
    BY <1>21 DEF AblegenScheitert
  <1>22. ASSUME NEW n \in Nachreicher, VersucheWieder(n) PROVE SignaturTraegt'
    BY <1>22 DEF VersucheWieder, GibFrei
  <1>23. ASSUME NEW n \in Nachreicher, GibAuf(n) PROVE SignaturTraegt'
    BY <1>23 DEF GibAuf, GibFrei
  <1>24. ASSUME NEW q \in Belege \cup Nachreicher, SchlageNach(q) PROVE SignaturTraegt'
    BY <1>24 DEF SchlageNach
  <1>25. ASSUME NEW q \in Belege \cup Nachreicher, TrageEin(q) PROVE SignaturTraegt'
    BY <1>25 DEF TrageEin
  <1>26. ASSUME NEW q \in Belege \cup Nachreicher, MeldungScheitert(q) PROVE SignaturTraegt'
    BY <1>26 DEF MeldungScheitert
  <1>27. ASSUME HaengeAus PROVE SignaturTraegt'
    BY <1>27 DEF HaengeAus
  <1>28. ASSUME Kassenabsturz PROVE SignaturTraegt'
    BY <1>28 DEF Kassenabsturz
  <1> QED
    BY <1>1, <1>2, <1>3, <1>4, <1>5, <1>6, <1>7, <1>8, <1>9, <1>10, <1>11, <1>12, <1>13, <1>14, <1>15, <1>16, <1>17, <1>18, <1>19, <1>20, <1>21, <1>22, <1>23, <1>24, <1>25, <1>26, <1>27, <1>28 DEF NachNext, KassenSchritt, PassSchritt, MeldeSchritt

LEMMA SigniertSchritt ==
    ASSUME NachTypeOK, MeldetNurGehaltenes, NurSigniertes, [NachNext]_nachVars
    PROVE  NurSigniertes'
  <1> USE NachAnnahme DEF NachTypeOK, MeldetNurGehaltenes, NurSigniertes, Beleg, reiheVars, passVars
  <1>1. CASE UNCHANGED nachVars
    BY <1>1 DEF nachVars, reiheVars, passVars
  <1>2. ASSUME NEW b \in Belege, Buche(b) PROVE NurSigniertes'
    BY <1>2 DEF Buche
  <1>3. ASSUME NEW b \in Belege, ReiheVerkaufEin(b) PROVE NurSigniertes'
    BY <1>3 DEF ReiheVerkaufEin
  <1>4. ASSUME NEW b \in Belege, Signiere(b) PROVE NurSigniertes'
    BY <1>4 DEF Signiere
  <1>5. ASSUME NEW b \in Belege, VermerkeAusfall(b) PROVE NurSigniertes'
    BY <1>5 DEF VermerkeAusfall, Schreibe
  <1>6. ASSUME NEW b \in Belege, SichereAusfall(b) PROVE NurSigniertes'
    BY <1>6 DEF SichereAusfall, Schreibe
  <1>7. ASSUME NEW b \in Belege, VermerkeDauerhaft(b) PROVE NurSigniertes'
    BY <1>7 DEF VermerkeDauerhaft, Schreibe
  <1>8. ASSUME NEW b \in Belege, MeldeAnServer(b) PROVE NurSigniertes'
    BY <1>8 DEF MeldeAnServer
  <1>9. ASSUME NEW b \in Belege, NimmAntwort(b) PROVE NurSigniertes'
    BY <1>9 DEF NimmAntwort, Schreibe
  <1>10. ASSUME NEW n \in Nachreicher, HaengeEin(n) PROVE NurSigniertes'
    BY <1>10 DEF HaengeEin, Ruht
  <1>11. ASSUME NEW n \in Nachreicher, Liste(n) PROVE NurSigniertes'
    BY <1>11 DEF Liste, Ruht, Nachreichbar
  <1>12. ASSUME NEW n \in Nachreicher, Nimm(n) PROVE NurSigniertes'
    BY <1>12 DEF Nimm
  <1>13. ASSUME NEW n \in Nachreicher, NehmenScheitert(n) PROVE NurSigniertes'
    BY <1>13 DEF NehmenScheitert
  <1>14. ASSUME NEW n \in Nachreicher, SigniereNach(n) PROVE NurSigniertes'
    BY <1>14 DEF SigniereNach
  <1>15. ASSUME NEW n \in Nachreicher, SigniereNachVerloren(n) PROVE NurSigniertes'
    BY <1>15 DEF SigniereNachVerloren
  <1>16. ASSUME NEW n \in Nachreicher, TseLehntAb(n) PROVE NurSigniertes'
    BY <1>16 DEF TseLehntAb
  <1>17. ASSUME NEW n \in Nachreicher, MerkeSignatur(n) PROVE NurSigniertes'
    BY <1>17 DEF MerkeSignatur
  <1>18. ASSUME NEW n \in Nachreicher, MeldeNach(n) PROVE NurSigniertes'
    BY <1>18 DEF MeldeNach
  <1>19. ASSUME NEW n \in Nachreicher, NimmAntwortNach(n) PROVE NurSigniertes'
    BY <1>19 DEF NimmAntwortNach
  <1>20. ASSUME NEW n \in Nachreicher, LegeAb(n) PROVE NurSigniertes'
    BY <1>20 DEF LegeAb, GibFrei
  <1>21. ASSUME NEW n \in Nachreicher, AblegenScheitert(n) PROVE NurSigniertes'
    BY <1>21 DEF AblegenScheitert
  <1>22. ASSUME NEW n \in Nachreicher, VersucheWieder(n) PROVE NurSigniertes'
    BY <1>22 DEF VersucheWieder, GibFrei
  <1>23. ASSUME NEW n \in Nachreicher, GibAuf(n) PROVE NurSigniertes'
    BY <1>23 DEF GibAuf, GibFrei
  <1>24. ASSUME NEW q \in Belege \cup Nachreicher, SchlageNach(q) PROVE NurSigniertes'
    BY <1>24 DEF SchlageNach
  <1>25. ASSUME NEW q \in Belege \cup Nachreicher, TrageEin(q) PROVE NurSigniertes'
    BY <1>25 DEF TrageEin
  <1>26. ASSUME NEW q \in Belege \cup Nachreicher, MeldungScheitert(q) PROVE NurSigniertes'
    BY <1>26 DEF MeldungScheitert
  <1>27. ASSUME HaengeAus PROVE NurSigniertes'
    BY <1>27 DEF HaengeAus
  <1>28. ASSUME Kassenabsturz PROVE NurSigniertes'
    <2>1. \A q \in Gesendet : tse[Beleg(q)] = "beendet"
      BY DEF Gesendet
    <2>2. PICK B \in SUBSET {Beleg(q) : q \in Gesendet} :
              beiServer' = [b \in Belege |-> IF b \in B /\ beiServer[b] = 0 THEN 1 ELSE beiServer[b]]
      BY <1>28 DEF Kassenabsturz
    <2>3. \A b \in Belege : beiServer'[b] # 0 => tse[b] = "beendet"
      BY <2>1, <2>2
    <2>4. /\ kasse' = [b \in Belege |-> IF kasse[b] \in ImDialog THEN "abgerissen" ELSE kasse[b]]
          /\ meldung' = [q \in Belege \cup Nachreicher |-> "keine"]
          /\ liste' = [n \in Nachreicher |-> {}] /\ gelesen' = [n \in Nachreicher |-> {}]
          /\ haelt' = [n \in Nachreicher |-> Keiner] /\ schritt' = [n \in Nachreicher |-> "ruht"]
          /\ UNCHANGED <<tse, eintrag, signatur>>
      BY <1>28 DEF Kassenabsturz
    <2> QED
      BY <2>3, <2>4
  <1> QED
    BY <1>1, <1>2, <1>3, <1>4, <1>5, <1>6, <1>7, <1>8, <1>9, <1>10, <1>11, <1>12, <1>13, <1>14, <1>15, <1>16, <1>17, <1>18, <1>19, <1>20, <1>21, <1>22, <1>23, <1>24, <1>25, <1>26, <1>27, <1>28 DEF NachNext, KassenSchritt, PassSchritt, MeldeSchritt

LEMMA AuskunftSchritt ==
    ASSUME NachTypeOK, AuskunftStimmt, [NachNext]_nachVars
    PROVE  AuskunftStimmt'
  <1> USE NachAnnahme DEF NachTypeOK, AuskunftStimmt, reiheVars, passVars
  <1>1. CASE UNCHANGED nachVars
    BY <1>1 DEF nachVars, reiheVars, passVars
  <1>2. ASSUME NEW b \in Belege, Buche(b) PROVE AuskunftStimmt'
    BY <1>2 DEF Buche
  <1>3. ASSUME NEW b \in Belege, ReiheVerkaufEin(b) PROVE AuskunftStimmt'
    BY <1>3 DEF ReiheVerkaufEin
  <1>4. ASSUME NEW b \in Belege, Signiere(b) PROVE AuskunftStimmt'
    BY <1>4 DEF Signiere
  <1>5. ASSUME NEW b \in Belege, VermerkeAusfall(b) PROVE AuskunftStimmt'
    BY <1>5 DEF VermerkeAusfall, Schreibe
  <1>6. ASSUME NEW b \in Belege, SichereAusfall(b) PROVE AuskunftStimmt'
    BY <1>6 DEF SichereAusfall, Schreibe
  <1>7. ASSUME NEW b \in Belege, VermerkeDauerhaft(b) PROVE AuskunftStimmt'
    BY <1>7 DEF VermerkeDauerhaft, Schreibe
  <1>8. ASSUME NEW b \in Belege, MeldeAnServer(b) PROVE AuskunftStimmt'
    BY <1>8 DEF MeldeAnServer
  <1>9. ASSUME NEW b \in Belege, NimmAntwort(b) PROVE AuskunftStimmt'
    <2>1. CASE kasse' = [kasse EXCEPT ![b] = "hinterlegt"] /\ Schreibe(b, "pending", TRUE)
      BY <1>9, <2>1 DEF NimmAntwort, Schreibe
    <2>2. CASE /\ kasse' \in {[kasse EXCEPT ![b] = s] : s \in {"angekommen", "verloren"}}
               /\ UNCHANGED reiheVars
      BY <1>9, <2>2
    <2> QED
      BY <1>9, <2>1, <2>2 DEF NimmAntwort
  <1>10. ASSUME NEW n \in Nachreicher, HaengeEin(n) PROVE AuskunftStimmt'
    BY <1>10 DEF HaengeEin, Ruht
  <1>11. ASSUME NEW n \in Nachreicher, Liste(n) PROVE AuskunftStimmt'
    BY <1>11 DEF Liste, Ruht, Nachreichbar
  <1>12. ASSUME NEW n \in Nachreicher, Nimm(n) PROVE AuskunftStimmt'
    BY <1>12 DEF Nimm
  <1>13. ASSUME NEW n \in Nachreicher, NehmenScheitert(n) PROVE AuskunftStimmt'
    BY <1>13 DEF NehmenScheitert
  <1>14. ASSUME NEW n \in Nachreicher, SigniereNach(n) PROVE AuskunftStimmt'
    BY <1>14 DEF SigniereNach
  <1>15. ASSUME NEW n \in Nachreicher, SigniereNachVerloren(n) PROVE AuskunftStimmt'
    BY <1>15 DEF SigniereNachVerloren
  <1>16. ASSUME NEW n \in Nachreicher, TseLehntAb(n) PROVE AuskunftStimmt'
    BY <1>16 DEF TseLehntAb
  <1>17. ASSUME NEW n \in Nachreicher, MerkeSignatur(n) PROVE AuskunftStimmt'
    BY <1>17 DEF MerkeSignatur
  <1>18. ASSUME NEW n \in Nachreicher, MeldeNach(n) PROVE AuskunftStimmt'
    BY <1>18 DEF MeldeNach
  <1>19. ASSUME NEW n \in Nachreicher, NimmAntwortNach(n) PROVE AuskunftStimmt'
    BY <1>19 DEF NimmAntwortNach
  <1>20. ASSUME NEW n \in Nachreicher, LegeAb(n) PROVE AuskunftStimmt'
    BY <1>20 DEF LegeAb, GibFrei
  <1>21. ASSUME NEW n \in Nachreicher, AblegenScheitert(n) PROVE AuskunftStimmt'
    BY <1>21 DEF AblegenScheitert
  <1>22. ASSUME NEW n \in Nachreicher, VersucheWieder(n) PROVE AuskunftStimmt'
    BY <1>22 DEF VersucheWieder, GibFrei
  <1>23. ASSUME NEW n \in Nachreicher, GibAuf(n) PROVE AuskunftStimmt'
    BY <1>23 DEF GibAuf, GibFrei
  <1>24. ASSUME NEW q \in Belege \cup Nachreicher, SchlageNach(q) PROVE AuskunftStimmt'
    BY <1>24 DEF SchlageNach
  <1>25. ASSUME NEW q \in Belege \cup Nachreicher, TrageEin(q) PROVE AuskunftStimmt'
    BY <1>25 DEF TrageEin
  <1>26. ASSUME NEW q \in Belege \cup Nachreicher, MeldungScheitert(q) PROVE AuskunftStimmt'
    BY <1>26 DEF MeldungScheitert
  <1>27. ASSUME HaengeAus PROVE AuskunftStimmt'
    BY <1>27 DEF HaengeAus
  <1>28. ASSUME Kassenabsturz PROVE AuskunftStimmt'
    BY <1>28 DEF Kassenabsturz
  <1> QED
    BY <1>1, <1>2, <1>3, <1>4, <1>5, <1>6, <1>7, <1>8, <1>9, <1>10, <1>11, <1>12, <1>13, <1>14, <1>15, <1>16, <1>17, <1>18, <1>19, <1>20, <1>21, <1>22, <1>23, <1>24, <1>25, <1>26, <1>27, <1>28 DEF NachNext, KassenSchritt, PassSchritt, MeldeSchritt

LEMMA NachAnfang == NachInit => NachInduktiv
  BY NachAnnahme DEF NachInit, NachInduktiv, NachTypeOK, Kassenstand, MeldetNurGehaltenes, SignaturTraegt,
     SignaturEinmal, NurSigniertes, AuskunftStimmt

\* The inductive invariant holds in every reachable state.
THEOREM NachImmerInduktiv == NachSpec => []NachInduktiv
  <1>1. NachInduktiv /\ [NachNext]_nachVars => NachInduktiv'
    BY NachTypSchritt, MeldetSchritt, SignaturSchritt, SigniertSchritt, AuskunftSchritt DEF NachInduktiv
  <1> QED
    BY <1>1, NachAnfang, PTL DEF NachSpec

(***************************************************************************)
(* What follows                                                            *)
(***************************************************************************)

\* Every variable keeps its type.
THEOREM NachTypkorrekt == NachSpec => []NachTypeOK
  <1>1. NachInduktiv => NachTypeOK
    BY DEF NachInduktiv
  <1> QED
    BY <1>1, NachImmerInduktiv, PTL

\* A receipt is signed once at the server, and a row put away is signed.
THEOREM NurEineSignatur == NachSpec => []SignaturEinmal
  <1>1. NachInduktiv => SignaturEinmal
    BY DEF NachInduktiv, SignaturTraegt
  <1> QED
    BY <1>1, NachImmerInduktiv, PTL

\* What the cashier was told about the signature stays true.
THEOREM AuskunftIstWahr == NachSpec => []AuskunftStimmt
  <1>1. NachInduktiv => AuskunftStimmt
    BY DEF NachInduktiv
  <1> QED
    BY <1>1, NachImmerInduktiv, PTL

(***************************************************************************)
(* A signature stays in its row                                            *)
(***************************************************************************)

LEMMA BleibtSchritt ==
    ASSUME NachTypeOK, [NachNext]_nachVars
    PROVE  \A c \in Belege : signatur[c] => signatur'[c]
  <1> USE NachAnnahme DEF NachTypeOK, reiheVars, passVars
  <1>1. CASE UNCHANGED nachVars
    BY <1>1 DEF nachVars, reiheVars, passVars
  <1>2. ASSUME NEW b \in Belege, Buche(b) PROVE \A c \in Belege : signatur[c] => signatur'[c]
    BY <1>2 DEF Buche
  <1>3. ASSUME NEW b \in Belege, ReiheVerkaufEin(b) PROVE \A c \in Belege : signatur[c] => signatur'[c]
    BY <1>3 DEF ReiheVerkaufEin
  <1>4. ASSUME NEW b \in Belege, Signiere(b) PROVE \A c \in Belege : signatur[c] => signatur'[c]
    BY <1>4 DEF Signiere
  <1>5. ASSUME NEW b \in Belege, VermerkeAusfall(b) PROVE \A c \in Belege : signatur[c] => signatur'[c]
    BY <1>5 DEF VermerkeAusfall, Schreibe
  <1>6. ASSUME NEW b \in Belege, SichereAusfall(b) PROVE \A c \in Belege : signatur[c] => signatur'[c]
    BY <1>6 DEF SichereAusfall, Schreibe
  <1>7. ASSUME NEW b \in Belege, VermerkeDauerhaft(b) PROVE \A c \in Belege : signatur[c] => signatur'[c]
    BY <1>7 DEF VermerkeDauerhaft, Schreibe
  <1>8. ASSUME NEW b \in Belege, MeldeAnServer(b) PROVE \A c \in Belege : signatur[c] => signatur'[c]
    BY <1>8 DEF MeldeAnServer
  <1>9. ASSUME NEW b \in Belege, NimmAntwort(b) PROVE \A c \in Belege : signatur[c] => signatur'[c]
    BY <1>9 DEF NimmAntwort, Schreibe
  <1>10. ASSUME NEW n \in Nachreicher, HaengeEin(n) PROVE \A c \in Belege : signatur[c] => signatur'[c]
    BY <1>10 DEF HaengeEin, Ruht
  <1>11. ASSUME NEW n \in Nachreicher, Liste(n) PROVE \A c \in Belege : signatur[c] => signatur'[c]
    BY <1>11 DEF Liste, Ruht, Nachreichbar
  <1>12. ASSUME NEW n \in Nachreicher, Nimm(n) PROVE \A c \in Belege : signatur[c] => signatur'[c]
    BY <1>12 DEF Nimm
  <1>13. ASSUME NEW n \in Nachreicher, NehmenScheitert(n) PROVE \A c \in Belege : signatur[c] => signatur'[c]
    BY <1>13 DEF NehmenScheitert
  <1>14. ASSUME NEW n \in Nachreicher, SigniereNach(n) PROVE \A c \in Belege : signatur[c] => signatur'[c]
    BY <1>14 DEF SigniereNach
  <1>15. ASSUME NEW n \in Nachreicher, SigniereNachVerloren(n) PROVE \A c \in Belege : signatur[c] => signatur'[c]
    BY <1>15 DEF SigniereNachVerloren
  <1>16. ASSUME NEW n \in Nachreicher, TseLehntAb(n) PROVE \A c \in Belege : signatur[c] => signatur'[c]
    BY <1>16 DEF TseLehntAb
  <1>17. ASSUME NEW n \in Nachreicher, MerkeSignatur(n) PROVE \A c \in Belege : signatur[c] => signatur'[c]
    BY <1>17 DEF MerkeSignatur
  <1>18. ASSUME NEW n \in Nachreicher, MeldeNach(n) PROVE \A c \in Belege : signatur[c] => signatur'[c]
    BY <1>18 DEF MeldeNach
  <1>19. ASSUME NEW n \in Nachreicher, NimmAntwortNach(n) PROVE \A c \in Belege : signatur[c] => signatur'[c]
    BY <1>19 DEF NimmAntwortNach
  <1>20. ASSUME NEW n \in Nachreicher, LegeAb(n) PROVE \A c \in Belege : signatur[c] => signatur'[c]
    BY <1>20 DEF LegeAb, GibFrei
  <1>21. ASSUME NEW n \in Nachreicher, AblegenScheitert(n) PROVE \A c \in Belege : signatur[c] => signatur'[c]
    BY <1>21 DEF AblegenScheitert
  <1>22. ASSUME NEW n \in Nachreicher, VersucheWieder(n) PROVE \A c \in Belege : signatur[c] => signatur'[c]
    BY <1>22 DEF VersucheWieder, GibFrei
  <1>23. ASSUME NEW n \in Nachreicher, GibAuf(n) PROVE \A c \in Belege : signatur[c] => signatur'[c]
    BY <1>23 DEF GibAuf, GibFrei
  <1>24. ASSUME NEW q \in Belege \cup Nachreicher, SchlageNach(q) PROVE \A c \in Belege : signatur[c] => signatur'[c]
    BY <1>24 DEF SchlageNach
  <1>25. ASSUME NEW q \in Belege \cup Nachreicher, TrageEin(q) PROVE \A c \in Belege : signatur[c] => signatur'[c]
    BY <1>25 DEF TrageEin
  <1>26. ASSUME NEW q \in Belege \cup Nachreicher, MeldungScheitert(q) PROVE \A c \in Belege : signatur[c] => signatur'[c]
    BY <1>26 DEF MeldungScheitert
  <1>27. ASSUME HaengeAus PROVE \A c \in Belege : signatur[c] => signatur'[c]
    BY <1>27 DEF HaengeAus
  <1>28. ASSUME Kassenabsturz PROVE \A c \in Belege : signatur[c] => signatur'[c]
    BY <1>28 DEF Kassenabsturz
  <1> QED
    BY <1>1, <1>2, <1>3, <1>4, <1>5, <1>6, <1>7, <1>8, <1>9, <1>10, <1>11, <1>12, <1>13, <1>14, <1>15, <1>16, <1>17, <1>18, <1>19, <1>20, <1>21, <1>22, <1>23, <1>24, <1>25, <1>26, <1>27, <1>28 DEF NachNext, KassenSchritt, PassSchritt, MeldeSchritt

\* No step takes the signature out of a row.
THEOREM SignaturGehtNieVerloren == NachSpec => SignaturBleibt
  <1>1. NachTypeOK /\ [NachNext]_nachVars => [\A b \in Belege : signatur[b] => signatur'[b]]_nachVars
    BY BleibtSchritt
  <1> QED
    BY <1>1, NachTypkorrekt, PTL DEF NachSpec, SignaturBleibt

(***************************************************************************)
(* Nachreichen implements Signaturbuch                                     *)
(***************************************************************************)

\* What neither signs nor stores nor delivers may move rows only, and a row
\* counts as delivered only when it is.
LEMMA ReiheImSignaturbuch ==
    ASSUME NachInduktiv', UNCHANGED <<tse, signatur, beiServer>>
    PROVE  [Signaturbuch!Next]_Signaturbuch!vars
  <1>1. \A b \in Zugestellt' : beiServer'[b] = 1
    BY DEF NachInduktiv, SignaturTraegt, SignaturEinmal, Zugestellt
  <1>2. Signaturbuch!Bestaetige(Zugestellt')
    BY <1>1 DEF Signaturbuch!Bestaetige, Gemerkt
  <1>3. Zugestellt' \in SUBSET Belege
    BY DEF Zugestellt
  <1> QED
    BY <1>2, <1>3 DEF Signaturbuch!Next

\* A step at the TSE.
LEMMA TseImSignaturbuch ==
    ASSUME NachTypeOK, NEW b \in Belege,
           UNCHANGED <<signatur, beiServer>>, Zugestellt' = Zugestellt,
           \/ tse[b] = "keine" /\ tse' = [tse EXCEPT ![b] = "offen"]
           \/ tse[b] = "offen" /\ tse' = [tse EXCEPT ![b] = "beendet"]
           \/ UNCHANGED tse
    PROVE  [Signaturbuch!Next]_Signaturbuch!vars
  <1>1. UNCHANGED <<Gemerkt, beiServer, Zugestellt>>
    BY DEF Gemerkt
  <1>2. Signaturbuch!Eroeffne(b) \/ Signaturbuch!Beende(b) \/ UNCHANGED Signaturbuch!vars
    BY <1>1 DEF Signaturbuch!Eroeffne, Signaturbuch!Beende, Signaturbuch!vars
  <1> QED
    BY <1>2 DEF Signaturbuch!Next

\* A signature is written to the row.
LEMMA MerkenImSignaturbuch ==
    ASSUME NachTypeOK, NEW b \in Belege, tse[b] = "beendet",
           UNCHANGED <<tse, beiServer>>, Zugestellt' = Zugestellt,
           signatur' = [signatur EXCEPT ![b] = TRUE]
    PROVE  [Signaturbuch!Next]_Signaturbuch!vars
  <1>1. Gemerkt' = Gemerkt \cup {b}
    BY DEF Gemerkt, NachTypeOK
  <1>2. Signaturbuch!Merke(b)
    BY <1>1 DEF Signaturbuch!Merke
  <1> QED
    BY <1>2 DEF Signaturbuch!Next

\* Signatures arrive at the server.
LEMMA AblegenImSignaturbuch ==
    ASSUME UNCHANGED <<tse, signatur>>, Zugestellt' = Zugestellt,
           NEW B \in SUBSET Belege, \A b \in B : tse[b] = "beendet",
           beiServer' = [b \in Belege |-> IF b \in B THEN 1 ELSE beiServer[b]]
    PROVE  [Signaturbuch!Next]_Signaturbuch!vars
  <1>1. Signaturbuch!LegeAb(B)
    BY DEF Signaturbuch!LegeAb, Gemerkt
  <1> QED
    BY <1>1 DEF Signaturbuch!Next

LEMMA KasseImSignaturbuch ==
    ASSUME NachInduktiv, NachInduktiv', NEW b \in Belege, KassenSchritt(b)
    PROVE  [Signaturbuch!Next]_Signaturbuch!vars
  <1> USE DEF NachInduktiv, NachTypeOK, NurSigniertes, reiheVars
  <1>1. CASE Buche(b) \/ ReiheVerkaufEin(b) \/ Signiere(b)
    <2>1. UNCHANGED <<signatur, beiServer>>
      BY <1>1 DEF Buche, ReiheVerkaufEin, Signiere
    <2>2. Zugestellt' = Zugestellt
      BY <1>1 DEF Buche, ReiheVerkaufEin, Signiere, Zugestellt
    <2>3. \/ tse[b] = "keine" /\ tse' = [tse EXCEPT ![b] = "offen"]
          \/ tse[b] = "offen" /\ tse' = [tse EXCEPT ![b] = "beendet"]
          \/ UNCHANGED tse
      BY <1>1 DEF Buche, ReiheVerkaufEin, Signiere
    <2> QED
      BY <2>1, <2>2, <2>3, TseImSignaturbuch
  <1>2. CASE VermerkeAusfall(b) \/ SichereAusfall(b) \/ VermerkeDauerhaft(b) \/ MeldeAnServer(b)
    <2>1. UNCHANGED <<tse, signatur, beiServer>>
      BY <1>2 DEF VermerkeAusfall, SichereAusfall, VermerkeDauerhaft, MeldeAnServer, Schreibe
    <2> QED
      BY <2>1, ReiheImSignaturbuch
  <1>3. CASE NimmAntwort(b)
    <2>1. CASE UNCHANGED reiheVars
      BY <1>3, <2>1, ReiheImSignaturbuch DEF NimmAntwort
    <2>2. CASE Schreibe(b, "pending", TRUE) /\ kasse' = [kasse EXCEPT ![b] = "hinterlegt"]
      <3>1. tse[b] = "beendet" /\ kasse[b] = "gemeldet" /\ eintrag[b] = "KEINER"
        BY <1>3 DEF NimmAntwort
      <3>2. signatur' = [signatur EXCEPT ![b] = TRUE] /\ UNCHANGED <<tse, beiServer>>
        BY <1>3, <2>2 DEF NimmAntwort, Schreibe
      <3>3. Zugestellt' = Zugestellt
        BY <2>2, <3>1 DEF Schreibe, Zugestellt
      <3> QED
        BY <3>1, <3>2, <3>3, MerkenImSignaturbuch
    <2> QED
      BY <1>3, <2>1, <2>2 DEF NimmAntwort
  <1> QED
    BY <1>1, <1>2, <1>3 DEF KassenSchritt

LEMMA PassImSignaturbuch ==
    ASSUME NachInduktiv, NachInduktiv', NEW n \in Nachreicher, PassSchritt(n)
    PROVE  [Signaturbuch!Next]_Signaturbuch!vars
  <1> USE NachAnnahme DEF NachInduktiv, NachTypeOK, reiheVars
  <1>1. CASE SigniereNach(n) \/ SigniereNachVerloren(n)
    <2>1. haelt[n] \in Belege
      BY <1>1 DEF SigniereNach, SigniereNachVerloren
    <2>2. UNCHANGED <<kasse, eintrag, signatur, beiServer>>
      BY <1>1 DEF SigniereNach, SigniereNachVerloren
    <2>3. Zugestellt' = Zugestellt
      BY <2>2 DEF Zugestellt
    <2>4. \/ tse[haelt[n]] = "offen" /\ tse' = [tse EXCEPT ![haelt[n]] = "beendet"]
          \/ UNCHANGED tse
      BY <1>1, <2>1 DEF SigniereNach, SigniereNachVerloren
    <2> QED
      BY <2>1, <2>2, <2>3, <2>4, TseImSignaturbuch
  <1>2. CASE MerkeSignatur(n)
    <2>1. haelt[n] \in Belege /\ tse[haelt[n]] = "beendet"
      BY <1>2 DEF MerkeSignatur, NurSigniertes
    <2>2. UNCHANGED <<kasse, eintrag, tse, beiServer>>
      BY <1>2 DEF MerkeSignatur
    <2>3. Zugestellt' = Zugestellt
      BY <2>2 DEF Zugestellt
    <2>4. signatur' = signatur \/ signatur' = [signatur EXCEPT ![haelt[n]] = TRUE]
      BY <1>2 DEF MerkeSignatur
    <2> QED
      BY <2>1, <2>2, <2>3, <2>4, MerkenImSignaturbuch, ReiheImSignaturbuch
  <1>3. CASE \/ Nimm(n) \/ NehmenScheitert(n) \/ TseLehntAb(n) \/ MeldeNach(n) \/ NimmAntwortNach(n)
             \/ LegeAb(n) \/ AblegenScheitert(n) \/ VersucheWieder(n) \/ GibAuf(n)
    <2>1. UNCHANGED <<tse, signatur, beiServer>>
      BY <1>3 DEF Nimm, NehmenScheitert, TseLehntAb, MeldeNach, NimmAntwortNach, LegeAb,
                  AblegenScheitert, VersucheWieder, GibAuf, GibFrei
    <2> QED
      BY <2>1, ReiheImSignaturbuch
  <1> QED
    BY <1>1, <1>2, <1>3 DEF PassSchritt

LEMMA HoechstensEine ==
    ASSUME NachInduktiv
    PROVE  \A b \in Belege : beiServer[b] \in {0, 1}
  <1>1. beiServer \in [Belege -> Nat] /\ \A b \in Belege : beiServer[b] <= 1
    BY DEF NachInduktiv, NachTypeOK, SignaturTraegt, SignaturEinmal
  <1>2. \A i \in Nat : i <= 1 => i \in {0, 1}
    OBVIOUS
  <1> QED
    BY <1>1, <1>2

LEMMA ServerImSignaturbuch ==
    ASSUME NachInduktiv, NachInduktiv', NEW q \in Belege \cup Nachreicher, MeldeSchritt(q)
    PROVE  [Signaturbuch!Next]_Signaturbuch!vars
  <1> USE NachAnnahme DEF NachInduktiv, NachTypeOK, reiheVars
  <1>1. CASE SchlageNach(q) \/ MeldungScheitert(q)
    <2>1. UNCHANGED <<tse, signatur, beiServer>>
      BY <1>1 DEF SchlageNach, MeldungScheitert
    <2> QED
      BY <2>1, ReiheImSignaturbuch
  <1>2. CASE TrageEin(q)
    <2>1. Beleg(q) \in Belege /\ tse[Beleg(q)] = "beendet"
      BY <1>2 DEF TrageEin, Beleg, NurSigniertes, MeldetNurGehaltenes
    <2>2. UNCHANGED <<kasse, eintrag, tse, signatur>>
      BY <1>2 DEF TrageEin
    <2>3. Zugestellt' = Zugestellt
      BY <2>2 DEF Zugestellt
    <2>4. beiServer[Beleg(q)] \in {0, 1}
      BY <2>1, HoechstensEine
    <2>5. beiServer' = [b \in Belege |-> IF b \in {Beleg(q)} THEN 1 ELSE beiServer[b]]
      BY <1>2, <2>1, <2>4 DEF TrageEin
    <2>6. {Beleg(q)} \in SUBSET Belege /\ \A b \in {Beleg(q)} : tse[b] = "beendet"
      BY <2>1
    <2>7. UNCHANGED <<tse, signatur>>
      BY <2>2
    <2> QED
      BY <2>3, <2>5, <2>6, <2>7, AblegenImSignaturbuch
  <1> QED
    BY <1>1, <1>2 DEF MeldeSchritt

LEMMA AbsturzImSignaturbuch ==
    ASSUME NachInduktiv, NachInduktiv', Kassenabsturz
    PROVE  [Signaturbuch!Next]_Signaturbuch!vars
  <1> USE NachAnnahme DEF NachInduktiv, NachTypeOK, reiheVars
  <1>1. PICK B \in SUBSET {Beleg(q) : q \in Gesendet} :
            beiServer' = [b \in Belege |-> IF b \in B /\ beiServer[b] = 0 THEN 1 ELSE beiServer[b]]
    BY DEF Kassenabsturz
  <1>2. \A q \in Gesendet : Beleg(q) \in Belege /\ tse[Beleg(q)] = "beendet"
    BY DEF Gesendet, Beleg, NurSigniertes, MeldetNurGehaltenes
  <1>3. B \in SUBSET Belege /\ \A b \in B : tse[b] = "beendet"
    BY <1>2
  <1>4. \A b \in Belege : beiServer[b] \in {0, 1}
    BY HoechstensEine
  <1>5. beiServer' = [b \in Belege |-> IF b \in B THEN 1 ELSE beiServer[b]]
    BY <1>1, <1>3, <1>4
  <1>6. Zugestellt' = Zugestellt
    BY DEF Kassenabsturz, Zugestellt, ImDialog
  <1>7. UNCHANGED <<tse, signatur>>
    BY DEF Kassenabsturz
  <1> QED
    BY <1>3, <1>5, <1>6, <1>7, AblegenImSignaturbuch

LEMMA SignaturbuchSchritt ==
    ASSUME NachInduktiv, NachInduktiv', [NachNext]_nachVars
    PROVE  [Signaturbuch!Next]_Signaturbuch!vars
  <1>1. CASE UNCHANGED nachVars \/ HaengeAus \/ \E n \in Nachreicher : HaengeEin(n) \/ Liste(n)
    <2>1. UNCHANGED <<tse, signatur, beiServer>>
      BY <1>1 DEF nachVars, reiheVars, HaengeAus, HaengeEin, Liste
    <2> QED
      BY <2>1, ReiheImSignaturbuch
  <1> QED
    BY <1>1, KasseImSignaturbuch, PassImSignaturbuch, ServerImSignaturbuch, AbsturzImSignaturbuch DEF NachNext

\* Whoever signs, stores, reports or repeats, and wherever the till ends: the
\* signatures stay a book an auditor can read.
THEOREM VerfeinertSignaturbuch == NachSpec => IstSignaturbuch
  <1>1. NachInit => Signaturbuch!Init
    BY DEF NachInit, Gemerkt, Zugestellt, Signaturbuch!Init
  <1>2. NachInduktiv /\ NachInduktiv' /\ [NachNext]_nachVars => [Signaturbuch!Next]_Signaturbuch!vars
    BY SignaturbuchSchritt
  <1> QED
    BY <1>1, <1>2, NachImmerInduktiv, PTL DEF NachSpec, IstSignaturbuch, Signaturbuch!Spec

=============================================================================
