----------------------------- MODULE AusgangProofs -----------------------------
(***************************************************************************)
(* Proofs about the way of a request out of the till, for any number of    *)
(* requests and replay controllers.                                        *)
(*                                                                         *)
(* The argument: an answer "ok" is an answer about a booked key            *)
(* (AntwortTraegt), so nobody says "booked" of anything else; an intent is *)
(* closed only behind a row or a receipt, and rows do not go away          *)
(* (AbsichtGedeckt); and a controller that listens has on its list every   *)
(* pending row but those behind its last one (ListeVoran), and has gone    *)
(* past none of what it has read before it was booked (ListeErledigt).     *)
(***************************************************************************)
EXTENDS Ausgang, FiniteSetTheorems, TLAPS

(***************************************************************************)
(* The inductive invariant                                                 *)
(***************************************************************************)

\* Only a listening controller has sent something, and that is its record.
SendetNurGehaltenes ==
    \A l \in Laeufe : antwort[l] # "keine" => phase[l] = "lauscht" /\ bei[l] # Niemand

\* "ok" is said of a booked key only, and so is what follows from it.
AntwortTraegt ==
    /\ \A v \in Vorgaenge :
          /\ buch[v] <= 1
          /\ dialog[v] \in {"beantwortet", "gebucht"} => buch[v] = 1
          /\ zeile[v] = "succeeded" => buch[v] = 1
    /\ \A q \in Vorgaenge \cup Laeufe : antwort[q] = "ok" => buch[Schluessel(q)] = 1

\* What was told or closed has its row or its receipt.
AbsichtGedeckt ==
    /\ AbsichtGehtNichtVerloren
    /\ \A l \in Laeufe : phase[l] = "abgleich" /\ bei[l] # Niemand => zeile[bei[l]] # "KEINE"

\* What is pending and not on the list of a listening controller was queued
\* behind all that is, or was sent again by the owner.
ListeVoran ==
    \A l \in Laeufe : phase[l] = "lauscht" =>
        /\ \A w \in rest[l] : zeile[w] # "KEINE"
        /\ \A v \in Vorgaenge \ (rest[l] \cup erneut) :
              zeile[v] = "pending" => \A w \in rest[l] : nr[w] < nr[v]

\* Only a pass that runs has read a list, and what is no longer left of it is
\* booked.
ListeErledigt ==
    \A l \in Laeufe :
        /\ gefunden[l] # {} => phase[l] = "lauscht" /\ rest[l] # {}
        /\ \A v \in gefunden[l] \ rest[l] : buch[v] = 1

AusgangInduktiv ==
    /\ AusgangTypeOK
    /\ SendetNurGehaltenes
    /\ AntwortTraegt
    /\ AbsichtGedeckt
    /\ ListeVoran
    /\ ListeErledigt

(***************************************************************************)
(* One step of the specification                                           *)
(***************************************************************************)

LEMMA AusgangTypSchritt ==
    ASSUME AusgangTypeOK, [AusgangNext]_ausgangVars
    PROVE  AusgangTypeOK'
  <1> USE AusgangAnnahme DEF AusgangTypeOK, Dialogstand, dialogVars, korbVars, laufVars
  <1>1. CASE UNCHANGED ausgangVars
    BY <1>1 DEF ausgangVars, dialogVars, korbVars, laufVars
  <1>2. ASSUME NEW v \in Vorgaenge, Siegle(v) PROVE AusgangTypeOK'
    BY <1>2 DEF Siegle
  <1>3. ASSUME NEW v \in Vorgaenge, SendeDirekt(v) PROVE AusgangTypeOK'
    BY <1>3 DEF SendeDirekt
  <1>4. ASSUME NEW v \in Vorgaenge, ReiheEin(v) PROVE AusgangTypeOK'
    BY <1>4 DEF ReiheEin, LegeInKorb, NaechsteNr
  <1>5. ASSUME NEW v \in Vorgaenge, EinreihenScheitert(v) PROVE AusgangTypeOK'
    BY <1>5 DEF EinreihenScheitert
  <1>6. ASSUME NEW v \in Vorgaenge, Uebergib(v) PROVE AusgangTypeOK'
    BY <1>6 DEF Uebergib
  <1>7. ASSUME NEW v \in Vorgaenge, Empfange(v) PROVE AusgangTypeOK'
    BY <1>7 DEF Empfange
  <1>8. ASSUME NEW v \in Vorgaenge, Erledige(v) PROVE AusgangTypeOK'
    BY <1>8 DEF Erledige
  <1>9. ASSUME NEW v \in Vorgaenge, Schliesse(v) PROVE AusgangTypeOK'
    BY <1>9 DEF Schliesse
  <1>10. ASSUME NEW v \in Vorgaenge, Verwerfe(v) PROVE AusgangTypeOK'
    BY <1>10 DEF Verwerfe
  <1>11. ASSUME NEW v \in Vorgaenge, LegeErneutVor(v) PROVE AusgangTypeOK'
    BY <1>11 DEF LegeErneutVor
  <1>12. ASSUME NEW l \in Laeufe, Anmelden(l) PROVE AusgangTypeOK'
    BY <1>12 DEF Anmelden
  <1>13. ASSUME NEW l \in Laeufe, Netzereignis(l) PROVE AusgangTypeOK'
    BY <1>13 DEF Netzereignis, Anstehend
  <1>14. ASSUME NEW l \in Laeufe, GleicheAb(l) PROVE AusgangTypeOK'
    BY <1>14 DEF GleicheAb, LegeInKorb, NaechsteNr
  <1>15. ASSUME NEW l \in Laeufe, SchliesseAb(l) PROVE AusgangTypeOK'
    BY <1>15 DEF SchliesseAb
  <1>16. ASSUME NEW l \in Laeufe, AbgleichScheitert(l) PROVE AusgangTypeOK'
    BY <1>16 DEF AbgleichScheitert
  <1>17. ASSUME NEW l \in Laeufe, Starte(l) PROVE AusgangTypeOK'
    BY <1>17 DEF Starte, Abgeglichen, Anstehend
  <1>18. ASSUME NEW l \in Laeufe, StarteOhneLauf(l) PROVE AusgangTypeOK'
    BY <1>18 DEF StarteOhneLauf, Abgeglichen
  <1>19. ASSUME NEW l \in Laeufe, SendeZeile(l) PROVE AusgangTypeOK'
    BY <1>19 DEF SendeZeile
  <1>20. ASSUME NEW l \in Laeufe, Verbuche(l) PROVE AusgangTypeOK'
    BY <1>20 DEF Verbuche, BeendeLauf
  <1>21. ASSUME NEW l \in Laeufe, Halte(l) PROVE AusgangTypeOK'
    BY <1>21 DEF Halte, BeendeLauf
  <1>22. ASSUME NEW l \in Laeufe, VerbuchenScheitert(l) PROVE AusgangTypeOK'
    BY <1>22 DEF VerbuchenScheitert, BeendeLauf
  <1>23. ASSUME NEW l \in Laeufe, BrichAb(l) PROVE AusgangTypeOK'
    BY <1>23 DEF BrichAb, BeendeLauf
  <1>24. ASSUME NEW q \in Vorgaenge \cup Laeufe, Bearbeite(q) PROVE AusgangTypeOK'
    BY <1>24 DEF Bearbeite, NachBuchung
  <1>25. ASSUME NEW q \in Vorgaenge \cup Laeufe, LehneAb(q) PROVE AusgangTypeOK'
    BY <1>25 DEF LehneAb
  <1>26. ASSUME NEW q \in Vorgaenge \cup Laeufe, Stoere(q) PROVE AusgangTypeOK'
    BY <1>26 DEF Stoere, NachBuchung
  <1>27. ASSUME Abmelden PROVE AusgangTypeOK'
    BY <1>27 DEF Abmelden
  <1>28. ASSUME Absturz PROVE AusgangTypeOK'
    <2>1. buch' \in [Vorgaenge -> Nat]
      BY <1>28 DEF Absturz
    <2>2. dialog' \in [Vorgaenge -> Dialogstand]
      BY <1>28 DEF Absturz
    <2> QED
      BY <1>28, <2>1, <2>2 DEF Absturz
  <1> QED
    BY <1>1, <1>2, <1>3, <1>4, <1>5, <1>6, <1>7, <1>8, <1>9, <1>10, <1>11, <1>12, <1>13, <1>14, <1>15, <1>16, <1>17, <1>18, <1>19, <1>20, <1>21, <1>22, <1>23, <1>24, <1>25, <1>26, <1>27, <1>28 DEF AusgangNext, DialogSchritt, LaufSchritt, ServerSchritt

LEMMA SendetSchritt ==
    ASSUME AusgangTypeOK, SendetNurGehaltenes, [AusgangNext]_ausgangVars
    PROVE  SendetNurGehaltenes'
  <1> USE AusgangAnnahme DEF AusgangTypeOK, SendetNurGehaltenes, dialogVars, korbVars, laufVars
  <1>1. CASE UNCHANGED ausgangVars
    BY <1>1 DEF ausgangVars, dialogVars, korbVars, laufVars
  <1>2. ASSUME NEW v \in Vorgaenge, Siegle(v) PROVE SendetNurGehaltenes'
    BY <1>2 DEF Siegle
  <1>3. ASSUME NEW v \in Vorgaenge, SendeDirekt(v) PROVE SendetNurGehaltenes'
    BY <1>3 DEF SendeDirekt
  <1>4. ASSUME NEW v \in Vorgaenge, ReiheEin(v) PROVE SendetNurGehaltenes'
    BY <1>4 DEF ReiheEin, LegeInKorb, NaechsteNr
  <1>5. ASSUME NEW v \in Vorgaenge, EinreihenScheitert(v) PROVE SendetNurGehaltenes'
    BY <1>5 DEF EinreihenScheitert
  <1>6. ASSUME NEW v \in Vorgaenge, Uebergib(v) PROVE SendetNurGehaltenes'
    BY <1>6 DEF Uebergib
  <1>7. ASSUME NEW v \in Vorgaenge, Empfange(v) PROVE SendetNurGehaltenes'
    BY <1>7 DEF Empfange
  <1>8. ASSUME NEW v \in Vorgaenge, Erledige(v) PROVE SendetNurGehaltenes'
    BY <1>8 DEF Erledige
  <1>9. ASSUME NEW v \in Vorgaenge, Schliesse(v) PROVE SendetNurGehaltenes'
    BY <1>9 DEF Schliesse
  <1>10. ASSUME NEW v \in Vorgaenge, Verwerfe(v) PROVE SendetNurGehaltenes'
    BY <1>10 DEF Verwerfe
  <1>11. ASSUME NEW v \in Vorgaenge, LegeErneutVor(v) PROVE SendetNurGehaltenes'
    BY <1>11 DEF LegeErneutVor
  <1>12. ASSUME NEW l \in Laeufe, Anmelden(l) PROVE SendetNurGehaltenes'
    BY <1>12 DEF Anmelden, Frei
  <1>13. ASSUME NEW l \in Laeufe, Netzereignis(l) PROVE SendetNurGehaltenes'
    BY <1>13 DEF Netzereignis, Frei
  <1>14. ASSUME NEW l \in Laeufe, GleicheAb(l) PROVE SendetNurGehaltenes'
    BY <1>14 DEF GleicheAb, LegeInKorb, NaechsteNr
  <1>15. ASSUME NEW l \in Laeufe, SchliesseAb(l) PROVE SendetNurGehaltenes'
    BY <1>15 DEF SchliesseAb
  <1>16. ASSUME NEW l \in Laeufe, AbgleichScheitert(l) PROVE SendetNurGehaltenes'
    BY <1>16 DEF AbgleichScheitert
  <1>17. ASSUME NEW l \in Laeufe, Starte(l) PROVE SendetNurGehaltenes'
    BY <1>17 DEF Starte, Abgeglichen, Anstehend
  <1>18. ASSUME NEW l \in Laeufe, StarteOhneLauf(l) PROVE SendetNurGehaltenes'
    BY <1>18 DEF StarteOhneLauf, Abgeglichen
  <1>19. ASSUME NEW l \in Laeufe, SendeZeile(l) PROVE SendetNurGehaltenes'
    BY <1>19 DEF SendeZeile
  <1>20. ASSUME NEW l \in Laeufe, Verbuche(l) PROVE SendetNurGehaltenes'
    BY <1>20 DEF Verbuche, BeendeLauf
  <1>21. ASSUME NEW l \in Laeufe, Halte(l) PROVE SendetNurGehaltenes'
    BY <1>21 DEF Halte, BeendeLauf
  <1>22. ASSUME NEW l \in Laeufe, VerbuchenScheitert(l) PROVE SendetNurGehaltenes'
    BY <1>22 DEF VerbuchenScheitert, BeendeLauf
  <1>23. ASSUME NEW l \in Laeufe, BrichAb(l) PROVE SendetNurGehaltenes'
    BY <1>23 DEF BrichAb, BeendeLauf
  <1>24. ASSUME NEW q \in Vorgaenge \cup Laeufe, Bearbeite(q) PROVE SendetNurGehaltenes'
    BY <1>24 DEF Bearbeite, NachBuchung
  <1>25. ASSUME NEW q \in Vorgaenge \cup Laeufe, LehneAb(q) PROVE SendetNurGehaltenes'
    BY <1>25 DEF LehneAb
  <1>26. ASSUME NEW q \in Vorgaenge \cup Laeufe, Stoere(q) PROVE SendetNurGehaltenes'
    BY <1>26 DEF Stoere, NachBuchung
  <1>27. ASSUME Abmelden PROVE SendetNurGehaltenes'
    BY <1>27 DEF Abmelden
  <1>28. ASSUME Absturz PROVE SendetNurGehaltenes'
    BY <1>28 DEF Absturz
  <1> QED
    BY <1>1, <1>2, <1>3, <1>4, <1>5, <1>6, <1>7, <1>8, <1>9, <1>10, <1>11, <1>12, <1>13, <1>14, <1>15, <1>16, <1>17, <1>18, <1>19, <1>20, <1>21, <1>22, <1>23, <1>24, <1>25, <1>26, <1>27, <1>28 DEF AusgangNext, DialogSchritt, LaufSchritt, ServerSchritt

LEMMA AntwortSchritt ==
    ASSUME AusgangTypeOK, SendetNurGehaltenes, AntwortTraegt, [AusgangNext]_ausgangVars
    PROVE  AntwortTraegt'
  <1> USE AusgangAnnahme DEF AusgangTypeOK, SendetNurGehaltenes, AntwortTraegt, Schluessel, dialogVars, korbVars, laufVars
  <1>1. CASE UNCHANGED ausgangVars
    BY <1>1 DEF ausgangVars, dialogVars, korbVars, laufVars
  <1>2. ASSUME NEW v \in Vorgaenge, Siegle(v) PROVE AntwortTraegt'
    BY <1>2 DEF Siegle
  <1>3. ASSUME NEW v \in Vorgaenge, SendeDirekt(v) PROVE AntwortTraegt'
    BY <1>3 DEF SendeDirekt
  <1>4. ASSUME NEW v \in Vorgaenge, ReiheEin(v) PROVE AntwortTraegt'
    BY <1>4 DEF ReiheEin, LegeInKorb, NaechsteNr
  <1>5. ASSUME NEW v \in Vorgaenge, EinreihenScheitert(v) PROVE AntwortTraegt'
    BY <1>5 DEF EinreihenScheitert
  <1>6. ASSUME NEW v \in Vorgaenge, Uebergib(v) PROVE AntwortTraegt'
    BY <1>6 DEF Uebergib
  <1>7. ASSUME NEW v \in Vorgaenge, Empfange(v) PROVE AntwortTraegt'
    BY <1>7 DEF Empfange
  <1>8. ASSUME NEW v \in Vorgaenge, Erledige(v) PROVE AntwortTraegt'
    BY <1>8 DEF Erledige
  <1>9. ASSUME NEW v \in Vorgaenge, Schliesse(v) PROVE AntwortTraegt'
    BY <1>9 DEF Schliesse
  <1>10. ASSUME NEW v \in Vorgaenge, Verwerfe(v) PROVE AntwortTraegt'
    BY <1>10 DEF Verwerfe
  <1>11. ASSUME NEW v \in Vorgaenge, LegeErneutVor(v) PROVE AntwortTraegt'
    BY <1>11 DEF LegeErneutVor
  <1>12. ASSUME NEW l \in Laeufe, Anmelden(l) PROVE AntwortTraegt'
    BY <1>12 DEF Anmelden
  <1>13. ASSUME NEW l \in Laeufe, Netzereignis(l) PROVE AntwortTraegt'
    BY <1>13 DEF Netzereignis, Anstehend
  <1>14. ASSUME NEW l \in Laeufe, GleicheAb(l) PROVE AntwortTraegt'
    BY <1>14 DEF GleicheAb, LegeInKorb, NaechsteNr
  <1>15. ASSUME NEW l \in Laeufe, SchliesseAb(l) PROVE AntwortTraegt'
    BY <1>15 DEF SchliesseAb
  <1>16. ASSUME NEW l \in Laeufe, AbgleichScheitert(l) PROVE AntwortTraegt'
    BY <1>16 DEF AbgleichScheitert
  <1>17. ASSUME NEW l \in Laeufe, Starte(l) PROVE AntwortTraegt'
    BY <1>17 DEF Starte, Abgeglichen, Anstehend
  <1>18. ASSUME NEW l \in Laeufe, StarteOhneLauf(l) PROVE AntwortTraegt'
    BY <1>18 DEF StarteOhneLauf, Abgeglichen
  <1>19. ASSUME NEW l \in Laeufe, SendeZeile(l) PROVE AntwortTraegt'
    BY <1>19 DEF SendeZeile
  <1>20. ASSUME NEW l \in Laeufe, Verbuche(l) PROVE AntwortTraegt'
    BY <1>20 DEF Verbuche, BeendeLauf
  <1>21. ASSUME NEW l \in Laeufe, Halte(l) PROVE AntwortTraegt'
    BY <1>21 DEF Halte, BeendeLauf
  <1>22. ASSUME NEW l \in Laeufe, VerbuchenScheitert(l) PROVE AntwortTraegt'
    BY <1>22 DEF VerbuchenScheitert, BeendeLauf
  <1>23. ASSUME NEW l \in Laeufe, BrichAb(l) PROVE AntwortTraegt'
    BY <1>23 DEF BrichAb, BeendeLauf
  <1>24. ASSUME NEW q \in Vorgaenge \cup Laeufe, Bearbeite(q) PROVE AntwortTraegt'
    BY <1>24 DEF Bearbeite, NachBuchung
  <1>25. ASSUME NEW q \in Vorgaenge \cup Laeufe, LehneAb(q) PROVE AntwortTraegt'
    BY <1>25 DEF LehneAb
  <1>26. ASSUME NEW q \in Vorgaenge \cup Laeufe, Stoere(q) PROVE AntwortTraegt'
    BY <1>26 DEF Stoere, NachBuchung
  <1>27. ASSUME Abmelden PROVE AntwortTraegt'
    BY <1>27 DEF Abmelden
  <1>28. ASSUME Absturz PROVE AntwortTraegt'
    BY <1>28 DEF Absturz
  <1> QED
    BY <1>1, <1>2, <1>3, <1>4, <1>5, <1>6, <1>7, <1>8, <1>9, <1>10, <1>11, <1>12, <1>13, <1>14, <1>15, <1>16, <1>17, <1>18, <1>19, <1>20, <1>21, <1>22, <1>23, <1>24, <1>25, <1>26, <1>27, <1>28 DEF AusgangNext, DialogSchritt, LaufSchritt, ServerSchritt

LEMMA AbsichtSchritt ==
    ASSUME AusgangTypeOK, SendetNurGehaltenes, AntwortTraegt, AbsichtGedeckt, [AusgangNext]_ausgangVars
    PROVE  AbsichtGedeckt'
  <1> USE AusgangAnnahme DEF AusgangTypeOK, SendetNurGehaltenes, AntwortTraegt, AbsichtGedeckt, AbsichtGehtNichtVerloren, dialogVars, korbVars, laufVars
  <1>1. CASE UNCHANGED ausgangVars
    BY <1>1 DEF ausgangVars, dialogVars, korbVars, laufVars
  <1>2. ASSUME NEW v \in Vorgaenge, Siegle(v) PROVE AbsichtGedeckt'
    BY <1>2 DEF Siegle
  <1>3. ASSUME NEW v \in Vorgaenge, SendeDirekt(v) PROVE AbsichtGedeckt'
    BY <1>3 DEF SendeDirekt
  <1>4. ASSUME NEW v \in Vorgaenge, ReiheEin(v) PROVE AbsichtGedeckt'
    BY <1>4 DEF ReiheEin, LegeInKorb, NaechsteNr
  <1>5. ASSUME NEW v \in Vorgaenge, EinreihenScheitert(v) PROVE AbsichtGedeckt'
    BY <1>5 DEF EinreihenScheitert
  <1>6. ASSUME NEW v \in Vorgaenge, Uebergib(v) PROVE AbsichtGedeckt'
    BY <1>6 DEF Uebergib
  <1>7. ASSUME NEW v \in Vorgaenge, Empfange(v) PROVE AbsichtGedeckt'
    BY <1>7 DEF Empfange
  <1>8. ASSUME NEW v \in Vorgaenge, Erledige(v) PROVE AbsichtGedeckt'
    BY <1>8 DEF Erledige
  <1>9. ASSUME NEW v \in Vorgaenge, Schliesse(v) PROVE AbsichtGedeckt'
    BY <1>9 DEF Schliesse
  <1>10. ASSUME NEW v \in Vorgaenge, Verwerfe(v) PROVE AbsichtGedeckt'
    BY <1>10 DEF Verwerfe
  <1>11. ASSUME NEW v \in Vorgaenge, LegeErneutVor(v) PROVE AbsichtGedeckt'
    BY <1>11 DEF LegeErneutVor
  <1>12. ASSUME NEW l \in Laeufe, Anmelden(l) PROVE AbsichtGedeckt'
    BY <1>12 DEF Anmelden, Frei
  <1>13. ASSUME NEW l \in Laeufe, Netzereignis(l) PROVE AbsichtGedeckt'
    BY <1>13 DEF Netzereignis, Anstehend
  <1>14. ASSUME NEW l \in Laeufe, GleicheAb(l) PROVE AbsichtGedeckt'
    BY <1>14 DEF GleicheAb, LegeInKorb, NaechsteNr
  <1>15. ASSUME NEW l \in Laeufe, SchliesseAb(l) PROVE AbsichtGedeckt'
    BY <1>15 DEF SchliesseAb
  <1>16. ASSUME NEW l \in Laeufe, AbgleichScheitert(l) PROVE AbsichtGedeckt'
    BY <1>16 DEF AbgleichScheitert
  <1>17. ASSUME NEW l \in Laeufe, Starte(l) PROVE AbsichtGedeckt'
    BY <1>17 DEF Starte, Abgeglichen, Anstehend
  <1>18. ASSUME NEW l \in Laeufe, StarteOhneLauf(l) PROVE AbsichtGedeckt'
    BY <1>18 DEF StarteOhneLauf, Abgeglichen
  <1>19. ASSUME NEW l \in Laeufe, SendeZeile(l) PROVE AbsichtGedeckt'
    BY <1>19 DEF SendeZeile
  <1>20. ASSUME NEW l \in Laeufe, Verbuche(l) PROVE AbsichtGedeckt'
    BY <1>20 DEF Verbuche, BeendeLauf
  <1>21. ASSUME NEW l \in Laeufe, Halte(l) PROVE AbsichtGedeckt'
    BY <1>21 DEF Halte, BeendeLauf
  <1>22. ASSUME NEW l \in Laeufe, VerbuchenScheitert(l) PROVE AbsichtGedeckt'
    BY <1>22 DEF VerbuchenScheitert, BeendeLauf
  <1>23. ASSUME NEW l \in Laeufe, BrichAb(l) PROVE AbsichtGedeckt'
    BY <1>23 DEF BrichAb, BeendeLauf
  <1>24. ASSUME NEW q \in Vorgaenge \cup Laeufe, Bearbeite(q) PROVE AbsichtGedeckt'
    BY <1>24 DEF Bearbeite, NachBuchung
  <1>25. ASSUME NEW q \in Vorgaenge \cup Laeufe, LehneAb(q) PROVE AbsichtGedeckt'
    BY <1>25 DEF LehneAb
  <1>26. ASSUME NEW q \in Vorgaenge \cup Laeufe, Stoere(q) PROVE AbsichtGedeckt'
    BY <1>26 DEF Stoere, NachBuchung
  <1>27. ASSUME Abmelden PROVE AbsichtGedeckt'
    BY <1>27 DEF Abmelden
  <1>28. ASSUME Absturz PROVE AbsichtGedeckt'
    BY <1>28 DEF Absturz
  <1> QED
    BY <1>1, <1>2, <1>3, <1>4, <1>5, <1>6, <1>7, <1>8, <1>9, <1>10, <1>11, <1>12, <1>13, <1>14, <1>15, <1>16, <1>17, <1>18, <1>19, <1>20, <1>21, <1>22, <1>23, <1>24, <1>25, <1>26, <1>27, <1>28 DEF AusgangNext, DialogSchritt, LaufSchritt, ServerSchritt

LEMMA ListeSchritt ==
    ASSUME AusgangTypeOK, SendetNurGehaltenes, ListeVoran, [AusgangNext]_ausgangVars
    PROVE  ListeVoran'
  <1> USE AusgangAnnahme DEF AusgangTypeOK, SendetNurGehaltenes, ListeVoran, dialogVars, korbVars, laufVars
  <1>1. CASE UNCHANGED ausgangVars
    BY <1>1 DEF ausgangVars, dialogVars, korbVars, laufVars
  <1>2. ASSUME NEW v \in Vorgaenge, Siegle(v) PROVE ListeVoran'
    BY <1>2 DEF Siegle
  <1>3. ASSUME NEW v \in Vorgaenge, SendeDirekt(v) PROVE ListeVoran'
    BY <1>3 DEF SendeDirekt
  <1>4. ASSUME NEW v \in Vorgaenge, ReiheEin(v) PROVE ListeVoran'
    BY <1>4 DEF ReiheEin, LegeInKorb, NaechsteNr
  <1>5. ASSUME NEW v \in Vorgaenge, EinreihenScheitert(v) PROVE ListeVoran'
    BY <1>5 DEF EinreihenScheitert
  <1>6. ASSUME NEW v \in Vorgaenge, Uebergib(v) PROVE ListeVoran'
    BY <1>6 DEF Uebergib
  <1>7. ASSUME NEW v \in Vorgaenge, Empfange(v) PROVE ListeVoran'
    BY <1>7 DEF Empfange
  <1>8. ASSUME NEW v \in Vorgaenge, Erledige(v) PROVE ListeVoran'
    BY <1>8 DEF Erledige
  <1>9. ASSUME NEW v \in Vorgaenge, Schliesse(v) PROVE ListeVoran'
    BY <1>9 DEF Schliesse
  <1>10. ASSUME NEW v \in Vorgaenge, Verwerfe(v) PROVE ListeVoran'
    BY <1>10 DEF Verwerfe
  <1>11. ASSUME NEW v \in Vorgaenge, LegeErneutVor(v) PROVE ListeVoran'
    BY <1>11 DEF LegeErneutVor
  <1>12. ASSUME NEW l \in Laeufe, Anmelden(l) PROVE ListeVoran'
    BY <1>12 DEF Anmelden
  <1>13. ASSUME NEW l \in Laeufe, Netzereignis(l) PROVE ListeVoran'
    BY <1>13 DEF Netzereignis, Anstehend
  <1>14. ASSUME NEW l \in Laeufe, GleicheAb(l) PROVE ListeVoran'
    BY <1>14 DEF GleicheAb, LegeInKorb, NaechsteNr
  <1>15. ASSUME NEW l \in Laeufe, SchliesseAb(l) PROVE ListeVoran'
    BY <1>15 DEF SchliesseAb
  <1>16. ASSUME NEW l \in Laeufe, AbgleichScheitert(l) PROVE ListeVoran'
    BY <1>16 DEF AbgleichScheitert
  <1>17. ASSUME NEW l \in Laeufe, Starte(l) PROVE ListeVoran'
    BY <1>17 DEF Starte, Abgeglichen, Anstehend
  <1>18. ASSUME NEW l \in Laeufe, StarteOhneLauf(l) PROVE ListeVoran'
    BY <1>18 DEF StarteOhneLauf, Abgeglichen
  <1>19. ASSUME NEW l \in Laeufe, SendeZeile(l) PROVE ListeVoran'
    BY <1>19 DEF SendeZeile
  <1>20. ASSUME NEW l \in Laeufe, Verbuche(l) PROVE ListeVoran'
    BY <1>20 DEF Verbuche, BeendeLauf
  <1>21. ASSUME NEW l \in Laeufe, Halte(l) PROVE ListeVoran'
    BY <1>21 DEF Halte, BeendeLauf
  <1>22. ASSUME NEW l \in Laeufe, VerbuchenScheitert(l) PROVE ListeVoran'
    BY <1>22 DEF VerbuchenScheitert, BeendeLauf
  <1>23. ASSUME NEW l \in Laeufe, BrichAb(l) PROVE ListeVoran'
    BY <1>23 DEF BrichAb, BeendeLauf
  <1>24. ASSUME NEW q \in Vorgaenge \cup Laeufe, Bearbeite(q) PROVE ListeVoran'
    BY <1>24 DEF Bearbeite, NachBuchung
  <1>25. ASSUME NEW q \in Vorgaenge \cup Laeufe, LehneAb(q) PROVE ListeVoran'
    BY <1>25 DEF LehneAb
  <1>26. ASSUME NEW q \in Vorgaenge \cup Laeufe, Stoere(q) PROVE ListeVoran'
    BY <1>26 DEF Stoere, NachBuchung
  <1>27. ASSUME Abmelden PROVE ListeVoran'
    BY <1>27 DEF Abmelden
  <1>28. ASSUME Absturz PROVE ListeVoran'
    BY <1>28 DEF Absturz
  <1> QED
    BY <1>1, <1>2, <1>3, <1>4, <1>5, <1>6, <1>7, <1>8, <1>9, <1>10, <1>11, <1>12, <1>13, <1>14, <1>15, <1>16, <1>17, <1>18, <1>19, <1>20, <1>21, <1>22, <1>23, <1>24, <1>25, <1>26, <1>27, <1>28 DEF AusgangNext, DialogSchritt, LaufSchritt, ServerSchritt

LEMMA ErledigtSchritt ==
    ASSUME AusgangTypeOK, SendetNurGehaltenes, AntwortTraegt, ListeErledigt, [AusgangNext]_ausgangVars
    PROVE  ListeErledigt'
  <1> USE AusgangAnnahme DEF AusgangTypeOK, SendetNurGehaltenes, AntwortTraegt, Schluessel, ListeErledigt, dialogVars, korbVars, laufVars
  <1>1. CASE UNCHANGED ausgangVars
    BY <1>1 DEF ausgangVars, dialogVars, korbVars, laufVars
  <1>2. ASSUME NEW v \in Vorgaenge, Siegle(v) PROVE ListeErledigt'
    BY <1>2 DEF Siegle
  <1>3. ASSUME NEW v \in Vorgaenge, SendeDirekt(v) PROVE ListeErledigt'
    BY <1>3 DEF SendeDirekt
  <1>4. ASSUME NEW v \in Vorgaenge, ReiheEin(v) PROVE ListeErledigt'
    BY <1>4 DEF ReiheEin, LegeInKorb, NaechsteNr
  <1>5. ASSUME NEW v \in Vorgaenge, EinreihenScheitert(v) PROVE ListeErledigt'
    BY <1>5 DEF EinreihenScheitert
  <1>6. ASSUME NEW v \in Vorgaenge, Uebergib(v) PROVE ListeErledigt'
    BY <1>6 DEF Uebergib
  <1>7. ASSUME NEW v \in Vorgaenge, Empfange(v) PROVE ListeErledigt'
    BY <1>7 DEF Empfange
  <1>8. ASSUME NEW v \in Vorgaenge, Erledige(v) PROVE ListeErledigt'
    BY <1>8 DEF Erledige
  <1>9. ASSUME NEW v \in Vorgaenge, Schliesse(v) PROVE ListeErledigt'
    BY <1>9 DEF Schliesse
  <1>10. ASSUME NEW v \in Vorgaenge, Verwerfe(v) PROVE ListeErledigt'
    BY <1>10 DEF Verwerfe
  <1>11. ASSUME NEW v \in Vorgaenge, LegeErneutVor(v) PROVE ListeErledigt'
    BY <1>11 DEF LegeErneutVor
  <1>12. ASSUME NEW l \in Laeufe, Anmelden(l) PROVE ListeErledigt'
    BY <1>12 DEF Anmelden, Frei
  <1>13. ASSUME NEW l \in Laeufe, Netzereignis(l) PROVE ListeErledigt'
    BY <1>13 DEF Netzereignis, Anstehend
  <1>14. ASSUME NEW l \in Laeufe, GleicheAb(l) PROVE ListeErledigt'
    BY <1>14 DEF GleicheAb, LegeInKorb, NaechsteNr
  <1>15. ASSUME NEW l \in Laeufe, SchliesseAb(l) PROVE ListeErledigt'
    BY <1>15 DEF SchliesseAb
  <1>16. ASSUME NEW l \in Laeufe, AbgleichScheitert(l) PROVE ListeErledigt'
    BY <1>16 DEF AbgleichScheitert
  <1>17. ASSUME NEW l \in Laeufe, Starte(l) PROVE ListeErledigt'
    BY <1>17 DEF Starte, Abgeglichen, Anstehend
  <1>18. ASSUME NEW l \in Laeufe, StarteOhneLauf(l) PROVE ListeErledigt'
    BY <1>18 DEF StarteOhneLauf, Abgeglichen
  <1>19. ASSUME NEW l \in Laeufe, SendeZeile(l) PROVE ListeErledigt'
    BY <1>19 DEF SendeZeile
  <1>20. ASSUME NEW l \in Laeufe, Verbuche(l) PROVE ListeErledigt'
    BY <1>20 DEF Verbuche, BeendeLauf
  <1>21. ASSUME NEW l \in Laeufe, Halte(l) PROVE ListeErledigt'
    BY <1>21 DEF Halte, BeendeLauf
  <1>22. ASSUME NEW l \in Laeufe, VerbuchenScheitert(l) PROVE ListeErledigt'
    BY <1>22 DEF VerbuchenScheitert, BeendeLauf
  <1>23. ASSUME NEW l \in Laeufe, BrichAb(l) PROVE ListeErledigt'
    BY <1>23 DEF BrichAb, BeendeLauf
  <1>24. ASSUME NEW q \in Vorgaenge \cup Laeufe, Bearbeite(q) PROVE ListeErledigt'
    BY <1>24 DEF Bearbeite, NachBuchung
  <1>25. ASSUME NEW q \in Vorgaenge \cup Laeufe, LehneAb(q) PROVE ListeErledigt'
    BY <1>25 DEF LehneAb
  <1>26. ASSUME NEW q \in Vorgaenge \cup Laeufe, Stoere(q) PROVE ListeErledigt'
    BY <1>26 DEF Stoere, NachBuchung
  <1>27. ASSUME Abmelden PROVE ListeErledigt'
    BY <1>27 DEF Abmelden
  <1>28. ASSUME Absturz PROVE ListeErledigt'
    BY <1>28 DEF Absturz
  <1> QED
    BY <1>1, <1>2, <1>3, <1>4, <1>5, <1>6, <1>7, <1>8, <1>9, <1>10, <1>11, <1>12, <1>13, <1>14, <1>15, <1>16, <1>17, <1>18, <1>19, <1>20, <1>21, <1>22, <1>23, <1>24, <1>25, <1>26, <1>27, <1>28 DEF AusgangNext, DialogSchritt, LaufSchritt, ServerSchritt

LEMMA AusgangAnfang == AusgangInit => AusgangInduktiv
  <1> SUFFICES ASSUME AusgangInit PROVE AusgangInduktiv
    OBVIOUS
  <1>1. Cardinality(Vorgaenge) \in Nat
    BY AusgangAnnahme, FS_CardinalityType
  <1>2. nr \in [Vorgaenge -> Nat]
    BY <1>1 DEF AusgangInit, Altlasten
  <1> QED
    BY <1>2, AusgangAnnahme DEF AusgangInit, AusgangInduktiv, AusgangTypeOK, Dialogstand, SendetNurGehaltenes,
       AntwortTraegt, AbsichtGedeckt, AbsichtGehtNichtVerloren, ListeVoran, ListeErledigt, Schluessel

\* The inductive invariant holds in every reachable state.
THEOREM AusgangImmerInduktiv == AusgangSpec => []AusgangInduktiv
  <1>1. AusgangInduktiv /\ [AusgangNext]_ausgangVars => AusgangInduktiv'
    BY AusgangTypSchritt, SendetSchritt, AntwortSchritt, AbsichtSchritt, ListeSchritt, ErledigtSchritt DEF AusgangInduktiv
  <1> QED
    BY <1>1, AusgangAnfang, PTL DEF AusgangSpec

(***************************************************************************)
(* What follows                                                            *)
(***************************************************************************)

\* Every variable keeps its type.
THEOREM AusgangTypkorrekt == AusgangSpec => []AusgangTypeOK
  <1>1. AusgangInduktiv => AusgangTypeOK
    BY DEF AusgangInduktiv
  <1> QED
    BY <1>1, AusgangImmerInduktiv, PTL

\* Whatever is reported as booked is booked, and booked once.
THEOREM QuittungTraegt == AusgangSpec => []QuittungIstBuchung
  <1>1. AusgangInduktiv => QuittungIstBuchung
    BY DEF AusgangInduktiv, AntwortTraegt, QuittungIstBuchung
  <1> QED
    BY <1>1, AusgangImmerInduktiv, PTL

\* No crash finds a sealed request forgotten.
THEOREM KeineAbsichtVerloren == AusgangSpec => []AbsichtGehtNichtVerloren
  <1>1. AusgangInduktiv => AbsichtGehtNichtVerloren
    BY DEF AusgangInduktiv, AbsichtGedeckt
  <1> QED
    BY <1>1, AusgangImmerInduktiv, PTL

\* A pass sends in the order of the queue, and goes past nothing that it found
\* pending before that is booked.
THEOREM FolgeBleibtGewahrt == AusgangSpec => FolgeGewahrt
  <1> DEFINE Gewahrt ==
         \A l \in Laeufe : Sendet(l) =>
             \A v \in Vorgaenge : nr[v] < nr[bei'[l]] =>
                 /\ v \in gefunden[l] => buch[v] = 1
                 /\ zeile[v] = "pending" => v \in erneut
  <1>1. AusgangInduktiv /\ [AusgangNext]_ausgangVars => [Gewahrt]_ausgangVars
    <2> SUFFICES ASSUME AusgangInduktiv, AusgangNext,
                        NEW l \in Laeufe, Sendet(l),
                        NEW v \in Vorgaenge, nr[v] < nr[bei'[l]]
                 PROVE  /\ v \in gefunden[l] => buch[v] = 1
                        /\ zeile[v] = "pending" => v \in erneut
      BY DEF AusgangInduktiv
    <2>1. SendeZeile(l)
      BY AusgangAnnahme DEF Sendet, AusgangInduktiv, AusgangTypeOK, AusgangNext, DialogSchritt, LaufSchritt, ServerSchritt,
         Siegle, SendeDirekt, ReiheEin, EinreihenScheitert, Uebergib, Empfange, Erledige, Schliesse, Verwerfe,
         LegeErneutVor, Anmelden, Netzereignis, GleicheAb, SchliesseAb, AbgleichScheitert, Starte, StarteOhneLauf,
         SendeZeile, Verbuche, Halte, VerbuchenScheitert, BrichAb, BeendeLauf, Bearbeite, LehneAb, Stoere,
         Abmelden, Absturz
    <2>2. PICK w \in rest[l] : (\A u \in rest[l] : nr[w] <= nr[u]) /\ bei' = [bei EXCEPT ![l] = w]
      BY <2>1 DEF SendeZeile
    <2>3. phase[l] = "lauscht" /\ bei'[l] = w /\ w \in Vorgaenge
      BY <2>1, <2>2 DEF SendeZeile, AusgangInduktiv, AusgangTypeOK
    <2>4. v \notin rest[l]
      BY <2>2, <2>3 DEF AusgangInduktiv, AusgangTypeOK
    <2>5. zeile[v] = "pending" /\ v \notin erneut => nr[w] < nr[v]
      BY <2>2, <2>3, <2>4 DEF AusgangInduktiv, ListeVoran
    <2>6. v \in gefunden[l] => buch[v] = 1
      BY <2>3, <2>4 DEF AusgangInduktiv, ListeErledigt
    <2> QED
      BY <2>3, <2>5, <2>6 DEF AusgangInduktiv, AusgangTypeOK
  <1> QED
    BY <1>1, AusgangImmerInduktiv, PTL DEF AusgangSpec, FolgeGewahrt

(***************************************************************************)
(* Ausgang implements Belegstelle                                          *)
(***************************************************************************)

\* Only the server writes receipts, and it takes none back.
LEMMA BuchBleibt ==
    ASSUME AusgangTypeOK, AntwortTraegt, [AusgangNext]_ausgangVars
    PROVE  \A v \in Vorgaenge : buch[v] # 0 => buch'[v] = buch[v]
  <1> USE DEF AusgangTypeOK, AntwortTraegt
  <1>1. CASE UNCHANGED buch
    BY <1>1
  <1>2. ASSUME NEW q \in Vorgaenge \cup Laeufe, ServerSchritt(q)
        PROVE  \A v \in Vorgaenge : buch[v] # 0 => buch'[v] = buch[v]
    BY <1>2 DEF ServerSchritt, Bearbeite, LehneAb, Stoere, NachBuchung
  <1>3. CASE Absturz
    BY <1>3 DEF Absturz
  <1>4. CASE \/ \E v \in Vorgaenge : DialogSchritt(v) \/ Verwerfe(v) \/ LegeErneutVor(v)
             \/ \E l \in Laeufe : Anmelden(l) \/ Netzereignis(l) \/ LaufSchritt(l)
             \/ Abmelden
    BY <1>1, <1>4
       DEF DialogSchritt, Siegle, SendeDirekt, ReiheEin, EinreihenScheitert, Uebergib, Empfange, Erledige,
           Schliesse, Verwerfe, LegeErneutVor, Anmelden, Netzereignis, LaufSchritt, GleicheAb, SchliesseAb,
           AbgleichScheitert, Starte, StarteOhneLauf, SendeZeile, Verbuche, Halte, VerbuchenScheitert,
           BrichAb, BeendeLauf, Abmelden
  <1> QED
    BY <1>1, <1>2, <1>3, <1>4 DEF AusgangNext, ausgangVars

\* What the mapping says of each request.
BuchStimmt ==
    \A v \in Vorgaenge : buch[v] \in {0, 1} /\ (Quittiert(v) => buch[v] = 1)

LEMMA BuchAbgebildet == AusgangInduktiv => BuchStimmt
  <1> SUFFICES ASSUME AusgangInduktiv, NEW v \in Vorgaenge
               PROVE  buch[v] \in {0, 1} /\ (Quittiert(v) => buch[v] = 1)
    BY DEF BuchStimmt
  <1>1. buch[v] \in Nat /\ buch[v] <= 1
    BY DEF AusgangInduktiv, AusgangTypeOK, AntwortTraegt
  <1>2. Quittiert(v) => buch[v] = 1
    BY DEF AusgangInduktiv, AntwortTraegt, Quittiert
  <1> QED
    BY <1>1, <1>2

\* The till adds a dialog, an intent, an outbox and several passes to the one
\* request of the server, and every one of them may be sent again after a lost
\* answer or a crash; what Ware promises of a key, the cashier still gets.
THEOREM ErhaeltBelegstelle == AusgangSpec => BleibtBelegstelle
  <1>1. AusgangInduktiv => Belegstelle!Init
    <2>1. AusgangInduktiv => buch \in [Vorgaenge -> Nat]
      BY DEF AusgangInduktiv, AusgangTypeOK
    <2> QED
      BY <2>1, BuchAbgebildet DEF BuchStimmt, Belegstelle!Init
  <1>2. AusgangInduktiv /\ AusgangInduktiv' /\ [AusgangNext]_ausgangVars
            => [Belegstelle!Next]_Belegstelle!vars
    <2> SUFFICES ASSUME AusgangInduktiv, AusgangInduktiv', [AusgangNext]_ausgangVars
                 PROVE  Belegstelle!Next
      OBVIOUS
    <2>1. BuchStimmt'
      BY BuchAbgebildet, PTL
    <2>2. buch' \in [Vorgaenge -> Nat] /\ \A v \in Vorgaenge : buch[v] # 0 => buch'[v] = buch[v]
      BY BuchBleibt DEF AusgangInduktiv, AusgangTypeOK
    <2>3. Belegstelle!Buche
      BY <2>1, <2>2 DEF BuchStimmt, Belegstelle!Buche
    <2>4. Belegstelle!Zeige
      BY <2>1 DEF BuchStimmt, Belegstelle!Zeige
    <2> QED
      BY <2>3, <2>4 DEF Belegstelle!Next
  <1> QED
    BY <1>1, <1>2, AusgangImmerInduktiv, AusgangAnfang, PTL
       DEF AusgangSpec, BleibtBelegstelle, Belegstelle!Spec

=============================================================================
