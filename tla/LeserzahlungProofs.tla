-------------------------- MODULE LeserzahlungProofs --------------------------
(***************************************************************************)
(* Proofs about the card payment, for any number of gestures, requests and *)
(* deliveries.                                                             *)
(*                                                                         *)
(* The argument: an event is delivered only if the provider has raised it, *)
(* and it raises a success only when it charges (EreignisWahr); so whoever *)
(* says SUCCEEDED, the row, an answer on its way or the till, speaks of a  *)
(* charged intent (ErfolgWahr).  A row is inserted once, and whoever       *)
(* inserts it is the one to start the reader (EinStart).                   *)
(***************************************************************************)
EXTENDS Leserzahlung, TLAPS

(***************************************************************************)
(* The inductive invariant                                                 *)
(***************************************************************************)

\* What is delivered was raised, and a success only of a charged intent.
EreignisWahr ==
    /\ \A g \in Gesten :
          /\ post[g] \subseteq gemeldet[g]
          /\ "erfolg" \in gemeldet[g] => intent[g] = "belastet"
    /\ \A w \in Boten : fuer[w] # Offen => art[w] \in gemeldet[fuer[w]]

\* The till waits for a request of its own key.
AntwortGehoertDazu ==
    \A g \in Gesten : wartetAuf[g] # Offen => geste[wartetAuf[g]] = g

\* Who lost the INSERT finds the row of the winner.
VerlorenHatSatz ==
    \A a \in Anfragen : anfrage[a] = "verloren" => satz[geste[a]] # "KEINER"

ErfolgWahr ==
    /\ BezahltIstBelastet
    /\ \A a \in Anfragen : anfrage[a] = "SUCCEEDED" => intent[geste[a]] = "belastet"

EinStart ==
    /\ \A g \in Gesten : angezeigt[g] <= 1 /\ (satz[g] = "KEINER" => angezeigt[g] = 0)
    /\ \A a \in Anfragen : anfrage[a] = "leser" =>
          /\ satz[geste[a]] # "KEINER" /\ angezeigt[geste[a]] = 0
          /\ \A b \in Anfragen : anfrage[b] = "leser" /\ geste[b] = geste[a] => b = a

\* The reader collects what was shown and is open; an intent that is reported
\* as cancelled, at the provider or at the device, is not collected again.
LeserSammelt ==
    \A g \in Gesten :
        /\ leser = g => intent[g] = "offen" /\ angezeigt[g] = 1
        /\ "storniert" \in gemeldet[g] => intent[g] = "storniert"
        /\ "amGeraet" \in gemeldet[g] => leser # g /\ intent[g] # "belastet" /\ angezeigt[g] = 1

LeserInduktiv ==
    /\ LeserTypeOK
    /\ EreignisWahr
    /\ AntwortGehoertDazu
    /\ VerlorenHatSatz
    /\ ErfolgWahr
    /\ EinStart
    /\ LeserSammelt
    /\ WeichIstKeinFehlschlag

(***************************************************************************)
(* One step of the specification                                           *)
(***************************************************************************)

LEMMA LeserTypSchritt ==
    ASSUME LeserTypeOK, VerlorenHatSatz, [LeserNext]_leserVars
    PROVE  LeserTypeOK'
  <1> USE LeserAnnahme DEF LeserTypeOK, Staende, Arten, VerlorenHatSatz, tillVars, startVars, boteVars, stripeVars
  <1>1. CASE UNCHANGED leserVars
    BY <1>1 DEF leserVars, tillVars, startVars, boteVars, stripeVars
  <1>2. ASSUME NEW g \in Gesten, Belaste(g) PROVE LeserTypeOK'
    BY <1>2 DEF Belaste, Melde
  <1>3. ASSUME NEW g \in Gesten, LehneWeichAb(g) PROVE LeserTypeOK'
    BY <1>3 DEF LehneWeichAb, Melde
  <1>4. ASSUME NEW g \in Gesten, LehneHartAb(g) PROVE LeserTypeOK'
    BY <1>4 DEF LehneHartAb, Melde
  <1>5. ASSUME NEW g \in Gesten, LeserBrichtAb(g) PROVE LeserTypeOK'
    BY <1>5 DEF LeserBrichtAb, Melde
  <1>6. ASSUME NEW g \in Gesten, NimmStartAntwort(g) PROVE LeserTypeOK'
    BY <1>6 DEF NimmStartAntwort, Deute
  <1>7. ASSUME NEW g \in Gesten, StartOhneAntwort(g) PROVE LeserTypeOK'
    BY <1>7 DEF StartOhneAntwort
  <1>8. ASSUME NEW g \in Gesten, FrageStand(g) PROVE LeserTypeOK'
    BY <1>8 DEF FrageStand, Deute
  <1>9. ASSUME NEW g \in Gesten, StandUnbekannt(g) PROVE LeserTypeOK'
    BY <1>9 DEF StandUnbekannt
  <1>10. ASSUME NEW g \in Gesten, BucheVerkauf(g) PROVE LeserTypeOK'
    BY <1>10 DEF BucheVerkauf
  <1>11. ASSUME NEW g \in Gesten, TillWeg(g) PROVE LeserTypeOK'
    BY <1>11 DEF TillWeg
  <1>12. ASSUME NEW g \in Gesten, BricheAb(g) PROVE LeserTypeOK'
    BY <1>12 DEF BricheAb
  <1>13. ASSUME NEW g \in Gesten, BrichLeserAktionAb(g) PROVE LeserTypeOK'
    BY <1>13 DEF BrichLeserAktionAb
  <1>14. ASSUME NEW g \in Gesten, StorniereZumAbbruch(g) PROVE LeserTypeOK'
    BY <1>14 DEF StorniereZumAbbruch, Storniere, Melde
  <1>15. ASSUME NEW g \in Gesten, BucheAbbruch(g) PROVE LeserTypeOK'
    BY <1>15 DEF BucheAbbruch
  <1>16. ASSUME NEW a \in Anfragen, SiehNach(a) PROVE LeserTypeOK'
    BY <1>16 DEF SiehNach, Weiter
  <1>17. ASSUME NEW a \in Anfragen, LegeIntentAn(a) PROVE LeserTypeOK'
    BY <1>17 DEF LegeIntentAn, Weiter
  <1>18. ASSUME NEW a \in Anfragen, TrageSatzEin(a) PROVE LeserTypeOK'
    BY <1>18 DEF TrageSatzEin, Weiter
  <1>19. ASSUME NEW a \in Anfragen, GibNach(a) PROVE LeserTypeOK'
    BY <1>19 DEF GibNach, Weiter, Storniere, Melde
  <1>20. ASSUME NEW a \in Anfragen, StarteLeser(a) PROVE LeserTypeOK'
    BY <1>20 DEF StarteLeser, Weiter
  <1>21. ASSUME NEW a \in Anfragen, LeserstartScheitert(a) PROVE LeserTypeOK'
    BY <1>21 DEF LeserstartScheitert, Weiter
  <1>22. ASSUME NEW a \in Anfragen, RaeumeAuf(a) PROVE LeserTypeOK'
    BY <1>22 DEF RaeumeAuf, Weiter, Storniere, Melde
  <1>23. ASSUME NEW a \in Anfragen, BucheFehlstart(a) PROVE LeserTypeOK'
    BY <1>23 DEF BucheFehlstart, Weiter
  <1>24. ASSUME NEW a \in Anfragen, NEW g \in Gesten, SendeStart(a, g) PROVE LeserTypeOK'
    BY <1>24 DEF SendeStart
  <1>25. ASSUME NEW w \in Boten, LiesEreignis(w) PROVE LeserTypeOK'
    BY <1>25 DEF LiesEreignis
  <1>26. ASSUME NEW w \in Boten, SchreibeStand(w) PROVE LeserTypeOK'
    BY <1>26 DEF SchreibeStand, Lege, Uebergang
  <1>27. ASSUME ServerAbsturz PROVE LeserTypeOK'
    BY <1>27 DEF ServerAbsturz, Antworten, Staende
  <1> QED
    BY <1>1, <1>2, <1>3, <1>4, <1>5, <1>6, <1>7, <1>8, <1>9, <1>10, <1>11, <1>12, <1>13, <1>14, <1>15, <1>16, <1>17, <1>18, <1>19, <1>20, <1>21, <1>22, <1>23, <1>24, <1>25, <1>26, <1>27 DEF LeserNext, StripeSchritt, TillSchritt, StartSchritt, AbbruchSchritt

LEMMA VerlorenSchritt ==
    ASSUME LeserTypeOK, VerlorenHatSatz, [LeserNext]_leserVars
    PROVE  VerlorenHatSatz'
  <1> USE LeserAnnahme DEF LeserTypeOK, Staende, Arten, VerlorenHatSatz, tillVars, startVars, boteVars, stripeVars
  <1>1. CASE UNCHANGED leserVars
    BY <1>1 DEF leserVars, tillVars, startVars, boteVars, stripeVars
  <1>2. ASSUME NEW g \in Gesten, Belaste(g) PROVE VerlorenHatSatz'
    BY <1>2 DEF Belaste, Melde
  <1>3. ASSUME NEW g \in Gesten, LehneWeichAb(g) PROVE VerlorenHatSatz'
    BY <1>3 DEF LehneWeichAb, Melde
  <1>4. ASSUME NEW g \in Gesten, LehneHartAb(g) PROVE VerlorenHatSatz'
    BY <1>4 DEF LehneHartAb, Melde
  <1>5. ASSUME NEW g \in Gesten, LeserBrichtAb(g) PROVE VerlorenHatSatz'
    BY <1>5 DEF LeserBrichtAb, Melde
  <1>6. ASSUME NEW g \in Gesten, NimmStartAntwort(g) PROVE VerlorenHatSatz'
    BY <1>6 DEF NimmStartAntwort, Deute
  <1>7. ASSUME NEW g \in Gesten, StartOhneAntwort(g) PROVE VerlorenHatSatz'
    BY <1>7 DEF StartOhneAntwort
  <1>8. ASSUME NEW g \in Gesten, FrageStand(g) PROVE VerlorenHatSatz'
    BY <1>8 DEF FrageStand, Deute
  <1>9. ASSUME NEW g \in Gesten, StandUnbekannt(g) PROVE VerlorenHatSatz'
    BY <1>9 DEF StandUnbekannt
  <1>10. ASSUME NEW g \in Gesten, BucheVerkauf(g) PROVE VerlorenHatSatz'
    BY <1>10 DEF BucheVerkauf
  <1>11. ASSUME NEW g \in Gesten, TillWeg(g) PROVE VerlorenHatSatz'
    BY <1>11 DEF TillWeg
  <1>12. ASSUME NEW g \in Gesten, BricheAb(g) PROVE VerlorenHatSatz'
    BY <1>12 DEF BricheAb
  <1>13. ASSUME NEW g \in Gesten, BrichLeserAktionAb(g) PROVE VerlorenHatSatz'
    BY <1>13 DEF BrichLeserAktionAb
  <1>14. ASSUME NEW g \in Gesten, StorniereZumAbbruch(g) PROVE VerlorenHatSatz'
    BY <1>14 DEF StorniereZumAbbruch, Storniere, Melde
  <1>15. ASSUME NEW g \in Gesten, BucheAbbruch(g) PROVE VerlorenHatSatz'
    BY <1>15 DEF BucheAbbruch
  <1>16. ASSUME NEW a \in Anfragen, SiehNach(a) PROVE VerlorenHatSatz'
    BY <1>16 DEF SiehNach, Weiter
  <1>17. ASSUME NEW a \in Anfragen, LegeIntentAn(a) PROVE VerlorenHatSatz'
    BY <1>17 DEF LegeIntentAn, Weiter
  <1>18. ASSUME NEW a \in Anfragen, TrageSatzEin(a) PROVE VerlorenHatSatz'
    BY <1>18 DEF TrageSatzEin, Weiter
  <1>19. ASSUME NEW a \in Anfragen, GibNach(a) PROVE VerlorenHatSatz'
    BY <1>19 DEF GibNach, Weiter, Storniere, Melde
  <1>20. ASSUME NEW a \in Anfragen, StarteLeser(a) PROVE VerlorenHatSatz'
    BY <1>20 DEF StarteLeser, Weiter
  <1>21. ASSUME NEW a \in Anfragen, LeserstartScheitert(a) PROVE VerlorenHatSatz'
    BY <1>21 DEF LeserstartScheitert, Weiter
  <1>22. ASSUME NEW a \in Anfragen, RaeumeAuf(a) PROVE VerlorenHatSatz'
    BY <1>22 DEF RaeumeAuf, Weiter, Storniere, Melde
  <1>23. ASSUME NEW a \in Anfragen, BucheFehlstart(a) PROVE VerlorenHatSatz'
    BY <1>23 DEF BucheFehlstart, Weiter
  <1>24. ASSUME NEW a \in Anfragen, NEW g \in Gesten, SendeStart(a, g) PROVE VerlorenHatSatz'
    BY <1>24 DEF SendeStart
  <1>25. ASSUME NEW w \in Boten, LiesEreignis(w) PROVE VerlorenHatSatz'
    BY <1>25 DEF LiesEreignis
  <1>26. ASSUME NEW w \in Boten, SchreibeStand(w) PROVE VerlorenHatSatz'
    BY <1>26 DEF SchreibeStand, Lege, Uebergang
  <1>27. ASSUME ServerAbsturz PROVE VerlorenHatSatz'
    BY <1>27 DEF ServerAbsturz, Antworten, Staende
  <1> QED
    BY <1>1, <1>2, <1>3, <1>4, <1>5, <1>6, <1>7, <1>8, <1>9, <1>10, <1>11, <1>12, <1>13, <1>14, <1>15, <1>16, <1>17, <1>18, <1>19, <1>20, <1>21, <1>22, <1>23, <1>24, <1>25, <1>26, <1>27 DEF LeserNext, StripeSchritt, TillSchritt, StartSchritt, AbbruchSchritt

LEMMA EreignisSchritt ==
    ASSUME LeserTypeOK, EreignisWahr, [LeserNext]_leserVars
    PROVE  EreignisWahr'
  <1> USE LeserAnnahme DEF LeserTypeOK, Staende, Arten, EreignisWahr, tillVars, startVars, boteVars, stripeVars
  <1>1. CASE UNCHANGED leserVars
    BY <1>1 DEF leserVars, tillVars, startVars, boteVars, stripeVars
  <1>2. ASSUME NEW g \in Gesten, Belaste(g) PROVE EreignisWahr'
    BY <1>2 DEF Belaste, Melde
  <1>3. ASSUME NEW g \in Gesten, LehneWeichAb(g) PROVE EreignisWahr'
    BY <1>3 DEF LehneWeichAb, Melde
  <1>4. ASSUME NEW g \in Gesten, LehneHartAb(g) PROVE EreignisWahr'
    BY <1>4 DEF LehneHartAb, Melde
  <1>5. ASSUME NEW g \in Gesten, LeserBrichtAb(g) PROVE EreignisWahr'
    BY <1>5 DEF LeserBrichtAb, Melde
  <1>6. ASSUME NEW g \in Gesten, NimmStartAntwort(g) PROVE EreignisWahr'
    BY <1>6 DEF NimmStartAntwort, Deute
  <1>7. ASSUME NEW g \in Gesten, StartOhneAntwort(g) PROVE EreignisWahr'
    BY <1>7 DEF StartOhneAntwort
  <1>8. ASSUME NEW g \in Gesten, FrageStand(g) PROVE EreignisWahr'
    BY <1>8 DEF FrageStand, Deute
  <1>9. ASSUME NEW g \in Gesten, StandUnbekannt(g) PROVE EreignisWahr'
    BY <1>9 DEF StandUnbekannt
  <1>10. ASSUME NEW g \in Gesten, BucheVerkauf(g) PROVE EreignisWahr'
    BY <1>10 DEF BucheVerkauf
  <1>11. ASSUME NEW g \in Gesten, TillWeg(g) PROVE EreignisWahr'
    BY <1>11 DEF TillWeg
  <1>12. ASSUME NEW g \in Gesten, BricheAb(g) PROVE EreignisWahr'
    BY <1>12 DEF BricheAb
  <1>13. ASSUME NEW g \in Gesten, BrichLeserAktionAb(g) PROVE EreignisWahr'
    BY <1>13 DEF BrichLeserAktionAb
  <1>14. ASSUME NEW g \in Gesten, StorniereZumAbbruch(g) PROVE EreignisWahr'
    BY <1>14 DEF StorniereZumAbbruch, Storniere, Melde
  <1>15. ASSUME NEW g \in Gesten, BucheAbbruch(g) PROVE EreignisWahr'
    BY <1>15 DEF BucheAbbruch
  <1>16. ASSUME NEW a \in Anfragen, SiehNach(a) PROVE EreignisWahr'
    BY <1>16 DEF SiehNach, Weiter
  <1>17. ASSUME NEW a \in Anfragen, LegeIntentAn(a) PROVE EreignisWahr'
    BY <1>17 DEF LegeIntentAn, Weiter
  <1>18. ASSUME NEW a \in Anfragen, TrageSatzEin(a) PROVE EreignisWahr'
    BY <1>18 DEF TrageSatzEin, Weiter
  <1>19. ASSUME NEW a \in Anfragen, GibNach(a) PROVE EreignisWahr'
    BY <1>19 DEF GibNach, Weiter, Storniere, Melde
  <1>20. ASSUME NEW a \in Anfragen, StarteLeser(a) PROVE EreignisWahr'
    BY <1>20 DEF StarteLeser, Weiter
  <1>21. ASSUME NEW a \in Anfragen, LeserstartScheitert(a) PROVE EreignisWahr'
    BY <1>21 DEF LeserstartScheitert, Weiter
  <1>22. ASSUME NEW a \in Anfragen, RaeumeAuf(a) PROVE EreignisWahr'
    BY <1>22 DEF RaeumeAuf, Weiter, Storniere, Melde
  <1>23. ASSUME NEW a \in Anfragen, BucheFehlstart(a) PROVE EreignisWahr'
    BY <1>23 DEF BucheFehlstart, Weiter
  <1>24. ASSUME NEW a \in Anfragen, NEW g \in Gesten, SendeStart(a, g) PROVE EreignisWahr'
    BY <1>24 DEF SendeStart
  <1>25. ASSUME NEW w \in Boten, LiesEreignis(w) PROVE EreignisWahr'
    BY <1>25 DEF LiesEreignis
  <1>26. ASSUME NEW w \in Boten, SchreibeStand(w) PROVE EreignisWahr'
    BY <1>26 DEF SchreibeStand, Lege, Uebergang
  <1>27. ASSUME ServerAbsturz PROVE EreignisWahr'
    BY <1>27 DEF ServerAbsturz, Antworten, Staende
  <1> QED
    BY <1>1, <1>2, <1>3, <1>4, <1>5, <1>6, <1>7, <1>8, <1>9, <1>10, <1>11, <1>12, <1>13, <1>14, <1>15, <1>16, <1>17, <1>18, <1>19, <1>20, <1>21, <1>22, <1>23, <1>24, <1>25, <1>26, <1>27 DEF LeserNext, StripeSchritt, TillSchritt, StartSchritt, AbbruchSchritt

LEMMA DazuSchritt ==
    ASSUME LeserTypeOK, AntwortGehoertDazu, [LeserNext]_leserVars
    PROVE  AntwortGehoertDazu'
  <1> USE LeserAnnahme DEF LeserTypeOK, Staende, Arten, AntwortGehoertDazu, tillVars, startVars, boteVars, stripeVars
  <1>1. CASE UNCHANGED leserVars
    BY <1>1 DEF leserVars, tillVars, startVars, boteVars, stripeVars
  <1>2. ASSUME NEW g \in Gesten, Belaste(g) PROVE AntwortGehoertDazu'
    BY <1>2 DEF Belaste, Melde
  <1>3. ASSUME NEW g \in Gesten, LehneWeichAb(g) PROVE AntwortGehoertDazu'
    BY <1>3 DEF LehneWeichAb, Melde
  <1>4. ASSUME NEW g \in Gesten, LehneHartAb(g) PROVE AntwortGehoertDazu'
    BY <1>4 DEF LehneHartAb, Melde
  <1>5. ASSUME NEW g \in Gesten, LeserBrichtAb(g) PROVE AntwortGehoertDazu'
    BY <1>5 DEF LeserBrichtAb, Melde
  <1>6. ASSUME NEW g \in Gesten, NimmStartAntwort(g) PROVE AntwortGehoertDazu'
    BY <1>6 DEF NimmStartAntwort, Deute
  <1>7. ASSUME NEW g \in Gesten, StartOhneAntwort(g) PROVE AntwortGehoertDazu'
    BY <1>7 DEF StartOhneAntwort
  <1>8. ASSUME NEW g \in Gesten, FrageStand(g) PROVE AntwortGehoertDazu'
    BY <1>8 DEF FrageStand, Deute
  <1>9. ASSUME NEW g \in Gesten, StandUnbekannt(g) PROVE AntwortGehoertDazu'
    BY <1>9 DEF StandUnbekannt
  <1>10. ASSUME NEW g \in Gesten, BucheVerkauf(g) PROVE AntwortGehoertDazu'
    BY <1>10 DEF BucheVerkauf
  <1>11. ASSUME NEW g \in Gesten, TillWeg(g) PROVE AntwortGehoertDazu'
    BY <1>11 DEF TillWeg
  <1>12. ASSUME NEW g \in Gesten, BricheAb(g) PROVE AntwortGehoertDazu'
    BY <1>12 DEF BricheAb
  <1>13. ASSUME NEW g \in Gesten, BrichLeserAktionAb(g) PROVE AntwortGehoertDazu'
    BY <1>13 DEF BrichLeserAktionAb
  <1>14. ASSUME NEW g \in Gesten, StorniereZumAbbruch(g) PROVE AntwortGehoertDazu'
    BY <1>14 DEF StorniereZumAbbruch, Storniere, Melde
  <1>15. ASSUME NEW g \in Gesten, BucheAbbruch(g) PROVE AntwortGehoertDazu'
    BY <1>15 DEF BucheAbbruch
  <1>16. ASSUME NEW a \in Anfragen, SiehNach(a) PROVE AntwortGehoertDazu'
    BY <1>16 DEF SiehNach, Weiter
  <1>17. ASSUME NEW a \in Anfragen, LegeIntentAn(a) PROVE AntwortGehoertDazu'
    BY <1>17 DEF LegeIntentAn, Weiter
  <1>18. ASSUME NEW a \in Anfragen, TrageSatzEin(a) PROVE AntwortGehoertDazu'
    BY <1>18 DEF TrageSatzEin, Weiter
  <1>19. ASSUME NEW a \in Anfragen, GibNach(a) PROVE AntwortGehoertDazu'
    BY <1>19 DEF GibNach, Weiter, Storniere, Melde
  <1>20. ASSUME NEW a \in Anfragen, StarteLeser(a) PROVE AntwortGehoertDazu'
    BY <1>20 DEF StarteLeser, Weiter
  <1>21. ASSUME NEW a \in Anfragen, LeserstartScheitert(a) PROVE AntwortGehoertDazu'
    BY <1>21 DEF LeserstartScheitert, Weiter
  <1>22. ASSUME NEW a \in Anfragen, RaeumeAuf(a) PROVE AntwortGehoertDazu'
    BY <1>22 DEF RaeumeAuf, Weiter, Storniere, Melde
  <1>23. ASSUME NEW a \in Anfragen, BucheFehlstart(a) PROVE AntwortGehoertDazu'
    BY <1>23 DEF BucheFehlstart, Weiter
  <1>24. ASSUME NEW a \in Anfragen, NEW g \in Gesten, SendeStart(a, g) PROVE AntwortGehoertDazu'
    BY <1>24 DEF SendeStart
  <1>25. ASSUME NEW w \in Boten, LiesEreignis(w) PROVE AntwortGehoertDazu'
    BY <1>25 DEF LiesEreignis
  <1>26. ASSUME NEW w \in Boten, SchreibeStand(w) PROVE AntwortGehoertDazu'
    BY <1>26 DEF SchreibeStand, Lege, Uebergang
  <1>27. ASSUME ServerAbsturz PROVE AntwortGehoertDazu'
    BY <1>27 DEF ServerAbsturz, Antworten, Staende
  <1> QED
    BY <1>1, <1>2, <1>3, <1>4, <1>5, <1>6, <1>7, <1>8, <1>9, <1>10, <1>11, <1>12, <1>13, <1>14, <1>15, <1>16, <1>17, <1>18, <1>19, <1>20, <1>21, <1>22, <1>23, <1>24, <1>25, <1>26, <1>27 DEF LeserNext, StripeSchritt, TillSchritt, StartSchritt, AbbruchSchritt

LEMMA ErfolgSchritt ==
    ASSUME LeserTypeOK, EreignisWahr, AntwortGehoertDazu, ErfolgWahr, [LeserNext]_leserVars
    PROVE  ErfolgWahr'
  <1> USE LeserAnnahme DEF LeserTypeOK, Staende, Arten, EreignisWahr, AntwortGehoertDazu, ErfolgWahr, BezahltIstBelastet, tillVars, startVars, boteVars, stripeVars
  <1>1. CASE UNCHANGED leserVars
    BY <1>1 DEF leserVars, tillVars, startVars, boteVars, stripeVars
  <1>2. ASSUME NEW g \in Gesten, Belaste(g) PROVE ErfolgWahr'
    BY <1>2 DEF Belaste, Melde
  <1>3. ASSUME NEW g \in Gesten, LehneWeichAb(g) PROVE ErfolgWahr'
    BY <1>3 DEF LehneWeichAb, Melde
  <1>4. ASSUME NEW g \in Gesten, LehneHartAb(g) PROVE ErfolgWahr'
    BY <1>4 DEF LehneHartAb, Melde
  <1>5. ASSUME NEW g \in Gesten, LeserBrichtAb(g) PROVE ErfolgWahr'
    BY <1>5 DEF LeserBrichtAb, Melde
  <1>6. ASSUME NEW g \in Gesten, NimmStartAntwort(g) PROVE ErfolgWahr'
    BY <1>6 DEF NimmStartAntwort, Deute
  <1>7. ASSUME NEW g \in Gesten, StartOhneAntwort(g) PROVE ErfolgWahr'
    BY <1>7 DEF StartOhneAntwort
  <1>8. ASSUME NEW g \in Gesten, FrageStand(g) PROVE ErfolgWahr'
    BY <1>8 DEF FrageStand, Deute
  <1>9. ASSUME NEW g \in Gesten, StandUnbekannt(g) PROVE ErfolgWahr'
    BY <1>9 DEF StandUnbekannt
  <1>10. ASSUME NEW g \in Gesten, BucheVerkauf(g) PROVE ErfolgWahr'
    BY <1>10 DEF BucheVerkauf
  <1>11. ASSUME NEW g \in Gesten, TillWeg(g) PROVE ErfolgWahr'
    BY <1>11 DEF TillWeg
  <1>12. ASSUME NEW g \in Gesten, BricheAb(g) PROVE ErfolgWahr'
    BY <1>12 DEF BricheAb
  <1>13. ASSUME NEW g \in Gesten, BrichLeserAktionAb(g) PROVE ErfolgWahr'
    BY <1>13 DEF BrichLeserAktionAb
  <1>14. ASSUME NEW g \in Gesten, StorniereZumAbbruch(g) PROVE ErfolgWahr'
    BY <1>14 DEF StorniereZumAbbruch, Storniere, Melde
  <1>15. ASSUME NEW g \in Gesten, BucheAbbruch(g) PROVE ErfolgWahr'
    BY <1>15 DEF BucheAbbruch
  <1>16. ASSUME NEW a \in Anfragen, SiehNach(a) PROVE ErfolgWahr'
    BY <1>16 DEF SiehNach, Weiter
  <1>17. ASSUME NEW a \in Anfragen, LegeIntentAn(a) PROVE ErfolgWahr'
    BY <1>17 DEF LegeIntentAn, Weiter
  <1>18. ASSUME NEW a \in Anfragen, TrageSatzEin(a) PROVE ErfolgWahr'
    BY <1>18 DEF TrageSatzEin, Weiter
  <1>19. ASSUME NEW a \in Anfragen, GibNach(a) PROVE ErfolgWahr'
    BY <1>19 DEF GibNach, Weiter, Storniere, Melde
  <1>20. ASSUME NEW a \in Anfragen, StarteLeser(a) PROVE ErfolgWahr'
    BY <1>20 DEF StarteLeser, Weiter
  <1>21. ASSUME NEW a \in Anfragen, LeserstartScheitert(a) PROVE ErfolgWahr'
    BY <1>21 DEF LeserstartScheitert, Weiter
  <1>22. ASSUME NEW a \in Anfragen, RaeumeAuf(a) PROVE ErfolgWahr'
    BY <1>22 DEF RaeumeAuf, Weiter, Storniere, Melde
  <1>23. ASSUME NEW a \in Anfragen, BucheFehlstart(a) PROVE ErfolgWahr'
    BY <1>23 DEF BucheFehlstart, Weiter
  <1>24. ASSUME NEW a \in Anfragen, NEW g \in Gesten, SendeStart(a, g) PROVE ErfolgWahr'
    BY <1>24 DEF SendeStart
  <1>25. ASSUME NEW w \in Boten, LiesEreignis(w) PROVE ErfolgWahr'
    BY <1>25 DEF LiesEreignis
  <1>26. ASSUME NEW w \in Boten, SchreibeStand(w) PROVE ErfolgWahr'
    BY <1>26 DEF SchreibeStand, Lege, Uebergang
  <1>27. ASSUME ServerAbsturz PROVE ErfolgWahr'
    BY <1>27 DEF ServerAbsturz, Antworten, Staende
  <1> QED
    BY <1>1, <1>2, <1>3, <1>4, <1>5, <1>6, <1>7, <1>8, <1>9, <1>10, <1>11, <1>12, <1>13, <1>14, <1>15, <1>16, <1>17, <1>18, <1>19, <1>20, <1>21, <1>22, <1>23, <1>24, <1>25, <1>26, <1>27 DEF LeserNext, StripeSchritt, TillSchritt, StartSchritt, AbbruchSchritt

LEMMA EinStartSchritt ==
    ASSUME LeserTypeOK, EinStart, [LeserNext]_leserVars
    PROVE  EinStart'
  <1> USE LeserAnnahme DEF LeserTypeOK, Staende, Arten, EinStart, tillVars, startVars, boteVars, stripeVars
  <1>1. CASE UNCHANGED leserVars
    BY <1>1 DEF leserVars, tillVars, startVars, boteVars, stripeVars
  <1>2. ASSUME NEW g \in Gesten, Belaste(g) PROVE EinStart'
    BY <1>2 DEF Belaste, Melde
  <1>3. ASSUME NEW g \in Gesten, LehneWeichAb(g) PROVE EinStart'
    BY <1>3 DEF LehneWeichAb, Melde
  <1>4. ASSUME NEW g \in Gesten, LehneHartAb(g) PROVE EinStart'
    BY <1>4 DEF LehneHartAb, Melde
  <1>5. ASSUME NEW g \in Gesten, LeserBrichtAb(g) PROVE EinStart'
    BY <1>5 DEF LeserBrichtAb, Melde
  <1>6. ASSUME NEW g \in Gesten, NimmStartAntwort(g) PROVE EinStart'
    BY <1>6 DEF NimmStartAntwort, Deute
  <1>7. ASSUME NEW g \in Gesten, StartOhneAntwort(g) PROVE EinStart'
    BY <1>7 DEF StartOhneAntwort
  <1>8. ASSUME NEW g \in Gesten, FrageStand(g) PROVE EinStart'
    BY <1>8 DEF FrageStand, Deute
  <1>9. ASSUME NEW g \in Gesten, StandUnbekannt(g) PROVE EinStart'
    BY <1>9 DEF StandUnbekannt
  <1>10. ASSUME NEW g \in Gesten, BucheVerkauf(g) PROVE EinStart'
    BY <1>10 DEF BucheVerkauf
  <1>11. ASSUME NEW g \in Gesten, TillWeg(g) PROVE EinStart'
    BY <1>11 DEF TillWeg
  <1>12. ASSUME NEW g \in Gesten, BricheAb(g) PROVE EinStart'
    BY <1>12 DEF BricheAb
  <1>13. ASSUME NEW g \in Gesten, BrichLeserAktionAb(g) PROVE EinStart'
    BY <1>13 DEF BrichLeserAktionAb
  <1>14. ASSUME NEW g \in Gesten, StorniereZumAbbruch(g) PROVE EinStart'
    BY <1>14 DEF StorniereZumAbbruch, Storniere, Melde
  <1>15. ASSUME NEW g \in Gesten, BucheAbbruch(g) PROVE EinStart'
    BY <1>15 DEF BucheAbbruch
  <1>16. ASSUME NEW a \in Anfragen, SiehNach(a) PROVE EinStart'
    BY <1>16 DEF SiehNach, Weiter
  <1>17. ASSUME NEW a \in Anfragen, LegeIntentAn(a) PROVE EinStart'
    BY <1>17 DEF LegeIntentAn, Weiter
  <1>18. ASSUME NEW a \in Anfragen, TrageSatzEin(a) PROVE EinStart'
    BY <1>18 DEF TrageSatzEin, Weiter
  <1>19. ASSUME NEW a \in Anfragen, GibNach(a) PROVE EinStart'
    BY <1>19 DEF GibNach, Weiter, Storniere, Melde
  <1>20. ASSUME NEW a \in Anfragen, StarteLeser(a) PROVE EinStart'
    BY <1>20 DEF StarteLeser, Weiter
  <1>21. ASSUME NEW a \in Anfragen, LeserstartScheitert(a) PROVE EinStart'
    BY <1>21 DEF LeserstartScheitert, Weiter
  <1>22. ASSUME NEW a \in Anfragen, RaeumeAuf(a) PROVE EinStart'
    BY <1>22 DEF RaeumeAuf, Weiter, Storniere, Melde
  <1>23. ASSUME NEW a \in Anfragen, BucheFehlstart(a) PROVE EinStart'
    BY <1>23 DEF BucheFehlstart, Weiter
  <1>24. ASSUME NEW a \in Anfragen, NEW g \in Gesten, SendeStart(a, g) PROVE EinStart'
    BY <1>24 DEF SendeStart
  <1>25. ASSUME NEW w \in Boten, LiesEreignis(w) PROVE EinStart'
    BY <1>25 DEF LiesEreignis
  <1>26. ASSUME NEW w \in Boten, SchreibeStand(w) PROVE EinStart'
    BY <1>26 DEF SchreibeStand, Lege, Uebergang
  <1>27. ASSUME ServerAbsturz PROVE EinStart'
    BY <1>27 DEF ServerAbsturz, Antworten, Staende
  <1> QED
    BY <1>1, <1>2, <1>3, <1>4, <1>5, <1>6, <1>7, <1>8, <1>9, <1>10, <1>11, <1>12, <1>13, <1>14, <1>15, <1>16, <1>17, <1>18, <1>19, <1>20, <1>21, <1>22, <1>23, <1>24, <1>25, <1>26, <1>27 DEF LeserNext, StripeSchritt, TillSchritt, StartSchritt, AbbruchSchritt

LEMMA WeichSchritt ==
    ASSUME LeserTypeOK, EreignisWahr, WeichIstKeinFehlschlag, [LeserNext]_leserVars
    PROVE  WeichIstKeinFehlschlag'
  <1> USE LeserAnnahme DEF LeserTypeOK, Staende, Arten, EreignisWahr, WeichIstKeinFehlschlag, tillVars, startVars, boteVars, stripeVars
  <1>1. CASE UNCHANGED leserVars
    BY <1>1 DEF leserVars, tillVars, startVars, boteVars, stripeVars
  <1>2. ASSUME NEW g \in Gesten, Belaste(g) PROVE WeichIstKeinFehlschlag'
    BY <1>2 DEF Belaste, Melde
  <1>3. ASSUME NEW g \in Gesten, LehneWeichAb(g) PROVE WeichIstKeinFehlschlag'
    BY <1>3 DEF LehneWeichAb, Melde
  <1>4. ASSUME NEW g \in Gesten, LehneHartAb(g) PROVE WeichIstKeinFehlschlag'
    BY <1>4 DEF LehneHartAb, Melde
  <1>5. ASSUME NEW g \in Gesten, LeserBrichtAb(g) PROVE WeichIstKeinFehlschlag'
    BY <1>5 DEF LeserBrichtAb, Melde
  <1>6. ASSUME NEW g \in Gesten, NimmStartAntwort(g) PROVE WeichIstKeinFehlschlag'
    BY <1>6 DEF NimmStartAntwort, Deute
  <1>7. ASSUME NEW g \in Gesten, StartOhneAntwort(g) PROVE WeichIstKeinFehlschlag'
    BY <1>7 DEF StartOhneAntwort
  <1>8. ASSUME NEW g \in Gesten, FrageStand(g) PROVE WeichIstKeinFehlschlag'
    BY <1>8 DEF FrageStand, Deute
  <1>9. ASSUME NEW g \in Gesten, StandUnbekannt(g) PROVE WeichIstKeinFehlschlag'
    BY <1>9 DEF StandUnbekannt
  <1>10. ASSUME NEW g \in Gesten, BucheVerkauf(g) PROVE WeichIstKeinFehlschlag'
    BY <1>10 DEF BucheVerkauf
  <1>11. ASSUME NEW g \in Gesten, TillWeg(g) PROVE WeichIstKeinFehlschlag'
    BY <1>11 DEF TillWeg
  <1>12. ASSUME NEW g \in Gesten, BricheAb(g) PROVE WeichIstKeinFehlschlag'
    BY <1>12 DEF BricheAb
  <1>13. ASSUME NEW g \in Gesten, BrichLeserAktionAb(g) PROVE WeichIstKeinFehlschlag'
    BY <1>13 DEF BrichLeserAktionAb
  <1>14. ASSUME NEW g \in Gesten, StorniereZumAbbruch(g) PROVE WeichIstKeinFehlschlag'
    BY <1>14 DEF StorniereZumAbbruch, Storniere, Melde
  <1>15. ASSUME NEW g \in Gesten, BucheAbbruch(g) PROVE WeichIstKeinFehlschlag'
    BY <1>15 DEF BucheAbbruch
  <1>16. ASSUME NEW a \in Anfragen, SiehNach(a) PROVE WeichIstKeinFehlschlag'
    BY <1>16 DEF SiehNach, Weiter
  <1>17. ASSUME NEW a \in Anfragen, LegeIntentAn(a) PROVE WeichIstKeinFehlschlag'
    BY <1>17 DEF LegeIntentAn, Weiter
  <1>18. ASSUME NEW a \in Anfragen, TrageSatzEin(a) PROVE WeichIstKeinFehlschlag'
    BY <1>18 DEF TrageSatzEin, Weiter
  <1>19. ASSUME NEW a \in Anfragen, GibNach(a) PROVE WeichIstKeinFehlschlag'
    BY <1>19 DEF GibNach, Weiter, Storniere, Melde
  <1>20. ASSUME NEW a \in Anfragen, StarteLeser(a) PROVE WeichIstKeinFehlschlag'
    BY <1>20 DEF StarteLeser, Weiter
  <1>21. ASSUME NEW a \in Anfragen, LeserstartScheitert(a) PROVE WeichIstKeinFehlschlag'
    BY <1>21 DEF LeserstartScheitert, Weiter
  <1>22. ASSUME NEW a \in Anfragen, RaeumeAuf(a) PROVE WeichIstKeinFehlschlag'
    BY <1>22 DEF RaeumeAuf, Weiter, Storniere, Melde
  <1>23. ASSUME NEW a \in Anfragen, BucheFehlstart(a) PROVE WeichIstKeinFehlschlag'
    BY <1>23 DEF BucheFehlstart, Weiter
  <1>24. ASSUME NEW a \in Anfragen, NEW g \in Gesten, SendeStart(a, g) PROVE WeichIstKeinFehlschlag'
    BY <1>24 DEF SendeStart
  <1>25. ASSUME NEW w \in Boten, LiesEreignis(w) PROVE WeichIstKeinFehlschlag'
    BY <1>25 DEF LiesEreignis
  <1>26. ASSUME NEW w \in Boten, SchreibeStand(w) PROVE WeichIstKeinFehlschlag'
    BY <1>26 DEF SchreibeStand, Lege, Uebergang
  <1>27. ASSUME ServerAbsturz PROVE WeichIstKeinFehlschlag'
    BY <1>27 DEF ServerAbsturz, Antworten, Staende
  <1> QED
    BY <1>1, <1>2, <1>3, <1>4, <1>5, <1>6, <1>7, <1>8, <1>9, <1>10, <1>11, <1>12, <1>13, <1>14, <1>15, <1>16, <1>17, <1>18, <1>19, <1>20, <1>21, <1>22, <1>23, <1>24, <1>25, <1>26, <1>27 DEF LeserNext, StripeSchritt, TillSchritt, StartSchritt, AbbruchSchritt

LEMMA SammeltSchritt ==
    ASSUME LeserTypeOK, EreignisWahr, EinStart, LeserSammelt, [LeserNext]_leserVars
    PROVE  LeserSammelt'
  <1> USE LeserAnnahme DEF LeserTypeOK, Staende, Arten, EreignisWahr, EinStart, LeserSammelt, tillVars, startVars, boteVars, stripeVars
  <1>1. CASE UNCHANGED leserVars
    BY <1>1 DEF leserVars, tillVars, startVars, boteVars, stripeVars
  <1>2. ASSUME NEW g \in Gesten, Belaste(g) PROVE LeserSammelt'
    BY <1>2 DEF Belaste, Melde
  <1>3. ASSUME NEW g \in Gesten, LehneWeichAb(g) PROVE LeserSammelt'
    BY <1>3 DEF LehneWeichAb, Melde
  <1>4. ASSUME NEW g \in Gesten, LehneHartAb(g) PROVE LeserSammelt'
    BY <1>4 DEF LehneHartAb, Melde
  <1>5. ASSUME NEW g \in Gesten, LeserBrichtAb(g) PROVE LeserSammelt'
    BY <1>5 DEF LeserBrichtAb, Melde
  <1>6. ASSUME NEW g \in Gesten, NimmStartAntwort(g) PROVE LeserSammelt'
    BY <1>6 DEF NimmStartAntwort, Deute
  <1>7. ASSUME NEW g \in Gesten, StartOhneAntwort(g) PROVE LeserSammelt'
    BY <1>7 DEF StartOhneAntwort
  <1>8. ASSUME NEW g \in Gesten, FrageStand(g) PROVE LeserSammelt'
    BY <1>8 DEF FrageStand, Deute
  <1>9. ASSUME NEW g \in Gesten, StandUnbekannt(g) PROVE LeserSammelt'
    BY <1>9 DEF StandUnbekannt
  <1>10. ASSUME NEW g \in Gesten, BucheVerkauf(g) PROVE LeserSammelt'
    BY <1>10 DEF BucheVerkauf
  <1>11. ASSUME NEW g \in Gesten, TillWeg(g) PROVE LeserSammelt'
    BY <1>11 DEF TillWeg
  <1>12. ASSUME NEW g \in Gesten, BricheAb(g) PROVE LeserSammelt'
    BY <1>12 DEF BricheAb
  <1>13. ASSUME NEW g \in Gesten, BrichLeserAktionAb(g) PROVE LeserSammelt'
    BY <1>13 DEF BrichLeserAktionAb
  <1>14. ASSUME NEW g \in Gesten, StorniereZumAbbruch(g) PROVE LeserSammelt'
    BY <1>14 DEF StorniereZumAbbruch, Storniere, Melde
  <1>15. ASSUME NEW g \in Gesten, BucheAbbruch(g) PROVE LeserSammelt'
    BY <1>15 DEF BucheAbbruch
  <1>16. ASSUME NEW a \in Anfragen, SiehNach(a) PROVE LeserSammelt'
    BY <1>16 DEF SiehNach, Weiter
  <1>17. ASSUME NEW a \in Anfragen, LegeIntentAn(a) PROVE LeserSammelt'
    BY <1>17 DEF LegeIntentAn, Weiter
  <1>18. ASSUME NEW a \in Anfragen, TrageSatzEin(a) PROVE LeserSammelt'
    BY <1>18 DEF TrageSatzEin, Weiter
  <1>19. ASSUME NEW a \in Anfragen, GibNach(a) PROVE LeserSammelt'
    BY <1>19 DEF GibNach, Weiter, Storniere, Melde
  <1>20. ASSUME NEW a \in Anfragen, StarteLeser(a) PROVE LeserSammelt'
    BY <1>20 DEF StarteLeser, Weiter
  <1>21. ASSUME NEW a \in Anfragen, LeserstartScheitert(a) PROVE LeserSammelt'
    BY <1>21 DEF LeserstartScheitert, Weiter
  <1>22. ASSUME NEW a \in Anfragen, RaeumeAuf(a) PROVE LeserSammelt'
    BY <1>22 DEF RaeumeAuf, Weiter, Storniere, Melde
  <1>23. ASSUME NEW a \in Anfragen, BucheFehlstart(a) PROVE LeserSammelt'
    BY <1>23 DEF BucheFehlstart, Weiter
  <1>24. ASSUME NEW a \in Anfragen, NEW g \in Gesten, SendeStart(a, g) PROVE LeserSammelt'
    BY <1>24 DEF SendeStart
  <1>25. ASSUME NEW w \in Boten, LiesEreignis(w) PROVE LeserSammelt'
    BY <1>25 DEF LiesEreignis
  <1>26. ASSUME NEW w \in Boten, SchreibeStand(w) PROVE LeserSammelt'
    BY <1>26 DEF SchreibeStand, Lege, Uebergang
  <1>27. ASSUME ServerAbsturz PROVE LeserSammelt'
    BY <1>27 DEF ServerAbsturz, Antworten, Staende
  <1> QED
    BY <1>1, <1>2, <1>3, <1>4, <1>5, <1>6, <1>7, <1>8, <1>9, <1>10, <1>11, <1>12, <1>13, <1>14, <1>15, <1>16, <1>17, <1>18, <1>19, <1>20, <1>21, <1>22, <1>23, <1>24, <1>25, <1>26, <1>27 DEF LeserNext, StripeSchritt, TillSchritt, StartSchritt, AbbruchSchritt

LEMMA LeserAnfang == LeserInit => LeserInduktiv
  BY LeserAnnahme DEF LeserInit, LeserInduktiv, LeserTypeOK, Staende, Arten, EreignisWahr, AntwortGehoertDazu, VerlorenHatSatz,
     ErfolgWahr, BezahltIstBelastet, EinStart, LeserSammelt, WeichIstKeinFehlschlag

\* The inductive invariant holds in every reachable state.
THEOREM LeserImmerInduktiv == LeserSpec => []LeserInduktiv
  <1>1. LeserInduktiv /\ [LeserNext]_leserVars => LeserInduktiv'
    BY LeserTypSchritt, VerlorenSchritt, EreignisSchritt, DazuSchritt, ErfolgSchritt, EinStartSchritt, SammeltSchritt, WeichSchritt DEF LeserInduktiv
  <1> QED
    BY <1>1, LeserAnfang, PTL DEF LeserSpec

(***************************************************************************)
(* What follows                                                            *)
(***************************************************************************)

\* Every variable keeps its type.
THEOREM LeserTypkorrekt == LeserSpec => []LeserTypeOK
  <1>1. LeserInduktiv => LeserTypeOK
    BY DEF LeserInduktiv
  <1> QED
    BY <1>1, LeserImmerInduktiv, PTL

\* No sale is booked on a card that was not charged.
THEOREM NurBelastetesIstBezahlt == LeserSpec => []BezahltIstBelastet
  <1>1. LeserInduktiv => BezahltIstBelastet
    BY DEF LeserInduktiv, ErfolgWahr
  <1> QED
    BY <1>1, LeserImmerInduktiv, PTL

\* A gesture is shown to the customer once.
THEOREM NurEinmalAngezeigt == LeserSpec => []EinmalAngezeigt
  <1>1. LeserInduktiv => EinmalAngezeigt
    BY DEF LeserInduktiv, EinStart, EinmalAngezeigt
  <1> QED
    BY <1>1, LeserImmerInduktiv, PTL

\* A soft decline is never booked as a failure.
THEOREM WeichScheitertNie == LeserSpec => []WeichIstKeinFehlschlag
  <1>1. LeserInduktiv => WeichIstKeinFehlschlag
    BY DEF LeserInduktiv
  <1> QED
    BY <1>1, LeserImmerInduktiv, PTL

(***************************************************************************)
(* SUCCEEDED is final, but for the failure path of a start                 *)
(***************************************************************************)

ErfolgOderFehlstart ==
    \A g \in Gesten :
        satz[g] = "SUCCEEDED" /\ satz'[g] # "SUCCEEDED" =>
            \E a \in Anfragen : geste[a] = g /\ anfrage[a] = "fehlschlag"

LEMMA BleibtSchritt ==
    ASSUME LeserTypeOK, [LeserNext]_leserVars
    PROVE  ErfolgOderFehlstart
  <1> USE LeserAnnahme DEF LeserTypeOK, Staende, Arten, ErfolgOderFehlstart, tillVars, startVars, boteVars, stripeVars
  <1>1. CASE UNCHANGED leserVars
    BY <1>1 DEF leserVars, tillVars, startVars, boteVars, stripeVars
  <1>2. ASSUME NEW g \in Gesten, Belaste(g) PROVE ErfolgOderFehlstart
    BY <1>2 DEF Belaste, Melde
  <1>3. ASSUME NEW g \in Gesten, LehneWeichAb(g) PROVE ErfolgOderFehlstart
    BY <1>3 DEF LehneWeichAb, Melde
  <1>4. ASSUME NEW g \in Gesten, LehneHartAb(g) PROVE ErfolgOderFehlstart
    BY <1>4 DEF LehneHartAb, Melde
  <1>5. ASSUME NEW g \in Gesten, LeserBrichtAb(g) PROVE ErfolgOderFehlstart
    BY <1>5 DEF LeserBrichtAb, Melde
  <1>6. ASSUME NEW g \in Gesten, NimmStartAntwort(g) PROVE ErfolgOderFehlstart
    BY <1>6 DEF NimmStartAntwort, Deute
  <1>7. ASSUME NEW g \in Gesten, StartOhneAntwort(g) PROVE ErfolgOderFehlstart
    BY <1>7 DEF StartOhneAntwort
  <1>8. ASSUME NEW g \in Gesten, FrageStand(g) PROVE ErfolgOderFehlstart
    BY <1>8 DEF FrageStand, Deute
  <1>9. ASSUME NEW g \in Gesten, StandUnbekannt(g) PROVE ErfolgOderFehlstart
    BY <1>9 DEF StandUnbekannt
  <1>10. ASSUME NEW g \in Gesten, BucheVerkauf(g) PROVE ErfolgOderFehlstart
    BY <1>10 DEF BucheVerkauf
  <1>11. ASSUME NEW g \in Gesten, TillWeg(g) PROVE ErfolgOderFehlstart
    BY <1>11 DEF TillWeg
  <1>12. ASSUME NEW g \in Gesten, BricheAb(g) PROVE ErfolgOderFehlstart
    BY <1>12 DEF BricheAb
  <1>13. ASSUME NEW g \in Gesten, BrichLeserAktionAb(g) PROVE ErfolgOderFehlstart
    BY <1>13 DEF BrichLeserAktionAb
  <1>14. ASSUME NEW g \in Gesten, StorniereZumAbbruch(g) PROVE ErfolgOderFehlstart
    BY <1>14 DEF StorniereZumAbbruch, Storniere, Melde
  <1>15. ASSUME NEW g \in Gesten, BucheAbbruch(g) PROVE ErfolgOderFehlstart
    BY <1>15 DEF BucheAbbruch
  <1>16. ASSUME NEW a \in Anfragen, SiehNach(a) PROVE ErfolgOderFehlstart
    BY <1>16 DEF SiehNach, Weiter
  <1>17. ASSUME NEW a \in Anfragen, LegeIntentAn(a) PROVE ErfolgOderFehlstart
    BY <1>17 DEF LegeIntentAn, Weiter
  <1>18. ASSUME NEW a \in Anfragen, TrageSatzEin(a) PROVE ErfolgOderFehlstart
    BY <1>18 DEF TrageSatzEin, Weiter
  <1>19. ASSUME NEW a \in Anfragen, GibNach(a) PROVE ErfolgOderFehlstart
    BY <1>19 DEF GibNach, Weiter, Storniere, Melde
  <1>20. ASSUME NEW a \in Anfragen, StarteLeser(a) PROVE ErfolgOderFehlstart
    BY <1>20 DEF StarteLeser, Weiter
  <1>21. ASSUME NEW a \in Anfragen, LeserstartScheitert(a) PROVE ErfolgOderFehlstart
    BY <1>21 DEF LeserstartScheitert, Weiter
  <1>22. ASSUME NEW a \in Anfragen, RaeumeAuf(a) PROVE ErfolgOderFehlstart
    BY <1>22 DEF RaeumeAuf, Weiter, Storniere, Melde
  <1>23. ASSUME NEW a \in Anfragen, BucheFehlstart(a) PROVE ErfolgOderFehlstart
    BY <1>23 DEF BucheFehlstart, Weiter
  <1>24. ASSUME NEW a \in Anfragen, NEW g \in Gesten, SendeStart(a, g) PROVE ErfolgOderFehlstart
    BY <1>24 DEF SendeStart
  <1>25. ASSUME NEW w \in Boten, LiesEreignis(w) PROVE ErfolgOderFehlstart
    BY <1>25 DEF LiesEreignis
  <1>26. ASSUME NEW w \in Boten, SchreibeStand(w) PROVE ErfolgOderFehlstart
    BY <1>26 DEF SchreibeStand, Lege, Uebergang
  <1>27. ASSUME ServerAbsturz PROVE ErfolgOderFehlstart
    BY <1>27 DEF ServerAbsturz, Antworten, Staende
  <1> QED
    BY <1>1, <1>2, <1>3, <1>4, <1>5, <1>6, <1>7, <1>8, <1>9, <1>10, <1>11, <1>12, <1>13, <1>14, <1>15, <1>16, <1>17, <1>18, <1>19, <1>20, <1>21, <1>22, <1>23, <1>24, <1>25, <1>26, <1>27 DEF LeserNext, StripeSchritt, TillSchritt, StartSchritt, AbbruchSchritt

\* Neither an event nor the cancel route takes a success back.
THEOREM ErfolgIstEndgueltig == LeserSpec => ErfolgBleibt
  <1>1. LeserTypeOK /\ [LeserNext]_leserVars => [ErfolgOderFehlstart]_leserVars
    BY BleibtSchritt
  <1> QED
    BY <1>1, LeserTypkorrekt, PTL DEF LeserSpec, ErfolgBleibt, ErfolgOderFehlstart

(***************************************************************************)
(* Only the cancel route books a cancellation over a charged card          *)
(***************************************************************************)

VerfehltNurImAbbruch ==
    \A g \in Gesten :
        satz[g] # "CANCELED" /\ satz'[g] = "CANCELED" /\ intent[g] = "belastet" =>
            abbruch[g] = "storno"

LEMMA VerfehltSchritt ==
    ASSUME LeserInduktiv, [LeserNext]_leserVars
    PROVE  VerfehltNurImAbbruch
  <1> USE DEF LeserInduktiv, LeserTypeOK, VerfehltNurImAbbruch
  <1>1. CASE UNCHANGED satz
    BY <1>1
  <1>2. ASSUME NEW a \in Anfragen, TrageSatzEin(a) \/ BucheFehlstart(a) PROVE VerfehltNurImAbbruch
    BY <1>2 DEF TrageSatzEin, BucheFehlstart
  <1>3. ASSUME NEW g \in Gesten, BucheAbbruch(g) PROVE VerfehltNurImAbbruch
    BY <1>3 DEF BucheAbbruch
  <1>4. ASSUME NEW w \in Boten, SchreibeStand(w) PROVE VerfehltNurImAbbruch
    <2>1. fuer[w] \in Gesten /\ art[w] \in gemeldet[fuer[w]]
      BY <1>4 DEF SchreibeStand, EreignisWahr
    <2>2. satz' = [satz EXCEPT ![fuer[w]] = IF @ = las[w] THEN Uebergang(@, art[w]) ELSE @]
      BY <1>4 DEF SchreibeStand
    <2>3. \A s : s # "CANCELED" /\ Uebergang(s, art[w]) = "CANCELED" => art[w] \in {"storniert", "amGeraet"}
      BY DEF Uebergang
    <2>4. art[w] \in {"storniert", "amGeraet"} => intent[fuer[w]] # "belastet"
      BY <2>1 DEF LeserSammelt
    <2> QED
      BY <2>1, <2>2, <2>3, <2>4
  <1>5. ASSUME NEW g \in Gesten,
               StripeSchritt(g) \/ TillSchritt(g) \/ BrichLeserAktionAb(g) \/ StorniereZumAbbruch(g)
        PROVE  UNCHANGED satz
    BY <1>5 DEF StripeSchritt, Belaste, LehneWeichAb, LehneHartAb, LeserBrichtAb, TillSchritt,
                NimmStartAntwort, StartOhneAntwort, FrageStand, StandUnbekannt, BucheVerkauf, TillWeg,
                BricheAb, BrichLeserAktionAb, StorniereZumAbbruch
  <1>6. ASSUME NEW a \in Anfragen,
               \/ SiehNach(a) \/ LegeIntentAn(a) \/ GibNach(a) \/ StarteLeser(a)
               \/ LeserstartScheitert(a) \/ RaeumeAuf(a) \/ \E g \in Gesten : SendeStart(a, g)
        PROVE  UNCHANGED satz
    BY <1>6 DEF SiehNach, LegeIntentAn, GibNach, StarteLeser, LeserstartScheitert, RaeumeAuf, SendeStart
  <1>7. CASE ServerAbsturz \/ \E w \in Boten : LiesEreignis(w)
    BY <1>1, <1>7 DEF ServerAbsturz, LiesEreignis
  <1> QED
    BY <1>1, <1>2, <1>3, <1>4, <1>5, <1>6, <1>7 DEF LeserNext, AbbruchSchritt, StartSchritt, leserVars

\* No delivery, early, late or repeated, calls a charged card cancelled.
THEOREM NurDerAbbruchVerfehlt == LeserSpec => NurAbbruchVerfehlt
  <1>1. LeserInduktiv /\ [LeserNext]_leserVars => [VerfehltNurImAbbruch]_leserVars
    BY VerfehltSchritt
  <1> QED
    BY <1>1, LeserImmerInduktiv, PTL DEF LeserSpec, NurAbbruchVerfehlt, VerfehltNurImAbbruch

(***************************************************************************)
(* Leserzahlung implements Kartenverkauf                                   *)
(***************************************************************************)

LEMMA NichtsAmKartenverkauf ==
    ASSUME UNCHANGED <<gang, intent, angezeigt>>
    PROVE  UNCHANGED Kartenverkauf!vars
  BY DEF Kartenverkauf!vars

\* The cancellation of an intent, whoever asks for it.
LEMMA StornoIstStorno ==
    ASSUME LeserInduktiv, NEW g \in Gesten, Storniere(g), UNCHANGED <<gang, angezeigt>>
    PROVE  Kartenverkauf!Storniere(g) \/ UNCHANGED Kartenverkauf!vars
  <1>1. CASE intent[g] = "offen" /\ intent' = [intent EXCEPT ![g] = "storniert"]
    BY <1>1 DEF LeserInduktiv, LeserTypeOK, Kartenverkauf!Storniere
  <1>2. CASE UNCHANGED intent
    BY <1>2, NichtsAmKartenverkauf
  <1> QED
    BY <1>1, <1>2 DEF Storniere

\* What the till learns, it learns of a charged card.
LEMMA TillImKartenverkauf ==
    ASSUME LeserInduktiv, NEW g \in Gesten, TillSchritt(g)
    PROVE  [Kartenverkauf!Next]_Kartenverkauf!vars
  <1> USE DEF LeserInduktiv, LeserTypeOK, stripeVars
  <1>1. ASSUME NEW n, n \in {"wartet", "erfolg", "gescheitert"},
               gang[g] \in {"startet", "wartet"}, gang' = [gang EXCEPT ![g] = n],
               n = "erfolg" => intent[g] = "belastet", UNCHANGED <<intent, angezeigt>>
        PROVE  [Kartenverkauf!Next]_Kartenverkauf!vars
    <2>1. CASE n = "wartet"
      BY <1>1, <2>1 DEF Kartenverkauf!vars
    <2>2. CASE n = "erfolg"
      <3>1. Kartenverkauf!Erfahre(g)
        BY <1>1, <2>2 DEF Kartenverkauf!Erfahre
      <3> QED
        BY <3>1 DEF Kartenverkauf!Next
    <2>3. CASE n = "gescheitert"
      <3>1. Kartenverkauf!GibAuf(g)
        BY <1>1, <2>3 DEF Kartenverkauf!GibAuf
      <3> QED
        BY <3>1 DEF Kartenverkauf!Next
    <2> QED
      BY <1>1, <2>1, <2>2, <2>3
  <1>2. CASE FrageStand(g)
    <2>1. Deute(satz[g]) \in {"wartet", "erfolg", "gescheitert"}
      BY DEF Deute
    <2>2. Deute(satz[g]) = "erfolg" => intent[g] = "belastet"
      BY DEF Deute, ErfolgWahr, BezahltIstBelastet
    <2> QED
      BY <1>1, <1>2, <2>1, <2>2 DEF FrageStand
  <1>3. CASE NimmStartAntwort(g)
    <2>1. PICK a \in Anfragen :
              /\ wartetAuf[g] = a
              /\ \/ /\ anfrage[a] \in Staende \cup {"FEHLSTART"}
                    /\ gang' = [gang EXCEPT ![g] = Deute(anfrage[a])]
                 \/ anfrage[a] = "fehler" /\ gang' = [gang EXCEPT ![g] = "ruht"]
      BY <1>3 DEF NimmStartAntwort
    <2>2. geste[a] = g
      BY <2>1, LeserAnnahme DEF AntwortGehoertDazu
    <2>3. Deute(anfrage[a]) \in {"wartet", "erfolg", "gescheitert"}
      BY DEF Deute
    <2>4. anfrage[a] \in Staende \cup {"FEHLSTART"} /\ Deute(anfrage[a]) = "erfolg" =>
              intent[g] = "belastet"
      BY <2>2 DEF Deute, Staende, ErfolgWahr
    <2>5. CASE gang' = [gang EXCEPT ![g] = "ruht"]
      BY <1>3, <2>5 DEF NimmStartAntwort, Kartenverkauf!vars
    <2> QED
      BY <1>1, <1>3, <2>1, <2>3, <2>4, <2>5 DEF NimmStartAntwort
  <1>4. CASE StartOhneAntwort(g) \/ StandUnbekannt(g)
    BY <1>4 DEF StartOhneAntwort, StandUnbekannt, Kartenverkauf!vars
  <1>5. CASE BucheVerkauf(g)
    <2>1. Kartenverkauf!Buche(g)
      BY <1>5 DEF BucheVerkauf, Kartenverkauf!Buche
    <2> QED
      BY <2>1 DEF Kartenverkauf!Next
  <1>6. CASE TillWeg(g)
    <2>1. Kartenverkauf!GibAuf(g)
      BY <1>6 DEF TillWeg, Kartenverkauf!GibAuf
    <2> QED
      BY <2>1 DEF Kartenverkauf!Next
  <1>7. CASE BricheAb(g)
    BY <1>7, NichtsAmKartenverkauf DEF BricheAb, tillVars
  <1> QED
    BY <1>2, <1>3, <1>4, <1>5, <1>6, <1>7 DEF TillSchritt

\* Provider and cancel route.
LEMMA StripeImKartenverkauf ==
    ASSUME LeserInduktiv, NEW g \in Gesten, StripeSchritt(g) \/ AbbruchSchritt(g)
    PROVE  [Kartenverkauf!Next]_Kartenverkauf!vars
  <1>1. CASE Belaste(g)
    <2>1. intent[g] = "offen" /\ angezeigt[g] = 1
      BY <1>1 DEF Belaste, LeserInduktiv, LeserSammelt
    <2>2. intent' = [intent EXCEPT ![g] = "belastet"] /\ UNCHANGED <<gang, angezeigt>>
      BY <1>1 DEF Belaste, tillVars
    <2>3. intent \in [Gesten -> {"KEINER", "offen", "belastet", "storniert"}]
      BY DEF LeserInduktiv, LeserTypeOK
    <2>4. Kartenverkauf!Belaste(g)
      BY <2>1, <2>2, <2>3 DEF Kartenverkauf!Belaste
    <2> QED
      BY <2>4 DEF Kartenverkauf!Next
  <1>2. CASE LehneWeichAb(g) \/ LehneHartAb(g) \/ LeserBrichtAb(g) \/ BrichLeserAktionAb(g) \/ BucheAbbruch(g)
    BY <1>2, NichtsAmKartenverkauf
       DEF LehneWeichAb, LehneHartAb, LeserBrichtAb, BrichLeserAktionAb, BucheAbbruch, tillVars, stripeVars
  <1>3. CASE StorniereZumAbbruch(g)
    BY <1>3, StornoIstStorno DEF StorniereZumAbbruch, tillVars, Kartenverkauf!Next
  <1> QED
    BY <1>1, <1>2, <1>3 DEF StripeSchritt, AbbruchSchritt

\* The start route.
LEMMA StartImKartenverkauf ==
    ASSUME LeserInduktiv, NEW a \in Anfragen, StartSchritt(a)
    PROVE  [Kartenverkauf!Next]_Kartenverkauf!vars
  <1>1. geste[a] \in Gesten
    BY DEF StartSchritt, SiehNach, LegeIntentAn, TrageSatzEin, GibNach, StarteLeser, LeserstartScheitert,
           RaeumeAuf, BucheFehlstart, LeserInduktiv, LeserTypeOK
  <1>2. CASE StarteLeser(a)
    <2>1. angezeigt[geste[a]] = 0 /\ intent[geste[a]] = "offen"
      BY <1>2 DEF StarteLeser, LeserInduktiv, EinStart
    <2>2. angezeigt' = [angezeigt EXCEPT ![geste[a]] = @ + 1] /\ UNCHANGED <<gang, intent>>
      BY <1>2 DEF StarteLeser, tillVars
    <2>3. angezeigt' = [angezeigt EXCEPT ![geste[a]] = 1]
      BY <1>1, <2>1, <2>2 DEF LeserInduktiv, LeserTypeOK
    <2>4. Kartenverkauf!Zeige(geste[a])
      BY <1>1, <2>1, <2>2, <2>3 DEF Kartenverkauf!Zeige
    <2> QED
      BY <1>1, <2>4 DEF Kartenverkauf!Next
  <1>3. CASE GibNach(a) \/ RaeumeAuf(a)
    BY <1>1, <1>3, StornoIstStorno DEF GibNach, RaeumeAuf, tillVars, Kartenverkauf!Next
  <1>4. CASE LegeIntentAn(a)
    BY <1>1, <1>4 DEF LegeIntentAn, tillVars, LeserInduktiv, LeserTypeOK, Kartenverkauf!vars
  <1>5. CASE SiehNach(a) \/ TrageSatzEin(a) \/ LeserstartScheitert(a) \/ BucheFehlstart(a)
    BY <1>5, NichtsAmKartenverkauf
       DEF SiehNach, TrageSatzEin, LeserstartScheitert, BucheFehlstart, tillVars, stripeVars
  <1> QED
    BY <1>2, <1>3, <1>4, <1>5 DEF StartSchritt

LEMMA KartenverkaufSchritt ==
    ASSUME LeserInduktiv, [LeserNext]_leserVars
    PROVE  [Kartenverkauf!Next]_Kartenverkauf!vars
  <1>1. ASSUME NEW a \in Anfragen, NEW g \in Gesten, SendeStart(a, g)
        PROVE  UNCHANGED Kartenverkauf!vars
    BY <1>1 DEF SendeStart, stripeVars, LeserInduktiv, LeserTypeOK, Kartenverkauf!vars
  <1>2. CASE ServerAbsturz \/ \E w \in Boten : LiesEreignis(w) \/ SchreibeStand(w)
    BY <1>2, NichtsAmKartenverkauf DEF ServerAbsturz, LiesEreignis, SchreibeStand, tillVars, stripeVars
  <1>3. CASE UNCHANGED leserVars
    BY <1>3, NichtsAmKartenverkauf DEF leserVars, tillVars, stripeVars
  <1> QED
    BY <1>1, <1>2, <1>3, TillImKartenverkauf, StripeImKartenverkauf, StartImKartenverkauf DEF LeserNext

\* A gesture repeated by the till, deliveries out of order, a cancellation on
\* the way and a server that ends in between: still one honest card payment.
THEOREM VerfeinertKartenverkauf == LeserSpec => IstKartenverkauf
  <1>1. LeserInit => Kartenverkauf!Init
    BY DEF LeserInit, Kartenverkauf!Init
  <1>2. LeserInduktiv /\ [LeserNext]_leserVars => [Kartenverkauf!Next]_Kartenverkauf!vars
    BY KartenverkaufSchritt
  <1> QED
    BY <1>1, <1>2, LeserImmerInduktiv, PTL DEF LeserSpec, IstKartenverkauf, Kartenverkauf!Spec

=============================================================================
