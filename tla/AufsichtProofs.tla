---------------------------- MODULE AufsichtProofs ----------------------------
(***************************************************************************)
(* Proofs about the shell and its engine, for any limit, any periods and   *)
(* any set of addresses.                                                   *)
(*                                                                         *)
(* The argument: while the thread starts an engine or puts it down, the    *)
(* slot holds none that runs (Faden), so what the start removes is nobody  *)
(* else's and what it brings up is the only one (EinHerr).  The clock of   *)
(* the supervisor runs at least as long as the engine, so it takes no long *)
(* run for a short one, and its counter is never ahead of the runs that    *)
(* were short (Leiter).                                                    *)
(***************************************************************************)
EXTENDS Aufsicht, TLAPS

(***************************************************************************)
(* The inductive invariant                                                 *)
(***************************************************************************)

\* How far the thread is, what it holds and what is in the slot.
Faden ==
    /\ rumpf = "aus" => wache = "aus" /\ motor = "leer"
    /\ wache = "startet" => neu \in {"geboren", "haelt"} /\ motor # "laeuft"
    /\ wache = "legtAb" => neu # "geboren" /\ motor # "laeuft"
    /\ wache \notin {"startet", "legtAb"} => neu = "keiner"

\* The counter and the clock of the supervisor against the runs there were.
Leiter ==
    /\ alter <= seit
    /\ wache = "meldet" => alter = 0
    /\ versuche <= kurz + 1
    /\ AufgabeBegruendet

AufsichtInduktiv ==
    /\ AufsichtTypeOK
    /\ Faden
    /\ EinHerr
    /\ Leiter

(***************************************************************************)
(* The initial states                                                      *)
(***************************************************************************)

\* The invariant holds before the shell is opened, also over an orphan.
LEMMA AufsichtAnfang == AufsichtInit => AufsichtInduktiv
  <1> SUFFICES ASSUME AufsichtInit PROVE AufsichtInduktiv
    OBVIOUS
  <1>1. waise \in BOOLEAN /\ gebunden \in BOOLEAN
    BY Zenon DEF AufsichtInit
  <1>2. AufsichtTypeOK
    BY <1>1, AufsichtAnnahme DEF AufsichtInit, AufsichtTypeOK
  <1>3. Faden /\ EinHerr /\ Leiter
    BY DEF AufsichtInit, Faden, EinHerr, Leiter, AufgabeBegruendet
  <1>4. QED
    BY <1>2, <1>3 DEF AufsichtInduktiv

(***************************************************************************)
(* One step                                                                *)
(***************************************************************************)

\* Every step keeps the types; the counter stays below its limit because a
\* restart past it is only decided after a long run, which resets it.
LEMMA AufsichtTypSchritt ==
    ASSUME AufsichtTypeOK, [AufsichtNext]_aufsichtVars
    PROVE  AufsichtTypeOK'
  <1> USE AufsichtAnnahme
      DEF AufsichtTypeOK, rumpfVars, startVars, leiterVars, fachVars, aufsichtVars
  <1>1. CASE UNCHANGED aufsichtVars
    BY <1>1
  <1>2. CASE OeffneRumpf
    BY <1>2 DEF OeffneRumpf, Starte
  <1>3. CASE SchliesseRumpf
    <2>1. waise' \in BOOLEAN
      BY <1>3, Zenon DEF SchliesseRumpf, Uebrig
    <2>2. QED
      BY <1>3, <2>1 DEF SchliesseRumpf, Uebrig
  <1>4. CASE EndeRumpf
    <2>1. waise' \in BOOLEAN /\ gebunden' \in BOOLEAN
      BY <1>4, Zenon DEF EndeRumpf, Uebrig
    <2>2. QED
      BY <1>4, <2>1 DEF EndeRumpf
  <1>5. CASE FahreHoch
    <2>1. waise' \in BOOLEAN
      BY <1>5, Zenon DEF FahreHoch
    <2>2. QED
      BY <1>5, <2>1 DEF FahreHoch
  <1>6. CASE MeldeBereit
    BY <1>6 DEF MeldeBereit
  <1>7. CASE LegeAuf \/ MeldeUnlesbar \/ FristAbgelaufen
    BY <1>7 DEF LegeAuf, MeldeUnlesbar, FristAbgelaufen, Scheitere, Uebrig
  <1>8. CASE Sterbe
    <2>1. waise' \in BOOLEAN
      BY <1>8, Zenon DEF Sterbe, Uebrig
    <2>2. QED
      BY <1>8, <2>1 DEF Sterbe, Uebrig
  <1>9. CASE LegeAb
    BY <1>9 DEF LegeAb
  <1>10. CASE Melde
    BY <1>10 DEF Melde
  <1>11. CASE BlickNeuStarten
    BY <1>11 DEF BlickNeuStarten, Starte, Entscheide, NachNeustart, Zaehle
  <1>12. CASE BlickAufgeben
    BY <1>12 DEF BlickAufgeben, Zaehle
  <1>13. CASE FrageMotor
    BY <1>13 DEF FrageMotor
  <1>14. CASE Vergehe
    BY <1>14 DEF Vergehe, Hoch
  <1>15. QED
    BY <1>1, <1>2, <1>3, <1>4, <1>5, <1>6, <1>7, <1>8, <1>9, <1>10, <1>11, <1>12, <1>13, <1>14
       DEF AufsichtNext, RumpfSchritt, MotorSchritt, WacheSchritt

\* Every step keeps what is said of the thread, and the data directory keeps
\* its one master.
LEMMA HerrSchritt ==
    ASSUME AufsichtTypeOK, Faden, EinHerr, [AufsichtNext]_aufsichtVars
    PROVE  Faden' /\ EinHerr'
  <1> USE DEF AufsichtTypeOK, Faden, EinHerr, rumpfVars, startVars, leiterVars, fachVars, aufsichtVars
  <1>1. CASE UNCHANGED aufsichtVars
    BY <1>1
  <1>2. CASE OeffneRumpf
    BY <1>2 DEF OeffneRumpf, Starte
  <1>3. CASE SchliesseRumpf
    BY <1>3 DEF SchliesseRumpf, Uebrig
  <1>4. CASE EndeRumpf
    BY <1>4 DEF EndeRumpf, Uebrig
  <1>5. CASE FahreHoch
    BY <1>5 DEF FahreHoch, Startet
  <1>6. CASE MeldeBereit
    BY <1>6 DEF MeldeBereit, Startet
  <1>7. CASE LegeAuf \/ MeldeUnlesbar \/ FristAbgelaufen
    BY <1>7 DEF LegeAuf, MeldeUnlesbar, FristAbgelaufen, Scheitere, Startet, Uebrig
  <1>8. CASE Sterbe
    BY <1>8 DEF Sterbe, Uebrig
  <1>9. CASE LegeAb
    BY <1>9 DEF LegeAb
  <1>10. CASE Melde
    BY <1>10 DEF Melde
  <1>11. CASE BlickNeuStarten
    BY <1>11 DEF BlickNeuStarten, Starte, Lebt
  <1>12. CASE BlickAufgeben
    BY <1>12 DEF BlickAufgeben
  <1>13. CASE FrageMotor
    BY <1>13 DEF FrageMotor
  <1>14. CASE Vergehe
    BY <1>14 DEF Vergehe
  <1>15. QED
    BY <1>1, <1>2, <1>3, <1>4, <1>5, <1>6, <1>7, <1>8, <1>9, <1>10, <1>11, <1>12, <1>13, <1>14
       DEF AufsichtNext, RumpfSchritt, MotorSchritt, WacheSchritt

\* Every step keeps the counter behind the short runs and the clock ahead of
\* the engine, so that who gives up has seen enough of them.
LEMMA LeiterSchritt ==
    ASSUME AufsichtTypeOK, Faden, Leiter, [AufsichtNext]_aufsichtVars
    PROVE  Leiter'
  <1> USE AufsichtAnnahme
      DEF AufsichtTypeOK, Leiter, AufgabeBegruendet, rumpfVars, startVars, leiterVars, fachVars, aufsichtVars
  <1>1. CASE UNCHANGED aufsichtVars
    BY <1>1
  <1>2. CASE OeffneRumpf
    BY <1>2 DEF OeffneRumpf, Starte
  <1>3. CASE SchliesseRumpf
    BY <1>3 DEF SchliesseRumpf
  <1>4. CASE EndeRumpf
    BY <1>4 DEF EndeRumpf
  <1>5. CASE FahreHoch
    BY <1>5 DEF FahreHoch
  <1>6. CASE MeldeBereit
    BY <1>6 DEF MeldeBereit
  <1>7. CASE LegeAuf \/ MeldeUnlesbar \/ FristAbgelaufen
    BY <1>7 DEF LegeAuf, MeldeUnlesbar, FristAbgelaufen, Scheitere
  <1>8. CASE Sterbe
    BY <1>8 DEF Sterbe
  <1>9. CASE LegeAb
    BY <1>9 DEF LegeAb
  <1>10. CASE Melde
    BY <1>10 DEF Melde
  <1>11. CASE BlickNeuStarten
    <2>1. versuche' = NachNeustart /\ seit' = 0 /\ alter' = 0 /\ wache' \in {"startet", "legtAb"}
      BY <1>11 DEF BlickNeuStarten, Starte
    <2>2. CASE seit >= AlsGelungenNach
      BY <1>11, <2>1, <2>2 DEF BlickNeuStarten, NachNeustart, Zaehle
    <2>3. CASE seit < AlsGelungenNach
      <3>1. versuche < HoechstensVersuche
        BY <1>11, <2>3 DEF BlickNeuStarten, Entscheide
      <3>2. kurz' = IF kurz <= HoechstensVersuche THEN kurz + 1 ELSE kurz
        BY <1>11, <2>3 DEF BlickNeuStarten, Zaehle
      <3>3. versuche' = versuche + 1
        BY <2>1, <2>3 DEF NachNeustart
      <3>4. QED
        BY <2>1, <3>1, <3>2, <3>3
    <2>4. QED
      BY <2>2, <2>3
  <1>12. CASE BlickAufgeben
    <2>1. seit < AlsGelungenNach /\ versuche >= HoechstensVersuche
      BY <1>12 DEF BlickAufgeben, Entscheide
    <2>2. kurz' = IF kurz <= HoechstensVersuche THEN kurz + 1 ELSE kurz
      BY <1>12, <2>1 DEF BlickAufgeben, Zaehle
    <2>3. QED
      BY <1>12, <2>1, <2>2 DEF BlickAufgeben
  <1>13. CASE FrageMotor
    BY <1>13 DEF FrageMotor
  <1>14. CASE Vergehe
    BY <1>14 DEF Vergehe, Hoch
  <1>15. QED
    BY <1>1, <1>2, <1>3, <1>4, <1>5, <1>6, <1>7, <1>8, <1>9, <1>10, <1>11, <1>12, <1>13, <1>14
       DEF AufsichtNext, RumpfSchritt, MotorSchritt, WacheSchritt

(***************************************************************************)
(* The theorems                                                            *)
(***************************************************************************)

\* The inductive invariant of the shell and its engine.
THEOREM AufsichtImmerInduktiv == AufsichtSpec => []AufsichtInduktiv
  <1>1. AufsichtInit => AufsichtInduktiv
    BY AufsichtAnfang
  <1>2. AufsichtInduktiv /\ [AufsichtNext]_aufsichtVars => AufsichtInduktiv'
    BY AufsichtTypSchritt, HerrSchritt, LeiterSchritt DEF AufsichtInduktiv
  <1>3. QED
    BY <1>1, <1>2, PTL DEF AufsichtSpec

\* Every variable of the shell keeps its type.
THEOREM AufsichtTypkorrekt == AufsichtSpec => []AufsichtTypeOK
  <1>1. AufsichtInduktiv => AufsichtTypeOK
    BY DEF AufsichtInduktiv
  <1>2. QED
    BY <1>1, AufsichtImmerInduktiv, PTL

\* Engine in the slot, engine being started and orphaned PostgreSQL: never two
\* of them on the data directory.
THEOREM EinHerrAmDatenort == AufsichtSpec => []EinHerr
  <1>1. AufsichtInduktiv => EinHerr
    BY DEF AufsichtInduktiv
  <1>2. QED
    BY <1>1, AufsichtImmerInduktiv, PTL

\* The supervisor gives up only on a series of HoechstensVersuche short runs.
THEOREM AufgabeIstBegruendet == AufsichtSpec => []AufgabeBegruendet
  <1>1. AufsichtInduktiv => AufgabeBegruendet
    BY DEF AufsichtInduktiv, Leiter
  <1>2. QED
    BY <1>1, AufsichtImmerInduktiv, PTL

=============================================================================
