------------------------ MODULE TagesabschlussProofs ------------------------
(***************************************************************************)
(* Theorems about Tagesabschluss, for any number of receipts, closings,    *)
(* shifts and days.                                                        *)
(***************************************************************************)
EXTENDS Tagesabschluss, TLAPS

USE DEF Tage, KeinTag, TagOderKeiner

(***************************************************************************)
(* Types                                                                   *)
(***************************************************************************)

\* Each request variable that an ending closing clears stays well typed.
LEMMA VergissTyp ==
    ASSUME TypeOK, NEW a \in Abschluesse, VergissAnfrage(a)
    PROVE  /\ astand' \in [Abschluesse -> AStand]
           /\ atag' \in [Abschluesse -> TagOderKeiner]
           /\ summen' \in [Abschluesse -> SUBSET Vorgaenge]
           /\ aufteilung' \in [Abschluesse -> SUBSET Vorgaenge]
           /\ sturz' \in [Abschluesse -> SUBSET Schichten]
           /\ anker' \in [Abschluesse -> Nat]
           /\ nummer' \in [Abschluesse -> Nat]
  BY DEF TypeOK, VergissAnfrage, AStand

\* The greatest of 1 .. n, or 0, is n.
LEMMA MaximumVonAnfang ==
    ASSUME NEW S, NEW n \in Nat, S = 1 .. n
    PROVE  (CHOOSE m \in S \cup {0} : \A k \in S : k <= m) = n
  <1>1. n \in S \cup {0} /\ \A k \in S : k <= n
    OBVIOUS
  <1>2. ASSUME NEW m \in S \cup {0}, \A k \in S : k <= m PROVE m = n
    <2>1. m \in Nat /\ m <= n
      OBVIOUS
    <2>2. n > 0 => n <= m
      BY <1>2, n > 0 => n \in S
    <2> QED
      BY <2>1, <2>2
  <1> DEFINE Groesste(m) == m \in S \cup {0} /\ \A k \in S : k <= m
  <1>3. \E m : Groesste(m)
    BY <1>1
  <1>4. Groesste(CHOOSE m : Groesste(m))
    BY <1>3
  <1> QED
    BY <1>2, <1>4

\* The Z numbers given so far reach from 1 to the highest.
LEMMA HoechsteIstNat ==
    ASSUME TypeOK, ZFolgeLueckenlos
    PROVE  HoechsteZNummer \in Nat /\ ZNummern = 1 .. HoechsteZNummer
  <1>1. ZNummern \subseteq Nat
    <2> SUFFICES ASSUME NEW d \in Tage PROVE abschluss[d].zNr \in Nat
      BY DEF ZNummern, FestgeschriebeneTage
    <2>1. abschluss[d] \in Satz
      BY DEF TypeOK
    <2> QED
      BY <2>1 DEF Satz
  <1>2. PICK n \in {0} \cup ZNummern : ZNummern = 1 .. n
    BY DEF ZFolgeLueckenlos
  <1>3. n \in Nat
    BY <1>1
  <1>4. HoechsteZNummer = n
    BY <1>2, <1>3, MaximumVonAnfang DEF HoechsteZNummer
  <1> QED
    BY <1>2, <1>3, <1>4

\* Every step keeps the types.  The Z number a closing reads is a number only
\* because the numbers given so far are 1 .. n, so that they have a maximum.
LEMMA TypSchritt ==
    ASSUME TypeOK, ZFolgeLueckenlos, [Next]_vars
    PROVE  TypeOK'
  <1> USE TageAnnahme
  <1>1. CASE UNCHANGED vars
    BY <1>1 DEF TypeOK, vars, vorgangVars, anfrageVars, schichtVars
  <1>2. CASE Mitternacht
    BY <1>2 DEF TypeOK, Mitternacht, vorgangVars, anfrageVars, schichtVars
  <1>3. ASSUME NEW p \in Vorgaenge, Beginne(p) PROVE TypeOK'
    BY <1>3 DEF TypeOK, Beginne, VStand, anfrageVars, schichtVars
  <1>4. ASSUME NEW p \in Vorgaenge, VorgangSchritt(p) PROVE TypeOK'
    <2>1. CASE BestimmeBuchungstag(p)
      BY <2>1 DEF TypeOK, BestimmeBuchungstag, Buchungstag, VStand, anfrageVars, schichtVars
    <2>2. CASE WeiseAb(p)
      BY <2>2 DEF TypeOK, WeiseAb, VerwirfVorgang, VStand, anfrageVars, schichtVars
    <2>3. CASE Committe(p)
      BY <2>3 DEF TypeOK, Committe, VStand, anfrageVars, schichtVars
    <2> QED
      BY <1>4, <2>1, <2>2, <2>3 DEF VorgangSchritt
  <1>5. ASSUME NEW p \in Vorgaenge, VorgangSperre(p) PROVE TypeOK'
    <2>1. CASE NimmTagessperre(p)
      BY <2>1 DEF TypeOK, NimmTagessperre, VStand, anfrageVars, schichtVars
    <2>2. CASE FuegeEin(p)
      BY <2>2 DEF TypeOK, FuegeEin, VStand, anfrageVars, schichtVars
    <2> QED
      BY <1>5, <2>1, <2>2 DEF VorgangSperre
  <1>6. ASSUME NEW p \in Vorgaenge, AbbruchVorgang(p) PROVE TypeOK'
    BY <1>6 DEF TypeOK, AbbruchVorgang, VerwirfVorgang, VStand, anfrageVars, schichtVars
  <1>7. ASSUME NEW a \in Abschluesse, BeginneAbschluss(a) PROVE TypeOK'
    BY <1>7 DEF TypeOK, BeginneAbschluss, AStand, vorgangVars, schichtVars
  <1>8. ASSUME NEW a \in Abschluesse, AbschlussSchritt(a) PROVE TypeOK'
    <2> USE DEF AStand, vorgangVars, schichtVars
    <2>1. CASE PruefeTag(a) \/ PruefeSchichten(a) \/ PruefeDeckung(a)
      BY <2>1 DEF TypeOK, PruefeTag, PruefeSchichten, PruefeDeckung
    <2>2. BelegeVon(atag[a]) \in SUBSET Vorgaenge
      BY DEF BelegeVon, Gebucht
    <2>3. CASE Summiere(a)
      BY <2>2, <2>3 DEF TypeOK, Summiere
    <2>4. CASE TeileAuf(a)
      BY <2>2, <2>4 DEF TypeOK, TeileAuf
    <2>5. CASE Stuerze(a)
      <3>1. {s \in GeschlosseneSchichten : geschlossen[s] = atag[a]} \in SUBSET Schichten
        BY DEF GeschlosseneSchichten
      <3> QED
        BY <2>5, <3>1 DEF TypeOK, Stuerze
    <2>6. CASE Verankere(a)
      BY <2>6 DEF TypeOK, Verankere
    <2>7. CASE LiesNummer(a)
      <3>1. HoechsteZNummer + 1 \in Nat
        BY HoechsteIstNat
      <3> QED
        BY <2>7, <3>1 DEF TypeOK, LiesNummer
    <2>8. CASE LehneAb(a)
      BY <2>8, VergissTyp DEF TypeOK, LehneAb
    <2> QED
      BY <1>8, <2>1, <2>3, <2>4, <2>5, <2>6, <2>7, <2>8 DEF AbschlussSchritt
  <1>9. ASSUME NEW a \in Abschluesse, AbschlussSperre(a) PROVE TypeOK'
    <2>1. CASE NimmAbschlusssperre(a) \/ NimmNummernsperre(a)
      BY <2>1 DEF TypeOK, NimmAbschlusssperre, NimmNummernsperre, AStand, vorgangVars, schichtVars
    <2>2. CASE Schreibe(a)
      <3>1. abschluss' \in [Tage -> Satz]
        BY <2>2 DEF TypeOK, Schreibe, Satz
      <3>2. VergissAnfrage(a) /\ kette' = kette + 1
        BY <2>2 DEF Schreibe
      <3>3. UNCHANGED <<heute, vstand, jetzt, erfasst, zeit, nachtrag, glied, schichtVars>>
        BY <2>2 DEF Schreibe
      <3>4. /\ astand' \in [Abschluesse -> AStand]
            /\ atag' \in [Abschluesse -> TagOderKeiner]
            /\ summen' \in [Abschluesse -> SUBSET Vorgaenge]
            /\ aufteilung' \in [Abschluesse -> SUBSET Vorgaenge]
            /\ sturz' \in [Abschluesse -> SUBSET Schichten]
            /\ anker' \in [Abschluesse -> Nat]
            /\ nummer' \in [Abschluesse -> Nat]
        BY <3>2, VergissTyp
      <3> QED
        BY <3>1, <3>2, <3>3, <3>4 DEF TypeOK, schichtVars
    <2> QED
      BY <1>9, <2>1, <2>2 DEF AbschlussSperre
  <1>10. ASSUME NEW a \in Abschluesse, AbbruchAbschluss(a) PROVE TypeOK'
    <2>1. VergissAnfrage(a)
      BY <1>10 DEF AbbruchAbschluss
    <2> QED
      BY <1>10, <2>1, VergissTyp DEF TypeOK, AbbruchAbschluss, vorgangVars, schichtVars
  <1>11. ASSUME NEW s \in Schichten, SchichtSchritt(s) PROVE TypeOK'
    <2> USE DEF TypeOK, SStand, vorgangVars, anfrageVars
    <2>1a. CASE PruefeOeffnen(s)
      BY <2>1a DEF PruefeOeffnen
    <2>1b. CASE PruefeSchliessen(s)
      BY <2>1b DEF PruefeSchliessen
    <2>1c. CASE AbbruchSchicht(s)
      BY <2>1c DEF AbbruchSchicht
    <2>2. CASE Oeffne(s)
      BY <2>2 DEF Oeffne
    <2>3. CASE Schliesse(s)
      BY <2>3 DEF Schliesse
    <2> QED
      BY <1>11, <2>1a, <2>1b, <2>1c, <2>2, <2>3 DEF SchichtSchritt
  <1> QED
    BY <1>1, <1>2, <1>3, <1>4, <1>5, <1>6, <1>7, <1>8, <1>9, <1>10, <1>11
       DEF Next, VorgangAktion, AbschlussAktion

(***************************************************************************)
(* What a step may touch                                                   *)
(***************************************************************************)

\* A closing writes nothing but its own request until it writes its row.
LEMMA NurSchreibeSchreibt ==
    ASSUME NEW a \in Abschluesse, AbschlussAktion(a), ~Schreibe(a)
    PROVE  UNCHANGED <<heute, vorgangVars, abschluss, schichtVars>>
  <1>1. CASE BeginneAbschluss(a) \/ AbbruchAbschluss(a)
    BY <1>1 DEF BeginneAbschluss, AbbruchAbschluss
  <1>2. CASE AbschlussSchritt(a)
    BY <1>2 DEF AbschlussSchritt, PruefeTag, PruefeSchichten, Summiere, TeileAuf, Stuerze,
                PruefeDeckung, Verankere, LiesNummer, LehneAb
  <1>3. CASE NimmAbschlusssperre(a) \/ NimmNummernsperre(a)
    BY <1>3 DEF NimmAbschlusssperre, NimmNummernsperre
  <1> QED
    BY <1>1, <1>2, <1>3 DEF AbschlussAktion, AbschlussSperre

\* A receipt transaction touches only the receipts and the chain.
LEMMA VorgangRahmen ==
    ASSUME NEW p \in Vorgaenge, VorgangAktion(p)
    PROVE  UNCHANGED <<heute, anfrageVars, abschluss, schichtVars>>
  BY DEF VorgangAktion, VorgangSchritt, VorgangSperre, Beginne, BestimmeBuchungstag, WeiseAb,
         Committe, NimmTagessperre, FuegeEin, AbbruchVorgang, VerwirfVorgang

\* A shift request touches only its shift.
LEMMA SchichtRahmen ==
    ASSUME NEW s \in Schichten, SchichtSchritt(s)
    PROVE  UNCHANGED <<heute, vorgangVars, anfrageVars, abschluss>>
  BY DEF SchichtSchritt, PruefeOeffnen, Oeffne, PruefeSchliessen, Schliesse, AbbruchSchicht

\* The groups of steps the proofs below distinguish.
LEMMA Schrittarten ==
    ASSUME [Next]_vars
    PROVE  \/ UNCHANGED <<vorgangVars, anfrageVars, abschluss, schichtVars>>
              /\ heute' \in {heute, heute + 1}
           \/ \E p \in Vorgaenge : VorgangAktion(p)
           \/ \E a \in Abschluesse : Schreibe(a)
           \/ \E a \in Abschluesse : AbschlussAktion(a) /\ ~Schreibe(a)
           \/ \E s \in Schichten : SchichtSchritt(s)
  BY DEF Next, vars, Mitternacht

\* What Schreibe does to the table of closings.
LEMMA SchreibeWirkt ==
    ASSUME TypeOK, AbschlussLage, NEW a \in Abschluesse, Schreibe(a)
    PROVE  /\ atag[a] \in Tage
           /\ ~Festgeschrieben(atag[a])
           /\ abschluss'[atag[a]].summen = summen[a]
           /\ abschluss'[atag[a]].aufteilung = aufteilung[a]
           /\ abschluss'[atag[a]].anker = anker[a]
           /\ abschluss'[atag[a]].zNr = nummer[a]
           /\ \A d \in Tage : d # atag[a] => abschluss'[d] = abschluss[d]
           /\ \A d \in Tage : Festgeschrieben(d)' <=> (Festgeschrieben(d) \/ d = atag[a])
  <1>1. atag[a] \in Tage /\ ~Festgeschrieben(atag[a])
    BY DEF AbschlussLage, Schreibe, Eindeutig
  <1>2. abschluss' = [abschluss EXCEPT ![atag[a]] =
                [zustand |-> "FINALIZED", summen |-> summen[a], aufteilung |-> aufteilung[a],
                 sturz |-> sturz[a], anker |-> anker[a], zNr |-> nummer[a]]]
    BY DEF Schreibe
  <1>3. abschluss \in [Tage -> Satz]
    BY DEF TypeOK
  <1>4. abschluss'[atag[a]] =
                [zustand |-> "FINALIZED", summen |-> summen[a], aufteilung |-> aufteilung[a],
                 sturz |-> sturz[a], anker |-> anker[a], zNr |-> nummer[a]]
    BY <1>1, <1>2, <1>3
  <1>5. \A d \in Tage : d # atag[a] => abschluss'[d] = abschluss[d]
    BY <1>1, <1>2, <1>3
  <1>6. /\ abschluss'[atag[a]].zustand = "FINALIZED"
        /\ abschluss'[atag[a]].summen = summen[a]
        /\ abschluss'[atag[a]].aufteilung = aufteilung[a]
        /\ abschluss'[atag[a]].anker = anker[a]
        /\ abschluss'[atag[a]].zNr = nummer[a]
    BY <1>4
  <1> QED
    BY <1>1, <1>5, <1>6 DEF Festgeschrieben

\* A sealed day stays sealed, with the row it has.
LEMMA SiegelBleibt ==
    ASSUME TypeOK, AbschlussLage, [Next]_vars, NEW d \in Tage, Festgeschrieben(d)
    PROVE  abschluss'[d] = abschluss[d] /\ Festgeschrieben(d)'
  <1>1. CASE \E a \in Abschluesse : Schreibe(a)
    BY <1>1, SchreibeWirkt
  <1>2. CASE ~\E a \in Abschluesse : Schreibe(a)
    BY <1>2, Schrittarten, VorgangRahmen, NurSchreibeSchreibt, SchichtRahmen DEF Festgeschrieben
  <1> QED
    BY <1>1, <1>2

\* Only Schreibe seals a day.
LEMMA NurSchreibeSiegelt ==
    ASSUME [Next]_vars, \A a \in Abschluesse : ~Schreibe(a)
    PROVE  UNCHANGED abschluss
  BY Schrittarten, VorgangRahmen, NurSchreibeSchreibt, SchichtRahmen

\* The receipts of a day change by one commit at most.
LEMMA BelegeWachsen ==
    ASSUME TypeOK, NEW p \in Vorgaenge, VorgangAktion(p), NEW d \in Tage
    PROVE  \/ BelegeVon(d)' = BelegeVon(d)
           \/ Committe(p) /\ zeit[p] = d /\ BelegeVon(d)' = BelegeVon(d) \cup {p}
  <1> USE DEF TypeOK, BelegeVon, Gebucht
  <1>1. CASE Beginne(p) \/ BestimmeBuchungstag(p)
    BY <1>1 DEF Beginne, BestimmeBuchungstag
  <1>2. CASE Committe(p)
    BY <1>2 DEF Committe
  <1>3. CASE NimmTagessperre(p) \/ FuegeEin(p)
    BY <1>3 DEF NimmTagessperre, FuegeEin
  <1>4. CASE WeiseAb(p) \/ AbbruchVorgang(p)
    BY <1>4 DEF WeiseAb, AbbruchVorgang, VerwirfVorgang
  <1> QED
    BY <1>1, <1>2, <1>3, <1>4 DEF VorgangAktion, VorgangSchritt, VorgangSperre

\* Where no receipt is in flight, the receipts of the day stay as they are.
LEMMA BelegeBleiben ==
    ASSUME TypeOK, [Next]_vars, NEW d \in Tage,
           \A p \in Vorgaenge : ~(vstand[p] = "eingefuegt" /\ zeit[p] = d)
    PROVE  BelegeVon(d)' = BelegeVon(d)
  <1>1. CASE \E p \in Vorgaenge : VorgangAktion(p)
    BY <1>1, BelegeWachsen DEF Committe
  <1>2. CASE ~\E p \in Vorgaenge : VorgangAktion(p)
    <2>1. UNCHANGED <<vstand, zeit>>
      BY <1>2, Schrittarten, NurSchreibeSchreibt, SchichtRahmen DEF vorgangVars, Schreibe
    <2> QED
      BY <2>1 DEF BelegeVon, Gebucht
  <1> QED
    BY <1>1, <1>2

\* A committed receipt never changes.
LEMMA BelegBleibt ==
    ASSUME TypeOK, [Next]_vars, NEW q \in Gebucht
    PROVE  /\ q \in Gebucht'
           /\ zeit'[q] = zeit[q] /\ glied'[q] = glied[q] /\ erfasst'[q] = erfasst[q]
           /\ nachtrag'[q] = nachtrag[q] /\ jetzt'[q] = jetzt[q]
  <1>1. ASSUME NEW p \in Vorgaenge, VorgangAktion(p)
        PROVE  /\ vstand'[q] = "committet"
               /\ zeit'[q] = zeit[q] /\ glied'[q] = glied[q] /\ erfasst'[q] = erfasst[q]
               /\ nachtrag'[q] = nachtrag[q] /\ jetzt'[q] = jetzt[q]
    <2> USE DEF TypeOK, Gebucht
    <2>1. CASE Beginne(p) \/ BestimmeBuchungstag(p)
      BY <2>1 DEF Beginne, BestimmeBuchungstag
    <2>2. CASE Committe(p) \/ NimmTagessperre(p) \/ FuegeEin(p)
      BY <2>2 DEF Committe, NimmTagessperre, FuegeEin
    <2>3. CASE WeiseAb(p) \/ AbbruchVorgang(p)
      BY <2>3 DEF WeiseAb, AbbruchVorgang, VerwirfVorgang
    <2> QED
      BY <1>1, <2>1, <2>2, <2>3 DEF VorgangAktion, VorgangSchritt, VorgangSperre
  <1>2. CASE ~\E p \in Vorgaenge : VorgangAktion(p)
    BY <1>2, Schrittarten, NurSchreibeSchreibt, SchichtRahmen DEF vorgangVars, Schreibe, Gebucht
  <1> QED
    BY <1>1, <1>2 DEF Gebucht

\* A closed shift never changes, so a day that one spans stays spanned.
LEMMA UeberspanntBleibt ==
    ASSUME TypeOK, [Next]_vars, NEW d \in Tage, Ueberspannt(d)
    PROVE  Ueberspannt(d)'
  <1>1. PICK t \in Schichten : sstand[t] = "CLOSED" /\ geoeffnet[t] <= d /\ d <= geschlossen[t]
    BY DEF Ueberspannt, GeschlosseneSchichten
  <1>2. ASSUME NEW s \in Schichten, SchichtSchritt(s)
        PROVE  sstand'[t] = "CLOSED" /\ geoeffnet'[t] = geoeffnet[t] /\ geschlossen'[t] = geschlossen[t]
    <2> USE DEF TypeOK
    <2>1. CASE PruefeOeffnen(s) \/ PruefeSchliessen(s) \/ AbbruchSchicht(s)
      BY <1>1, <2>1 DEF PruefeOeffnen, PruefeSchliessen, AbbruchSchicht
    <2>2. CASE Oeffne(s) \/ Schliesse(s)
      BY <1>1, <2>2 DEF Oeffne, Schliesse
    <2> QED
      BY <1>2, <2>1, <2>2 DEF SchichtSchritt
  <1>3. sstand'[t] = "CLOSED" /\ geoeffnet'[t] = geoeffnet[t] /\ geschlossen'[t] = geschlossen[t]
    BY <1>1, <1>2, Schrittarten, NurSchreibeSchreibt, VorgangRahmen DEF schichtVars, Schreibe
  <1> QED
    BY <1>1, <1>3 DEF Ueberspannt, GeschlosseneSchichten

(***************************************************************************)
(* The parts of the invariant                                              *)
(***************************************************************************)

LEMMA SperrenSchritt ==
    ASSUME TypeOK, SperrenSchliessenAus, [Next]_vars
    PROVE  SperrenSchliessenAus'
  <1> USE DEF SperrenSchliessenAus, HaeltTagessperre, HaeltAbschlusssperre, HaeltNummernsperre
  <1>1. CASE UNCHANGED <<vorgangVars, anfrageVars, abschluss, schichtVars>>
    BY <1>1 DEF vorgangVars, anfrageVars
  <1>2. ASSUME NEW p \in Vorgaenge, VorgangAktion(p) PROVE SperrenSchliessenAus'
    <2> USE DEF TypeOK, anfrageVars
    <2>1a. CASE Beginne(p)
      BY <2>1a DEF Beginne
    <2>1b. CASE BestimmeBuchungstag(p)
      BY <2>1b DEF BestimmeBuchungstag
    <2>1c. CASE Committe(p)
      BY <2>1c DEF Committe
    <2>2a. CASE NimmTagessperre(p)
      BY <2>2a DEF NimmTagessperre
    <2>2b. CASE FuegeEin(p)
      BY <2>2b DEF FuegeEin
    <2>3a. CASE WeiseAb(p)
      BY <2>3a DEF WeiseAb, VerwirfVorgang
    <2>3b. CASE AbbruchVorgang(p)
      BY <2>3b DEF AbbruchVorgang, VerwirfVorgang
    <2> QED
      BY <1>2, <2>1a, <2>1b, <2>1c, <2>2a, <2>2b, <2>3a, <2>3b DEF VorgangAktion, VorgangSchritt, VorgangSperre
  <1>3. ASSUME NEW a \in Abschluesse, AbschlussAktion(a) PROVE SperrenSchliessenAus'
    <2> USE DEF TypeOK, vorgangVars
    <2>1. CASE BeginneAbschluss(a)
      BY <2>1 DEF BeginneAbschluss
    <2>2a. CASE AbbruchAbschluss(a)
      BY <2>2a DEF AbbruchAbschluss, VergissAnfrage
    <2>2b. CASE LehneAb(a)
      BY <2>2b DEF LehneAb, VergissAnfrage
    <2>2c. CASE Schreibe(a)
      BY <2>2c DEF Schreibe, VergissAnfrage
    <2>3. CASE NimmAbschlusssperre(a)
      BY <2>3 DEF NimmAbschlusssperre
    <2>4a. CASE NimmNummernsperre(a)
      BY <2>4a DEF NimmNummernsperre
    <2>4b. CASE LiesNummer(a)
      BY <2>4b DEF LiesNummer
    <2>5a. CASE PruefeTag(a)
      BY <2>5a DEF PruefeTag
    <2>5b. CASE PruefeSchichten(a)
      BY <2>5b DEF PruefeSchichten
    <2>5c. CASE Summiere(a)
      BY <2>5c DEF Summiere
    <2>5d. CASE TeileAuf(a)
      BY <2>5d DEF TeileAuf
    <2>6a. CASE Stuerze(a)
      BY <2>6a DEF Stuerze
    <2>6b. CASE PruefeDeckung(a)
      BY <2>6b DEF PruefeDeckung
    <2>6c. CASE Verankere(a)
      BY <2>6c DEF Verankere
    <2> QED
      BY <1>3, <2>1, <2>2a, <2>2b, <2>2c, <2>3, <2>4a, <2>4b, <2>5a, <2>5b, <2>5c, <2>5d, <2>6a, <2>6b, <2>6c DEF AbschlussAktion, AbschlussSchritt, AbschlussSperre
  <1>4. ASSUME NEW s \in Schichten, SchichtSchritt(s) PROVE SperrenSchliessenAus'
    BY <1>4, SchichtRahmen DEF vorgangVars, anfrageVars
  <1> QED
    BY <1>1, <1>2, <1>3, <1>4, Schrittarten DEF AbschlussAktion, AbschlussSperre

LEMMA KetteSchritt ==
    ASSUME TypeOK, KetteGeordnet, [Next]_vars
    PROVE  KetteGeordnet'
  <1> USE DEF TypeOK, KetteGeordnet, Gebucht
  <1>1. ASSUME NEW p \in Vorgaenge, VorgangAktion(p) PROVE KetteGeordnet'
    <2>1a. CASE Beginne(p)
      BY <2>1a DEF Beginne
    <2>1b. CASE BestimmeBuchungstag(p)
      BY <2>1b DEF BestimmeBuchungstag
    <2>1c. CASE NimmTagessperre(p)
      BY <2>1c DEF NimmTagessperre
    <2>2. CASE FuegeEin(p)
      BY <2>2 DEF FuegeEin, KettenkopfFrei
    <2>3. CASE Committe(p)
      <3>1. glied[p] = kette + 1 /\ kette' = kette + 1
        BY <2>3 DEF Committe
      <3>2. /\ vstand' = [vstand EXCEPT ![p] = "committet"]
            /\ UNCHANGED glied
            /\ \A q \in Vorgaenge : q # p => vstand[q] # "eingefuegt"
        BY <2>3 DEF Committe
      <3> QED
        BY <3>1, <3>2
    <2>4a. CASE WeiseAb(p)
      BY <2>4a DEF WeiseAb, VerwirfVorgang
    <2>4b. CASE AbbruchVorgang(p)
      BY <2>4b DEF AbbruchVorgang, VerwirfVorgang
    <2> QED
      BY <1>1, <2>1a, <2>1b, <2>1c, <2>2, <2>3, <2>4a, <2>4b DEF VorgangAktion, VorgangSchritt, VorgangSperre
  <1>2. ASSUME NEW a \in Abschluesse, Schreibe(a) PROVE KetteGeordnet'
    BY <1>2 DEF Schreibe, KettenkopfFrei
  <1>3. CASE UNCHANGED <<vstand, glied, kette>>
    BY <1>3
  <1> QED
    BY <1>1, <1>2, <1>3, Schrittarten, NurSchreibeSchreibt, SchichtRahmen DEF vorgangVars

LEMMA VorgangLageSchritt ==
    ASSUME TypeOK, SperrenSchliessenAus, AbschlussLage, VorgangLage, [Next]_vars
    PROVE  VorgangLage'
  <1> DEFINE Lage(q) ==
        /\ vstand[q] # "bereit" => jetzt[q] \in Tage
        /\ vstand[q] \notin {"bereit", "begonnen"} =>
              /\ zeit[q] \in Tage
              /\ erfasst[q] # KeinTag =>
                    \/ zeit[q] = erfasst[q] /\ nachtrag[q] = KeinTag
                    \/ zeit[q] = jetzt[q] /\ nachtrag[q] = erfasst[q] /\ Festgeschrieben(erfasst[q])
        /\ vstand[q] = "eingefuegt" => ~Festgeschrieben(zeit[q])
        /\ vstand[q] \in {"eingefuegt", "committet"} /\ erfasst[q] # KeinTag =>
              (zeit[q] = erfasst[q] <=> nachtrag[q] = KeinTag)
  <1>1. SUFFICES ASSUME NEW q \in Vorgaenge PROVE Lage(q)'
    BY DEF VorgangLage
  <1>2. Lage(q)
    BY DEF VorgangLage
  <1>3. ASSUME UNCHANGED <<vstand[q], jetzt[q], zeit[q], erfasst[q], nachtrag[q]>>,
               vstand[q] = "eingefuegt" => ~Festgeschrieben(zeit[q])'
        PROVE  Lage(q)'
    <2>1. erfasst[q] \in TagOderKeiner
      BY DEF TypeOK
    <2>2. Festgeschrieben(erfasst[q]) => Festgeschrieben(erfasst[q])'
      BY <1>3, SiegelBleibt DEF Festgeschrieben
    <2> QED
      BY <1>2, <1>3, <2>1, <2>2
  <1>4. ASSUME NEW p \in Vorgaenge, VorgangAktion(p) PROVE Lage(q)'
    <2>1. UNCHANGED abschluss
      BY <1>4, VorgangRahmen
    <2>2. CASE p # q
      <3>1. UNCHANGED <<vstand[q], jetzt[q], zeit[q], erfasst[q], nachtrag[q]>>
        <4> USE <2>2 DEF TypeOK
        <4>1. CASE Beginne(p) \/ BestimmeBuchungstag(p)
          BY <4>1 DEF Beginne, BestimmeBuchungstag
        <4>2. CASE Committe(p) \/ NimmTagessperre(p) \/ FuegeEin(p)
          BY <4>2 DEF Committe, NimmTagessperre, FuegeEin
        <4>3. CASE WeiseAb(p) \/ AbbruchVorgang(p)
          BY <4>3 DEF WeiseAb, AbbruchVorgang, VerwirfVorgang
        <4> QED
          BY <1>4, <4>1, <4>2, <4>3 DEF VorgangAktion, VorgangSchritt, VorgangSperre
      <3> QED
        BY <1>2, <1>3, <2>1, <3>1 DEF Festgeschrieben
    <2>3. CASE Beginne(q)
      BY <2>3 DEF Beginne, TypeOK
    <2>4. CASE BestimmeBuchungstag(q)
      <3>1. /\ vstand[q] = "begonnen" /\ vstand'[q] = "gebucht_auf"
            /\ zeit'[q] = Buchungstag(erfasst[q], Festgeschrieben(erfasst[q]), jetzt[q])
            /\ nachtrag'[q] = IF Festgeschrieben(erfasst[q]) THEN erfasst[q] ELSE KeinTag
            /\ UNCHANGED <<jetzt, erfasst>>
        BY <2>4 DEF BestimmeBuchungstag, TypeOK
      <3>2. erfasst[q] \in TagOderKeiner /\ jetzt[q] \in Tage
        BY <1>2, <3>1 DEF TypeOK
      <3>3. Festgeschrieben(erfasst[q]) => Festgeschrieben(erfasst[q])'
        BY <2>1, <3>1 DEF Festgeschrieben
      <3> QED
        BY <3>1, <3>2, <3>3 DEF Buchungstag, Festgeschrieben
    <2>5. CASE NimmTagessperre(q)
      <3>1. /\ vstand[q] = "gebucht_auf" /\ vstand'[q] = "gesperrt"
            /\ UNCHANGED <<jetzt, erfasst, zeit, nachtrag>>
        BY <2>5 DEF NimmTagessperre, TypeOK
      <3> QED
        BY <1>2, <2>1, <3>1 DEF Festgeschrieben
    <2>6. CASE FuegeEin(q)
      <3>1. /\ vstand[q] = "gesperrt" /\ vstand'[q] = "eingefuegt"
            /\ UNCHANGED <<jetzt, erfasst, zeit, nachtrag>>
            /\ ~Festgeschrieben(zeit[q])
        BY <2>6 DEF FuegeEin, WaechterLaesstZu, TypeOK
      <3> QED
        BY <1>2, <2>1, <3>1 DEF Festgeschrieben
    <2>7. CASE Committe(q)
      <3>1. /\ vstand[q] = "eingefuegt" /\ vstand'[q] = "committet"
            /\ UNCHANGED <<jetzt, erfasst, zeit, nachtrag>>
        BY <2>7 DEF Committe, TypeOK
      <3> QED
        BY <1>2, <2>1, <3>1 DEF Festgeschrieben
    <2>8. CASE WeiseAb(q) \/ AbbruchVorgang(q)
      BY <2>8 DEF WeiseAb, AbbruchVorgang, VerwirfVorgang, TypeOK
    <2> QED
      BY <1>4, <2>2, <2>3, <2>4, <2>5, <2>6, <2>7, <2>8 DEF VorgangAktion, VorgangSchritt, VorgangSperre
  <1>5. ASSUME NEW a \in Abschluesse, Schreibe(a) PROVE Lage(q)'
    <2>1. UNCHANGED <<vstand, jetzt, zeit, erfasst, nachtrag>> /\ astand[a] = "nummeriert"
      BY <1>5 DEF Schreibe
    <2>2. vstand[q] = "eingefuegt" => zeit[q] # atag[a]
      BY <2>1 DEF SperrenSchliessenAus, HaeltTagessperre, HaeltAbschlusssperre
    <2>3. vstand[q] = "eingefuegt" => ~Festgeschrieben(zeit[q])'
      BY <1>2, <1>5, <2>1, <2>2, SchreibeWirkt DEF Festgeschrieben
    <2> QED
      BY <1>3, <2>1, <2>3
  <1>6. CASE UNCHANGED <<vstand, jetzt, zeit, erfasst, nachtrag, abschluss>>
    BY <1>2, <1>6 DEF Festgeschrieben
  <1> QED
    BY <1>4, <1>5, <1>6, Schrittarten, NurSchreibeSchreibt, SchichtRahmen DEF vorgangVars

LEMMA SchichtLageSchritt ==
    ASSUME TypeOK, SchichtLage, [Next]_vars
    PROVE  SchichtLage'
  <1> USE DEF TypeOK, SchichtLage
  <1>1. ASSUME NEW s \in Schichten, SchichtSchritt(s) PROVE SchichtLage'
    <2>1. CASE PruefeOeffnen(s) \/ PruefeSchliessen(s) \/ AbbruchSchicht(s)
      BY <2>1 DEF PruefeOeffnen, PruefeSchliessen, AbbruchSchicht
    <2>2. CASE Oeffne(s)
      BY <2>2 DEF Oeffne
    <2>3. CASE Schliesse(s)
      BY <2>3 DEF Schliesse
    <2> QED
      BY <1>1, <2>1, <2>2, <2>3 DEF SchichtSchritt
  <1>2. CASE UNCHANGED schichtVars /\ heute' \in {heute, heute + 1}
    BY <1>2 DEF schichtVars
  <1> QED
    BY <1>1, <1>2, Schrittarten, NurSchreibeSchreibt, VorgangRahmen DEF Schreibe, schichtVars

\* While a closing holds its day, the day keeps its receipts.
LEMMA TagSteht ==
    ASSUME TypeOK, SperrenSchliessenAus, AbschlussLage, [Next]_vars,
           NEW b \in Abschluesse, astand[b] \in Geprueft
    PROVE  /\ BelegeVon(atag[b])' = BelegeVon(atag[b]) \/ atag'[b] # atag[b]
           /\ \A d \in Tage : d = atag[b] => BelegeVon(d)' = BelegeVon(d)
  <1>1. HaeltAbschlusssperre(b, atag[b]) /\ atag[b] \in Tage
    BY DEF AbschlussLage, Geprueft, HaeltAbschlusssperre
  <1>2. \A p \in Vorgaenge : ~(vstand[p] = "eingefuegt" /\ zeit[p] = atag[b])
    BY <1>1 DEF SperrenSchliessenAus, HaeltTagessperre
  <1>3. \A d \in Tage : d = atag[b] => BelegeVon(d)' = BelegeVon(d)
    BY <1>2, BelegeBleiben
  <1>4. atag'[b] = atag[b] => BelegeVon(atag[b])' = BelegeVon(atag[b])
    BY <1>1, <1>3 DEF BelegeVon
  <1> QED
    BY <1>3, <1>4

\* Nobody else seals the day a closing holds, nor takes the number it has read.
LEMMA TagBleibtOffen ==
    ASSUME TypeOK, SperrenSchliessenAus, AbschlussLage, [Next]_vars,
           NEW b \in Abschluesse, astand[b] \in Geprueft, ~Schreibe(b)
    PROVE  /\ \A d \in Tage : d = atag[b] => ~Festgeschrieben(d)'
           /\ astand[b] = "nummeriert" => HoechsteZNummer' = HoechsteZNummer
  <1>1. atag[b] \in Tage /\ ~Festgeschrieben(atag[b])
    BY DEF AbschlussLage, Geprueft
  <1>2. CASE \E a \in Abschluesse : Schreibe(a)
    <2>1. PICK a \in Abschluesse : Schreibe(a)
      BY <1>2
    <2>2. a # b /\ astand[a] = "nummeriert"
      BY <2>1 DEF Schreibe
    <2>3. atag[a] # atag[b]
      BY <2>2 DEF SperrenSchliessenAus, HaeltAbschlusssperre, Geprueft
    <2>4. astand[b] # "nummeriert"
      BY <2>2 DEF SperrenSchliessenAus, HaeltNummernsperre
    <2> QED
      BY <1>1, <2>1, <2>3, <2>4, SchreibeWirkt
  <1>3. CASE \A a \in Abschluesse : ~Schreibe(a)
    <2>1. UNCHANGED abschluss
      BY <1>3, NurSchreibeSiegelt
    <2>2. ZNummern' = ZNummern
      BY <2>1 DEF ZNummern, FestgeschriebeneTage, Festgeschrieben
    <2> QED
      BY <1>1, <2>1, <2>2 DEF Festgeschrieben, HoechsteZNummer
  <1> QED
    BY <1>2, <1>3

LEMMA AbschlussLageSchritt ==
    ASSUME TypeOK, SperrenSchliessenAus, KetteGeordnet, AbschlussLage, SchichtLage, [Next]_vars
    PROVE  AbschlussLage'
  <1> DEFINE Lage(b) ==
        /\ astand[b] # "bereit" => atag[b] \in Tage
        /\ astand[b] \in Geprueft => ~Festgeschrieben(atag[b])
        /\ astand[b] \in Summiert => summen[b] = BelegeVon(atag[b])
        /\ astand[b] \in Aufgeteilt => aufteilung[b] = BelegeVon(atag[b])
        /\ astand[b] \in Gestuerzt /\ sturz[b] # {} => Ueberspannt(atag[b])
        /\ astand[b] \in Gedeckt /\ summen[b] # {} => Ueberspannt(atag[b])
        /\ astand[b] \in Verankert => \A p \in BelegeVon(atag[b]) : glied[p] <= anker[b]
        /\ astand[b] = "nummeriert" => nummer[b] = HoechsteZNummer + 1
  <1> USE DEF Geprueft, Summiert, Aufgeteilt, Gestuerzt, Gedeckt, Verankert
  <1>1. SUFFICES ASSUME NEW b \in Abschluesse PROVE Lage(b)'
    BY DEF AbschlussLage
  <1>2. Lage(b)
    BY DEF AbschlussLage
  \* What the request has read is still true.
  <1>3. ASSUME UNCHANGED <<astand[b], atag[b], summen[b], aufteilung[b], sturz[b], anker[b], nummer[b]>>
        PROVE  Lage(b)'
    <2>1. ~Schreibe(b) \/ astand[b] = "bereit"
      BY <1>3 DEF Schreibe, VergissAnfrage, TypeOK
    <2>2. astand[b] \in Geprueft => ~Festgeschrieben(atag[b])'
      BY <1>2, <1>3, <2>1, TagBleibtOffen DEF Festgeschrieben
    <2>3. astand[b] \in Geprueft => BelegeVon(atag[b])' = BelegeVon(atag[b])
      BY <1>3, TagSteht
    <2>4. astand[b] \in Geprueft /\ Ueberspannt(atag[b]) => Ueberspannt(atag[b])'
      BY <1>2, <1>3, UeberspanntBleibt DEF Ueberspannt
    <2>5. \A p \in BelegeVon(atag[b]) : glied'[p] = glied[p]
      BY BelegBleibt DEF BelegeVon
    <2>6. astand[b] = "nummeriert" => HoechsteZNummer' = HoechsteZNummer
      BY <2>1, TagBleibtOffen DEF AStand
    <2> QED
      BY <1>2, <1>3, <2>2, <2>3, <2>4, <2>5, <2>6
  <1>4. ASSUME NEW a \in Abschluesse, AbschlussAktion(a) PROVE Lage(b)'
    <2>1. CASE a # b
      <3>1. UNCHANGED <<astand[b], atag[b], summen[b], aufteilung[b], sturz[b], anker[b], nummer[b]>>
        <4> USE <2>1 DEF TypeOK
        <4>1. CASE BeginneAbschluss(a)
          BY <4>1 DEF BeginneAbschluss
        <4>2. CASE AbbruchAbschluss(a) \/ LehneAb(a) \/ Schreibe(a)
          BY <4>2 DEF AbbruchAbschluss, LehneAb, Schreibe, VergissAnfrage
        <4>3. CASE NimmAbschlusssperre(a) \/ NimmNummernsperre(a)
          BY <4>3 DEF NimmAbschlusssperre, NimmNummernsperre
        <4>4. CASE LiesNummer(a) \/ Summiere(a) \/ TeileAuf(a)
          BY <4>4 DEF LiesNummer, Summiere, TeileAuf
        <4>5. CASE PruefeTag(a) \/ PruefeSchichten(a) \/ PruefeDeckung(a)
          BY <4>5 DEF PruefeTag, PruefeSchichten, PruefeDeckung
        <4>6. CASE Stuerze(a) \/ Verankere(a)
          BY <4>6 DEF Stuerze, Verankere
        <4> QED
          BY <1>4, <4>1, <4>2, <4>3, <4>4, <4>5, <4>6
             DEF AbschlussAktion, AbschlussSchritt, AbschlussSperre
      <3> QED
        BY <1>3, <3>1
    <2>2. CASE BeginneAbschluss(b)
      <3>1. astand'[b] = "wartet" /\ atag'[b] \in 1 .. heute
        BY <2>2 DEF BeginneAbschluss, TypeOK
      <3>2. atag'[b] \in Tage
        BY <3>1, TageAnnahme DEF TypeOK
      <3> QED
        BY <3>1, <3>2
    <2>3. CASE AbbruchAbschluss(b) \/ LehneAb(b) \/ Schreibe(b)
      <3>1. astand'[b] = "bereit"
        BY <2>3 DEF AbbruchAbschluss, LehneAb, Schreibe, VergissAnfrage, TypeOK
      <3> QED
        BY <3>1
    <2>4. CASE a = b /\ ~Schreibe(b) /\ ~BeginneAbschluss(b) /\ ~AbbruchAbschluss(b) /\ ~LehneAb(b)
      <3>1. UNCHANGED <<heute, vorgangVars, abschluss, schichtVars>>
        BY <1>4, <2>4, NurSchreibeSchreibt
      <3>2. atag' = atag
        BY <1>4, <2>4 DEF AbschlussAktion, AbschlussSchritt, AbschlussSperre, NimmAbschlusssperre,
              NimmNummernsperre, LiesNummer, Summiere, TeileAuf, PruefeTag, PruefeSchichten,
              PruefeDeckung, Stuerze, Verankere
      <3>3. /\ BelegeVon(atag[b])' = BelegeVon(atag[b])
            /\ Festgeschrieben(atag[b])' <=> Festgeschrieben(atag[b])
            /\ Ueberspannt(atag[b])' <=> Ueberspannt(atag[b])
            /\ ZNummern' = ZNummern
        BY <3>1, <3>2 DEF vorgangVars, schichtVars, BelegeVon, Gebucht, Festgeschrieben,
              Ueberspannt, GeschlosseneSchichten, ZNummern, FestgeschriebeneTage
      <3>4. HoechsteZNummer' = HoechsteZNummer
        BY <3>3 DEF HoechsteZNummer
      <3>5. glied' = glied
        BY <3>1 DEF vorgangVars
      <3> USE <1>2, <3>2, <3>3, <3>4, <3>5 DEF TypeOK
      <3>6. CASE NimmAbschlusssperre(b)
        BY <3>6 DEF NimmAbschlusssperre
      <3>7. CASE NimmNummernsperre(b)
        BY <3>7 DEF NimmNummernsperre
      <3>8. CASE LiesNummer(b)
        BY <3>8 DEF LiesNummer
      <3>9. CASE Summiere(b)
        BY <3>9 DEF Summiere
      <3>10. CASE TeileAuf(b)
        BY <3>10 DEF TeileAuf
      <3>11. CASE PruefeTag(b)
        BY <3>11 DEF PruefeTag
      <3>12. CASE PruefeSchichten(b)
        BY <3>12 DEF PruefeSchichten
      <3>13. CASE PruefeDeckung(b)
        BY <3>13 DEF PruefeDeckung, IstGedeckt
      <3>14. CASE Stuerze(b)
        <4>1. sturz'[b] # {} => Ueberspannt(atag[b])
          BY <3>14 DEF Stuerze, Ueberspannt, GeschlosseneSchichten, SchichtLage
        <4> QED
          BY <3>14, <4>1 DEF Stuerze
      <3>15. CASE Verankere(b)
        <4>1. \A p \in BelegeVon(atag[b]) : glied[p] <= kette
          BY DEF BelegeVon, KetteGeordnet
        <4> QED
          BY <3>15, <4>1 DEF Verankere
      <3> QED
        BY <1>4, <2>4, <3>6, <3>7, <3>8, <3>9, <3>10, <3>11, <3>12, <3>13, <3>14, <3>15
           DEF AbschlussAktion, AbschlussSchritt, AbschlussSperre
    <2> QED
      BY <1>4, <2>1, <2>2, <2>3, <2>4
  <1>5. CASE UNCHANGED anfrageVars
    BY <1>3, <1>5 DEF anfrageVars
  <1> QED
    BY <1>4, <1>5, Schrittarten, VorgangRahmen, SchichtRahmen DEF AbschlussAktion, AbschlussSperre

(***************************************************************************)
(* What the closings say                                                   *)
(***************************************************************************)

LEMMA ZBonSchritt ==
    ASSUME TypeOK, SperrenSchliessenAus, VorgangLage, AbschlussLage, ZBonVollstaendig, [Next]_vars
    PROVE  ZBonVollstaendig'
  <1>1. SUFFICES ASSUME NEW d \in Tage, Festgeschrieben(d)'
                 PROVE  /\ abschluss'[d].summen = BelegeVon(d)'
                        /\ abschluss'[d].aufteilung = BelegeVon(d)'
    BY DEF ZBonVollstaendig, FestgeschriebeneTage
  <1>2. CASE Festgeschrieben(d)
    <2>1. abschluss'[d] = abschluss[d]
      BY <1>2, SiegelBleibt
    <2>2. BelegeVon(d)' = BelegeVon(d)
      BY <1>2, BelegeBleiben DEF VorgangLage
    <2> QED
      BY <1>2, <2>1, <2>2 DEF ZBonVollstaendig, FestgeschriebeneTage
  <1>3. CASE ~Festgeschrieben(d)
    <2>1. PICK a \in Abschluesse : Schreibe(a)
      BY <1>1, <1>3, NurSchreibeSiegelt DEF Festgeschrieben
    <2>2. d = atag[a]
      BY <1>1, <1>3, <2>1, SchreibeWirkt
    <2>3. summen[a] = BelegeVon(d) /\ aufteilung[a] = BelegeVon(d)
      BY <2>1, <2>2 DEF AbschlussLage, Schreibe, Summiert, Aufgeteilt, Geprueft, AStand
    <2>4. BelegeVon(d)' = BelegeVon(d)
      BY <2>1 DEF Schreibe, BelegeVon, Gebucht
    <2> QED
      BY <2>1, <2>2, <2>3, <2>4, SchreibeWirkt
  <1> QED
    BY <1>2, <1>3

LEMMA AnkerSchritt ==
    ASSUME TypeOK, SperrenSchliessenAus, VorgangLage, AbschlussLage, AnkerUmfasstTag, [Next]_vars
    PROVE  AnkerUmfasstTag'
  <1>1. SUFFICES ASSUME NEW d \in Tage, Festgeschrieben(d)'
                 PROVE  \A p \in BelegeVon(d)' : glied'[p] <= abschluss'[d].anker
    BY DEF AnkerUmfasstTag, FestgeschriebeneTage
  <1>2. \A p \in BelegeVon(d) : glied'[p] = glied[p]
    BY BelegBleibt DEF BelegeVon
  <1>3. CASE Festgeschrieben(d)
    <2>1. abschluss'[d] = abschluss[d]
      BY <1>3, SiegelBleibt
    <2>2. BelegeVon(d)' = BelegeVon(d)
      BY <1>3, BelegeBleiben DEF VorgangLage
    <2> QED
      BY <1>2, <1>3, <2>1, <2>2 DEF AnkerUmfasstTag, FestgeschriebeneTage
  <1>4. CASE ~Festgeschrieben(d)
    <2>1. PICK a \in Abschluesse : Schreibe(a)
      BY <1>1, <1>4, NurSchreibeSiegelt DEF Festgeschrieben
    <2>2. d = atag[a]
      BY <1>1, <1>4, <2>1, SchreibeWirkt
    <2>3. \A p \in BelegeVon(d) : glied[p] <= anker[a]
      BY <2>1, <2>2 DEF AbschlussLage, Schreibe, Verankert, Gedeckt, Gestuerzt, Aufgeteilt,
                        Summiert, Geprueft, AStand
    <2>4. BelegeVon(d)' = BelegeVon(d)
      BY <2>1 DEF Schreibe, BelegeVon, Gebucht
    <2> QED
      BY <1>2, <2>1, <2>2, <2>3, <2>4, SchreibeWirkt
  <1> QED
    BY <1>3, <1>4

LEMMA DeckungSchritt ==
    ASSUME TypeOK, SperrenSchliessenAus, VorgangLage, AbschlussLage, UmsatzGedeckt, [Next]_vars
    PROVE  UmsatzGedeckt'
  <1>1. SUFFICES ASSUME NEW d \in Tage, Festgeschrieben(d)', BelegeVon(d)' # {}
                 PROVE  Ueberspannt(d)'
    BY DEF UmsatzGedeckt, FestgeschriebeneTage
  <1>2. SUFFICES Ueberspannt(d)
    BY UeberspanntBleibt
  <1>3. CASE Festgeschrieben(d)
    <2>1. BelegeVon(d)' = BelegeVon(d)
      BY <1>3, BelegeBleiben DEF VorgangLage
    <2> QED
      BY <1>1, <1>3, <2>1 DEF UmsatzGedeckt, FestgeschriebeneTage
  <1>4. CASE ~Festgeschrieben(d)
    <2>1. PICK a \in Abschluesse : Schreibe(a)
      BY <1>1, <1>4, NurSchreibeSiegelt DEF Festgeschrieben
    <2>2. d = atag[a]
      BY <1>1, <1>4, <2>1, SchreibeWirkt
    <2>3. BelegeVon(d)' = BelegeVon(d)
      BY <2>1 DEF Schreibe, BelegeVon, Gebucht
    <2> QED
      BY <1>1, <2>1, <2>2, <2>3 DEF AbschlussLage, Schreibe, Gedeckt, Gestuerzt, Aufgeteilt,
                                    Summiert, Geprueft, AStand
  <1> QED
    BY <1>3, <1>4

\* What sealing a day does to the sequence of numbers.
LEMMA NummerFolgt ==
    ASSUME TypeOK, AbschlussLage, ZFolgeLueckenlos, NEW a \in Abschluesse, Schreibe(a)
    PROVE  /\ nummer[a] = HoechsteZNummer + 1
           /\ ZNummern' = 1 .. nummer[a]
           /\ HoechsteZNummer' = nummer[a]
  <1>1. HoechsteZNummer \in Nat /\ ZNummern = 1 .. HoechsteZNummer
    BY HoechsteIstNat
  <1>2. nummer[a] = HoechsteZNummer + 1
    BY DEF AbschlussLage, Schreibe
  <1>3. ZNummern' = ZNummern \cup {nummer[a]}
    <2>1. FestgeschriebeneTage' = FestgeschriebeneTage \cup {atag[a]}
      <3>1. atag[a] \in Tage
        BY SchreibeWirkt
      <3>2. \A d \in Tage : Festgeschrieben(d)' <=> (Festgeschrieben(d) \/ d = atag[a])
        BY SchreibeWirkt
      <3> QED
        BY <3>1, <3>2 DEF FestgeschriebeneTage
    <2>2. abschluss'[atag[a]].zNr = nummer[a]
      BY SchreibeWirkt
    <2>3. \A d \in FestgeschriebeneTage : abschluss'[d].zNr = abschluss[d].zNr
      BY SchreibeWirkt DEF FestgeschriebeneTage
    <2> QED
      BY <2>1, <2>2, <2>3 DEF ZNummern
  <1>4. ZNummern' = 1 .. nummer[a] /\ nummer[a] \in Nat
    BY <1>1, <1>2, <1>3
  <1>5. HoechsteZNummer' = nummer[a]
    BY <1>4, MaximumVonAnfang DEF HoechsteZNummer
  <1> QED
    BY <1>2, <1>4, <1>5

LEMMA ZFolgeSchritt ==
    ASSUME TypeOK, AbschlussLage, ZFolgeLueckenlos, [Next]_vars
    PROVE  ZFolgeLueckenlos'
  <1>1. CASE \E a \in Abschluesse : Schreibe(a)
    <2>1. PICK a \in Abschluesse : Schreibe(a)
      BY <1>1
    <2>2. /\ nummer[a] \notin ZNummern
          /\ nummer[a] \in Nat /\ nummer[a] > 0
          /\ ZNummern' = 1 .. nummer[a]
      BY <2>1, NummerFolgt, HoechsteIstNat
    <2>3. nummer[a] \in ZNummern'
      BY <2>2
    <2>4. \A d, e \in FestgeschriebeneTage' : abschluss'[d].zNr = abschluss'[e].zNr => d = e
      <3>1. \A d \in FestgeschriebeneTage' \ {atag[a]} :
               d \in FestgeschriebeneTage /\ abschluss'[d].zNr = abschluss[d].zNr
        BY <2>1, SchreibeWirkt DEF FestgeschriebeneTage
      <3>2. \A d \in FestgeschriebeneTage' \ {atag[a]} : abschluss'[d].zNr # nummer[a]
        BY <2>2, <3>1 DEF ZNummern
      <3>3. abschluss'[atag[a]].zNr = nummer[a]
        BY <2>1, SchreibeWirkt
      <3> QED
        BY <3>1, <3>2, <3>3 DEF ZFolgeLueckenlos
    <2> QED
      BY <2>2, <2>3, <2>4 DEF ZFolgeLueckenlos
  <1>2. CASE \A a \in Abschluesse : ~Schreibe(a)
    <2>1. UNCHANGED abschluss
      BY <1>2, NurSchreibeSiegelt
    <2> QED
      BY <2>1 DEF ZFolgeLueckenlos, ZNummern, FestgeschriebeneTage, Festgeschrieben
  <1> QED
    BY <1>1, <1>2

(***************************************************************************)
(* The theorems                                                            *)
(***************************************************************************)

LEMMA InduktivAnfang ==
    ASSUME Init
    PROVE  Induktiv
  <1>1. TypeOK
    BY TageAnnahme DEF Init, TypeOK, VStand, AStand, SStand, Satz, LeererSatz
  <1>2. FestgeschriebeneTage = {} /\ Gebucht = {}
    BY DEF Init, FestgeschriebeneTage, Festgeschrieben, LeererSatz, Gebucht
  <1>3. ZNummern = {}
    BY <1>2 DEF ZNummern
  <1>4. ZBonVollstaendig /\ AnkerUmfasstTag /\ UmsatzGedeckt /\ ZFolgeLueckenlos
    BY <1>2, <1>3 DEF ZBonVollstaendig, AnkerUmfasstTag, UmsatzGedeckt, ZFolgeLueckenlos
  <1>5. SperrenSchliessenAus /\ KetteGeordnet /\ VorgangLage /\ SchichtLage
    BY <1>2 DEF Init, SperrenSchliessenAus, HaeltTagessperre, HaeltAbschlusssperre,
                HaeltNummernsperre, KetteGeordnet, VorgangLage, SchichtLage
  <1>6. AbschlussLage
    BY DEF Init, AbschlussLage, Verankert, Gedeckt, Gestuerzt, Aufgeteilt, Summiert, Geprueft, AStand
  <1> QED
    BY <1>1, <1>4, <1>5, <1>6 DEF Induktiv

LEMMA InduktivSchritt ==
    ASSUME Induktiv, [Next]_vars
    PROVE  Induktiv'
  BY TypSchritt, SperrenSchritt, KetteSchritt, VorgangLageSchritt, SchichtLageSchritt,
     AbschlussLageSchritt, ZBonSchritt, AnkerSchritt, DeckungSchritt, ZFolgeSchritt
     DEF Induktiv

\* The invariant of the daily closing.
THEOREM ImmerInduktiv == Spec => []Induktiv
  <1>1. Init => Induktiv
    BY InduktivAnfang
  <1>2. Induktiv /\ [Next]_vars => Induktiv'
    BY InduktivSchritt
  <1> QED
    BY <1>1, <1>2, PTL DEF Spec

\* Every variable keeps its type.
THEOREM Typkorrekt == Spec => []TypeOK
  <1>1. Induktiv => TypeOK
    BY DEF Induktiv
  <1> QED
    BY <1>1, ImmerInduktiv, PTL

\* A Z-Bon says exactly what its day says, for any number of receipts and
\* closings in flight.
THEOREM ZBonIstVollstaendig == Spec => []ZBonVollstaendig
  <1>1. Induktiv => ZBonVollstaendig
    BY DEF Induktiv
  <1> QED
    BY <1>1, ImmerInduktiv, PTL

\* The Z numbers are 1 .. n, each used once.
THEOREM ZFolgeIstLueckenlos == Spec => []ZFolgeLueckenlos
  <1>1. Induktiv => ZFolgeLueckenlos
    BY DEF Induktiv
  <1> QED
    BY <1>1, ImmerInduktiv, PTL

\* The anchor of a Z-Bon covers its receipts.
THEOREM AnkerIstHinterDemTag == Spec => []AnkerUmfasstTag
  <1>1. Induktiv => AnkerUmfasstTag
    BY DEF Induktiv
  <1> QED
    BY <1>1, ImmerInduktiv, PTL

\* A sealed day with receipts has a counted drawer.
THEOREM UmsatzIstGedeckt == Spec => []UmsatzGedeckt
  <1>1. Induktiv => UmsatzGedeckt
    BY DEF Induktiv
  <1> QED
    BY <1>1, ImmerInduktiv, PTL

\* A receipt booked on another day than it was captured says so.
THEOREM NachtragIstAusgewiesen == Spec => []NachtragAusgewiesen
  <1>1. Induktiv => NachtragAusgewiesen
    <2> SUFFICES ASSUME Induktiv, NEW p \in Gebucht, erfasst[p] # KeinTag
                 PROVE  \/ zeit[p] = erfasst[p] /\ nachtrag[p] = KeinTag
                        \/ /\ nachtrag[p] = erfasst[p]
                           /\ zeit[p] = jetzt[p]
                           /\ Festgeschrieben(erfasst[p])
                           /\ p \notin abschluss[erfasst[p]].summen
      BY DEF NachtragAusgewiesen
    <2>1. /\ p \in Vorgaenge /\ vstand[p] = "committet"
          /\ VorgangLage /\ ZBonVollstaendig
      BY DEF Induktiv, Gebucht
    <2>2. CASE zeit[p] = erfasst[p] /\ nachtrag[p] = KeinTag
      BY <2>2
    <2>3. CASE zeit[p] = jetzt[p] /\ nachtrag[p] = erfasst[p] /\ Festgeschrieben(erfasst[p])
      <3>1. zeit[p] # erfasst[p]
        BY <2>1, <2>3 DEF VorgangLage
      <3>2. abschluss[erfasst[p]].summen = BelegeVon(erfasst[p])
        BY <2>1, <2>3 DEF ZBonVollstaendig, FestgeschriebeneTage, Festgeschrieben
      <3> QED
        BY <2>3, <3>1, <3>2 DEF BelegeVon
    <2> QED
      BY <2>1, <2>2, <2>3 DEF VorgangLage
  <1> QED
    BY <1>1, ImmerInduktiv, PTL

\* No closing ever meets the unique indexes: the route's branch for a
\* collision of Z numbers is dead.
THEOREM NummerIstFrei == Spec => []NummerFrei
  <1>1. Induktiv => NummerFrei
    <2> SUFFICES ASSUME Induktiv, NEW a \in Abschluesse, astand[a] = "nummeriert"
                 PROVE  Eindeutig(atag[a], nummer[a])
      BY DEF NummerFrei
    <2>1. ~Festgeschrieben(atag[a]) /\ nummer[a] = HoechsteZNummer + 1
      BY DEF Induktiv, AbschlussLage, Geprueft, AStand
    <2>2. HoechsteZNummer \in Nat /\ ZNummern = 1 .. HoechsteZNummer
      BY HoechsteIstNat DEF Induktiv
    <2> QED
      BY <2>1, <2>2 DEF Eindeutig
  <1> QED
    BY <1>1, ImmerInduktiv, PTL

(***************************************************************************)
(* The closing keeps a cash book                                           *)
(***************************************************************************)

Buch == [d \in Tage |-> BelegeVon(d)]

ZBons == [d \in Tage |-> [belege |-> IF Festgeschrieben(d) THEN abschluss[d].summen ELSE {},
                          nr     |-> IF Festgeschrieben(d) THEN abschluss[d].zNr ELSE 0]]

LEMMA KassenbuchAnfang ==
    ASSUME Init
    PROVE  Kassenbuch!Init
  <1>1. \A d \in Tage : ~Festgeschrieben(d) /\ BelegeVon(d) = {}
    BY DEF Init, Festgeschrieben, LeererSatz, BelegeVon, Gebucht
  <1>2. ZNummern = 1 .. 0
    BY <1>1 DEF ZNummern, FestgeschriebeneTage
  <1>3. HoechsteZNummer = 0
    BY <1>2, MaximumVonAnfang DEF HoechsteZNummer
  <1> QED
    BY <1>1, <1>3 DEF Kassenbuch!Init, Kassenbuch!Keiner

\* A commit enters the receipt on a page that is open.
LEMMA CommitIstBuchung ==
    ASSUME Induktiv, NEW p \in Vorgaenge, Committe(p)
    PROVE  zeit[p] \in Tage /\ Kassenbuch!Buche(p, zeit[p])
  <1>1. /\ vstand[p] = "eingefuegt" /\ vstand' = [vstand EXCEPT ![p] = "committet"]
        /\ UNCHANGED <<zeit, abschluss>>
    BY DEF Committe
  <1>2. zeit[p] \in Tage /\ ~Festgeschrieben(zeit[p])
    BY <1>1 DEF Induktiv, VorgangLage
  <1>3. \A d \in Tage : p \notin BelegeVon(d)
    BY <1>1 DEF BelegeVon, Gebucht
  <1>4. \A d \in Tage : BelegeVon(d)' = IF d = zeit[p] THEN BelegeVon(d) \cup {p} ELSE BelegeVon(d)
    BY <1>1 DEF BelegeVon, Gebucht, Induktiv, TypeOK
  <1>5. Buch' = [Buch EXCEPT ![zeit[p]] = Buch[zeit[p]] \cup {p}]
    BY <1>2, <1>4 DEF Buch
  <1>6. ZNummern' = ZNummern /\ ZBons' = ZBons
    BY <1>1 DEF ZNummern, FestgeschriebeneTage, Festgeschrieben, ZBons
  <1>7. HoechsteZNummer' = HoechsteZNummer
    BY <1>6 DEF HoechsteZNummer
  <1> QED
    BY <1>2, <1>3, <1>5, <1>6, <1>7
       DEF Kassenbuch!Buche, Kassenbuch!Offen, Kassenbuch!Keiner, Buch, ZBons

\* Writing the row seals the page with what the page says.
LEMMA SchreibenIstVersiegeln ==
    ASSUME Induktiv, NEW a \in Abschluesse, Schreibe(a), NEW e \in Tage, e = atag[a]
    PROVE  Kassenbuch!Versiegle(e)
  <1>1. /\ TypeOK /\ AbschlussLage /\ ZFolgeLueckenlos
        /\ astand[a] = "nummeriert" /\ UNCHANGED <<vstand, zeit>>
    BY DEF Induktiv, Schreibe
  <1>2. /\ e \in Tage /\ ~Festgeschrieben(e)
        /\ abschluss'[e].summen = summen[a] /\ abschluss'[e].zNr = nummer[a]
        /\ \A d \in Tage : d # e => abschluss'[d] = abschluss[d]
        /\ \A d \in Tage : Festgeschrieben(d)' <=> (Festgeschrieben(d) \/ d = e)
    BY <1>1, SchreibeWirkt
  <1>3. summen[a] = BelegeVon(e)
    BY <1>1 DEF AbschlussLage, Summiert, Geprueft, AStand
  <1>4. Buch' = Buch
    BY <1>1 DEF Buch, BelegeVon, Gebucht
  <1>5. nummer[a] = HoechsteZNummer + 1 /\ HoechsteZNummer' = nummer[a]
    BY <1>1, NummerFolgt
  <1>6. ZBons' = [ZBons EXCEPT ![e] = [belege |-> Buch[e], nr |-> HoechsteZNummer + 1]]
    <2> SUFFICES ASSUME NEW d \in Tage
                 PROVE  ZBons'[d] = IF d = e THEN [belege |-> Buch[e], nr |-> HoechsteZNummer + 1]
                                             ELSE ZBons[d]
      BY <1>2 DEF ZBons
    <2>1. CASE d = e
      BY <1>2, <1>3, <1>5, <2>1 DEF ZBons, Buch
    <2>2. CASE d # e
      BY <1>2, <2>2 DEF ZBons
    <2> QED
      BY <2>1, <2>2
  <1> QED
    BY <1>2, <1>4, <1>5, <1>6
       DEF Kassenbuch!Versiegle, Kassenbuch!Offen, Kassenbuch!Keiner, Buch, ZBons

\* Every other step leaves the book alone.
LEMMA SonstStottern ==
    ASSUME Induktiv, [Next]_vars,
           \A p \in Vorgaenge : ~Committe(p), \A a \in Abschluesse : ~Schreibe(a)
    PROVE  UNCHANGED Kassenbuch!vars
  <1>1. UNCHANGED abschluss
    BY NurSchreibeSiegelt
  <1>2. ZNummern' = ZNummern /\ ZBons' = ZBons
    BY <1>1 DEF ZNummern, FestgeschriebeneTage, Festgeschrieben, ZBons
  <1>3. HoechsteZNummer' = HoechsteZNummer
    BY <1>2 DEF HoechsteZNummer
  <1>4. \A d \in Tage : BelegeVon(d)' = BelegeVon(d)
    <2>1. CASE \E p \in Vorgaenge : VorgangAktion(p)
      BY <2>1, BelegeWachsen DEF Induktiv
    <2>2. CASE ~\E p \in Vorgaenge : VorgangAktion(p)
      BY <2>2, Schrittarten, NurSchreibeSchreibt, SchichtRahmen DEF vorgangVars, BelegeVon, Gebucht
    <2> QED
      BY <2>1, <2>2
  <1>5. Buch' = Buch
    BY <1>4 DEF Buch
  <1> QED
    BY <1>2, <1>3, <1>5 DEF Kassenbuch!vars, Buch, ZBons

LEMMA KassenbuchSchritt ==
    ASSUME Induktiv, [Next]_vars
    PROVE  [Kassenbuch!Next]_Kassenbuch!vars
  <1>1. ASSUME NEW p \in Vorgaenge, Committe(p) PROVE Kassenbuch!Next
    <2>1. zeit[p] \in Tage /\ Kassenbuch!Buche(p, zeit[p])
      BY <1>1, CommitIstBuchung
    <2> QED
      BY <2>1 DEF Kassenbuch!Next
  <1>2. ASSUME NEW a \in Abschluesse, Schreibe(a) PROVE Kassenbuch!Next
    <2>1. PICK e \in Tage : e = atag[a]
      BY <1>2, SchreibeWirkt DEF Induktiv
    <2>2. Kassenbuch!Versiegle(e)
      BY <1>2, <2>1, SchreibenIstVersiegeln
    <2> QED
      BY <2>2 DEF Kassenbuch!Next
  <1>3. CASE /\ \A p \in Vorgaenge : ~Committe(p)
             /\ \A a \in Abschluesse : ~Schreibe(a)
    BY <1>3, SonstStottern
  <1> QED
    BY <1>1, <1>2, <1>3

\* The engine implements the cash book: with all its locks, statements and
\* failures it does nothing that one could tell from a book whose pages are
\* sealed in one step.
THEOREM VerfeinertKassenbuch == Spec => IstKassenbuch
  <1>1. Init => Kassenbuch!Init
    BY KassenbuchAnfang
  <1>2. Induktiv /\ [Next]_vars => [Kassenbuch!Next]_Kassenbuch!vars
    BY KassenbuchSchritt
  <1> QED
    BY <1>1, <1>2, ImmerInduktiv, PTL DEF Spec, IstKassenbuch, Kassenbuch!Spec

=============================================================================
