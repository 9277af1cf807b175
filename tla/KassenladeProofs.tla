--------------------------- MODULE KassenladeProofs ---------------------------
(***************************************************************************)
(* Proofs about the cash drawer, for any number of tills, shifts, receipts,*)
(* movements and counts.                                                   *)
(*                                                                         *)
(* The argument: a count that has the row of the shift is alone with it    *)
(* (SperreWirkt), so what it summed stays what the books say until it      *)
(* commits (SummeGilt), and the shift it closes carried no figures before. *)
(***************************************************************************)
EXTENDS Kassenlade, TLAPS

(***************************************************************************)
(* Types                                                                   *)
(***************************************************************************)

LEMMA BelegTyp ==
    ASSUME LadeTypeOK, NEW b \in Kassenbelege, BelegAktion(b)
    PROVE  LadeTypeOK'
  <1> USE DEF LadeTypeOK, BStand, kassenschichtVars, bewegungVars, sturzVars
  <1>1. CASE EmpfangeBeleg(b)
    BY <1>1 DEF EmpfangeBeleg
  <1>2. CASE OrdneZu(b)
    BY <1>2 DEF OrdneZu, OffeneLaden
  <1>3. CASE WeiseBelegAb(b)
    BY <1>3 DEF WeiseBelegAb
  <1>4. CASE FuegeBelegEin(b)
    BY <1>4 DEF FuegeBelegEin
  <1>5. CASE CommitteBeleg(b)
    BY <1>5 DEF CommitteBeleg
  <1>6. CASE BrichBelegAb(b)
    BY <1>6 DEF BrichBelegAb
  <1> QED
    BY <1>1, <1>2, <1>3, <1>4, <1>5, <1>6 DEF BelegAktion, BelegSchritt

LEMMA BewegungTyp ==
    ASSUME LadeTypeOK, NEW m \in Bewegungen, BewegungAktion(m)
    PROVE  LadeTypeOK'
  <1> USE DEF LadeTypeOK, MStand, kassenschichtVars, belegVars, sturzVars
  <1>1. CASE EmpfangeBewegung(m)
    BY <1>1 DEF EmpfangeBewegung
  <1>2. CASE BucheBewegung(m)
    BY <1>2 DEF BucheBewegung
  <1>3. CASE WiederholeBewegung(m)
    BY <1>3 DEF WiederholeBewegung, Vorhandene
  <1>4. CASE BrichBewegungAb(m)
    BY <1>4 DEF BrichBewegungAb
  <1> QED
    BY <1>1, <1>2, <1>3, <1>4 DEF BewegungAktion, BewegungSchritt

LEMMA SturzTyp ==
    ASSUME LadeTypeOK, NEW z \in Zaehlungen, SturzAktion(z)
    PROVE  LadeTypeOK'
  <1> USE DEF LadeTypeOK, ZStand, kassenschichtVars, belegVars, bewegungVars
  <1>1. CASE EmpfangeSturz(z)
    BY <1>1 DEF EmpfangeSturz
  <1>2. CASE SperreSchicht(z)
    BY <1>2 DEF SperreSchicht
  <1>3. CASE LehneSturzAb(z)
    BY <1>3 DEF LehneSturzAb
  <1>4. CASE Rechne(z)
    <2>1. Beine(zschicht[z]) \in SUBSET (Kassenbelege \cup Bewegungen)
      BY DEF Beine
    <2> QED
      BY <1>4, <2>1 DEF Rechne
  <1>5. CASE SchliesseLade(z)
    BY <1>5 DEF SchliesseLade
  <1>6. CASE BrichSturzAb(z)
    BY <1>6 DEF BrichSturzAb
  <1> QED
    BY <1>1, <1>2, <1>3, <1>4, <1>5, <1>6 DEF SturzAktion, SturzSchritt

LEMMA TypSchritt ==
    ASSUME LadeTypeOK, [LadeNext]_ladeVars
    PROVE  LadeTypeOK'
  <1>1. CASE UNCHANGED ladeVars
    BY <1>1 DEF LadeTypeOK, ladeVars, kassenschichtVars, belegVars, bewegungVars, sturzVars
  <1>2. ASSUME NEW s \in Kassenschichten, OeffneLade(s) PROVE LadeTypeOK'
    BY <1>2 DEF LadeTypeOK, OeffneLade, belegVars, bewegungVars, sturzVars
  <1> QED
    BY <1>1, <1>2, BelegTyp, BewegungTyp, SturzTyp DEF LadeNext

\* Every variable keeps its type.
THEOREM Typkorrekt == LadeSpec => []LadeTypeOK
  <1>1. LadeInit => LadeTypeOK
    BY DEF LadeInit, LadeTypeOK, BStand, MStand, ZStand
  <1> QED
    BY <1>1, TypSchritt, PTL DEF LadeSpec

(***************************************************************************)
(* What the actions leave alone                                            *)
(***************************************************************************)

\* Only a commit adds a receipt to a shift.
LEMMA NurCommitBucht ==
    ASSUME LadeTypeOK, NEW b \in Kassenbelege, EmpfangeBeleg(b) \/ OrdneZu(b) \/ WeiseBelegAb(b) \/ FuegeBelegEin(b) \/ BrichBelegAb(b)
    PROVE  \A s : Beine(s)' = Beine(s)
  <1> USE DEF LadeTypeOK, BStand, Beine, bewegungVars
  <1>1. CASE EmpfangeBeleg(b)
    BY <1>1 DEF EmpfangeBeleg
  <1>2. CASE OrdneZu(b)
    BY <1>2 DEF OrdneZu
  <1>3. CASE WeiseBelegAb(b)
    BY <1>3 DEF WeiseBelegAb
  <1>4. CASE FuegeBelegEin(b)
    BY <1>4 DEF FuegeBelegEin
  <1>5. CASE BrichBelegAb(b)
    BY <1>5 DEF BrichBelegAb
  <1> QED
    BY <1>1, <1>2, <1>3, <1>4, <1>5

\* A receipt never touches a shift, a movement or a count.
LEMMA BelegRahmen ==
    ASSUME NEW b \in Kassenbelege, BelegAktion(b)
    PROVE  UNCHANGED <<kassenschichtVars, bewegungVars, sturzVars>>
  BY DEF BelegAktion, BelegSchritt, EmpfangeBeleg, OrdneZu, WeiseBelegAb, FuegeBelegEin, CommitteBeleg, BrichBelegAb

LEMMA BewegungRahmen ==
    ASSUME NEW m \in Bewegungen, BewegungAktion(m)
    PROVE  UNCHANGED <<kassenschichtVars, belegVars, sturzVars>>
  BY DEF BewegungAktion, BewegungSchritt, EmpfangeBewegung, BucheBewegung, WiederholeBewegung, BrichBewegungAb

LEMMA SturzRahmen ==
    ASSUME NEW z \in Zaehlungen, SturzAktion(z)
    PROVE  UNCHANGED <<belegVars, bewegungVars>>
  BY DEF SturzAktion, SturzSchritt, EmpfangeSturz, SperreSchicht, LehneSturzAb, Rechne, SchliesseLade, BrichSturzAb

(***************************************************************************)
(* Requests in progress have their shift                                   *)
(***************************************************************************)

LEMMA BezugSchritt ==
    ASSUME LadeTypeOK, BezugDa, [LadeNext]_ladeVars
    PROVE  BezugDa'
  <1> USE DEF LadeTypeOK, BezugDa
  <1>1. CASE UNCHANGED ladeVars
    BY <1>1 DEF ladeVars, kassenschichtVars, belegVars, bewegungVars, sturzVars
  <1>2. ASSUME NEW s \in Kassenschichten, OeffneLade(s) PROVE BezugDa'
    BY <1>2 DEF OeffneLade, belegVars, bewegungVars, sturzVars
  <1>3. ASSUME NEW b \in Kassenbelege, BelegAktion(b) PROVE BezugDa'
    <2> USE BelegRahmen, <1>3 DEF bewegungVars, sturzVars
    <2>1. CASE EmpfangeBeleg(b)
      BY <2>1 DEF EmpfangeBeleg
    <2>2. CASE OrdneZu(b)
      BY <2>2 DEF OrdneZu, OffeneLaden
    <2>3. CASE WeiseBelegAb(b) \/ BrichBelegAb(b)
      BY <2>3 DEF WeiseBelegAb, BrichBelegAb
    <2>4. CASE FuegeBelegEin(b)
      BY <2>4 DEF FuegeBelegEin
    <2>5. CASE CommitteBeleg(b)
      BY <2>5 DEF CommitteBeleg
    <2> QED
      BY <1>3, <2>1, <2>2, <2>3, <2>4, <2>5 DEF BelegAktion, BelegSchritt
  <1>4. ASSUME NEW m \in Bewegungen, BewegungAktion(m) PROVE BezugDa'
    <2> USE BewegungRahmen, <1>4 DEF belegVars, sturzVars
    <2>1. CASE EmpfangeBewegung(m)
      BY <2>1 DEF EmpfangeBewegung
    <2>2. CASE BucheBewegung(m)
      BY <2>2 DEF BucheBewegung
    <2>3. CASE WiederholeBewegung(m) \/ BrichBewegungAb(m)
      BY <2>3 DEF WiederholeBewegung, BrichBewegungAb
    <2> QED
      BY <1>4, <2>1, <2>2, <2>3 DEF BewegungAktion, BewegungSchritt
  <1>5. ASSUME NEW z \in Zaehlungen, SturzAktion(z) PROVE BezugDa'
    <2> USE SturzRahmen, <1>5 DEF belegVars, bewegungVars
    <2>1. CASE EmpfangeSturz(z)
      BY <2>1 DEF EmpfangeSturz
    <2>2. CASE SperreSchicht(z) \/ LehneSturzAb(z)
      BY <2>2 DEF SperreSchicht, LehneSturzAb, BekommtSchicht
    <2>3. CASE Rechne(z) \/ SchliesseLade(z)
      BY <2>3 DEF Rechne, SchliesseLade
    <2>4. CASE BrichSturzAb(z)
      BY <2>4 DEF BrichSturzAb
    <2> QED
      BY <1>5, <2>1, <2>2, <2>3, <2>4 DEF SturzAktion, SturzSchritt
  <1> QED
    BY <1>1, <1>2, <1>3, <1>4, <1>5 DEF LadeNext

\* ... and one that was opened: a till has a shift, and a request gets one,
\* only then.
LEMMA SchichtDaSchritt ==
    ASSUME LadeTypeOK, SchichtDa, [LadeNext]_ladeVars
    PROVE  SchichtDa'
  <1> USE OhneAnnahme DEF LadeTypeOK, SchichtDa
  <1>1. CASE UNCHANGED <<schicht, geraet, bschicht, mschicht>>
    BY <1>1
  <1>2. ASSUME NEW s \in Kassenschichten, OeffneLade(s) PROVE SchichtDa'
    BY <1>2 DEF OeffneLade, belegVars, bewegungVars
  <1>3. ASSUME NEW b \in Kassenbelege, BelegAktion(b) PROVE SchichtDa'
    <2>1. UNCHANGED <<schicht, geraet, mschicht>>
      BY <1>3, BelegRahmen DEF kassenschichtVars, bewegungVars
    <2>2. CASE UNCHANGED bschicht
      BY <1>1, <2>1, <2>2
    <2>3. CASE EmpfangeBeleg(b)
      BY <2>1, <2>3 DEF EmpfangeBeleg
    <2>4. CASE OrdneZu(b)
      BY <2>1, <2>2, <2>4 DEF OrdneZu, OffeneLaden, IstOffen
    <2> QED
      BY <1>3, <2>2, <2>3, <2>4 DEF BelegAktion, BelegSchritt, WeiseBelegAb, FuegeBelegEin, CommitteBeleg, BrichBelegAb
  <1>4. ASSUME NEW m \in Bewegungen, BewegungAktion(m) PROVE SchichtDa'
    <2>1. UNCHANGED <<schicht, geraet, bschicht>>
      BY <1>4, BewegungRahmen DEF kassenschichtVars, belegVars
    <2>2. CASE UNCHANGED mschicht
      BY <1>1, <2>1, <2>2
    <2>3. CASE EmpfangeBewegung(m)
      BY <2>1, <2>3 DEF EmpfangeBewegung, IstOffen
    <2> QED
      BY <1>4, <2>2, <2>3 DEF BewegungAktion, BewegungSchritt, BucheBewegung, WiederholeBewegung, BrichBewegungAb
  <1>5. ASSUME NEW z \in Zaehlungen, SturzAktion(z) PROVE SchichtDa'
    <2>1. UNCHANGED <<geraet, bschicht, mschicht>>
      BY <1>5, SturzRahmen DEF SturzAktion, SturzSchritt, EmpfangeSturz, SperreSchicht, LehneSturzAb, Rechne,
                               SchliesseLade, BrichSturzAb, kassenschichtVars, belegVars, bewegungVars
    <2>2. \A s \in Kassenschichten : schicht[s] # "KEINE" => schicht'[s] # "KEINE"
      BY <1>5 DEF SturzAktion, SturzSchritt, EmpfangeSturz, SperreSchicht, LehneSturzAb, Rechne,
                  SchliesseLade, BrichSturzAb, kassenschichtVars
    <2> QED
      BY <2>1, <2>2
  <1> QED
    BY <1>1, <1>2, <1>3, <1>4, <1>5 DEF LadeNext, ladeVars, kassenschichtVars, belegVars, bewegungVars

(***************************************************************************)
(* The row lock                                                            *)
(***************************************************************************)

\* A step that leaves the counts and the status of the shifts alone keeps the
\* lock working if no receipt starts on a shift that is being counted.
LEMMA SperreBleibt ==
    ASSUME SperreWirkt, UNCHANGED <<zstand, zschicht, schicht>>,
           \A z \in Zaehlungen, s \in Kassenschichten :
               HaeltSchicht(z, s) /\ KeinBelegUnterwegs(s) => KeinBelegUnterwegs(s)'
    PROVE  SperreWirkt'
  BY DEF SperreWirkt, HaeltSchicht

LEMMA SperreSchritt ==
    ASSUME LadeTypeOK, BezugDa, SperreWirkt, [LadeNext]_ladeVars
    PROVE  SperreWirkt'
  <1> USE DEF LadeTypeOK
  <1>1. CASE UNCHANGED ladeVars
    BY <1>1 DEF SperreWirkt, HaeltSchicht, KeinBelegUnterwegs, ladeVars, kassenschichtVars, belegVars, bewegungVars, sturzVars
  <1>2. ASSUME NEW s \in Kassenschichten, OeffneLade(s) PROVE SperreWirkt'
    BY <1>2 DEF SperreWirkt, HaeltSchicht, KeinBelegUnterwegs, OeffneLade, belegVars, sturzVars
  <1>3. ASSUME NEW b \in Kassenbelege, BelegAktion(b) PROVE SperreWirkt'
    <2>1. UNCHANGED <<zstand, zschicht, schicht>>
      BY <1>3, BelegRahmen DEF kassenschichtVars, sturzVars
    <2>2. CASE FuegeBelegEin(b)
      <3>1. ASSUME NEW z \in Zaehlungen, NEW s \in Kassenschichten, HaeltSchicht(z, s), KeinBelegUnterwegs(s)
            PROVE  KeinBelegUnterwegs(s)'
        BY <2>2, <3>1 DEF FuegeBelegEin, KeinBelegUnterwegs, KeinSturzAuf
      <3> QED
        BY <2>1, <3>1, SperreBleibt
    <2>3. CASE EmpfangeBeleg(b) \/ OrdneZu(b) \/ WeiseBelegAb(b)
      <3>1. ASSUME NEW s \in Kassenschichten, KeinBelegUnterwegs(s) PROVE KeinBelegUnterwegs(s)'
        BY <2>3, <3>1 DEF EmpfangeBeleg, OrdneZu, WeiseBelegAb, KeinBelegUnterwegs, BStand
      <3> QED
        BY <2>1, <3>1, SperreBleibt
    <2>4. CASE CommitteBeleg(b) \/ BrichBelegAb(b)
      <3>1. ASSUME NEW s \in Kassenschichten, KeinBelegUnterwegs(s) PROVE KeinBelegUnterwegs(s)'
        BY <2>4, <3>1 DEF CommitteBeleg, BrichBelegAb, KeinBelegUnterwegs, BStand
      <3> QED
        BY <2>1, <3>1, SperreBleibt
    <2> QED
      BY <1>3, <2>2, <2>3, <2>4 DEF BelegAktion, BelegSchritt
  <1>4. ASSUME NEW m \in Bewegungen, BewegungAktion(m) PROVE SperreWirkt'
    BY <1>4, BewegungRahmen DEF SperreWirkt, HaeltSchicht, KeinBelegUnterwegs, kassenschichtVars, belegVars, sturzVars
  <1>5. ASSUME NEW z \in Zaehlungen, SturzAktion(z) PROVE SperreWirkt'
    <2> USE <1>5, SturzRahmen DEF SperreWirkt, HaeltSchicht, KeinBelegUnterwegs, belegVars
    <2>1. CASE EmpfangeSturz(z)
      BY <2>1 DEF EmpfangeSturz, kassenschichtVars
    <2>2. CASE SperreSchicht(z)
      BY <2>2 DEF SperreSchicht, BekommtSchicht, KeinSturzAuf, IstOffen, kassenschichtVars
    <2>3. CASE LehneSturzAb(z)
      BY <2>3 DEF LehneSturzAb, kassenschichtVars
    <2>4. CASE Rechne(z)
      BY <2>4 DEF Rechne, kassenschichtVars
    <2>5. CASE SchliesseLade(z)
      BY <2>5 DEF SchliesseLade
    <2>6. CASE BrichSturzAb(z)
      BY <2>6 DEF BrichSturzAb, kassenschichtVars
    <2> QED
      BY <2>1, <2>2, <2>3, <2>4, <2>5, <2>6 DEF SturzAktion, SturzSchritt
  <1> QED
    BY <1>1, <1>2, <1>3, <1>4, <1>5 DEF LadeNext

(***************************************************************************)
(* What a count has summed stays right                                     *)
(***************************************************************************)

\* Nothing is booked on a shift while a count has its row.
LEMMA GezaehlteLadeRuht ==
    ASSUME LadeTypeOK, BezugDa, SperreWirkt, [LadeNext]_ladeVars,
           NEW z \in Zaehlungen, NEW s \in Kassenschichten, HaeltSchicht(z, s)
    PROVE  Beine(s)' = Beine(s)
  <1> USE DEF LadeTypeOK
  <1>1. CASE UNCHANGED ladeVars
    BY <1>1 DEF Beine, ladeVars, belegVars, bewegungVars
  <1>2. ASSUME NEW t \in Kassenschichten, OeffneLade(t) PROVE Beine(s)' = Beine(s)
    BY <1>2 DEF Beine, OeffneLade, belegVars, bewegungVars
  <1>3. ASSUME NEW b \in Kassenbelege, BelegAktion(b) PROVE Beine(s)' = Beine(s)
    <2>1. CASE CommitteBeleg(b)
      <3>1. bschicht[b] # s
        BY <2>1 DEF CommitteBeleg, SperreWirkt, KeinBelegUnterwegs
      <3> QED
        BY <2>1, <3>1 DEF CommitteBeleg, Beine, BStand, bewegungVars
    <2> QED
      BY <1>3, <2>1, NurCommitBucht DEF BelegAktion, BelegSchritt
  <1>4. ASSUME NEW m \in Bewegungen, BewegungAktion(m) PROVE Beine(s)' = Beine(s)
    <2> USE DEF Beine, MStand, belegVars
    <2>1. CASE BucheBewegung(m)
      <3>1. mschicht[m] # s
        BY <2>1 DEF BucheBewegung, KeinSturzAuf
      <3> QED
        BY <2>1, <3>1 DEF BucheBewegung
    <2>2. CASE EmpfangeBewegung(m)
      BY <2>2 DEF EmpfangeBewegung
    <2>3. CASE WiederholeBewegung(m)
      BY <2>3 DEF WiederholeBewegung
    <2>4. CASE BrichBewegungAb(m)
      BY <2>4 DEF BrichBewegungAb
    <2> QED
      BY <1>4, <2>1, <2>2, <2>3, <2>4 DEF BewegungAktion, BewegungSchritt
  <1>5. ASSUME NEW y \in Zaehlungen, SturzAktion(y) PROVE Beine(s)' = Beine(s)
    BY <1>5, SturzRahmen DEF Beine, belegVars, bewegungVars
  <1> QED
    BY <1>1, <1>2, <1>3, <1>4, <1>5 DEF LadeNext

LEMMA SummeSchritt ==
    ASSUME LadeTypeOK, BezugDa, SperreWirkt, SummeGilt, [LadeNext]_ladeVars
    PROVE  SummeGilt'
  <1> SUFFICES ASSUME NEW z \in Zaehlungen, zstand'[z] = "gerechnet"
               PROVE  (zschicht[z] \in Kassenschichten /\ zsumme[z] = Beine(zschicht[z]))'
    BY DEF SummeGilt
  <1>1. CASE zstand[z] = "gerechnet" /\ UNCHANGED <<zschicht[z], zsumme[z]>>
    <2>1. PICK s \in Kassenschichten : s = zschicht[z]
      BY <1>1 DEF SummeGilt
    <2>2. Beine(s)' = Beine(s)
      BY <1>1, <2>1, GezaehlteLadeRuht DEF HaeltSchicht
    <2>3. zschicht'[z] = s /\ zsumme'[z] = Beine(s)'
      BY <1>1, <2>1, <2>2 DEF SummeGilt
    <2> QED
      BY <2>3 DEF Beine
  <1>2. CASE Rechne(z)
    <2>1. zschicht[z] \in Kassenschichten /\ zschicht'[z] = zschicht[z] /\ zsumme'[z] = Beine(zschicht[z])
      BY <1>2 DEF Rechne, BezugDa, LadeTypeOK
    <2>2. UNCHANGED <<bstand, bschicht, mstand, mschicht>>
      BY <1>2 DEF Rechne, belegVars, bewegungVars
    <2> QED
      BY <2>1, <2>2 DEF Beine
  <1>3. (zstand[z] = "gerechnet" /\ UNCHANGED <<zschicht[z], zsumme[z]>>) \/ Rechne(z)
    <2>1. CASE UNCHANGED <<zstand, zschicht, zsumme>>
      BY <2>1
    <2>2. ASSUME NEW y \in Zaehlungen, SturzAktion(y)
          PROVE  (zstand[z] = "gerechnet" /\ UNCHANGED <<zschicht[z], zsumme[z]>>) \/ Rechne(z)
      <3> USE DEF LadeTypeOK, ZStand
      <3>1. CASE EmpfangeSturz(y)
        BY <3>1 DEF EmpfangeSturz
      <3>2. CASE SperreSchicht(y) \/ LehneSturzAb(y) \/ BrichSturzAb(y)
        BY <3>2 DEF SperreSchicht, LehneSturzAb, BrichSturzAb
      <3>3. CASE Rechne(y)
        BY <3>3 DEF Rechne
      <3>4. CASE SchliesseLade(y)
        BY <3>4 DEF SchliesseLade
      <3> QED
        BY <2>2, <3>1, <3>2, <3>3, <3>4 DEF SturzAktion, SturzSchritt
    <2> QED
      BY <2>1, <2>2, BelegRahmen, BewegungRahmen DEF LadeNext, OeffneLade, ladeVars, sturzVars
  <1> QED
    BY <1>1, <1>2, <1>3

(***************************************************************************)
(* Counts and their answers, movements and their rows                      *)
(***************************************************************************)

LEMMA ZaehlungSchritt ==
    ASSUME LadeTypeOK, BezugDa, AntwortIstDieZaehlung, [LadeNext]_ladeVars
    PROVE  AntwortIstDieZaehlung'
  <1> USE DEF LadeTypeOK, AntwortIstDieZaehlung
  <1>1. CASE UNCHANGED <<schicht, zaehlung, zstand>>
    BY <1>1
  <1>2. ASSUME NEW s \in Kassenschichten, OeffneLade(s) PROVE AntwortIstDieZaehlung'
    BY <1>2 DEF OeffneLade, sturzVars
  <1>3. ASSUME NEW z \in Zaehlungen, SturzAktion(z) PROVE AntwortIstDieZaehlung'
    <2> USE DEF ZStand, kassenschichtVars
    <2>1. CASE EmpfangeSturz(z)
      BY <2>1 DEF EmpfangeSturz
    <2>2. CASE SperreSchicht(z)
      BY <2>2 DEF SperreSchicht, BekommtSchicht
    <2>3. CASE LehneSturzAb(z)
      BY <2>3 DEF LehneSturzAb, BekommtSchicht
    <2>4. CASE Rechne(z)
      BY <2>4 DEF Rechne
    <2>5. CASE BrichSturzAb(z)
      BY <2>5 DEF BrichSturzAb
    <2>6. CASE SchliesseLade(z)
      <3>1. PICK s \in Kassenschichten : s = zschicht[z]
        BY <2>6 DEF SchliesseLade, BezugDa
      <3>2. /\ schicht' = [schicht EXCEPT ![s] = "CLOSED"]
            /\ zaehlung' = [zaehlung EXCEPT ![s] = z]
            /\ zstand' = [zstand EXCEPT ![z] = "gezaehlt"]
            /\ zstand[z] = "gerechnet" /\ schicht[s] = "OPEN"
        BY <2>6, <3>1 DEF SchliesseLade, IstOffen
      <3>3. zaehlung[s] = Ohne /\ z # Ohne /\ \A t \in Kassenschichten : zaehlung[t] # z
        BY <3>2, OhneAnnahme
      <3>4. ASSUME NEW y \in Zaehlungen
            PROVE  zstand'[y] = "gezaehlt" <=> \E t \in Kassenschichten : zaehlung'[t] = y
        <4>1. CASE y = z
          BY <3>2, <4>1
        <4>2. CASE y # z
          <5>1. zstand'[y] = zstand[y] /\ y # Ohne
            BY <3>2, <4>2, OhneAnnahme
          <5>2. \A t \in Kassenschichten : zaehlung'[t] = y <=> zaehlung[t] = y
            BY <3>2, <3>3, <4>2, <5>1
          <5> QED
            BY <5>1, <5>2
        <4> QED
          BY <4>1, <4>2
      <3>5. \A t \in Kassenschichten : zaehlung'[t] # Ohne <=> schicht'[t] = "CLOSED"
        BY <3>2, <3>3
      <3> QED
        BY <3>4, <3>5
    <2> QED
      BY <1>3, <2>1, <2>2, <2>3, <2>4, <2>5, <2>6 DEF SturzAktion, SturzSchritt
  <1> QED
    BY <1>1, <1>2, <1>3, BelegRahmen, BewegungRahmen DEF LadeNext, ladeVars, kassenschichtVars, sturzVars

LEMMA BewegungSchrittErhaelt ==
    ASSUME LadeTypeOK, BewegungNurEinmal, [LadeNext]_ladeVars
    PROVE  BewegungNurEinmal'
  <1> USE DEF LadeTypeOK, BewegungNurEinmal
  <1>1. CASE UNCHANGED <<mstand, mzeile>>
    BY <1>1
  <1>2. ASSUME NEW m \in Bewegungen, BewegungAktion(m) PROVE BewegungNurEinmal'
    <2> USE DEF MStand
    <2>1. CASE EmpfangeBewegung(m)
      BY <2>1 DEF EmpfangeBewegung
    <2>2. CASE BrichBewegungAb(m)
      BY <2>2 DEF BrichBewegungAb
    <2>3. CASE BucheBewegung(m)
      <3>1. /\ mstand[m] = "geprueft"
            /\ mstand' = [mstand EXCEPT ![m] = "gebucht"]
            /\ mzeile' = [mzeile EXCEPT ![m] = m]
            /\ \A n \in Bewegungen :
                  ~(mstand[n] = "gebucht" /\ Referenz[m] # Ohne /\ Referenz[n] = Referenz[m])
        BY <2>3 DEF BucheBewegung, Vorhandene
      <3>2. ASSUME NEW k \in Bewegungen, NEW n \in Bewegungen, mstand'[k] = "gebucht",
                   mstand'[n] = "gebucht", Referenz[k] = Referenz[n], Referenz[k] # Ohne
            PROVE  k = n
        BY <3>1, <3>2
      <3>3. ASSUME NEW n \in Bewegungen, mstand'[n] \in {"gebucht", "wiederholt"}
            PROVE  /\ mzeile'[n] \in Bewegungen
                   /\ mstand'[mzeile'[n]] = "gebucht"
                   /\ mzeile'[n] = n \/ (Referenz[mzeile'[n]] = Referenz[n] /\ Referenz[n] # Ohne)
        BY <3>1, <3>3
      <3> QED
        BY <3>2, <3>3
    <2>4. CASE WiederholeBewegung(m)
      <3>1. PICK o \in Bewegungen :
                /\ mstand[o] = "gebucht" /\ Referenz[m] # Ohne /\ Referenz[o] = Referenz[m]
                /\ mzeile' = [mzeile EXCEPT ![m] = o]
        BY <2>4 DEF WiederholeBewegung, Vorhandene
      <3>2. mstand[m] = "geprueft" /\ mstand' = [mstand EXCEPT ![m] = "wiederholt"]
        BY <2>4 DEF WiederholeBewegung
      <3>3. \A n \in Bewegungen : mstand'[n] = "gebucht" <=> mstand[n] = "gebucht"
        BY <3>2
      <3>4. ASSUME NEW n \in Bewegungen, mstand'[n] \in {"gebucht", "wiederholt"}
            PROVE  /\ mzeile'[n] \in Bewegungen
                   /\ mstand'[mzeile'[n]] = "gebucht"
                   /\ mzeile'[n] = n \/ (Referenz[mzeile'[n]] = Referenz[n] /\ Referenz[n] # Ohne)
        BY <3>1, <3>2, <3>3, <3>4
      <3> QED
        BY <3>3, <3>4
    <2> QED
      BY <1>2, <2>1, <2>2, <2>3, <2>4 DEF BewegungAktion, BewegungSchritt
  <1> QED
    BY <1>1, <1>2, BelegRahmen, SturzRahmen DEF LadeNext, OeffneLade, ladeVars, bewegungVars

(***************************************************************************)
(* Theorems                                                                *)
(***************************************************************************)

LEMMA InduktivAnfang == LadeInit => LadeInduktiv
  <1> SUFFICES ASSUME LadeInit PROVE LadeInduktiv
    OBVIOUS
  <1>1. LadeTypeOK
    BY DEF LadeInit, LadeTypeOK, BStand, MStand, ZStand
  <1>2. SperreWirkt /\ SummeGilt /\ BezugDa
    BY DEF LadeInit, SperreWirkt, HaeltSchicht, SummeGilt, BezugDa
  <1>3. AntwortIstDieZaehlung /\ BewegungNurEinmal
    BY OhneAnnahme DEF LadeInit, AntwortIstDieZaehlung, BewegungNurEinmal
  <1>4. SchichtDa
    BY DEF LadeInit, SchichtDa
  <1> QED
    BY <1>1, <1>2, <1>3, <1>4 DEF LadeInduktiv

LEMMA InduktivSchritt == LadeInduktiv /\ [LadeNext]_ladeVars => LadeInduktiv'
  BY TypSchritt, SperreSchritt, SummeSchritt, BezugSchritt, SchichtDaSchritt, ZaehlungSchritt, BewegungSchrittErhaelt
     DEF LadeInduktiv

\* The inductive invariant of the drawer.
THEOREM ImmerInduktiv == LadeSpec => []LadeInduktiv
  BY InduktivAnfang, InduktivSchritt, PTL DEF LadeSpec

\* Of several counts of one shift exactly the stored one was answered with 200.
THEOREM EineZaehlungGilt == LadeSpec => []AntwortIstDieZaehlung
  <1>1. LadeInduktiv => AntwortIstDieZaehlung
    BY DEF LadeInduktiv
  <1> QED
    BY <1>1, ImmerInduktiv, PTL

\* A movement is in the books once and every repetition is answered with it.
THEOREM EineBewegungEineZeile == LadeSpec => []BewegungNurEinmal
  <1>1. LadeInduktiv => BewegungNurEinmal
    BY DEF LadeInduktiv
  <1> QED
    BY <1>1, ImmerInduktiv, PTL

LEMMA SollSchritt ==
    ASSUME LadeInduktiv, [LadeNext]_ladeVars, NEW s \in Kassenschichten, schicht[s] = "OPEN", schicht'[s] = "CLOSED"
    PROVE  soll'[s] = Beine(s)' /\ KeinBelegUnterwegs(s)'
  <1> USE DEF LadeInduktiv, LadeTypeOK
  <1>1. PICK z \in Zaehlungen : SchliesseLade(z) /\ zschicht[z] = s
    <2>1. CASE UNCHANGED schicht
      BY <2>1
    <2>2. ASSUME NEW t \in Kassenschichten, OeffneLade(t) PROVE FALSE
      BY <2>2 DEF OeffneLade
    <2>3. ASSUME NEW z \in Zaehlungen, SturzAktion(z) PROVE SchliesseLade(z) /\ zschicht[z] = s
      <3>1. CASE SchliesseLade(z)
        BY <3>1 DEF SchliesseLade, BezugDa
      <3>2. CASE ~SchliesseLade(z)
        BY <2>1, <2>3, <3>2 DEF SturzAktion, SturzSchritt, EmpfangeSturz, SperreSchicht, LehneSturzAb,
                               Rechne, BrichSturzAb, kassenschichtVars
      <3> QED
        BY <3>1, <3>2
    <2> QED
      BY <2>1, <2>2, <2>3, BelegRahmen, BewegungRahmen DEF LadeNext, ladeVars, kassenschichtVars
  <1>2. soll'[s] = zsumme[z] /\ zstand[z] = "gerechnet" /\ UNCHANGED <<belegVars, bewegungVars>>
    BY <1>1 DEF SchliesseLade
  <1>3. zsumme[z] = Beine(s)
    BY <1>1, <1>2 DEF SummeGilt
  <1>4. KeinBelegUnterwegs(s)
    BY <1>1, <1>2 DEF SperreWirkt, HaeltSchicht
  <1> QED
    BY <1>2, <1>3, <1>4 DEF Beine, KeinBelegUnterwegs, belegVars, bewegungVars

\* The balance a shift is closed with is what the books say at that moment.
THEOREM SollStimmt == LadeSpec => SollIstDieLade
  <1>1. LadeInduktiv /\ [LadeNext]_ladeVars =>
          [\A s \in Kassenschichten : (schicht[s] = "OPEN" /\ schicht'[s] = "CLOSED") =>
              soll'[s] = Beine(s)' /\ KeinBelegUnterwegs(s)']_ladeVars
    BY SollSchritt
  <1> QED
    BY <1>1, ImmerInduktiv, PTL DEF LadeSpec, SollIstDieLade

(***************************************************************************)
(* The book of shifts                                                      *)
(***************************************************************************)

\* What a shift holds is a matter of what is booked, and on which shift.
LEMMA SchichtbuchRuht ==
    ASSUME UNCHANGED <<schicht, geraet, soll>>, \A s \in Kassenschichten : Beine(s)' = Beine(s)
    PROVE  [Schichtbuch!Next]_Schichtbuch!vars
  BY DEF Eingetragen, Schichtbuch!vars

\* One booking more, on a shift there is, of something not yet booked.
LEMMA SchichtbuchBucht ==
    ASSUME UNCHANGED <<schicht, geraet, soll>>,
           NEW t \in Kassenschichten, NEW p \in Kassenbelege \cup Bewegungen, schicht[t] # "KEINE",
           \A s \in Kassenschichten : \A q \in Beine(s) : Vorgang[q] # Vorgang[p],
           \A s \in Kassenschichten : Beine(s)' = IF s = t THEN Beine(s) \cup {p} ELSE Beine(s)
    PROVE  [Schichtbuch!Next]_Schichtbuch!vars
  <1>1. Eingetragen' = [Eingetragen EXCEPT ![t] = Eingetragen[t] \cup {p}]
    BY DEF Eingetragen
  <1>2. \A s \in Kassenschichten : \A q \in Eingetragen[s] : Vorgang[q] # Vorgang[p]
    BY DEF Eingetragen
  <1>3. Schichtbuch!Buche(t, p)
    BY <1>1, <1>2 DEF Schichtbuch!Buche
  <1> QED
    BY <1>3 DEF Schichtbuch!Next

LEMMA BelegImSchichtbuch ==
    ASSUME LadeInduktiv, NEW b \in Kassenbelege, BelegAktion(b)
    PROVE  [Schichtbuch!Next]_Schichtbuch!vars
  <1>1. UNCHANGED <<schicht, geraet, soll, mstand, mschicht>>
    BY BelegRahmen DEF kassenschichtVars, bewegungVars
  <1>2. CASE CommitteBeleg(b)
    <2>1. PICK t \in Kassenschichten : t = bschicht[b] /\ schicht[t] # "KEINE"
      BY <1>2, OhneAnnahme DEF CommitteBeleg, LadeInduktiv, BezugDa, SchichtDa
    <2>2. bstand[b] # "gebucht" /\ b \notin Bewegungen
      BY <1>2, BelegeAnnahme DEF CommitteBeleg
    <2>3. \A s \in Kassenschichten : Beine(s)' = IF s = t THEN Beine(s) \cup {b} ELSE Beine(s)
      BY <1>1, <1>2, <2>1, <2>2 DEF CommitteBeleg, Beine, LadeInduktiv, LadeTypeOK
    <2>4. ASSUME NEW s \in Kassenschichten, NEW q \in Beine(s)
          PROVE  Vorgang[q] # Vorgang[b]
      BY <2>2 DEF Beine, Vorgang
    <2> QED
      BY <1>1, <2>1, <2>3, <2>4, SchichtbuchBucht
  <1>3. CASE ~CommitteBeleg(b)
    BY <1>1, <1>3, NurCommitBucht, SchichtbuchRuht DEF BelegAktion, BelegSchritt, LadeInduktiv
  <1> QED
    BY <1>2, <1>3

LEMMA BewegungImSchichtbuch ==
    ASSUME LadeInduktiv, NEW m \in Bewegungen, BewegungAktion(m)
    PROVE  [Schichtbuch!Next]_Schichtbuch!vars
  <1> USE DEF LadeInduktiv, LadeTypeOK, MStand
  <1>1. UNCHANGED <<schicht, geraet, soll, bstand, bschicht>>
    BY BewegungRahmen DEF kassenschichtVars, belegVars
  <1>2. CASE BucheBewegung(m)
    <2>1. PICK t \in Kassenschichten : t = mschicht[m] /\ schicht[t] # "KEINE"
      BY <1>2, OhneAnnahme DEF BucheBewegung, BezugDa, SchichtDa
    <2>2. mstand[m] # "gebucht" /\ m \notin Kassenbelege
      BY <1>2, BelegeAnnahme DEF BucheBewegung
    <2>3. \A s \in Kassenschichten : Beine(s)' = IF s = t THEN Beine(s) \cup {m} ELSE Beine(s)
      BY <1>1, <1>2, <2>1, <2>2 DEF BucheBewegung, Beine
    <2>4. ASSUME NEW s \in Kassenschichten, NEW q \in Beine(s)
          PROVE  Vorgang[q] # Vorgang[m]
      <3>1. CASE q \in Bewegungen
        BY <1>2, <2>2, <3>1, BelegeAnnahme DEF Beine, Vorgang, BucheBewegung, Vorhandene
      <3>2. CASE q \in Kassenbelege
        BY <2>2, <3>2, BelegeAnnahme DEF Vorgang
      <3> QED
        BY <3>1, <3>2 DEF Beine
    <2> QED
      BY <1>1, <2>1, <2>3, <2>4, SchichtbuchBucht
  <1>3. CASE EmpfangeBewegung(m) \/ WiederholeBewegung(m) \/ BrichBewegungAb(m)
    <2>1. mstand[m] # "gebucht" /\ mstand'[m] # "gebucht"
          /\ \A n \in Bewegungen \ {m} : mstand'[n] = mstand[n] /\ mschicht'[n] = mschicht[n]
      BY <1>3 DEF EmpfangeBewegung, WiederholeBewegung, BrichBewegungAb
    <2>2. \A s \in Kassenschichten : Beine(s)' = Beine(s)
      BY <1>1, <2>1 DEF Beine
    <2> QED
      BY <1>1, <2>2, SchichtbuchRuht
  <1> QED
    BY <1>2, <1>3 DEF BewegungAktion, BewegungSchritt

LEMMA SturzImSchichtbuch ==
    ASSUME LadeInduktiv, NEW z \in Zaehlungen, SturzAktion(z)
    PROVE  [Schichtbuch!Next]_Schichtbuch!vars
  <1> USE DEF LadeInduktiv, LadeTypeOK
  <1>1. \A s \in Kassenschichten : Beine(s)' = Beine(s)
    BY SturzRahmen DEF Beine, belegVars, bewegungVars
  <1>2. CASE SchliesseLade(z)
    <2>1. PICK s \in Kassenschichten : s = zschicht[z]
      BY <1>2 DEF SchliesseLade, BezugDa
    <2>2. zsumme[z] = Eingetragen[s]
      BY <1>2, <2>1 DEF SchliesseLade, SummeGilt, Eingetragen
    <2>3. Eingetragen' = Eingetragen
      BY <1>1 DEF Eingetragen
    <2>4. Schichtbuch!Schliesse(s)
      BY <1>2, <2>1, <2>2, <2>3 DEF SchliesseLade, IstOffen, Schichtbuch!Schliesse
    <2> QED
      BY <2>4 DEF Schichtbuch!Next
  <1>3. CASE ~SchliesseLade(z)
    <2>1. UNCHANGED kassenschichtVars
      BY <1>3 DEF SturzAktion, SturzSchritt, EmpfangeSturz, SperreSchicht, LehneSturzAb, Rechne, BrichSturzAb
    <2> QED
      BY <1>1, <2>1, SchichtbuchRuht DEF kassenschichtVars
  <1> QED
    BY <1>2, <1>3

LEMMA OeffnenImSchichtbuch ==
    ASSUME NEW s \in Kassenschichten, OeffneLade(s)
    PROVE  [Schichtbuch!Next]_Schichtbuch!vars
  <1>1. Eingetragen' = Eingetragen
    BY DEF OeffneLade, belegVars, bewegungVars, Eingetragen, Beine
  <1>2. \E g \in Geraete : Schichtbuch!Oeffne(s, g)
    BY <1>1 DEF OeffneLade, IstOffen, Schichtbuch!Oeffne
  <1> QED
    BY <1>2 DEF Schichtbuch!Next

LEMMA SchichtbuchSchritt ==
    ASSUME LadeInduktiv, [LadeNext]_ladeVars
    PROVE  [Schichtbuch!Next]_Schichtbuch!vars
  <1>1. CASE UNCHANGED ladeVars
    BY <1>1, SchichtbuchRuht DEF ladeVars, kassenschichtVars, belegVars, bewegungVars, Beine
  <1> QED
    BY <1>1, OeffnenImSchichtbuch, BelegImSchichtbuch, BewegungImSchichtbuch, SturzImSchichtbuch DEF LadeNext

\* Whatever runs at once, waits or is repeated: the drawer is a book in which
\* every posting stands once, on a shift there is, and a close copies it.
THEOREM VerfeinertSchichtbuch == LadeSpec => IstSchichtbuch
  <1>1. LadeInit => Schichtbuch!Init
    BY DEF LadeInit, Eingetragen, Beine, Schichtbuch!Init
  <1>2. LadeInduktiv /\ [LadeNext]_ladeVars => [Schichtbuch!Next]_Schichtbuch!vars
    BY SchichtbuchSchritt
  <1> QED
    BY <1>1, <1>2, ImmerInduktiv, PTL DEF LadeSpec, IstSchichtbuch, Schichtbuch!Spec

=============================================================================
