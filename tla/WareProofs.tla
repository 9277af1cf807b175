----------------------------- MODULE WareProofs -----------------------------
(***************************************************************************)
(* Theorems about Ware, for any number of pieces, sessions and requests.   *)
(***************************************************************************)
EXTENDS Ware, TLAPS

(***************************************************************************)
(* Types                                                                   *)
(***************************************************************************)

LEMMA AnfangTyp == WareInit => WareTypeOK
  BY AltAnnahme DEF WareInit, WareTypeOK, Zustaende, Stand, StornoStand, RStand, PStand, Anfragen

\* A step on one row keeps the types.
LEMMA ZeilenTyp ==
    ASSUME WareTypeOK,
           \/ \E h \in Halter, s \in Stuecke : Reserviere(h, s) \/ GibFrei(h, s)
           \/ \E s \in Stuecke : RaeumeLiegengebliebenes(s)
    PROVE  WareTypeOK'
  <1> USE DEF WareTypeOK, belegVars, stornoVars, rueckVars, pflegeVars
  <1>1. CASE \E h \in Halter, s \in Stuecke : Reserviere(h, s)
    BY <1>1 DEF Reserviere, Zustaende
  <1>2. ASSUME NEW s \in Stuecke, Freistellen(s) PROVE WareTypeOK'
    BY <1>2 DEF Freistellen, Zustaende
  <1>3. CASE \E h \in Halter, s \in Stuecke : GibFrei(h, s)
    BY <1>2, <1>3 DEF GibFrei
  <1>4. CASE \E s \in Stuecke : RaeumeLiegengebliebenes(s)
    BY <1>2, <1>4 DEF RaeumeLiegengebliebenes
  <1> QED
    BY <1>1, <1>3, <1>4

\* A step of a sale or a purchase keeps the types.
LEMMA AnfrageTyp ==
    ASSUME WareTypeOK, NEW a \in Anfragen,
           \/ EmpfangeVerkauf(a) \/ EmpfangeAnkauf(a) \/ SperreWare(a) \/ LegeWareAn(a)
           \/ BucheVerkauf(a) \/ BucheAnkauf(a) \/ BeantworteMitSieger(a) \/ BrichAb(a)
    PROVE  WareTypeOK'
  <1> USE DEF WareTypeOK, stornoVars, rueckVars, pflegeVars
  <1>1. ASSUME NEW S \in SUBSET Stuecke, NEW h \in Halter \cup {Niemand}, Empfange(a, S, h)
        PROVE  WareTypeOK'
    <2>1. stand' \in [Anfragen -> Stand] /\ antwort' \in [Anfragen -> Anfragen \cup {KeineAnfrage}]
      BY <1>1 DEF Empfange, BelegZumSchluessel, Gebuchte, Stand
    <2> QED
      BY <1>1, <2>1 DEF Empfange, zeilenVars
  <1>2. CASE EmpfangeVerkauf(a) \/ EmpfangeAnkauf(a)
    BY <1>1, <1>2 DEF EmpfangeVerkauf, EmpfangeAnkauf
  <1>3. CASE SperreWare(a) \/ LegeWareAn(a) \/ BrichAb(a)
    BY <1>3 DEF SperreWare, LegeWareAn, BrichAb, zeilenVars, Stand
  <1>4. CASE BucheVerkauf(a)
    BY <1>4 DEF BucheVerkauf, Belege, Stand, Zustaende
  <1>5. CASE BucheAnkauf(a)
    BY <1>5 DEF BucheAnkauf, Belege, Stand, Zustaende
  <1>6. CASE BeantworteMitSieger(a)
    BY <1>6 DEF BeantworteMitSieger, BelegZumSchluessel, Gebuchte, zeilenVars, Stand
  <1> QED
    BY <1>2, <1>3, <1>4, <1>5, <1>6

\* A step of a reversal or a return keeps the types.
LEMMA RuecknahmeTyp ==
    ASSUME WareTypeOK,
           \/ \E q \in Stornos, o \in Anfragen : LiesFuerStorno(q, o)
           \/ \E q \in Stornos : BucheStorno(q)
           \/ \E r \in Rueckgaben, o \in Verkaeufe, S \in (SUBSET Stuecke) \ {{}} : LiesFuerRueckgabe(r, o, S)
           \/ \E r \in Rueckgaben : PruefePositionen(r) \/ BucheRueckgabe(r) \/ RueckgabeVerletztRegel(r)
    PROVE  WareTypeOK'
  <1> USE DEF WareTypeOK, belegVars, pflegeVars
  <1>1. CASE \E q \in Stornos, o \in Anfragen : LiesFuerStorno(q, o)
    BY <1>1 DEF LiesFuerStorno, StornoStand, zeilenVars, rueckVars
  <1>2. CASE \E q \in Stornos : BucheStorno(q)
    BY <1>2 DEF BucheStorno, StornoStand, zeilenVars, rueckVars
  <1>3. CASE \E r \in Rueckgaben, o \in Verkaeufe, S \in (SUBSET Stuecke) \ {{}} : LiesFuerRueckgabe(r, o, S)
    BY <1>3 DEF LiesFuerRueckgabe, RStand, zeilenVars, stornoVars
  <1>4. CASE \E r \in Rueckgaben : PruefePositionen(r) \/ RueckgabeVerletztRegel(r)
    BY <1>4 DEF PruefePositionen, RueckgabeVerletztRegel, RStand, zeilenVars, stornoVars
  <1>5. CASE \E r \in Rueckgaben : BucheRueckgabe(r)
    BY <1>5 DEF BucheRueckgabe, RStand, Zustaende, stornoVars
  <1> QED
    BY <1>1, <1>2, <1>3, <1>4, <1>5

\* A step of a catalogue request keeps the types.
LEMMA PflegeTyp ==
    ASSUME WareTypeOK, NEW p \in Pflegen,
           \/ \E s \in Stuecke : LiesEntwurf(p, s) \/ LiesVerkauftes(p, s) \/ LiesFreies(p, s)
           \/ Veroeffentliche(p) \/ Archiviere(p) \/ Loesche(p) \/ PflegeAbgewiesen(p)
    PROVE  WareTypeOK'
  <1> USE DEF WareTypeOK, belegVars, stornoVars, rueckVars
  <1>1. CASE \E s \in Stuecke : LiesEntwurf(p, s) \/ LiesVerkauftes(p, s) \/ LiesFreies(p, s)
    BY <1>1 DEF LiesEntwurf, LiesVerkauftes, LiesFreies, Lies, PStand, zeilenVars
  <1>2. CASE Veroeffentliche(p) \/ Archiviere(p)
    BY <1>2 DEF Veroeffentliche, Archiviere, Beende, PStand, Zustaende
  <1>3. CASE Loesche(p)
    BY <1>3 DEF Loesche, Beende, PStand, Zustaende
  <1>4. CASE PflegeAbgewiesen(p)
    BY <1>4 DEF PflegeAbgewiesen, Beende, PStand, zeilenVars
  <1> QED
    BY <1>1, <1>2, <1>3, <1>4

(***************************************************************************)
(* Steps that book nothing                                                 *)
(***************************************************************************)

\* What the receipts say depends on requests, reversals and returns only.
LEMMA BelegeGleich ==
    ASSUME UNCHANGED <<belegVars, rueckVars>>
    PROVE  /\ Gebuchte' = Gebuchte
           /\ \A a, s : Verkauft(a, s)' <=> Verkauft(a, s)
           /\ \A s : AufBeleg(s)' <=> AufBeleg(s)
           /\ \A k : BelegZumSchluessel(k)' = BelegZumSchluessel(k)
  BY DEF belegVars, rueckVars, Gebuchte, Verkauft, Zurueckgenommen, AufBeleg, BelegZumSchluessel

\* A step on rows alone keeps the invariant if it spares locked rows, neither
\* makes nor unmakes a SOLD row, keeps the envelope of SOLD rows and deletes
\* nothing that is on a receipt.
LEMMA ZeilenSchritt ==
    ASSUME WareInduktiv, WareTypeOK', UNCHANGED <<belegVars, stornoVars, rueckVars>>,
           ZeilenGueltig', EntwurfBleibtErkennbar',
           \A s \in Stuecke : ~ZeileFrei(s) => zustand'[s] = zustand[s],
           \A s \in Stuecke : zustand'[s] = "SOLD" <=> zustand[s] = "SOLD",
           \A s \in Stuecke : zustand[s] = "SOLD" /\ umschlag[s] => umschlag'[s],
           \A s \in Stuecke : AufBeleg(s) => zustand'[s] # "KEINS"
    PROVE  WareInduktiv'
  <1>1. /\ Gebuchte' = Gebuchte
        /\ \A a, s : Verkauft(a, s)' <=> Verkauft(a, s)
        /\ \A s : AufBeleg(s)' <=> AufBeleg(s)
        /\ \A k : BelegZumSchluessel(k)' = BelegZumSchluessel(k)
    BY BelegeGleich
  <1>2. SperrenGetrennt'
    <2>1. \A a \in Anfragen, s \in Stuecke :
              stand[a] = "gesperrt" /\ s \in korb[a] => zustand'[s] = zustand[s]
      BY DEF ZeileFrei
    <2>2. \A a \in Anfragen : korb[a] \subseteq Stuecke
      BY DEF WareInduktiv, WareTypeOK
    <2> QED
      BY <2>1, <2>2 DEF WareInduktiv, SperrenGetrennt, belegVars, Anfragen
  <1>3. NeuverkaufBleibt'
    <2>1. \A a \in Anfragen : korb[a] \subseteq Stuecke
      BY DEF WareInduktiv, WareTypeOK
    <2> QED
      BY <1>1, <2>1 DEF WareInduktiv, NeuverkaufBleibt, Neuverkaeufe, belegVars, Gebuchte
  <1>4. AltverkaufAllein'
    BY <1>1 DEF WareInduktiv, AltverkaufAllein, Neuverkaeufe, belegVars
  <1>5. BezugGebucht'
    BY <1>1 DEF WareInduktiv, BezugGebucht, belegVars, stornoVars, rueckVars
  <1>6. KeinDoppelverkauf' /\ BestandPasstZuBelegen' /\ BelegStueckBleibt'
    BY <1>1 DEF WareInduktiv, KeinDoppelverkauf, BestandPasstZuBelegen, BelegStueckBleibt
  <1>7. AntwortIstDerBeleg' /\ StornoEinmal'
    BY <1>1 DEF WareInduktiv, AntwortIstDerBeleg, StornoEinmal, belegVars, stornoVars
  <1> QED
    BY <1>2, <1>3, <1>4, <1>5, <1>6, <1>7 DEF WareInduktiv

\* A step of a request that books nothing keeps the invariant if the locks
\* stay apart and its answer, if any, is the receipt of its key.
LEMMA AnfrageSchritt ==
    ASSUME WareInduktiv, WareTypeOK', UNCHANGED <<zeilenVars, stornoVars, rueckVars, pflegeVars>>,
           Gebuchte' = Gebuchte,
           \A a \in Gebuchte : korb'[a] = korb[a] /\ antwort'[a] = antwort[a],
           SperrenGetrennt',
           \A a \in Anfragen : stand'[a] = "wiederholt" =>
               antwort'[a] \in BelegZumSchluessel(SchluesselVon[a])
    PROVE  WareInduktiv'
  <1>1. \A a, s : Verkauft(a, s)' <=> Verkauft(a, s)
    BY DEF Verkauft, Zurueckgenommen, rueckVars
  <1>2. \A k : BelegZumSchluessel(k)' = BelegZumSchluessel(k)
    BY DEF BelegZumSchluessel
  <1>3. \A s : AufBeleg(s)' <=> AufBeleg(s)
    BY DEF AufBeleg
  <1>4. ZeilenGueltig' /\ NeuverkaufBleibt'
    BY DEF WareInduktiv, ZeilenGueltig, NeuverkaufBleibt, Neuverkaeufe, zeilenVars
  <1>5. AltverkaufAllein'
    BY <1>1 DEF WareInduktiv, AltverkaufAllein, Neuverkaeufe
  <1>6. BezugGebucht'
    BY DEF WareInduktiv, BezugGebucht, stornoVars, rueckVars
  <1>7. KeinDoppelverkauf' /\ BestandPasstZuBelegen' /\ BelegStueckBleibt'
    BY <1>1, <1>3
       DEF WareInduktiv, KeinDoppelverkauf, BestandPasstZuBelegen, BelegStueckBleibt, zeilenVars
  <1>8. AntwortIstDerBeleg'
    <2>1. \A a \in Anfragen : stand'[a] = "gebucht" =>
              antwort'[a] \in BelegZumSchluessel(SchluesselVon[a])
      BY DEF WareInduktiv, AntwortIstDerBeleg, Gebuchte
    <2> QED
      BY <1>2, <2>1 DEF WareInduktiv, AntwortIstDerBeleg
  <1>9. StornoEinmal' /\ EntwurfBleibtErkennbar'
    BY DEF WareInduktiv, StornoEinmal, EntwurfBleibtErkennbar, stornoVars, zeilenVars, pflegeVars
  <1> QED
    BY <1>4, <1>5, <1>6, <1>7, <1>8, <1>9 DEF WareInduktiv

LEMMA ReserviereErhaelt ==
    ASSUME WareInduktiv, NEW h \in Halter, NEW s \in Stuecke, Reserviere(h, s)
    PROVE  WareInduktiv'
  <1>1. WareTypeOK'
    BY ZeilenTyp DEF WareInduktiv
  <1>2. ZeilenGueltig' /\ EntwurfBleibtErkennbar'
    BY DEF WareInduktiv, WareTypeOK, ZeilenGueltig, EntwurfBleibtErkennbar, Reserviere, pflegeVars
  <1>3. /\ \A t \in Stuecke : ~ZeileFrei(t) => zustand'[t] = zustand[t]
        /\ \A t \in Stuecke : zustand'[t] = "SOLD" <=> zustand[t] = "SOLD"
        /\ \A t \in Stuecke : zustand[t] = "SOLD" /\ umschlag[t] => umschlag'[t]
        /\ \A t \in Stuecke : AufBeleg(t) => zustand'[t] # "KEINS"
    BY DEF WareInduktiv, WareTypeOK, BelegStueckBleibt, Reserviere
  <1> QED
    BY <1>1, <1>2, <1>3, ZeilenSchritt DEF Reserviere

\* release() and the sweep meet reserved rows only.
LEMMA FreistellenErhaelt ==
    ASSUME WareInduktiv, WareTypeOK', NEW s \in Stuecke,
           zustand[s] = "RESERVED", ZeileFrei(s), Freistellen(s)
    PROVE  WareInduktiv'
  <1>1. ZeilenGueltig' /\ EntwurfBleibtErkennbar'
    BY DEF WareInduktiv, WareTypeOK, ZeilenGueltig, EntwurfBleibtErkennbar, Freistellen, pflegeVars
  <1>2. /\ \A t \in Stuecke : ~ZeileFrei(t) => zustand'[t] = zustand[t]
        /\ \A t \in Stuecke : zustand'[t] = "SOLD" <=> zustand[t] = "SOLD"
        /\ \A t \in Stuecke : zustand[t] = "SOLD" /\ umschlag[t] => umschlag'[t]
        /\ \A t \in Stuecke : AufBeleg(t) => zustand'[t] # "KEINS"
    BY DEF WareInduktiv, WareTypeOK, BelegStueckBleibt, Freistellen
  <1> QED
    BY <1>1, <1>2, ZeilenSchritt DEF Freistellen

LEMMA FreigabeErhaelt ==
    ASSUME WareInduktiv,
           \/ \E h \in Halter, s \in Stuecke : GibFrei(h, s)
           \/ \E s \in Stuecke : RaeumeLiegengebliebenes(s)
    PROVE  WareInduktiv'
  <1>1. WareTypeOK'
    BY ZeilenTyp DEF WareInduktiv
  <1> QED
    BY <1>1, FreistellenErhaelt DEF GibFrei, RaeumeLiegengebliebenes

\* Reading for the catalogue changes nothing the invariant speaks of.
LEMMA LiesErhaelt ==
    ASSUME WareInduktiv, NEW p \in Pflegen, NEW s \in Stuecke,
           LiesEntwurf(p, s) \/ LiesVerkauftes(p, s) \/ LiesFreies(p, s)
    PROVE  WareInduktiv'
  <1>1. WareTypeOK'
    BY PflegeTyp DEF WareInduktiv
  <1>2. UNCHANGED <<zeilenVars, belegVars, stornoVars, rueckVars>>
    BY DEF LiesEntwurf, LiesVerkauftes, LiesFreies, Lies
  <1>3. ZeilenGueltig'
    BY <1>2 DEF WareInduktiv, ZeilenGueltig, zeilenVars
  <1>4. EntwurfBleibtErkennbar'
    BY DEF WareInduktiv, WareTypeOK, EntwurfBleibtErkennbar, zeilenVars,
           LiesEntwurf, LiesVerkauftes, LiesFreies, Lies
  <1> QED
    BY <1>1, <1>2, <1>3, <1>4, ZeilenSchritt DEF zeilenVars, WareInduktiv, BelegStueckBleibt

\* The table lets only drafts and rows without an envelope be published; a
\* SOLD row that was a draft when it was read has one.
LEMMA VeroeffentlicheErhaelt ==
    ASSUME WareInduktiv, NEW p \in Pflegen, Veroeffentliche(p)
    PROVE  WareInduktiv'
  <1>1. WareTypeOK'
    BY PflegeTyp DEF WareInduktiv
  <1>2. PICK s \in Stuecke : s = pstueck[p]
    BY DEF WareInduktiv, EntwurfBleibtErkennbar, Veroeffentliche
  <1>3. /\ ZeileFrei(s)
        /\ ~umschlag[s] /\ ~archiviert[s]
        /\ zustand[s] \notin {"KEINS", "SOLD", "RESERVED"}
    BY <1>2 DEF WareInduktiv, EntwurfBleibtErkennbar, ZeilenGueltig, Veroeffentliche, ZeileErlaubt
  <1>4. zustand' = [zustand EXCEPT ![s] = "AVAILABLE"] /\ UNCHANGED <<halter, umschlag, archiviert>>
    BY <1>2 DEF Veroeffentliche
  <1>5. ZeilenGueltig'
    BY <1>3, <1>4 DEF WareInduktiv, WareTypeOK, ZeilenGueltig
  <1>6. EntwurfBleibtErkennbar'
    BY <1>4 DEF WareInduktiv, WareTypeOK, EntwurfBleibtErkennbar, Veroeffentliche, Beende
  <1>7. /\ \A t \in Stuecke : ~ZeileFrei(t) => zustand'[t] = zustand[t]
        /\ \A t \in Stuecke : zustand'[t] = "SOLD" <=> zustand[t] = "SOLD"
        /\ \A t \in Stuecke : zustand[t] = "SOLD" /\ umschlag[t] => umschlag'[t]
        /\ \A t \in Stuecke : AufBeleg(t) => zustand'[t] # "KEINS"
    BY <1>3, <1>4 DEF WareInduktiv, WareTypeOK, BelegStueckBleibt
  <1> QED
    BY <1>1, <1>5, <1>6, <1>7, ZeilenSchritt DEF Veroeffentliche, Beende

LEMMA ArchiviereErhaelt ==
    ASSUME WareInduktiv, NEW p \in Pflegen, Archiviere(p)
    PROVE  WareInduktiv'
  <1>1. WareTypeOK'
    BY PflegeTyp DEF WareInduktiv
  <1>2. UNCHANGED <<zustand, halter, umschlag>>
    BY DEF Archiviere
  <1>3. ZeilenGueltig'
    BY DEF WareInduktiv, WareTypeOK, ZeilenGueltig, Archiviere, ZeileErlaubt
  <1>4. EntwurfBleibtErkennbar'
    BY <1>2 DEF WareInduktiv, WareTypeOK, EntwurfBleibtErkennbar, Archiviere, Beende
  <1>5. \A t \in Stuecke : AufBeleg(t) => zustand'[t] # "KEINS"
    BY <1>2 DEF WareInduktiv, BelegStueckBleibt
  <1> QED
    BY <1>1, <1>2, <1>3, <1>4, <1>5, ZeilenSchritt DEF Archiviere, Beende

\* DELETE meets no receipt's piece, hence no SOLD one.
LEMMA LoescheErhaelt ==
    ASSUME WareInduktiv, NEW p \in Pflegen, Loesche(p)
    PROVE  WareInduktiv'
  <1>1. WareTypeOK'
    BY PflegeTyp DEF WareInduktiv
  <1>2. PICK s \in Stuecke : s = pstueck[p]
    BY DEF WareInduktiv, EntwurfBleibtErkennbar, Loesche
  <1>3. ZeileFrei(s) /\ ~AufBeleg(s) /\ zustand[s] # "SOLD" /\ ~archiviert[s]
    BY <1>2 DEF Loesche, WareInduktiv, ZeilenGueltig, BestandPasstZuBelegen, Verkauft, AufBeleg
  <1>4. /\ zustand' = [zustand EXCEPT ![s] = "KEINS"]
        /\ umschlag' = [umschlag EXCEPT ![s] = FALSE] /\ UNCHANGED archiviert
    BY <1>2 DEF Loesche
  <1>5. ZeilenGueltig'
    BY <1>3, <1>4 DEF WareInduktiv, WareTypeOK, ZeilenGueltig
  <1>6. EntwurfBleibtErkennbar'
    BY <1>3, <1>4 DEF WareInduktiv, WareTypeOK, EntwurfBleibtErkennbar, Loesche, Beende
  <1>7. /\ \A t \in Stuecke : ~ZeileFrei(t) => zustand'[t] = zustand[t]
        /\ \A t \in Stuecke : zustand'[t] = "SOLD" <=> zustand[t] = "SOLD"
        /\ \A t \in Stuecke : zustand[t] = "SOLD" /\ umschlag[t] => umschlag'[t]
        /\ \A t \in Stuecke : AufBeleg(t) => zustand'[t] # "KEINS"
    BY <1>3, <1>4 DEF WareInduktiv, WareTypeOK, BelegStueckBleibt
  <1> QED
    BY <1>1, <1>5, <1>6, <1>7, ZeilenSchritt DEF Loesche, Beende

LEMMA PflegeAbgewiesenErhaelt ==
    ASSUME WareInduktiv, NEW p \in Pflegen, PflegeAbgewiesen(p)
    PROVE  WareInduktiv'
  <1>1. WareTypeOK'
    BY PflegeTyp DEF WareInduktiv
  <1>2. UNCHANGED <<zeilenVars, belegVars, stornoVars, rueckVars>>
    BY DEF PflegeAbgewiesen, Beende
  <1>3. ZeilenGueltig'
    BY <1>2 DEF WareInduktiv, ZeilenGueltig, zeilenVars
  <1>4. EntwurfBleibtErkennbar'
    BY <1>2 DEF WareInduktiv, WareTypeOK, EntwurfBleibtErkennbar, zeilenVars, PflegeAbgewiesen, Beende
  <1> QED
    BY <1>1, <1>2, <1>3, <1>4, ZeilenSchritt DEF zeilenVars, WareInduktiv, BelegStueckBleibt

(***************************************************************************)
(* Steps of a request before it books                                      *)
(***************************************************************************)

LEMMA EmpfangeErhaelt ==
    ASSUME WareInduktiv, NEW a \in Anfragen, EmpfangeVerkauf(a) \/ EmpfangeAnkauf(a)
    PROVE  WareInduktiv'
  <1>1. WareTypeOK'
    BY AnfrageTyp DEF WareInduktiv
  <1>2. PICK S, h : Empfange(a, S, h)
    BY DEF EmpfangeVerkauf, EmpfangeAnkauf
  <1>3. /\ stand[a] = "bereit"
        /\ stand'[a] \in {"geprueft", "wiederholt"}
        /\ \A b \in Anfragen : b # a =>
              stand'[b] = stand[b] /\ korb'[b] = korb[b] /\ antwort'[b] = antwort[b]
        /\ stand'[a] = "wiederholt" => antwort'[a] \in BelegZumSchluessel(SchluesselVon[a])
    BY <1>2 DEF WareInduktiv, WareTypeOK, Empfange
  <1>4. Gebuchte' = Gebuchte
    BY <1>3 DEF Gebuchte
  <1>5. \A b \in Gebuchte : korb'[b] = korb[b] /\ antwort'[b] = antwort[b]
    BY <1>3 DEF Gebuchte
  <1>6. SperrenGetrennt'
    BY <1>2, <1>3 DEF WareInduktiv, SperrenGetrennt, Empfange, zeilenVars, Anfragen
  <1>7. \A b \in Anfragen : stand'[b] = "wiederholt" =>
            antwort'[b] \in BelegZumSchluessel(SchluesselVon[b])
    BY <1>3 DEF WareInduktiv, AntwortIstDerBeleg
  <1> QED
    BY <1>1, <1>2, <1>4, <1>5, <1>6, <1>7, AnfrageSchritt DEF Empfange

\* A step that moves one request on, but not to "gebucht", and touches neither
\* what it is about nor another request.
LEMMA StandSchritt ==
    ASSUME WareInduktiv, WareTypeOK', UNCHANGED <<zeilenVars, stornoVars, rueckVars, pflegeVars>>,
           NEW a \in Anfragen, stand[a] # "gebucht", stand'[a] # "gebucht", korb' = korb,
           \A b \in Anfragen : b # a => stand'[b] = stand[b] /\ antwort'[b] = antwort[b],
           SperrenGetrennt',
           stand'[a] = "wiederholt" => antwort'[a] \in BelegZumSchluessel(SchluesselVon[a])
    PROVE  WareInduktiv'
  <1>1. Gebuchte' = Gebuchte
    BY DEF Gebuchte
  <1>2. \A b \in Gebuchte : korb'[b] = korb[b] /\ antwort'[b] = antwort[b]
    BY DEF Gebuchte
  <1>3. \A b \in Anfragen : stand'[b] = "wiederholt" =>
            antwort'[b] \in BelegZumSchluessel(SchluesselVon[b])
    BY DEF WareInduktiv, AntwortIstDerBeleg
  <1> QED
    BY <1>1, <1>2, <1>3, AnfrageSchritt

\* Locks are taken on free rows, so that they stay apart.
LEMMA SperreWareErhaelt ==
    ASSUME WareInduktiv, NEW a \in Verkaeufe, SperreWare(a)
    PROVE  WareInduktiv'
  <1>1. a \in Anfragen /\ WareTypeOK'
    BY AnfrageTyp DEF WareInduktiv, Anfragen
  <1>2. /\ stand[a] = "geprueft" /\ stand'[a] \in {"gesperrt", "abgewiesen"}
        /\ \A b \in Anfragen : b # a => stand'[b] = stand[b] /\ antwort'[b] = antwort[b]
        /\ UNCHANGED <<korb, zustand>>
    BY <1>1 DEF WareInduktiv, WareTypeOK, SperreWare, zeilenVars
  <1>3. stand'[a] = "gesperrt" => \A s \in korb[a] : zustand[s] = "RESERVED"
    BY <1>1 DEF WareInduktiv, WareTypeOK, SperreWare, HaeltAlles
  <1>4. \A b \in Anfragen : stand[b] = "gesperrt" => korb[a] \cap korb[b] = {}
    BY DEF SperreWare, ZeileFrei
  <1>5. SperrenGetrennt'
    BY <1>1, <1>2, <1>3, <1>4, ArtenAnnahme DEF WareInduktiv, SperrenGetrennt, Anfragen
  <1> QED
    BY <1>1, <1>2, <1>5, StandSchritt DEF SperreWare

LEMMA LegeWareAnErhaelt ==
    ASSUME WareInduktiv, NEW a \in Ankaeufe, LegeWareAn(a)
    PROVE  WareInduktiv'
  <1>1. a \in Anfragen /\ WareTypeOK'
    BY AnfrageTyp DEF WareInduktiv, Anfragen
  <1>2. /\ stand[a] = "geprueft" /\ stand'[a] \in {"gesperrt", "abgewiesen"}
        /\ \A b \in Anfragen : b # a => stand'[b] = stand[b] /\ antwort'[b] = antwort[b]
        /\ UNCHANGED <<korb, zustand>>
    BY <1>1 DEF WareInduktiv, WareTypeOK, LegeWareAn, zeilenVars
  <1>3. stand'[a] = "gesperrt" => \A s \in korb[a] : zustand[s] = "KEINS"
    BY <1>1 DEF WareInduktiv, WareTypeOK, LegeWareAn
  <1>4. \A b \in Anfragen : stand[b] = "gesperrt" => korb[a] \cap korb[b] = {}
    BY DEF LegeWareAn, ZeileFrei
  <1>5. SperrenGetrennt'
    BY <1>1, <1>2, <1>3, <1>4, ArtenAnnahme DEF WareInduktiv, SperrenGetrennt, Anfragen
  <1> QED
    BY <1>1, <1>2, <1>5, StandSchritt DEF LegeWareAn

\* A request that gives its locks back.
LEMMA OhneBuchungErhaelt ==
    ASSUME WareInduktiv, NEW a \in Anfragen, BeantworteMitSieger(a) \/ BrichAb(a)
    PROVE  WareInduktiv'
  <1>1. WareTypeOK'
    BY AnfrageTyp DEF WareInduktiv
  <1>2. /\ stand[a] # "gebucht" /\ stand'[a] \in {"wiederholt", "abgebrochen"}
        /\ \A b \in Anfragen : b # a => stand'[b] = stand[b] /\ antwort'[b] = antwort[b]
        /\ stand'[a] = "wiederholt" => antwort'[a] \in BelegZumSchluessel(SchluesselVon[a])
        /\ UNCHANGED <<korb, zeilenVars, stornoVars, rueckVars, pflegeVars>>
    BY DEF WareInduktiv, WareTypeOK, BeantworteMitSieger, BrichAb
  <1>3. SperrenGetrennt'
    BY <1>2 DEF WareInduktiv, SperrenGetrennt, zeilenVars, Anfragen
  <1> QED
    BY <1>1, <1>2, <1>3, StandSchritt

(***************************************************************************)
(* The bookings                                                            *)
(***************************************************************************)

\* One more receipt, the first with its key.
LEMMA BelegKommtHinzu ==
    ASSUME WareInduktiv, NEW a \in Anfragen, stand[a] = "gesperrt", Belege(a),
           BelegZumSchluessel(SchluesselVon[a]) = {}
    PROVE  /\ Gebuchte' = Gebuchte \cup {a} /\ a \notin Gebuchte
           /\ \A b \in Anfragen : b # a => stand'[b] = stand[b]
           /\ stand'[a] = "gebucht"
           /\ \A r \in Rueckgaben : rstand[r] # "bereit" => rzu[r] # a
           /\ \A s : ~Zurueckgenommen(a, s)
           /\ \A b, s : Zurueckgenommen(b, s)' <=> Zurueckgenommen(b, s)
           /\ AntwortIstDerBeleg' /\ StornoEinmal' /\ BezugGebucht'
  <1>1. /\ \A b \in Anfragen : b # a => stand'[b] = stand[b] /\ antwort'[b] = antwort[b]
        /\ stand'[a] = "gebucht" /\ antwort'[a] = a
    BY DEF WareInduktiv, WareTypeOK, Belege
  <1>2. Gebuchte' = Gebuchte \cup {a} /\ a \notin Gebuchte
    BY <1>1 DEF Gebuchte
  <1>3. \A r \in Rueckgaben : rstand[r] # "bereit" => rzu[r] # a
    BY <1>2 DEF WareInduktiv, BezugGebucht
  <1>4. /\ \A s : ~Zurueckgenommen(a, s)
        /\ \A b, s : Zurueckgenommen(b, s)' <=> Zurueckgenommen(b, s)
    BY <1>3 DEF Zurueckgenommen, Belege, rueckVars
  <1>5. AntwortIstDerBeleg'
    <2>1. \A b \in Gebuchte : SchluesselVon[b] # SchluesselVon[a]
      BY DEF BelegZumSchluessel
    <2>2. \A b, c \in Gebuchte' : SchluesselVon[b] = SchluesselVon[c] => b = c
      BY <1>2, <2>1 DEF WareInduktiv, AntwortIstDerBeleg
    <2>3. \A b \in Anfragen : stand'[b] \in {"gebucht", "wiederholt"} =>
              antwort'[b] \in Gebuchte' /\ SchluesselVon[antwort'[b]] = SchluesselVon[b]
      BY <1>1, <1>2 DEF WareInduktiv, AntwortIstDerBeleg, BelegZumSchluessel
    <2> QED
      BY <2>2, <2>3 DEF AntwortIstDerBeleg, BelegZumSchluessel
  <1>6. StornoEinmal' /\ BezugGebucht'
    BY <1>2 DEF WareInduktiv, StornoEinmal, BezugGebucht, Belege, stornoVars, rueckVars
  <1> QED
    BY <1>1, <1>2, <1>3, <1>4, <1>5, <1>6

LEMMA BucheVerkaufErhaelt ==
    ASSUME WareInduktiv, NEW a \in Verkaeufe, BucheVerkauf(a)
    PROVE  WareInduktiv'
  <1>1. a \in Anfragen /\ WareTypeOK'
    BY AnfrageTyp DEF WareInduktiv, Anfragen
  <1>2. /\ Gebuchte' = Gebuchte \cup {a} /\ a \notin Gebuchte
        /\ \A b \in Anfragen : b # a => stand'[b] = stand[b]
        /\ stand'[a] = "gebucht"
        /\ \A s : ~Zurueckgenommen(a, s)
        /\ \A b, s : Zurueckgenommen(b, s)' <=> Zurueckgenommen(b, s)
        /\ AntwortIstDerBeleg' /\ StornoEinmal' /\ BezugGebucht'
    BY <1>1, BelegKommtHinzu DEF BucheVerkauf
  <1>3. /\ stand[a] = "gesperrt"
        /\ zustand' = [s \in Stuecke |-> IF s \in korb[a] THEN "SOLD" ELSE zustand[s]]
        /\ UNCHANGED <<korb, umschlag, archiviert, pflegeVars>>
    BY DEF BucheVerkauf, Belege
  <1>4. \A s \in korb[a] : s \in Stuecke /\ zustand[s] = "RESERVED" /\ umschlag[s]
    BY <1>1, <1>3 DEF WareInduktiv, WareTypeOK, SperrenGetrennt, ZeilenGueltig
  <1>5. \A b \in Verkaeufe, s \in korb[a] : ~Verkauft(b, s)
    BY <1>4 DEF WareInduktiv, BestandPasstZuBelegen
  <1>6. \A b, s : Verkauft(b, s)' <=> Verkauft(b, s) \/ (b = a /\ s \in korb[a])
    BY <1>2, <1>3 DEF Verkauft
  <1>7. SperrenGetrennt'
    <2>1. \A b \in Anfragen : b # a /\ stand[b] = "gesperrt" => korb[a] \cap korb[b] = {}
      BY <1>1, <1>3 DEF WareInduktiv, SperrenGetrennt
    <2>2. \A b \in Anfragen : korb[b] \subseteq Stuecke
      BY DEF WareInduktiv, WareTypeOK
    <2> QED
      BY <1>2, <1>3, <2>1, <2>2 DEF WareInduktiv, SperrenGetrennt, Anfragen
  <1>8. ZeilenGueltig' /\ EntwurfBleibtErkennbar'
    BY <1>3, <1>4 DEF WareInduktiv, WareTypeOK, ZeilenGueltig, EntwurfBleibtErkennbar, pflegeVars
  <1>9. NeuverkaufBleibt'
    <2>1. \A b \in Anfragen : korb[b] \subseteq Stuecke
      BY DEF WareInduktiv, WareTypeOK
    <2>2. \A b \in Gebuchte \cap (Verkaeufe \ Altverkauf) : \A s \in korb[b] :
              s \in Stuecke /\ zustand[s] = "SOLD" /\ umschlag[s]
      BY <2>1 DEF WareInduktiv, NeuverkaufBleibt, Neuverkaeufe, Gebuchte
    <2>3. \A b \in Gebuchte' \cap (Verkaeufe \ Altverkauf) : \A s \in korb[b] :
              zustand'[s] = "SOLD" /\ umschlag[s]
      BY <1>2, <1>3, <1>4, <2>2
    <2> QED
      BY <1>3, <2>3 DEF NeuverkaufBleibt, Neuverkaeufe
  <1>10. AltverkaufAllein'
    <2>1. a \notin Altverkauf => \A b \in Altverkauf, s \in korb[a] : ~Verkauft(b, s)
      BY <1>5, AltAnnahme
    <2>2. a \in Altverkauf => \A s \in korb[a], b \in Gebuchte \cap (Verkaeufe \ Altverkauf) : s \notin korb[b]
      BY <1>4 DEF WareInduktiv, NeuverkaufBleibt, Neuverkaeufe
    <2> QED
      BY <1>2, <1>3, <1>6, <2>1, <2>2 DEF WareInduktiv, AltverkaufAllein, Neuverkaeufe
  <1>11. KeinDoppelverkauf' /\ BestandPasstZuBelegen'
    BY <1>3, <1>5, <1>6 DEF WareInduktiv, KeinDoppelverkauf, BestandPasstZuBelegen
  <1>12. BelegStueckBleibt'
    BY <1>2, <1>3 DEF WareInduktiv, BelegStueckBleibt, AufBeleg
  <1> QED
    BY <1>1, <1>2, <1>7, <1>8, <1>9, <1>10, <1>11, <1>12 DEF WareInduktiv

LEMMA BucheAnkaufErhaelt ==
    ASSUME WareInduktiv, NEW a \in Ankaeufe, BucheAnkauf(a)
    PROVE  WareInduktiv'
  <1>1. a \in Anfragen /\ a \notin Verkaeufe /\ WareTypeOK'
    BY AnfrageTyp, ArtenAnnahme DEF WareInduktiv, Anfragen
  <1>2. /\ Gebuchte' = Gebuchte \cup {a} /\ a \notin Gebuchte
        /\ \A b \in Anfragen : b # a => stand'[b] = stand[b]
        /\ stand'[a] = "gebucht"
        /\ \A s : ~Zurueckgenommen(a, s)
        /\ \A b, s : Zurueckgenommen(b, s)' <=> Zurueckgenommen(b, s)
        /\ AntwortIstDerBeleg' /\ StornoEinmal' /\ BezugGebucht'
    BY <1>1, BelegKommtHinzu DEF BucheAnkauf
  <1>3. PICK F \in SUBSET korb[a] :
            zustand' = [s \in Stuecke |->
                IF s \in F THEN "AVAILABLE" ELSE IF s \in korb[a] THEN "DRAFT" ELSE zustand[s]]
    BY DEF BucheAnkauf
  <1>4. stand[a] = "gesperrt" /\ UNCHANGED <<korb, umschlag, archiviert, pflegeVars>>
    BY DEF BucheAnkauf, Belege
  <1>5. \A s \in korb[a] : s \in Stuecke /\ zustand[s] = "KEINS"
    BY <1>1, <1>4 DEF WareInduktiv, WareTypeOK, SperrenGetrennt
  <1>6. \A s \in Stuecke : zustand'[s] = "SOLD" <=> zustand[s] = "SOLD"
    BY <1>3, <1>5
  <1>7. \A b \in Verkaeufe : \A s : Verkauft(b, s)' <=> Verkauft(b, s)
    BY <1>1, <1>2, <1>4 DEF Verkauft
  <1>8. SperrenGetrennt'
    <2>1. \A b \in Anfragen : b # a /\ stand[b] = "gesperrt" => korb[a] \cap korb[b] = {}
      BY <1>1, <1>4 DEF WareInduktiv, SperrenGetrennt
    <2>2. \A b \in Anfragen : korb[b] \subseteq Stuecke
      BY DEF WareInduktiv, WareTypeOK
    <2>3. \A b \in Anfragen : \A s \in korb[b] :
              b # a /\ stand[b] = "gesperrt" => zustand'[s] = zustand[s]
      BY <1>3, <2>1, <2>2
    <2> QED
      BY <1>2, <1>4, <2>3 DEF WareInduktiv, SperrenGetrennt, Anfragen
  <1>9. ZeilenGueltig' /\ EntwurfBleibtErkennbar'
    BY <1>3, <1>4, <1>5, <1>6 DEF WareInduktiv, ZeilenGueltig, EntwurfBleibtErkennbar, pflegeVars
  <1>10. NeuverkaufBleibt'
    <2>1. \A b \in Anfragen : korb[b] \subseteq Stuecke
      BY DEF WareInduktiv, WareTypeOK
    <2>2. \A b \in Gebuchte \cap (Verkaeufe \ Altverkauf) : \A s \in korb[b] :
              s \in Stuecke /\ zustand[s] = "SOLD" /\ umschlag[s]
      BY <2>1 DEF WareInduktiv, NeuverkaufBleibt, Neuverkaeufe, Gebuchte
    <2> QED
      BY <1>1, <1>2, <1>4, <1>6, <2>2 DEF NeuverkaufBleibt, Neuverkaeufe
  <1>11. AltverkaufAllein'
    BY <1>1, <1>2, <1>4, <1>7, AltAnnahme DEF WareInduktiv, AltverkaufAllein, Neuverkaeufe
  <1>12. KeinDoppelverkauf' /\ BestandPasstZuBelegen'
    BY <1>6, <1>7 DEF WareInduktiv, KeinDoppelverkauf, BestandPasstZuBelegen
  <1>13. BelegStueckBleibt'
    BY <1>2, <1>3, <1>4 DEF WareInduktiv, BelegStueckBleibt, AufBeleg
  <1> QED
    BY <1>1, <1>2, <1>8, <1>9, <1>10, <1>11, <1>12, <1>13 DEF WareInduktiv

(***************************************************************************)
(* Reversals and returns                                                   *)
(***************************************************************************)

\* A step of reversals or returns that takes nothing back.
LEMMA OhneRuecknahme ==
    ASSUME WareInduktiv, WareTypeOK', UNCHANGED <<zeilenVars, belegVars, pflegeVars>>,
           \A o, s : Zurueckgenommen(o, s)' <=> Zurueckgenommen(o, s),
           BezugGebucht', StornoEinmal'
    PROVE  WareInduktiv'
  <1>1. /\ Gebuchte' = Gebuchte
        /\ \A a, s : Verkauft(a, s)' <=> Verkauft(a, s)
        /\ \A s : AufBeleg(s)' <=> AufBeleg(s)
        /\ \A k : BelegZumSchluessel(k)' = BelegZumSchluessel(k)
    BY DEF belegVars, Gebuchte, Verkauft, AufBeleg, BelegZumSchluessel
  <1>2. SperrenGetrennt' /\ ZeilenGueltig' /\ EntwurfBleibtErkennbar'
    BY DEF WareInduktiv, SperrenGetrennt, ZeilenGueltig, EntwurfBleibtErkennbar,
           zeilenVars, belegVars, pflegeVars
  <1>3. NeuverkaufBleibt' /\ AltverkaufAllein'
    BY <1>1 DEF WareInduktiv, NeuverkaufBleibt, Neuverkaeufe, AltverkaufAllein, zeilenVars, belegVars
  <1>4. KeinDoppelverkauf' /\ BestandPasstZuBelegen' /\ BelegStueckBleibt'
    BY <1>1 DEF WareInduktiv, KeinDoppelverkauf, BestandPasstZuBelegen, BelegStueckBleibt, zeilenVars
  <1>5. AntwortIstDerBeleg'
    BY <1>1 DEF WareInduktiv, AntwortIstDerBeleg, belegVars
  <1> QED
    BY <1>2, <1>3, <1>4, <1>5 DEF WareInduktiv

LEMMA StornoErhaelt ==
    ASSUME WareInduktiv,
           \/ \E q \in Stornos, o \in Anfragen : LiesFuerStorno(q, o)
           \/ \E q \in Stornos : BucheStorno(q)
    PROVE  WareInduktiv'
  <1>1. WareTypeOK'
    BY RuecknahmeTyp DEF WareInduktiv
  <1>2. UNCHANGED <<zeilenVars, belegVars, rueckVars, pflegeVars>>
    BY DEF LiesFuerStorno, BucheStorno
  <1>3. \A o, s : Zurueckgenommen(o, s)' <=> Zurueckgenommen(o, s)
    BY <1>2 DEF rueckVars, Zurueckgenommen
  <1>4. Gebuchte' = Gebuchte
    BY <1>2 DEF belegVars, Gebuchte
  <1>5. BezugGebucht' /\ StornoEinmal'
    <2>1. ASSUME NEW q \in Stornos, NEW o \in Anfragen, LiesFuerStorno(q, o)
          PROVE  BezugGebucht' /\ StornoEinmal'
      BY <1>2, <1>4, <2>1
         DEF WareInduktiv, WareTypeOK, BezugGebucht, StornoEinmal, LiesFuerStorno, rueckVars, belegVars
    <2>2. ASSUME NEW q \in Stornos, BucheStorno(q)
          PROVE  BezugGebucht' /\ StornoEinmal'
      <3>1. stornostand'[q] = "gebucht" => \A u \in Stornos : stornostand[u] = "gebucht" => szu[u] # szu[q]
        BY <2>2 DEF WareInduktiv, WareTypeOK, BucheStorno, BelegStorniert
      <3> QED
        BY <1>2, <1>4, <2>2, <3>1
           DEF WareInduktiv, WareTypeOK, BezugGebucht, StornoEinmal, BucheStorno, rueckVars, belegVars
    <2> QED
      BY <2>1, <2>2
  <1> QED
    BY <1>1, <1>2, <1>3, <1>5, OhneRuecknahme

LEMMA RueckgabeVorherErhaelt ==
    ASSUME WareInduktiv,
           \/ \E r \in Rueckgaben, o \in Verkaeufe, S \in (SUBSET Stuecke) \ {{}} : LiesFuerRueckgabe(r, o, S)
           \/ \E r \in Rueckgaben : PruefePositionen(r) \/ RueckgabeVerletztRegel(r)
    PROVE  WareInduktiv'
  <1>1. WareTypeOK'
    BY RuecknahmeTyp DEF WareInduktiv
  <1>2. UNCHANGED <<zeilenVars, belegVars, stornoVars, pflegeVars>>
    BY DEF LiesFuerRueckgabe, PruefePositionen, RueckgabeVerletztRegel
  <1>3. Gebuchte' = Gebuchte
    BY <1>2 DEF belegVars, Gebuchte
  <1>4. StornoEinmal'
    BY <1>2 DEF WareInduktiv, StornoEinmal, stornoVars
  <1>5. /\ \A o, s : Zurueckgenommen(o, s)' <=> Zurueckgenommen(o, s)
        /\ BezugGebucht'
    <2>1. ASSUME NEW r \in Rueckgaben, NEW o \in Verkaeufe, NEW S \in SUBSET Stuecke,
                 LiesFuerRueckgabe(r, o, S)
          PROVE  (\A t, s : Zurueckgenommen(t, s)' <=> Zurueckgenommen(t, s)) /\ BezugGebucht'
      BY <1>2, <1>3, <2>1
         DEF WareInduktiv, WareTypeOK, BezugGebucht, Zurueckgenommen, LiesFuerRueckgabe, stornoVars, belegVars
    <2>2. ASSUME NEW r \in Rueckgaben, PruefePositionen(r) \/ RueckgabeVerletztRegel(r)
          PROVE  (\A t, s : Zurueckgenommen(t, s)' <=> Zurueckgenommen(t, s)) /\ BezugGebucht'
      BY <1>2, <1>3, <2>2
         DEF WareInduktiv, WareTypeOK, BezugGebucht, Zurueckgenommen, PruefePositionen,
             RueckgabeVerletztRegel, stornoVars, belegVars
    <2> QED
      BY <2>1, <2>2
  <1> QED
    BY <1>1, <1>2, <1>4, <1>5, OhneRuecknahme

\* Of the rows a return finds SOLD the table lets only those go that were not
\* reserved since: nobody but the returned sale has them.
LEMMA NurDieEigeneWare ==
    ASSUME WareInduktiv, NEW r \in Rueckgaben, BucheRueckgabe(r)
    PROVE  \A a \in Verkaeufe, s \in Trifft(r) : Verkauft(a, s) => a = rzu[r]
  <1> SUFFICES ASSUME NEW a \in Verkaeufe, NEW s \in Trifft(r), Verkauft(a, s)
               PROVE  a = rzu[r]
    OBVIOUS
  <1>1. s \in rstuecke[r] /\ ~umschlag[s]
    BY DEF BucheRueckgabe, Trifft, ZeileErlaubt
  <1>2. rzu[r] \in Gebuchte \cap Verkaeufe /\ s \in korb[rzu[r]]
    BY <1>1 DEF BucheRueckgabe, WareInduktiv, BezugGebucht
  <1>3. rzu[r] \in Altverkauf /\ a \in Altverkauf
    BY <1>1, <1>2 DEF WareInduktiv, NeuverkaufBleibt, Neuverkaeufe, Verkauft
  <1> QED
    BY <1>3, AltAnnahme

LEMMA BucheRueckgabeErhaelt ==
    ASSUME WareInduktiv, NEW r \in Rueckgaben, BucheRueckgabe(r)
    PROVE  WareInduktiv'
  <1>1. WareTypeOK'
    BY RuecknahmeTyp DEF WareInduktiv
  <1> DEFINE T == Trifft(r)
  <1>2. /\ zustand' = [s \in Stuecke |-> IF s \in T THEN "AVAILABLE" ELSE zustand[s]]
        /\ UNCHANGED <<rzu, rstuecke, umschlag, archiviert, belegVars, stornoVars, pflegeVars>>
    BY DEF BucheRueckgabe
  <1>3. /\ rstand[r] = "geprueft" /\ rstand'[r] = "gebucht"
        /\ \A u \in Rueckgaben : u # r => rstand'[u] = rstand[u]
    BY DEF BucheRueckgabe, WareInduktiv, WareTypeOK
  <1>4. rzu[r] \in Gebuchte \cap Verkaeufe /\ rstuecke[r] \subseteq korb[rzu[r]] /\ rstuecke[r] \subseteq Stuecke
    BY <1>3 DEF WareInduktiv, WareTypeOK, BezugGebucht
  <1>5. T = {s \in rstuecke[r] : zustand[s] = "SOLD"}
    BY DEF Trifft
  <1>6. \A s \in T : ~umschlag[s] /\ ~archiviert[s]
    BY DEF BucheRueckgabe, ZeileErlaubt
  <1>7. Gebuchte' = Gebuchte
    BY <1>2 DEF Gebuchte, belegVars
  <1>8. \A o, s : Zurueckgenommen(o, s)' <=>
                  Zurueckgenommen(o, s) \/ (o = rzu[r] /\ s \in rstuecke[r])
    BY <1>2, <1>3 DEF Zurueckgenommen
  <1>9. \A a, s : Verkauft(a, s)' <=> Verkauft(a, s) /\ ~(a = rzu[r] /\ s \in rstuecke[r])
    BY <1>2, <1>7, <1>8 DEF Verkauft, belegVars
  <1>10. SperrenGetrennt'
    <2>1. \A a \in Anfragen : korb[a] \subseteq Stuecke
      BY DEF WareInduktiv, WareTypeOK
    <2>2. \A a \in Anfragen : \A s \in korb[a] : stand[a] = "gesperrt" => zustand'[s] = zustand[s]
      BY <1>2, <1>5, <2>1 DEF WareInduktiv, SperrenGetrennt, Anfragen
    <2> QED
      BY <1>2, <2>2 DEF WareInduktiv, SperrenGetrennt, belegVars, Anfragen
  <1>11. ZeilenGueltig' /\ EntwurfBleibtErkennbar'
    BY <1>2, <1>6 DEF WareInduktiv, ZeilenGueltig, EntwurfBleibtErkennbar, pflegeVars
  <1>12. NeuverkaufBleibt'
    <2>1. \A b \in Anfragen : korb[b] \subseteq Stuecke
      BY DEF WareInduktiv, WareTypeOK
    <2>2. \A b \in Gebuchte \cap (Verkaeufe \ Altverkauf) : \A s \in korb[b] :
              s \in Stuecke /\ zustand[s] = "SOLD" /\ umschlag[s]
      BY <2>1 DEF WareInduktiv, NeuverkaufBleibt, Neuverkaeufe, Gebuchte
    <2> QED
      BY <1>2, <1>6, <1>7, <2>2 DEF NeuverkaufBleibt, Neuverkaeufe, belegVars
  <1>13. AltverkaufAllein'
    BY <1>2, <1>7, <1>9 DEF WareInduktiv, AltverkaufAllein, Neuverkaeufe, belegVars
  <1>14. KeinDoppelverkauf'
    BY <1>9 DEF WareInduktiv, KeinDoppelverkauf
  <1>15. BestandPasstZuBelegen'
    <2> SUFFICES ASSUME NEW s \in Stuecke
                 PROVE  zustand'[s] = "SOLD" <=> \E a \in Verkaeufe : Verkauft(a, s)'
      BY DEF BestandPasstZuBelegen
    <2>1. zustand[s] = "SOLD" <=> \E a \in Verkaeufe : Verkauft(a, s)
      BY DEF WareInduktiv, BestandPasstZuBelegen
    <2>2. CASE s \in T
      <3>1. \A a \in Verkaeufe : Verkauft(a, s) => a = rzu[r]
        BY <2>2, NurDieEigeneWare
      <3> QED
        BY <1>2, <1>5, <1>9, <2>2, <3>1
    <2>3. CASE s \notin T
      <3>1. zustand'[s] = zustand[s]
        BY <1>2, <2>3
      <3>2. s \in rstuecke[r] => zustand[s] # "SOLD"
        BY <1>5, <2>3
      <3> QED
        BY <1>9, <2>1, <3>1, <3>2
    <2> QED
      BY <2>2, <2>3
  <1>16. AntwortIstDerBeleg' /\ StornoEinmal'
    BY <1>2, <1>7 DEF WareInduktiv, AntwortIstDerBeleg, StornoEinmal, BelegZumSchluessel, belegVars, stornoVars
  <1>17. BelegStueckBleibt'
    BY <1>2, <1>7 DEF WareInduktiv, BelegStueckBleibt, AufBeleg, belegVars
  <1>18. BezugGebucht'
    BY <1>2, <1>3, <1>7 DEF WareInduktiv, BezugGebucht, belegVars, stornoVars
  <1> QED
    BY <1>1, <1>10, <1>11, <1>12, <1>13, <1>14, <1>15, <1>16, <1>17, <1>18 DEF WareInduktiv

(***************************************************************************)
(* The invariant                                                           *)
(***************************************************************************)

LEMMA AnfangInduktiv == WareInit => WareInduktiv
  <1> SUFFICES ASSUME WareInit PROVE WareInduktiv
    OBVIOUS
  <1>1. WareTypeOK
    BY AnfangTyp
  <1>2. Gebuchte = Altverkauf
    BY AltAnnahme DEF WareInit, Gebuchte, Anfragen
  <1>3. \A o, s : ~Zurueckgenommen(o, s)
    BY DEF WareInit, Zurueckgenommen
  <1>4. \A a \in Altverkauf : \A s : Verkauft(a, s) <=> s \in Altstuecke
    BY <1>2, <1>3, AltAnnahme DEF WareInit, Verkauft, Anfragen
  <1>5. \A a \in Verkaeufe : \A s : Verkauft(a, s) => a \in Altverkauf
    BY <1>2 DEF Verkauft
  <1>6. SperrenGetrennt /\ ZeilenGueltig /\ EntwurfBleibtErkennbar
    BY DEF WareInit, SperrenGetrennt, ZeilenGueltig, EntwurfBleibtErkennbar, Anfragen
  <1>7. NeuverkaufBleibt /\ AltverkaufAllein
    BY <1>2 DEF NeuverkaufBleibt, Neuverkaeufe, AltverkaufAllein
  <1>8. BezugGebucht /\ StornoEinmal
    BY DEF WareInit, BezugGebucht, StornoEinmal
  <1>9. KeinDoppelverkauf
    BY <1>5, AltAnnahme DEF KeinDoppelverkauf
  <1>10. BestandPasstZuBelegen
    BY <1>4, <1>5, AltAnnahme DEF WareInit, BestandPasstZuBelegen
  <1>11. AntwortIstDerBeleg
    BY <1>2, AltAnnahme DEF WareInit, AntwortIstDerBeleg, BelegZumSchluessel, Anfragen
  <1>12. BelegStueckBleibt
    BY <1>2, AltAnnahme DEF WareInit, BelegStueckBleibt, AufBeleg, Anfragen
  <1> QED
    BY <1>1, <1>6, <1>7, <1>8, <1>9, <1>10, <1>11, <1>12 DEF WareInduktiv

LEMMA StotternErhaelt ==
    ASSUME WareInduktiv, UNCHANGED wareVars
    PROVE  WareInduktiv'
  <1>1. UNCHANGED <<zeilenVars, belegVars, stornoVars, rueckVars, pflegeVars>>
    BY DEF wareVars
  <1>2. WareTypeOK'
    BY <1>1 DEF WareInduktiv, WareTypeOK, zeilenVars, belegVars, stornoVars, rueckVars, pflegeVars
  <1>3. BezugGebucht' /\ StornoEinmal'
    BY <1>1 DEF WareInduktiv, BezugGebucht, StornoEinmal, Gebuchte, belegVars, stornoVars, rueckVars
  <1>4. \A o, s : Zurueckgenommen(o, s)' <=> Zurueckgenommen(o, s)
    BY <1>1 DEF Zurueckgenommen, rueckVars
  <1> QED
    BY <1>1, <1>2, <1>3, <1>4, OhneRuecknahme

LEMMA SchrittInduktiv == WareInduktiv /\ [WareNext]_wareVars => WareInduktiv'
  <1> SUFFICES ASSUME WareInduktiv, [WareNext]_wareVars PROVE WareInduktiv'
    OBVIOUS
  <1>1. CASE \E h \in Halter, s \in Stuecke : Reserviere(h, s)
    BY <1>1, ReserviereErhaelt
  <1>2. CASE \/ \E h \in Halter, s \in Stuecke : GibFrei(h, s)
             \/ \E s \in Stuecke : RaeumeLiegengebliebenes(s)
    BY <1>2, FreigabeErhaelt
  <1>3. CASE \E a \in Verkaeufe : EmpfangeVerkauf(a) \/ VerkaufWeiter(a) \/ BrichAb(a)
    BY <1>3, EmpfangeErhaelt, SperreWareErhaelt, BucheVerkaufErhaelt, OhneBuchungErhaelt
       DEF VerkaufWeiter, Anfragen
  <1>4. CASE \E a \in Ankaeufe : EmpfangeAnkauf(a) \/ AnkaufWeiter(a) \/ BrichAb(a)
    BY <1>4, EmpfangeErhaelt, LegeWareAnErhaelt, BucheAnkaufErhaelt, OhneBuchungErhaelt
       DEF AnkaufWeiter, Anfragen
  <1>5. CASE \/ \E q \in Stornos, o \in Anfragen : LiesFuerStorno(q, o)
             \/ \E q \in Stornos : BucheStorno(q)
    BY <1>5, StornoErhaelt
  <1>6. CASE \/ \E r \in Rueckgaben, o \in Verkaeufe, S \in (SUBSET Stuecke) \ {{}} : LiesFuerRueckgabe(r, o, S)
             \/ \E r \in Rueckgaben : PruefePositionen(r) \/ RueckgabeVerletztRegel(r)
    BY <1>6, RueckgabeVorherErhaelt
  <1>7. CASE \E r \in Rueckgaben : BucheRueckgabe(r)
    BY <1>7, BucheRueckgabeErhaelt
  <1>8. CASE \E p \in Pflegen, s \in Stuecke : LiesEntwurf(p, s) \/ LiesVerkauftes(p, s) \/ LiesFreies(p, s)
    BY <1>8, LiesErhaelt
  <1>9. CASE \E p \in Pflegen : Veroeffentliche(p) \/ Archiviere(p) \/ Loesche(p) \/ PflegeAbgewiesen(p)
    BY <1>9, VeroeffentlicheErhaelt, ArchiviereErhaelt, LoescheErhaelt, PflegeAbgewiesenErhaelt
  <1>10. CASE UNCHANGED wareVars
    BY <1>10, StotternErhaelt
  <1> QED
    BY <1>1, <1>2, <1>3, <1>4, <1>5, <1>6, <1>7, <1>8, <1>9, <1>10 DEF WareNext

\* The strengthening: row locks of open transactions are disjoint and match
\* the rows, and what a sale or a return relies on is what it read.
THEOREM ImmerInduktiv == WareSpec => []WareInduktiv
  BY AnfangInduktiv, SchrittInduktiv, PTL DEF WareSpec

\* No piece is with two customers.
THEOREM NieDoppeltVerkauft == WareSpec => []KeinDoppelverkauf
  <1>1. WareInduktiv => KeinDoppelverkauf
    BY DEF WareInduktiv
  <1> QED
    BY <1>1, ImmerInduktiv, PTL

\* The shelf agrees with the books.
THEOREM BestandStimmt == WareSpec => []BestandPasstZuBelegen
  <1>1. WareInduktiv => BestandPasstZuBelegen
    BY DEF WareInduktiv
  <1> QED
    BY <1>1, ImmerInduktiv, PTL

\* A key books once and answers with that receipt.
THEOREM EinSchluesselEinBeleg == WareSpec => []AntwortIstDerBeleg
  <1>1. WareInduktiv => AntwortIstDerBeleg
    BY DEF WareInduktiv
  <1> QED
    BY <1>1, ImmerInduktiv, PTL

\* Whatever is on a receipt stays in the table.
THEOREM BelegteWareBleibt == WareSpec => []BelegStueckBleibt
  <1>1. WareInduktiv => BelegStueckBleibt
    BY DEF WareInduktiv
  <1> QED
    BY <1>1, ImmerInduktiv, PTL

\* A receipt is reversed at most once.
THEOREM NurEinStorno == WareSpec => []StornoEinmal
  <1>1. WareInduktiv => StornoEinmal
    BY DEF WareInduktiv
  <1> QED
    BY <1>1, ImmerInduktiv, PTL

\* An archived piece is with its customer.
THEOREM ArchiviertesIstVerkauft == WareSpec => []ArchiviertBleibtVerkauft
  <1>1. WareInduktiv => ArchiviertBleibtVerkauft
    BY DEF WareInduktiv, ZeilenGueltig, BestandPasstZuBelegen, ArchiviertBleibtVerkauft
  <1> QED
    BY <1>1, ImmerInduktiv, PTL

(***************************************************************************)
(* Ware implements Einzelstueck                                            *)
(***************************************************************************)

\* What the mapping says of each piece.
BesitzerStimmt ==
    /\ \A s \in Stuecke, a \in Verkaeufe : Verkauft(a, s) => besitzer[s] = SchluesselVon[a]
    /\ \A s \in Stuecke : (\A a \in Verkaeufe : ~Verkauft(a, s)) =>
          besitzer[s] = IF zustand[s] = "KEINS" THEN Fremd ELSE Laden

LEMMA MappingStimmt == WareInduktiv => BesitzerStimmt
  <1> SUFFICES ASSUME WareInduktiv PROVE BesitzerStimmt
    OBVIOUS
  <1>1. ASSUME NEW s \in Stuecke, NEW a \in Verkaeufe, Verkauft(a, s)
        PROVE  besitzer[s] = SchluesselVon[a]
    <2> DEFINE Kunde(b) == b \in Verkaeufe /\ Verkauft(b, s)
    <2>1. \A b \in Verkaeufe : Verkauft(b, s) => b = a
      BY <1>1 DEF WareInduktiv, KeinDoppelverkauf
    <2>2. (CHOOSE b \in Verkaeufe : Verkauft(b, s)) = a
      BY <1>1, <2>1
    <2> QED
      BY <1>1, <2>2 DEF besitzer, Besitzer
  <1>2. ASSUME NEW s \in Stuecke, \A a \in Verkaeufe : ~Verkauft(a, s)
        PROVE  besitzer[s] = IF zustand[s] = "KEINS" THEN Fremd ELSE Laden
    BY <1>2 DEF besitzer, Besitzer
  <1> QED
    BY <1>1, <1>2 DEF BesitzerStimmt

\* Steps that neither book nor delete are invisible.
LEMMA BesitzerGleich ==
    ASSUME BesitzerStimmt, BesitzerStimmt',
           Gebuchte' \cap Verkaeufe = Gebuchte \cap Verkaeufe,
           \A a \in Verkaeufe, s \in Stuecke : Verkauft(a, s)' <=> Verkauft(a, s),
           \A s \in Stuecke : zustand'[s] = "KEINS" <=> zustand[s] = "KEINS"
    PROVE  UNCHANGED Einzelstueck!vars
  <1>1. \A s \in Stuecke : besitzer'[s] = besitzer[s]
    BY DEF BesitzerStimmt
  <1>2. besitzer' = besitzer
    BY <1>1 DEF besitzer
  <1>3. verbraucht' = verbraucht
    BY DEF verbraucht
  <1> QED
    BY <1>2, <1>3 DEF Einzelstueck!vars

LEMMA VerkaufIstVerkauf ==
    ASSUME WareInduktiv, BesitzerStimmt, BesitzerStimmt', NEW a \in Verkaeufe, BucheVerkauf(a)
    PROVE  Einzelstueck!Verkaufe(SchluesselVon[a], korb[a])
  <1>1. a \in Anfragen /\ korb[a] \subseteq Stuecke
    BY DEF WareInduktiv, WareTypeOK, Anfragen
  <1>2. /\ Gebuchte' = Gebuchte \cup {a}
        /\ \A s : ~Zurueckgenommen(a, s)
        /\ \A b, s : Zurueckgenommen(b, s)' <=> Zurueckgenommen(b, s)
    BY <1>1, BelegKommtHinzu DEF BucheVerkauf
  <1>3. /\ zustand' = [s \in Stuecke |-> IF s \in korb[a] THEN "SOLD" ELSE zustand[s]]
        /\ korb' = korb
    BY DEF BucheVerkauf, Belege
  <1>4. \A s \in korb[a] : zustand[s] = "RESERVED" /\ \A b \in Verkaeufe : ~Verkauft(b, s)
    BY <1>1 DEF WareInduktiv, SperrenGetrennt, BestandPasstZuBelegen, BucheVerkauf
  <1>5. \A b, s : Verkauft(b, s)' <=> Verkauft(b, s) \/ (b = a /\ s \in korb[a])
    BY <1>2, <1>3 DEF Verkauft
  <1>6. \A s \in korb[a] : besitzer[s] = Laden /\ besitzer'[s] = SchluesselVon[a]
    BY <1>1, <1>4, <1>5 DEF BesitzerStimmt
  <1>7. \A s \in Stuecke \ korb[a] : besitzer'[s] = besitzer[s]
    BY <1>3, <1>5 DEF BesitzerStimmt
  <1>8. SchluesselVon[a] \notin verbraucht
    BY DEF BucheVerkauf, BelegZumSchluessel, verbraucht, Gebuchte
  <1>9. verbraucht' = verbraucht \cup {SchluesselVon[a]}
    BY <1>2 DEF verbraucht
  <1>10. besitzer' = [s \in Stuecke |-> IF s \in korb[a] THEN SchluesselVon[a] ELSE besitzer[s]]
    BY <1>6, <1>7 DEF besitzer
  <1> QED
    BY <1>6, <1>8, <1>9, <1>10 DEF Einzelstueck!Verkaufe, Einzelstueck!Versetze

LEMMA AnkaufIstErwerb ==
    ASSUME WareInduktiv, BesitzerStimmt, BesitzerStimmt', NEW a \in Ankaeufe, BucheAnkauf(a)
    PROVE  Einzelstueck!Erwirb(korb[a])
  <1>1. a \in Anfragen /\ a \notin Verkaeufe /\ korb[a] \subseteq Stuecke
    BY ArtenAnnahme DEF WareInduktiv, WareTypeOK, Anfragen
  <1>2. /\ Gebuchte' = Gebuchte \cup {a}
        /\ \A b, s : Zurueckgenommen(b, s)' <=> Zurueckgenommen(b, s)
    BY <1>1, BelegKommtHinzu DEF BucheAnkauf
  <1>3. PICK F \in SUBSET korb[a] :
            zustand' = [s \in Stuecke |->
                IF s \in F THEN "AVAILABLE" ELSE IF s \in korb[a] THEN "DRAFT" ELSE zustand[s]]
    BY DEF BucheAnkauf
  <1>4. \A b \in Verkaeufe : \A s : Verkauft(b, s)' <=> Verkauft(b, s)
    BY <1>1, <1>2 DEF Verkauft, BucheAnkauf, Belege
  <1>5. \A s \in korb[a] : zustand[s] = "KEINS" /\ \A b \in Verkaeufe : ~Verkauft(b, s)
    BY <1>1 DEF WareInduktiv, SperrenGetrennt, BestandPasstZuBelegen, BucheAnkauf
  <1>6. \A s \in korb[a] : besitzer[s] = Fremd /\ besitzer'[s] = Laden
    BY <1>1, <1>3, <1>4, <1>5 DEF BesitzerStimmt
  <1>7. \A s \in Stuecke \ korb[a] : besitzer'[s] = besitzer[s]
    BY <1>3, <1>4 DEF BesitzerStimmt
  <1>8. verbraucht' = verbraucht
    BY <1>1, <1>2 DEF verbraucht
  <1>9. besitzer' = [s \in Stuecke |-> IF s \in korb[a] THEN Laden ELSE besitzer[s]]
    BY <1>6, <1>7 DEF besitzer
  <1> QED
    BY <1>6, <1>8, <1>9 DEF Einzelstueck!Erwirb, Einzelstueck!Versetze

LEMMA RueckgabeIstRuecknahme ==
    ASSUME WareInduktiv, BesitzerStimmt, BesitzerStimmt', NEW r \in Rueckgaben, BucheRueckgabe(r)
    PROVE  Einzelstueck!NimmZurueck(SchluesselVon[rzu[r]], Trifft(r))
  <1> DEFINE T == Trifft(r)
  <1>1. T \subseteq Stuecke /\ rzu[r] \in Gebuchte \cap Verkaeufe
    BY DEF Trifft, BucheRueckgabe, WareInduktiv, WareTypeOK, BezugGebucht
  <1>2. T = {s \in rstuecke[r] : zustand[s] = "SOLD"}
    BY DEF Trifft
  <1>3. /\ zustand' = [s \in Stuecke |-> IF s \in T THEN "AVAILABLE" ELSE zustand[s]]
        /\ UNCHANGED <<rzu, rstuecke, belegVars>>
    BY DEF BucheRueckgabe
  <1>4. Gebuchte' = Gebuchte
    BY <1>3 DEF Gebuchte, belegVars
  <1>5. \A a, s : Verkauft(a, s)' <=> Verkauft(a, s) /\ ~(a = rzu[r] /\ s \in rstuecke[r])
    <2>1. rstand'[r] = "gebucht" /\ \A u \in Rueckgaben : u # r => rstand'[u] = rstand[u]
      BY DEF BucheRueckgabe, WareInduktiv, WareTypeOK
    <2>2. \A o, s : Zurueckgenommen(o, s)' <=>
                    Zurueckgenommen(o, s) \/ (o = rzu[r] /\ s \in rstuecke[r])
      BY <1>3, <2>1 DEF Zurueckgenommen, BucheRueckgabe
    <2> QED
      BY <1>3, <1>4, <2>2 DEF Verkauft, belegVars
  <1>6. \A s \in T : /\ \E a \in Verkaeufe : Verkauft(a, s)
                     /\ \A a \in Verkaeufe : Verkauft(a, s) => a = rzu[r]
    BY <1>1, <1>2, NurDieEigeneWare DEF WareInduktiv, BestandPasstZuBelegen
  <1>7. \A s \in T : besitzer[s] = SchluesselVon[rzu[r]]
    BY <1>1, <1>6 DEF BesitzerStimmt
  <1>8. \A s \in T : besitzer'[s] = Laden
    <2>1. \A s \in T : zustand'[s] = "AVAILABLE" /\ \A a \in Verkaeufe : ~Verkauft(a, s)'
      BY <1>1, <1>2, <1>3, <1>5, <1>6
    <2> QED
      BY <1>1, <2>1 DEF BesitzerStimmt
  <1>9. \A s \in Stuecke \ T : besitzer'[s] = besitzer[s]
    <2> SUFFICES ASSUME NEW s \in Stuecke \ T PROVE besitzer'[s] = besitzer[s]
      OBVIOUS
    <2>1. zustand'[s] = zustand[s]
      BY <1>3
    <2>2. \A a \in Verkaeufe : Verkauft(a, s)' <=> Verkauft(a, s)
      BY <1>2, <1>5 DEF WareInduktiv, BestandPasstZuBelegen
    <2> QED
      BY <2>1, <2>2 DEF BesitzerStimmt
  <1>10. verbraucht' = verbraucht
    BY <1>4 DEF verbraucht
  <1>11. besitzer' = [s \in Stuecke |-> IF s \in T THEN Laden ELSE besitzer[s]]
    BY <1>8, <1>9 DEF besitzer
  <1> QED
    BY <1>7, <1>10, <1>11 DEF Einzelstueck!NimmZurueck, Einzelstueck!Versetze

LEMMA LoeschenIstAusscheiden ==
    ASSUME WareInduktiv, BesitzerStimmt, BesitzerStimmt', NEW p \in Pflegen, Loesche(p)
    PROVE  \E s \in Stuecke : Einzelstueck!ScheideAus(s)
  <1>1. PICK s \in Stuecke : s = pstueck[p]
    BY DEF WareInduktiv, EntwurfBleibtErkennbar, Loesche
  <1>2. /\ ~AufBeleg(s) /\ zustand[s] # "KEINS"
        /\ zustand' = [zustand EXCEPT ![s] = "KEINS"]
        /\ UNCHANGED <<belegVars, stornoVars, rueckVars>>
    BY <1>1 DEF Loesche, Beende
  <1>3. Gebuchte' = Gebuchte /\ \A a, t : Verkauft(a, t)' <=> Verkauft(a, t)
    BY <1>2, BelegeGleich
  <1>4. \A a \in Verkaeufe : ~Verkauft(a, s)
    BY <1>2 DEF AufBeleg, Verkauft
  <1>5. besitzer[s] = Laden /\ besitzer'[s] = Fremd
    BY <1>2, <1>3, <1>4 DEF BesitzerStimmt, WareInduktiv, WareTypeOK
  <1>6. \A t \in Stuecke \ {s} : besitzer'[t] = besitzer[t]
    BY <1>2, <1>3 DEF BesitzerStimmt, WareInduktiv, WareTypeOK
  <1>7. verbraucht' = verbraucht
    BY <1>3 DEF verbraucht
  <1>8. besitzer' = [t \in Stuecke |-> IF t \in {s} THEN Fremd ELSE besitzer[t]]
    BY <1>5, <1>6 DEF besitzer
  <1> QED
    BY <1>5, <1>7, <1>8 DEF Einzelstueck!ScheideAus, Einzelstueck!Versetze

\* Rows, catalogue, reversals: no receipt changes and no row appears or goes.
LEMMA OhneBelegUnsichtbar ==
    ASSUME WareInduktiv, BesitzerStimmt, BesitzerStimmt', UNCHANGED <<belegVars, rueckVars>>,
           \A s \in Stuecke : zustand'[s] = "KEINS" <=> zustand[s] = "KEINS"
    PROVE  UNCHANGED Einzelstueck!vars
  BY BelegeGleich, BesitzerGleich

LEMMA ZeilenUnsichtbar ==
    ASSUME WareInduktiv, BesitzerStimmt, BesitzerStimmt',
           \/ \E h \in Halter, s \in Stuecke : Reserviere(h, s) \/ GibFrei(h, s)
           \/ \E s \in Stuecke : RaeumeLiegengebliebenes(s)
    PROVE  UNCHANGED Einzelstueck!vars
  <1>1. /\ UNCHANGED <<belegVars, rueckVars>>
        /\ \A s \in Stuecke : zustand'[s] = "KEINS" <=> zustand[s] = "KEINS"
    BY DEF Reserviere, GibFrei, RaeumeLiegengebliebenes, Freistellen, WareInduktiv, WareTypeOK
  <1> QED
    BY <1>1, OhneBelegUnsichtbar

LEMMA PflegeUnsichtbar ==
    ASSUME WareInduktiv, BesitzerStimmt, BesitzerStimmt', NEW p \in Pflegen,
           \/ \E s \in Stuecke : LiesEntwurf(p, s) \/ LiesVerkauftes(p, s) \/ LiesFreies(p, s)
           \/ Veroeffentliche(p) \/ Archiviere(p) \/ PflegeAbgewiesen(p)
    PROVE  UNCHANGED Einzelstueck!vars
  <1>1. UNCHANGED <<belegVars, rueckVars>>
    BY DEF LiesEntwurf, LiesVerkauftes, LiesFreies, Lies, Veroeffentliche, Archiviere,
           PflegeAbgewiesen, Beende
  <1>2. \A s \in Stuecke : zustand'[s] = "KEINS" <=> zustand[s] = "KEINS"
    <2>1. CASE Veroeffentliche(p)
      BY <2>1 DEF Veroeffentliche, WareInduktiv, WareTypeOK
    <2>2. CASE \/ \E s \in Stuecke : LiesEntwurf(p, s) \/ LiesVerkauftes(p, s) \/ LiesFreies(p, s)
               \/ Archiviere(p) \/ PflegeAbgewiesen(p)
      BY <2>2 DEF LiesEntwurf, LiesVerkauftes, LiesFreies, Lies, Archiviere, PflegeAbgewiesen, zeilenVars
    <2> QED
      BY <2>1, <2>2
  <1> QED
    BY <1>1, <1>2, OhneBelegUnsichtbar

\* A request that is not booked is on no receipt, before and after.
LEMMA AnfrageUnsichtbar ==
    ASSUME WareInduktiv, BesitzerStimmt, BesitzerStimmt', NEW a \in Anfragen,
           \/ EmpfangeVerkauf(a) \/ EmpfangeAnkauf(a) \/ SperreWare(a) \/ LegeWareAn(a)
           \/ BeantworteMitSieger(a) \/ BrichAb(a)
    PROVE  UNCHANGED Einzelstueck!vars
  <1>1. /\ UNCHANGED <<zeilenVars, rueckVars>>
        /\ stand[a] # "gebucht" /\ stand'[a] # "gebucht"
        /\ \A b \in Anfragen : b # a => stand'[b] = stand[b] /\ korb'[b] = korb[b]
    <2>1. CASE EmpfangeVerkauf(a) \/ EmpfangeAnkauf(a)
      <3>1. PICK S, h : Empfange(a, S, h)
        BY <2>1 DEF EmpfangeVerkauf, EmpfangeAnkauf
      <3> QED
        BY <3>1 DEF Empfange, WareInduktiv, WareTypeOK
    <2>2. CASE SperreWare(a) \/ LegeWareAn(a)
      BY <2>2 DEF SperreWare, LegeWareAn, WareInduktiv, WareTypeOK
    <2>3. CASE BeantworteMitSieger(a) \/ BrichAb(a)
      BY <2>3 DEF BeantworteMitSieger, BrichAb, WareInduktiv, WareTypeOK
    <2> QED
      BY <2>1, <2>2, <2>3
  <1>2. Gebuchte' = Gebuchte
    BY <1>1 DEF Gebuchte
  <1>3. \A b, s : Verkauft(b, s)' <=> Verkauft(b, s)
    BY <1>1, <1>2 DEF Verkauft, Zurueckgenommen, rueckVars, Gebuchte
  <1> QED
    BY <1>1, <1>2, <1>3, BesitzerGleich DEF zeilenVars

LEMMA RuecknahmeUnsichtbar ==
    ASSUME WareInduktiv, BesitzerStimmt, BesitzerStimmt',
           \/ \E q \in Stornos, o \in Anfragen : LiesFuerStorno(q, o)
           \/ \E q \in Stornos : BucheStorno(q)
           \/ \E r \in Rueckgaben, o \in Verkaeufe, S \in (SUBSET Stuecke) \ {{}} : LiesFuerRueckgabe(r, o, S)
           \/ \E r \in Rueckgaben : PruefePositionen(r) \/ RueckgabeVerletztRegel(r)
    PROVE  UNCHANGED Einzelstueck!vars
  <1>1. UNCHANGED <<zeilenVars, belegVars>>
    BY DEF LiesFuerStorno, BucheStorno, LiesFuerRueckgabe, PruefePositionen, RueckgabeVerletztRegel
  <1>2. \A o, s : Zurueckgenommen(o, s)' <=> Zurueckgenommen(o, s)
    <2>1. CASE \/ \E q \in Stornos, o \in Anfragen : LiesFuerStorno(q, o)
               \/ \E q \in Stornos : BucheStorno(q)
      BY <2>1 DEF LiesFuerStorno, BucheStorno, rueckVars, Zurueckgenommen
    <2>2. ASSUME NEW r \in Rueckgaben, NEW o \in Verkaeufe, NEW S \in SUBSET Stuecke,
                 LiesFuerRueckgabe(r, o, S)
          PROVE  \A t, s : Zurueckgenommen(t, s)' <=> Zurueckgenommen(t, s)
      BY <2>2 DEF LiesFuerRueckgabe, Zurueckgenommen, WareInduktiv, WareTypeOK
    <2>3. ASSUME NEW r \in Rueckgaben, PruefePositionen(r) \/ RueckgabeVerletztRegel(r)
          PROVE  \A t, s : Zurueckgenommen(t, s)' <=> Zurueckgenommen(t, s)
      BY <2>3 DEF PruefePositionen, RueckgabeVerletztRegel, Zurueckgenommen, WareInduktiv, WareTypeOK
    <2> QED
      BY <2>1, <2>2, <2>3
  <1>3. Gebuchte' = Gebuchte
    BY <1>1 DEF Gebuchte, belegVars
  <1>4. \A b, s : Verkauft(b, s)' <=> Verkauft(b, s)
    BY <1>1, <1>2, <1>3 DEF Verkauft, belegVars
  <1> QED
    BY <1>1, <1>3, <1>4, BesitzerGleich DEF zeilenVars

LEMMA EinzelstueckSchritt ==
    ASSUME WareInduktiv, BesitzerStimmt, BesitzerStimmt', [WareNext]_wareVars
    PROVE  [Einzelstueck!Next]_Einzelstueck!vars
  <1>1. ASSUME NEW a \in Verkaeufe, BucheVerkauf(a) PROVE Einzelstueck!Next
    <2>1. SchluesselVon[a] \in Schluessel /\ korb[a] \in SUBSET Stuecke
      BY SchluesselAnnahme DEF WareInduktiv, WareTypeOK, Anfragen
    <2> QED
      BY <1>1, <2>1, VerkaufIstVerkauf DEF Einzelstueck!Next
  <1>2. ASSUME NEW a \in Ankaeufe, BucheAnkauf(a) PROVE Einzelstueck!Next
    <2>1. korb[a] \in SUBSET Stuecke
      BY DEF WareInduktiv, WareTypeOK, Anfragen
    <2> QED
      BY <1>2, <2>1, AnkaufIstErwerb DEF Einzelstueck!Next
  <1>3. ASSUME NEW r \in Rueckgaben, BucheRueckgabe(r) PROVE Einzelstueck!Next
    <2>1. SchluesselVon[rzu[r]] \in Schluessel /\ Trifft(r) \in SUBSET Stuecke
      BY <1>3, SchluesselAnnahme DEF BucheRueckgabe, Trifft, WareInduktiv, WareTypeOK, BezugGebucht, Gebuchte
    <2> QED
      BY <1>3, <2>1, RueckgabeIstRuecknahme DEF Einzelstueck!Next
  <1>4. ASSUME NEW p \in Pflegen, Loesche(p) PROVE Einzelstueck!Next
    <2>1. PICK s \in Stuecke : Einzelstueck!ScheideAus(s)
      BY <1>4, LoeschenIstAusscheiden
    <2>2. {s} \in SUBSET Stuecke /\ s \in {s}
      OBVIOUS
    <2> QED
      BY <2>1, <2>2 DEF Einzelstueck!Next
  <1>5. CASE UNCHANGED wareVars
    BY <1>5, OhneBelegUnsichtbar DEF wareVars, zeilenVars
  <1>6. CASE \/ \E h \in Halter, s \in Stuecke : Reserviere(h, s) \/ GibFrei(h, s)
             \/ \E s \in Stuecke : RaeumeLiegengebliebenes(s)
    BY <1>6, ZeilenUnsichtbar
  <1>7. CASE \E a \in Verkaeufe : EmpfangeVerkauf(a) \/ VerkaufWeiter(a) \/ BrichAb(a)
    BY <1>1, <1>7, AnfrageUnsichtbar DEF VerkaufWeiter, Anfragen
  <1>8. CASE \E a \in Ankaeufe : EmpfangeAnkauf(a) \/ AnkaufWeiter(a) \/ BrichAb(a)
    BY <1>2, <1>8, AnfrageUnsichtbar DEF AnkaufWeiter, Anfragen
  <1>9. CASE \/ \E q \in Stornos, o \in Anfragen : LiesFuerStorno(q, o)
             \/ \E q \in Stornos : BucheStorno(q)
             \/ \E r \in Rueckgaben, o \in Verkaeufe, S \in (SUBSET Stuecke) \ {{}} : LiesFuerRueckgabe(r, o, S)
             \/ \E r \in Rueckgaben : PruefePositionen(r) \/ BucheRueckgabe(r) \/ RueckgabeVerletztRegel(r)
    BY <1>3, <1>9, RuecknahmeUnsichtbar
  <1>10. CASE \/ \E p \in Pflegen, s \in Stuecke : LiesEntwurf(p, s) \/ LiesVerkauftes(p, s) \/ LiesFreies(p, s)
              \/ \E p \in Pflegen : Veroeffentliche(p) \/ Archiviere(p) \/ Loesche(p) \/ PflegeAbgewiesen(p)
    BY <1>4, <1>10, PflegeUnsichtbar
  <1> QED
    BY <1>5, <1>6, <1>7, <1>8, <1>9, <1>10 DEF WareNext

LEMMA EinzelstueckAnfang ==
    ASSUME WareInit, BesitzerStimmt
    PROVE  Einzelstueck!Init
  <1>1. Gebuchte \cap Verkaeufe = Altverkauf
    BY AltAnnahme DEF WareInit, Gebuchte, Anfragen
  <1>2. \A a \in Verkaeufe, s \in Stuecke : Verkauft(a, s) <=> a \in Altverkauf /\ s \in Altstuecke
    BY <1>1 DEF WareInit, Verkauft, Zurueckgenommen, Anfragen
  <1>3. \A a \in Altverkauf : SchluesselVon[a] \in Schluessel /\ a \in Verkaeufe
    BY SchluesselAnnahme, AltAnnahme DEF Anfragen
  <1>4. \A s \in Altstuecke, a \in Altverkauf : s \in Stuecke /\ besitzer[s] = SchluesselVon[a]
    BY <1>2, <1>3, AltAnnahme DEF BesitzerStimmt
  <1>5. \A s \in Stuecke \ Altstuecke : besitzer[s] \in {Fremd, Laden}
    BY <1>2 DEF BesitzerStimmt
  <1>6. verbraucht = {k \in Schluessel : \E s \in Stuecke : besitzer[s] = k}
    <2>1. verbraucht = {SchluesselVon[a] : a \in Altverkauf}
      BY <1>1 DEF verbraucht
    <2>2. ASSUME NEW a \in Altverkauf PROVE \E s \in Stuecke : besitzer[s] = SchluesselVon[a]
      BY <1>4, AltAnnahme
    <2>3. ASSUME NEW k \in Schluessel, NEW s \in Stuecke, besitzer[s] = k
          PROVE  \E a \in Altverkauf : k = SchluesselVon[a]
      <3>1. s \in Altstuecke
        BY <1>5, <2>3, SchluesselAnnahme
      <3> QED
        BY <1>4, <2>3, <3>1, AltAnnahme
    <2> QED
      BY <1>3, <2>1, <2>2, <2>3
  <1>7. besitzer \in [Stuecke -> Schluessel \cup {Fremd, Laden}]
    <2>1. \A s \in Stuecke : besitzer[s] \in Schluessel \cup {Fremd, Laden}
      BY <1>3, <1>4, <1>5, AltAnnahme
    <2> QED
      BY <2>1 DEF besitzer
  <1> QED
    BY <1>6, <1>7 DEF Einzelstueck!Init, Einzelstueck!Orte

\* Requests, locks, retries and the catalogue together implement a shop in
\* which a piece has one owner and only a return brings it back.
THEOREM VerfeinertEinzelstueck == WareSpec => IstEinzelstueck
  <1>1. WareInit => Einzelstueck!Init
    BY AnfangInduktiv, MappingStimmt, EinzelstueckAnfang
  <1>2. WareInduktiv /\ WareInduktiv' /\ [WareNext]_wareVars => [Einzelstueck!Next]_Einzelstueck!vars
    <2>1. WareInduktiv' => BesitzerStimmt'
      BY MappingStimmt, PTL
    <2> QED
      BY <2>1, MappingStimmt, EinzelstueckSchritt
  <1> QED
    BY <1>1, <1>2, ImmerInduktiv, PTL DEF WareSpec, IstEinzelstueck, Einzelstueck!Spec

(***************************************************************************)
(* Ware implements Belegstelle                                             *)
(***************************************************************************)

\* What the mapping says of each key: its one receipt, and nothing else shown.
BelegeStimmen ==
    /\ \A k \in Schluessel : \A a \in BelegZumSchluessel(k) : BelegDesSchluessels(k) = a
    /\ \A k \in Schluessel : BelegDesSchluessels(k) \in Anfragen \cup {KeineAnfrage}
    /\ \A k \in Schluessel : BelegDesSchluessels(k) # KeineAnfrage =>
          BelegDesSchluessels(k) \in BelegZumSchluessel(k)
    /\ \A k \in Schluessel : GezeigteBelege(k) \subseteq Anfragen \cap {BelegDesSchluessels(k)}

LEMMA BelegeAbgebildet == WareInduktiv => BelegeStimmen
  <1> SUFFICES ASSUME WareInduktiv PROVE BelegeStimmen
    OBVIOUS
  <1>1. ASSUME NEW k \in Schluessel, NEW a \in BelegZumSchluessel(k)
        PROVE  BelegDesSchluessels(k) = a /\ a \in Anfragen
    <2>1. \A b \in BelegZumSchluessel(k) : b = a
      BY <1>1 DEF WareInduktiv, AntwortIstDerBeleg, BelegZumSchluessel
    <2>2. (CHOOSE b \in BelegZumSchluessel(k) : TRUE) = a
      BY <1>1, <2>1
    <2>3. BelegZumSchluessel(k) # {} /\ a \in Anfragen
      BY <1>1 DEF BelegZumSchluessel, Gebuchte
    <2> QED
      BY <2>2, <2>3 DEF BelegDesSchluessels
  <1>2. \A k : BelegZumSchluessel(k) = {} => BelegDesSchluessels(k) = KeineAnfrage
    BY DEF BelegDesSchluessels
  <1>3. ASSUME NEW k \in Schluessel, NEW b \in GezeigteBelege(k)
        PROVE  b \in BelegZumSchluessel(k)
    BY <1>3 DEF GezeigteBelege, WareInduktiv, AntwortIstDerBeleg
  <1>4. ASSUME NEW k \in Schluessel
        PROVE  /\ BelegDesSchluessels(k) \in Anfragen \cup {KeineAnfrage}
               /\ BelegDesSchluessels(k) # KeineAnfrage =>
                     BelegDesSchluessels(k) \in BelegZumSchluessel(k)
    BY <1>1, <1>2
  <1> QED
    BY <1>1, <1>3, <1>4 DEF BelegeStimmen

\* No step of any request takes a booking back.
LEMMA GebuchtBleibt ==
    ASSUME WareTypeOK, [WareNext]_wareVars
    PROVE  Gebuchte \subseteq Gebuchte'
  <1> USE DEF WareTypeOK, Gebuchte
  <1>1. CASE UNCHANGED belegVars
    BY <1>1 DEF belegVars
  <1>2. ASSUME NEW a \in Anfragen, NEW S, NEW h, Empfange(a, S, h) PROVE Gebuchte \subseteq Gebuchte'
    BY <1>2 DEF Empfange
  <1>3. ASSUME NEW a \in Anfragen,
               \/ SperreWare(a) \/ LegeWareAn(a) \/ BucheVerkauf(a) \/ BucheAnkauf(a)
               \/ BeantworteMitSieger(a) \/ BrichAb(a)
        PROVE  Gebuchte \subseteq Gebuchte'
    BY <1>3 DEF SperreWare, LegeWareAn, BucheVerkauf, BucheAnkauf, Belege, BeantworteMitSieger, BrichAb
  <1>4. CASE \/ \E a \in Verkaeufe : EmpfangeVerkauf(a) \/ VerkaufWeiter(a) \/ BrichAb(a)
             \/ \E a \in Ankaeufe : EmpfangeAnkauf(a) \/ AnkaufWeiter(a) \/ BrichAb(a)
    BY <1>2, <1>3, <1>4
       DEF EmpfangeVerkauf, EmpfangeAnkauf, VerkaufWeiter, AnkaufWeiter, Anfragen
  <1>5. CASE \/ \E h \in Halter, s \in Stuecke : Reserviere(h, s) \/ GibFrei(h, s)
             \/ \E s \in Stuecke : RaeumeLiegengebliebenes(s)
    BY <1>1, <1>5 DEF Reserviere, GibFrei, RaeumeLiegengebliebenes, Freistellen
  <1>6. CASE \/ \E q \in Stornos, o \in Anfragen : LiesFuerStorno(q, o)
             \/ \E q \in Stornos : BucheStorno(q)
             \/ \E r \in Rueckgaben, o \in Verkaeufe, S \in (SUBSET Stuecke) \ {{}} : LiesFuerRueckgabe(r, o, S)
             \/ \E r \in Rueckgaben : PruefePositionen(r) \/ BucheRueckgabe(r) \/ RueckgabeVerletztRegel(r)
    BY <1>1, <1>6 DEF LiesFuerStorno, BucheStorno, LiesFuerRueckgabe, PruefePositionen,
                      BucheRueckgabe, RueckgabeVerletztRegel
  <1>7. CASE \/ \E p \in Pflegen, s \in Stuecke : LiesEntwurf(p, s) \/ LiesVerkauftes(p, s) \/ LiesFreies(p, s)
             \/ \E p \in Pflegen : Veroeffentliche(p) \/ Archiviere(p) \/ Loesche(p) \/ PflegeAbgewiesen(p)
    BY <1>1, <1>7 DEF LiesEntwurf, LiesVerkauftes, LiesFreies, Lies, Veroeffentliche, Archiviere,
                      Loesche, PflegeAbgewiesen, Beende
  <1> QED
    BY <1>1, <1>4, <1>5, <1>6, <1>7 DEF WareNext, wareVars

LEMMA BelegstelleSchritt ==
    ASSUME WareTypeOK, BelegeStimmen, BelegeStimmen', [WareNext]_wareVars
    PROVE  Belegstelle!Next
  <1>1. \A k \in Schluessel : BelegZumSchluessel(k) \subseteq BelegZumSchluessel(k)'
    BY GebuchtBleibt DEF BelegZumSchluessel
  <1>2. \A k \in Schluessel : BelegDesSchluessels(k) # KeineAnfrage =>
            BelegDesSchluessels(k)' = BelegDesSchluessels(k)
    BY <1>1 DEF BelegeStimmen
  <1>3. Belegstelle!Buche
    BY <1>2 DEF Belegstelle!Buche, BelegeStimmen
  <1>4. Belegstelle!Zeige
    BY DEF Belegstelle!Zeige, BelegeStimmen
  <1> QED
    BY <1>3, <1>4 DEF Belegstelle!Next

\* However many sales and purchases carry a key, and however they meet: the
\* key keeps its one receipt and no request shows another.
THEOREM VerfeinertBelegstelle == WareSpec => IstBelegstelle
  <1>1. WareInduktiv => Belegstelle!Init
    BY BelegeAbgebildet DEF BelegeStimmen, Belegstelle!Init
  <1>2. WareInduktiv /\ WareInduktiv' /\ [WareNext]_wareVars => [Belegstelle!Next]_Belegstelle!vars
    <2>1. WareInduktiv' => BelegeStimmen'
      BY BelegeAbgebildet, PTL
    <2>2. WareInduktiv => WareTypeOK
      BY DEF WareInduktiv
    <2> QED
      BY <2>1, <2>2, BelegeAbgebildet, BelegstelleSchritt
  <1> QED
    BY <1>1, <1>2, AnfangInduktiv, ImmerInduktiv, PTL DEF WareSpec, IstBelegstelle, Belegstelle!Spec

(***************************************************************************)
(* Which returns succeed                                                   *)
(***************************************************************************)

\* Nor does any step change the pieces of a booking.
LEMMA GebuchterKorbBleibt ==
    ASSUME WareTypeOK, [WareNext]_wareVars
    PROVE  \A a \in Gebuchte : korb'[a] = korb[a]
  <1> USE DEF WareTypeOK, Gebuchte
  <1>1. CASE UNCHANGED korb
    BY <1>1
  <1>2. ASSUME NEW a \in Anfragen, NEW S, NEW h, Empfange(a, S, h)
        PROVE  \A b \in Gebuchte : korb'[b] = korb[b]
    BY <1>2 DEF Empfange
  <1>3. CASE \/ \E a \in Verkaeufe : VerkaufWeiter(a) \/ BrichAb(a)
             \/ \E a \in Ankaeufe : AnkaufWeiter(a) \/ BrichAb(a)
    BY <1>1, <1>3 DEF VerkaufWeiter, AnkaufWeiter, SperreWare, LegeWareAn, BucheVerkauf, BucheAnkauf, Belege,
                      BeantworteMitSieger, BrichAb
  <1>4. CASE (\E a \in Verkaeufe : EmpfangeVerkauf(a)) \/ (\E a \in Ankaeufe : EmpfangeAnkauf(a))
    BY <1>2, <1>4 DEF EmpfangeVerkauf, EmpfangeAnkauf, Anfragen
  <1>5. CASE \/ \E h \in Halter, s \in Stuecke : Reserviere(h, s) \/ GibFrei(h, s)
             \/ \E s \in Stuecke : RaeumeLiegengebliebenes(s)
    BY <1>1, <1>5 DEF Reserviere, GibFrei, RaeumeLiegengebliebenes, Freistellen, belegVars
  <1>6. CASE \/ \E q \in Stornos, o \in Anfragen : LiesFuerStorno(q, o)
             \/ \E q \in Stornos : BucheStorno(q)
             \/ \E r \in Rueckgaben, o \in Verkaeufe, S \in (SUBSET Stuecke) \ {{}} : LiesFuerRueckgabe(r, o, S)
             \/ \E r \in Rueckgaben : PruefePositionen(r) \/ BucheRueckgabe(r) \/ RueckgabeVerletztRegel(r)
    BY <1>1, <1>6 DEF LiesFuerStorno, BucheStorno, LiesFuerRueckgabe, PruefePositionen,
                      BucheRueckgabe, RueckgabeVerletztRegel, belegVars
  <1>7. CASE \/ \E p \in Pflegen, s \in Stuecke : LiesEntwurf(p, s) \/ LiesVerkauftes(p, s) \/ LiesFreies(p, s)
             \/ \E p \in Pflegen : Veroeffentliche(p) \/ Archiviere(p) \/ Loesche(p) \/ PflegeAbgewiesen(p)
    BY <1>1, <1>7 DEF LiesEntwurf, LiesVerkauftes, LiesFreies, Lies, Veroeffentliche, Archiviere,
                      Loesche, PflegeAbgewiesen, Beende, belegVars
  <1> QED
    BY <1>1, <1>3, <1>4, <1>5, <1>6, <1>7 DEF WareNext, wareVars, belegVars

LEMMA NeuverkaufDauert ==
    ASSUME WareTypeOK, [WareNext]_wareVars
    PROVE  \A a \in Neuverkaeufe : a \in Neuverkaeufe' /\ korb'[a] = korb[a]
  BY GebuchtBleibt, GebuchterKorbBleibt DEF Neuverkaeufe

\* Only a sale makes a row SOLD, out of a reservation; only a reservation
\* stamps a row.
LEMMA VerkauftMitUmschlag ==
    ASSUME WareInduktiv, WareInduktiv', [WareNext]_wareVars, UmschlagErklaert,
           NEW s \in Stuecke, zustand'[s] = "SOLD", umschlag'[s]
    PROVE  \E a \in Neuverkaeufe' : s \in korb'[a]
  <1> USE DEF WareInduktiv, WareTypeOK
  <1>1. CASE zustand[s] = "SOLD" /\ umschlag[s]
    BY <1>1, NeuverkaufDauert DEF UmschlagErklaert
  <1>2. CASE UNCHANGED <<zustand, umschlag>>
    BY <1>1, <1>2
  <1>3. CASE \E a \in Verkaeufe : BucheVerkauf(a)
    <2>1. PICK a \in Verkaeufe : BucheVerkauf(a)
      BY <1>3
    <2>2. a \in Gebuchte' /\ korb' = korb /\ umschlag' = umschlag
      BY <2>1 DEF BucheVerkauf, Belege, Gebuchte, Anfragen
    <2>3. CASE s \in korb[a]
      <3>1. a \in Neuverkaeufe'
        <4>1. a \notin Altverkauf
          BY <2>1 DEF BucheVerkauf, Gebuchte, UmschlagErklaert
        <4> QED
          BY <2>2, <4>1 DEF Neuverkaeufe
      <3> QED
        BY <2>2, <2>3, <3>1
    <2>4. CASE s \notin korb[a]
      BY <1>1, <2>1, <2>2, <2>4 DEF BucheVerkauf
    <2> QED
      BY <2>3, <2>4
  <1>4. CASE \/ \E h \in Halter, t \in Stuecke : Reserviere(h, t) \/ GibFrei(h, t)
             \/ \E t \in Stuecke : RaeumeLiegengebliebenes(t)
    BY <1>1, <1>4 DEF Reserviere, GibFrei, RaeumeLiegengebliebenes, Freistellen
  <1>5. CASE \E a \in Ankaeufe : BucheAnkauf(a)
    BY <1>1, <1>5 DEF BucheAnkauf, Belege
  <1>6. CASE \E r \in Rueckgaben : BucheRueckgabe(r)
    BY <1>1, <1>6 DEF BucheRueckgabe
  <1>7. CASE \E p \in Pflegen : Veroeffentliche(p) \/ Archiviere(p) \/ Loesche(p)
    <2>1. PICK p \in Pflegen : Veroeffentliche(p) \/ Archiviere(p) \/ Loesche(p)
      BY <1>7
    <2>2. CASE Veroeffentliche(p)
      BY <1>1, <2>2 DEF Veroeffentliche
    <2>3. CASE Archiviere(p)
      BY <1>2, <2>3 DEF Archiviere
    <2>4. CASE Loesche(p)
      BY <1>1, <2>4 DEF Loesche
    <2> QED
      BY <2>1, <2>2, <2>3, <2>4
  <1>8. CASE \/ \E a \in Verkaeufe : EmpfangeVerkauf(a) \/ SperreWare(a) \/ BeantworteMitSieger(a) \/ BrichAb(a)
             \/ \E a \in Ankaeufe : EmpfangeAnkauf(a) \/ LegeWareAn(a) \/ BeantworteMitSieger(a) \/ BrichAb(a)
             \/ \E q \in Stornos, o \in Anfragen : LiesFuerStorno(q, o)
             \/ \E q \in Stornos : BucheStorno(q)
             \/ \E r \in Rueckgaben, o \in Verkaeufe, S \in (SUBSET Stuecke) \ {{}} : LiesFuerRueckgabe(r, o, S)
             \/ \E r \in Rueckgaben : PruefePositionen(r) \/ RueckgabeVerletztRegel(r)
             \/ \E p \in Pflegen, t \in Stuecke : LiesEntwurf(p, t) \/ LiesVerkauftes(p, t) \/ LiesFreies(p, t)
             \/ \E p \in Pflegen : PflegeAbgewiesen(p)
    BY <1>2, <1>8 DEF EmpfangeVerkauf, EmpfangeAnkauf, Empfange, SperreWare, LegeWareAn, BeantworteMitSieger, BrichAb,
                      LiesFuerStorno, BucheStorno, LiesFuerRueckgabe, PruefePositionen, RueckgabeVerletztRegel,
                      LiesEntwurf, LiesVerkauftes, LiesFreies, Lies, PflegeAbgewiesen, zeilenVars
  <1> QED
    BY <1>2, <1>3, <1>4, <1>5, <1>6, <1>7, <1>8 DEF WareNext, VerkaufWeiter, AnkaufWeiter, wareVars, zeilenVars

\* A sale out of a reservation is never taken back, as the table refuses it.
LEMMA BuchtNurAltes ==
    ASSUME WareInduktiv, UmschlagErklaert, NEW r \in Rueckgaben, BucheRueckgabe(r)
    PROVE  rzu[r] \in Altverkauf
  <1>1. rzu[r] \in Gebuchte \cap Verkaeufe /\ rstuecke[r] \subseteq korb[rzu[r]] /\ rstuecke[r] # {}
    BY DEF BucheRueckgabe, WareInduktiv, BezugGebucht, UmschlagErklaert
  <1>2. PICK s \in rstuecke[r] : TRUE
    BY <1>1
  <1>3. SUFFICES ASSUME rzu[r] \notin Altverkauf PROVE FALSE
    OBVIOUS
  <1>4. zustand[s] = "SOLD" /\ umschlag[s]
    BY <1>1, <1>2, <1>3 DEF WareInduktiv, NeuverkaufBleibt, Neuverkaeufe
  <1> QED
    BY <1>2, <1>4 DEF BucheRueckgabe, Trifft, ZeileErlaubt

\* What the table refuses is archived or on a sale out of a reservation.
LEMMA RegelTrifftZu ==
    ASSUME WareInduktiv, UmschlagErklaert, NEW r \in Rueckgaben, RueckgabeVerletztRegel(r)
    PROVE  \E s \in rstuecke[r] : archiviert[s] \/ \E a \in Neuverkaeufe : s \in korb[a]
  <1>1. PICK s \in rstuecke[r] : zustand[s] = "SOLD" /\ (umschlag[s] \/ archiviert[s])
    BY DEF RueckgabeVerletztRegel, Trifft, ZeileErlaubt
  <1>2. s \in Stuecke
    BY <1>1 DEF WareInduktiv, WareTypeOK
  <1> QED
    BY <1>1, <1>2 DEF UmschlagErklaert

\* No piece is taken out of the archive.
LEMMA ArchivBleibt ==
    ASSUME WareTypeOK, [WareNext]_wareVars
    PROVE  \A s \in Stuecke : archiviert[s] => archiviert'[s]
  <1>1. CASE UNCHANGED archiviert
    BY <1>1
  <1>2. ASSUME NEW p \in Pflegen, Archiviere(p)
        PROVE  \A s \in Stuecke : archiviert[s] => archiviert'[s]
    BY <1>2 DEF Archiviere, WareTypeOK
  <1>3. CASE UNCHANGED zeilenVars
    BY <1>1, <1>3 DEF zeilenVars
  <1>4. CASE \/ \E h \in Halter, t \in Stuecke : Reserviere(h, t) \/ GibFrei(h, t)
             \/ \E t \in Stuecke : RaeumeLiegengebliebenes(t)
             \/ \E a \in Verkaeufe : BucheVerkauf(a)
             \/ \E a \in Ankaeufe : BucheAnkauf(a)
             \/ \E r \in Rueckgaben : BucheRueckgabe(r)
             \/ \E p \in Pflegen : Veroeffentliche(p) \/ Loesche(p)
    BY <1>1, <1>4 DEF Reserviere, GibFrei, RaeumeLiegengebliebenes, Freistellen, BucheVerkauf, BucheAnkauf, Belege,
                      BucheRueckgabe, Veroeffentliche, Loesche
  <1>5. CASE \/ \E a \in Verkaeufe : EmpfangeVerkauf(a) \/ SperreWare(a) \/ BeantworteMitSieger(a) \/ BrichAb(a)
             \/ \E a \in Ankaeufe : EmpfangeAnkauf(a) \/ LegeWareAn(a) \/ BeantworteMitSieger(a) \/ BrichAb(a)
             \/ \E q \in Stornos, o \in Anfragen : LiesFuerStorno(q, o)
             \/ \E q \in Stornos : BucheStorno(q)
             \/ \E r \in Rueckgaben, o \in Verkaeufe, S \in (SUBSET Stuecke) \ {{}} : LiesFuerRueckgabe(r, o, S)
             \/ \E r \in Rueckgaben : PruefePositionen(r) \/ RueckgabeVerletztRegel(r)
             \/ \E p \in Pflegen, t \in Stuecke : LiesEntwurf(p, t) \/ LiesVerkauftes(p, t) \/ LiesFreies(p, t)
             \/ \E p \in Pflegen : PflegeAbgewiesen(p)
    BY <1>3, <1>5 DEF EmpfangeVerkauf, EmpfangeAnkauf, Empfange, SperreWare, LegeWareAn, BeantworteMitSieger, BrichAb,
                      LiesFuerStorno, BucheStorno, LiesFuerRueckgabe, PruefePositionen, RueckgabeVerletztRegel,
                      LiesEntwurf, LiesVerkauftes, LiesFreies, Lies, PflegeAbgewiesen
  <1> QED
    BY <1>1, <1>2, <1>4, <1>5 DEF WareNext, VerkaufWeiter, AnkaufWeiter, wareVars, zeilenVars

\* A return that is not the one of this step stays what it was.
LEMMA RueckgabeSchritt ==
    ASSUME WareTypeOK, [WareNext]_wareVars, NEW r \in Rueckgaben
    PROVE  \/ UNCHANGED <<rstand[r], rzu[r], rstuecke[r]>>
           \/ rstand'[r] \in {"gelesen", "abgewiesen"} /\ rstuecke'[r] # {}
           \/ rstand[r] # "bereit" /\ rstand'[r] \in {"geprueft", "abgewiesen"} /\ UNCHANGED <<rzu[r], rstuecke[r]>>
           \/ BucheRueckgabe(r) /\ UNCHANGED <<rzu[r], rstuecke[r]>>
           \/ RueckgabeVerletztRegel(r) /\ UNCHANGED <<rzu[r], rstuecke[r]>>
  <1> USE DEF WareTypeOK
  <1>1. CASE UNCHANGED rueckVars
    BY <1>1 DEF rueckVars
  <1>2. ASSUME NEW q \in Rueckgaben, NEW o \in Verkaeufe, NEW S \in (SUBSET Stuecke) \ {{}}, LiesFuerRueckgabe(q, o, S)
        PROVE  \/ UNCHANGED <<rstand[r], rzu[r], rstuecke[r]>>
               \/ rstand'[r] \in {"gelesen", "abgewiesen"} /\ rstuecke'[r] # {}
    <2>1. rstuecke' = [rstuecke EXCEPT ![q] = S] /\ rzu' = [rzu EXCEPT ![q] = o]
      BY <1>2 DEF LiesFuerRueckgabe
    <2>3. S # {}
      BY <1>2
    <2>2. rstand' = [rstand EXCEPT ![q] = "abgewiesen"] \/ rstand' = [rstand EXCEPT ![q] = "gelesen"]
      BY <1>2 DEF LiesFuerRueckgabe
    <2> QED
      BY <2>1, <2>2, <2>3
  <1>3. ASSUME NEW q \in Rueckgaben, PruefePositionen(q)
        PROVE  \/ UNCHANGED <<rstand[r], rzu[r], rstuecke[r]>>
               \/ rstand[r] # "bereit" /\ rstand'[r] \in {"geprueft", "abgewiesen"} /\ UNCHANGED <<rzu[r], rstuecke[r]>>
    BY <1>3 DEF PruefePositionen
  <1>4. ASSUME NEW q \in Rueckgaben, BucheRueckgabe(q) \/ RueckgabeVerletztRegel(q)
        PROVE  /\ UNCHANGED <<rzu[r], rstuecke[r]>>
               /\ UNCHANGED rstand[r] \/ q = r
    BY <1>4 DEF BucheRueckgabe, RueckgabeVerletztRegel
  <1>5. CASE \/ \E h \in Halter, t \in Stuecke : Reserviere(h, t) \/ GibFrei(h, t)
             \/ \E t \in Stuecke : RaeumeLiegengebliebenes(t)
             \/ \E a \in Verkaeufe : EmpfangeVerkauf(a) \/ VerkaufWeiter(a) \/ BrichAb(a)
             \/ \E a \in Ankaeufe : EmpfangeAnkauf(a) \/ AnkaufWeiter(a) \/ BrichAb(a)
    BY <1>1, <1>5 DEF Reserviere, GibFrei, RaeumeLiegengebliebenes, Freistellen, EmpfangeVerkauf, EmpfangeAnkauf,
                      Empfange, VerkaufWeiter, AnkaufWeiter, SperreWare, LegeWareAn, BucheVerkauf, BucheAnkauf,
                      Belege, BeantworteMitSieger, BrichAb
  <1>6. CASE \/ \E q \in Stornos, o \in Anfragen : LiesFuerStorno(q, o)
             \/ \E q \in Stornos : BucheStorno(q)
             \/ \E p \in Pflegen, t \in Stuecke : LiesEntwurf(p, t) \/ LiesVerkauftes(p, t) \/ LiesFreies(p, t)
             \/ \E p \in Pflegen : Veroeffentliche(p) \/ Archiviere(p) \/ Loesche(p) \/ PflegeAbgewiesen(p)
    BY <1>1, <1>6 DEF LiesFuerStorno, BucheStorno, LiesEntwurf, LiesVerkauftes, LiesFreies, Lies, Veroeffentliche,
                      Archiviere, Loesche, PflegeAbgewiesen, Beende
  <1> QED
    BY <1>1, <1>2, <1>3, <1>4, <1>5, <1>6 DEF WareNext, wareVars

LEMMA RuecknahmeErhaelt ==
    ASSUME WareInduktiv, WareInduktiv', [WareNext]_wareVars, UmschlagErklaert, RuecknahmeNurAltes
    PROVE  UmschlagErklaert' /\ RuecknahmeNurAltes'
  <1>1. WareTypeOK
    BY DEF WareInduktiv
  <1>2. ASSUME NEW r \in Rueckgaben, rstand'[r] # "bereit" PROVE rstuecke'[r] # {}
    BY <1>1, <1>2, RueckgabeSchritt DEF UmschlagErklaert, BucheRueckgabe, RueckgabeVerletztRegel
  <1>3. UmschlagErklaert'
    BY <1>1, <1>2, GebuchtBleibt, VerkauftMitUmschlag DEF UmschlagErklaert
  <1>4. ASSUME NEW r \in Rueckgaben, rstand'[r] = "gebucht" PROVE rzu'[r] \in Altverkauf
    <2>1. CASE BucheRueckgabe(r)
      BY <1>1, <2>1, RueckgabeSchritt, BuchtNurAltes DEF BucheRueckgabe
    <2>2. RueckgabeVerletztRegel(r) => rstand'[r] = "verletzt"
      BY <1>1 DEF RueckgabeVerletztRegel, WareTypeOK
    <2> QED
      BY <1>1, <1>4, <2>1, <2>2, RueckgabeSchritt DEF RuecknahmeNurAltes
  <1>5. ASSUME NEW r \in Rueckgaben, rstand'[r] = "verletzt"
        PROVE  \E s \in rstuecke'[r] : archiviert'[s] \/ \E a \in Neuverkaeufe' : s \in korb'[a]
    <2>1. /\ rstuecke'[r] = rstuecke[r]
          /\ \E s \in rstuecke[r] : archiviert[s] \/ \E a \in Neuverkaeufe : s \in korb[a]
      <3>1. CASE RueckgabeVerletztRegel(r)
        BY <1>1, <3>1, RueckgabeSchritt, RegelTrifftZu DEF RueckgabeVerletztRegel
      <3> QED
        BY <1>1, <1>5, <3>1, RueckgabeSchritt DEF RuecknahmeNurAltes, BucheRueckgabe, WareTypeOK
    <2>2. rstuecke[r] \subseteq Stuecke
      BY <1>1 DEF WareTypeOK
    <2> QED
      BY <1>1, <2>1, <2>2, ArchivBleibt, NeuverkaufDauert
  <1> QED
    BY <1>3, <1>4, <1>5 DEF RuecknahmeNurAltes

\* Exactly the sales that went through a reservation cannot be taken back.
THEOREM NurAltesKommtZurueck == WareSpec => []RuecknahmeNurAltes
  <1>1. WareInit => UmschlagErklaert /\ RuecknahmeNurAltes
    <2> SUFFICES ASSUME WareInit PROVE UmschlagErklaert /\ RuecknahmeNurAltes
      OBVIOUS
    <2>1. Altverkauf \subseteq Gebuchte
      BY AltAnnahme DEF WareInit, Gebuchte, Anfragen
    <2> QED
      BY <2>1 DEF WareInit, UmschlagErklaert, RuecknahmeNurAltes
  <1>2. /\ WareInduktiv /\ WareInduktiv' /\ [WareNext]_wareVars /\ UmschlagErklaert /\ RuecknahmeNurAltes
        => UmschlagErklaert' /\ RuecknahmeNurAltes'
    BY RuecknahmeErhaelt
  <1> QED
    BY <1>1, <1>2, ImmerInduktiv, PTL DEF WareSpec

=============================================================================
