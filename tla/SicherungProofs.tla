---------------------------- MODULE SicherungProofs ----------------------------
(***************************************************************************)
(* Proofs about the reads of the till, for any set of calls and addresses, *)
(* any threshold and any number of attempts.                               *)
(*                                                                         *)
(* The argument: the reference count of a request is exactly the number of *)
(* its interested callers (Zaehlung), so it comes to zero only with the    *)
(* last of them; and no reading of the bucket is ever ahead of the         *)
(* requests that failed (Spur), so the breaker opens on nothing less.      *)
(***************************************************************************)
EXTENDS Sicherung, FiniteSetTheorems, TLAPS

(***************************************************************************)
(* The inductive invariant                                                 *)
(***************************************************************************)

\* The reference count counts the interested callers.
Zaehlung == \A u \in Adressen : bezug[u] = Cardinality(Interessenten(u))

\* Who waits, waits for a request; who may still try has attempts left.
Eintrag ==
    \A r \in Rufe :
        /\ rufstand[r] = "wartet" => flug[Adresse[r]] # "keiner"
        /\ rufstand[r] \in {"frei", "pause"} => versuch[r] < Anlaeufe

\* The bucket and what was read from it against the requests that failed.
Spur ==
    /\ kreis.fehler <= misslungen
    /\ \A u \in Adressen : gelesen[u] <= misslungen
    /\ kreis.offen => kreis.fehler = Schwelle

SicherungInduktiv ==
    /\ SicherungTypeOK
    /\ Zaehlung
    /\ Eintrag
    /\ Spur

(***************************************************************************)
(* Interested callers                                                      *)
(***************************************************************************)

\* The interested callers of an address are finitely many.
LEMMA EndlichInteressiert ==
    ASSUME NEW u
    PROVE  IsFiniteSet(Interessenten(u)) /\ Cardinality(Interessenten(u)) \in Nat
  <1>1. Interessenten(u) \in SUBSET Rufe
    BY DEF Interessenten, Wartende
  <1>2. IsFiniteSet(Interessenten(u))
    BY <1>1, FS_Subset, SicherungAnnahme
  <1>3. QED
    BY <1>2, FS_CardinalityType

\* A step that leaves calls and signals alone leaves the interested alone.
LEMMA InteressentenBleiben ==
    ASSUME UNCHANGED <<rufstand, will>>, NEW u
    PROVE  Interessenten(u)' = Interessenten(u)
  BY DEF Interessenten, Wartende

\* An attempt adds its caller to the interested of its address, if it is.
LEMMA InteressentenNachVersuch ==
    ASSUME SicherungTypeOK, NEW r \in Rufe, Versuche(r), NEW u \in Adressen
    PROVE  Interessenten(u)' = IF u = Adresse[r] /\ will[r] THEN Interessenten(u) \cup {r}
                               ELSE Interessenten(u)
  <1>1. \A q \in Rufe : rufstand'[q] = IF q = r THEN IF will[r] THEN "wartet" ELSE "abgebrochen"
                                       ELSE rufstand[q]
    BY DEF Versuche, SicherungTypeOK
  <1>2. will' = will /\ rufstand[r] # "wartet"
    BY DEF Versuche
  <1>3. \A q \in Rufe : q \in Interessenten(u)' <=>
           q \in Interessenten(u) \/ (q = r /\ u = Adresse[r] /\ will[r])
    BY <1>1, <1>2 DEF Interessenten, Wartende
  <1>4. Interessenten(u)' \subseteq Rufe /\ Interessenten(u) \subseteq Rufe
    BY DEF Interessenten, Wartende
  <1>5. QED
    BY <1>3, <1>4

\* A cancellation takes its caller out of the interested of its address.
LEMMA InteressentenNachBruch ==
    ASSUME SicherungTypeOK, NEW r \in Rufe, Breche(r), NEW u \in Adressen
    PROVE  Interessenten(u)' = Interessenten(u) \ {r}
  <1>1. \A q \in Rufe : will'[q] = IF q = r THEN FALSE ELSE will[q]
    BY DEF Breche, SicherungTypeOK
  <1>2. \A q \in Rufe : q # r => rufstand'[q] = rufstand[q]
    BY DEF Breche, SicherungTypeOK
  <1>3. \A q \in Rufe : q \in Interessenten(u)' <=> q \in Interessenten(u) /\ q # r
    BY <1>1, <1>2 DEF Interessenten, Wartende
  <1>4. Interessenten(u)' \subseteq Rufe /\ Interessenten(u) \subseteq Rufe
    BY DEF Interessenten, Wartende
  <1>5. QED
    BY <1>3, <1>4

\* When a request settles nobody waits for its address any more, and nothing
\* changes for the others.
LEMMA InteressentenNachEnde ==
    ASSUME NEW u \in Adressen, NEW f, \A q \in Rufe : f[q] # "wartet",
           rufstand' = [q \in Rufe |-> IF q \in Wartende(u) THEN f[q] ELSE rufstand[q]],
           will' = will, NEW v \in Adressen
    PROVE  Interessenten(v)' = IF v = u THEN {} ELSE Interessenten(v)
  <1>1. \A q \in Rufe : rufstand'[q] = "wartet" <=> rufstand[q] = "wartet" /\ Adresse[q] # u
    BY DEF Wartende
  <1>2. QED
    BY <1>1 DEF Interessenten, Wartende

\* The three ways a request settles have this form.
LEMMA InteressentenNachAntwort ==
    ASSUME NEW u \in Adressen, NEW w \in BOOLEAN,
           Erfolg(u) \/ Abweisung(u) \/ Misserfolg(u, w), NEW v \in Adressen
    PROVE  Interessenten(v)' = IF v = u THEN {} ELSE Interessenten(v)
  <1>1. will' = will
    BY DEF Erfolg, Abweisung, Misserfolg, Erledige
  <1>2. CASE Erfolg(u)
    <2> DEFINE f == [q \in Rufe |-> "ok"]
    <2>1. rufstand' = [q \in Rufe |-> IF q \in Wartende(u) THEN f[q] ELSE rufstand[q]]
      BY <1>2 DEF Erfolg
    <2>2. \A q \in Rufe : f[q] # "wartet"
      OBVIOUS
    <2>3. QED
      BY <1>1, <2>1, <2>2, InteressentenNachEnde
  <1>3. CASE Abweisung(u)
    <2> DEFINE f == [q \in Rufe |-> "abgewiesen"]
    <2>1. rufstand' = [q \in Rufe |-> IF q \in Wartende(u) THEN f[q] ELSE rufstand[q]]
      BY <1>3 DEF Abweisung
    <2>2. \A q \in Rufe : f[q] # "wartet"
      OBVIOUS
    <2>3. QED
      BY <1>1, <2>1, <2>2, InteressentenNachEnde
  <1>4. CASE Misserfolg(u, w)
    <2> DEFINE f == [q \in Rufe |-> NachFehler(q, w)]
    <2>1. rufstand' = [q \in Rufe |-> IF q \in Wartende(u) THEN f[q] ELSE rufstand[q]]
      BY <1>4 DEF Misserfolg
    <2>2. \A q \in Rufe : f[q] # "wartet"
      BY DEF NachFehler
    <2>3. QED
      BY <1>1, <2>1, <2>2, InteressentenNachEnde
  <1>5. QED
    BY <1>2, <1>3, <1>4

(***************************************************************************)
(* The initial states and one step                                         *)
(***************************************************************************)

\* Before the first call there is nothing to count.
LEMMA SicherungAnfang == SicherungInit => SicherungInduktiv
  <1> SUFFICES ASSUME SicherungInit PROVE SicherungInduktiv
    OBVIOUS
  <1>1. SicherungTypeOK
    BY SicherungAnnahme DEF SicherungInit, SicherungTypeOK, Geschlossen
  <1>2. \A u \in Adressen : Interessenten(u) = {}
    BY DEF SicherungInit, Interessenten, Wartende
  <1>3. Zaehlung
    BY <1>2, FS_EmptySet DEF SicherungInit, Zaehlung
  <1>4. Eintrag /\ Spur
    BY SicherungAnnahme DEF SicherungInit, Eintrag, Spur, Geschlossen
  <1>5. QED
    BY <1>1, <1>3, <1>4 DEF SicherungInduktiv

\* Every step keeps the types; a reference count does not fall below zero
\* because the caller that leaves was counted.
LEMMA SicherungTypSchritt ==
    SicherungInduktiv /\ [SicherungNext]_sicherungVars => SicherungTypeOK'
  <1> SUFFICES ASSUME SicherungInduktiv, [SicherungNext]_sicherungVars
               PROVE  SicherungTypeOK'
    OBVIOUS
  <1> USE SicherungAnnahme DEF SicherungInduktiv, SicherungTypeOK
  <1>1. ASSUME NEW r \in Rufe, WirdGesperrt(r) PROVE SicherungTypeOK'
    BY <1>1 DEF WirdGesperrt, Eintrag, Ende
  <1>2. ASSUME NEW r \in Rufe, Versuche(r) PROVE SicherungTypeOK'
    BY <1>2 DEF Versuche, NachBeitritt, Eintrag, Ende
  <1>3. ASSUME NEW r \in Rufe, Breche(r) PROVE SicherungTypeOK'
    <2>1. rufstand[r] = "wartet" => bezug[Adresse[r]] - 1 \in Nat
      <3> SUFFICES ASSUME rufstand[r] = "wartet" PROVE bezug[Adresse[r]] - 1 \in Nat
        OBVIOUS
      <3> DEFINE I == Interessenten(Adresse[r])
      <3>1. r \in I
        BY <1>3 DEF Breche, Interessenten, Wartende
      <3>2. IsFiniteSet(I) /\ Cardinality(I) \in Nat
        BY EndlichInteressiert
      <3>3. Cardinality(I) # 0
        BY <3>1, <3>2, FS_EmptySet
      <3>4. bezug[Adresse[r]] = Cardinality(I)
        BY DEF Zaehlung
      <3>5. QED
        BY <3>2, <3>3, <3>4
    <2>2. QED
      BY <1>3, <2>1 DEF Breche, Ende
  <1>4. ASSUME NEW u \in Adressen, Erfolg(u) PROVE SicherungTypeOK'
    BY <1>4 DEF Erfolg, Erledige, Geschlossen, Ende
  <1>5. ASSUME NEW u \in Adressen, Abweisung(u) PROVE SicherungTypeOK'
    BY <1>5 DEF Abweisung, Erledige, Ende
  <1>6. ASSUME NEW u \in Adressen, NEW w \in BOOLEAN, Misserfolg(u, w)
        PROVE  SicherungTypeOK'
    <2>1. kreis' \in [offen : BOOLEAN, abgekuehlt : BOOLEAN, fehler : 0 .. Schwelle]
      <3>1. Gezaehlt(gelesen[u]) \in 0 .. Schwelle
        BY DEF Gezaehlt
      <3>2. Nach(Gezaehlt(gelesen[u]))
              \in [offen : BOOLEAN, abgekuehlt : BOOLEAN, fehler : 0 .. Schwelle]
        BY <3>1 DEF Nach, Geoeffnet, Geschlossen
      <3>3. QED
        BY <1>6, <3>2 DEF Misserfolg, KreisNachFehler
    <2>2. misslungen' \in 0 .. Schwelle
      BY <1>6 DEF Misserfolg, Gezaehlt
    <2>3. QED
      BY <1>6, <2>1, <2>2 DEF Misserfolg, Erledige, NachFehler, Ende
  <1>7. ASSUME Kuehle PROVE SicherungTypeOK'
    BY <1>7 DEF Kuehle
  <1>8. ASSUME UNCHANGED sicherungVars PROVE SicherungTypeOK'
    BY <1>8 DEF sicherungVars
  <1>9. QED
    BY <1>1, <1>2, <1>3, <1>4, <1>5, <1>6, <1>7, <1>8 DEF SicherungNext

\* The reference count keeps counting the interested callers.
LEMMA ZaehlungSchritt ==
    SicherungInduktiv /\ [SicherungNext]_sicherungVars => Zaehlung'
  <1> SUFFICES ASSUME SicherungInduktiv, [SicherungNext]_sicherungVars,
                      NEW v \in Adressen
               PROVE  bezug'[v] = Cardinality(Interessenten(v)')
    BY DEF Zaehlung
  <1>1. bezug[v] = Cardinality(Interessenten(v)) /\ bezug[v] \in Nat
    BY DEF SicherungInduktiv, Zaehlung, SicherungTypeOK
  <1>2. IsFiniteSet(Interessenten(v))
    BY EndlichInteressiert
  <1>3. ASSUME UNCHANGED <<rufstand, will, bezug>>
        PROVE  bezug'[v] = Cardinality(Interessenten(v)')
    BY <1>1, <1>3, InteressentenBleiben
  <1>4. ASSUME NEW r \in Rufe, WirdGesperrt(r)
        PROVE  bezug'[v] = Cardinality(Interessenten(v)')
    <2>1. Interessenten(v)' = Interessenten(v)
      <3>1. \A q \in Rufe : rufstand'[q] = "wartet" <=> rufstand[q] = "wartet"
        BY <1>4 DEF WirdGesperrt, SicherungInduktiv, SicherungTypeOK
      <3>2. QED
        BY <1>4, <3>1 DEF WirdGesperrt, Interessenten, Wartende
    <2>2. QED
      BY <1>1, <1>4, <2>1 DEF WirdGesperrt
  <1>5. ASSUME NEW r \in Rufe, Versuche(r)
        PROVE  bezug'[v] = Cardinality(Interessenten(v)')
    <2>1. Interessenten(v)' = IF v = Adresse[r] /\ will[r] THEN Interessenten(v) \cup {r}
                              ELSE Interessenten(v)
      BY <1>5, InteressentenNachVersuch DEF SicherungInduktiv
    <2>2. r \notin Interessenten(v)
      BY <1>5 DEF Versuche, Interessenten, Wartende
    <2>3. Cardinality(Interessenten(v) \cup {r}) = Cardinality(Interessenten(v)) + 1
      BY <1>2, <2>2, FS_AddElement
    <2>4. bezug'[v] = IF v = Adresse[r] /\ will[r] THEN bezug[v] + 1 ELSE bezug[v]
      BY <1>5 DEF Versuche, NachBeitritt, SicherungInduktiv, SicherungTypeOK
    <2>5. QED
      BY <1>1, <2>1, <2>3, <2>4
  <1>6. ASSUME NEW r \in Rufe, Breche(r)
        PROVE  bezug'[v] = Cardinality(Interessenten(v)')
    <2>1. Interessenten(v)' = Interessenten(v) \ {r}
      BY <1>6, InteressentenNachBruch DEF SicherungInduktiv
    <2>2. Cardinality(Interessenten(v) \ {r})
            = IF r \in Interessenten(v) THEN Cardinality(Interessenten(v)) - 1
              ELSE Cardinality(Interessenten(v))
      BY <1>2, FS_RemoveElement
    <2>3. r \in Interessenten(v) <=> v = Adresse[r] /\ rufstand[r] = "wartet"
      BY <1>6 DEF Breche, Interessenten, Wartende
    <2>4. bezug'[v] = IF v = Adresse[r] /\ rufstand[r] = "wartet" THEN bezug[v] - 1
                      ELSE bezug[v]
      BY <1>6 DEF Breche, SicherungInduktiv, SicherungTypeOK
    <2>5. QED
      BY <1>1, <2>1, <2>2, <2>3, <2>4
  <1>7. ASSUME NEW u \in Adressen, NEW w \in BOOLEAN,
               Erfolg(u) \/ Abweisung(u) \/ Misserfolg(u, w)
        PROVE  bezug'[v] = Cardinality(Interessenten(v)')
    <2>1. Interessenten(v)' = IF v = u THEN {} ELSE Interessenten(v)
      BY <1>7, InteressentenNachAntwort
    <2>2. bezug'[v] = IF v = u THEN 0 ELSE bezug[v]
      BY <1>7 DEF Erfolg, Abweisung, Misserfolg, Erledige, SicherungInduktiv, SicherungTypeOK
    <2>3. QED
      BY <1>1, <2>1, <2>2, FS_EmptySet
  <1>8. CASE Kuehle
    BY <1>3, <1>8 DEF Kuehle
  <1>9. CASE UNCHANGED sicherungVars
    BY <1>3, <1>9 DEF sicherungVars
  <1>10. QED
    BY <1>4, <1>5, <1>6, <1>7, <1>8, <1>9 DEF SicherungNext

\* Who waits keeps its request, and who pauses keeps an attempt.
LEMMA EintragSchritt ==
    SicherungInduktiv /\ [SicherungNext]_sicherungVars => Eintrag'
  <1> SUFFICES ASSUME SicherungInduktiv, [SicherungNext]_sicherungVars
               PROVE  Eintrag'
    OBVIOUS
  <1> USE SicherungAnnahme DEF SicherungInduktiv, SicherungTypeOK, Eintrag
  <1>1. ASSUME NEW r \in Rufe, WirdGesperrt(r) PROVE Eintrag'
    BY <1>1 DEF WirdGesperrt
  <1>2. ASSUME NEW r \in Rufe, Versuche(r) PROVE Eintrag'
    BY <1>2 DEF Versuche
  <1>3. ASSUME NEW r \in Rufe, Breche(r) PROVE Eintrag'
    BY <1>3 DEF Breche
  <1>4. ASSUME NEW u \in Adressen, Erfolg(u) PROVE Eintrag'
    BY <1>4 DEF Erfolg, Erledige, Wartende
  <1>5. ASSUME NEW u \in Adressen, Abweisung(u) PROVE Eintrag'
    BY <1>5 DEF Abweisung, Erledige, Wartende
  <1>6. ASSUME NEW u \in Adressen, NEW w \in BOOLEAN, Misserfolg(u, w) PROVE Eintrag'
    BY <1>6 DEF Misserfolg, Erledige, Wartende, NachFehler
  <1>7. ASSUME UNCHANGED <<rufstand, versuch, flug>> PROVE Eintrag'
    BY <1>7
  <1>8. QED
    BY <1>1, <1>2, <1>3, <1>4, <1>5, <1>6, <1>7 DEF SicherungNext, Kuehle, sicherungVars

\* A bucket written from an old reading is not ahead of the failures either.
LEMMA SpurSchritt ==
    SicherungInduktiv /\ [SicherungNext]_sicherungVars => Spur'
  <1> SUFFICES ASSUME SicherungInduktiv, [SicherungNext]_sicherungVars
               PROVE  Spur'
    OBVIOUS
  <1> USE SicherungAnnahme DEF SicherungInduktiv, SicherungTypeOK, Spur
  <1>1. ASSUME NEW r \in Rufe, Versuche(r) PROVE Spur'
    BY <1>1 DEF Versuche
  <1>2. ASSUME NEW u \in Adressen, Erfolg(u) PROVE Spur'
    BY <1>2 DEF Erfolg, Erledige, Geschlossen
  <1>3. ASSUME NEW u \in Adressen, Abweisung(u) PROVE Spur'
    BY <1>3 DEF Abweisung, Erledige
  <1>4. ASSUME NEW u \in Adressen, NEW w \in BOOLEAN, Misserfolg(u, w) PROVE Spur'
    <2>1. CASE Wartende(u) = {}
      BY <1>4, <2>1 DEF Misserfolg, Erledige
    <2>2. CASE Wartende(u) # {}
      <3> DEFINE n == Gezaehlt(gelesen[u])
      <3>1. misslungen' = Gezaehlt(misslungen) /\ kreis' = Nach(n)
        BY <1>4, <2>2 DEF Misserfolg, KreisNachFehler
      <3>2. n \in 0 .. Schwelle /\ n <= Gezaehlt(misslungen)
        BY DEF Gezaehlt
      <3>3. kreis'.fehler <= misslungen' /\ (kreis'.offen => kreis'.fehler = Schwelle)
        BY <3>1, <3>2 DEF Nach, Geoeffnet, Geschlossen
      <3>4. \A v \in Adressen : gelesen'[v] <= misslungen'
        BY <1>4, <3>1 DEF Misserfolg, Erledige, Gezaehlt
      <3>5. QED
        BY <3>3, <3>4
    <2>3. QED
      BY <2>1, <2>2
  <1>5. ASSUME Kuehle PROVE Spur'
    BY <1>5 DEF Kuehle
  <1>6. ASSUME UNCHANGED <<kreis, gelesen, misslungen>> PROVE Spur'
    BY <1>6
  <1>7. QED
    BY <1>1, <1>2, <1>3, <1>4, <1>5, <1>6
       DEF SicherungNext, WirdGesperrt, Breche, sicherungVars

\* A request is aborted with its last interested caller.
LEMMA AbbruchSchritt ==
    ASSUME SicherungInduktiv, [SicherungNext]_sicherungVars, NEW v \in Adressen,
           flug[v] # "abgebrochen", flug'[v] = "abgebrochen"
    PROVE  Interessenten(v)' = {}
  <1>1. ASSUME NEW r \in Rufe, Versuche(r) PROVE Interessenten(v)' = {}
    <2>1. v = Adresse[r] /\ flug[v] = "keiner" /\ ~will[r]
      BY <1>1 DEF Versuche, SicherungInduktiv, SicherungTypeOK
    <2>2. Interessenten(v) = {}
      BY <2>1 DEF SicherungInduktiv, Eintrag, Interessenten, Wartende
    <2>3. QED
      BY <1>1, <2>1, <2>2, InteressentenNachVersuch DEF SicherungInduktiv
  <1>2. ASSUME NEW r \in Rufe, Breche(r) PROVE Interessenten(v)' = {}
    <2>1. v = Adresse[r] /\ rufstand[r] = "wartet" /\ bezug[v] <= 1
      BY <1>2 DEF Breche, SicherungInduktiv, SicherungTypeOK
    <2>2. r \in Interessenten(v)
      BY <1>2, <2>1 DEF Breche, Interessenten, Wartende
    <2>3. /\ Cardinality(Interessenten(v)) = bezug[v]
          /\ Cardinality(Interessenten(v)) \in Nat
          /\ IsFiniteSet(Interessenten(v))
      BY EndlichInteressiert DEF SicherungInduktiv, Zaehlung
    <2>4. /\ IsFiniteSet(Interessenten(v) \ {r})
          /\ Cardinality(Interessenten(v) \ {r}) = Cardinality(Interessenten(v)) - 1
      BY <2>2, <2>3, FS_RemoveElement
    <2>5. Cardinality(Interessenten(v) \ {r}) \in Nat
      BY <2>4, FS_CardinalityType
    <2>6. Cardinality(Interessenten(v) \ {r}) = 0
      BY <2>1, <2>3, <2>4, <2>5
    <2>7. Interessenten(v) \ {r} = {}
      BY <2>4, <2>6, FS_EmptySet
    <2>8. QED
      BY <1>2, <2>7, InteressentenNachBruch DEF SicherungInduktiv
  <1>3. \A u \in Adressen, w \in BOOLEAN : ~(Erfolg(u) \/ Abweisung(u) \/ Misserfolg(u, w))
    BY DEF Erfolg, Abweisung, Misserfolg, Erledige, SicherungInduktiv, SicherungTypeOK
  <1>4. QED
    BY <1>1, <1>2, <1>3 DEF SicherungNext, WirdGesperrt, Kuehle, sicherungVars

(***************************************************************************)
(* What holds of every behaviour                                           *)
(***************************************************************************)

\* Every reachable state satisfies the inductive invariant.
THEOREM SicherungImmerInduktiv == SicherungSpec => []SicherungInduktiv
  <1>1. SicherungInduktiv /\ [SicherungNext]_sicherungVars => SicherungInduktiv'
    BY SicherungTypSchritt, ZaehlungSchritt, EintragSchritt, SpurSchritt
       DEF SicherungInduktiv
  <1>2. QED
    BY SicherungAnfang, <1>1, PTL DEF SicherungSpec

\* Every variable keeps its type: nobody tries more often than it may, and
\* no reference count falls below zero (retry.ts:117, dedup.ts:97-98).
THEOREM SicherungTypkorrekt == SicherungSpec => []SicherungTypeOK
  <1>1. SicherungInduktiv => SicherungTypeOK
    BY DEF SicherungInduktiv
  <1>2. QED
    BY SicherungImmerInduktiv, <1>1, PTL

\* An open circuit has seen Schwelle requests fail, however many calls share
\* one and however old their readings are (circuit.ts:83-90).
THEOREM OffenHatGrund == SicherungSpec => []OffenHeisstSchwelle
  <1>1. SicherungInduktiv => OffenHeisstSchwelle
    BY SicherungAnnahme DEF SicherungInduktiv, SicherungTypeOK, Spur, OffenHeisstSchwelle
  <1>2. QED
    BY SicherungImmerInduktiv, <1>1, PTL

\* No request is cancelled while a caller still wants it (dedup.ts:97-101).
THEOREM NiemandVerliertSeinenRuf == SicherungSpec => AbbruchNurOhneInteresse
  <1>1. SicherungInduktiv /\ [SicherungNext]_sicherungVars
          => [\A u \in Adressen :
                 flug[u] # "abgebrochen" /\ flug'[u] = "abgebrochen"
                    => Interessenten(u)' = {}]_sicherungVars
    BY AbbruchSchritt
  <1>2. QED
    BY SicherungImmerInduktiv, <1>1, PTL DEF SicherungSpec, AbbruchNurOhneInteresse

=============================================================================
