--------------------------- MODULE Tagesabschluss ---------------------------
(***************************************************************************)
(* The daily closing (Z-Bon) of the Norns engine, running against          *)
(* everything that may touch the same business day:                        *)
(*                                                                         *)
(*   - Vorgaenge: the database transactions that write a receipt (sale,    *)
(*     storno, return, purchase, appraisal).  Each takes the SHARED day    *)
(*     lock of the day it books on (lib/tagessperre.ts).                   *)
(*   - Abschluesse: POST /api/closings/finalize, which takes the EXCLUSIVE *)
(*     lock of the day, reads the day in several statements and writes one *)
(*     immutable row with the next Z number.                               *)
(*   - Schichten: cash drawer sessions, opened and closed by routes that   *)
(*     take no day lock at all (routes/shifts.ts).                         *)
(*                                                                         *)
(* Every SQL statement that reads or locks is a step of its own; a         *)
(* transaction's writes become visible in its commit step (READ            *)
(* COMMITTED).  The advisory locks are not variables: who holds one        *)
(* follows from how far a process is (HaeltTagessperre and its siblings).  *)
(*                                                                         *)
(* Abstracted: amounts (the set of receipts a statement saw stands for the *)
(* sums it computed), times of day (a time is its Berlin business day),    *)
(* the gates that only refuse a request before it opens a transaction, and *)
(* the TSE counts.  Any step may also fail (Abbruch...), which covers the  *)
(* refusals that are not modelled one by one.                              *)
(*                                                                         *)
(* An operator X_Y is a faulty variant of X, never used by Spec: it stands *)
(* for a mistake one could make there, and the properties must notice it.  *)
(***************************************************************************)
EXTENDS Integers

CONSTANTS
    Vorgaenge,      \* receipt-writing requests
    Abschluesse,    \* closing requests
    Schichten,      \* shifts that may be opened
    Kassen,         \* devices
    KasseVon,       \* [Schichten -> Kassen], the device a shift belongs to
    LetzterTag,     \* bound: the last business day
    Hoechstalter,   \* HOECHSTALTER_MS in days: how old a capture time may be
    Liegengeblieben \* days whose closing was begun and left in COUNTING

ASSUME TageAnnahme   == LetzterTag \in Nat \ {0} /\ Hoechstalter \in Nat
ASSUME KassenAnnahme == KasseVon \in [Schichten -> Kassen]

Tage    == 1 .. LetzterTag
KeinTag == 0
TagOderKeiner == Tage \cup {KeinTag}

ASSUME RestAnnahme == Liegengeblieben \subseteq Tage

VARIABLES
    heute,      \* the Berlin business day of the database clock
    vstand,     \* how far each receipt transaction is
    jetzt,      \* its frozen now(): the day its transaction began
    erfasst,    \* capture day sent by the till, KeinTag if none
    zeit,       \* the day it books on (finalized_at)
    nachtrag,   \* nachtrag_bezugstag
    glied,      \* its position in the ledger chain
    kette,      \* number of committed ledger events
    astand,     \* how far each closing is
    atag,       \* the day it closes
    summen,     \* receipts the statement of step 4 saw
    aufteilung, \* receipts the statements of step 5 saw
    sturz,      \* shifts the Kassensturz statement saw
    anker,      \* ledger head read in step 8
    nummer,     \* Z number read in step 9
    abschluss,  \* table daily_closings, by day
    sstand,     \* how far each shift and its requests are
    geoeffnet,  \* day of opened_at
    geschlossen \* day of closed_at

vorgangVars   == <<vstand, jetzt, erfasst, zeit, nachtrag, glied, kette>>
anfrageVars   == <<astand, atag, summen, aufteilung, sturz, anker, nummer>>
schichtVars   == <<sstand, geoeffnet, geschlossen>>
vars == <<heute, vorgangVars, anfrageVars, abschluss, schichtVars>>

----------------------------------------------------------------------------
(* Types *)

VStand == {"bereit", "begonnen", "gebucht_auf", "gesperrt", "eingefuegt", "committet"}
AStand == {"bereit", "wartet", "gesperrt", "tagOffen", "schichtenZu", "summiert",
           "aufgeteilt", "gestuerzt", "gedeckt", "verankert", "nummerGesperrt", "nummeriert"}
SStand == {"keine", "oeffnet", "OPEN", "schliesst", "CLOSED"}

Satz == [zustand : {"KEINER", "COUNTING", "FINALIZED"},
         summen : SUBSET Vorgaenge, aufteilung : SUBSET Vorgaenge,
         sturz : SUBSET Schichten, anker : Nat, zNr : Nat]

LeererSatz(z) == [zustand |-> z, summen |-> {}, aufteilung |-> {},
                  sturz |-> {}, anker |-> 0, zNr |-> 0]

----------------------------------------------------------------------------
(* What the tables say *)

Festgeschrieben(d) == d \in Tage /\ abschluss[d].zustand = "FINALIZED"

FestgeschriebeneTage == {d \in Tage : Festgeschrieben(d)}

Gebucht == {p \in Vorgaenge : vstand[p] = "committet"}

BelegeVon(d) == {p \in Gebucht : zeit[p] = d}

OffeneSchichten == {s \in Schichten : sstand[s] \in {"OPEN", "schliesst"}}

GeschlosseneSchichten == {s \in Schichten : sstand[s] = "CLOSED"}

ZNummern == {abschluss[d].zNr : d \in FestgeschriebeneTage}

HoechsteZNummer == CHOOSE n \in ZNummern \cup {0} : \A m \in ZNummern : m <= n

(* Who holds which lock *)

\* The receipt locks the day it was captured on, not the one it books on.
HaeltTagessperre_Erfassungstag(p, d) ==
    /\ vstand[p] \in {"gesperrt", "eingefuegt"}
    /\ d = IF erfasst[p] = KeinTag THEN zeit[p] ELSE erfasst[p]

HaeltTagessperre(p, d) == vstand[p] \in {"gesperrt", "eingefuegt"} /\ zeit[p] = d

\* The lock ends with the statement that sums the day.
HaeltAbschlusssperre_NurBeimLesen(a, d) ==
    astand[a] \in {"gesperrt", "tagOffen", "schichtenZu", "summiert"} /\ atag[a] = d

HaeltAbschlusssperre(a, d) == astand[a] \notin {"bereit", "wartet"} /\ atag[a] = d

HaeltNummernsperre(a) == astand[a] \in {"nummerGesperrt", "nummeriert"}

\* ledger_compute_hash() locks ledger_chain_head FOR UPDATE from the INSERT of a
\* receipt to its commit.
KettenkopfFrei == \A p \in Vorgaenge : vstand[p] # "eingefuegt"

----------------------------------------------------------------------------
Init ==
    /\ heute = 1
    /\ vstand = [p \in Vorgaenge |-> "bereit"]
    /\ jetzt = [p \in Vorgaenge |-> KeinTag]
    /\ erfasst = [p \in Vorgaenge |-> KeinTag]
    /\ zeit = [p \in Vorgaenge |-> KeinTag]
    /\ nachtrag = [p \in Vorgaenge |-> KeinTag]
    /\ glied = [p \in Vorgaenge |-> 0]
    /\ kette \in {0, 1}  \* other events may have been recorded before
    /\ astand = [a \in Abschluesse |-> "bereit"]
    /\ atag = [a \in Abschluesse |-> KeinTag]
    /\ summen = [a \in Abschluesse |-> {}]
    /\ aufteilung = [a \in Abschluesse |-> {}]
    /\ sturz = [a \in Abschluesse |-> {}]
    /\ anker = [a \in Abschluesse |-> 0]
    /\ nummer = [a \in Abschluesse |-> 0]
    /\ abschluss = [d \in Tage |->
                      LeererSatz(IF d \in Liegengeblieben THEN "COUNTING" ELSE "KEINER")]
    /\ sstand = [s \in Schichten |-> "keine"]
    /\ geoeffnet = [s \in Schichten |-> KeinTag]
    /\ geschlossen = [s \in Schichten |-> KeinTag]

\* Midnight in Berlin.
Mitternacht ==
    /\ heute < LetzterTag
    /\ heute' = heute + 1
    /\ UNCHANGED <<vorgangVars, anfrageVars, abschluss, schichtVars>>

----------------------------------------------------------------------------
(* Receipt transactions *)

\* pruefeErfassungszeit: not older than the replay window, at most two minutes
\* ahead of the server, which just before midnight is already tomorrow.
ZulaessigeErfassung(e) == e >= heute - Hoechstalter /\ e <= heute + 1

\* A sale, storno or return carries the till's capture time if the till sends
\* one; a purchase or an appraisal never does.  What the routes check first, on
\* licence, identity, taxes, sums and margins, refuses without a trace.
Beginne(p) ==
    /\ vstand[p] = "bereit"
    /\ \E e \in TagOderKeiner :
          /\ e = KeinTag \/ ZulaessigeErfassung(e)
          /\ erfasst' = [erfasst EXCEPT ![p] = e]
    /\ jetzt' = [jetzt EXCEPT ![p] = heute]
    /\ vstand' = [vstand EXCEPT ![p] = "begonnen"]
    /\ UNCHANGED <<heute, zeit, nachtrag, glied, kette, anfrageVars, abschluss, schichtVars>>

\* Every receipt books on the day it arrives.
Buchungstag_Eingang(e, erfassungstagAbgeschlossen, now) == now

\* buchungszeitpunkt, with COALESCE(..., now()) applied: a capture day that is
\* already sealed, or none at all, books on the day of the transaction.
Buchungstag(e, erfassungstagAbgeschlossen, now) ==
    IF e = KeinTag \/ erfassungstagAbgeschlossen THEN now ELSE e

\* The read that decides where the receipt belongs, before any lock is held.
BestimmeBuchungstag(p) ==
    /\ vstand[p] = "begonnen"
    /\ zeit' = [zeit EXCEPT ![p] = Buchungstag(erfasst[p], Festgeschrieben(erfasst[p]), jetzt[p])]
    /\ nachtrag' = [nachtrag EXCEPT ![p] = IF Festgeschrieben(erfasst[p]) THEN erfasst[p] ELSE KeinTag]
    /\ vstand' = [vstand EXCEPT ![p] = "gebucht_auf"]
    /\ UNCHANGED <<heute, jetzt, erfasst, glied, kette, anfrageVars, abschluss, schichtVars>>

\* pg_advisory_xact_lock_shared on the booking day.
NimmTagessperre(p) ==
    /\ vstand[p] = "gebucht_auf"
    /\ \A a \in Abschluesse : ~HaeltAbschlusssperre(a, zeit[p])
    /\ vstand' = [vstand EXCEPT ![p] = "gesperrt"]
    /\ UNCHANGED <<heute, jetzt, erfasst, zeit, nachtrag, glied, kette, anfrageVars, abschluss, schichtVars>>

\* Trigger transactions_validate_closing_day: arm 1 refuses a sealed booking
\* day, arm 2 a sealed capture day that is not declared as a Nachtrag.
WaechterLaesstZu(p) ==
    /\ ~Festgeschrieben(zeit[p])
    /\ erfasst[p] # zeit[p] /\ Festgeschrieben(erfasst[p]) => nachtrag[p] = erfasst[p]

\* INSERT INTO transactions: the BEFORE trigger above, then the AFTER trigger
\* that extends the ledger chain under the head's row lock.
FuegeEin(p) ==
    /\ vstand[p] = "gesperrt"
    /\ WaechterLaesstZu(p)
    /\ KettenkopfFrei
    /\ glied' = [glied EXCEPT ![p] = kette + 1]
    /\ vstand' = [vstand EXCEPT ![p] = "eingefuegt"]
    /\ UNCHANGED <<heute, jetzt, erfasst, zeit, nachtrag, kette, anfrageVars, abschluss, schichtVars>>

Committe(p) ==
    /\ vstand[p] = "eingefuegt"
    /\ kette' = glied[p]
    /\ vstand' = [vstand EXCEPT ![p] = "committet"]
    /\ UNCHANGED <<heute, jetzt, erfasst, zeit, nachtrag, glied, anfrageVars, abschluss, schichtVars>>

VerwirfVorgang(p) ==
    /\ vstand' = [vstand EXCEPT ![p] = "bereit"]
    /\ jetzt' = [jetzt EXCEPT ![p] = KeinTag]
    /\ erfasst' = [erfasst EXCEPT ![p] = KeinTag]
    /\ zeit' = [zeit EXCEPT ![p] = KeinTag]
    /\ nachtrag' = [nachtrag EXCEPT ![p] = KeinTag]
    /\ glied' = [glied EXCEPT ![p] = 0]
    /\ UNCHANGED <<heute, kette, anfrageVars, abschluss, schichtVars>>

\* The trigger raises and the transaction rolls back.
WeiseAb(p) == vstand[p] = "gesperrt" /\ ~WaechterLaesstZu(p) /\ VerwirfVorgang(p)

\* Another statement fails or the connection is lost before the commit.  The
\* till may send the same receipt again.
AbbruchVorgang(p) == vstand[p] \notin {"bereit", "committet"} /\ VerwirfVorgang(p)

----------------------------------------------------------------------------
(* POST /api/closings/finalize, one action per statement *)

\* pruefeAbschlusstag refuses a day after today.
BeginneAbschluss(a) ==
    /\ astand[a] = "bereit"
    /\ \E d \in 1 .. heute : atag' = [atag EXCEPT ![a] = d]
    /\ astand' = [astand EXCEPT ![a] = "wartet"]
    /\ UNCHANGED <<heute, vorgangVars, summen, aufteilung, sturz, anker, nummer, abschluss, schichtVars>>

\* The closing does not wait for the receipts in flight.
NimmAbschlusssperre_OhneWarten(a) ==
    /\ astand[a] = "wartet"
    /\ \A b \in Abschluesse : ~HaeltAbschlusssperre(b, atag[a])
    /\ astand' = [astand EXCEPT ![a] = "gesperrt"]
    /\ UNCHANGED <<heute, vorgangVars, atag, summen, aufteilung, sturz, anker, nummer, abschluss, schichtVars>>

\* pg_advisory_xact_lock on the day: waits for every receipt in flight there.
NimmAbschlusssperre(a) ==
    /\ astand[a] = "wartet"
    /\ \A p \in Vorgaenge : ~HaeltTagessperre(p, atag[a])
    /\ \A b \in Abschluesse : ~HaeltAbschlusssperre(b, atag[a])
    /\ astand' = [astand EXCEPT ![a] = "gesperrt"]
    /\ UNCHANGED <<heute, vorgangVars, atag, summen, aufteilung, sturz, anker, nummer, abschluss, schichtVars>>

\* Step 2.  A row left in COUNTING does not stop the closing; its DELETE shows
\* with the commit, where Schreibe replaces it.
PruefeTag(a) ==
    /\ astand[a] = "gesperrt"
    /\ ~Festgeschrieben(atag[a])
    /\ astand' = [astand EXCEPT ![a] = "tagOffen"]
    /\ UNCHANGED <<heute, vorgangVars, atag, summen, aufteilung, sturz, anker, nummer, abschluss, schichtVars>>

\* Step 3: every drawer that was opened by the end of that day.
OffeneKasse(d) == \E s \in OffeneSchichten : geoeffnet[s] <= d

PruefeSchichten(a) ==
    /\ astand[a] = "tagOffen"
    /\ ~OffeneKasse(atag[a])
    /\ astand' = [astand EXCEPT ![a] = "schichtenZu"]
    /\ UNCHANGED <<heute, vorgangVars, atag, summen, aufteilung, sturz, anker, nummer, abschluss, schichtVars>>

\* Step 4: counts and gross, net and storno sums.
Summiere(a) ==
    /\ astand[a] = "schichtenZu"
    /\ summen' = [summen EXCEPT ![a] = BelegeVon(atag[a])]
    /\ astand' = [astand EXCEPT ![a] = "summiert"]
    /\ UNCHANGED <<heute, vorgangVars, atag, aufteilung, sturz, anker, nummer, abschluss, schichtVars>>

\* Step 5: VAT, revenue and payments, grouped, in statements of their own.
TeileAuf(a) ==
    /\ astand[a] = "summiert"
    /\ aufteilung' = [aufteilung EXCEPT ![a] = BelegeVon(atag[a])]
    /\ astand' = [astand EXCEPT ![a] = "aufgeteilt"]
    /\ UNCHANGED <<heute, vorgangVars, atag, summen, sturz, anker, nummer, abschluss, schichtVars>>

\* Step 6: the shifts counted on that day, for the counted drawer ...
Stuerze(a) ==
    /\ astand[a] = "aufgeteilt"
    /\ sturz' = [sturz EXCEPT ![a] = {s \in GeschlosseneSchichten : geschlossen[s] = atag[a]}]
    /\ astand' = [astand EXCEPT ![a] = "gestuerzt"]
    /\ UNCHANGED <<heute, vorgangVars, atag, summen, aufteilung, anker, nummer, abschluss, schichtVars>>

\* ... and whether a closed shift spans it, for the balance that is expected of
\* a day nobody counted.
Ueberspannt(d) == \E s \in GeschlosseneSchichten : geoeffnet[s] <= d /\ d <= geschlossen[s]

\* Any shift opened before and closed by now will do.
IstGedeckt_OhneEnde(a) ==
    summen[a] # {} => \E s \in GeschlosseneSchichten : geoeffnet[s] <= atag[a]

IstGedeckt(a) == summen[a] # {} => sturz[a] # {} \/ Ueberspannt(atag[a])

PruefeDeckung(a) ==
    /\ astand[a] = "gestuerzt"
    /\ IstGedeckt(a)
    /\ astand' = [astand EXCEPT ![a] = "gedeckt"]
    /\ UNCHANGED <<heute, vorgangVars, atag, summen, aufteilung, sturz, anker, nummer, abschluss, schichtVars>>

\* Step 8: the chain head.  Step 7 may have refused before, where receipts
\* without a signature are not confirmed (AbbruchAbschluss).
Verankere(a) ==
    /\ astand[a] = "gedeckt"
    /\ kette > 0
    /\ anker' = [anker EXCEPT ![a] = kette]
    /\ astand' = [astand EXCEPT ![a] = "verankert"]
    /\ UNCHANGED <<heute, vorgangVars, atag, summen, aufteilung, sturz, nummer, abschluss, schichtVars>>

\* Step 9: the lock that serialises the closings of different days.
NimmNummernsperre(a) ==
    /\ astand[a] = "verankert"
    /\ \A b \in Abschluesse : ~HaeltNummernsperre(b)
    /\ astand' = [astand EXCEPT ![a] = "nummerGesperrt"]
    /\ UNCHANGED <<heute, vorgangVars, atag, summen, aufteilung, sturz, anker, nummer, abschluss, schichtVars>>

\* The number is that of the day.
LiesNummer_Tag(a) ==
    /\ astand[a] = "nummerGesperrt"
    /\ nummer' = [nummer EXCEPT ![a] = atag[a]]
    /\ astand' = [astand EXCEPT ![a] = "nummeriert"]
    /\ UNCHANGED <<heute, vorgangVars, atag, summen, aufteilung, sturz, anker, abschluss, schichtVars>>

LiesNummer(a) ==
    /\ astand[a] = "nummerGesperrt"
    /\ nummer' = [nummer EXCEPT ![a] = HoechsteZNummer + 1]
    /\ astand' = [astand EXCEPT ![a] = "nummeriert"]
    /\ UNCHANGED <<heute, vorgangVars, atag, summen, aufteilung, sturz, anker, abschluss, schichtVars>>

\* What a request leaves behind when it ends: its locks are gone and the
\* values it read with them.
VergissAnfrage(a) ==
    /\ astand' = [astand EXCEPT ![a] = "bereit"]
    /\ atag' = [atag EXCEPT ![a] = KeinTag]
    /\ summen' = [summen EXCEPT ![a] = {}]
    /\ aufteilung' = [aufteilung EXCEPT ![a] = {}]
    /\ sturz' = [sturz EXCEPT ![a] = {}]
    /\ anker' = [anker EXCEPT ![a] = 0]
    /\ nummer' = [nummer EXCEPT ![a] = 0]

\* The unique indexes on the day (0079) and on the number (0124).  A violation
\* is a 409 and a rollback, that is AbbruchAbschluss; NummerFrei says that it
\* does not come to that.
Eindeutig(d, n) == ~Festgeschrieben(d) /\ n \notin ZNummern

\* INSERT INTO daily_closings, its ledger event, COMMIT.
Schreibe(a) ==
    /\ astand[a] = "nummeriert"
    /\ Eindeutig(atag[a], nummer[a])
    /\ KettenkopfFrei
    /\ abschluss' = [abschluss EXCEPT ![atag[a]] =
          [zustand |-> "FINALIZED", summen |-> summen[a], aufteilung |-> aufteilung[a],
           sturz |-> sturz[a], anker |-> anker[a], zNr |-> nummer[a]]]
    /\ kette' = kette + 1
    /\ VergissAnfrage(a)
    /\ UNCHANGED <<heute, vstand, jetzt, erfasst, zeit, nachtrag, glied, schichtVars>>

\* A closing that finds its day sealed is not answered and keeps its lock.
LehneAb_OhneSiegel(a) ==
    /\ \/ astand[a] = "tagOffen" /\ OffeneKasse(atag[a])
       \/ astand[a] = "gestuerzt" /\ ~IstGedeckt(a)
       \/ astand[a] = "gedeckt" /\ kette = 0
    /\ VergissAnfrage(a)
    /\ UNCHANGED <<heute, vorgangVars, abschluss, schichtVars>>

\* The 409 answers of steps 2, 3, 6 and 8.
LehneAb(a) ==
    /\ \/ astand[a] = "gesperrt" /\ Festgeschrieben(atag[a])
       \/ astand[a] = "tagOffen" /\ OffeneKasse(atag[a])
       \/ astand[a] = "gestuerzt" /\ ~IstGedeckt(a)
       \/ astand[a] = "gedeckt" /\ kette = 0
    /\ VergissAnfrage(a)
    /\ UNCHANGED <<heute, vorgangVars, abschluss, schichtVars>>

\* A statement fails or the connection is lost.
AbbruchAbschluss(a) ==
    /\ astand[a] # "bereit"
    /\ VergissAnfrage(a)
    /\ UNCHANGED <<heute, vorgangVars, abschluss, schichtVars>>

----------------------------------------------------------------------------
(* Shifts.  assertDayNotSealed is a query of its own, before and outside of  *)
(* the statement or transaction that writes; neither takes the day lock.    *)

TagNichtVersiegelt == ~Festgeschrieben(heute)

PruefeOeffnen(s) ==
    /\ sstand[s] = "keine"
    /\ TagNichtVersiegelt
    /\ sstand' = [sstand EXCEPT ![s] = "oeffnet"]
    /\ UNCHANGED <<heute, vorgangVars, anfrageVars, abschluss, geoeffnet, geschlossen>>

\* INSERT, under the unique index of one open shift per device.
Oeffne(s) ==
    /\ sstand[s] = "oeffnet"
    /\ \A t \in OffeneSchichten : KasseVon[t] # KasseVon[s]
    /\ sstand' = [sstand EXCEPT ![s] = "OPEN"]
    /\ geoeffnet' = [geoeffnet EXCEPT ![s] = heute]
    /\ UNCHANGED <<heute, vorgangVars, anfrageVars, abschluss, geschlossen>>

PruefeSchliessen(s) ==
    /\ sstand[s] = "OPEN"
    /\ TagNichtVersiegelt
    /\ sstand' = [sstand EXCEPT ![s] = "schliesst"]
    /\ UNCHANGED <<heute, vorgangVars, anfrageVars, abschluss, geoeffnet, geschlossen>>

\* The transaction of the blind count, under the row lock of the shift.
Schliesse(s) ==
    /\ sstand[s] = "schliesst"
    /\ sstand' = [sstand EXCEPT ![s] = "CLOSED"]
    /\ geschlossen' = [geschlossen EXCEPT ![s] = heute]
    /\ UNCHANGED <<heute, vorgangVars, anfrageVars, abschluss, geoeffnet>>

\* The request fails after its check.
AbbruchSchicht(s) ==
    /\ \/ sstand[s] = "oeffnet" /\ sstand' = [sstand EXCEPT ![s] = "keine"]
       \/ sstand[s] = "schliesst" /\ sstand' = [sstand EXCEPT ![s] = "OPEN"]
    /\ UNCHANGED <<heute, vorgangVars, anfrageVars, abschluss, geoeffnet, geschlossen>>

----------------------------------------------------------------------------
VorgangSchritt(p) == BestimmeBuchungstag(p) \/ WeiseAb(p) \/ Committe(p)

VorgangSperre(p) == NimmTagessperre(p) \/ FuegeEin(p)

AbschlussSchritt(a) ==
    \/ PruefeTag(a) \/ PruefeSchichten(a) \/ Summiere(a) \/ TeileAuf(a) \/ Stuerze(a)
    \/ PruefeDeckung(a) \/ Verankere(a) \/ LiesNummer(a) \/ LehneAb(a)

AbschlussSperre(a) == NimmAbschlusssperre(a) \/ NimmNummernsperre(a) \/ Schreibe(a)

VorgangAktion(p) ==
    Beginne(p) \/ VorgangSchritt(p) \/ VorgangSperre(p) \/ AbbruchVorgang(p)

AbschlussAktion(a) ==
    BeginneAbschluss(a) \/ AbschlussSchritt(a) \/ AbschlussSperre(a) \/ AbbruchAbschluss(a)

SchichtSchritt(s) ==
    PruefeOeffnen(s) \/ Oeffne(s) \/ PruefeSchliessen(s) \/ Schliesse(s) \/ AbbruchSchicht(s)

Next ==
    \/ Mitternacht
    \/ \E p \in Vorgaenge : VorgangAktion(p)
    \/ \E a \in Abschluesse : AbschlussAktion(a)
    \/ \E s \in Schichten : SchichtSchritt(s)

\* A request that has begun goes on; PostgreSQL serves the waiters of a lock in
\* the order they came, so a lock that keeps becoming free is granted.  Nobody
\* has to begin anything, and nothing has to fail.
Fairness ==
    /\ \A p \in Vorgaenge : WF_vars(VorgangSchritt(p)) /\ SF_vars(VorgangSperre(p))
    /\ \A a \in Abschluesse : WF_vars(AbschlussSchritt(a)) /\ SF_vars(AbschlussSperre(a))

Spec == Init /\ [][Next]_vars

FairSpec == Spec /\ Fairness

----------------------------------------------------------------------------
(* Properties *)

\* Every variable keeps to its table column or its place in the request.
TypeOK ==
    /\ heute \in Tage
    /\ vstand \in [Vorgaenge -> VStand]
    /\ jetzt \in [Vorgaenge -> TagOderKeiner]
    /\ erfasst \in [Vorgaenge -> TagOderKeiner]
    /\ zeit \in [Vorgaenge -> TagOderKeiner]
    /\ nachtrag \in [Vorgaenge -> TagOderKeiner]
    /\ glied \in [Vorgaenge -> Nat]
    /\ kette \in Nat
    /\ astand \in [Abschluesse -> AStand]
    /\ atag \in [Abschluesse -> TagOderKeiner]
    /\ summen \in [Abschluesse -> SUBSET Vorgaenge]
    /\ aufteilung \in [Abschluesse -> SUBSET Vorgaenge]
    /\ sturz \in [Abschluesse -> SUBSET Schichten]
    /\ anker \in [Abschluesse -> Nat]
    /\ nummer \in [Abschluesse -> Nat]
    /\ abschluss \in [Tage -> Satz]
    /\ sstand \in [Schichten -> SStand]
    /\ geoeffnet \in [Schichten -> TagOderKeiner]
    /\ geschlossen \in [Schichten -> TagOderKeiner]

\* A Z-Bon says exactly what the day says: both groups of statements saw every
\* receipt of the day, and none was booked there afterwards.  This is what the
\* two sides of the day lock and the trigger are for.
ZBonVollstaendig ==
    \A d \in FestgeschriebeneTage :
        /\ abschluss[d].summen = BelegeVon(d)
        /\ abschluss[d].aufteilung = BelegeVon(d)

\* A receipt captured offline either books on its capture day or says openly
\* that it is a Nachtrag to a day whose Z-Bon was already written without it.
NachtragAusgewiesen ==
    \A p \in Gebucht : erfasst[p] # KeinTag =>
        \/ zeit[p] = erfasst[p] /\ nachtrag[p] = KeinTag
        \/ /\ nachtrag[p] = erfasst[p]
           /\ zeit[p] = jetzt[p]
           /\ Festgeschrieben(erfasst[p])
           /\ p \notin abschluss[erfasst[p]].summen

\* The Z numbers are 1, 2, 3, ... with no gap and no number used twice, in
\* whatever order the days are closed.
ZFolgeLueckenlos ==
    /\ \E n \in {0} \cup ZNummern : ZNummern = 1 .. n
    /\ \A d, e \in FestgeschriebeneTage : abschluss[d].zNr = abschluss[e].zNr => d = e

\* The ledger anchor of a Z-Bon lies behind every receipt the Z-Bon counts.
AnkerUmfasstTag ==
    \A d \in FestgeschriebeneTage : \A p \in BelegeVon(d) : glied[p] <= abschluss[d].anker

\* A sealed day with receipts is covered by a drawer that somebody counted.
UmsatzGedeckt ==
    \A d \in FestgeschriebeneTage : BelegeVon(d) # {} => Ueberspannt(d)

\* The number a closing has read is still free when it writes, and so is its
\* day: the branch at the end of the route that reports a collision of Z
\* numbers is dead, as its comment expects.
NummerFrei ==
    \A a \in Abschluesse : astand[a] = "nummeriert" => Eindeutig(atag[a], nummer[a])

(* Why these hold: what is true in the middle of the requests.             *)

\* Locks exclude each other: receipts and a closing on the same day, two
\* closings on the same day, two closings at the Z number.
SperrenSchliessenAus ==
    /\ \A p \in Vorgaenge, a \in Abschluesse :
          HaeltTagessperre(p, zeit[p]) => ~HaeltAbschlusssperre(a, zeit[p])
    /\ \A a, b \in Abschluesse :
          HaeltAbschlusssperre(a, atag[a]) /\ HaeltAbschlusssperre(b, atag[a]) => a = b
    /\ \A a, b \in Abschluesse : HaeltNummernsperre(a) /\ HaeltNummernsperre(b) => a = b

KetteGeordnet ==
    /\ \A p \in Gebucht : glied[p] <= kette
    /\ \A p \in Vorgaenge : vstand[p] = "eingefuegt" => glied[p] = kette + 1
    /\ \A p, q \in Vorgaenge : vstand[p] = "eingefuegt" /\ vstand[q] = "eingefuegt" => p = q

\* Where a receipt books, once that is decided.
VorgangLage ==
    \A p \in Vorgaenge :
        /\ vstand[p] # "bereit" => jetzt[p] \in Tage
        /\ vstand[p] \notin {"bereit", "begonnen"} =>
              /\ zeit[p] \in Tage
              /\ erfasst[p] # KeinTag =>
                    \/ zeit[p] = erfasst[p] /\ nachtrag[p] = KeinTag
                    \/ zeit[p] = jetzt[p] /\ nachtrag[p] = erfasst[p] /\ Festgeschrieben(erfasst[p])
        /\ vstand[p] = "eingefuegt" => ~Festgeschrieben(zeit[p])
        /\ vstand[p] \in {"eingefuegt", "committet"} /\ erfasst[p] # KeinTag =>
              (zeit[p] = erfasst[p] <=> nachtrag[p] = KeinTag)

SchichtLage ==
    \A s \in Schichten :
        /\ sstand[s] \in {"OPEN", "schliesst", "CLOSED"} => geoeffnet[s] \in 1 .. heute
        /\ sstand[s] = "CLOSED" => geschlossen[s] \in geoeffnet[s] .. heute

Geprueft   == AStand \ {"bereit", "wartet", "gesperrt"}
Summiert   == Geprueft \ {"tagOffen", "schichtenZu"}
Aufgeteilt == Summiert \ {"summiert"}
Gestuerzt  == Aufgeteilt \ {"aufgeteilt"}
Gedeckt    == Gestuerzt \ {"gestuerzt"}
Verankert  == Gedeckt \ {"gedeckt"}

\* What a closing has read is still so: the day is open, its receipts are those
\* it summed, and the anchor lies behind them.
AbschlussLage ==
    \A a \in Abschluesse :
        /\ astand[a] # "bereit" => atag[a] \in Tage
        /\ astand[a] \in Geprueft => ~Festgeschrieben(atag[a])
        /\ astand[a] \in Summiert => summen[a] = BelegeVon(atag[a])
        /\ astand[a] \in Aufgeteilt => aufteilung[a] = BelegeVon(atag[a])
        /\ astand[a] \in Gestuerzt /\ sturz[a] # {} => Ueberspannt(atag[a])
        /\ astand[a] \in Gedeckt /\ summen[a] # {} => Ueberspannt(atag[a])
        /\ astand[a] \in Verankert => \A p \in BelegeVon(atag[a]) : glied[p] <= anker[a]
        /\ astand[a] = "nummeriert" => nummer[a] = HoechsteZNummer + 1

\* Together with the properties above this is preserved by every step.
Induktiv ==
    /\ TypeOK
    /\ SperrenSchliessenAus
    /\ KetteGeordnet
    /\ VorgangLage
    /\ SchichtLage
    /\ AbschlussLage
    /\ ZBonVollstaendig
    /\ ZFolgeLueckenlos
    /\ AnkerUmfasstTag
    /\ UmsatzGedeckt

(* Progress *)

\* A closing that waits for its locks is answered: it never waits in a circle
\* with receipts, with another closing or on the chain head.
AbschlussEndet ==
    \A a \in Abschluesse : astand[a] = "wartet" ~> astand[a] = "bereit"

\* A receipt is booked or refused, whatever closings run beside it.
VorgangEndet ==
    \A p \in Vorgaenge : vstand[p] = "begonnen" ~> vstand[p] \in {"bereit", "committet"}

\* Seen from outside the engine keeps a cash book: a page is sealed in one
\* step, complete, with the next number, and stays as it is.
Kassenbuch == INSTANCE Kassenbuch WITH
    Belege  <- Vorgaenge,
    Seiten  <- Tage,
    buch    <- [d \in Tage |-> BelegeVon(d)],
    zbon    <- [d \in Tage |-> [belege |-> IF Festgeschrieben(d) THEN abschluss[d].summen ELSE {},
                                nr     |-> IF Festgeschrieben(d) THEN abschluss[d].zNr ELSE 0]],
    zaehler <- HoechsteZNummer

IstKassenbuch == Kassenbuch!Spec

\* Claim of shifts.ts ("... what makes the Kassensturz land on an OPEN Z-Bon
\* instead of vanishing from all of them"): a shift counted on a sealed day is
\* in that day's Z-Bon.
SturzInZBon ==
    \A s \in GeschlosseneSchichten :
        Festgeschrieben(geschlossen[s]) => s \in abschluss[geschlossen[s]].sturz

=============================================================================
