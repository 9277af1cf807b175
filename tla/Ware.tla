--------------------------------- MODULE Ware ---------------------------------
(***************************************************************************)
(* The unique pieces of the shop and the receipts they stand on.           *)
(*                                                                         *)
(* A piece is one row of products.  It enters with a purchase (Ankauf) or  *)
(* the catalogue, is published, reserved by a checkout session, sold with  *)
(* a receipt, may be returned (Rueckgabe), its receipt may be reversed     *)
(* (Storno), and it may be archived or deleted.  packages/inventory-lock   *)
(* promises that no piece is sold twice; transactions.idempotency_key      *)
(* promises that a repeated request does not book twice.                   *)
(*                                                                         *)
(* Several requests run at once.  A statement that reads is a step of its  *)
(* own when a later statement of the same request relies on what it read;  *)
(* writes become visible with the commit.  A row that an open transaction  *)
(* has written is locked: that is not a variable, it follows from how far  *)
(* the request is (ZeileFrei).                                             *)
(*                                                                         *)
(* Abstracted: amounts, payments and the shift (see Kassenlade), the day   *)
(* a receipt is booked on (see Tagesabschluss), the age of a reservation   *)
(* (the stale-hold sweep may meet any POS hold), and a session together    *)
(* with its cashier is one member of Halter.  A Storno or Rueckgabe that   *)
(* is rolled back leaves no trace, so it is one that never moved on.       *)
(*                                                                         *)
(* An operator X_Y is a faulty variant of X, never used by WareSpec.       *)
(***************************************************************************)
EXTENDS Integers

CONSTANTS
    Stuecke,        \* pieces, by article number (sku)
    Halter,         \* checkout sessions, each with its cashier
    Verkaeufe,      \* sale requests
    Ankaeufe,       \* purchase requests
    Schluessel,     \* idempotency keys
    SchluesselVon,  \* the key a request carries; a repetition carries the same
    Stornos,        \* reversal requests
    Rueckgaben,     \* return requests
    Pflegen,        \* catalogue requests (publish, archive, delete)
    Bestand,        \* pieces the table already holds, published or drafts
    Altverkauf,     \* sales booked earlier, whose pieces carry no reservation
    Altstuecke,     \* the pieces on them
    Niemand         \* no session

Anfragen == Verkaeufe \cup Ankaeufe

\* Where a piece is when no customer has it.
Fremd == "ausserhalb"
Laden == "im Laden"

\* No sale, purchase or receipt.
KeineAnfrage == "keine Anfrage"

ASSUME ArtenAnnahme == Verkaeufe \cap Ankaeufe = {}
ASSUME SchluesselAnnahme ==
    /\ SchluesselVon \in [Anfragen -> Schluessel]
    /\ Fremd \notin Schluessel /\ Laden \notin Schluessel
ASSUME HalterAnnahme == Niemand \notin Halter
ASSUME KeineAnnahme == KeineAnfrage \notin Anfragen
ASSUME AltAnnahme ==
    /\ Altverkauf \subseteq Verkaeufe /\ Altstuecke \subseteq Stuecke
    /\ Bestand \subseteq Stuecke \ Altstuecke
    /\ \A a, b \in Altverkauf : a = b
    /\ Altstuecke # {} <=> Altverkauf # {}

VARIABLES
    zustand,    \* products.status, KEINS where there is no row
    halter,     \* reserved_by_session_id with reserved_by_user_id
    umschlag,   \* reserved_by_channel and reserved_at are set
    archiviert, \* archived_at is set
    stand,      \* how far each sale and purchase is
    korb,       \* its pieces
    wer,        \* the session a sale names
    antwort,    \* the receipt it was answered with
    stornostand, szu,       \* reversals, and the receipt each reverses
    rstand, rzu, rstuecke,  \* returns, the sale and the pieces each takes back
    pstand, pstueck         \* catalogue requests and the piece each is about

zeilenVars   == <<zustand, halter, umschlag, archiviert>>
belegVars    == <<stand, korb, wer, antwort>>
stornoVars   == <<stornostand, szu>>
rueckVars    == <<rstand, rzu, rstuecke>>
pflegeVars   == <<pstand, pstueck>>
wareVars     == <<zeilenVars, belegVars, stornoVars, rueckVars, pflegeVars>>

----------------------------------------------------------------------------
(* Types *)

Zustaende == {"KEINS", "DRAFT", "AVAILABLE", "RESERVED", "SOLD"}
Stand  == {"bereit", "geprueft", "gesperrt", "gebucht", "wiederholt", "abgewiesen", "abgebrochen"}
StornoStand == {"bereit", "geprueft", "gebucht", "abgewiesen"}
RStand == {"bereit", "gelesen", "geprueft", "gebucht", "abgewiesen", "verletzt"}
PStand == {"bereit", "entwurf", "verkauft", "frei", "fertig", "abgewiesen"}

KeinStueck == "kein Stueck"

WareTypeOK ==
    /\ zustand \in [Stuecke -> Zustaende]
    /\ halter \in [Stuecke -> Halter \cup {Niemand}]
    /\ umschlag \in [Stuecke -> BOOLEAN]
    /\ archiviert \in [Stuecke -> BOOLEAN]
    /\ stand \in [Anfragen -> Stand]
    /\ korb \in [Anfragen -> SUBSET Stuecke]
    /\ wer \in [Anfragen -> Halter \cup {Niemand}]
    /\ antwort \in [Anfragen -> Anfragen \cup {KeineAnfrage}]
    /\ stornostand \in [Stornos -> StornoStand]
    /\ szu \in [Stornos -> Anfragen \cup {KeineAnfrage}]
    /\ rstand \in [Rueckgaben -> RStand]
    /\ rzu \in [Rueckgaben -> Verkaeufe \cup {KeineAnfrage}]
    /\ rstuecke \in [Rueckgaben -> SUBSET Stuecke]
    /\ pstand \in [Pflegen -> PStand]
    /\ pstueck \in [Pflegen -> Stuecke \cup {KeinStueck}]

----------------------------------------------------------------------------
(* What the tables say *)

Gebuchte == {a \in Anfragen : stand[a] = "gebucht"}

BelegZumSchluessel(k) == {a \in Gebuchte : SchluesselVon[a] = k}

BelegStorniert(o) == \E q \in Stornos : stornostand[q] = "gebucht" /\ szu[q] = o

Zurueckgenommen(o, s) ==
    \E r \in Rueckgaben : rstand[r] = "gebucht" /\ rzu[r] = o /\ s \in rstuecke[r]

\* Sale a handed piece s to its customer, and no return has brought it back.
Verkauft(a, s) == a \in Gebuchte /\ s \in korb[a] /\ ~Zurueckgenommen(a, s)

AufBeleg(s) == \E a \in Gebuchte : s \in korb[a]

\* Rows written inside and outside the sale's transaction.
ZeileFrei_OhneSperre(s) == TRUE

\* A connection that goes back to the pool without a rollback.
ZeileFrei_OhneRollback(s) ==
    \A a \in Anfragen : stand[a] \in {"gesperrt", "abgebrochen"} => s \notin korb[a]

\* Nobody holds the row lock of s.
ZeileFrei(s) == \A a \in Anfragen : stand[a] = "gesperrt" => s \notin korb[a]

\* products_available_no_reservation (0006), and since 0015 also
\* products_archived_only_when_sold.
ZeileErlaubt_OhneUmschlag(z, h, u, x) == x => z = "SOLD"

ZeileErlaubt_OhneArchiv(z, h, u, x) == z = "AVAILABLE" => h = Niemand /\ ~u

ZeileErlaubt(z, h, u, x) ==
    /\ z = "AVAILABLE" => h = Niemand /\ ~u
    /\ x => z = "SOLD"

----------------------------------------------------------------------------
WareInit ==
    /\ zustand \in [Stuecke -> Zustaende]
    /\ \A s \in Stuecke :
          /\ s \in Altstuecke => zustand[s] = "SOLD"
          /\ s \in Bestand => zustand[s] \in {"DRAFT", "AVAILABLE"}
          /\ s \notin Altstuecke \cup Bestand => zustand[s] = "KEINS"
    /\ halter = [s \in Stuecke |-> Niemand]
    /\ umschlag = [s \in Stuecke |-> FALSE]
    /\ archiviert = [s \in Stuecke |-> FALSE]
    /\ stand = [a \in Anfragen |-> IF a \in Altverkauf THEN "gebucht" ELSE "bereit"]
    /\ korb = [a \in Anfragen |-> IF a \in Altverkauf THEN Altstuecke ELSE {}]
    /\ wer = [a \in Anfragen |-> Niemand]
    /\ antwort = [a \in Anfragen |-> IF a \in Altverkauf THEN a ELSE KeineAnfrage]
    /\ stornostand = [q \in Stornos |-> "bereit"]
    /\ szu = [q \in Stornos |-> KeineAnfrage]
    /\ rstand = [r \in Rueckgaben |-> "bereit"]
    /\ rzu = [r \in Rueckgaben |-> KeineAnfrage]
    /\ rstuecke = [r \in Rueckgaben |-> {}]
    /\ pstand = [p \in Pflegen |-> "bereit"]
    /\ pstueck = [p \in Pflegen |-> KeinStueck]

----------------------------------------------------------------------------
(* packages/inventory-lock: one guarded UPDATE each *)

Reserviere_OhneZustand(h, s) ==
    /\ zustand[s] # "KEINS" /\ ZeileFrei(s)
    /\ zustand' = [zustand EXCEPT ![s] = "RESERVED"]
    /\ halter' = [halter EXCEPT ![s] = h]
    /\ umschlag' = [umschlag EXCEPT ![s] = TRUE]
    /\ UNCHANGED <<archiviert, belegVars, stornoVars, rueckVars, pflegeVars>>

Reserviere(h, s) ==
    /\ zustand[s] = "AVAILABLE" /\ ZeileFrei(s)
    /\ zustand' = [zustand EXCEPT ![s] = "RESERVED"]
    /\ halter' = [halter EXCEPT ![s] = h]
    /\ umschlag' = [umschlag EXCEPT ![s] = TRUE]
    /\ UNCHANGED <<archiviert, belegVars, stornoVars, rueckVars, pflegeVars>>

\* What release() and the sweeps write.
Freistellen(s) ==
    /\ zustand' = [zustand EXCEPT ![s] = "AVAILABLE"]
    /\ halter' = [halter EXCEPT ![s] = Niemand]
    /\ umschlag' = [umschlag EXCEPT ![s] = FALSE]
    /\ UNCHANGED <<archiviert, belegVars, stornoVars, rueckVars, pflegeVars>>

GibFrei_OhneZustand(h, s) ==
    halter[s] = h /\ ZeileFrei(s) /\ Freistellen(s)

GibFrei(h, s) ==
    zustand[s] = "RESERVED" /\ halter[s] = h /\ ZeileFrei(s) /\ Freistellen(s)

\* autoReleaseStalePos: a hold whose till never came back.
RaeumeLiegengebliebenes(s) ==
    zustand[s] = "RESERVED" /\ ZeileFrei(s) /\ Freistellen(s)

----------------------------------------------------------------------------
(* POST /api/transactions/finalize and POST /api/transactions/ankauf *)

\* The request has passed the checks that depend on nothing here (licence,
\* signature device, identity, sums, margins, capture time) and is no dry run.
\* The key is looked up outside the transaction.
Empfange(a, S, h) ==
    /\ stand[a] = "bereit"
    /\ korb' = [korb EXCEPT ![a] = S]
    /\ wer' = [wer EXCEPT ![a] = h]
    /\ \/ /\ BelegZumSchluessel(SchluesselVon[a]) = {}
          /\ stand' = [stand EXCEPT ![a] = "geprueft"]
          /\ UNCHANGED antwort
       \/ \E b \in BelegZumSchluessel(SchluesselVon[a]) :
          /\ stand' = [stand EXCEPT ![a] = "wiederholt"]
          /\ antwort' = [antwort EXCEPT ![a] = b]
    /\ UNCHANGED <<zeilenVars, stornoVars, rueckVars, pflegeVars>>

EmpfangeVerkauf(a) ==
    \E S \in (SUBSET Stuecke) \ {{}}, h \in Halter : Empfange(a, S, h)

EmpfangeAnkauf(a) ==
    \E S \in (SUBSET Stuecke) \ {{}} : Empfange(a, S, Niemand)

\* The sale writes its rows SOLD and thereby locks them, if the session holds
\* every one; otherwise it ends with 409.
HaeltAlles_OhneZustand(a) == \A s \in korb[a] : halter[s] = wer[a]

HaeltAlles(a) == \A s \in korb[a] : zustand[s] = "RESERVED" /\ halter[s] = wer[a]

SperreWare(a) ==
    /\ stand[a] = "geprueft"
    /\ \A s \in korb[a] : ZeileFrei(s)
    /\ stand' = [stand EXCEPT ![a] = IF HaeltAlles(a) THEN "gesperrt" ELSE "abgewiesen"]
    /\ UNCHANGED <<korb, wer, antwort, zeilenVars, stornoVars, rueckVars, pflegeVars>>

\* The purchase inserts its pieces; an article number that exists ends it.
LegeWareAn(a) ==
    /\ stand[a] = "geprueft"
    /\ \A s \in korb[a] : ZeileFrei(s)
    /\ stand' = [stand EXCEPT ![a] =
          IF \A s \in korb[a] : zustand[s] = "KEINS" THEN "gesperrt" ELSE "abgewiesen"]
    /\ UNCHANGED <<korb, wer, antwort, zeilenVars, stornoVars, rueckVars, pflegeVars>>

\* INSERT INTO transactions and COMMIT.
Belege(a) ==
    /\ stand' = [stand EXCEPT ![a] = "gebucht"]
    /\ antwort' = [antwort EXCEPT ![a] = a]
    /\ UNCHANGED <<korb, wer, halter, umschlag, archiviert, stornoVars, rueckVars, pflegeVars>>

BucheVerkauf(a) ==
    /\ stand[a] = "gesperrt"
    /\ BelegZumSchluessel(SchluesselVon[a]) = {}
    /\ zustand' = [s \in Stuecke |-> IF s \in korb[a] THEN "SOLD" ELSE zustand[s]]
    /\ Belege(a)

BucheAnkauf_OhneIndex(a) ==
    /\ stand[a] = "gesperrt"
    /\ zustand' = [s \in Stuecke |-> IF s \in korb[a] THEN "DRAFT" ELSE zustand[s]]
    /\ Belege(a)

BucheAnkauf(a) ==
    /\ stand[a] = "gesperrt"
    /\ BelegZumSchluessel(SchluesselVon[a]) = {}
    /\ \E F \in SUBSET korb[a] :  \* publishImmediately
          zustand' = [s \in Stuecke |->
              IF s \in F THEN "AVAILABLE" ELSE IF s \in korb[a] THEN "DRAFT" ELSE zustand[s]]
    /\ Belege(a)

BeantworteMitSieger_Schluessel(a) ==
    /\ stand[a] = "gesperrt"
    /\ BelegZumSchluessel(SchluesselVon[a]) # {}
    /\ antwort' = [antwort EXCEPT ![a] = SchluesselVon[a]]
    /\ stand' = [stand EXCEPT ![a] = "wiederholt"]
    /\ UNCHANGED <<korb, wer, zeilenVars, stornoVars, rueckVars, pflegeVars>>

\* The key's unique index refuses the INSERT; the other receipt is the answer.
BeantworteMitSieger(a) ==
    /\ stand[a] = "gesperrt"
    /\ \E b \in BelegZumSchluessel(SchluesselVon[a]) :
          antwort' = [antwort EXCEPT ![a] = b]
    /\ stand' = [stand EXCEPT ![a] = "wiederholt"]
    /\ UNCHANGED <<korb, wer, zeilenVars, stornoVars, rueckVars, pflegeVars>>

\* A rollback: a refused check, a crash, a lost connection.
BrichAb(a) ==
    /\ stand[a] \in {"geprueft", "gesperrt"}
    /\ stand' = [stand EXCEPT ![a] = "abgebrochen"]
    /\ UNCHANGED <<korb, wer, antwort, zeilenVars, stornoVars, rueckVars, pflegeVars>>

----------------------------------------------------------------------------
(* POST /api/transactions/storno: the piece stays SOLD *)

LiesFuerStorno(q, o) ==
    /\ stornostand[q] = "bereit" /\ o \in Gebuchte
    /\ szu' = [szu EXCEPT ![q] = o]
    /\ stornostand' = [stornostand EXCEPT ![q] = IF BelegStorniert(o) THEN "abgewiesen" ELSE "geprueft"]
    /\ UNCHANGED <<zeilenVars, belegVars, rueckVars, pflegeVars>>

\* transactions_one_storno_per_original_uq decides at the INSERT.
BucheStorno(q) ==
    /\ stornostand[q] = "geprueft"
    /\ stornostand' = [stornostand EXCEPT ![q] = IF BelegStorniert(szu[q]) THEN "abgewiesen" ELSE "gebucht"]
    /\ UNCHANGED <<szu, zeilenVars, belegVars, rueckVars, pflegeVars>>

----------------------------------------------------------------------------
(* POST /api/transactions/rueckgabe *)

\* 1. The original, which must not be reversed.
LiesFuerRueckgabe(r, o, S) ==
    /\ rstand[r] = "bereit" /\ o \in Gebuchte /\ S \subseteq korb[o]
    /\ rzu' = [rzu EXCEPT ![r] = o]
    /\ rstuecke' = [rstuecke EXCEPT ![r] = S]
    /\ rstand' = [rstand EXCEPT ![r] = IF BelegStorniert(o) THEN "abgewiesen" ELSE "gelesen"]
    /\ UNCHANGED <<zeilenVars, belegVars, stornoVars, pflegeVars>>

\* 2. None of the chosen pieces may have come back before.
PruefePositionen(r) ==
    /\ rstand[r] = "gelesen"
    /\ rstand' = [rstand EXCEPT ![r] =
          IF \E s \in rstuecke[r] : Zurueckgenommen(rzu[r], s) THEN "abgewiesen" ELSE "geprueft"]
    /\ UNCHANGED <<rzu, rstuecke, zeilenVars, belegVars, stornoVars, pflegeVars>>

\* The rows step 7 finds: WHERE id = ANY(...) AND status = 'SOLD'.
Trifft(r) == {s \in rstuecke[r] : zustand[s] = "SOLD"}

\* 6.-7. The receipt and the UPDATE, which empties session and user only.
BucheRueckgabe(r) ==
    /\ rstand[r] = "geprueft"
    /\ \A s \in Trifft(r) : ZeileErlaubt("AVAILABLE", Niemand, umschlag[s], archiviert[s])
    /\ zustand' = [s \in Stuecke |-> IF s \in Trifft(r) THEN "AVAILABLE" ELSE zustand[s]]
    /\ halter' = [s \in Stuecke |-> IF s \in Trifft(r) THEN Niemand ELSE halter[s]]
    /\ rstand' = [rstand EXCEPT ![r] = "gebucht"]
    /\ UNCHANGED <<rzu, rstuecke, umschlag, archiviert, belegVars, stornoVars, pflegeVars>>

\* The UPDATE breaks a CHECK of the table: everything is rolled back.
RueckgabeVerletztRegel(r) ==
    /\ rstand[r] = "geprueft"
    /\ \E s \in Trifft(r) : ~ZeileErlaubt("AVAILABLE", Niemand, umschlag[s], archiviert[s])
    /\ rstand' = [rstand EXCEPT ![r] = "verletzt"]
    /\ UNCHANGED <<rzu, rstuecke, zeilenVars, belegVars, stornoVars, pflegeVars>>

----------------------------------------------------------------------------
(* routes/products.ts: each reads the row, decides, and writes by id alone *)

Lies(p, s, was) ==
    /\ pstand[p] = "bereit"
    /\ pstand' = [pstand EXCEPT ![p] = was]
    /\ pstueck' = [pstueck EXCEPT ![p] = s]
    /\ UNCHANGED <<zeilenVars, belegVars, stornoVars, rueckVars>>

LiesEntwurf(p, s) == zustand[s] = "DRAFT" /\ Lies(p, s, "entwurf")

LiesVerkauftes(p, s) ==
    zustand[s] = "SOLD" /\ ~archiviert[s] /\ Lies(p, s, "verkauft")

LiesFreies(p, s) ==
    zustand[s] \in {"DRAFT", "AVAILABLE"} /\ ~AufBeleg(s) /\ Lies(p, s, "frei")

Beende(p, wie) ==
    /\ pstand' = [pstand EXCEPT ![p] = wie]
    /\ UNCHANGED <<pstueck, belegVars, stornoVars, rueckVars>>

\* PUT /api/products/:id with status AVAILABLE
Veroeffentliche(p) ==
    LET s == pstueck[p] IN
    /\ pstand[p] = "entwurf" /\ ZeileFrei(s) /\ zustand[s] # "KEINS"
    /\ ZeileErlaubt("AVAILABLE", halter[s], umschlag[s], archiviert[s])
    /\ zustand' = [zustand EXCEPT ![s] = "AVAILABLE"]
    /\ UNCHANGED <<halter, umschlag, archiviert>>
    /\ Beende(p, "fertig")

\* POST /api/products/:id/archive
Archiviere(p) ==
    LET s == pstueck[p] IN
    /\ pstand[p] = "verkauft" /\ ZeileFrei(s)
    /\ ZeileErlaubt(zustand[s], halter[s], umschlag[s], TRUE)
    /\ archiviert' = [archiviert EXCEPT ![s] = TRUE]
    /\ UNCHANGED <<zustand, halter, umschlag>>
    /\ Beende(p, "fertig")

\* DELETE /api/products/:id; transaction_items refers to the row.
Loesche_OhneFremdschluessel(p) ==
    LET s == pstueck[p] IN
    /\ pstand[p] = "frei" /\ ZeileFrei(s) /\ zustand[s] # "KEINS"
    /\ zustand' = [zustand EXCEPT ![s] = "KEINS"]
    /\ halter' = [halter EXCEPT ![s] = Niemand]
    /\ umschlag' = [umschlag EXCEPT ![s] = FALSE]
    /\ UNCHANGED archiviert
    /\ Beende(p, "fertig")

Loesche(p) ==
    LET s == pstueck[p] IN
    /\ pstand[p] = "frei" /\ ZeileFrei(s) /\ zustand[s] # "KEINS" /\ ~AufBeleg(s)
    /\ zustand' = [zustand EXCEPT ![s] = "KEINS"]
    /\ halter' = [halter EXCEPT ![s] = Niemand]
    /\ umschlag' = [umschlag EXCEPT ![s] = FALSE]
    /\ UNCHANGED archiviert
    /\ Beende(p, "fertig")

\* No row, a CHECK or the foreign key.
PflegeAbgewiesen(p) ==
    LET s == pstueck[p] IN
    /\ pstand[p] \in {"entwurf", "verkauft", "frei"} /\ ZeileFrei(s)
    /\ \/ zustand[s] = "KEINS"
       \/ pstand[p] = "entwurf" /\ ~ZeileErlaubt("AVAILABLE", halter[s], umschlag[s], archiviert[s])
       \/ pstand[p] = "verkauft" /\ ~ZeileErlaubt(zustand[s], halter[s], umschlag[s], TRUE)
       \/ pstand[p] = "frei" /\ AufBeleg(s)
    /\ UNCHANGED zeilenVars
    /\ Beende(p, "abgewiesen")

----------------------------------------------------------------------------
VerkaufWeiter(a) == SperreWare(a) \/ BucheVerkauf(a) \/ BeantworteMitSieger(a)

AnkaufWeiter(a) == LegeWareAn(a) \/ BucheAnkauf(a) \/ BeantworteMitSieger(a)

WareNext ==
    \/ \E h \in Halter, s \in Stuecke : Reserviere(h, s) \/ GibFrei(h, s)
    \/ \E s \in Stuecke : RaeumeLiegengebliebenes(s)
    \/ \E a \in Verkaeufe : EmpfangeVerkauf(a) \/ VerkaufWeiter(a) \/ BrichAb(a)
    \/ \E a \in Ankaeufe : EmpfangeAnkauf(a) \/ AnkaufWeiter(a) \/ BrichAb(a)
    \/ \E q \in Stornos, o \in Anfragen : LiesFuerStorno(q, o)
    \/ \E q \in Stornos : BucheStorno(q)
    \/ \E r \in Rueckgaben, o \in Verkaeufe, S \in (SUBSET Stuecke) \ {{}} : LiesFuerRueckgabe(r, o, S)
    \/ \E r \in Rueckgaben : PruefePositionen(r) \/ BucheRueckgabe(r) \/ RueckgabeVerletztRegel(r)
    \/ \E p \in Pflegen, s \in Stuecke : LiesEntwurf(p, s) \/ LiesVerkauftes(p, s) \/ LiesFreies(p, s)
    \/ \E p \in Pflegen : Veroeffentliche(p) \/ Archiviere(p) \/ Loesche(p) \/ PflegeAbgewiesen(p)

WareSpec == WareInit /\ [][WareNext]_wareVars

\* The server finishes the requests it has begun; nothing obliges anyone to
\* send one, to release a piece or to sweep.
WareFair ==
    /\ \A a \in Verkaeufe : WF_wareVars(VerkaufWeiter(a))
    /\ \A a \in Ankaeufe : WF_wareVars(AnkaufWeiter(a))

WareFairSpec == WareSpec /\ WareFair

----------------------------------------------------------------------------
(* Properties *)

\* No piece is with two customers: at most one sale that was not taken back
\* has it.  This is what inventory-lock exists for ("double-sale prevention").
KeinDoppelverkauf ==
    \A s \in Stuecke, a, b \in Verkaeufe : Verkauft(a, s) /\ Verkauft(b, s) => a = b

\* The shelf agrees with the books: a piece is SOLD exactly if a booked sale
\* has it and no return brought it back, whatever the catalogue, the sweep and
\* rolled-back sales did in between.
BestandPasstZuBelegen ==
    \A s \in Stuecke : zustand[s] = "SOLD" <=> \E a \in Verkaeufe : Verkauft(a, s)

\* A key books once, and whoever is answered 200 is answered with that one
\* receipt, the first request and every repetition alike.
AntwortIstDerBeleg ==
    /\ \A a, b \in Gebuchte : SchluesselVon[a] = SchluesselVon[b] => a = b
    /\ \A a \in Anfragen : stand[a] \in {"gebucht", "wiederholt"} =>
          antwort[a] \in BelegZumSchluessel(SchluesselVon[a])

\* Whatever is on a receipt stays in the table, although DELETE decides on a
\* row it read earlier.
BelegStueckBleibt == \A s \in Stuecke : AufBeleg(s) => zustand[s] # "KEINS"

\* An archived piece is with its customer, although both archiving and the
\* return decide on what they read earlier.
ArchiviertBleibtVerkauft ==
    \A s \in Stuecke : archiviert[s] => \E a \in Verkaeufe : Verkauft(a, s)

\* A receipt is reversed at most once, although the route's own check is not
\* under any lock.
StornoEinmal ==
    \A q, u \in Stornos :
        stornostand[q] = "gebucht" /\ stornostand[u] = "gebucht" /\ szu[q] = szu[u] => q = u

\* Neuverkaeufe: booked sales whose pieces went through a reservation.
Neuverkaeufe == Gebuchte \cap (Verkaeufe \ Altverkauf)

\* Which returns succeed and which the table refuses, whatever runs between
\* the route's checks and its UPDATE: only the earlier sale is ever taken
\* back, and a return fails at the table only over a piece that was archived
\* or that stands on a sale out of a reservation.
RuecknahmeNurAltes ==
    \A r \in Rueckgaben :
        /\ rstand[r] = "gebucht" => rzu[r] \in Altverkauf
        /\ rstand[r] = "verletzt" =>
              \E s \in rstuecke[r] : archiviert[s] \/ \E a \in Neuverkaeufe : s \in korb[a]

\* Row locks and key conflicts never leave a request waiting for ever.
AnfrageWirdBeantwortet ==
    \A a \in Anfragen : stand[a] \in {"geprueft", "gesperrt"} ~>
        stand[a] \in {"gebucht", "wiederholt", "abgewiesen", "abgebrochen"}

----------------------------------------------------------------------------
(* The invariant that is inductive (WareProofs) *)

\* A request that holds row locks wrote rows that were its own to write, and
\* no two hold the same row.
SperrenGetrennt ==
    /\ \A a \in Verkaeufe : stand[a] = "gesperrt" => \A s \in korb[a] : zustand[s] = "RESERVED"
    /\ \A a \in Ankaeufe : stand[a] = "gesperrt" => \A s \in korb[a] : zustand[s] = "KEINS"
    /\ \A a, b \in Anfragen :
          stand[a] = "gesperrt" /\ stand[b] = "gesperrt" /\ a # b => korb[a] \cap korb[b] = {}

\* Reserved rows keep their envelope, archived rows are SOLD.
ZeilenGueltig ==
    \A s \in Stuecke :
        /\ zustand[s] = "RESERVED" => umschlag[s]
        /\ archiviert[s] => zustand[s] = "SOLD"

\* A piece sold out of a reservation never comes back: its envelope stays and
\* the table refuses the return.  Hence two returns that both passed the
\* route's check cannot put a piece on the shelf that was sold again.
NeuverkaufBleibt ==
    \A a \in Neuverkaeufe :
        \A s \in korb[a] : zustand[s] = "SOLD" /\ umschlag[s]

\* What an earlier sale still has was not reserved again.
AltverkaufAllein ==
    \A a \in Altverkauf, s \in Stuecke :
        Verkauft(a, s) => \A b \in Neuverkaeufe : s \notin korb[b]

\* A return is about lines of a booked sale, a reversal about a receipt.
BezugGebucht ==
    /\ \A r \in Rueckgaben : rstand[r] # "bereit" =>
          rzu[r] \in Gebuchte \cap Verkaeufe /\ rstuecke[r] \subseteq korb[rzu[r]]
    /\ \A q \in Stornos : stornostand[q] # "bereit" => szu[q] \in Gebuchte

\* A draft that was sold since the catalogue read it was reserved in between,
\* so that the table refuses to publish it.
EntwurfBleibtErkennbar ==
    /\ \A p \in Pflegen : pstand[p] # "bereit" => pstueck[p] \in Stuecke
    /\ \A p \in Pflegen : pstand[p] = "entwurf" =>
          (zustand[pstueck[p]] = "SOLD" => umschlag[pstueck[p]])

WareInduktiv ==
    /\ WareTypeOK
    /\ SperrenGetrennt /\ ZeilenGueltig /\ NeuverkaufBleibt /\ AltverkaufAllein
    /\ BezugGebucht /\ EntwurfBleibtErkennbar
    /\ KeinDoppelverkauf /\ BestandPasstZuBelegen /\ AntwortIstDerBeleg
    /\ BelegStueckBleibt /\ StornoEinmal

\* The earlier sale stays booked, the stamp of a reservation on a SOLD row is
\* that of a sale out of it, and a return is about some piece.
UmschlagErklaert ==
    /\ Altverkauf \subseteq Gebuchte
    /\ \A s \in Stuecke : zustand[s] = "SOLD" /\ umschlag[s] => \E a \in Neuverkaeufe : s \in korb[a]
    /\ \A r \in Rueckgaben : rstand[r] # "bereit" => rstuecke[r] # {}

----------------------------------------------------------------------------
(* The pieces as Einzelstueck sees them *)

Besitzer(s) ==
    IF \E a \in Verkaeufe : Verkauft(a, s)
    THEN SchluesselVon[CHOOSE a \in Verkaeufe : Verkauft(a, s)]
    ELSE IF zustand[s] = "KEINS" THEN Fremd ELSE Laden

besitzer   == [s \in Stuecke |-> Besitzer(s)]
verbraucht == {SchluesselVon[a] : a \in Gebuchte \cap Verkaeufe}

Einzelstueck == INSTANCE Einzelstueck

\* Every commit is a step of Einzelstueck and everything else is invisible
\* there: sold once per key, from the shop only, back by a return only.
IstEinzelstueck == Einzelstueck!Spec

(* The requests as Belegstelle sees them *)

BelegDesSchluessels(k) ==
    IF BelegZumSchluessel(k) = {} THEN KeineAnfrage ELSE CHOOSE a \in BelegZumSchluessel(k) : TRUE

GezeigteBelege(k) ==
    {antwort[a] : a \in {b \in Anfragen : SchluesselVon[b] = k /\ stand[b] \in {"gebucht", "wiederholt"}}}

Belegstelle == INSTANCE Belegstelle WITH
    Kennungen  <- Schluessel,
    Quittungen <- Anfragen,
    Keine      <- KeineAnfrage,
    beleg      <- [k \in Schluessel |-> BelegDesSchluessels(k)],
    gezeigt    <- [k \in Schluessel |-> GezeigteBelege(k)]

\* The promise the outbox of a till relies on (Ausgang): one receipt per key
\* that stays, and no other is shown, however many requests carry the key.
IstBelegstelle == Belegstelle!Spec

----------------------------------------------------------------------------
(* What the repository says and the code does not keep *)

\* transactions-rueckgabe.ts:39: the returned piece goes back into stock.  A
\* return that passed every check of the route is never refused by the table.
RuecknahmeGelingt == \A r \in Rueckgaben : rstand[r] # "verletzt"

\* 0028:49 and transactions-ankauf.ts:580: a repetition of a booked request,
\* with the same key and body, gets the original receipt and not a refusal.
WiederholungBekommtDenBeleg ==
    [][\A a \in Gebuchte, b \in Anfragen :
          (SchluesselVon[b] = SchluesselVon[a] /\ korb[b] = korb[a] /\ wer[b] = wer[a])
             => ~(stand[b] = "geprueft" /\ stand'[b] = "abgewiesen")]_wareVars

=============================================================================
