------------------------------ MODULE Kassenlade ------------------------------
(***************************************************************************)
(* The cash drawer: shifts, the cash that is booked on them, and the blind *)
(* count that closes them.                                                 *)
(*                                                                         *)
(* A shift is opened on a till, receipts and cash movements book their     *)
(* cash on it, and it is closed by a count: the cashier states what is in  *)
(* the drawer, the route computes what should be and stores both.  The     *)
(* difference is fixed with that row, so the hard part is that computation *)
(* and bookings run at once, that a booking finds its shift in one         *)
(* statement and is written in a later one, and that tills repeat.         *)
(*                                                                         *)
(* A Beleg is any request that books cash with a receipt: a sale, which    *)
(* may name the shift it was rung up on, or a sale of an older till, a     *)
(* purchase, a Storno or a Rueckgabe, which look for the open shift of     *)
(* their till.  Expected cash is the set of the bookings that were summed. *)
(*                                                                         *)
(* The database brings two locks: the count holds the row of the shift     *)
(* (SELECT .. FOR UPDATE), and an INSERT that refers to a shift holds that *)
(* row until it commits (the FOR KEY SHARE of its foreign key).  Each      *)
(* waits for the other; neither is a variable, both follow from how far    *)
(* the requests are.                                                       *)
(*                                                                         *)
(* Abstracted: amounts and their signs, receipts without cash, the day and *)
(* its seal (see Tagesabschluss), requests for a shift of another till and *)
(* others that are refused without a trace.                                *)
(*                                                                         *)
(* An operator X_Y is a faulty variant of X, never used by LadeSpec.       *)
(***************************************************************************)

CONSTANTS
    Geraete,      \* tills
    Kassenschichten,    \* shifts
    Kassenbelege,       \* requests that book a receipt with cash
    Bewegungen,   \* requests for a cash movement
    Referenz,     \* the external_ref a movement carries; a repetition carries the same
    Zaehlungen,      \* requests that count a drawer and close its shift
    Ohne          \* no reference, no shift, no till, no movement

ASSUME OhneAnnahme == Ohne \notin Geraete \cup Kassenschichten \cup Bewegungen \cup Zaehlungen

ASSUME BelegeAnnahme == Kassenbelege \cap Bewegungen = {}

VARIABLES
    schicht,    \* shifts.status, "KEINE" where there is no row
    geraet,     \* shifts.device_id
    soll,       \* shifts.system_expected_eur: the bookings it sums
    zaehlung,   \* the count whose figures the shift carries
    bstand, bgeraet, bschicht,  \* receipts: progress, till, shift
    mstand, mschicht, mzeile,    \* movements: progress, shift, the row answered with
    zstand, zschicht, zsumme    \* counts: progress, shift, the bookings summed

kassenschichtVars  == <<schicht, geraet, soll, zaehlung>>
belegVars    == <<bstand, bgeraet, bschicht>>
bewegungVars == <<mstand, mschicht, mzeile>>
sturzVars    == <<zstand, zschicht, zsumme>>
ladeVars == <<kassenschichtVars, belegVars, bewegungVars, sturzVars>>

----------------------------------------------------------------------------
(* Types *)

BStand == {"bereit", "geprueft", "zugeordnet", "eingefuegt", "gebucht", "abgewiesen"}
MStand == {"bereit", "geprueft", "gebucht", "wiederholt", "abgewiesen"}
ZStand == {"bereit", "wartet", "gesperrt", "gerechnet", "gezaehlt", "abgewiesen"}

LadeTypeOK ==
    /\ schicht \in [Kassenschichten -> {"KEINE", "OPEN", "CLOSED"}]
    /\ geraet \in [Kassenschichten -> Geraete \cup {Ohne}]
    /\ soll \in [Kassenschichten -> SUBSET (Kassenbelege \cup Bewegungen)]
    /\ zaehlung \in [Kassenschichten -> Zaehlungen \cup {Ohne}]
    /\ bstand \in [Kassenbelege -> BStand]
    /\ bgeraet \in [Kassenbelege -> Geraete \cup {Ohne}]
    /\ bschicht \in [Kassenbelege -> Kassenschichten \cup {Ohne}]
    /\ mstand \in [Bewegungen -> MStand]
    /\ mschicht \in [Bewegungen -> Kassenschichten \cup {Ohne}]
    /\ mzeile \in [Bewegungen -> Bewegungen \cup {Ohne}]
    /\ zstand \in [Zaehlungen -> ZStand]
    /\ zschicht \in [Zaehlungen -> Kassenschichten \cup {Ohne}]
    /\ zsumme \in [Zaehlungen -> SUBSET (Kassenbelege \cup Bewegungen)]

LadeInit ==
    /\ schicht = [s \in Kassenschichten |-> "KEINE"]
    /\ geraet = [s \in Kassenschichten |-> Ohne]
    /\ soll = [s \in Kassenschichten |-> {}]
    /\ zaehlung = [s \in Kassenschichten |-> Ohne]
    /\ bstand = [b \in Kassenbelege |-> "bereit"]
    /\ bgeraet = [b \in Kassenbelege |-> Ohne]
    /\ bschicht = [b \in Kassenbelege |-> Ohne]
    /\ mstand = [m \in Bewegungen |-> "bereit"]
    /\ mschicht = [m \in Bewegungen |-> Ohne]
    /\ mzeile = [m \in Bewegungen |-> Ohne]
    /\ zstand = [z \in Zaehlungen |-> "bereit"]
    /\ zschicht = [z \in Zaehlungen |-> Ohne]
    /\ zsumme = [z \in Zaehlungen |-> {}]

----------------------------------------------------------------------------
(* The drawer *)

\* A route that asks whether the shift exists, and not for its status.
IstOffen_Vorhanden(s) == schicht[s] # "KEINE"

IstOffen(s) == schicht[s] = "OPEN"

\* What stands in the books for a shift.
Beine(s) ==
    {b \in Kassenbelege : bstand[b] = "gebucht" /\ bschicht[b] = s}
        \cup {m \in Bewegungen : mstand[m] = "gebucht" /\ mschicht[m] = s}

\* Plain SELECT: nobody waits for a count.
HaeltSchicht_OhneForUpdate(z, s) == FALSE

\* SELECT .. FOR UPDATE, until the count commits.
HaeltSchicht(z, s) == zstand[z] \in {"gesperrt", "gerechnet"} /\ zschicht[z] = s

KeinSturzAuf(s) == \A z \in Zaehlungen : ~HaeltSchicht(z, s)

\* FOR KEY SHARE of the foreign key, until the receipt commits.
KeinBelegUnterwegs(s) == \A b \in Kassenbelege : ~(bstand[b] = "eingefuegt" /\ bschicht[b] = s)

\* POST /api/shifts/open; the unique index refuses a second open shift.
OeffneLade(s) ==
    /\ schicht[s] = "KEINE"
    /\ \E g \in Geraete :
          /\ \A t \in Kassenschichten : ~(IstOffen(t) /\ geraet[t] = g)
          /\ geraet' = [geraet EXCEPT ![s] = g]
    /\ schicht' = [schicht EXCEPT ![s] = "OPEN"]
    /\ UNCHANGED <<soll, zaehlung, belegVars, bewegungVars, sturzVars>>

----------------------------------------------------------------------------
(* Receipts *)

\* The shift a sale names is one of its till, open or not (step 2c).
EmpfangeBeleg(b) ==
    /\ bstand[b] = "bereit"
    /\ \E g \in Geraete, s \in Kassenschichten \cup {Ohne} :
          /\ s # Ohne => geraet[s] = g
          /\ bgeraet' = [bgeraet EXCEPT ![b] = g]
          /\ bschicht' = [bschicht EXCEPT ![b] = s]
    /\ bstand' = [bstand EXCEPT ![b] = "geprueft"]
    /\ UNCHANGED <<kassenschichtVars, bewegungVars, sturzVars>>

OffeneLaden(g) == {s \in Kassenschichten : IstOffen(s) /\ geraet[s] = g}

\* Inside the transaction: the shift that was named, or the open one.
OrdneZu(b) ==
    /\ bstand[b] = "geprueft"
    /\ \/ bschicht[b] # Ohne /\ UNCHANGED bschicht
       \/ /\ bschicht[b] = Ohne
          /\ \E s \in OffeneLaden(bgeraet[b]) : bschicht' = [bschicht EXCEPT ![b] = s]
    /\ bstand' = [bstand EXCEPT ![b] = "zugeordnet"]
    /\ UNCHANGED <<bgeraet, kassenschichtVars, bewegungVars, sturzVars>>

\* BargeldOhneSchichtError and its three siblings.
WeiseBelegAb(b) ==
    /\ bstand[b] = "geprueft"
    /\ bschicht[b] = Ohne /\ OffeneLaden(bgeraet[b]) = {}
    /\ bstand' = [bstand EXCEPT ![b] = "abgewiesen"]
    /\ UNCHANGED <<bgeraet, bschicht, kassenschichtVars, bewegungVars, sturzVars>>

\* INSERT INTO transactions: waits for a count of that shift, and does not
\* look at the shift again.
FuegeBelegEin(b) ==
    /\ bstand[b] = "zugeordnet"
    /\ KeinSturzAuf(bschicht[b])
    /\ bstand' = [bstand EXCEPT ![b] = "eingefuegt"]
    /\ UNCHANGED <<bgeraet, bschicht, kassenschichtVars, bewegungVars, sturzVars>>

CommitteBeleg(b) ==
    /\ bstand[b] = "eingefuegt"
    /\ bstand' = [bstand EXCEPT ![b] = "gebucht"]
    /\ UNCHANGED <<bgeraet, bschicht, kassenschichtVars, bewegungVars, sturzVars>>

\* Any later refusal, or a lost connection.
BrichBelegAb(b) ==
    /\ bstand[b] \in {"geprueft", "zugeordnet", "eingefuegt"}
    /\ bstand' = [bstand EXCEPT ![b] = "abgewiesen"]
    /\ UNCHANGED <<bgeraet, bschicht, kassenschichtVars, bewegungVars, sturzVars>>

----------------------------------------------------------------------------
(* Cash movements: a query for the shift, then one INSERT of its own. *)

EmpfangeBewegung(m) ==
    /\ mstand[m] = "bereit"
    /\ \E s \in Kassenschichten : IstOffen(s) /\ mschicht' = [mschicht EXCEPT ![m] = s]
    /\ mstand' = [mstand EXCEPT ![m] = "geprueft"]
    /\ UNCHANGED <<mzeile, kassenschichtVars, belegVars, sturzVars>>

\* The rows the partial unique index on external_ref finds for a movement.
Vorhandene(m) ==
    {n \in Bewegungen : mstand[n] = "gebucht" /\ Referenz[m] # Ohne /\ Referenz[n] = Referenz[m]}

\* An INSERT without ON CONFLICT and without the index.
BucheBewegung_OhneIndex(m) ==
    /\ mstand[m] = "geprueft"
    /\ KeinSturzAuf(mschicht[m])
    /\ mstand' = [mstand EXCEPT ![m] = "gebucht"]
    /\ mzeile' = [mzeile EXCEPT ![m] = m]
    /\ UNCHANGED <<mschicht, kassenschichtVars, belegVars, sturzVars>>

BucheBewegung(m) ==
    /\ mstand[m] = "geprueft"
    /\ Vorhandene(m) = {}
    /\ KeinSturzAuf(mschicht[m])
    /\ mstand' = [mstand EXCEPT ![m] = "gebucht"]
    /\ mzeile' = [mzeile EXCEPT ![m] = m]
    /\ UNCHANGED <<mschicht, kassenschichtVars, belegVars, sturzVars>>

\* ON CONFLICT DO NOTHING, then the row that is there.
WiederholeBewegung(m) ==
    /\ mstand[m] = "geprueft"
    /\ \E n \in Vorhandene(m) : mzeile' = [mzeile EXCEPT ![m] = n]
    /\ mstand' = [mstand EXCEPT ![m] = "wiederholt"]
    /\ UNCHANGED <<mschicht, kassenschichtVars, belegVars, sturzVars>>

BrichBewegungAb(m) ==
    /\ mstand[m] = "geprueft"
    /\ mstand' = [mstand EXCEPT ![m] = "abgewiesen"]
    /\ UNCHANGED <<mschicht, mzeile, kassenschichtVars, belegVars, sturzVars>>

----------------------------------------------------------------------------
(* The blind count *)

EmpfangeSturz(z) ==
    /\ zstand[z] = "bereit"
    /\ \E s \in Kassenschichten : schicht[s] # "KEINE" /\ zschicht' = [zschicht EXCEPT ![z] = s]
    /\ zstand' = [zstand EXCEPT ![z] = "wartet"]
    /\ UNCHANGED <<zsumme, kassenschichtVars, belegVars, bewegungVars>>

\* The row lock is granted.
BekommtSchicht(z) ==
    /\ zstand[z] = "wartet"
    /\ KeinSturzAuf(zschicht[z]) /\ KeinBelegUnterwegs(zschicht[z])

SperreSchicht(z) ==
    /\ BekommtSchicht(z)
    /\ IstOffen(zschicht[z])
    /\ zstand' = [zstand EXCEPT ![z] = "gesperrt"]
    /\ UNCHANGED <<zschicht, zsumme, kassenschichtVars, belegVars, bewegungVars>>

\* The second count keeps waiting for a row that is no longer open.
LehneSturzAb_Nie(z) ==
    /\ FALSE
    /\ UNCHANGED ladeVars

LehneSturzAb(z) ==
    /\ BekommtSchicht(z)
    /\ ~IstOffen(zschicht[z])
    /\ zstand' = [zstand EXCEPT ![z] = "abgewiesen"]
    /\ UNCHANGED <<zschicht, zsumme, kassenschichtVars, belegVars, bewegungVars>>

\* The one query over payments and movements.
Rechne(z) ==
    /\ zstand[z] = "gesperrt"
    /\ zsumme' = [zsumme EXCEPT ![z] = Beine(zschicht[z])]
    /\ zstand' = [zstand EXCEPT ![z] = "gerechnet"]
    /\ UNCHANGED <<zschicht, kassenschichtVars, belegVars, bewegungVars>>

\* UPDATE .. WHERE status = 'OPEN', COMMIT.
SchliesseLade(z) ==
    /\ zstand[z] = "gerechnet"
    /\ IstOffen(zschicht[z])
    /\ schicht' = [schicht EXCEPT ![zschicht[z]] = "CLOSED"]
    /\ soll' = [soll EXCEPT ![zschicht[z]] = zsumme[z]]
    /\ zaehlung' = [zaehlung EXCEPT ![zschicht[z]] = z]
    /\ zstand' = [zstand EXCEPT ![z] = "gezaehlt"]
    /\ UNCHANGED <<geraet, zschicht, zsumme, belegVars, bewegungVars>>

BrichSturzAb(z) ==
    /\ zstand[z] \in {"wartet", "gesperrt", "gerechnet"}
    /\ zstand' = [zstand EXCEPT ![z] = "abgewiesen"]
    /\ UNCHANGED <<zschicht, zsumme, kassenschichtVars, belegVars, bewegungVars>>

----------------------------------------------------------------------------
(* Specification *)

\* What the server does on its own once a request is there.
BelegSchritt(b) == OrdneZu(b) \/ WeiseBelegAb(b) \/ FuegeBelegEin(b) \/ CommitteBeleg(b)

BewegungSchritt(m) == BucheBewegung(m) \/ WiederholeBewegung(m)

SturzSchritt(z) == SperreSchicht(z) \/ LehneSturzAb(z) \/ Rechne(z) \/ SchliesseLade(z)

BelegAktion(b) == EmpfangeBeleg(b) \/ BelegSchritt(b) \/ BrichBelegAb(b)

BewegungAktion(m) == EmpfangeBewegung(m) \/ BewegungSchritt(m) \/ BrichBewegungAb(m)

SturzAktion(z) == EmpfangeSturz(z) \/ SturzSchritt(z) \/ BrichSturzAb(z)

LadeNext ==
    \/ \E s \in Kassenschichten : OeffneLade(s)
    \/ \E b \in Kassenbelege : BelegAktion(b)
    \/ \E m \in Bewegungen : BewegungAktion(m)
    \/ \E z \in Zaehlungen : SturzAktion(z)

LadeSpec == LadeInit /\ [][LadeNext]_ladeVars

\* Requests that wait for a row get it in the order they came.  A cash movement
\* is one statement that nobody waits for: nothing is asked of it.
LadeFairSpec ==
    /\ LadeSpec
    /\ \A b \in Kassenbelege : SF_ladeVars(BelegSchritt(b))
    /\ \A z \in Zaehlungen : SF_ladeVars(SturzSchritt(z))

----------------------------------------------------------------------------
(* Properties *)

\* shifts.ts:46: of several counts at once one wins and the others are told.
\* A count is answered with 200 exactly if the shift carries its figures, and
\* a shift carries figures exactly if it is closed.
AntwortIstDieZaehlung ==
    /\ \A z \in Zaehlungen : zstand[z] = "gezaehlt" <=> \E s \in Kassenschichten : zaehlung[s] = z
    /\ \A s \in Kassenschichten : zaehlung[s] # Ohne <=> schicht[s] = "CLOSED"

\* shifts.ts:423: the stored balance is what the books say of the shift at the
\* moment it closes, and no receipt is half way into it then.
SollIstDieLade ==
    [][\A s \in Kassenschichten :
          (schicht[s] = "OPEN" /\ schicht'[s] = "CLOSED") =>
              soll'[s] = Beine(s)' /\ KeinBelegUnterwegs(s)']_ladeVars

\* 0113: a cash movement stands in the books once, however often and on
\* whatever shift it is repeated, and each repetition is answered with it.
BewegungNurEinmal ==
    /\ \A m, n \in Bewegungen :
          (mstand[m] = "gebucht" /\ mstand[n] = "gebucht" /\ Referenz[m] = Referenz[n]
              /\ Referenz[m] # Ohne) => m = n
    /\ \A m \in Bewegungen : mstand[m] \in {"gebucht", "wiederholt"} =>
          /\ mzeile[m] \in Bewegungen
          /\ mstand[mzeile[m]] = "gebucht"
          /\ mzeile[m] = m \/ (Referenz[mzeile[m]] = Referenz[m] /\ Referenz[m] # Ohne)

\* The drawer as its owner sees it.  Movements that carry the same reference
\* are one.
Vorgang ==
    [p \in Kassenbelege \cup Bewegungen |->
        IF p \in Bewegungen /\ Referenz[p] # Ohne THEN <<"referenz", Referenz[p]>> ELSE <<"anfrage", p>>]

Eingetragen == [s \in Kassenschichten |-> Beine(s)]

Schichtbuch == INSTANCE Schichtbuch WITH
    Posten <- Kassenbelege \cup Bewegungen, stand <- schicht, posten <- Eingetragen

\* Row locks, the wait for them, lost requests and repetitions together keep
\* the book of shifts: whatever runs at once, closing is one step that copies
\* what stands in the books, nothing is booked twice or on a shift there is
\* not, and no later step touches what was copied.
IstSchichtbuch == Schichtbuch!Spec

\* Receipts and counts wait for each other's row lock; none waits for ever.
KasseAntwortet ==
    /\ \A b \in Kassenbelege : bstand[b] = "geprueft" ~> bstand[b] \in {"gebucht", "abgewiesen"}
    /\ \A z \in Zaehlungen : zstand[z] = "wartet" ~> zstand[z] \in {"gezaehlt", "abgewiesen"}

----------------------------------------------------------------------------
(* The inductive invariant *)

\* One count at a time has the row, the shift is open as long as it does, and
\* no receipt is on its way into it.
SperreWirkt ==
    /\ \A y, z \in Zaehlungen, s \in Kassenschichten : HaeltSchicht(y, s) /\ HaeltSchicht(z, s) => y = z
    /\ \A z \in Zaehlungen, s \in Kassenschichten :
          HaeltSchicht(z, s) => schicht[s] = "OPEN" /\ KeinBelegUnterwegs(s)

\* What a count has summed is still what the books say.
SummeGilt ==
    \A z \in Zaehlungen : zstand[z] = "gerechnet" =>
        zschicht[z] \in Kassenschichten /\ zsumme[z] = Beine(zschicht[z])

\* Requests in progress have their shift.
BezugDa ==
    /\ \A b \in Kassenbelege : bstand[b] \in {"zugeordnet", "eingefuegt", "gebucht"} => bschicht[b] \in Kassenschichten
    /\ \A m \in Bewegungen : mstand[m] # "bereit" => mschicht[m] \in Kassenschichten
    /\ \A z \in Zaehlungen : zstand[z] # "bereit" => zschicht[z] \in Kassenschichten

\* A shift has its till from the moment it is opened, and what is on its way
\* has a shift that was opened.
SchichtDa ==
    /\ \A s \in Kassenschichten : geraet[s] # Ohne => schicht[s] # "KEINE"
    /\ \A b \in Kassenbelege : bschicht[b] # Ohne => schicht[bschicht[b]] # "KEINE"
    /\ \A m \in Bewegungen : mschicht[m] # Ohne => schicht[mschicht[m]] # "KEINE"

LadeInduktiv ==
    /\ LadeTypeOK /\ SperreWirkt /\ SummeGilt /\ BezugDa /\ SchichtDa
    /\ AntwortIstDieZaehlung /\ BewegungNurEinmal

----------------------------------------------------------------------------
(* What the repository says and the code does not keep *)

\* transactions-finalize.ts:885: a sale is attributed to the shift it was rung
\* up on so that the blind count can see its cash.
SturzSiehtJedesBein == \A s \in Kassenschichten : schicht[s] = "CLOSED" => Beine(s) \subseteq soll[s]

=============================================================================
