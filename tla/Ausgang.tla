-------------------------------- MODULE Ausgang --------------------------------
(***************************************************************************)
(* The way of a fiscal request out of the till: the intent that is sealed  *)
(* on disk, the direct attempt, the outbox, and the drain that replays the *)
(* outbox against the server.                                              *)
(*                                                                         *)
(* A Vorgang is one opening of a payment dialog.  Its idempotency key is   *)
(* frozen with the opening, so Vorgaenge are keys as well.  Three writers  *)
(* meet on the outbox: the request that finds no network, the reconcile    *)
(* of open intents at the next login, and the drain.  A Lauf is a replay   *)
(* controller; the effect that owns it makes a new one whenever it runs    *)
(* again, and the old one finishes the pass it is in.  Every statement on  *)
(* the local database is a step, and the till may crash between any two.   *)
(*                                                                         *)
(* The server is what Ware promises of it: a key books once and whoever    *)
(* repeats it is answered with that receipt; a check that lies before the  *)
(* look-up may refuse a repetition all the same.  A request whose answer   *)
(* is lost, or whose till is gone, is booked or not.                       *)
(*                                                                         *)
(* Abstracted: bodies, headers, retention, requests that are never queued, *)
(* the order in which the reconcile takes the intents.                     *)
(*                                                                         *)
(* An operator X_Y is a faulty variant of X, never used by AusgangSpec.    *)
(***************************************************************************)
EXTENDS Naturals, FiniteSets

CONSTANTS
    Vorgaenge,   \* openings of a payment dialog, and their keys
    Laeufe,      \* replay controllers
    Niemand      \* no request, no controller

ASSUME AusgangAnnahme ==
    /\ Vorgaenge \cap Laeufe = {}
    /\ Niemand \notin Vorgaenge \cup Laeufe
    /\ IsFiniteSet(Vorgaenge)

VARIABLES
    dialog,    \* what the dialog of a request is at, and told the cashier
    absicht,   \* pos_intents: no row, open, resolved
    zeile, nr, \* outbox_mutations: status and monotonic_seq
    antwort,   \* the answer a dialog or a controller waits for or has
    aktuell,   \* the controller of the mounted effect
    phase,     \* of a controller: not started, reconciling, listening
    gefunden,  \* of a controller: what its pass has read as pending
    rest, bei, \* of a controller: records left of its list, the one it is at
    erneut,    \* conflicts the owner sent again
    buch       \* receipts the server has of a key

dialogVars == <<dialog, absicht>>
korbVars   == <<zeile, nr, erneut>>
laufVars   == <<aktuell, phase, gefunden, rest, bei>>
ausgangVars == <<dialogVars, korbVars, laufVars, antwort, buch>>

----------------------------------------------------------------------------
(* Types *)

Dialogstand ==
    {"bereit", "gesiegelt", "gesendet", "beantwortet",
     "gebucht", "eingereiht",      \* told: booked, queued
     "abgelehnt", "unklar",        \* told: refused, something went wrong
     "aufgegeben", "verlassen"}    \* closed after a refusal, otherwise

AusgangTypeOK ==
    /\ dialog \in [Vorgaenge -> Dialogstand]
    /\ absicht \in [Vorgaenge -> {"KEINE", "offen", "erledigt"}]
    /\ zeile \in [Vorgaenge -> {"KEINE", "pending", "conflict", "succeeded", "failed_terminal"}]
    /\ nr \in [Vorgaenge -> Nat]
    /\ antwort \in [Vorgaenge \cup Laeufe -> {"keine", "unterwegs", "ok", "nein", "stoerung", "netz"}]
    /\ \A l \in Laeufe : antwort[l] # "netz"
    /\ aktuell \in Laeufe \cup {Niemand}
    /\ phase \in [Laeufe -> {"neu", "abgleich", "lauscht"}]
    /\ gefunden \in [Laeufe -> SUBSET Vorgaenge]
    /\ rest \in [Laeufe -> SUBSET Vorgaenge]
    /\ bei \in [Laeufe -> Vorgaenge \cup {Niemand}]
    /\ erneut \subseteq Vorgaenge
    /\ buch \in [Vorgaenge -> Nat]

\* What an earlier session has left in the outbox, numbered 1, 2, ...
Altlasten ==
    {n \in [Vorgaenge -> 0..Cardinality(Vorgaenge)] :
        \A v \in Vorgaenge : n[v] > 0 =>
            /\ \A w \in Vorgaenge : n[w] = n[v] => w = v
            /\ n[v] > 1 => \E w \in Vorgaenge : n[w] = n[v] - 1}

AusgangInit ==
    /\ nr \in Altlasten
    /\ dialog = [v \in Vorgaenge |-> IF nr[v] > 0 THEN "eingereiht" ELSE "bereit"]
    /\ absicht = [v \in Vorgaenge |-> IF nr[v] > 0 THEN "erledigt" ELSE "KEINE"]
    /\ zeile = [v \in Vorgaenge |-> IF nr[v] > 0 THEN "pending" ELSE "KEINE"]
    /\ antwort = [q \in Vorgaenge \cup Laeufe |-> "keine"]
    /\ aktuell = Niemand
    /\ phase = [l \in Laeufe |-> "neu"]
    /\ gefunden = [l \in Laeufe |-> {}]
    /\ rest = [l \in Laeufe |-> {}]
    /\ bei = [l \in Laeufe |-> Niemand]
    /\ erneut = {}
    /\ buch = [v \in Vorgaenge |-> 0]

----------------------------------------------------------------------------
(* The outbox *)

\* COALESCE(MAX(monotonic_seq), 0) + 1
NaechsteNr(n) ==
    /\ \A v \in Vorgaenge : nr[v] < n
    /\ n = 1 \/ \E v \in Vorgaenge : nr[v] = n - 1

\* INSERT OR IGNORE on the key.
LegeInKorb(v) ==
    \/ /\ zeile[v] = "KEINE"
       /\ zeile' = [zeile EXCEPT ![v] = "pending"]
       /\ \E n \in 1..Cardinality(Vorgaenge) : NaechsteNr(n) /\ nr' = [nr EXCEPT ![v] = n]
    \/ zeile[v] # "KEINE" /\ UNCHANGED <<zeile, nr>>

Anstehend == {v \in Vorgaenge : zeile[v] = "pending"}

----------------------------------------------------------------------------
(* The dialog *)

\* posIntentsStore.create, best effort: an open intent is sealed anew, a
\* resolved one is left alone.
Siegle(v) ==
    /\ dialog[v] \in {"bereit", "abgelehnt", "unklar"}
    /\ dialog' = [dialog EXCEPT ![v] = "gesiegelt"]
    /\ \/ absicht[v] = "KEINE" /\ absicht' = [absicht EXCEPT ![v] = "offen"]
       \/ UNCHANGED absicht
    /\ UNCHANGED <<korbVars, laufVars, buch, antwort>>

SendeDirekt(v) ==
    /\ dialog[v] = "gesiegelt"
    /\ dialog' = [dialog EXCEPT ![v] = "gesendet"]
    /\ antwort' = [antwort EXCEPT ![v] = "unterwegs"]
    /\ UNCHANGED <<absicht, korbVars, laufVars, buch>>

\* Known to be offline, or the network failed under the request.
BrauchtKorb(v) ==
    \/ dialog[v] = "gesiegelt"
    \/ dialog[v] = "gesendet" /\ antwort[v] = "netz"

\* store.enqueue, then ApiOfflineQueuedError: the dialog shows a receipt.
ReiheEin(v) ==
    /\ BrauchtKorb(v)
    /\ LegeInKorb(v)
    /\ dialog' = [dialog EXCEPT ![v] = "eingereiht"]
    /\ antwort' = [antwort EXCEPT ![v] = "keine"]
    /\ UNCHANGED <<absicht, erneut, laufVars, buch>>

\* The local database refuses the row, and the dialog shows an error.
EinreihenScheitert(v) ==
    /\ BrauchtKorb(v)
    /\ dialog' = [dialog EXCEPT ![v] = "unklar"]
    /\ antwort' = [antwort EXCEPT ![v] = "keine"]
    /\ UNCHANGED <<absicht, korbVars, laufVars, buch>>

\* markHandedOff runs beside the dialog, nobody waits for it.
Uebergib(v) ==
    /\ dialog[v] = "eingereiht" /\ absicht[v] = "offen"
    /\ absicht' = [absicht EXCEPT ![v] = "erledigt"]
    /\ UNCHANGED <<dialog, korbVars, laufVars, buch, antwort>>

\* Any answer of the server but success surfaces, and leaves the intent open.
Empfange(v) ==
    /\ dialog[v] = "gesendet"
    /\ \/ antwort[v] = "ok" /\ dialog' = [dialog EXCEPT ![v] = "beantwortet"]
       \/ antwort[v] = "nein" /\ dialog' = [dialog EXCEPT ![v] = "abgelehnt"]
       \/ antwort[v] = "stoerung" /\ dialog' = [dialog EXCEPT ![v] = "unklar"]
    /\ antwort' = [antwort EXCEPT ![v] = "keine"]
    /\ UNCHANGED <<absicht, korbVars, laufVars, buch>>

\* markResolved, best effort, and the receipt on the screen.
Erledige(v) ==
    /\ dialog[v] = "beantwortet"
    /\ dialog' = [dialog EXCEPT ![v] = "gebucht"]
    /\ \/ absicht[v] = "offen" /\ absicht' = [absicht EXCEPT ![v] = "erledigt"]
       \/ UNCHANGED absicht
    /\ UNCHANGED <<korbVars, laufVars, buch, antwort>>

\* The cashier closes the dialog; the next opening has a key of its own.
Schliesse(v) ==
    /\ \/ dialog[v] = "abgelehnt" /\ dialog' = [dialog EXCEPT ![v] = "aufgegeben"]
       \/ dialog[v] = "unklar" /\ dialog' = [dialog EXCEPT ![v] = "verlassen"]
    /\ UNCHANGED <<absicht, korbVars, laufVars, buch, antwort>>

----------------------------------------------------------------------------
(* The server *)

\* The key a request carries.
Schluessel(q) == IF q \in Vorgaenge THEN q ELSE bei[q]

\* A server without the look-up and the unique index.
NachBuchung_OhneSchluessel(v) == [buch EXCEPT ![v] = @ + 1]

\* Look-up and unique index: the second request of a key books nothing.
NachBuchung(v) == [buch EXCEPT ![v] = IF @ = 0 THEN 1 ELSE @]

Bearbeite(q) ==
    /\ antwort[q] = "unterwegs"
    /\ antwort' = [antwort EXCEPT ![q] = "ok"]
    /\ buch' = NachBuchung(Schluessel(q))
    /\ UNCHANGED <<dialogVars, korbVars, laufVars>>

\* A 4xx that is no auth gap, booked before or not: most checks come first.
LehneAb(q) ==
    /\ antwort[q] = "unterwegs"
    /\ antwort' = [antwort EXCEPT ![q] = "nein"]
    /\ UNCHANGED <<dialogVars, korbVars, laufVars, buch>>

\* No answer, or 429, 5xx and the auth gaps; what was sent may be booked.  A
\* pass does the same on either, so its answers are not told apart.
Stoere(q) ==
    /\ antwort[q] = "unterwegs"
    /\ \E a \in IF q \in Laeufe THEN {"stoerung"} ELSE {"stoerung", "netz"} :
          antwort' = [antwort EXCEPT ![q] = a]
    /\ buch' \in {buch, NachBuchung(Schluessel(q))}
    /\ UNCHANGED <<dialogVars, korbVars, laufVars>>

----------------------------------------------------------------------------
(* Reconcile and drain *)

\* The pass of a controller that was stopped goes on.
Frei(l) == phase[l] # "abgleich" /\ rest[l] = {} /\ bei[l] = Niemand

\* The effect runs with a session: listUnresolved.
Anmelden(l) ==
    /\ aktuell = Niemand /\ Frei(l)
    /\ aktuell' = l
    /\ phase' = [phase EXCEPT ![l] = "abgleich"]
    /\ rest' = [rest EXCEPT ![l] = {v \in Vorgaenge : absicht[v] = "offen"}]
    /\ UNCHANGED <<bei, gefunden, dialogVars, korbVars, buch, antwort>>

\* The effect is cleaned up: controller.stop().
Abmelden ==
    /\ aktuell # Niemand
    /\ aktuell' = Niemand
    /\ UNCHANGED <<phase, gefunden, rest, bei, dialogVars, korbVars, buch, antwort>>

\* The intent of a crash counts as resolved before the outbox has it.
GleicheAb_Vorher(l) ==
    /\ phase[l] = "abgleich" /\ bei[l] = Niemand
    /\ \E v \in rest[l] :
          /\ absicht' = [absicht EXCEPT ![v] = "erledigt"]
          /\ bei' = [bei EXCEPT ![l] = v]
    /\ UNCHANGED <<dialog, korbVars, aktuell, phase, gefunden, rest, buch, antwort>>

\* outbox.enqueue of an intent ...
GleicheAb(l) ==
    /\ phase[l] = "abgleich" /\ bei[l] = Niemand
    /\ \E v \in rest[l] : LegeInKorb(v) /\ bei' = [bei EXCEPT ![l] = v]
    /\ UNCHANGED <<erneut, aktuell, phase, gefunden, rest, dialogVars, buch, antwort>>

\* ... and its markResolved.
SchliesseAb(l) ==
    /\ phase[l] = "abgleich" /\ bei[l] # Niemand
    /\ absicht' = [absicht EXCEPT ![bei[l]] = "erledigt"]
    /\ rest' = [rest EXCEPT ![l] = @ \ {bei[l]}]
    /\ bei' = [bei EXCEPT ![l] = Niemand]
    /\ UNCHANGED <<dialog, aktuell, phase, gefunden, korbVars, buch, antwort>>

\* Either statement fails: the intent stays open for the next login.
AbgleichScheitert(l) ==
    /\ phase[l] = "abgleich"
    /\ \E v \in rest[l] :
          /\ bei[l] \in {v, Niemand}
          /\ rest' = [rest EXCEPT ![l] = @ \ {v}]
    /\ bei' = [bei EXCEPT ![l] = Niemand]
    /\ UNCHANGED <<aktuell, phase, gefunden, dialogVars, korbVars, buch, antwort>>

Abgeglichen(l) == phase[l] = "abgleich" /\ rest[l] = {} /\ bei[l] = Niemand

\* controller.start(): listen, and a first pass over what is pending.
Starte(l) ==
    /\ Abgeglichen(l) /\ aktuell = l
    /\ phase' = [phase EXCEPT ![l] = "lauscht"]
    /\ gefunden' = [gefunden EXCEPT ![l] = Anstehend]
    /\ rest' = [rest EXCEPT ![l] = Anstehend]
    /\ UNCHANGED <<aktuell, bei, dialogVars, korbVars, buch, antwort>>

\* Offline there is no first pass; a stopped controller does not start.
StarteOhneLauf(l) ==
    /\ Abgeglichen(l)
    /\ phase' = [phase EXCEPT ![l] = IF aktuell = l THEN "lauscht" ELSE "neu"]
    /\ UNCHANGED <<aktuell, gefunden, rest, bei, dialogVars, korbVars, buch, antwort>>

\* The "online" event, also the one the conflict inbox raises.  A pass that
\* runs already swallows it.
Netzereignis(l) ==
    /\ aktuell = l /\ phase[l] = "lauscht" /\ Frei(l)
    /\ Anstehend # {}
    /\ gefunden' = [gefunden EXCEPT ![l] = Anstehend]
    /\ rest' = [rest EXCEPT ![l] = Anstehend]
    /\ UNCHANGED <<aktuell, phase, bei, dialogVars, korbVars, buch, antwort>>

\* The next record of the list: ORDER BY monotonic_seq.
SendeZeile(l) ==
    /\ phase[l] = "lauscht" /\ bei[l] = Niemand
    /\ \E v \in rest[l] :
          /\ \A w \in rest[l] : nr[v] <= nr[w]
          /\ bei' = [bei EXCEPT ![l] = v]
    /\ antwort' = [antwort EXCEPT ![l] = "unterwegs"]
    /\ UNCHANGED <<aktuell, phase, gefunden, rest, dialogVars, korbVars, buch>>

\* Whatever became of the record: with nothing left the pass is over.
BeendeLauf(l) ==
    /\ bei' = [bei EXCEPT ![l] = Niemand]
    /\ gefunden' = [gefunden EXCEPT ![l] = IF rest'[l] = {} THEN {} ELSE @]
    /\ antwort' = [antwort EXCEPT ![l] = "keine"]
    /\ UNCHANGED <<aktuell, phase, dialogVars, buch>>

\* markSucceeded; no status is asked for.
Verbuche(l) ==
    /\ bei[l] # Niemand /\ antwort[l] = "ok"
    /\ zeile' = [zeile EXCEPT ![bei[l]] = "succeeded"]
    /\ rest' = [rest EXCEPT ![l] = @ \ {bei[l]}]
    /\ BeendeLauf(l)
    /\ UNCHANGED <<nr, erneut>>

\* A pass that goes on behind a conflict.
Halte_Weiter(l) ==
    /\ bei[l] # Niemand /\ antwort[l] = "nein"
    /\ zeile' = [zeile EXCEPT ![bei[l]] = "conflict"]
    /\ rest' = [rest EXCEPT ![l] = @ \ {bei[l]}]
    /\ BeendeLauf(l)
    /\ UNCHANGED <<nr, erneut>>

\* markConflict, and the pass halts; no status is asked for here either.
Halte(l) ==
    /\ bei[l] # Niemand /\ antwort[l] = "nein"
    /\ zeile' = [zeile EXCEPT ![bei[l]] = "conflict"]
    /\ rest' = [rest EXCEPT ![l] = {}]
    /\ BeendeLauf(l)
    /\ UNCHANGED <<nr, erneut>>

\* The write after a success fails: the catch takes it for a conflict, and
\* if that write fails as well the row stays pending.
VerbuchenScheitert(l) ==
    /\ bei[l] # Niemand /\ antwort[l] = "ok"
    /\ zeile' \in {zeile, [zeile EXCEPT ![bei[l]] = "conflict"]}
    /\ rest' = [rest EXCEPT ![l] = {}]
    /\ BeendeLauf(l)
    /\ UNCHANGED <<nr, erneut>>

\* A pass that skips what it could not deliver.
BrichAb_Weiter(l) ==
    /\ bei[l] # Niemand /\ antwort[l] = "stoerung"
    /\ rest' = [rest EXCEPT ![l] = @ \ {bei[l]}]
    /\ BeendeLauf(l)
    /\ UNCHANGED korbVars

\* The pass ends without giving back the running flag.
BrichAb_OhneFinally(l) ==
    /\ bei[l] # Niemand /\ antwort[l] = "stoerung"
    /\ rest' = [rest EXCEPT ![l] = {}]
    /\ antwort' = [antwort EXCEPT ![l] = "keine"]
    /\ UNCHANGED <<aktuell, phase, gefunden, bei, dialogVars, korbVars, buch>>

\* Transient: the row stays pending and the pass ends.
BrichAb(l) ==
    /\ bei[l] # Niemand /\ antwort[l] = "stoerung"
    /\ rest' = [rest EXCEPT ![l] = {}]
    /\ BeendeLauf(l)
    /\ UNCHANGED korbVars

----------------------------------------------------------------------------
(* The owner, and the end of the process *)

Verwerfe(v) ==
    /\ zeile[v] = "conflict"
    /\ zeile' = [zeile EXCEPT ![v] = "failed_terminal"]
    /\ UNCHANGED <<nr, erneut, dialogVars, laufVars, buch, antwort>>

\* Once per request: the bound of this action.
LegeErneutVor(v) ==
    /\ zeile[v] = "conflict" /\ v \notin erneut
    /\ zeile' = [zeile EXCEPT ![v] = "pending"]
    /\ erneut' = erneut \cup {v}
    /\ UNCHANGED <<nr, dialogVars, laufVars, buch, antwort>>

InArbeit == {"gesiegelt", "gesendet", "beantwortet", "unklar"}

Unterwegs == {Schluessel(q) : q \in {p \in Vorgaenge \cup Laeufe : antwort[p] = "unterwegs"}}

\* What is on the disk stays; what is on the wire is booked or not.
Absturz ==
    /\ aktuell' = Niemand
    /\ phase' = [l \in Laeufe |-> "neu"]
    /\ gefunden' = [l \in Laeufe |-> {}]
    /\ rest' = [l \in Laeufe |-> {}]
    /\ bei' = [l \in Laeufe |-> Niemand]
    /\ antwort' = [q \in Vorgaenge \cup Laeufe |-> "keine"]
    /\ dialog' = [v \in Vorgaenge |->
                    IF dialog[v] \in InArbeit THEN "verlassen"
                    ELSE IF dialog[v] = "abgelehnt" THEN "aufgegeben" ELSE dialog[v]]
    /\ buch' \in {[v \in Vorgaenge |-> IF v \in B /\ buch[v] = 0 THEN 1 ELSE buch[v]] : B \in SUBSET Unterwegs}
    /\ UNCHANGED <<absicht, korbVars>>

----------------------------------------------------------------------------
DialogSchritt(v) ==
    \/ Siegle(v) \/ SendeDirekt(v) \/ ReiheEin(v) \/ EinreihenScheitert(v)
    \/ Uebergib(v) \/ Empfange(v) \/ Erledige(v) \/ Schliesse(v)

\* What a controller goes on with by itself.
LaufSchritt(l) ==
    \/ GleicheAb(l) \/ SchliesseAb(l) \/ AbgleichScheitert(l)
    \/ Starte(l) \/ StarteOhneLauf(l) \/ SendeZeile(l)
    \/ Verbuche(l) \/ Halte(l) \/ VerbuchenScheitert(l) \/ BrichAb(l)

ServerSchritt(q) == Bearbeite(q) \/ LehneAb(q) \/ Stoere(q)

AusgangNext ==
    \/ \E v \in Vorgaenge :
          DialogSchritt(v) \/ Verwerfe(v) \/ LegeErneutVor(v)
    \/ \E l \in Laeufe : Anmelden(l) \/ Netzereignis(l) \/ LaufSchritt(l)
    \/ \E q \in Vorgaenge \cup Laeufe : ServerSchritt(q)
    \/ Abmelden
    \/ Absturz

AusgangSpec == AusgangInit /\ [][AusgangNext]_ausgangVars

\* Something that need not happen: the end of the process or of a session,
\* and a statement or request that fails.
AusgangStoerung ==
    \/ Absturz \/ Abmelden
    \/ \E l \in Laeufe : AbgleichScheitert(l) \/ VerbuchenScheitert(l) \/ Stoere(l)

\* A till in use: disturbances end, somebody is signed in, a controller goes
\* on with what it has begun, and the network comes back once more.
AusgangFair ==
    /\ <>[][~AusgangStoerung]_ausgangVars
    /\ \A l \in Laeufe : WF_ausgangVars(LaufSchritt(l) \/ ServerSchritt(l))
    /\ WF_ausgangVars(\E l \in Laeufe : Anmelden(l))
    /\ WF_ausgangVars(\E l \in Laeufe : Netzereignis(l))

AusgangFairSpec == AusgangSpec /\ AusgangFair

----------------------------------------------------------------------------
(* Properties *)

\* Whoever is told that a request is booked is right, and it is booked once:
\* the dialog by its answer, the outbox by the status of its row, however
\* often dialog, reconcile and passes of two controllers sent it.
QuittungIstBuchung ==
    \A v \in Vorgaenge :
        /\ buch[v] <= 1
        /\ dialog[v] = "gebucht" \/ zeile[v] = "succeeded" => buch[v] = 1

\* An intent leaves the list of open ones only when the request is booked or
\* the outbox has its row, and a dialog says "queued" only then: at no moment
\* of a crash does the till forget a request it has sealed.
AbsichtGehtNichtVerloren ==
    \A v \in Vorgaenge :
        /\ absicht[v] = "erledigt" => buch[v] = 1 \/ zeile[v] # "KEINE"
        /\ dialog[v] = "eingereiht" => zeile[v] # "KEINE"

\* Controller l takes the next record into the hand.
Sendet(l) == antwort[l] # "unterwegs" /\ antwort'[l] = "unterwegs"

\* A pass does not go past a request that it found pending before it knows
\* that the request is booked: it stops at a conflict and at a lost answer,
\* whatever other passes and the owner do to the rows meanwhile.  So all that
\* it goes past unbooked was no longer pending when it read its list, and of
\* that only what the owner has sent again since can be pending now.
FolgeGewahrt ==
    [][\A l \in Laeufe : Sendet(l) =>
          \A v \in Vorgaenge : nr[v] < nr[bei'[l]] =>
              /\ v \in gefunden[l] => buch[v] = 1
              /\ zeile[v] = "pending" => v \in erneut]_ausgangVars

\* Told, or about to be told, that the request is booked.
Quittiert(v) ==
    \/ dialog[v] \in {"beantwortet", "gebucht"} \/ zeile[v] = "succeeded"
    \/ \E q \in Vorgaenge \cup Laeufe : antwort[q] = "ok" /\ Schluessel(q) = v

Belegstelle == INSTANCE Belegstelle WITH
    Kennungen  <- Vorgaenge,
    Quittungen <- {1},
    Keine      <- 0,
    beleg      <- buch,
    gezeigt    <- [v \in Vorgaenge |-> IF Quittiert(v) THEN {buch[v]} ELSE {}]

\* Dialog, reconcile, passes, lost answers and crashes between the cashier and
\* the server take nothing from the promise of the server (Ware): one receipt
\* per request that stays, and nobody is told "booked" of anything else.
BleibtBelegstelle == Belegstelle!Spec

HinterKonflikt(v) == \E w \in Vorgaenge : zeile[w] = "conflict" /\ nr[w] < nr[v]

\* A queued request does not wait for ever without a reason one can see in the
\* conflict inbox: it is booked, or it or one before it is a conflict that
\* waits for the owner.
EingereihtWirdEntschieden ==
    \A v \in Vorgaenge : zeile[v] = "pending" ~> zeile[v] # "pending" \/ HinterKonflikt(v)

----------------------------------------------------------------------------
(* What the repository says and the code does not keep *)

\* "HALT ... STOP. Subsequent rows stay `pending` behind it" (api-client
\* offline-replay.ts:20-21), "the next online event will NOT advance past it"
\* (offline-replay.ts:135), and the inbox tells the owner that nothing is
\* synchronised until the conflict is resolved.  But the halt is that of one pass:
\* the next one reads what is pending, and the conflict no longer is.
HaltHinterKonflikt ==
    [][\A l \in Laeufe : Sendet(l) =>
          \A v \in Vorgaenge : zeile[v] = "conflict" => nr[v] >= nr[bei'[l]]]_ausgangVars

=============================================================================
