------------------------------ MODULE Nachreichen ------------------------------
(***************************************************************************)
(* The signature of a receipt: FINISH at the TSE, the report to the server *)
(* and the durable queue tse_signature_queue with its drain, which catches *)
(* up on either.                                                           *)
(*                                                                         *)
(* The payment dialog and the drain meet on a row of the queue: the dialog *)
(* writes it, looks whether it is there, and may write it again while the  *)
(* drain is at work on it.  A Nachreicher is a drain controller; the       *)
(* effect that owns it makes a new one whenever it runs again, and the old *)
(* one finishes the pass it is in.  A pass works on what it has read at    *)
(* its beginning.  Every statement on the local database, every request    *)
(* and, at the server, the look-up and the INSERT are steps of their own,  *)
(* and the till may crash between any two.                                 *)
(*                                                                         *)
(* The TSE finishes an intention once; asked again it refuses.  A request  *)
(* whose answer is lost was served or not.                                 *)
(*                                                                         *)
(* Abstracted: what is signed, the clock (a row that waits for its back-   *)
(* off or is not yet stale is one the pass leaves out), the order of the   *)
(* rows (none waits for another), rows of purchases.                       *)
(*                                                                         *)
(* An operator X_Y is a faulty variant of X, never used by NachSpec.       *)
(***************************************************************************)
EXTENDS Naturals, FiniteSets

CONSTANTS
    Belege,        \* sales, one intention each
    Nachreicher,   \* drain controllers
    Keiner         \* no receipt, no controller

ASSUME NachAnnahme ==
    /\ Belege \cap Nachreicher = {}
    /\ Keiner \notin Belege \cup Nachreicher

VARIABLES
    kasse,         \* how far the payment dialog is, and what it told at the end
    tse,           \* the intention at the TSE
    eintrag,       \* the row of the queue: its status
    signatur,      \* signature_json of the row is set
    meldung,       \* the report of a dialog or a controller to the server
    beiServer,     \* rows of tse_signatures
    eigner,        \* the controller of the mounted effect
    liste,         \* of a controller: rows it has read and not yet taken
    gelesen,       \* of a controller: receipts whose row it read with a signature
    haelt, schritt \* of a controller: the row it is at, and how far

reiheVars == <<eintrag, signatur>>
passVars  == <<liste, gelesen, haelt, schritt>>
nachVars  == <<kasse, tse, reiheVars, meldung, beiServer, eigner, passVars>>

----------------------------------------------------------------------------
(* Types *)

\* The last line: told that it is at the server, kept with its signature, kept
\* without, noted, lost, queued; torn down.
Kassenstand ==
    {"bereit", "gebucht", "ohne", "ausfall", "nachsehen", "signiert", "gemeldet",
     "angekommen", "hinterlegt", "gesichert", "vermerkt", "verloren", "eingereiht", "abgerissen"}

NachTypeOK ==
    /\ kasse \in [Belege -> Kassenstand]
    /\ tse \in [Belege -> {"keine", "offen", "beendet"}]
    /\ eintrag \in [Belege -> {"KEINER", "pending", "in_flight", "succeeded", "failed_terminal"}]
    /\ signatur \in [Belege -> BOOLEAN]
    /\ meldung \in [Belege \cup Nachreicher ->
                       {"keine", "unterwegs", "fuegtEin", "ok", "fehler", "abgelehnt"}]
    /\ beiServer \in [Belege -> Nat]
    /\ eigner \in Nachreicher \cup {Keiner}
    /\ liste \in [Nachreicher -> SUBSET Belege]
    /\ gelesen \in [Nachreicher -> SUBSET Belege]
    /\ haelt \in [Nachreicher -> Belege \cup {Keiner}]
    /\ schritt \in [Nachreicher -> {"ruht", "genommen", "merken", "melden", "wartet",
                                    "abgelegt", "voruebergehend", "dauerhaft"}]
    /\ \A n \in Nachreicher : schritt[n] = "ruht" <=> haelt[n] = Keiner

NachInit ==
    /\ kasse = [b \in Belege |-> "bereit"]
    /\ tse = [b \in Belege |-> "keine"]
    /\ eintrag = [b \in Belege |-> "KEINER"]
    /\ signatur = [b \in Belege |-> FALSE]
    /\ meldung = [q \in Belege \cup Nachreicher |-> "keine"]
    /\ beiServer = [b \in Belege |-> 0]
    /\ eigner = Keiner
    /\ liste = [n \in Nachreicher |-> {}]
    /\ gelesen = [n \in Nachreicher |-> {}]
    /\ haelt = [n \in Nachreicher |-> Keiner]
    /\ schritt = [n \in Nachreicher |-> "ruht"]

----------------------------------------------------------------------------
(* The queue *)

\* An upsert that overwrites the signature it finds.
Schreibe_OhneCoalesce(b, s, mit) ==
    /\ eintrag' = [eintrag EXCEPT ![b] = s]
    /\ signatur' = [signatur EXCEPT ![b] = mit]

\* The upsert: the status is the one asked for, a signature is only added.
Schreibe(b, s, mit) ==
    /\ eintrag' = [eintrag EXCEPT ![b] = s]
    /\ signatur' = [signatur EXCEPT ![b] = @ \/ mit]

\* Rows that a crash left in flight are not looked for.
Nachreichbar_OhneHaengende == {b \in Belege : eintrag[b] = "pending"}

\* What listDrainable may select: a row in flight once it is stale.
Nachreichbar == {b \in Belege : eintrag[b] \in {"pending", "in_flight"}}

----------------------------------------------------------------------------
(* The payment dialog *)

\* Opening the intention is tried first and never blocks the sale; its answer
\* may be lost as well.
Buche(b) ==
    /\ kasse[b] = "bereit"
    /\ \/ tse' = [tse EXCEPT ![b] = "offen"] /\ kasse' = [kasse EXCEPT ![b] = "gebucht"]
       \/ /\ tse' \in {tse, [tse EXCEPT ![b] = "offen"]}
          /\ kasse' = [kasse EXCEPT ![b] = "ohne"]
    /\ UNCHANGED <<reiheVars, meldung, beiServer, eigner, passVars>>

\* finalize is queued: ApiOfflineQueuedError leaves the dialog before FINISH.
ReiheVerkaufEin(b) ==
    /\ kasse[b] = "bereit"
    /\ tse' \in {tse, [tse EXCEPT ![b] = "offen"]}
    /\ kasse' = [kasse EXCEPT ![b] = "eingereiht"]
    /\ UNCHANGED <<reiheVars, meldung, beiServer, eigner, passVars>>

\* FINISH: signed, signed without an answer, or not reached.
Signiere(b) ==
    /\ kasse[b] = "gebucht"
    /\ \/ /\ tse' = [tse EXCEPT ![b] = "beendet"]
          /\ kasse' \in {[kasse EXCEPT ![b] = s] : s \in {"signiert", "ausfall"}}
       \/ kasse' = [kasse EXCEPT ![b] = "ausfall"] /\ UNCHANGED tse
    /\ UNCHANGED <<reiheVars, meldung, beiServer, eigner, passVars>>

\* closeTseSession enqueues the row without a signature, or fails to.
VermerkeAusfall(b) ==
    /\ kasse[b] = "ausfall"
    /\ \/ Schreibe(b, "pending", FALSE)
       \/ UNCHANGED reiheVars
    /\ kasse' = [kasse EXCEPT ![b] = "nachsehen"]
    /\ UNCHANGED <<tse, meldung, beiServer, eigner, passVars>>

\* "Kept" because closeTseSession said so.
SichereAusfall_OhneNachsehen(b) ==
    /\ kasse[b] = "nachsehen"
    /\ kasse' = [kasse EXCEPT ![b] = "gesichert"]
    /\ UNCHANGED <<tse, reiheVars, meldung, beiServer, eigner, passVars>>

\* ausfallSichern: a row is enough; where there is none, or the look-up
\* fails, it is written, and only then is the receipt kept.
SichereAusfall(b) ==
    /\ kasse[b] = "nachsehen"
    /\ \/ /\ eintrag[b] # "KEINER"
          /\ kasse' = [kasse EXCEPT ![b] = "gesichert"]
          /\ UNCHANGED reiheVars
       \/ Schreibe(b, "pending", FALSE) /\ kasse' = [kasse EXCEPT ![b] = "gesichert"]
       \/ kasse' = [kasse EXCEPT ![b] = "verloren"] /\ UNCHANGED reiheVars
    /\ UNCHANGED <<tse, meldung, beiServer, eigner, passVars>>

\* Without an intention the outage is noted for good, never to be retried.
VermerkeDauerhaft(b) ==
    /\ kasse[b] = "ohne"
    /\ \/ Schreibe(b, "failed_terminal", FALSE) /\ kasse' = [kasse EXCEPT ![b] = "vermerkt"]
       \/ kasse' = [kasse EXCEPT ![b] = "verloren"] /\ UNCHANGED reiheVars
    /\ UNCHANGED <<tse, meldung, beiServer, eigner, passVars>>

\* recordTseSignature
MeldeAnServer(b) ==
    /\ kasse[b] = "signiert"
    /\ kasse' = [kasse EXCEPT ![b] = "gemeldet"]
    /\ meldung' = [meldung EXCEPT ![b] = "unterwegs"]
    /\ UNCHANGED <<tse, reiheVars, beiServer, eigner, passVars>>

\* A report that fails for whatever reason goes to the queue, signature and
\* all; enqueueSignatureRecordOnly says whether it could.
NimmAntwort(b) ==
    /\ kasse[b] = "gemeldet"
    /\ \/ /\ meldung[b] = "ok"
          /\ kasse' = [kasse EXCEPT ![b] = "angekommen"]
          /\ UNCHANGED reiheVars
       \/ /\ meldung[b] \in {"fehler", "abgelehnt"}
          /\ \/ Schreibe(b, "pending", TRUE) /\ kasse' = [kasse EXCEPT ![b] = "hinterlegt"]
             \/ kasse' = [kasse EXCEPT ![b] = "verloren"] /\ UNCHANGED reiheVars
    /\ meldung' = [meldung EXCEPT ![b] = "keine"]
    /\ UNCHANGED <<tse, beiServer, eigner, passVars>>

----------------------------------------------------------------------------
(* The server *)

\* The receipt a report is about.
Beleg(q) == IF q \in Belege THEN q ELSE haelt[q]

\* The look-up: a receipt that has its signature is answered with it.
SchlageNach(q) ==
    /\ meldung[q] = "unterwegs"
    /\ meldung' = [meldung EXCEPT ![q] = IF beiServer[Beleg(q)] > 0 THEN "ok" ELSE "fuegtEin"]
    /\ UNCHANGED <<kasse, tse, reiheVars, beiServer, eigner, passVars>>

\* A table without tse_signatures_unique_per_transaction.
TrageEin_OhneIndex(q) ==
    /\ meldung[q] = "fuegtEin"
    /\ beiServer' = [beiServer EXCEPT ![Beleg(q)] = @ + 1]
    /\ meldung' \in {[meldung EXCEPT ![q] = a] : a \in {"ok", "fehler"}}
    /\ UNCHANGED <<kasse, tse, reiheVars, eigner, passVars>>

\* The INSERT: at the unique index the later one is answered with the row of
\* the winner.  The answer may be lost.
TrageEin(q) ==
    /\ meldung[q] = "fuegtEin"
    /\ beiServer' = [beiServer EXCEPT ![Beleg(q)] = IF @ = 0 THEN 1 ELSE @]
    /\ meldung' \in {[meldung EXCEPT ![q] = a] : a \in {"ok", "fehler"}}
    /\ UNCHANGED <<kasse, tse, reiheVars, eigner, passVars>>

\* Nobody answers, or the session is refused; or the body is.
MeldungScheitert(q) ==
    /\ meldung[q] \in {"unterwegs", "fuegtEin"}
    /\ \E a \in {"fehler", "abgelehnt"} : meldung' = [meldung EXCEPT ![q] = a]
    /\ UNCHANGED <<kasse, tse, reiheVars, beiServer, eigner, passVars>>

----------------------------------------------------------------------------
(* The drain *)

Ruht(n) == liste[n] = {} /\ haelt[n] = Keiner

\* The effect runs, and with it the heartbeat.
HaengeEin(n) ==
    /\ eigner = Keiner /\ Ruht(n)
    /\ eigner' = n
    /\ UNCHANGED <<kasse, tse, reiheVars, meldung, beiServer, passVars>>

\* The effect is cleaned up; a pass that runs goes on.
HaengeAus ==
    /\ eigner # Keiner
    /\ eigner' = Keiner
    /\ UNCHANGED <<kasse, tse, reiheVars, meldung, beiServer, passVars>>

\* listDrainable, with the signatures as they are now.
Liste(n) ==
    /\ eigner = n /\ Ruht(n)
    /\ \E L \in (SUBSET Nachreichbar) \ {{}} :
          /\ liste' = [liste EXCEPT ![n] = L]
          /\ gelesen' = [gelesen EXCEPT ![n] = {b \in L : signatur[b]}]
    /\ UNCHANGED <<kasse, tse, reiheVars, meldung, beiServer, eigner, haelt, schritt>>

\* markInFlight, whatever the row has become since.
Nimm(n) ==
    /\ haelt[n] = Keiner
    /\ \E b \in liste[n] :
          /\ liste' = [liste EXCEPT ![n] = @ \ {b}]
          /\ haelt' = [haelt EXCEPT ![n] = b]
          /\ eintrag' = [eintrag EXCEPT ![b] = "in_flight"]
          /\ schritt' = [schritt EXCEPT ![n] = IF b \in gelesen[n] THEN "melden" ELSE "genommen"]
    /\ UNCHANGED <<kasse, tse, signatur, meldung, beiServer, eigner, gelesen>>

\* If that write fails the row counts as tried.
NehmenScheitert(n) ==
    /\ haelt[n] = Keiner
    /\ \E b \in liste[n] :
          /\ liste' = [liste EXCEPT ![n] = @ \ {b}]
          /\ haelt' = [haelt EXCEPT ![n] = b]
    /\ schritt' = [schritt EXCEPT ![n] = "voruebergehend"]
    /\ UNCHANGED <<kasse, tse, reiheVars, meldung, beiServer, eigner, gelesen>>

\* FINISH again for a row that was read without a signature.
SigniereNach(n) ==
    /\ schritt[n] = "genommen" /\ tse[haelt[n]] = "offen"
    /\ tse' = [tse EXCEPT ![haelt[n]] = "beendet"]
    /\ schritt' = [schritt EXCEPT ![n] = "merken"]
    /\ UNCHANGED <<kasse, reiheVars, meldung, beiServer, eigner, liste, gelesen, haelt>>

\* The answer is lost on the way, or the TSE is not reached.
SigniereNachVerloren(n) ==
    /\ schritt[n] = "genommen"
    /\ tse' \in {tse, [tse EXCEPT ![haelt[n]] = IF @ = "offen" THEN "beendet" ELSE @]}
    /\ schritt' = [schritt EXCEPT ![n] = "voruebergehend"]
    /\ UNCHANGED <<kasse, reiheVars, meldung, beiServer, eigner, liste, gelesen, haelt>>

\* A 4xx: the intention is finished already, or the body is not accepted.
TseLehntAb(n) ==
    /\ schritt[n] = "genommen"
    /\ schritt' = [schritt EXCEPT ![n] = "dauerhaft"]
    /\ UNCHANGED <<kasse, tse, reiheVars, meldung, beiServer, eigner, liste, gelesen, haelt>>

\* persistSignature; a failure is swallowed, the signature is still in hand.
MerkeSignatur(n) ==
    /\ schritt[n] = "merken"
    /\ signatur' \in {signatur, [signatur EXCEPT ![haelt[n]] = TRUE]}
    /\ schritt' = [schritt EXCEPT ![n] = "melden"]
    /\ UNCHANGED <<kasse, tse, eintrag, meldung, beiServer, eigner, liste, gelesen, haelt>>

MeldeNach(n) ==
    /\ schritt[n] = "melden"
    /\ schritt' = [schritt EXCEPT ![n] = "wartet"]
    /\ meldung' = [meldung EXCEPT ![n] = "unterwegs"]
    /\ UNCHANGED <<kasse, tse, reiheVars, beiServer, eigner, liste, gelesen, haelt>>

NimmAntwortNach(n) ==
    /\ schritt[n] = "wartet"
    /\ \/ meldung[n] = "ok" /\ schritt' = [schritt EXCEPT ![n] = "abgelegt"]
       \/ meldung[n] = "fehler" /\ schritt' = [schritt EXCEPT ![n] = "voruebergehend"]
       \/ meldung[n] = "abgelehnt" /\ schritt' = [schritt EXCEPT ![n] = "dauerhaft"]
    /\ meldung' = [meldung EXCEPT ![n] = "keine"]
    /\ UNCHANGED <<kasse, tse, reiheVars, beiServer, eigner, liste, gelesen, haelt>>

GibFrei(n) ==
    /\ haelt' = [haelt EXCEPT ![n] = Keiner]
    /\ schritt' = [schritt EXCEPT ![n] = "ruht"]
    /\ UNCHANGED <<kasse, tse, signatur, meldung, beiServer, eigner, liste, gelesen>>

\* markSucceeded
LegeAb(n) ==
    /\ schritt[n] = "abgelegt"
    /\ eintrag' = [eintrag EXCEPT ![haelt[n]] = "succeeded"]
    /\ GibFrei(n)

\* markSucceeded fails: an error without a status.
AblegenScheitert(n) ==
    /\ schritt[n] = "abgelegt"
    /\ schritt' = [schritt EXCEPT ![n] = "voruebergehend"]
    /\ UNCHANGED <<kasse, tse, reiheVars, meldung, beiServer, eigner, liste, gelesen, haelt>>

\* incrementAttempt, which may fail and leave the row in flight.
VersucheWieder(n) ==
    /\ schritt[n] = "voruebergehend"
    /\ eintrag' \in {eintrag, [eintrag EXCEPT ![haelt[n]] = "pending"]}
    /\ GibFrei(n)

\* markFailedTerminal, which may fail and leave the row in flight.
GibAuf(n) ==
    /\ schritt[n] = "dauerhaft"
    /\ eintrag' \in {eintrag, [eintrag EXCEPT ![haelt[n]] = "failed_terminal"]}
    /\ GibFrei(n)

----------------------------------------------------------------------------
(* The end of the process *)

ImDialog == {"gebucht", "ohne", "ausfall", "nachsehen", "signiert", "gemeldet"}

Gesendet == {q \in Belege \cup Nachreicher : meldung[q] \in {"unterwegs", "fuegtEin"}}

\* What is on the disk stays; what is on the wire is served or not.
Kassenabsturz ==
    /\ kasse' = [b \in Belege |-> IF kasse[b] \in ImDialog THEN "abgerissen" ELSE kasse[b]]
    /\ beiServer' \in {[b \in Belege |-> IF b \in B /\ beiServer[b] = 0 THEN 1 ELSE beiServer[b]] :
                          B \in SUBSET {Beleg(q) : q \in Gesendet}}
    /\ meldung' = [q \in Belege \cup Nachreicher |-> "keine"]
    /\ eigner' = Keiner
    /\ liste' = [n \in Nachreicher |-> {}]
    /\ gelesen' = [n \in Nachreicher |-> {}]
    /\ haelt' = [n \in Nachreicher |-> Keiner]
    /\ schritt' = [n \in Nachreicher |-> "ruht"]
    /\ UNCHANGED <<tse, reiheVars>>

----------------------------------------------------------------------------
KassenSchritt(b) ==
    \/ Buche(b) \/ ReiheVerkaufEin(b) \/ Signiere(b) \/ VermerkeAusfall(b) \/ SichereAusfall(b)
    \/ VermerkeDauerhaft(b) \/ MeldeAnServer(b) \/ NimmAntwort(b)

\* What a pass goes on with by itself.
PassSchritt(n) ==
    \/ Nimm(n) \/ NehmenScheitert(n) \/ SigniereNach(n) \/ SigniereNachVerloren(n) \/ TseLehntAb(n) \/ MerkeSignatur(n)
    \/ MeldeNach(n) \/ NimmAntwortNach(n) \/ LegeAb(n) \/ AblegenScheitert(n)
    \/ VersucheWieder(n) \/ GibAuf(n)

MeldeSchritt(q) == SchlageNach(q) \/ TrageEin(q) \/ MeldungScheitert(q)

NachNext ==
    \/ \E b \in Belege : KassenSchritt(b)
    \/ \E n \in Nachreicher : HaengeEin(n) \/ Liste(n) \/ PassSchritt(n)
    \/ \E q \in Belege \cup Nachreicher : MeldeSchritt(q)
    \/ HaengeAus
    \/ Kassenabsturz

NachSpec == NachInit /\ [][NachNext]_nachVars

\* Something that need not happen: the end of a process or of a session, and
\* a statement or request that fails.
NachStoerung ==
    \/ Kassenabsturz \/ HaengeAus
    \/ \E n \in Nachreicher :
          \/ NehmenScheitert(n) \/ SigniereNachVerloren(n) \/ AblegenScheitert(n)
          \/ MeldungScheitert(n) \/ (GibAuf(n) /\ eintrag' = eintrag)

\* A till in use: disturbances end, somebody is signed in, a pass goes on with
\* what it has begun, and the heartbeat takes all rows that are due again and
\* again, as no back-off is longer than a quarter of an hour.
NachFair ==
    /\ <>[][~NachStoerung]_nachVars
    /\ WF_nachVars(\E n \in Nachreicher : HaengeEin(n))
    /\ \A n \in Nachreicher : WF_nachVars(PassSchritt(n) \/ MeldeSchritt(n))
    /\ SF_nachVars(\E n \in Nachreicher : Liste(n) /\ liste'[n] = Nachreichbar)

NachFairSpec == NachSpec /\ NachFair

----------------------------------------------------------------------------
(* Properties *)

\* A receipt has its signature once, and a row counts as done only when the
\* server has it: whichever of the dialog and two passes reported it first,
\* and whoever met whom between look-up and INSERT.
SignaturEinmal ==
    \A b \in Belege :
        /\ beiServer[b] <= 1
        /\ eintrag[b] = "succeeded" \/ kasse[b] = "angekommen" => beiServer[b] = 1

\* What the cashier is told about the signature stays so: the row is there,
\* with the signature where the till has held one, whatever closeTseSession
\* wrote or failed to write before.
AuskunftStimmt ==
    \A b \in Belege :
        /\ kasse[b] \in {"gesichert", "hinterlegt", "vermerkt"} => eintrag[b] # "KEINER"
        /\ kasse[b] = "hinterlegt" => signatur[b]

\* A signature that a row has is never lost from it, although the dialog may
\* write the row again without one while a pass stores it.
SignaturBleibt == [][\A b \in Belege : signatur[b] => signatur'[b]]_nachVars

\* The signatures as an auditor sees them.
Gemerkt    == {b \in Belege : signatur[b]}
Zugestellt == {b \in Belege : eintrag[b] = "succeeded" \/ kasse[b] = "angekommen"}

Signaturbuch == INSTANCE Signaturbuch WITH
    gemerkt <- Gemerkt, abgelegt <- beiServer, bestaetigt <- Zugestellt

\* Dialog, queue, passes, lost answers and crashes together sign a receipt
\* once, lose no signature the till has held, deliver it once and never
\* report one to the server that the TSE has not made.
IstSignaturbuch == Signaturbuch!Spec

\* A row of the queue does not wait for ever.
ZeileEndet ==
    \A b \in Belege :
        eintrag[b] \in {"pending", "in_flight"} ~> eintrag[b] \in {"succeeded", "failed_terminal"}

----------------------------------------------------------------------------
(* What the repository says and the code does not keep *)

\* "We never fast-terminal ...: that would discard a still-recoverable
\* signature": a receipt the TSE has signed is not given up.
SigniertesWirdNichtAufgegeben ==
    \A b \in Belege :
        eintrag[b] = "failed_terminal" => tse[b] # "beendet" \/ beiServer[b] = 1

=============================================================================
