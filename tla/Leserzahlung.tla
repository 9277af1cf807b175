----------------------------- MODULE Leserzahlung -----------------------------
(***************************************************************************)
(* A card payment at the reader: the start request with its idempotency    *)
(* key, the poll of the till, the cancel route and the webhook that moves  *)
(* the row of leser_zahlungen.                                             *)
(*                                                                         *)
(* A Geste is one key of the payment dialog; the key is kept while nobody  *)
(* knows how the payment ended, so the till may send it in a second        *)
(* request while the first one still runs.  A Bote is a delivery of an     *)
(* event: the provider delivers anything again that was not acknowledged,  *)
(* in any order.  Every statement and every call to the provider is a step *)
(* of its own; the server, and the till, may crash between any two.        *)
(*                                                                         *)
(* The provider (external) has one intent per key, charges it only while   *)
(* the reader collects it, and refuses to cancel a charged one.  A call    *)
(* whose answer is lost was carried out or not.                            *)
(*                                                                         *)
(* Abstracted: amounts, positions, fees, the readiness of the account, the *)
(* count of soft declines, refunds; each kind of event comes once per key. *)
(*                                                                         *)
(* An operator X_Y is a faulty variant of X, never used by LeserSpec.      *)
(***************************************************************************)
EXTENDS Naturals, FiniteSets

CONSTANTS
    Gesten,      \* idempotency keys of payment starts
    Anfragen,    \* start requests
    Boten,       \* deliveries of the webhook at work
    Offen        \* no key, no request

ASSUME LeserAnnahme == Offen \notin Gesten \cup Anfragen

VARIABLES
    gang,        \* of a key: how far the till is
    wartetAuf,   \* of a key: the request whose answer the till waits for
    anfrage,     \* of a request: how far the server is, or the answer
    geste,       \* of a request: its key
    satz,        \* leser_zahlungen: no row, or the status
    abbruch,     \* of a key: how far the cancel route is
    fuer, art, las,     \* of a delivery: key, kind of event, status it has read
    intent,      \* the intent at the provider
    leser,       \* the key whose intent the reader collects
    angezeigt,   \* calls of process_payment_intent for a key
    post,        \* events not acknowledged
    gemeldet     \* events ever raised

tillVars  == <<gang, wartetAuf>>
startVars == <<anfrage, geste>>
boteVars  == <<fuer, art, las>>
stripeVars == <<intent, leser, angezeigt, post, gemeldet>>
leserVars == <<tillVars, startVars, satz, abbruch, boteVars, stripeVars>>

----------------------------------------------------------------------------
(* Types *)

Staende == {"PROCESSING", "SUCCEEDED", "FAILED", "CANCELED"}

\* "stoerung" and "amGeraet" are action_failed by its failure code.
Arten == {"erfolg", "weich", "fehlschlag", "stoerung", "amGeraet", "storniert"}

LeserTypeOK ==
    /\ gang \in [Gesten -> {"neu", "startet", "ruht", "wartet", "erfolg",
                            "gebucht", "gescheitert", "weg"}]
    /\ wartetAuf \in [Gesten -> Anfragen \cup {Offen}]
    /\ anfrage \in [Anfragen -> Staende \cup
                       {"frei", "nachsehen", "anlegen", "eintragen", "leser", "verloren",
                        "aufraeumen", "fehlschlag", "FEHLSTART", "fehler"}]
    /\ geste \in [Anfragen -> Gesten \cup {Offen}]
    /\ satz \in [Gesten -> Staende \cup {"KEINER"}]
    /\ abbruch \in [Gesten -> {"keiner", "gelesen", "aktion", "storno"}]
    /\ fuer \in [Boten -> Gesten \cup {Offen}]
    /\ art \in [Boten -> Arten \cup {"keine"}]
    /\ las \in [Boten -> Staende \cup {"KEINER"}]
    /\ intent \in [Gesten -> {"KEINER", "offen", "belastet", "storniert"}]
    /\ leser \in Gesten \cup {Offen}
    /\ angezeigt \in [Gesten -> Nat]
    /\ post \in [Gesten -> SUBSET Arten]
    /\ gemeldet \in [Gesten -> SUBSET Arten]
    /\ \A a \in Anfragen : anfrage[a] = "frei" <=> geste[a] = Offen
    /\ \A w \in Boten : fuer[w] = Offen <=> art[w] = "keine"

LeserInit ==
    /\ gang = [g \in Gesten |-> "neu"]
    /\ wartetAuf = [g \in Gesten |-> Offen]
    /\ anfrage = [a \in Anfragen |-> "frei"]
    /\ geste = [a \in Anfragen |-> Offen]
    /\ satz = [g \in Gesten |-> "KEINER"]
    /\ abbruch = [g \in Gesten |-> "keiner"]
    /\ fuer = [w \in Boten |-> Offen]
    /\ art = [w \in Boten |-> "keine"]
    /\ las = [w \in Boten |-> "KEINER"]
    /\ intent = [g \in Gesten |-> "KEINER"]
    /\ leser = Offen
    /\ angezeigt = [g \in Gesten |-> 0]
    /\ post = [g \in Gesten |-> {}]
    /\ gemeldet = [g \in Gesten |-> {}]

----------------------------------------------------------------------------
(* The provider and its reader *)

Melde(g, k) ==
    /\ k \notin gemeldet[g]
    /\ post' = [post EXCEPT ![g] = @ \cup {k}]
    /\ gemeldet' = [gemeldet EXCEPT ![g] = @ \cup {k}]

\* The cancellation of an intent; a charged one cannot be cancelled, and the
\* call may fail.
Storniere(g) ==
    \/ /\ intent[g] = "offen"
       /\ intent' = [intent EXCEPT ![g] = "storniert"]
       /\ leser' = IF leser = g THEN Offen ELSE leser
       /\ Melde(g, "storniert")
    \/ UNCHANGED <<intent, leser, post, gemeldet>>

Belaste(g) ==
    /\ leser = g
    /\ intent' = [intent EXCEPT ![g] = "belastet"]
    /\ leser' = Offen
    /\ Melde(g, "erfolg")
    /\ UNCHANGED <<tillVars, startVars, satz, abbruch, boteVars, angezeigt>>

\* The soft girocard decline: the reader goes on by itself.
LehneWeichAb(g) ==
    /\ leser = g
    /\ Melde(g, "weich")
    /\ UNCHANGED <<tillVars, startVars, satz, abbruch, boteVars, intent, leser, angezeigt>>

\* A hard decline; the reader may go on collecting.
LehneHartAb(g) ==
    /\ leser = g
    /\ leser' \in {g, Offen}
    /\ Melde(g, "fehlschlag")
    /\ UNCHANGED <<tillVars, startVars, satz, abbruch, boteVars, intent, angezeigt>>

\* Timeout, disturbance, or the customer cancels at the device.
LeserBrichtAb(g) ==
    /\ leser = g
    /\ leser' = Offen
    /\ \E k \in {"stoerung", "amGeraet"} : Melde(g, k)
    /\ UNCHANGED <<tillVars, startVars, satz, abbruch, boteVars, intent, angezeigt>>

----------------------------------------------------------------------------
(* The till *)

\* An unknown or cancelled status taken for a success.
Deute_Kulant(s) ==
    CASE s = "PROCESSING" -> "wartet" [] s = "FAILED" -> "gescheitert" [] OTHER -> "erfolg"

\* deuteStand
Deute(s) ==
    CASE s = "PROCESSING" -> "wartet" [] s = "SUCCEEDED" -> "erfolg" [] OTHER -> "gescheitert"

SendeStart(a, g) ==
    /\ gang[g] \in {"neu", "ruht"} /\ anfrage[a] = "frei"
    /\ gang' = [gang EXCEPT ![g] = "startet"]
    /\ wartetAuf' = [wartetAuf EXCEPT ![g] = a]
    /\ anfrage' = [anfrage EXCEPT ![a] = "nachsehen"]
    /\ geste' = [geste EXCEPT ![a] = g]
    /\ UNCHANGED <<satz, abbruch, boteVars, stripeVars>>

\* The answer carries the row as the request has seen it.
NimmStartAntwort(g) ==
    /\ gang[g] = "startet"
    /\ \E a \in Anfragen :
          /\ wartetAuf[g] = a
          /\ \/ /\ anfrage[a] \in Staende \cup {"FEHLSTART"}
                /\ gang' = [gang EXCEPT ![g] = Deute(anfrage[a])]
             \/ anfrage[a] = "fehler" /\ gang' = [gang EXCEPT ![g] = "ruht"]
    /\ wartetAuf' = [wartetAuf EXCEPT ![g] = Offen]
    /\ UNCHANGED <<startVars, satz, abbruch, boteVars, stripeVars>>

\* No answer: the key is kept, and the request goes on at the server.
StartOhneAntwort(g) ==
    /\ gang[g] = "startet"
    /\ gang' = [gang EXCEPT ![g] = "ruht"]
    /\ wartetAuf' = [wartetAuf EXCEPT ![g] = Offen]
    /\ UNCHANGED <<startVars, satz, abbruch, boteVars, stripeVars>>

\* A poll that knows of the success only.
FrageStand_NurErfolg(g) ==
    /\ gang[g] = "wartet" /\ satz[g] = "SUCCEEDED"
    /\ gang' = [gang EXCEPT ![g] = "erfolg"]
    /\ UNCHANGED <<wartetAuf, startVars, satz, abbruch, boteVars, stripeVars>>

\* The poll that ends the waiting.
FrageStand(g) ==
    /\ gang[g] = "wartet" /\ satz[g] # "PROCESSING"
    /\ gang' = [gang EXCEPT ![g] = Deute(satz[g])]
    /\ UNCHANGED <<wartetAuf, startVars, satz, abbruch, boteVars, stripeVars>>

\* Too many polls failed in a row: "unknown", and the key is kept.
StandUnbekannt(g) ==
    /\ gang[g] = "wartet"
    /\ gang' = [gang EXCEPT ![g] = "ruht"]
    /\ UNCHANGED <<wartetAuf, startVars, satz, abbruch, boteVars, stripeVars>>

\* finalize; if it fails, only the booking is repeated.
BucheVerkauf(g) ==
    /\ gang[g] = "erfolg"
    /\ gang' = [gang EXCEPT ![g] = "gebucht"]
    /\ UNCHANGED <<wartetAuf, startVars, satz, abbruch, boteVars, stripeVars>>

\* The till is gone, and with it the key and what it knew.
TillWeg(g) ==
    /\ gang[g] \in {"startet", "ruht", "wartet", "erfolg"}
    /\ gang' = [gang EXCEPT ![g] = "weg"]
    /\ wartetAuf' = [wartetAuf EXCEPT ![g] = Offen]
    /\ UNCHANGED <<startVars, satz, abbruch, boteVars, stripeVars>>

----------------------------------------------------------------------------
(* The start route *)

Weiter(a, s) == anfrage' = [anfrage EXCEPT ![a] = s]

\* A gesture that has its row is answered with it.
SiehNach(a) ==
    /\ anfrage[a] = "nachsehen"
    /\ Weiter(a, IF satz[geste[a]] = "KEINER" THEN "anlegen" ELSE satz[geste[a]])
    /\ UNCHANGED <<geste, satz, tillVars, abbruch, boteVars, stripeVars>>

\* erzeugeKartenzahlung; the key is the provider's key as well.
LegeIntentAn(a) ==
    /\ anfrage[a] = "anlegen"
    /\ \/ Weiter(a, "eintragen") /\ intent[geste[a]] # "KEINER" /\ UNCHANGED intent
       \/ /\ intent[geste[a]] = "KEINER"
          /\ \E s \in {"eintragen", "fehler"} : Weiter(a, s)
          /\ intent' = [intent EXCEPT ![geste[a]] = "offen"]
       \/ Weiter(a, "fehler") /\ UNCHANGED intent
    /\ UNCHANGED <<geste, satz, tillVars, abbruch, boteVars, leser, angezeigt, post, gemeldet>>

\* The INSERT without its conflict target.
TrageSatzEin_OhneIndex(a) ==
    /\ anfrage[a] = "eintragen"
    /\ satz' = [satz EXCEPT ![geste[a]] = "PROCESSING"]
    /\ Weiter(a, "leser")
    /\ UNCHANGED <<geste, tillVars, abbruch, boteVars, stripeVars>>

\* INSERT ... ON CONFLICT DO NOTHING: one request of a gesture wins.
TrageSatzEin(a) ==
    /\ anfrage[a] = "eintragen"
    /\ \/ /\ satz[geste[a]] = "KEINER"
          /\ satz' = [satz EXCEPT ![geste[a]] = "PROCESSING"]
          /\ Weiter(a, "leser")
       \/ satz[geste[a]] # "KEINER" /\ Weiter(a, "verloren") /\ UNCHANGED satz
    /\ UNCHANGED <<geste, tillVars, abbruch, boteVars, stripeVars>>

\* The loser cancels "its" intent, which is the winner's, and answers with
\* the row it then reads (two awaits, one step: the answer is the row's anyway).
GibNach(a) ==
    /\ anfrage[a] = "verloren"
    /\ Storniere(geste[a])
    /\ Weiter(a, satz[geste[a]])
    /\ UNCHANGED <<geste, satz, tillVars, abbruch, boteVars, angezeigt>>

\* process_payment_intent: taken by an idle reader and an open intent.
StarteLeser(a) ==
    /\ anfrage[a] = "leser" /\ leser = Offen /\ intent[geste[a]] = "offen"
    /\ leser' = geste[a]
    /\ angezeigt' = [angezeigt EXCEPT ![geste[a]] = @ + 1]
    /\ \E s \in {"PROCESSING", "aufraeumen"} : Weiter(a, s)   \* its answer may be lost
    /\ UNCHANGED <<geste, satz, tillVars, abbruch, boteVars, intent, post, gemeldet>>

\* Display or reader are not reached, the reader is busy, the intent is gone.
LeserstartScheitert(a) ==
    /\ anfrage[a] = "leser"
    /\ Weiter(a, "aufraeumen")
    /\ UNCHANGED <<geste, satz, tillVars, abbruch, boteVars, stripeVars>>

\* storniereIntent of a start that failed ...
RaeumeAuf(a) ==
    /\ anfrage[a] = "aufraeumen"
    /\ Storniere(geste[a])
    /\ Weiter(a, "fehlschlag")
    /\ UNCHANGED <<geste, satz, tillVars, abbruch, boteVars, angezeigt>>

\* ... and its UPDATE, which asks for no status.
BucheFehlstart(a) ==
    /\ anfrage[a] = "fehlschlag"
    /\ satz' = [satz EXCEPT ![geste[a]] = "FAILED"]
    /\ Weiter(a, "FEHLSTART")
    /\ UNCHANGED <<geste, tillVars, abbruch, boteVars, stripeVars>>

----------------------------------------------------------------------------
(* naechsterStand, the webhook and the cancel route *)

\* The automaton without rule 2.
Uebergang_WeichZaehlt(s, k) ==
    CASE k = "erfolg" /\ s \in {"PROCESSING", "FAILED"} -> "SUCCEEDED"
      [] k = "storniert" /\ s # "SUCCEEDED" -> "CANCELED"
      [] k = "amGeraet" /\ s = "PROCESSING" -> "CANCELED"
      [] k \in {"fehlschlag", "stoerung", "weich"} /\ s = "PROCESSING" -> "FAILED"
      [] OTHER -> s

Uebergang(s, k) ==
    CASE k = "erfolg" /\ s \in {"PROCESSING", "FAILED"} -> "SUCCEEDED"
      [] k = "storniert" /\ s # "SUCCEEDED" -> "CANCELED"
      [] k = "amGeraet" /\ s = "PROCESSING" -> "CANCELED"
      [] k \in {"fehlschlag", "stoerung"} /\ s = "PROCESSING" -> "FAILED"
      [] OTHER -> s

\* A delivery that is not acknowledged yet, also one that is at work.
LiesEreignis(w) ==
    /\ fuer[w] = Offen
    /\ \E g \in Gesten : \E k \in post[g] :
          /\ fuer' = [fuer EXCEPT ![w] = g]
          /\ art' = [art EXCEPT ![w] = k]
          /\ las' = [las EXCEPT ![w] = satz[g]]
    /\ UNCHANGED <<tillVars, startVars, satz, abbruch, stripeVars>>

Lege(w) ==
    /\ fuer' = [fuer EXCEPT ![w] = Offen]
    /\ art' = [art EXCEPT ![w] = "keine"]
    /\ las' = [las EXCEPT ![w] = "KEINER"]

\* An UPDATE by id alone.
SchreibeStand_OhneVergleich(w) ==
    /\ fuer[w] # Offen
    /\ satz' = [satz EXCEPT ![fuer[w]] = Uebergang(las[w], art[w])]
    /\ post' = [post EXCEPT ![fuer[w]] = @ \ {art[w]}]
    /\ Lege(w)
    /\ UNCHANGED <<tillVars, startVars, abbruch, intent, leser, angezeigt, gemeldet>>

\* UPDATE ... WHERE status is the one read; then processed_at, unless the
\* server ends before.
SchreibeStand(w) ==
    /\ fuer[w] # Offen
    /\ satz' = [satz EXCEPT ![fuer[w]] = IF @ = las[w] THEN Uebergang(@, art[w]) ELSE @]
    /\ post' \in {post, [post EXCEPT ![fuer[w]] = @ \ {art[w]}]}
    /\ Lege(w)
    /\ UNCHANGED <<tillVars, startVars, abbruch, intent, leser, angezeigt, gemeldet>>

\* The cashier cancels, and the route reads PROCESSING.
BricheAb(g) ==
    /\ gang[g] = "wartet" /\ abbruch[g] = "keiner" /\ satz[g] = "PROCESSING"
    /\ abbruch' = [abbruch EXCEPT ![g] = "gelesen"]
    /\ UNCHANGED <<tillVars, startVars, satz, boteVars, stripeVars>>

\* cancel_action stops whatever the reader collects; a failure is only logged.
BrichLeserAktionAb(g) ==
    /\ abbruch[g] = "gelesen"
    /\ abbruch' = [abbruch EXCEPT ![g] = "aktion"]
    /\ leser' \in {leser, Offen}
    /\ UNCHANGED <<tillVars, startVars, satz, boteVars, intent, angezeigt, post, gemeldet>>

\* So is a failure here.
StorniereZumAbbruch(g) ==
    /\ abbruch[g] = "aktion"
    /\ abbruch' = [abbruch EXCEPT ![g] = "storno"]
    /\ Storniere(g)
    /\ UNCHANGED <<tillVars, startVars, satz, boteVars, angezeigt>>

\* CANCELED, unless the webhook came first.
BucheAbbruch(g) ==
    /\ abbruch[g] = "storno"
    /\ abbruch' = [abbruch EXCEPT ![g] = "keiner"]
    /\ satz' = [satz EXCEPT ![g] = IF @ = "PROCESSING" THEN "CANCELED" ELSE @]
    /\ UNCHANGED <<tillVars, startVars, boteVars, stripeVars>>

Antworten == Staende \cup {"frei", "FEHLSTART", "fehler"}

\* The server ends; its database and the provider stay.
ServerAbsturz ==
    /\ anfrage' = [a \in Anfragen |-> IF anfrage[a] \in Antworten THEN anfrage[a] ELSE "fehler"]
    /\ abbruch' = [g \in Gesten |-> "keiner"]
    /\ fuer' = [w \in Boten |-> Offen]
    /\ art' = [w \in Boten |-> "keine"]
    /\ las' = [w \in Boten |-> "KEINER"]
    /\ UNCHANGED <<geste, satz, tillVars, stripeVars>>

----------------------------------------------------------------------------
StripeSchritt(g) == Belaste(g) \/ LehneWeichAb(g) \/ LehneHartAb(g) \/ LeserBrichtAb(g)

TillSchritt(g) ==
    \/ NimmStartAntwort(g) \/ StartOhneAntwort(g) \/ FrageStand(g) \/ StandUnbekannt(g)
    \/ BucheVerkauf(g) \/ TillWeg(g) \/ BricheAb(g)

StartSchritt(a) ==
    \/ SiehNach(a) \/ LegeIntentAn(a) \/ TrageSatzEin(a) \/ GibNach(a)
    \/ StarteLeser(a) \/ LeserstartScheitert(a) \/ RaeumeAuf(a) \/ BucheFehlstart(a)

AbbruchSchritt(g) == BrichLeserAktionAb(g) \/ StorniereZumAbbruch(g) \/ BucheAbbruch(g)

LeserNext ==
    \/ \E g \in Gesten : StripeSchritt(g) \/ TillSchritt(g) \/ AbbruchSchritt(g)
    \/ \E a \in Anfragen : StartSchritt(a) \/ \E g \in Gesten : SendeStart(a, g)
    \/ \E w \in Boten : LiesEreignis(w) \/ SchreibeStand(w)
    \/ ServerAbsturz

LeserSpec == LeserInit /\ [][LeserNext]_leserVars

\* The server does not end for ever, the till polls, and a cashier who waits
\* cancels in the end.
LeserFair ==
    /\ <>[][~ServerAbsturz]_leserVars
    /\ \A g \in Gesten :
          /\ WF_leserVars(FrageStand(g))
          /\ WF_leserVars(BricheAb(g))
          /\ WF_leserVars(AbbruchSchritt(g))

LeserFairSpec == LeserSpec /\ LeserFair

----------------------------------------------------------------------------
(* Properties *)

\* No sale is booked on a card that was not charged: the row says SUCCEEDED,
\* and the till believes it, only of a charged intent, whoever answered it
\* last, the start, the poll, or a delivery that came late or twice.
BezahltIstBelastet ==
    \A g \in Gesten :
        satz[g] = "SUCCEEDED" \/ gang[g] \in {"erfolg", "gebucht"} => intent[g] = "belastet"

\* One gesture is shown to the customer once, however often the till repeats
\* the start and wherever the server ended in between.
EinmalAngezeigt == \A g \in Gesten : angezeigt[g] <= 1

\* The soft decline of a girocard is never booked as a failure: a row is
\* FAILED only after a hard decline, a failure of the reader or of its start.
WeichIstKeinFehlschlag ==
    \A g \in Gesten :
        satz[g] = "FAILED" =>
            \/ gemeldet[g] \cap {"fehlschlag", "stoerung"} # {}
            \/ \E a \in Anfragen : geste[a] = g /\ anfrage[a] = "FEHLSTART"

\* SUCCEEDED is final for every event and for the cancel route, also for one
\* that read the status before; only the failure path of a start, which asks
\* for no status, leads out of it.
ErfolgBleibt ==
    [][\A g \in Gesten :
          satz[g] = "SUCCEEDED" /\ satz'[g] # "SUCCEEDED" =>
              \E a \in Anfragen : geste[a] = g /\ anfrage[a] = "fehlschlag"]_leserVars

\* The webhook never books a cancellation over a charged card, in whatever
\* order the events arrive: after a cancellation at the device the payment is
\* not shown again.  Only the cancel route does so (StornoIstStorniert).
NurAbbruchVerfehlt ==
    [][\A g \in Gesten :
          satz[g] # "CANCELED" /\ satz'[g] = "CANCELED" /\ intent[g] = "belastet" =>
              abbruch[g] = "storno"]_leserVars

\* A payment as customer and shop see it.
Kartenverkauf == INSTANCE Kartenverkauf WITH
    Zahlungen <- Gesten,
    gezeigt   <- angezeigt,
    karte     <- [g \in Gesten |-> IF intent[g] \in {"KEINER", "offen"} THEN "frei" ELSE intent[g]],
    verkauf   <- [g \in Gesten |->
                    CASE gang[g] = "erfolg" -> "bezahlt"
                      [] gang[g] = "gebucht" -> "gebucht"
                      [] gang[g] \in {"gescheitert", "weg"} -> "aufgegeben"
                      [] OTHER -> "offen"]

\* Start requests, polls, deliveries and the cancel route, crashes included,
\* together are a payment that is shown once, charged only when shown, never
\* charged when cancelled, and booked only when charged.
IstKartenverkauf == Kartenverkauf!Spec

\* A till that waits at the reader does not wait for ever.
WartenEndet == \A g \in Gesten : gang[g] = "wartet" ~> gang[g] # "wartet"

----------------------------------------------------------------------------
(* What the repository says and the code does not keep *)

\* "There is no success from CANCELED only, since the provider cannot complete
\* a cancelled intent either": what is booked as cancelled is not charged.
StornoIstStorniert ==
    \A g \in Gesten : satz[g] = "CANCELED" => intent[g] # "belastet"

=============================================================================
