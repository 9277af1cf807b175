# Norns POS: a verification of the engine

Norns POS is a till for jewellers and dealers in precious metal. A Tauri shell
(`src/apps/tauri-pos`) shows the till and starts a local engine
(`src/apps/api-cloud`, Fastify over PostgreSQL); `src/packages` holds what both
share. Whatever the engine commits is bookkeeping under German law: a receipt
cannot be edited, a closed day cannot be reopened, and the goods are unique
pieces. This directory models the parts of the engine in which several requests
meet, checks the models with TLC and proves their main properties with TLAPS.

Names follow the source, which is written in German: *Beleg* receipt, *Vorgang*
business transaction, *Abschluss* closing, *Z-Bon* the sealed statement of a
day, *Kasse* till, *Schicht* shift, *Sturz* blind count of the drawer, *Stück*
piece, *Rückgabe* return, *Storno* reversal, *Ankauf* purchase from a customer,
*Nachtrag* late receipt.

## 1. Inventory

| Component | State it keeps | Operations | Meets | Hard about it | Must hold |
|---|---|---|---|---|---|
| Daily closing, `routes/closings-finalize.ts` | `daily_closings`, Z numbers | finalize | receipts, shifts, ledger | nine statements, each with its own snapshot; three locks; an abandoned `COUNTING` row | a Z-Bon contains exactly its day; numbers without gap; anchor behind its receipts; turnover covered by a counted drawer |
| Day lock and capture time, `lib/tagessperre.ts`, `lib/erfassungszeit.ts`, migration 0118 | advisory locks, `finalized_at`, `nachtrag_bezugstag` | choose the day, lock it, trigger | closing | decision before the lock, midnight, receipts captured offline | a late receipt is on its day or declares itself |
| Receipts, `routes/transactions-{finalize,storno,rueckgabe,ankauf}.ts` | `transactions`, items, payments | sale, reversal, return, purchase | all of the rest | repetition after a lost answer, checks before writes | one key, one receipt; stock agrees with the books |
| Inventory lock, `packages/inventory-lock` | `products.status`, the reservation envelope | reserve, release, finalize, sweep | sale, catalogue | sweep and release against a sale in progress | no piece sold twice |
| Catalogue, `routes/products.ts` | `products` | publish, archive, delete | sale, return | acts on a row read earlier | what is on a receipt stays |
| Shifts and drawer, `routes/shifts.ts` | `shifts`, `cash_movements` | open, deposit, payout, count | receipts, closing | count and bookings at once | one count wins; its balance is what the books say |
| Ledger and audit chain, `packages/audit` | `ledger_events` | append, verify | every commit | one head, serialised by a trigger | chain unbroken |
| TSE signatures, `lib/tse-queue-*.ts`, `lib/tse-service.ts`, `routes/transactions-tse-signature.ts` | local queue, `tse_signatures` | sign, enqueue, drain, record | payment dialog, server, TSE | crash between FINISH and record; a slow pass taken for a dead one; dialog and drain on one row | a signature is not lost and not recorded twice; the cashier is told the truth |
| Offline outbox, `middleware/offline-*.ts`, `lib/outbox-store.ts`, `lib/pos-intents-store.ts` | local outbox, sealed intents | seal, send, enqueue, reconcile, drain, resolve conflict | all receipt routes | crash between two local statements; two controllers after a new login; a conflict sent again at its old place | no request lost, none booked twice, order kept, every row decided |
| API client middleware, `middleware/{retry,circuit,dedup}.ts` | buckets, in-flight map | retry, circuit, dedup, step-up | every call of the till | state read before an await, written after it; callers that join and leave | a shared failure counts once; nobody loses a request he wants |
| PIN and keys, `packages/auth-pin`, `routes/auth-*.ts` | failure counter, lock, sessions | login, step-up, rescue | each other | counter with and without row lock | every failure counts |
| Card reader, `routes/stripe-{terminal,webhook}.ts`, `lib/leser-zahlung-*.ts` | `leser_zahlungen` | start, poll, cancel, webhook | Stripe, the till | two starts of one gesture; events late, twice, out of order; a charge during a cancel | one payment per gesture; paid means charged |
| Vouchers, expenses, approvals, stock-taking, appraisals | their tables | create, redeem, decide | closing, receipts | mostly one row lock each; expenses take no day lock | single use; an expense is in the Z-Bon of its day |
| Live stream tickets, back-off, money, exports | little or none | pure functions | | rounding and boundaries | equal to a reference |
| Rust shell: engine and supervisor, `src-tauri/src/{lib,motor,aufsicht}.rs`, the sidecar, `app/Motorstart.tsx` | the slot of the engine, its stated address, the restart counter, the data directory | start, supervise, give up, close | operating system, the window | kills that leave a PostgreSQL behind; starts that hang; two restarts of the same engine | one master on the data; gives up, but not too early |
| Rust shell: vault, backup, devices | files, keys | seal, back up, print | operating system | input and output | not modelled |

All of them, with their files, are under "components" in `PROJECT.json`; what is
hard to test in them is under "hazards", each at its line, with the properties
that watch it or a note why none does yet.

## 2. Modules

| Module | What it is |
|---|---|
| `Tagesabschluss` | receipts, closings and shifts around the day lock |
| `Kassenbuch` | what the closing promises: a book whose pages are sealed |
| `Ware` | pieces, reservations, sales, purchases, reversals, returns, catalogue |
| `Einzelstueck` | what the shop promises about unique pieces |
| `Belegstelle` | what a receipt service with idempotency keys promises |
| `Kassenlade` | shifts, cash bookings, blind counts |
| `Schichtbuch` | what a drawer promises: shifts that are opened, entered into and counted |
| `Ausgang` | the way of a request out of the till: intent, direct attempt, outbox, drain |
| `Nachreichen` | the signature of a receipt: TSE, durable queue, drain, recording route |
| `Signaturbuch` | what an auditor is promised about signatures |
| `Leserzahlung` | a card payment: start, poll, cancel, webhook, with the provider as an external actor |
| `Kartenverkauf` | what customer and shop are promised about a card payment |
| `Aufsicht` | the shell, the engine it supervises and the window that talks to it |
| `Sicherung` | reads of the till: retry over circuit breaker over coalescing |
| `TagesabschlussProofs`, `WareProofs`, `KassenladeProofs`, `AusgangProofs`, `NachreichenProofs`, `LeserzahlungProofs`, `AufsichtProofs`, `SicherungProofs` | the theorems, one module per component |
| `MCTagesabschluss`, `MCWare`, `MCKassenlade` | constants and symmetry of the instances |
| `MCWareTeile`, `MCLaden`, `MCBetrieb`, `MCKasse` | several small instances in one run |

`Tagesabschluss`, `Ware` and `Kassenlade` look at the same receipt routes from
three sides: the day a receipt books on, the piece and key it is about, the
shift its cash counts for. No variable of one appears in another; where a route
touches two sides, each module models its own and says in its header what it
leaves to the others. The one shared object, the life of a shift, appears in
`Tagesabschluss` as the days on which it was opened and counted, and in
`Kassenlade` as the sum it was counted with.

`Ausgang`, `Nachreichen`, `Leserzahlung` and `Sicherung` are the till's side of
the wire. Between the till and the server stands `Belegstelle`: a key gets one
receipt, which stays, and nobody is shown another. `Ware` implements it
(`IstBelegstelle`: sale and purchase with their look-up, their unique index and
the answer of the loser), and `Ausgang`, whose server is reduced to that promise and to
the refusals of a repetition that `Ware` also shows, implements it once more towards
the cashier (`BleibtBelegstelle`). `Aufsicht` is below all of
them: where another module says that a server or a till ends and comes back, it
is this one that ends and starts them.

`MCLaden`, `MCBetrieb` and `MCKasse` put instances of components that share no
variable into one run; a variable `teil` says which of them a behaviour is about,
and the others stand still. This is for economy, not a composition: no property
relates two of them.

Six abstract specifications say what a component looks like from outside:
`Kassenbuch`, `Einzelstueck`, `Belegstelle`, `Schichtbuch`, `Signaturbuch` and
`Kartenverkauf`. Each is about a page long, knows no locks, requests, crashes or
repetitions, and is implemented under a refinement mapping (`INSTANCE ... WITH`)
that keeps of the detailed state what the outside sees. A run checks each
refinement on an instance, a theorem states it for all.

An operator `X_Y` is a faulty variant of `X`: a guard dropped, a lock not taken,
a wrong day. No specification ever uses one. `PROJECT.json` ("mutants") pairs
each property with the variant that must break it.

### How state and actions correspond to the code

* **Statements and transactions.** The engine runs at READ COMMITTED. A
  statement that reads, and whose result a later statement relies on, is an
  action of its own; writes become visible in the action that commits. Where a
  handler decides and writes in one SQL statement (every function of
  `inventory-lock`), it is one action.
* **Locks** are not variables: who holds a lock follows from how far each
  request is. `HaeltTagessperre` and `HaeltAbschlusssperre` are the shared and
  exclusive side of the advisory day lock, `HaeltNummernsperre` the lock around
  the Z number, `KettenkopfFrei` the head of the ledger, `ZeileFrei` the rows
  that an open transaction has written, `HaeltSchicht` the `FOR UPDATE` of a
  count and `KeinBelegUnterwegs` the `FOR KEY SHARE` of a receipt's foreign key
  (those two are PostgreSQL's and marked external).
* **Time** is the business day. `Mitternacht` may happen between any two
  statements; `jetzt` is the frozen `now()` of a transaction.
* **Amounts** are the set of bookings a sum was taken over: two sums that read
  the same receipts agree, two that did not do not.
* **Failures.** `AbbruchVorgang`, `AbbruchAbschluss`, `AbbruchSchicht`,
  `BrichAb`, `BrichBelegAb`, `BrichBewegungAb` and `BrichSturzAb` are a
  rollback between any two statements: a crash of the engine, a lost connection, and
  every refusal not modelled one by one (licence, signature device, identity,
  tax sums, margin; for closings also the recomputation of TSE figures). They
  refuse without a trace. A reversal or return that rolls back leaves none
  either, so it is one that never moved on.
* **The till** (`Ausgang`, `Nachreichen`) keeps its own database. Each of its
  statements is a step, and the process may end between any two (`Absturz`,
  `Kassenabsturz`): memory is gone, rows stay. A replay or drain controller is a
  member of a set, because a new login makes a new one while the old one still
  finishes its pass; a pass works on the list it read at its beginning. A request
  is sent in one step and answered in another; in between it may be carried out
  or not, and the answer may be lost.
* **What is outside** is an action marked external in the map: the TSE finishes an
  intention once and refuses it afterwards; the payment provider has one intent per key,
  charges only while the reader collects, refuses to cancel a charged intent and
  delivers events late, twice and in any order; the operating system hands out ports and may
  leave a PostgreSQL behind when it kills its parent.
* **Time in `Aufsicht`** passes in steps (`Vergehe`) that are long against the
  interval of the supervisor and short against its two periods. What is due happens
  within the step.
* **Callers of `Sicherung`** settle together: all who wait for a request take up its
  answer in one step, as JavaScript runs their continuations in one go. Each
  writes the bucket from its own older reading, in the order they joined, so
  the last one's reading is what the model keeps (`gelesen`).
* **Repetition.** Requests are constants; a repetition is another request with
  the same key (`SchluesselVon`, `Referenz`), so it may run after the first,
  beside it, or instead of it.

### Abstractions worth knowing

* `Ware` has no web channel: the columns exist, nothing in the repository
  reserves for it. Releasing several pieces is releasing them one by one.
  Finalising several pieces of a receipt is one step; in the code it is one
  transaction whose rows are locked as it goes.
* `Altverkauf`/`Altstuecke` are sales booked earlier whose pieces carry no
  reservation stamp, as the integration tests of the return seed them. They
  matter because a return of any other piece is refused by the table (see the
  findings), so without them a return would never succeed in the model.
* The sweeps `autoReleaseStalePos` and `autoReleaseExpired` have no caller in the
  repository. The first is modelled because the package exports it for a job.
* `Kassenlade` leaves the seal of the day to `Tagesabschluss`, and old
  reversals without a shift, which the sum of a count picks up by their
  original, out.
* The day lock of storno, return, purchase and appraisal is the same helper as
  that of the sale, so a `Vorgang` is any of them; a sale, a reversal or a return may carry a capture
  time and so be a Nachtrag.
* Clocks that only decide whether something is due yet (back-off and `STALE_MS` of
  the signature queue, the cool-down of the circuit, the pause of the retry) are choices:
  the pass leaves a row out, the pause ends, the circuit has cooled.
* The counters of failures in `Sicherung` stop at the threshold, which is as far as
  any decision looks. All its addresses have one route template and so one bucket.
* `Leserzahlung` leaves out the readiness of account and reader, refunds and fees;
  each kind of event is raised once per key.
* What the engine does inside its start (migrations, keys, port) is one step of
  `Aufsicht`, between its birth, the moment it takes the data directory, and its
  ready line.

## 3. Properties

### Tagesabschluss

* `ZBonVollstaendig`: both groups of statements of a closing (sums, and their
  break-down) saw every receipt of the day, and none was booked there later.
* `NachtragAusgewiesen`: a receipt captured offline books on its capture day, or
  on today and then names a capture day that was sealed without it.
* `ZFolgeLueckenlos`: Z numbers are 1, 2, 3, ... in whatever order days are
  closed. (`NummerFrei`, that the number and day a closing is about to write are still
  free, so that the route's branch for a collision is dead code, is proved
  only.)
* `AnkerUmfasstTag`: the ledger height in a Z-Bon lies behind all its receipts.
* `UmsatzGedeckt`: a sealed day with receipts is spanned by a counted shift.
* `AbschlussEndet`, `VorgangEndet`: no closing and no receipt waits for ever,
  whatever waits on day lock, number lock and chain head.
* `IstKassenbuch`: all of this seen from outside is a book. Entering a receipt
  is the commit of the receipt, sealing a page is the commit of the closing, every
  other step is invisible.

### Ware

* `KeinDoppelverkauf`: at most one sale that was not taken back has a piece.
* `BestandPasstZuBelegen`: a piece is `SOLD` exactly if such a sale has it,
  whatever sweep, release, catalogue and rolled-back sales did in between.
* `IstBelegstelle`: every step of every request is one of the receipt service: a
  key gets one receipt, which stays, and everyone who is answered with success is
  answered with it. (`AntwortIstDerBeleg`, the state it rests on, is proved only.)
* `BelegStueckBleibt`: what is on a receipt is never deleted.
  `ArchiviertBleibtVerkauft`: an archived piece is with its customer.
  `StornoEinmal` (proved only): a receipt is reversed once.
* `RuecknahmeNurAltes`: which returns succeed and which the table refuses,
  whatever runs between the route's checks and its UPDATE: only pieces of a sale
  without a reservation come back, and the table refuses only over an archived
  piece or one on a sale out of a reservation. It is the exact extent of the
  finding `RuecknahmeGelingt` below.
* `AnfrageWirdBeantwortet`: row locks leave no sale or purchase waiting.
* `IstEinzelstueck`: every commit is a sale, a purchase, a return or a deletion
  of the abstract shop, and everything else is invisible there.

### Kassenlade

* `AntwortIstDieZaehlung`: of several counts exactly the one whose figures the
  shift carries is answered with success.
* `SollIstDieLade`: at the moment a shift closes its expected balance is what the
  books say, and no receipt is half way into it.
* `BewegungNurEinmal`: a cash movement stands in the books once, however often
  and on whatever shift it is repeated.
* `IstSchichtbuch`: seen from outside, a till has one open shift at a time, a
  posting stands on a shift there is and once, and closing copies in one step what
  stands on the shift; neither copy nor close is taken back. What is booked on a
  counted shift (the finding `SturzSiehtJedesBein`) does not move the copy.
* `KasseAntwortet`: receipts and counts that wait for each other are answered.

### Ausgang

* `BleibtBelegstelle`: whoever is told "booked", the cashier or the outbox, is told of
  a receipt there is, and it is booked once, however often dialog, reconcile and the
  passes of two controllers sent it and wherever the till crashed: as a whole, the till
  and its server are a receipt service again. (`QuittungIstBuchung`, its state, is
  proved only.)
* `AbsichtGehtNichtVerloren`: a sealed intent is closed, and a cashier is told
  "queued", only when there is a receipt or a row of the outbox.
* `FolgeGewahrt`: a pass does not go past a request it found pending before that is
  booked: it stops at a conflict and at a lost answer, whatever another pass and the
  owner do to the rows meanwhile. Of what was queued before a record that is sent, only
  what the owner has sent again since the pass read its list can be pending. This is
  an order *within a pass*; across passes there is none, see `HaltHinterKonflikt` below.
* `EingereihtWirdEntschieden`: a queued request does not wait for ever, unless it or one
  before it is a conflict that waits for the owner. The second exception is the halt the
  repository promises: the property does not rest on a pass that
  goes around a conflict. (The code does go around it, which is the finding.)

### Nachreichen

* `SignaturEinmal`: the server records one signature per receipt, although two
  passes may run the same row and meet between look-up and INSERT.
* `AuskunftStimmt`: what the cashier is told of the signature (at the server, kept with
  it, kept without, queued) is so.
* `IstSignaturbuch`: a receipt is signed once and after its intention, a till that
  holds a signature keeps it (whatever the dialog writes over the row), the server
  gets one, and nothing counts as delivered before it is. (`SignaturBleibt`, that no
  write empties a row, is proved on its own as well.)
* `ZeileEndet`: a row of the queue does not wait for ever.

### Leserzahlung

* `BezahltIstBelastet`: what row, answer or till call paid has been charged.
* `IstKartenverkauf`: a payment is shown once, charged only when shown, never
  charged when cancelled, and booked only when charged. (`EinmalAngezeigt`, one
  gesture starts the reader once, is proved only.)
* `WeichIstKeinFehlschlag`: a soft decline, after which the reader tries again by
  itself, never makes the row failed.
* `ErfolgBleibt`: a row that says SUCCEEDED says so for good, whatever event,
  cancel or failed start comes later.
* `NurAbbruchVerfehlt`: a charged payment is booked as cancelled by the cancel
  route alone, between its cancellation of the intent and its UPDATE: no event, start or
  repetition does. It is the exact extent of the finding `StornoIstStorniert` below.
* `WartenEndet`: a till that waits at the reader does not wait for ever.

### Aufsicht

* `EinHerr`: the data directory has one master (the engine in the slot, the one that
  starts, or a leftover), whoever was killed in between.
* `AufgabeBegruendet`: the supervisor gives up only after a series of short runs.
  `GibtAuf`: an engine that no longer comes up ends with giving up, as long as each
  start fails before its deadline.

### Sicherung

* `OffenHeisstSchwelle`: an open circuit has seen as many requests fail as the
  threshold says; panels that share one do not multiply it. The count is of all
  failures since the till was started, cancelled requests included: that they came
  in a row, without a success in between, is not said (a late failure writes an old
  reading, see below).
* `AbbruchNurOhneInteresse`: a request is cancelled with the last caller who wanted
  it, never before.

### Where the repository says more than the code keeps

Each has a run that finds the counterexample and an entry under "findings".

* `SturzInZBon` (`shifts.ts:438`): a count that checked the seal before the
  closing committed is written on the sealed day and is in no Z-Bon.
* `SturzSiehtJedesBein` (`transactions-finalize.ts:886`): a sale finds its shift
  in one statement and is inserted by a later one; if the count lies between, the sale is
  on a counted shift and in no balance.
* `RuecknahmeGelingt` (`transactions-rueckgabe.ts:39`): a return that passed the
  route's checks is refused by the `CHECK` on the reservation stamp, because a
  sale keeps the stamp and a return does not clear it.
* `WiederholungBekommtDenBeleg` (`0028:49`): a repetition that arrives while the
  first request is in flight finds the pieces `SOLD` and ends with 409 instead
  of the receipt. For purchases the unique article number does the same;
  the property covers both, the run shows a sale.
* `HaltHinterKonflikt` (`api-client/src/middleware/offline-replay.ts:20-24`, "Subsequent
  rows stay `pending` behind it"; `tauri-pos/src/lib/offline-replay.ts:134`, "the next
  online event will NOT advance past it"; `Konfliktpostfach.tsx:161`): the halt is that of
  one pass. `listPending` (`outbox-store.ts:131`) selects what is pending, and a
  conflict is not, so the next online event or login sends what was queued behind
  an unresolved conflict. The same selection has a second effect on a row that is
  sent again: it goes "before any later row" (`outbox-store.ts:169-171`) only with the
  next list. A pass that has its list already goes past it, and swallows the event that
  was to deliver it. `FolgeGewahrt` says what is left of the order.
* `SigniertesWirdNichtAufgegeben` (`tse-nachreichen-regel.ts`): a receipt whose
  FINISH was carried out and whose answer was lost is refused at the next FINISH, and
  the first such refusal makes its row terminal, though the TSE has signed it.
* `StornoIstStorniert` (`leser-zahlung-stand.ts`): the cancel route writes CANCELED
  although the cancellation failed because the card had been charged, and the success
  that comes later is ignored in that state.
* `FensterFindetMotor` (`aufsicht.rs:5`): the window keeps the first address it was
  told; a restarted engine has another port.

Seen while modelling, without a run of their own:

* Two returns of a piece without a reservation stamp that run at once both book
  a receipt: each passes the check of earlier returns
  (`transactions-rueckgabe.ts:360`), nothing locks the sale between that check and the
  INSERT, and no index forbids a second one. The piece itself stays right
  (`BestandPasstZuBelegen`, `RuecknahmeNurAltes`); that the money goes out once is not
  among the properties, because it is not so.
* A shift can be opened on a day that is being sealed.
* A failure that comes late closes a circuit that has opened since: the attempt
  writes its old reading plus one, below the threshold, as "closed"
  (`circuit.ts:85-90`, against `circuit.ts:4-5`, where only success closes). Take two
  requests in flight, let the others reach the threshold, then let the old one fail.
* A caller that joins a request already aborted by its last interested caller gets
  that abort as a network error; it is retried, and counts as a failure of the
  endpoint, as every cancellation by a user does (`client.ts:209-221`).
* The supervisor notes the time before a start that may block for
  `WARTEZEIT_WARM`, which is not shorter than `ALS_GELUNGEN_NACH`
  (`aufsicht.rs:189`): a start that hangs until its deadline counts as a long run, and the
  supervisor never gives up on it. `GibtAuf` therefore has the premise that starts fail
  before their deadline.
* The handler of the exit empties the slot, and a supervisor that has already decided
  may still restart the engine while the shell closes; the next start removes
  what is left (`EinHerr`).

## 4. Runs, bounds and why they are enough

| Run | Instance | What could happen in it |
|---|---|---|
| `laden` | `tag`: 2 receipts, 1 closing, 1 shift, days 0 to 2, an abandoned `COUNTING` row | a receipt on each side of the lock, one captured the day before, midnight at any point, the shift counted before, during or after |
| | `ware`: 3 sales (two with one key), 2 pieces, 2 sessions, 1 catalogue request | two sessions after one piece, a repetition beside its original, release and sweep at any time |
| | `ruf`: 3 reads, two of one address, threshold 2, 3 attempts | shared requests that fail, late failures, callers that cancel before, during and between attempts, a cooled circuit |
| `ware_rueckgabe_ankauf` | `rueckgabe`: 1 earlier sale, 1 sale, 2 reversals, 2 returns, 1 catalogue request | a return and a resale, two returns at once, reversal with either |
| | `ankauf`: 2 purchases with one key, 1 sale, 1 catalogue request | a purchase repeated, its piece published, sold, deleted |
| `betrieb` | `abschluss`: 2 closings, 1 receipt, days 1 and 2 to close, an abandoned row | both closings at the number lock, on the same or different days; every waiting pattern on three locks |
| | `lade`: 1 till, 2 shifts, 1 receipt, 2 movements with one reference, 2 counts | two counts of one shift, a movement repeated on the next shift |
| | `aufsicht`: limit 3, both periods 2 steps, one port | a series of short runs, a long one in between, kills at every stage, a leftover from an earlier shell |
| `kasse_netz` | `dialog`: a request is made while one of an earlier session waits | direct attempt against drain, crash at every statement |
| | `rest`: 2 controllers, 2 rows of an earlier session | overlapping passes, a conflict sent again, a pass behind a conflict |
| | `signatur`: 1 receipt, 2 controllers | dialog and two passes on one row |
| | `geste`: 1 gesture, 2 start requests, one delivery at a time | a repeated start that meets the first, failed starts |
| | `zustellung`: 1 start, 2 deliveries at a time | events in any order and at once, against the cancel |
| `tagesabschluss_sturz`, `ware_ruecknahme_regel`, `ware_wiederholung`, `kassenlade_nachzuegler`, `ausgang_konflikt`, `nachreichen_aufgegeben`, `leserzahlung_storno`, `aufsicht_adresse` | the smallest instance of the component | expected violations (section 3) |

`LetzterTag` bounds the calendar and `Hoechstalter` is the age a capture time may
have, in days (one: the day before is the only other day an instance needs). In
`kasse_netz` a key gets at most two kinds of event, the owner sends a request again
once, `geste` cancels nothing and `zustellung` starts once: what these leave out in one
part another part has. `AlsGelungenNach` and `Wartezeit` are steps of time; with two
a run is short or long, and a start is in time, late or over its deadline.
Every hazard here is a matter of two requests and one object they share; the
instances have two of each kind that competes and one more where a third party
(the sweep, a resale, a second session, a crash) matters. The bounds are only those of
TLC: the theorems hold for every value of the constants. Symmetry is used in
the safety run only, and only over requests and pieces no constant tells apart.
`CHECK_DEADLOCK FALSE` appears where every request may have been answered and
nobody need send another. In `laden` and `betrieb` deadlock is checked, for the parts
`tag`, `abschluss` and `aufsicht`; the other parts may rest.

## 5. Fairness

The environment owes nothing: nobody has to send a request, release a piece, or
let midnight pass, and nothing has to fail.

* The server goes on with a request it has begun (Fastify and the connection pool
  run a handler to its end): weak fairness of a request's own statements.
  PostgreSQL grants advisory and row locks in the order in which they were
  asked for, so a waiter whose lock becomes free again and again is served:
  strong fairness of the steps that take a lock, in `Tagesabschluss` and
  `Kassenlade`. In `Ware` weak fairness is enough: only a sale or purchase that
  has written its rows holds them, every request runs once, and so a waiter
  is overtaken finitely often.
* `Ausgang`: disturbances (crashes, logouts, failing statements and requests) end at
  some time, somebody is signed in, a controller goes on with its pass, and one more
  online event arrives. The last is needed: the outbox is drained only at login and on
  that event, and an event during a pass is swallowed.
* `Nachreichen`: the same, and the heartbeat takes all rows that are due again
  and again, as no back-off is longer than a quarter of an hour (strong fairness: a
  pass in progress keeps the next from starting).
* `Leserzahlung`: the server does not end for ever, the till polls, and a cashier
  who waits cancels in the end. Events owe nothing: a lost webhook must not
  keep the till waiting.
* `Aufsicht`: the thread, the window and the clock go on. The engine owes nothing.

## 6. Proofs

Assumptions are those of the modules: ranges of bounds, finiteness, requests of
different kinds are different, the "none" value is no member. All are evaluated by
TLC in the passing runs. Each proof has the same plan: an inductive invariant that adds to
the properties what is true in the middle of requests; one lemma per part or action;
the theorems from it. A refinement takes one lemma per step of the abstract
specification (what the mapped variables do when a detailed step writes this and
leaves that), then one case per detailed action, which cites it or shows that nothing
mapped moves.

* **`TagesabschlussProofs`.** `Induktiv`: the three locks exclude each other
  (`SperrenSchliessenAus`); the chain is ordered and only one transaction
  appends (`KetteGeordnet`); where a receipt books once that is decided, and that
  an inserted receipt's day is not sealed (`VorgangLage`); shifts lie in the past
  (`SchichtLage`); and what a closing has read is *still so* (`AbschlussLage`).
  The last is what the day lock is for: a receipt can only commit on a day whose
  lock it shares, so between a closing's first sum and its commit nothing
  moves, and `ZBonVollstaendig` follows when it writes. `VerfeinertKassenbuch`:
  each step is a step of the book or a stutter.
* **`WareProofs`.** The invariant that carries the argument is `NeuverkaufBleibt`.
  The routes' own checks do not exclude that two returns take back the same piece
  and that it is sold in between; what excludes it is the table: a piece sold out
  of a reservation keeps its stamp, and the `CHECK` refuses the row without
  it being sold or reserved. So only pieces of an earlier sale come back
  (`AltverkaufAllein`), and they come back once. `SperrenGetrennt` says that
  requests holding row locks hold different rows. `VerfeinertEinzelstueck`:
  every commit is a step of the abstract shop. `VerfeinertBelegstelle`: the unique
  index on the key is consulted in the step that commits, so a key without a receipt
  is the only one that gets one; whoever is answered without booking read the
  receipt of his key, which then stays. `NurAltesKommtZurueck` needs one more
  invariant, `UmschlagErklaert`: a stamp on a `SOLD` row is that of a booked sale out
  of a reservation. With it, what the table refuses can be named.
* **`KassenladeProofs`.** `SperreWirkt`: one count has the row and no receipt is on
  its way into the shift; hence `SummeGilt`: what a count has summed is still
  what the books say. `SollStimmt` is the action property that follows at the step
  that closes the shift. `VerfeinertSchichtbuch` maps receipts and movements to
  postings, two movements with one reference to one process; it needs `SchichtDa`,
  that what is on its way names a shift that was opened, and from `SollStimmt`'s
  argument that the sum which is copied is what stands there.
* **`AusgangProofs`.** An answer "ok" is an answer about a booked key
  (`AntwortTraegt`); an intent is closed only behind a row or a receipt
  (`AbsichtGedeckt`); a listening controller has on its list every pending row but
  those behind its last one (`ListeVoran`), and what it has read and is no longer left of
  its list is booked (`ListeErledigt`); together they give `FolgeBleibtGewahrt`.
  `ErhaeltBelegstelle`: a receipt is shown when a row or a dialog is told of it, and
  `AntwortTraegt` says that it is there; a crash, which lets several requests on the wire
  take effect at once and forgets what was shown, is one step of the abstract service.
* **`NachreichenProofs`.** A controller reports only the receipt whose row it
  holds (`MeldetNurGehaltenes`), so an "ok" and every row put away because of it stand for
  a signature at the server (`SignaturTraegt`). `VerfeinertSignaturbuch` needs where a
  signature can come from as well (`NurSigniertes`): while the dialog has not come to
  FINISH there is no row a pass could sign, and whoever holds a signature, on
  disk, in hand, on the wire or at the server, has it from the TSE.
* **`LeserzahlungProofs`.** The provider raises a success only when it charges
  (`EreignisWahr`); so whoever says SUCCEEDED speaks of a charged intent
  (`ErfolgWahr`). A row is inserted once, and whoever inserts it starts the reader
  (`EinStart`). The reader collects only what was shown and is open, and an intent
  that is reported as cancelled is not collected again (`LeserSammelt`): this is what
  `VerfeinertKartenverkauf` needs at a charge, and `NurDerAbbruchVerfehlt` at an
  event that would cancel a charged row.
* **`AufsichtProofs`.** While the thread starts an engine or puts it down the slot holds
  none that runs (`Faden`), so what a start removes is nobody else's. The supervisor's
  clock runs at least as long as the engine, so its counter is never ahead of the
  short runs (`Leiter`).
* **`SicherungProofs`.** The reference count is the number of interested callers
  (`Zaehlung`, an argument about cardinalities), so it reaches zero with the last;
  no reading of the bucket is ahead of the requests that failed (`Spur`).

Every safety and action property of the passing runs is stated by a theorem, and so is
the type correctness of each component, which the runs therefore do not repeat.
Only model-checked: the liveness properties (`AbschlussEndet`, `VorgangEndet`,
`AnfrageWirdBeantwortet`, `KasseAntwortet`, `EingereihtWirdEntschieden`, `ZeileEndet`,
`WartenEndet`, `GibtAuf`), which need fairness and `ENABLED`, and the expected
violations. Two of these have a theorem that says how far the violation goes:
`NurAltesKommtZurueck` for `RuecknahmeGelingt` and `NurDerAbbruchVerfehlt` for
`StornoIstStorniert`.

## 7. Not modelled, and the plan

The map names the lines behind every definition: over four thousand, a small share
of the repository. Most of what remains are screens, label layouts,
exports and device drivers: input and output, or formatting of what is
already booked, without a state that two actors share. What is left that has one:

1. `Pinsperre`: the failure counter under the login's row lock and the step-up's
   unlocked write (`auth-pin.ts:766`).
2. `Gutschein`: redemption, repeated or rolled back after expiry; `Inventur`: a
   stock-taking against sales that go on.
3. Expenses and the opening of shifts in `Tagesabschluss`: both have the window
   of the blind count, a check before the closing commits and a write after it.
4. The count of signed receipts in a Z-Bon, which is read without the day lock that
   recordings do not take; the notice of a late receipt, sent after the commit.
5. The step-up dialog above `Sicherung`, and writes in it.
6. Rows of purchases in the signature queue; refunds in `Leserzahlung`.

A component is "partly" modelled where such a piece is missing; the notes in
`PROJECT.json` say which. Not planned: screens, wording, exports, printing, device drivers,
pure arithmetic that unit tests cover, calendar synchronisation and the mail worker (the last
is not in the repository).
