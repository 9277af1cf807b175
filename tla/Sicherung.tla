------------------------------- MODULE Sicherung -------------------------------
(***************************************************************************)
(* What stands between a screen of the till and the network when it reads  *)
(* something: the retry, the circuit breaker and the coalescing of equal   *)
(* reads, in the order the till stacks them (api-context.tsx:80-103).      *)
(*                                                                         *)
(* A call passes the circuit breaker once per attempt, and every call that *)
(* passes joins the request under way for its address or starts one.  All  *)
(* addresses here have one route template and so share one bucket of the   *)
(* breaker.  The breaker decides with what it read when the attempt began, *)
(* even if the bucket has changed when the answer comes.                   *)
(*                                                                         *)
(* Abstracted: bodies, the length of pauses and of the cool-down, the      *)
(* telemetry.  Reads only: a write is neither coalesced nor, by default,   *)
(* retried.                                                                *)
(*                                                                         *)
(* An operator X_Y is a faulty variant of X, never used by SicherungSpec.  *)
(***************************************************************************)
EXTENDS Naturals, FiniteSets

CONSTANTS
    Rufe,       \* calls of the screens, each made once
    Adressen,   \* the addresses they read
    Adresse,    \* the address of each call
    Schwelle,   \* CircuitOptions.threshold, 5 in the till
    Anlaeufe    \* RetryOptions.maxAttempts, 3 in the till

ASSUME SicherungAnnahme ==
    /\ IsFiniteSet(Rufe)
    /\ Adresse \in [Rufe -> Adressen]
    /\ Schwelle \in Nat \ {0}
    /\ Anlaeufe \in Nat \ {0}

VARIABLES
    rufstand,   \* where each call stands
    versuch,    \* its attempts so far
    will,       \* its signal is not aborted
    flug,       \* the request under way per address, and whether it was aborted
    bezug,      \* refCount of that request
    gelesen,    \* failures the last call that joined it had read from the bucket
    kreis,      \* the bucket, its failures counted up to Schwelle
    misslungen  \* auxiliary: requests that failed for a waiting call, up to Schwelle

sicherungVars == <<rufstand, versuch, will, flug, bezug, gelesen, kreis, misslungen>>

Ende == {"ok", "fehler", "abgewiesen", "gesperrt", "abgebrochen"}

SicherungTypeOK ==
    /\ rufstand \in [Rufe -> {"frei", "wartet", "pause"} \cup Ende]
    /\ versuch \in [Rufe -> 0 .. Anlaeufe]
    /\ will \in [Rufe -> BOOLEAN]
    /\ flug \in [Adressen -> {"keiner", "laeuft", "abgebrochen"}]
    /\ bezug \in [Adressen -> Nat]
    /\ gelesen \in [Adressen -> 0 .. Schwelle]
    /\ kreis \in [offen : BOOLEAN, abgekuehlt : BOOLEAN, fehler : 0 .. Schwelle]
    /\ misslungen \in 0 .. Schwelle

Geschlossen(n) == [offen |-> FALSE, abgekuehlt |-> FALSE, fehler |-> n]
Geoeffnet == [offen |-> TRUE, abgekuehlt |-> FALSE, fehler |-> Schwelle]

SicherungInit ==
    /\ rufstand = [r \in Rufe |-> "frei"]
    /\ versuch = [r \in Rufe |-> 0]
    /\ will = [r \in Rufe |-> TRUE]
    /\ flug = [u \in Adressen |-> "keiner"]
    /\ bezug = [u \in Adressen |-> 0]
    /\ gelesen = [u \in Adressen |-> 0]
    /\ kreis = Geschlossen(0)
    /\ misslungen = 0

Wartende(u) == {r \in Rufe : Adresse[r] = u /\ rufstand[r] = "wartet"}
Interessenten(u) == {r \in Wartende(u) : will[r]}

\* Inside the cool-down of an open circuit no attempt gets through.  After it
\* every attempt is a probe: there is no half-open state that lets one pass.
Gesperrt == kreis.offen /\ ~kreis.abgekuehlt

-----------------------------------------------------------------------------
\* An attempt the open circuit refuses.  The retry does not repeat it.
WirdGesperrt(r) ==
    /\ rufstand[r] \in {"frei", "pause"}
    /\ Gesperrt
    /\ rufstand' = [rufstand EXCEPT ![r] = "gesperrt"]
    /\ versuch' = [versuch EXCEPT ![r] = @ + 1]
    /\ UNCHANGED <<will, flug, bezug, gelesen, kreis, misslungen>>

\* Variant: who joins a request under way is not counted.
NachBeitritt_OhneZaehler(r, n) == IF will[r] /\ n = 0 THEN 1 ELSE n

\* What one more joiner makes of the count of interested callers.  A caller
\* that was aborted before counts itself in and out again.
NachBeitritt(r, n) == IF will[r] THEN n + 1 ELSE n

\* An attempt: the circuit is read, then the call joins the request for its
\* address or starts it.  If an aborted caller starts it, it is aborted at once.
Versuche(r) ==
    LET u == Adresse[r] IN
    /\ rufstand[r] \in {"frei", "pause"}
    /\ ~Gesperrt
    /\ rufstand' = [rufstand EXCEPT ![r] = IF will[r] THEN "wartet" ELSE "abgebrochen"]
    /\ versuch' = [versuch EXCEPT ![r] = @ + 1]
    /\ flug' = [flug EXCEPT ![u] = IF @ # "keiner" THEN @
                                   ELSE IF will[r] THEN "laeuft" ELSE "abgebrochen"]
    /\ bezug' = [bezug EXCEPT ![u] = NachBeitritt(r, @)]
    /\ gelesen' = IF will[r] THEN [gelesen EXCEPT ![u] = kreis.fehler] ELSE gelesen
    /\ UNCHANGED <<will, kreis, misslungen>>

\* The caller loses interest.  A pause of the retry ends at once; a request
\* under way is aborted when its last interested caller has gone.  The call
\* itself still waits for what becomes of the request.
Breche(r) ==
    LET u == Adresse[r] IN
    /\ will[r]
    /\ will' = [will EXCEPT ![r] = FALSE]
    /\ \/ /\ rufstand[r] = "frei"
          /\ UNCHANGED <<rufstand, flug, bezug>>
       \/ /\ rufstand[r] = "pause"
          /\ rufstand' = [rufstand EXCEPT ![r] = "abgebrochen"]
          /\ UNCHANGED <<flug, bezug>>
       \/ /\ rufstand[r] = "wartet"
          /\ bezug' = [bezug EXCEPT ![u] = @ - 1]
          /\ flug' = [flug EXCEPT ![u] = IF bezug[u] <= 1 THEN "abgebrochen" ELSE @]
          /\ UNCHANGED rufstand
    /\ UNCHANGED <<versuch, gelesen, kreis, misslungen>>

-----------------------------------------------------------------------------
\* The request of address u settles, and its entry is gone.
Erledige(u) ==
    /\ flug[u] # "keiner"
    /\ flug' = [flug EXCEPT ![u] = "keiner"]
    /\ bezug' = [bezug EXCEPT ![u] = 0]
    /\ gelesen' = [gelesen EXCEPT ![u] = 0]
    /\ UNCHANGED <<versuch, will>>

\* The server answers well.  An abort may have come too late to prevent it.
Erfolg(u) ==
    /\ Erledige(u)
    /\ rufstand' = [r \in Rufe |-> IF r \in Wartende(u) THEN "ok" ELSE rufstand[r]]
    /\ kreis' = IF Wartende(u) = {} THEN kreis ELSE Geschlossen(0)
    /\ UNCHANGED misslungen

\* An error that is no sign of distress and is not repeated: what was asked is
\* refused (4xx), or the answer cannot be read.
Abweisung(u) ==
    /\ Erledige(u)
    /\ rufstand' = [r \in Rufe |-> IF r \in Wartende(u) THEN "abgewiesen" ELSE rufstand[r]]
    /\ UNCHANGED <<kreis, misslungen>>

\* What the retry makes of a failure: a call that is aborted, or has used its
\* attempts, or got an answer the retry does not repeat, has failed.
NachFehler(r, wiederholbar) ==
    IF will[r] /\ versuch[r] < Anlaeufe /\ wiederholbar THEN "pause" ELSE "fehler"

\* The failure count a circuit keeps after a failure, and the bucket it gives.
Gezaehlt(n) == IF n < Schwelle THEN n + 1 ELSE Schwelle
Nach(n) == IF n >= Schwelle THEN Geoeffnet ELSE Geschlossen(n)

\* Variant: every waiting call counts on from what the bucket holds by now.
KreisNachFehler_JederZaehlt(u) ==
    LET n == kreis.fehler + Cardinality(Wartende(u)) IN
    Nach(IF n < Schwelle THEN n ELSE Schwelle)

\* The bucket after the request of u has failed.  Every waiting call writes
\* what it had read plus one, in the order they joined: the last one stays.
KreisNachFehler(u) == Nach(Gezaehlt(gelesen[u]))

\* No connection, a timeout, an abort, 429 or 5xx.
Misserfolg(u, wiederholbar) ==
    /\ Erledige(u)
    /\ rufstand' = [r \in Rufe |-> IF r \in Wartende(u) THEN NachFehler(r, wiederholbar)
                                   ELSE rufstand[r]]
    /\ IF Wartende(u) = {}
       THEN UNCHANGED <<kreis, misslungen>>
       ELSE /\ kreis' = KreisNachFehler(u)
            /\ misslungen' = Gezaehlt(misslungen)

\* cooldownMs has passed since the circuit opened.
Kuehle ==
    /\ Gesperrt
    /\ kreis' = [kreis EXCEPT !.abgekuehlt = TRUE]
    /\ UNCHANGED <<rufstand, versuch, will, flug, bezug, gelesen, misslungen>>

SicherungNext ==
    \/ \E r \in Rufe : WirdGesperrt(r) \/ Versuche(r) \/ Breche(r)
    \/ \E u \in Adressen :
          \/ Erfolg(u)
          \/ Abweisung(u)
          \/ \E w \in BOOLEAN : Misserfolg(u, w)
    \/ Kuehle

SicherungSpec == SicherungInit /\ [][SicherungNext]_sicherungVars

-----------------------------------------------------------------------------
\* Panels that share one failing read do not multiply its failure: when the
\* circuit is open, at least Schwelle requests have failed on the wire since the
\* till was started (cancelled ones included, successes in between or not),
\* although each of the calls that shared one passes the breaker and writes
\* the bucket (circuit.ts:83-90 under dedup.ts:54-57).
OffenHeisstSchwelle == kreis.offen => misslungen >= Schwelle

\* A request that others still want is never cancelled: it is aborted only in
\* a step after which no waiting caller is interested (dedup.ts:15-17).
AbbruchNurOhneInteresse ==
    [][\A u \in Adressen :
          flug[u] # "abgebrochen" /\ flug'[u] = "abgebrochen" => Interessenten(u)' = {}]_sicherungVars

=============================================================================
