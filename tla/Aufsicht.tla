------------------------------ MODULE Aufsicht ------------------------------
(***************************************************************************)
(* The shell of the till and its engine.  The shell (Rust) starts the      *)
(* engine as a child process, waits for the line that says it is ready,    *)
(* keeps it in a slot and states where it can be reached; the window asks  *)
(* for that statement until it has an answer.  A supervisor thread looks   *)
(* at the slot every TAKT and restarts an engine that is gone, until it    *)
(* has failed too often too quickly.                                       *)
(*                                                                         *)
(* An engine is a runner and, below it, the PostgreSQL it starts on the    *)
(* data directory.  Killing the runner does not kill the PostgreSQL, and a *)
(* shell that dies kills nothing unless Windows bound its children to it.  *)
(* What is left over (a Waise) is removed by the next engine before it     *)
(* starts a PostgreSQL of its own.                                         *)
(*                                                                         *)
(* Time passes in steps that are long against TAKT and short against the   *)
(* two periods: a supervisor that has something to do does it within the   *)
(* step.                                                                   *)
(*                                                                         *)
(* Abstracted: the reasons of a failed start and their wording, the keys   *)
(* and the release handed to the engine, the longer deadline of the very   *)
(* first start, a poisoned mutex (nothing is touched then), and a runner   *)
(* that outlives its shell while it has not yet reached the data (it       *)
(* reaches them at that moment or never).                                  *)
(*                                                                         *)
(* An operator X_Y is a faulty variant of X, never used by AufsichtSpec.   *)
(***************************************************************************)
EXTENDS Naturals

CONSTANTS
    HoechstensVersuche, \* HOECHSTENS_VERSUCHE
    AlsGelungenNach,    \* ALS_GELUNGEN_NACH, in steps of time
    Wartezeit,          \* WARTEZEIT_WARM, in steps of time
    Anschriften,        \* ports the operating system may hand out
    Stumm               \* no address

ASSUME AufsichtAnnahme ==
    /\ HoechstensVersuche \in Nat \ {0}
    /\ AlsGelungenNach \in Nat \ {0}
    /\ Wartezeit \in Nat \ {0}
    /\ Stumm \notin Anschriften
    /\ {"startet", "fehler", "fragt"} \cap Anschriften = {}

VARIABLES
    rumpf,      \* the shell: runs, closes or is gone
    gebunden,   \* the engine started last dies with the shell
    wache,      \* the thread that starts the engine and then supervises it
    versuche,   \* Lage.versuche; 0 until the first restart
    seit,       \* Aufsicht.seit: time since the last decision to restart
    frist,      \* time the current start has taken
    neu,        \* the child of the current start
    neueAnschrift,  \* what that start returned
    motor,      \* MotorFach.motor
    anschrift,  \* Motor.adresse of the engine in the slot
    stand,      \* MotorFach.stand: startet, fehler or an address
    fenster,    \* what the window has made of it
    waise,      \* a PostgreSQL that nobody holds is on the data directory
    alter,      \* auxiliary: time the engine in the slot has been up
    kurz        \* auxiliary: runs of the engine since the last long one, all short

rumpfVars   == <<rumpf, gebunden>>
startVars   == <<neu, neueAnschrift, frist>>
leiterVars  == <<versuche, seit, kurz>>
fachVars    == <<motor, anschrift, stand>>
aufsichtVars == <<rumpfVars, wache, leiterVars, startVars, fachVars, fenster, waise, alter>>

----------------------------------------------------------------------------
(* The shell *)

AufsichtInit ==
    /\ rumpf = "aus" /\ gebunden = FALSE
    /\ wache = "aus"
    /\ versuche = 0 /\ seit = 0 /\ kurz = 0
    /\ neu = "keiner" /\ neueAnschrift = Stumm /\ frist = 0
    /\ motor = "leer" /\ anschrift = Stumm /\ stand = "startet"
    /\ fenster = "fragt"
    /\ waise \in BOOLEAN  \* an earlier shell may have died hard
    /\ alter = 0

\* starten: the runner is spawned and bound to the shell where that works,
\* or it or its script is not to be found.
Starte ==
    /\ frist' = 0
    /\ neueAnschrift' = Stumm
    /\ \/ neu' = "geboren" /\ wache' = "startet" /\ gebunden' \in BOOLEAN
       \/ neu' = "keiner" /\ wache' = "legtAb" /\ UNCHANGED gebunden

\* Whether a runner that ends leaves its PostgreSQL behind is up to the system.
Uebrig == {waise, TRUE}

OeffneRumpf ==
    /\ rumpf = "aus"
    /\ rumpf' = "laeuft"
    /\ Starte
    /\ UNCHANGED <<leiterVars, fachVars, fenster, waise, alter>>

\* ExitRequested: the engine is taken out of the slot and its runner killed.
SchliesseRumpf ==
    /\ rumpf = "laeuft"
    /\ rumpf' = "schliesst"
    /\ motor' = "leer" /\ anschrift' = Stumm
    /\ waise' \in IF motor = "laeuft" THEN Uebrig ELSE {waise}
    /\ UNCHANGED <<gebunden, wache, leiterVars, startVars, stand, fenster, alter>>

\* Exit, or the shell crashes: its threads are gone, and its memory with them.
\* What is bound dies with it; an orphan of an earlier shell does not.
EndeRumpf ==
    /\ rumpf # "aus"
    /\ rumpf' = "aus" /\ gebunden' = FALSE
    /\ wache' = "aus"
    /\ versuche' = 0 /\ seit' = 0 /\ kurz' = 0 /\ alter' = 0
    /\ neu' = "keiner" /\ neueAnschrift' = Stumm /\ frist' = 0
    /\ motor' = "leer" /\ anschrift' = Stumm /\ stand' = "startet"
    /\ fenster' = "fragt"
    /\ waise' \in CASE gebunden -> {FALSE, waise}
                     [] ~gebunden /\ (motor = "laeuft" \/ neu \in {"geboren", "haelt"}) -> Uebrig
                     [] OTHER -> {waise}

----------------------------------------------------------------------------
(* The engine *)

Startet == rumpf # "aus" /\ wache = "startet"

FahreHoch_OhneErloesen ==
    /\ Startet /\ neu = "geboren"
    /\ neu' = "haelt"
    /\ UNCHANGED <<rumpfVars, wache, leiterVars, neueAnschrift, frist, fachVars, fenster, waise, alter>>

\* The engine removes what an earlier one has left and starts PostgreSQL.
FahreHoch ==
    /\ Startet /\ neu = "geboren"
    /\ neu' = "haelt"
    /\ waise' = FALSE
    /\ UNCHANGED <<rumpfVars, wache, leiterVars, neueAnschrift, frist, fachVars, fenster, alter>>

\* NORNS_BEREIT with the port the system gave it this time.
MeldeBereit ==
    /\ Startet /\ neu = "haelt"
    /\ wache' = "legtAb"
    /\ neueAnschrift' \in Anschriften
    /\ UNCHANGED <<rumpfVars, leiterVars, neu, frist, fachVars, fenster, waise, alter>>

\* The start is over without an engine.
Scheitere ==
    /\ neu' = "keiner" /\ wache' = "legtAb"
    /\ UNCHANGED <<rumpfVars, leiterVars, neueAnschrift, frist, fachVars, fenster, alter>>

\* It hangs up by itself, with or without a reason.
LegeAuf ==
    /\ Startet
    /\ Scheitere
    /\ waise' \in IF neu = "haelt" THEN Uebrig ELSE {waise}

\* It says something that carries no port: nobody kills it.
MeldeUnlesbar ==
    /\ Startet /\ neu = "haelt"
    /\ Scheitere
    /\ waise' = TRUE

\* The deadline kills the runner of a start that is silent.
FristAbgelaufen ==
    /\ Startet /\ frist = Wartezeit
    /\ Scheitere
    /\ waise' \in IF neu = "haelt" THEN Uebrig ELSE {waise}

\* The runner dies; what it started may stay.
Sterbe ==
    /\ \/ /\ motor = "laeuft" /\ motor' = "tot" /\ UNCHANGED neu
       \/ /\ neu = "haelt" /\ wache = "legtAb" /\ neu' = "tot" /\ UNCHANGED motor
    /\ waise' \in Uebrig
    /\ UNCHANGED <<rumpfVars, wache, leiterVars, neueAnschrift, frist, anschrift, stand, fenster, alter>>

----------------------------------------------------------------------------
(* The thread *)

LegeAb ==
    /\ wache = "legtAb"
    /\ motor' = CASE neu = "haelt" -> "laeuft" [] neu = "tot" -> "tot" [] OTHER -> "leer"
    /\ anschrift' = neueAnschrift
    /\ neu' = "keiner"
    /\ wache' = "meldet"
    /\ alter' = 0
    /\ UNCHANGED <<rumpfVars, leiterVars, neueAnschrift, frist, stand, fenster, waise>>

\* After the first start the supervisor is made, and its clock begins.
Melde ==
    /\ wache = "meldet"
    /\ stand' = IF neueAnschrift = Stumm THEN "fehler" ELSE neueAnschrift
    /\ wache' = "schlaeft"
    /\ seit' = IF versuche = 0 THEN 0 ELSE seit
    /\ UNCHANGED <<rumpfVars, versuche, kurz, startVars, motor, anschrift, fenster, waise, alter>>

Lebt_LeerIstFeierabend == motor # "tot"

\* An engine that is gone, and one that never came, are dead alike.
Lebt == motor = "laeuft"

\* Nothing is touched that is alive.
Entscheide ==
    IF seit >= AlsGelungenNach \/ versuche < HoechstensVersuche THEN "NeuStarten" ELSE "Aufgeben"

NachNeustart_OhneRuecksetzen == versuche + 1

NachNeustart == IF seit >= AlsGelungenNach THEN 1 ELSE versuche + 1

\* What has just ended was short, or it was long and the series is over.
Zaehle == kurz' = IF alter >= AlsGelungenNach THEN 0
                  ELSE IF kurz <= HoechstensVersuche THEN kurz + 1 ELSE kurz

BlickNeuStarten ==
    /\ wache = "schlaeft" /\ ~Lebt
    /\ Entscheide = "NeuStarten"
    /\ versuche' = NachNeustart
    /\ seit' = 0
    /\ Starte
    /\ Zaehle /\ alter' = 0
    /\ UNCHANGED <<rumpf, fachVars, fenster, waise>>

BlickAufgeben ==
    /\ wache = "schlaeft" /\ ~Lebt
    /\ Entscheide = "Aufgeben"
    /\ wache' = "aufgegeben"
    /\ stand' = "fehler"
    /\ Zaehle /\ alter' = 0
    /\ UNCHANGED <<rumpfVars, versuche, seit, startVars, motor, anschrift, fenster, waise>>

----------------------------------------------------------------------------
(* The window, and time *)

\* It asks while the answer is "startet", and never again.
FrageMotor ==
    /\ rumpf = "laeuft" /\ fenster = "fragt"
    /\ stand # "startet"
    /\ fenster' = stand
    /\ UNCHANGED <<rumpfVars, wache, leiterVars, startVars, fachVars, waise, alter>>

Hoch(t, grenze) == IF t < grenze THEN t + 1 ELSE t

Vergehe ==
    /\ rumpf = "laeuft"
    /\ \/ wache = "startet" /\ frist < Wartezeit
       \/ wache = "schlaeft" /\ Lebt
    /\ seit' = Hoch(seit, AlsGelungenNach)
    /\ alter' = IF Lebt THEN Hoch(alter, AlsGelungenNach) ELSE alter
    /\ frist' = IF wache = "startet" THEN frist + 1 ELSE frist
    /\ UNCHANGED <<rumpfVars, wache, versuche, kurz, neu, neueAnschrift, fachVars, fenster, waise>>

----------------------------------------------------------------------------
(* Specification *)

WacheSchritt == LegeAb \/ Melde \/ BlickNeuStarten \/ BlickAufgeben \/ FristAbgelaufen

MotorSchritt == FahreHoch \/ MeldeBereit \/ LegeAuf \/ MeldeUnlesbar \/ Sterbe

RumpfSchritt == OeffneRumpf \/ SchliesseRumpf \/ EndeRumpf

AufsichtNext == RumpfSchritt \/ MotorSchritt \/ WacheSchritt \/ FrageMotor \/ Vergehe

\* The thread and the window go on, and so does the clock.  The engine owes
\* nothing, and nobody has to open or close the shell.
AufsichtFair ==
    /\ WF_aufsichtVars(WacheSchritt)
    /\ WF_aufsichtVars(FrageMotor)
    /\ WF_aufsichtVars(Vergehe)

AufsichtSpec == AufsichtInit /\ [][AufsichtNext]_aufsichtVars

AufsichtFairSpec == AufsichtSpec /\ AufsichtFair

----------------------------------------------------------------------------
(* Properties *)

AufsichtTypeOK ==
    /\ rumpf \in {"laeuft", "schliesst", "aus"} /\ gebunden \in BOOLEAN
    /\ wache \in {"startet", "legtAb", "meldet", "schlaeft", "aufgegeben", "aus"}
    /\ versuche \in 0 .. HoechstensVersuche
    /\ seit \in 0 .. AlsGelungenNach
    /\ frist \in 0 .. Wartezeit
    /\ neu \in {"keiner", "geboren", "haelt", "tot"}
    /\ neueAnschrift \in Anschriften \cup {Stumm}
    /\ motor \in {"leer", "laeuft", "tot"}
    /\ anschrift \in Anschriften \cup {Stumm}
    /\ stand \in Anschriften \cup {"startet", "fehler"}
    /\ fenster \in Anschriften \cup {"fragt", "fehler"}
    /\ waise \in BOOLEAN
    /\ alter \in 0 .. AlsGelungenNach
    /\ kurz \in 0 .. HoechstensVersuche + 1

\* The data directory has one master: the engine in the slot, the one being
\* started, or a PostgreSQL left over from an earlier engine or shell, never
\* two of them, whoever was killed, crashed or closed in between.
EinHerr ==
    /\ neu = "haelt" => motor # "laeuft" /\ ~waise
    /\ motor = "laeuft" => ~waise

\* The supervisor gives up only on a series: HoechstensVersuche runs in a row
\* that were all short.  Accidents far apart never add up to one.
AufgabeBegruendet == wache = "aufgegeben" => kurz >= HoechstensVersuche

\* An engine that no longer comes up ends with the supervisor giving up, as
\* long as each start fails by itself before its deadline.
GibtAuf ==
    <>[][~(MeldeBereit \/ FristAbgelaufen)]_aufsichtVars
        => []<>(rumpf # "laeuft") \/ <>[](motor = "laeuft" \/ wache = "aufgegeben")

\* Claim of aufsicht.rs (the engine is restarted silently and the cashier does
\* not feel it): a till that is open talks to the engine that runs.
FensterFindetMotor ==
    rumpf = "laeuft" /\ motor = "laeuft" /\ fenster \in Anschriften
        ~> fenster = anschrift \/ motor # "laeuft" \/ rumpf # "laeuft"

=============================================================================
