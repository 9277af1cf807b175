------------------------------- MODULE MCBetrieb -------------------------------
(***************************************************************************)
(* Small instances of what goes on around the receipts all day, in one     *)
(* run: two closings that meet at their locks, the cash drawer, and the    *)
(* supervision of the engine.  They share no variable, so a behaviour is   *)
(* one of one of them, and the others stand still.                         *)
(***************************************************************************)
EXTENDS MCTagesabschluss, MCKassenlade, Aufsicht

VARIABLE teil

MCInit ==
    /\ Init /\ LadeInit /\ AufsichtInit
    /\ teil \in {"abschluss", "lade", "aufsicht"}
    /\ teil # "abschluss" => kette = 0
    /\ waise => teil = "aufsicht"

MCvars == <<teil, vars, ladeVars, aufsichtVars>>

MCNext ==
    /\ UNCHANGED teil
    /\ \/ teil = "abschluss" /\ Next /\ UNCHANGED <<ladeVars, aufsichtVars>>
       \/ teil = "lade" /\ LadeNext /\ UNCHANGED <<vars, aufsichtVars>>
       \/ teil = "lade" /\ UNCHANGED <<vars, ladeVars, aufsichtVars>>  \* all requests may be done
       \/ teil = "aufsicht" /\ AufsichtNext /\ UNCHANGED <<vars, ladeVars>>

\* Receipts have the same names in both parts, and what counts a drawer in one
\* closes the day in the other: a behaviour never leaves its part, so a
\* condition on both is one on each.
BelegSperre(b) ==
    \/ teil = "abschluss" /\ VorgangSperre(b) /\ UNCHANGED ladeVars
    \/ teil = "lade" /\ BelegSchritt(b) /\ UNCHANGED vars

ZaehlSperre(z) ==
    \/ teil = "abschluss" /\ AbschlussSperre(z) /\ UNCHANGED ladeVars
    \/ teil = "lade" /\ SturzSchritt(z) /\ UNCHANGED vars

\* What Fairness, LadeFairSpec and AufsichtFair ask for, each where its component moves.
MCFair ==
    /\ \A p \in Vorgaenge : WF_vars(teil = "abschluss" /\ VorgangSchritt(p))
    /\ \A a \in Abschluesse : WF_vars(teil = "abschluss" /\ AbschlussSchritt(a))
    /\ \A b \in Vorgaenge \cup Kassenbelege : SF_<<vars, ladeVars>>(BelegSperre(b))
    /\ \A z \in Abschluesse \cup Zaehlungen : SF_<<vars, ladeVars>>(ZaehlSperre(z))
    /\ WF_aufsichtVars(teil = "aufsicht" /\ WacheSchritt)
    /\ WF_aufsichtVars(teil = "aufsicht" /\ FrageMotor)
    /\ WF_aufsichtVars(teil = "aufsicht" /\ Vergehe)

MCSpec ==
    /\ MCInit
    /\ [][MCNext]_MCvars
    /\ MCFair

=============================================================================
