-------------------------------- MODULE MCLaden --------------------------------
(***************************************************************************)
(* Small instances of what the receipts and the screens of a day meet in,  *)
(* in one run: the day and its closing, the pieces of stock, and the reads *)
(* of the till on their way to the engine.  They share no variable, so a   *)
(* behaviour is one of one of them, and the others stand still.            *)
(***************************************************************************)
EXTENDS MCTagesabschluss, MCWare, Sicherung

CONSTANTS q1, q2, q3, u1, u2

\* Two calls read one address, the third another with the same template.
MCAdresse == (q1 :> u1) @@ (q2 :> u1) @@ (q3 :> u2)

VARIABLE teil

MCInit ==
    /\ Init /\ WareInit /\ SicherungInit
    /\ teil \in {"tag", "ware", "ruf"}
    /\ teil # "ware" => \A s \in Bestand : zustand[s] = "DRAFT"
    /\ teil # "tag" => kette = 0

MCNext ==
    /\ UNCHANGED teil
    /\ \/ teil = "tag" /\ Next /\ UNCHANGED <<wareVars, sicherungVars>>
       \/ teil = "ware" /\ WareNext /\ UNCHANGED <<vars, sicherungVars>>
       \/ teil = "ruf" /\ SicherungNext /\ UNCHANGED <<vars, wareVars>>
       \/ teil # "tag" /\ UNCHANGED <<vars, wareVars, sicherungVars>>  \* all calls may be done

MCSpec == MCInit /\ [][MCNext]_<<teil, vars, wareVars, sicherungVars>>

MCSymmetrie == Symmetrie \cup WareSymmetrie

=============================================================================
