------------------------------ MODULE MCWareTeile ------------------------------
(***************************************************************************)
(* Two instances of Ware in one run.  rueckgabe: what an earlier sale has  *)
(* left is returned, reversed, archived and sold again; nothing is bought. *)
(* ankauf: a piece is bought and the till goes on; the earlier sale is     *)
(* left alone.                                                             *)
(***************************************************************************)
EXTENDS MCWare

VARIABLE teil

TeilInit == WareInit /\ teil \in {"rueckgabe", "ankauf"}

TeilNext ==
    /\ WareNext
    /\ UNCHANGED teil
    /\ teil = "ankauf" =>
          /\ UNCHANGED <<stornoVars, rueckVars>>
          /\ \A a \in Verkaeufe \ Altverkauf : korb'[a] \cap Altstuecke = {}
          /\ \A p \in Pflegen : pstueck'[p] \notin Altstuecke
    /\ teil = "rueckgabe" =>
          /\ \A a \in Ankaeufe : UNCHANGED stand[a]
          /\ \A a \in Verkaeufe : korb'[a] \subseteq Bestand \cup Altstuecke
          /\ \A p \in Pflegen : pstueck'[p] \in Bestand \cup Altstuecke \cup {KeinStueck}

TeilSpec == TeilInit /\ [][TeilNext]_<<wareVars, teil>> /\ WareFair

=============================================================================
