------------------------------- MODULE MCBackups -------------------------------
(***************************************************************************)
(* The three modules about backup sets in one run.  They share no variable *)
(* and no step of one is a step of another, so that a behaviour shows one  *)
(* of them, chosen at the start, while the others stay as they are.        *)
(***************************************************************************)
EXTENDS SiteBackups, BackupReception, OffsiteBackups

VARIABLE part   \* the module that moves

allVars == <<part, vars, receptionVars, offsiteVars>>

BackupsInit ==
    /\ part \in {"site", "reception", "offsite"}
    /\ Init /\ ReceptionInit /\ OffsiteInit
    /\ part # "site" => retention = 1

BackupsNext ==
    \/ part = "site" /\ Next /\ UNCHANGED <<part, receptionVars, offsiteVars>>
    \/ part = "reception" /\ ReceptionNext /\ UNCHANGED <<part, vars, offsiteVars>>
    \/ part = "offsite" /\ OffsiteNext /\ UNCHANGED <<part, vars, receptionVars>>

BackupsSpec == BackupsInit /\ [][BackupsNext]_allVars
================================================================================
