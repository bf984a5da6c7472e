------------------------------- MODULE MCFailover ------------------------------
(***************************************************************************)
(* The automatic failover and the cutover of the public tunnel it calls in *)
(* one run.  Failover has that cutover as one step and TunnelCutover has   *)
(* it call by call; they share no variable, and a behaviour shows the one  *)
(* chosen at the start while the other stays as it is.                     *)
(***************************************************************************)
EXTENDS Failover, TunnelCutover

VARIABLE part   \* the module that moves

allVars == <<part, failoverVars, tunnelVars>>

FailoverInit ==
    /\ part \in {"failover", "tunnel"}
    /\ Init /\ TunnelInit
    /\ part = "failover" => \A h \in Hosts : public.dns[h] = "none"
    /\ part = "tunnel" => policy = "receipt"

FailoverNext ==
    \/ part = "failover" /\ Next /\ UNCHANGED <<part, tunnelVars>>
    \/ part = "tunnel" /\ TunnelNext /\ UNCHANGED <<part, failoverVars>>

FailoverSpec == FailoverInit /\ [][FailoverNext]_allVars
================================================================================
