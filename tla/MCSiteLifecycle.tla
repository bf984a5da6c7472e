---------------------------- MODULE MCSiteLifecycle ----------------------------
(***************************************************************************)
(* What makes and removes sites and what switches their settings, in one   *)
(* run.  SiteLifecycle and SiteState share no variable: a behaviour shows  *)
(* the one chosen at the start while the other stays as it is.  No site    *)
(* and no request of the panel differs from another.                       *)
(***************************************************************************)
EXTENDS SiteLifecycle, SiteState, TLC

VARIABLE part   \* the module that moves

siteVars == <<part, vars, stateVars>>

SitesInit ==
    /\ part \in {"lifecycle", "state"}
    /\ Init /\ StateInit
    /\ part = "lifecycle" => store.map = "none" /\ store.presets = 1
    /\ part = "state" => rt.pools = {}

SitesNext ==
    \/ part = "lifecycle" /\ Next /\ UNCHANGED <<part, stateVars>>
    \/ part = "state" /\ StateNext /\ UNCHANGED <<part, vars>>

SitesSpec == SitesInit /\ [][SitesNext]_siteVars

Alike == Permutations(Sites) \cup Permutations(Requesters)
=============================================================================
