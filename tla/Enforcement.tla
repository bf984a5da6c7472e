------------------------------ MODULE Enforcement ------------------------------
(***************************************************************************)
(* Billing enforcement in the panel: the entitlement feed and its last     *)
(* known good copy (lib/billing-entitlement-observer.js), the nginx map    *)
(* that redirects suspended sites (lib/billing-enforcement.js), the routes *)
(* of server.js that call them, and the refresh that billing-service       *)
(* requests after a payment (lib/entitlement-refresh.js).                  *)
(*                                                                         *)
(* Each actor does one thing at a time, and a step is what one of them     *)
(* does between two awaits of I/O: the billing service's answer and the    *)
(* reload of nginx.  reconcile returns its promise from inside try, so     *)
(* that its running flag is lowered before the reload is awaited and       *)
(* keeps no two reconciliations apart: there is no such guard here.        *)
(*                                                                         *)
(* Ages are counted in ticks and stop at Stale.                            *)
(***************************************************************************)
EXTENDS Naturals

CONSTANTS
    Sites,       \* local primary sites with a payment_page service
    Observer,    \* the observer's timer
    Watchdog,    \* the minute timer of the enforcement, and its start
    Requests,    \* routes in flight: the operator's and billing's
    MaxAge,      \* maxSnapshotAgeSeconds
    MaxFaults,   \* bound on failed reloads
    MaxCrashes   \* bound on restarts of the panel

ASSUME EnforcementAssumption ==
    /\ MaxAge \in Nat /\ MaxFaults \in Nat /\ MaxCrashes \in Nat
    /\ Observer \notin Requests /\ Watchdog \notin Requests /\ Observer # Watchdog

VARIABLES
    suspended,   \* sites that billing-service counts as suspended
    ago,         \* ago[s] is how long ago billing-service counted s as suspended
    snapshot,    \* billing-entitlements-lkg.json: [blocks, age]
    observing,   \* billing-observer-settings.json: enabled
    settings,    \* billing-enforcement-settings.json: [enabled, pilots]
    file,        \* billing-enforcement.map: the sites it redirects
    live,        \* the sites nginx redirects
    actor,       \* actor[a] is what a is doing
    started,     \* whether the reconciliation at startup was made
    disabled,    \* history: disableAll answered and nothing was enabled since
    faults, crashes

enforcementVars == <<suspended, ago, snapshot, observing, settings, file, live, actor, started,
                     disabled, faults, crashes>>
billing == <<suspended, ago>>
bounds == <<faults, crashes>>

Actors == {Observer, Watchdog} \cup Requests
Stale == MaxAge + 1
Older(age) == IF age < Stale THEN age + 1 ELSE age

Idle == [pc |-> "idle"]
Begin(a, task) == actor[a].pc = "idle" /\ actor' = [actor EXCEPT ![a] = task]

-----------------------------------------------------------------------------
(* The billing service and time                                            *)

Changes ==
    /\ \E s \in Sites :
          /\ suspended' = IF s \in suspended THEN suspended \ {s} ELSE suspended \cup {s}
          /\ ago' = [ago EXCEPT ![s] = 0]
    /\ UNCHANGED <<snapshot, observing, settings, file, live, actor, started, disabled, bounds>>

Aged(task) == IF task.pc = "answered" THEN [task EXCEPT !.age = Older(@)] ELSE task

FeedAges ==
    /\ ago' = [s \in Sites |-> IF s \in suspended THEN 0 ELSE Older(ago[s])]
    /\ snapshot' = [snapshot EXCEPT !.age = Older(@)]
    /\ actor' = [a \in Actors |-> Aged(actor[a])]
    /\ UNCHANGED <<suspended, observing, settings, file, live, started, disabled, bounds>>

-----------------------------------------------------------------------------
(* applyPlan up to its reload.  disables: it is the plan of disableAll.    *)

(* buildPlan.                                                              *)
Plan(view, config) ==
    IF config.enabled /\ view.age <= MaxAge THEN view.blocks \cap config.pilots ELSE {}

Reloads(disables) == [pc |-> "reloading", previous |-> file, disables |-> disables]

Applies(a, plan, disables) ==
    /\ file' = plan
    /\ actor' = [actor EXCEPT ![a] = IF plan = file THEN Idle ELSE Reloads(disables)]
    /\ disabled' = IF plan = file /\ disables THEN TRUE ELSE disabled

Reloaded(a) ==
    /\ actor[a].pc = "reloading"
    /\ live' = file /\ actor' = [actor EXCEPT ![a] = Idle]
    /\ disabled' = (disabled \/ (actor[a].disables /\ ~settings.enabled))
    /\ UNCHANGED <<billing, snapshot, observing, settings, file, started, bounds>>

(* nginx rejects the map, or reloads and its answer is late.               *)
ReloadFails(a) ==
    /\ actor[a].pc = "reloading"
    /\ faults < MaxFaults /\ faults' = faults + 1
    /\ live' \in {live, file}
    /\ file' = actor[a].previous /\ actor' = [actor EXCEPT ![a] = [pc |-> "undoing"]]
    /\ UNCHANGED <<billing, snapshot, observing, settings, started, disabled, crashes>>

Undone(a) ==
    /\ actor[a].pc = "undoing"
    /\ actor' = [actor EXCEPT ![a] = Idle]
    /\ \/ live' = file /\ UNCHANGED faults
       \/ faults < MaxFaults /\ faults' = faults + 1 /\ UNCHANGED live
    /\ UNCHANGED <<billing, snapshot, observing, settings, file, started, disabled, crashes>>

-----------------------------------------------------------------------------
(* reconcile                                                               *)

Reconciles(a) ==
    /\ actor[a].pc = "idle"
    /\ Applies(a, Plan(snapshot, settings), FALSE)
    /\ UNCHANGED <<billing, snapshot, observing, settings, live, bounds>>

(* Mutant: the watchdog does nothing when there is no fresh snapshot.      *)
WatchesFresh ==
    /\ settings.enabled /\ snapshot.age <= MaxAge
    /\ Reconciles(Watchdog) /\ started' = TRUE

Watches ==
    /\ settings.enabled \/ ~started
    /\ Reconciles(Watchdog) /\ started' = TRUE

Asked(a) == a \in Requests /\ Reconciles(a) /\ UNCHANGED started

(* disableAll, and updateSettings with the switch off.                     *)
Disables(a) ==
    /\ a \in Requests /\ actor[a].pc = "idle"
    /\ \E pilots \in SUBSET Sites : settings' = [enabled |-> FALSE, pilots |-> pilots]
    /\ Applies(a, {}, TRUE)
    /\ UNCHANGED <<billing, snapshot, observing, live, started, bounds>>

(* Mutant: enforcement is enabled without scheduled observation.           *)
EnablesBlind ==
    /\ settings' = [enabled |-> TRUE, pilots |-> Sites] /\ disabled' = FALSE
    /\ UNCHANGED <<billing, snapshot, observing, file, live, actor, started, bounds>>

(* updateSettings with the switch on.                                      *)
Enables ==
    /\ observing
    /\ \E pilots \in SUBSET Sites : settings' = [enabled |-> TRUE, pilots |-> pilots]
    /\ disabled' = FALSE
    /\ UNCHANGED <<billing, snapshot, observing, file, live, actor, started, bounds>>

ObserverSwitched ==
    /\ observing' = ~observing
    /\ ~observing' => ~settings.enabled
    /\ UNCHANGED <<billing, snapshot, settings, file, live, actor, started, disabled, bounds>>

-----------------------------------------------------------------------------
(* refresh, by the timer or for a request that reconciles afterwards       *)

Refreshes(a) ==
    /\ a # Watchdog /\ (a = Observer => observing)
    /\ Begin(a, [pc |-> "asking"])
    /\ UNCHANGED <<billing, snapshot, observing, settings, file, live, started, disabled, bounds>>

FeedAnswers(a) ==
    /\ actor[a].pc = "asking"
    /\ actor' = [actor EXCEPT ![a] = [pc |-> "answered", blocks |-> suspended, age |-> 0]]
    /\ UNCHANGED <<billing, snapshot, observing, settings, file, live, started, disabled, bounds>>

(* Mutant: the age of a snapshot counts from when it was stored.           *)
ReceivedFresh(a) == [blocks |-> actor[a].blocks, age |-> 0]

Received(a) == [blocks |-> actor[a].blocks, age |-> actor[a].age]

Stores(a) ==
    /\ actor[a].pc = "answered" /\ actor[a].age <= MaxAge
    /\ snapshot' = Received(a)
    /\ IF a \in Requests /\ settings.enabled
       THEN Applies(a, Plan(snapshot', settings), FALSE)
       ELSE actor' = [actor EXCEPT ![a] = Idle] /\ UNCHANGED <<file, disabled>>
    /\ UNCHANGED <<billing, observing, settings, live, started, bounds>>

(* No answer, or one that is refused; billing-service asks again three     *)
(* times at most.                                                          *)
RefreshFails(a) ==
    /\ actor[a].pc \in {"asking", "answered"}
    /\ actor' = [actor EXCEPT ![a] = Idle]
    /\ UNCHANGED <<billing, snapshot, observing, settings, file, live, started, disabled, bounds>>

-----------------------------------------------------------------------------
(* The panel starts again: files stay, nginx goes on.                      *)
Crashes ==
    /\ crashes < MaxCrashes /\ crashes' = crashes + 1
    /\ actor' = [a \in Actors |-> Idle] /\ started' = FALSE
    /\ UNCHANGED <<billing, snapshot, observing, settings, file, live, disabled, faults>>

(* Any other change of the runtime configuration reloads nginx.            *)
OtherReload ==
    /\ live' = file
    /\ UNCHANGED <<billing, snapshot, observing, settings, file, actor, started, disabled, bounds>>

EnforcementInit ==
    /\ suspended = {} /\ ago = [s \in Sites |-> Stale]
    /\ snapshot = [blocks |-> {}, age |-> Stale]
    /\ observing = FALSE /\ settings = [enabled |-> FALSE, pilots |-> {}]
    /\ file = {} /\ live = {} /\ actor = [a \in Actors |-> Idle]
    /\ started = FALSE /\ disabled = FALSE /\ faults = 0 /\ crashes = 0

Continues(a) ==
    \/ FeedAnswers(a) \/ Stores(a) \/ RefreshFails(a)
    \/ Reloaded(a) \/ ReloadFails(a) \/ Undone(a)

EnforcementNext ==
    \/ Changes \/ FeedAges \/ Watches \/ Enables \/ ObserverSwitched \/ Crashes \/ OtherReload
    \/ \E a \in Actors : Asked(a) \/ Disables(a) \/ Refreshes(a) \/ Continues(a)

EnforcementSpec == EnforcementInit /\ [][EnforcementNext]_enforcementVars

(* The timers of the panel fire, a call ends, the clock advances.  No      *)
(* request and no answer of the billing service is promised.               *)
Fairness ==
    /\ WF_enforcementVars(FeedAges) /\ WF_enforcementVars(Watches)
    /\ WF_enforcementVars(Refreshes(Observer))
    /\ \A a \in Actors : WF_enforcementVars(Continues(a))

EnforcementFairSpec == EnforcementSpec /\ Fairness

-----------------------------------------------------------------------------
(* Properties                                                              *)

Tasks ==
    [pc : {"idle", "asking", "undoing"}]
      \cup [pc : {"answered"}, blocks : SUBSET Sites, age : 0 .. Stale]
      \cup [pc : {"reloading"}, previous : SUBSET Sites, disables : BOOLEAN]

(* Types; enforcement is never enabled without scheduled observation.      *)
EnforcementTypeOK ==
    /\ suspended \subseteq Sites /\ ago \in [Sites -> 0 .. Stale]
    /\ snapshot \in [blocks : SUBSET Sites, age : 0 .. Stale]
    /\ observing \in BOOLEAN /\ settings \in [enabled : BOOLEAN, pilots : SUBSET Sites]
    /\ file \subseteq Sites /\ live \subseteq Sites /\ actor \in [Actors -> Tasks]
    /\ started \in BOOLEAN /\ disabled \in BOOLEAN
    /\ faults \in 0 .. MaxFaults /\ crashes \in 0 .. MaxCrashes
    /\ settings.enabled => observing

(* A site is newly redirected only when billing-service counted it as      *)
(* suspended no longer than the allowed age ago, however late its answer   *)
(* came and whatever restarted; a rollback only returns to what was.       *)
BlocksFresh ==
    [][\A s \in file' \ file :
          \/ s \in suspended \/ ago[s] <= MaxAge
          \/ \E a \in Actors : ReloadFails(a) /\ s \in actor[a].previous]_enforcementVars

(* Unless enforcement is switched off, a site that is paid for leaves the  *)
(* map for good, and so does every site when no answer of the billing      *)
(* service is fresh any more.                                              *)
Restored ==
    \A s \in Sites :
        (\/ <>[](settings.enabled /\ s \notin suspended)
         \/ <>[](settings.enabled /\ snapshot.age = Stale)) => <>[](s \notin file)

(* "Disable and restore all" turns off the switch and immediately empties  *)
(* the map.                                                                *)
DisableEmpties ==
    disabled /\ started /\ (\A a \in Actors : actor[a].pc = "idle") => file = {}
================================================================================
