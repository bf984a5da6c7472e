------------------------------- MODULE Failover -------------------------------
(***************************************************************************)
(* Automatic failover between the writable primary (OPI5 in the docs) and  *)
(* its warm standby (HP): the primary's lease watchdog                     *)
(* (witness-primary-lease.sh, witness-primary-watchdog.sh), the standby's  *)
(* timer-driven automatic-failover.sh with the scripts it calls            *)
(* (request-witness-fence.sh, activate-standby.sh, promote-standby.sh, the *)
(* tunnel cutover), the peer fence of a former primary                     *)
(* (fence-former-primary.sh), and the witness between them.  Every message *)
(* may be lost, every call of Docker or of an API may fail, and either     *)
(* host may lose power between any two steps.                              *)
(*                                                                         *)
(* A tick is the shortest time that matters: the period of the watchdog.   *)
(* Script runs under their systemd unit or flock, so each host has one run *)
(* at a time, whose step is in dog and pc.                                 *)
(***************************************************************************)
EXTENDS Witness

CONSTANTS
    Primary,      \* the identity in the primary's role.json
    Period,       \* ticks between two runs of the watchdog
    RunTime,      \* ticks one run of the watchdog may take
    Grace,        \* AUTO_FAILOVER_UNREACHABLE_GRACE_SECONDS in ticks
    Threshold,    \* AUTO_FAILOVER_FAILURES
    MaxFaults,    \* bound: failures of a step of the standby
    MaxCrashes    \* bound: power losses, both hosts together

ASSUME FailoverAssumption ==
    /\ Primary \in Servers
    /\ Period \in Nat \ {0} /\ RunTime \in Nat /\ Grace \in Nat
    /\ Threshold \in Nat \ {0} /\ MaxFaults \in Nat /\ MaxCrashes \in Nat

VARIABLES
    policy,    \* AUTO_FAILOVER_FENCE_POLICY
    opi5,      \* the primary:
               \*   up, boot      power, and when it last came on
               \*   running       its containers: "all", "none", or "always" for
               \*                 those whose restart policy survives docker stop
               \*   stopped       they were stopped with docker stop
               \*   timer         hosting-witness-primary.timer is enabled
               \*   lease         leaseExpiresAt in witness-primary-state.json
               \*   dog, at       the watchdog's step, and when its last run began
               \*   answer        the lease in the answer being read
    hp,        \* the standby:
               \*   up, role      power, and role.json
               \*   pc, rec       the step of automatic-failover.sh and the recovery_id it
               \*                 read, 0 when it started as a promoted primary
               \*   answer        the expiry of the receipt being read
               \*   promotion     recovery_id of promotion-state.json, 0 without the file
               \*   ingress       its public_ingress_cutover
               \*   cutover       status of tunnel-cutover.json
               \*   status, failures, since    automatic-failover-state.json
    receipt,   \* primary-fence-receipt.json: [recovery, expires], recovery 0 without the file
    dumps,     \* recovery points on the standby, 0 for none:
               \*   synced        the newest synchronized dump
               \*   preparing     the one a run of prepare-warm-standby.sh has read
               \*   prepared      app_data_id of standby-recovery.json
    faults, crashes,
    promotedAt \* history: when HP's role became primary, 0 if it is not

standbyVars == <<hp, receipt, faults, promotedAt>>
failoverVars == <<witnessVars, policy, opi5, standbyVars, dumps, crashes>>

-----------------------------------------------------------------------------
(* The primary's watchdog.                                                 *)

(* The next run of an enabled timer, or the end of a run, is due.          *)
Due == opi5.at + (IF opi5.dog = "idle" THEN Period ELSE RunTime) <= now
Urgent == opi5.up /\ (opi5.timer \/ opi5.dog # "idle") /\ Due

(* Mutant: the margin of one more lease before the primary stops.          *)
LeaseOverLate == opi5.lease + LeaseTTL <= now

(* The last lease that was saved has run out.                              *)
LeaseOver == opi5.lease <= now

Dog(step) == opi5' = [opi5 EXCEPT !.dog = step, !.answer = 0]
Stopped(dog) == [opi5 EXCEPT !.dog = dog, !.running = "none", !.stopped = TRUE]
Elsewhere == UNCHANGED <<policy, standbyVars, dumps, crashes>>
OnlyOpi5 == Elsewhere /\ UNCHANGED witnessVars

(* The timer starts the watchdog, which sends a lease request.             *)
WatchdogStarts ==
    /\ opi5.dog = "idle" /\ Urgent
    /\ opi5' = [opi5 EXCEPT !.dog = "asking", !.at = now]
    /\ OnlyOpi5

(* The witness answers the request.                                        *)
LeaseGranted ==
    /\ opi5.dog = "asking"
    /\ Lease(Primary)
    /\ opi5' = [opi5 EXCEPT !.dog = "answered", !.answer = now + LeaseTTL]
    /\ Elsewhere

(* It is refused, or the request or its answer is lost, or curl times out. *)
LeaseFails ==
    /\ opi5.dog \in {"asking", "answered"}
    /\ Dog("failed")
    /\ OnlyOpi5

(* An answer that is not expired on arrival replaces the state file.       *)
LeaseSaved ==
    /\ opi5.dog = "answered" /\ opi5.answer > now
    /\ opi5' = [opi5 EXCEPT !.dog = "idle", !.lease = opi5.answer, !.answer = 0]
    /\ OnlyOpi5

(* The saved lease still runs: the run ends and the timer tries again.     *)
WatchdogWaits ==
    /\ opi5.dog = "failed" /\ ~LeaseOver
    /\ Dog("idle")
    /\ OnlyOpi5

(* The saved lease has expired: the watchdog disables its own timer ...    *)
WatchdogDisarms ==
    /\ opi5.dog = "failed" /\ LeaseOver
    /\ opi5' = [opi5 EXCEPT !.dog = "disarmed", !.timer = FALSE]
    /\ OnlyOpi5

(* ... and stops the writable containers,                                  *)
SelfFences ==
    /\ opi5.dog = "disarmed"
    /\ opi5' = Stopped("idle")
    /\ OnlyOpi5

(* unless Docker leaves one of them running: the run fails.                *)
SelfFenceFails ==
    /\ opi5.dog = "disarmed" /\ opi5.running # "none"
    /\ faults < MaxFaults /\ faults' = faults + 1
    /\ Dog("idle")
    /\ UNCHANGED <<witnessVars, policy, hp, receipt, promotedAt, dumps, crashes>>

(* Mutant: only a promotion under a fencing receipt is believed.           *)
PromotedFencedOnly == {"promoted"}

PromotedStatus == {"promoted", "promoted-unreachable"}

(* fence-former-primary.sh: HP's panel answers, as a primary whose         *)
(* failover ended in promotion; the writable containers are stopped.  A    *)
(* docker stop that fails is tried again by the next run.                  *)
PeerFences ==
    /\ opi5.up /\ opi5.running # "none"
    /\ hp.up /\ hp.role = "primary" /\ hp.status \in PromotedStatus
    /\ opi5' = Stopped(opi5.dog)
    /\ OnlyOpi5

Opi5Loses ==
    /\ opi5.up /\ crashes < MaxCrashes
    /\ crashes' = crashes + 1
    /\ opi5' = [opi5 EXCEPT !.up = FALSE, !.dog = "idle", !.answer = 0]
    /\ UNCHANGED <<witnessVars, policy, standbyVars, dumps>>

(* Docker starts every container that was not stopped by hand, and of      *)
(* those that were the database and phpMyAdmin, whose policy is "always";  *)
(* an enabled timer fires shortly after boot (OnBootSec).                  *)
Opi5Boots ==
    /\ ~opi5.up
    /\ opi5' = [opi5 EXCEPT !.up = TRUE, !.boot = now, !.at = now,
                            !.running = IF opi5.stopped THEN "always" ELSE "all"]
    /\ OnlyOpi5

-----------------------------------------------------------------------------
(* Replication to the standby.                                             *)

(* promote-standby.sh stops hosting-sync.                                  *)
Syncing == hp.up /\ hp.role = "standby" /\ hp.pc # "starting"

OnlyDumps == UNCHANGED <<witnessVars, policy, opi5, standbyVars, crashes>>

(* The primary publishes a dump and it is synchronized to the standby.     *)
DumpArrives ==
    /\ opi5.up /\ opi5.running = "all" /\ Syncing
    /\ dumps.synced < MaxRecovery
    /\ dumps' = [dumps EXCEPT !.synced = @ + 1]
    /\ OnlyDumps

(* The finalizer's prepare-warm-standby.sh verifies the newest dump; it    *)
(* takes no lock, and stage-standby-database.sh before it succeeds without *)
(* one.                                                                    *)
PrepareReads ==
    /\ Syncing /\ dumps.preparing = 0 /\ dumps.prepared # dumps.synced
    /\ dumps' = [dumps EXCEPT !.preparing = dumps.synced]
    /\ OnlyDumps

(* It writes the marker, whatever the role is by then.                     *)
PrepareWrites ==
    /\ hp.up /\ dumps.preparing # 0
    /\ dumps' = [dumps EXCEPT !.preparing = 0, !.prepared = dumps.preparing]
    /\ OnlyDumps

-----------------------------------------------------------------------------
(* The standby's automatic-failover.sh.                                    *)

OnlyStandby == UNCHANGED <<witnessVars, policy, opi5, dumps, crashes>>
NoFault == UNCHANGED <<receipt, faults, promotedAt>> /\ OnlyStandby
Fault ==
    /\ faults < MaxFaults /\ faults' = faults + 1
    /\ UNCHANGED receipt /\ OnlyStandby
KeepsRole == UNCHANGED promotedAt

(* The run ends with this status.                                          *)
Ended(status) == [hp EXCEPT !.pc = "idle", !.rec = 0, !.answer = 0, !.status = status]
At(step) == [hp EXCEPT !.pc = step]

StandbyRuns == hp.up /\ hp.pc = "idle" /\ hp.role = "standby"
PrimaryRuns == hp.up /\ hp.pc = "idle" /\ hp.role = "primary" /\ hp.promotion # 0

NoReceipt == [recovery |-> 0, expires |-> 0]

(* Mutant: any fresh receipt will do.                                      *)
ValidForAny(r) == receipt.recovery # 0 /\ receipt.expires >= now

(* valid_fence_receipt                                                     *)
Valid(r) == receipt.recovery = r /\ receipt.expires >= now

(* The primary's health, or a connection to its Syncthing, is seen.        *)
HpHealthy ==
    /\ StandbyRuns /\ opi5.up /\ opi5.running = "all"
    /\ hp' = [Ended("healthy") EXCEPT !.failures = 0, !.since = 0]
    /\ NoFault

(* Neither is seen, for whatever reason.                                   *)
HpUnreachable ==
    /\ StandbyRuns
    /\ LET seen == IF hp.failures < Threshold THEN hp.failures + 1 ELSE Threshold
       IN hp' = [hp EXCEPT !.status = "primary-unreachable", !.failures = seen,
                           !.since = IF hp.since = 0 THEN now ELSE hp.since,
                           !.pc = IF seen = Threshold THEN "ready" ELSE "idle"]
    /\ NoFault

(* Not prepared, or the sync, the age of the recovery point or the host    *)
(* qualification stops the run.                                            *)
HpBlocked ==
    /\ hp.pc = "ready"
    /\ hp' = Ended("blocked")
    /\ IF dumps.prepared = 0 THEN NoFault ELSE Fault /\ KeepsRole

(* Policy receipt: a receipt for the prepared recovery point is at hand,   *)
(* or the witness is asked for one.                                        *)
HpChecksReceipt ==
    /\ hp.pc = "ready" /\ dumps.prepared # 0 /\ policy = "receipt"
    /\ hp' = IF Valid(dumps.prepared)
             THEN [At("activating") EXCEPT !.rec = dumps.prepared, !.status = "activating"]
             ELSE [At("asking") EXCEPT !.rec = dumps.prepared]
    /\ NoFault

(* Policy unreachable: the primary has been unreachable for long enough,   *)
(* or not yet.                                                             *)
HpChecksGrace ==
    /\ hp.pc = "ready" /\ dumps.prepared # 0 /\ policy = "unreachable"
    /\ hp' = IF now >= hp.since + Grace
             THEN [At("activating") EXCEPT !.rec = dumps.prepared, !.status = "activating"]
             ELSE Ended("awaiting-grace")
    /\ NoFault

(* The witness grants the receipt.                                         *)
HpFences ==
    /\ hp.pc = "asking"
    /\ Fence(Primary, hp.rec)
    /\ hp' = [At("granted") EXCEPT !.answer = now + ReceiptTTL]
    /\ UNCHANGED <<policy, opi5, receipt, dumps, faults, crashes, promotedAt>>

(* It refuses, or the request or the answer is lost.                       *)
HpNotFenced ==
    /\ hp.pc \in {"asking", "granted"}
    /\ hp' = Ended("awaiting-fence")
    /\ NoFault

(* A receipt that has not expired on arrival is saved, and is valid.       *)
HpSavesReceipt ==
    /\ hp.pc = "granted" /\ hp.answer > now
    /\ receipt' = [recovery |-> hp.rec, expires |-> hp.answer]
    /\ hp' = [At("activating") EXCEPT !.status = "activating", !.answer = 0]
    /\ UNCHANGED <<faults, promotedAt>> /\ OnlyStandby

(* activate-standby.sh, preview and apply, up to the end of the checks of  *)
(* promote-standby.sh: the recovery point asked for is the prepared one    *)
(* and the newest one.                                                     *)
Promotable == hp.rec = dumps.prepared /\ hp.rec = dumps.synced

HpVerifies ==
    /\ hp.pc = "activating" /\ Promotable
    /\ hp' = At("verified")
    /\ NoFault

HpNotPromotable ==
    /\ hp.pc = "activating"
    /\ hp' = Ended("preview-failed")
    /\ IF Promotable THEN Fault /\ KeepsRole ELSE NoFault

(* Synchronization is stopped and the runtime is started;                  *)
HpStarts ==
    /\ hp.pc = "verified"
    /\ hp' = At("starting")
    /\ NoFault

(* the role marker is replaced and the panel restarted;                    *)
HpRenames ==
    /\ hp.pc = "starting"
    /\ hp' = [At("renamed") EXCEPT !.role = "primary"]
    /\ promotedAt' = now
    /\ UNCHANGED <<receipt, faults>> /\ OnlyStandby

(* a step that fails before the promotion marker restores the standby.     *)
HpPromotionFails ==
    /\ hp.pc \in {"verified", "starting", "renamed"}
    /\ hp' = [Ended("activation-failed") EXCEPT !.role = "standby"]
    /\ promotedAt' = 0
    /\ Fault

(* The promotion marker is written.                                        *)
HpMarks ==
    /\ hp.pc = "renamed"
    /\ hp' = [At("planning") EXCEPT !.promotion = hp.rec, !.ingress = FALSE]
    /\ NoFault

(* The tunnel cutover: a rolled-back state is archived, the plan is made   *)
(* and the state file written as "applying";                               *)
HpCutoverStarts ==
    /\ hp.pc = "planning"
    /\ hp' = [At("cutting") EXCEPT !.cutover = "applying"]
    /\ NoFault

HpPlanFails ==
    /\ hp.pc = "planning"
    /\ \E left \in {"none", hp.cutover} :
           hp' = [Ended("activation-failed") EXCEPT !.cutover = left]
    /\ Fault /\ KeepsRole

(* the tunnel and DNS are changed and verified, and the state is "active"; *)
HpCutoverActive ==
    /\ hp.pc = "cutting"
    /\ hp' = [At("flagging") EXCEPT !.cutover = "active"]
    /\ NoFault

(* the promotion marker says so;                                           *)
HpFlags ==
    /\ hp.pc = "flagging"
    /\ hp' = [At("done") EXCEPT !.ingress = TRUE]
    /\ NoFault

(* a failure of any of these steps is rolled back, which may fail too.     *)
HpCutoverFails ==
    /\ hp.pc \in {"cutting", "flagging"}
    /\ \E left \in {"rolled-back", "rollback-failed"} :
           hp' = [Ended("activation-failed") EXCEPT !.cutover = left]
    /\ Fault /\ KeepsRole

(* write_promoted_state                                                    *)
WritesPromoted(promoted) ==
    [promoted EXCEPT !.failures = 0,
                     !.status = IF policy = "receipt" THEN "promoted" ELSE "promoted-unreachable"]

(* The run that promoted also removes the receipt.                         *)
HpFinishes ==
    /\ hp.pc = "done"
    /\ hp' = WritesPromoted(Ended(hp.status))
    /\ receipt' = IF hp.rec = 0 THEN receipt ELSE NoReceipt
    /\ UNCHANGED <<faults, promotedAt>> /\ OnlyStandby

-----------------------------------------------------------------------------
(* Later runs of the promoted primary.                                     *)

(* Mutant: the promotion marker is enough.                                 *)
SeenMarked == hp.promotion # 0

(* The cutover receipt of a matching promotion is active.                  *)
SeenActive == hp.cutover = "active"

HpRepairs ==
    /\ PrimaryRuns /\ SeenActive
    /\ hp' = WritesPromoted([hp EXCEPT !.ingress = TRUE])
    /\ NoFault

(* Mutant: a cutover that left a state file is never tried again.          *)
RetryableFresh == hp.cutover = "none"

Retryable == hp.cutover \in {"none", "rolled-back"}

(* Only the cutover is tried again, for the prepared recovery point.       *)
HpRetries ==
    /\ PrimaryRuns /\ ~SeenActive /\ ~hp.ingress
    /\ dumps.prepared = hp.promotion /\ Retryable
    /\ hp' = [At("planning") EXCEPT !.rec = 0, !.status = "activating"]
    /\ NoFault

HpRetryBlocked ==
    /\ PrimaryRuns /\ ~SeenActive /\ ~hp.ingress
    /\ \/ dumps.prepared # hp.promotion /\ hp' = Ended("blocked") /\ NoFault
       \/ dumps.prepared = hp.promotion /\ ~Retryable
          /\ hp' = Ended("activation-failed") /\ NoFault
       \/ dumps.prepared = hp.promotion /\ hp' = Ended("blocked") /\ Fault /\ KeepsRole

-----------------------------------------------------------------------------
HpLoses ==
    /\ hp.up /\ crashes < MaxCrashes
    /\ crashes' = crashes + 1
    /\ hp' = [Ended(hp.status) EXCEPT !.up = FALSE]
    /\ dumps' = [dumps EXCEPT !.preparing = 0]
    /\ UNCHANGED <<witnessVars, policy, opi5, receipt, faults, promotedAt>>

HpBoots ==
    /\ ~hp.up
    /\ hp' = [hp EXCEPT !.up = TRUE]
    /\ NoFault

(* No tick passes a run of the watchdog, or its end, that is due.          *)
Time ==
    /\ Tick /\ ~Urgent
    /\ UNCHANGED <<policy, opi5, standbyVars, dumps, crashes>>

(* The watchdog was installed with a first lease, and HP as a standby that *)
(* has a first recovery point or none.                                     *)
Init ==
    /\ now = 1
    /\ witness = Leased(Primary) /\ promised = now + LeaseTTL /\ receipts = {}
    /\ policy \in {"receipt", "unreachable"}
    /\ opi5 = [up |-> TRUE, boot |-> now, running |-> "all", stopped |-> FALSE, timer |-> TRUE,
               lease |-> now + LeaseTTL, dog |-> "idle", at |-> now, answer |-> 0]
    /\ hp = [up |-> TRUE, role |-> "standby", pc |-> "idle", rec |-> 0, answer |-> 0,
             promotion |-> 0, ingress |-> FALSE, cutover |-> "none",
             status |-> "healthy", failures |-> 0, since |-> 0]
    /\ receipt = NoReceipt
    /\ dumps = [synced |-> 0, preparing |-> 0, prepared |-> 0]
    /\ faults = 0 /\ crashes = 0 /\ promotedAt = 0

WatchdogStep ==
    \/ WatchdogStarts \/ LeaseGranted \/ LeaseFails \/ LeaseSaved \/ WatchdogWaits
    \/ WatchdogDisarms \/ SelfFences \/ SelfFenceFails

Prepares == PrepareReads \/ PrepareWrites

StandbyStep ==
    \/ HpHealthy \/ HpUnreachable \/ HpBlocked \/ HpChecksReceipt \/ HpChecksGrace
    \/ HpFences \/ HpNotFenced \/ HpSavesReceipt \/ HpVerifies \/ HpNotPromotable
    \/ HpStarts \/ HpRenames \/ HpPromotionFails \/ HpMarks \/ HpCutoverStarts \/ HpPlanFails
    \/ HpCutoverActive \/ HpFlags \/ HpCutoverFails \/ HpFinishes
    \/ HpRepairs \/ HpRetries \/ HpRetryBlocked

Next ==
    \/ WatchdogStep \/ PeerFences \/ Opi5Loses \/ Opi5Boots
    \/ DumpArrives \/ Prepares
    \/ StandbyStep \/ HpLoses \/ HpBoots
    \/ Time

(* Timers restart the scripts and a script that runs ends; a request the   *)
(* witness would grant again and again is answered once.                   *)
Fairness ==
    /\ WF_failoverVars(WatchdogStep) /\ WF_failoverVars(PeerFences)
    /\ WF_failoverVars(StandbyStep) /\ WF_failoverVars(HpBoots)
    /\ SF_failoverVars(PrepareReads) /\ WF_failoverVars(PrepareWrites)
    /\ SF_failoverVars(HpFences) /\ SF_failoverVars(HpSavesReceipt)

Spec == Init /\ [][Next]_failoverVars /\ Fairness

-----------------------------------------------------------------------------
FailoverTypeOK ==
    /\ WitnessTypeOK
    /\ policy \in {"receipt", "unreachable"}
    /\ opi5 \in [up : BOOLEAN, boot : Nat, running : {"all", "always", "none"},
                 stopped : BOOLEAN, timer : BOOLEAN, lease : Nat,
                 dog : {"idle", "asking", "answered", "failed", "disarmed"},
                 at : Nat, answer : Nat]
    /\ hp \in [up : BOOLEAN, role : {"standby", "primary"},
               pc : {"idle", "ready", "asking", "granted", "activating", "verified", "starting",
                     "renamed", "planning", "cutting", "flagging", "done"},
               rec : {0} \cup Recoveries, answer : Nat, promotion : {0} \cup Recoveries,
               ingress : BOOLEAN,
               cutover : {"none", "applying", "active", "rolled-back", "rollback-failed"},
               status : {"healthy", "primary-unreachable", "blocked", "awaiting-fence",
                         "awaiting-grace", "activating", "preview-failed",
                         "activation-failed"} \cup PromotedStatus,
               failures : 0 .. Threshold, since : Nat]
    /\ receipt \in [recovery : {0} \cup Recoveries, expires : Nat]
    /\ dumps \in [synced : {0} \cup Recoveries, preparing : {0} \cup Recoveries,
                  prepared : {0} \cup Recoveries]
    /\ faults \in 0 .. MaxFaults /\ crashes \in 0 .. MaxCrashes /\ promotedAt \in Nat

BothWritable == hp.role = "primary" /\ opi5.up /\ opi5.running = "all"

(* Under the receipt policy HP is a primary only by a receipt the witness  *)
(* granted before, and one for the recovery point it was promoted from.    *)
PromotionFenced ==
    policy = "receipt" /\ hp.role = "primary" =>
        \E c \in receipts : /\ c.fencedAt <= promotedAt
                            /\ hp.promotion \in {0, c.recovery}

(* "This protects the normal network-partition path only when the OPI5     *)
(* watchdog is installed and healthy" (docs/HIGH_AVAILABILITY.md): while   *)
(* the watchdog is armed, or has not yet failed to stop the containers,    *)
(* both hosts are writable no longer than one period and one run of it,    *)
(* counted from HP's promotion or from the boot of the former primary.     *)
OverlapBounded ==
    policy = "receipt" /\ BothWritable /\ (opi5.timer \/ opi5.dog = "disarmed") =>
        \E from \in {promotedAt, opi5.boot} : now <= from + Period + RunTime

(* The status former primaries act on: promoted is only ever reported by a *)
(* primary whose promotion marker is written and whose public cutover is   *)
(* active, whatever was interrupted before.                                *)
PromotedIsTrue ==
    hp.status \in PromotedStatus =>
        hp.role = "primary" /\ hp.promotion # 0 /\ hp.cutover = "active" /\ hp.ingress

(* The ways a failover stops for good without an operator: HP lost power   *)
(* between the role and the promotion marker, the state of the public      *)
(* cutover is unknown, a newer recovery point was prepared while promoting *)
(* the older one, the one receipt for the recovery point is gone, or none  *)
(* was ever prepared.                                                      *)
Interrupted == hp.role = "primary" /\ hp.promotion = 0
Uncertain == hp.cutover \in {"applying", "rollback-failed"}
Overtaken == hp.promotion # 0 /\ dumps.prepared # hp.promotion
Spent ==
    /\ policy = "receipt" /\ hp.role = "standby"
    /\ ~Valid(dumps.prepared) /\ witness.last >= dumps.prepared
Unprepared == dumps.synced = 0

(* The primary stays off, its lease is over and so is the grace time.      *)
Gone == ~opi5.up /\ witness.lease <= now /\ hp.since # 0 /\ now >= hp.since + Grace

(* A primary that is gone for good is replaced: HP ends up promoted, or in *)
(* one of the named states that wait for an operator.                      *)
FailoverSettles ==
    <>[]Gone => <>[](\/ hp.status \in PromotedStatus
                     \/ Interrupted \/ Uncertain \/ Overtaken \/ Spent \/ Unprepared)

(* Two writable hosts do not stay so, whichever policy promoted HP, unless *)
(* its own failover is stuck: a former primary that is back, with or       *)
(* without its watchdog, is fenced by HP's reported promotion.             *)
SplitBrainEnds == <>[]BothWritable => <>[](Interrupted \/ Uncertain \/ Overtaken)

(* "If it cannot renew before expiry, it stops writable/public hosting     *)
(* services" (docs/OPERATIONS.md).                                         *)
ExpiredLeaseStops ==
    opi5.up /\ opi5.running = "all" =>
        \E from \in {opi5.lease, opi5.boot} : now <= from + Period + RunTime
=============================================================================
