----------------------------- MODULE FailoverProofs -----------------------------
(***************************************************************************)
(* Proofs about the fencing witness, the automatic failover that asks it   *)
(* and the cutover of the public tunnel that ends it: for any lengths of   *)
(* leases, receipts, periods and runs, any thresholds, any number of       *)
(* hosts, recovery points, commands, failures, power losses and deaths.    *)
(*                                                                         *)
(* The three stay modules of their own; they share this one because a      *)
(* failover step is a witness step or none (FencedSystem), and because the *)
(* cutover is the last step of a promotion.                                *)
(***************************************************************************)
EXTENDS Failover, TunnelCutover, TLAPS

(***************************************************************************)
(* The witness, for any set of identities                                  *)
(***************************************************************************)

(* FencedOutlivesLease is not inductive: a reset clears the stored lease,  *)
(* so what is known of the leases promised before is kept beside it.       *)
PromiseKept == promised <= witness.lease \/ promised <= now
PastReceipts == \A c \in receipts : c.fencedAt <= now

WitnessInv == WitnessTypeOK /\ FencedOutlivesLease /\ PromiseKept /\ PastReceipts

LEMMA WitnessInitially == WitnessInit => WitnessInv
BY WitnessAssumption
   DEF WitnessInit, WitnessInv, WitnessTypeOK, FencedOutlivesLease, PromiseKept, PastReceipts,
       Recoveries

LEMMA LeaseKeeps == ASSUME WitnessInv, NEW s \in Servers, Lease(s) PROVE WitnessInv'
<1> USE WitnessAssumption DEF WitnessInv, Lease, Leased
<1>1. WitnessTypeOK'
  BY DEF WitnessTypeOK, Recoveries
<1>2. FencedOutlivesLease'
  BY DEF FencedOutlivesLease
<1>3. PromiseKept'
  BY DEF PromiseKept, WitnessTypeOK
<1>4. PastReceipts'
  BY DEF PastReceipts
<1> QED
  BY <1>1, <1>2, <1>3, <1>4

LEMMA FenceKeeps ==
    ASSUME WitnessInv, NEW s \in Servers, NEW r \in Recoveries, Fence(s, r)
    PROVE WitnessInv'
<1> DEFINE c == [recovery |-> r, fencedAt |-> now]
<1> USE WitnessAssumption DEF WitnessInv, Fence, Fenced, MayFence
<1>1. WitnessTypeOK'
  <2>1. witness' = [owner |-> s, lease |-> witness.lease, fenced |-> TRUE, last |-> r]
    BY DEF WitnessTypeOK
  <2>2. c \in [recovery : Recoveries, fencedAt : Nat]
    BY DEF WitnessTypeOK
  <2>3. receipts' \subseteq [recovery : Recoveries, fencedAt : Nat]
    BY <2>2 DEF WitnessTypeOK
  <2> QED
    BY <2>1, <2>3 DEF WitnessTypeOK
<1>2. promised <= now
  BY DEF PromiseKept, WitnessTypeOK
<1>3. witness.last' = r /\ c \in receipts'
  BY DEF WitnessTypeOK
<1>4. FencedOutlivesLease'
  BY <1>2, <1>3 DEF FencedOutlivesLease
<1>5. PromiseKept'
  BY <1>2 DEF PromiseKept
<1>6. PastReceipts'
  BY DEF PastReceipts, WitnessTypeOK
<1> QED
  BY <1>1, <1>4, <1>5, <1>6

LEMMA ResetKeeps == ASSUME WitnessInv, NEW s \in Servers, Reset(s) PROVE WitnessInv'
<1> USE WitnessAssumption DEF WitnessInv, Reset, Cleared
<1>1. WitnessTypeOK'
  BY DEF WitnessTypeOK, Recoveries
<1>2. PICK c \in receipts : promised <= c.fencedAt
  BY DEF FencedOutlivesLease
<1>3. promised <= now
  BY <1>2 DEF PastReceipts, WitnessTypeOK
<1>4. FencedOutlivesLease' /\ PromiseKept' /\ PastReceipts'
  BY <1>3 DEF FencedOutlivesLease, PromiseKept, PastReceipts
<1> QED
  BY <1>1, <1>4

LEMMA TickKeeps == ASSUME WitnessInv, Tick PROVE WitnessInv'
BY WitnessAssumption
   DEF WitnessInv, Tick, WitnessTypeOK, FencedOutlivesLease, PromiseKept, PastReceipts

LEMMA WitnessStep == WitnessInv /\ [WitnessNext]_witnessVars => WitnessInv'
<1> SUFFICES ASSUME WitnessInv, [WitnessNext]_witnessVars PROVE WitnessInv'
  OBVIOUS
<1>1. ASSUME NEW s \in Servers, Lease(s) PROVE WitnessInv'
  BY <1>1, LeaseKeeps
<1>2. ASSUME NEW s \in Servers, Reset(s) PROVE WitnessInv'
  BY <1>2, ResetKeeps
<1>3. ASSUME NEW s \in Servers, NEW r \in Recoveries, Fence(s, r) PROVE WitnessInv'
  BY <1>3, FenceKeeps
<1>4. CASE Tick
  BY <1>4, TickKeeps
<1>5. CASE UNCHANGED witnessVars
  BY <1>5
     DEF witnessVars, WitnessInv, WitnessTypeOK, FencedOutlivesLease, PromiseKept, PastReceipts
<1> QED
  BY <1>1, <1>2, <1>3, <1>4, <1>5 DEF WitnessNext

LEMMA WitnessInvariant == WitnessSpec => []WitnessInv
BY WitnessInitially, WitnessStep, PTL DEF WitnessSpec

(* The stored state, the leases and the receipts keep their types.         *)
THEOREM WitnessTypeCorrect == WitnessSpec => []WitnessTypeOK
<1>1. WitnessInv => WitnessTypeOK
  BY DEF WitnessInv
<1> QED
  BY <1>1, WitnessInvariant, PTL

(* A receipt and a running lease never coexist: as long as the witness is  *)
(* fenced, every lease it ever answered with was over when the receipt for *)
(* its last recovery point was signed, whatever resets came before.        *)
THEOREM ReceiptExcludesLease == WitnessSpec => []FencedOutlivesLease
<1>1. WitnessInv => FencedOutlivesLease
  BY DEF WitnessInv
<1> QED
  BY <1>1, WitnessInvariant, PTL

(***************************************************************************)
(* Failover: a promotion under the receipt policy is covered by a receipt, *)
(* the reported promotion is true, and with an armed watchdog the time     *)
(* both hosts are writable is bounded.                                     *)
(***************************************************************************)

Opi5 == [up : BOOLEAN, boot : Nat, running : {"all", "always", "none"},
         stopped : BOOLEAN, timer : BOOLEAN, lease : Nat,
         dog : {"idle", "asking", "answered", "failed", "disarmed"},
         at : Nat, answer : Nat]
HpSteps == {"idle", "ready", "asking", "granted", "activating", "verified", "starting",
        "renamed", "planning", "cutting", "flagging", "done"}
Cutovers == {"none", "applying", "active", "rolled-back", "rollback-failed"}
States == {"healthy", "primary-unreachable", "blocked", "awaiting-fence", "awaiting-grace",
           "activating", "preview-failed", "activation-failed", "promoted",
           "promoted-unreachable"}
Hp == [up : BOOLEAN, role : {"standby", "primary"}, pc : HpSteps, rec : {0} \cup Recoveries,
       answer : Nat, promotion : {0} \cup Recoveries, ingress : BOOLEAN, cutover : Cutovers,
       status : States, failures : 0 .. Threshold, since : Nat]
Dumps == [synced : {0} \cup Recoveries, preparing : {0} \cup Recoveries,
          prepared : {0} \cup Recoveries]

LEMMA TypeParts ==
    FailoverTypeOK <=>
        /\ WitnessTypeOK /\ policy \in {"receipt", "unreachable"}
        /\ opi5 \in Opi5 /\ hp \in Hp
        /\ receipt \in [recovery : {0} \cup Recoveries, expires : Nat]
        /\ dumps \in Dumps
        /\ faults \in 0 .. MaxFaults /\ crashes \in 0 .. MaxCrashes /\ promotedAt \in Nat
<1>1. States = {"healthy", "primary-unreachable", "blocked", "awaiting-fence",
                "awaiting-grace", "activating", "preview-failed",
                "activation-failed"} \cup PromotedStatus
  BY DEF States, PromotedStatus
<1> QED BY <1>1 DEF FailoverTypeOK, Opi5, Hp, HpSteps, Cutovers, Dumps

LEMMA Bounds ==
    /\ \A r \in Recoveries : r \in Nat \ {0}
    /\ LeaseTTL \in Nat \ {0} /\ ReceiptTTL \in Nat \ {0} /\ Threshold \in Nat \ {0}
    /\ Period \in Nat \ {0} /\ RunTime \in Nat /\ Grace \in Nat
    /\ MaxRecovery \in Nat /\ MaxFaults \in Nat /\ MaxCrashes \in Nat /\ Primary \in Servers
  BY WitnessAssumption, FailoverAssumption DEF Recoveries

-----------------------------------------------------------------------------
(* The inductive invariant, in five parts.                                 *)

(* What automatic-failover.sh may rely on at each of its steps.            *)
BeforeRole == {"ready", "asking", "granted", "activating", "verified", "starting"}
WithReceipt == {"granted", "activating", "verified", "starting"}
AfterMark == {"planning", "cutting", "flagging", "done"}

RoleFits ==
    /\ hp.role = "standby" => hp.promotion = 0
    /\ hp.pc \in BeforeRole => hp.role = "standby"
    /\ hp.pc \in WithReceipt => hp.rec # 0
    /\ hp.pc = "renamed" => hp.role = "primary" /\ hp.promotion = 0 /\ hp.rec # 0
    /\ hp.pc \in AfterMark => hp.role = "primary" /\ hp.promotion # 0

CutoverFits ==
    /\ hp.pc = "flagging" => hp.cutover = "active"
    /\ hp.pc = "done" => hp.cutover = "active" /\ hp.ingress
    /\ hp.status \in PromotedStatus => hp.pc = "idle"

(* Every recovery point a promotion under way carries, and the one of the  *)
(* saved receipt, was fenced by the witness.                               *)
Covered(r) == \E c \in receipts : c.recovery = r

Receipted ==
    policy = "receipt" =>
        /\ receipt.recovery # 0 => Covered(receipt.recovery)
        /\ hp.pc \in WithReceipt => Covered(hp.rec)
        /\ hp.pc = "renamed" => \E c \in receipts : /\ c.recovery = hp.rec
                                                    /\ c.fencedAt <= promotedAt

(* The witness of a running system: fenced for good by the first receipt,  *)
(* no lease in the hands of the primary is longer than those it promised,  *)
(* and every receipt was signed after those were over.                     *)
Fencing ==
    /\ promised = witness.lease /\ promised <= now + LeaseTTL
    /\ receipts # {} => witness.fenced
    /\ \A c \in receipts : promised <= c.fencedAt
    /\ opi5.lease <= promised /\ opi5.answer <= promised

(* A run of the watchdog: its times, and what its steps know of the timer. *)
Watching ==
    /\ opi5.at <= now /\ opi5.boot <= now /\ promotedAt <= now
    /\ opi5.dog # "idle" => opi5.up /\ now <= opi5.at + RunTime
    /\ opi5.dog \in {"asking", "answered", "failed"} => opi5.timer
    /\ opi5.dog = "disarmed" => ~opi5.timer

(* The overlap in the making: since the promotion or the boot no more than *)
(* a period passed before a run of the watchdog began, and no more than a  *)
(* run since.                                                              *)
Soon(from) ==
    IF opi5.dog = "idle" THEN opi5.at <= from /\ now <= from + Period
    ELSE opi5.at <= from + Period /\ now <= opi5.at + RunTime

Overlapping == policy = "receipt" /\ BothWritable /\ (opi5.timer \/ opi5.dog = "disarmed")
OverlapSoon == Overlapping => Soon(promotedAt) \/ Soon(opi5.boot)

FailoverInv ==
    /\ FailoverTypeOK /\ WitnessInv
    /\ RoleFits /\ CutoverFits /\ PromotedIsTrue
    /\ Receipted /\ PromotionFenced
    /\ Fencing /\ Watching /\ OverlapSoon

-----------------------------------------------------------------------------
(* Types                                                                   *)

LEMMA Opi5Typed ==
    ASSUME FailoverTypeOK,
           WatchdogStep \/ PeerFences \/ Opi5Loses \/ Opi5Boots
    PROVE  opi5' \in Opi5
<1>1. opi5 \in Opi5 /\ now \in Nat /\ now + LeaseTTL \in Nat
  BY Bounds, TypeParts DEF WitnessTypeOK
<1>2. CASE WatchdogStarts
  BY <1>1, <1>2 DEF WatchdogStarts, Opi5
<1>3. CASE LeaseGranted
  BY <1>1, <1>3 DEF LeaseGranted, Opi5
<1>4. CASE LeaseFails
  BY <1>1, <1>4 DEF LeaseFails, Dog, Opi5
<1>5. CASE LeaseSaved
  BY <1>1, <1>5 DEF LeaseSaved, Opi5
<1>6. CASE WatchdogWaits
  BY <1>1, <1>6 DEF WatchdogWaits, Dog, Opi5
<1>7. CASE WatchdogDisarms
  BY <1>1, <1>7 DEF WatchdogDisarms, Opi5
<1>8. CASE SelfFences
  BY <1>1, <1>8 DEF SelfFences, Stopped, Opi5
<1>9. CASE SelfFenceFails
  BY <1>1, <1>9 DEF SelfFenceFails, Dog, Opi5
<1>10. CASE PeerFences
  BY <1>1, <1>10 DEF PeerFences, Stopped, Opi5
<1>11. CASE Opi5Loses
  BY <1>1, <1>11 DEF Opi5Loses, Opi5
<1>12. CASE Opi5Boots
  BY <1>1, <1>12 DEF Opi5Boots, Opi5
<1> QED BY <1>2, <1>3, <1>4, <1>5, <1>6, <1>7, <1>8, <1>9, <1>10, <1>11, <1>12 DEF WatchdogStep

(* The standby's record keeps its type and what its steps know of the role *)
(* and of the cutover; a reported promotion is true.                       *)
HpFits == hp \in Hp /\ RoleFits /\ CutoverFits /\ PromotedIsTrue

LEMMA HpStepFits ==
    ASSUME FailoverTypeOK, HpFits, StandbyStep \/ HpLoses \/ HpBoots
    PROVE  HpFits'
<1> USE DEF HpFits, Hp, HpSteps, States, Cutovers, PromotedStatus, RoleFits, CutoverFits,
            PromotedIsTrue, BeforeRole, WithReceipt, AfterMark
<1>1. /\ now \in Nat /\ now + ReceiptTTL \in Nat /\ Threshold \in Nat \ {0}
      /\ dumps.prepared \in {0} \cup Recoveries
      /\ witness.last \in Nat
  BY Bounds, TypeParts DEF WitnessTypeOK, Dumps
<1>2. CASE HpHealthy
  <2>1. /\ hp' = [hp EXCEPT !.pc = "idle", !.rec = 0, !.answer = 0, !.status = "healthy",
                            !.failures = 0, !.since = 0]
        /\ hp.role = "standby" /\ 0 \in 0 .. Threshold
    BY <1>1, <1>2 DEF HpHealthy, Ended, StandbyRuns
  <2> QED BY <2>1
<1>3. CASE HpUnreachable
  <2> DEFINE seen == IF hp.failures < Threshold THEN hp.failures + 1 ELSE Threshold
             from == IF hp.since = 0 THEN now ELSE hp.since
             step == IF seen = Threshold THEN "ready" ELSE "idle"
  <2>1. seen \in 0 .. Threshold /\ from \in Nat /\ step \in {"ready", "idle"}
    BY <1>1
  <2>2. /\ hp' = [hp EXCEPT !.status = "primary-unreachable", !.failures = seen,
                            !.since = from, !.pc = step]
        /\ hp.role = "standby" /\ hp.pc = "idle"
    BY <1>3 DEF HpUnreachable, StandbyRuns
  <2> HIDE DEF seen, from, step
  <2> QED BY <2>1, <2>2
<1>4. CASE HpBlocked
  BY <1>1, <1>4 DEF HpBlocked, Ended, At, StandbyRuns, PrimaryRuns, SeenActive, WritesPromoted
<1>5. CASE HpChecksReceipt
  BY <1>1, <1>5 DEF HpChecksReceipt, Ended, At, StandbyRuns, PrimaryRuns, SeenActive, WritesPromoted
<1>6. CASE HpChecksGrace
  BY <1>1, <1>6 DEF HpChecksGrace, Ended, At, StandbyRuns, PrimaryRuns, SeenActive, WritesPromoted
<1>7. CASE HpFences
  <2>1. /\ hp' = [hp EXCEPT !.pc = "granted", !.answer = now + ReceiptTTL]
        /\ hp.pc = "asking" /\ hp.rec > witness.last
    BY <1>7 DEF HpFences, At, Fence, MayFence
  <2>2. hp.rec # 0
    BY <1>1, <2>1
  <2> QED BY <1>1, <2>1, <2>2
<1>8. CASE HpNotFenced
  BY <1>1, <1>8 DEF HpNotFenced, Ended, At, StandbyRuns, PrimaryRuns, SeenActive, WritesPromoted
<1>9. CASE HpSavesReceipt
  BY <1>1, <1>9 DEF HpSavesReceipt, Ended, At, StandbyRuns, PrimaryRuns, SeenActive, WritesPromoted
<1>10. CASE HpVerifies
  BY <1>1, <1>10 DEF HpVerifies, Ended, At, StandbyRuns, PrimaryRuns, SeenActive, WritesPromoted
<1>11. CASE HpNotPromotable
  BY <1>1, <1>11 DEF HpNotPromotable, Ended, At, StandbyRuns, PrimaryRuns, SeenActive, WritesPromoted
<1>12. CASE HpStarts
  BY <1>1, <1>12 DEF HpStarts, Ended, At, StandbyRuns, PrimaryRuns, SeenActive, WritesPromoted
<1>13. CASE HpRenames
  BY <1>1, <1>13 DEF HpRenames, Ended, At, StandbyRuns, PrimaryRuns, SeenActive, WritesPromoted
<1>14. CASE HpPromotionFails
  BY <1>1, <1>14 DEF HpPromotionFails, Ended, At, StandbyRuns, PrimaryRuns, SeenActive, WritesPromoted
<1>15. CASE HpMarks
  BY <1>1, <1>15 DEF HpMarks, Ended, At, StandbyRuns, PrimaryRuns, SeenActive, WritesPromoted
<1>16. CASE HpCutoverStarts
  BY <1>1, <1>16 DEF HpCutoverStarts, Ended, At, StandbyRuns, PrimaryRuns, SeenActive, WritesPromoted
<1>17. CASE HpPlanFails
  <2>1. PICK left \in {"none", hp.cutover} :
            hp' = [hp EXCEPT !.pc = "idle", !.rec = 0, !.answer = 0,
                             !.status = "activation-failed", !.cutover = left]
    BY <1>17 DEF HpPlanFails, Ended
  <2>2. hp.pc = "planning" /\ left \in Cutovers
    BY <1>17 DEF HpPlanFails
  <2> QED BY <2>1, <2>2
<1>18. CASE HpCutoverActive
  BY <1>1, <1>18 DEF HpCutoverActive, Ended, At, StandbyRuns, PrimaryRuns, SeenActive, WritesPromoted
<1>19. CASE HpFlags
  BY <1>1, <1>19 DEF HpFlags, Ended, At, StandbyRuns, PrimaryRuns, SeenActive, WritesPromoted
<1>20. CASE HpCutoverFails
  <2>1. PICK left \in {"rolled-back", "rollback-failed"} :
            hp' = [hp EXCEPT !.pc = "idle", !.rec = 0, !.answer = 0,
                             !.status = "activation-failed", !.cutover = left]
    BY <1>20 DEF HpCutoverFails, Ended
  <2>2. hp.pc \in {"cutting", "flagging"}
    BY <1>20 DEF HpCutoverFails
  <2> QED BY <2>1, <2>2
<1>21. CASE HpFinishes
  <2>1. PICK status \in PromotedStatus :
            hp' = [hp EXCEPT !.pc = "idle", !.rec = 0, !.answer = 0,
                             !.failures = 0, !.status = status]
    <3>1. hp' = [hp EXCEPT !.pc = "idle", !.rec = 0, !.answer = 0, !.failures = 0,
                           !.status = IF policy = "receipt" THEN "promoted"
                                      ELSE "promoted-unreachable"]
      BY <1>21 DEF HpFinishes, WritesPromoted, Ended
    <3> QED BY <3>1
  <2>2. hp.pc = "done" /\ 0 \in 0 .. Threshold
    BY <1>1, <1>21 DEF HpFinishes
  <2> QED BY <2>1, <2>2
<1>22. CASE HpRepairs
  <2>1. PICK status \in PromotedStatus :
            hp' = [hp EXCEPT !.ingress = TRUE, !.failures = 0, !.status = status]
    <3>1. hp' = [hp EXCEPT !.ingress = TRUE, !.failures = 0,
                           !.status = IF policy = "receipt" THEN "promoted"
                                      ELSE "promoted-unreachable"]
      BY <1>22 DEF HpRepairs, WritesPromoted
    <3> QED BY <3>1
  <2>2. /\ hp.pc = "idle" /\ hp.role = "primary" /\ hp.promotion # 0
        /\ hp.cutover = "active" /\ 0 \in 0 .. Threshold
    BY <1>1, <1>22 DEF HpRepairs, PrimaryRuns, SeenActive
  <2> QED BY <2>1, <2>2
<1>23. CASE HpRetries
  BY <1>1, <1>23 DEF HpRetries, Ended, At, StandbyRuns, PrimaryRuns, SeenActive, WritesPromoted
<1>24. CASE HpRetryBlocked
  <2>1. PICK status \in {"blocked", "activation-failed"} :
            hp' = [hp EXCEPT !.pc = "idle", !.rec = 0, !.answer = 0, !.status = status]
    BY <1>24 DEF HpRetryBlocked, Ended
  <2> QED BY <2>1
<1>25. CASE HpLoses
  BY <1>1, <1>25 DEF HpLoses, Ended, At, StandbyRuns, PrimaryRuns, SeenActive, WritesPromoted
<1>26. CASE HpBoots
  BY <1>1, <1>26 DEF HpBoots, Ended, At, StandbyRuns, PrimaryRuns, SeenActive, WritesPromoted
<1> QED BY <1>2, <1>3, <1>4, <1>5, <1>6, <1>7, <1>8, <1>9, <1>10, <1>11, <1>12, <1>13, <1>14, <1>15, <1>16, <1>17, <1>18, <1>19, <1>20, <1>21, <1>22, <1>23, <1>24, <1>25, <1>26 DEF StandbyStep

-----------------------------------------------------------------------------
(* Which part of the system a step moves.                                  *)

Opi5Step == WatchdogStep \/ PeerFences \/ Opi5Loses \/ Opi5Boots
DumpStep == DumpArrives \/ Prepares
HpStep == StandbyStep \/ HpLoses \/ HpBoots

LEMMA Opi5Frame ==
    ASSUME Opi5Step
    PROVE  /\ UNCHANGED <<policy, hp, receipt, dumps, promotedAt, now, receipts>>
           /\ faults' = faults \/ (faults < MaxFaults /\ faults' = faults + 1)
           /\ crashes' = crashes \/ (crashes < MaxCrashes /\ crashes' = crashes + 1)
<1> USE DEF OnlyOpi5, Elsewhere, standbyVars, witnessVars
<1>1. CASE WatchdogStarts \/ LeaseFails \/ LeaseSaved \/ WatchdogWaits \/ WatchdogDisarms
  BY <1>1 DEF WatchdogStarts, LeaseFails, LeaseSaved, WatchdogWaits, WatchdogDisarms
<1>2. CASE LeaseGranted \/ SelfFences \/ SelfFenceFails
  BY <1>2 DEF LeaseGranted, Lease, SelfFences, SelfFenceFails
<1>3. CASE PeerFences \/ Opi5Loses \/ Opi5Boots
  BY <1>3 DEF PeerFences, Opi5Loses, Opi5Boots
<1> QED BY <1>1, <1>2, <1>3 DEF Opi5Step, WatchdogStep

LEMMA DumpFrame ==
    ASSUME DumpStep
    PROVE  UNCHANGED <<witnessVars, policy, opi5, hp, receipt, promotedAt, faults, crashes>>
BY DEF DumpStep, DumpArrives, Prepares, PrepareReads, PrepareWrites, OnlyDumps, standbyVars

LEMMA HpFrame ==
    ASSUME HpStep
    PROVE  UNCHANGED <<policy, opi5, now, promised>>
<1> USE DEF NoFault, Fault, OnlyStandby, witnessVars
<1>1. CASE HpHealthy \/ HpUnreachable \/ HpBlocked \/ HpChecksReceipt \/ HpChecksGrace
  BY <1>1 DEF HpHealthy, HpUnreachable, HpBlocked, HpChecksReceipt, HpChecksGrace
<1>2. CASE HpFences \/ HpNotFenced \/ HpSavesReceipt \/ HpVerifies \/ HpNotPromotable
  BY <1>2 DEF HpFences, Fence, HpNotFenced, HpSavesReceipt, HpVerifies, HpNotPromotable
<1>3. CASE HpStarts \/ HpRenames \/ HpPromotionFails \/ HpMarks \/ HpCutoverStarts
  BY <1>3 DEF HpStarts, HpRenames, HpPromotionFails, HpMarks, HpCutoverStarts
<1>4. CASE HpPlanFails \/ HpCutoverActive \/ HpFlags \/ HpCutoverFails \/ HpFinishes
  BY <1>4 DEF HpPlanFails, HpCutoverActive, HpFlags, HpCutoverFails, HpFinishes
<1>5. CASE HpRepairs \/ HpRetries \/ HpRetryBlocked \/ HpLoses \/ HpBoots
  BY <1>5 DEF HpRepairs, HpRetries, HpRetryBlocked, HpLoses, HpBoots
<1> QED BY <1>1, <1>2, <1>3, <1>4, <1>5 DEF HpStep, StandbyStep

(* Of the standby's steps only HpFences moves the witness, and only the    *)
(* ones named here the receipt and the time of the promotion; the counters *)
(* keep their bounds.                                                      *)
LEMMA HpKeeps ==
    ASSUME HpStep
    PROVE  /\ HpFences \/ UNCHANGED witnessVars
           /\ HpSavesReceipt \/ receipt' \in {receipt, NoReceipt}
           /\ HpRenames \/ HpPromotionFails \/ promotedAt' = promotedAt
           /\ dumps' \in {dumps, [dumps EXCEPT !.preparing = 0]}
           /\ faults' = faults \/ (faults < MaxFaults /\ faults' = faults + 1)
           /\ crashes' = crashes \/ (crashes < MaxCrashes /\ crashes' = crashes + 1)
<1> USE DEF NoFault, Fault, OnlyStandby, KeepsRole, witnessVars, standbyVars
<1>1. CASE HpHealthy \/ HpUnreachable \/ HpBlocked \/ HpChecksReceipt \/ HpChecksGrace
  BY <1>1 DEF HpHealthy, HpUnreachable, HpBlocked, HpChecksReceipt, HpChecksGrace
<1>2. CASE HpFences \/ HpNotFenced \/ HpSavesReceipt \/ HpVerifies \/ HpNotPromotable
  BY <1>2 DEF HpFences, HpNotFenced, HpSavesReceipt, HpVerifies, HpNotPromotable
<1>3. CASE HpStarts \/ HpRenames \/ HpPromotionFails \/ HpMarks \/ HpCutoverStarts
  BY <1>3 DEF HpStarts, HpRenames, HpPromotionFails, HpMarks, HpCutoverStarts
<1>4. CASE HpPlanFails \/ HpCutoverActive \/ HpFlags \/ HpCutoverFails \/ HpFinishes
  BY <1>4 DEF HpPlanFails, HpCutoverActive, HpFlags, HpCutoverFails, HpFinishes
<1>5. CASE HpRepairs \/ HpRetries \/ HpRetryBlocked \/ HpLoses \/ HpBoots
  BY <1>5 DEF HpRepairs, HpRetries, HpRetryBlocked, HpLoses, HpBoots
<1> QED BY <1>1, <1>2, <1>3, <1>4, <1>5 DEF HpStep, StandbyStep

LEMMA NextParts ==
    ASSUME [Next]_failoverVars
    PROVE  Opi5Step \/ DumpStep \/ HpStep \/ Time \/ UNCHANGED failoverVars
BY DEF Next, Opi5Step, DumpStep, HpStep

(* The witness of a running system takes the steps of the witness alone.   *)
LEMMA WitnessMoves ==
    ASSUME FailoverTypeOK, [Next]_failoverVars
    PROVE  [WitnessNext]_witnessVars
<1>1. CASE Opi5Step
  <2>1. CASE LeaseGranted
    BY <2>1, Bounds DEF LeaseGranted, WitnessNext
  <2>2. CASE ~LeaseGranted
    BY <1>1, <2>2
       DEF Opi5Step, WatchdogStep, WatchdogStarts, LeaseFails, LeaseSaved, WatchdogWaits,
           WatchdogDisarms, SelfFences, SelfFenceFails, PeerFences, Opi5Loses, Opi5Boots,
           OnlyOpi5
  <2> QED BY <2>1, <2>2
<1>2. CASE DumpStep
  BY <1>2, DumpFrame
<1>3. CASE HpStep
  <2>1. CASE HpFences
    <3>1. hp.rec > witness.last /\ hp.rec \in {0} \cup Recoveries /\ witness.last \in Nat
      BY <2>1, TypeParts, Bounds DEF HpFences, Fence, MayFence, Hp, WitnessTypeOK
    <3>2. PICK r \in Recoveries : r = hp.rec
      BY <3>1
    <3>3. Fence(Primary, r)
      BY <2>1, <3>2 DEF HpFences, Fence, Fenced, MayFence
    <3> QED BY <3>3, Bounds DEF WitnessNext
  <2> QED BY <1>3, <2>1, HpKeeps
<1>4. CASE Time
  BY <1>4 DEF Time, WitnessNext
<1>5. CASE UNCHANGED failoverVars
  BY <1>5 DEF failoverVars
<1> QED BY <1>1, <1>2, <1>3, <1>4, <1>5, NextParts
-----------------------------------------------------------------------------
(* Every step keeps the invariant, part by part.                           *)

LEMMA TypesKept ==
    ASSUME FailoverTypeOK, HpFits, WitnessTypeOK', [Next]_failoverVars
    PROVE  FailoverTypeOK'
<1>1. /\ opi5 \in Opi5 /\ hp \in Hp /\ dumps \in Dumps /\ policy \in {"receipt", "unreachable"}
      /\ receipt \in [recovery : {0} \cup Recoveries, expires : Nat]
      /\ faults \in 0 .. MaxFaults /\ crashes \in 0 .. MaxCrashes
      /\ promotedAt \in Nat /\ now \in Nat
  BY TypeParts DEF WitnessTypeOK
<1>2. opi5' \in Opi5 /\ policy' \in {"receipt", "unreachable"}
  BY <1>1, Opi5Typed, Opi5Frame, DumpFrame, HpFrame, NextParts
     DEF Opi5Step, Time, failoverVars
<1>3. hp' \in Hp
  BY <1>1, HpStepFits, Opi5Frame, DumpFrame, NextParts
     DEF HpFits, HpStep, Time, failoverVars, standbyVars
<1>4. dumps' \in Dumps
  <2>1. CASE DumpArrives
    <3>1. dumps.synced + 1 \in Recoveries
      BY <1>1, <2>1, Bounds DEF DumpArrives, Dumps, Recoveries
    <3> QED BY <1>1, <2>1, <3>1 DEF DumpArrives, Dumps
  <2>2. CASE Prepares
    BY <1>1, <2>2 DEF Prepares, PrepareReads, PrepareWrites, Dumps
  <2>3. CASE HpStep
    BY <1>1, <2>3, HpKeeps DEF Dumps
  <2> QED BY <1>1, <2>1, <2>2, <2>3, Opi5Frame, NextParts
          DEF DumpStep, Time, failoverVars
<1>5. receipt' \in [recovery : {0} \cup Recoveries, expires : Nat]
  <2>1. CASE HpSavesReceipt
    BY <1>1, <2>1 DEF HpSavesReceipt, Hp
  <2>2. NoReceipt \in [recovery : {0} \cup Recoveries, expires : Nat]
    BY DEF NoReceipt
  <2> QED BY <1>1, <2>1, <2>2, HpKeeps, Opi5Frame, DumpFrame, NextParts
          DEF Time, failoverVars, standbyVars
<1>6. promotedAt' \in Nat
  <2>1. CASE HpRenames \/ HpPromotionFails
    BY <1>1, <2>1 DEF HpRenames, HpPromotionFails
  <2> QED BY <1>1, <2>1, HpKeeps, Opi5Frame, DumpFrame, NextParts
          DEF Time, failoverVars, standbyVars
<1>7. faults' \in 0 .. MaxFaults /\ crashes' \in 0 .. MaxCrashes
  <2>1. /\ faults' = faults \/ (faults < MaxFaults /\ faults' = faults + 1)
        /\ crashes' = crashes \/ (crashes < MaxCrashes /\ crashes' = crashes + 1)
    BY Opi5Frame, DumpFrame, HpKeeps, NextParts DEF Time, failoverVars, standbyVars
  <2> QED BY <1>1, <2>1, Bounds
<1> QED BY <1>2, <1>3, <1>4, <1>5, <1>6, <1>7
        DEF FailoverTypeOK, Opi5, Hp, HpSteps, Cutovers, States, Dumps, PromotedStatus
(* A step that neither takes a promotion further nor changes the role only *)
(* adds receipts.                                                          *)
CarriesOn ==
    /\ hp'.pc \notin WithReceipt \cup {"renamed"} \/ (hp'.pc = hp.pc /\ hp'.rec = hp.rec)
    /\ hp'.role = hp.role /\ hp'.promotion = hp.promotion

Undisturbed ==
    \/ HpHealthy \/ HpUnreachable \/ HpBlocked \/ HpNotFenced \/ HpNotPromotable
    \/ HpCutoverStarts \/ HpPlanFails \/ HpCutoverActive \/ HpFlags \/ HpCutoverFails
    \/ HpFinishes \/ HpRepairs \/ HpRetries \/ HpRetryBlocked \/ HpLoses \/ HpBoots

LEMMA QuietCarriesOn == ASSUME hp \in Hp, Undisturbed PROVE CarriesOn
<1> USE DEF CarriesOn, WithReceipt, Hp, HpSteps
<1>1. CASE HpHealthy
  BY <1>1 DEF HpHealthy, Ended, StandbyRuns
<1>2. CASE HpUnreachable
  BY <1>2 DEF HpUnreachable, StandbyRuns
<1>3. CASE HpBlocked
  BY <1>3 DEF HpBlocked, Ended
<1>4. CASE HpNotFenced
  BY <1>4 DEF HpNotFenced, Ended
<1>5. CASE HpNotPromotable
  BY <1>5 DEF HpNotPromotable, Ended
<1>6. CASE HpCutoverStarts
  BY <1>6 DEF HpCutoverStarts, At
<1>7. CASE HpPlanFails
  BY <1>7 DEF HpPlanFails, Ended
<1>8. CASE HpCutoverActive
  BY <1>8 DEF HpCutoverActive, At
<1>9. CASE HpFlags
  BY <1>9 DEF HpFlags, At
<1>10. CASE HpCutoverFails
  BY <1>10 DEF HpCutoverFails, Ended
<1>11. CASE HpFinishes
  BY <1>11 DEF HpFinishes, WritesPromoted, Ended
<1>12. CASE HpRepairs
  BY <1>12 DEF HpRepairs, WritesPromoted, PrimaryRuns
<1>13. CASE HpRetries
  BY <1>13 DEF HpRetries, At
<1>14. CASE HpRetryBlocked
  BY <1>14 DEF HpRetryBlocked, Ended
<1>15. CASE HpLoses
  BY <1>15 DEF HpLoses, Ended
<1>16. CASE HpBoots
  BY <1>16 DEF HpBoots
<1> QED BY <1>1, <1>2, <1>3, <1>4, <1>5, <1>6, <1>7, <1>8, <1>9, <1>10, <1>11, <1>12, <1>13, <1>14, <1>15, <1>16 DEF Undisturbed

LEMMA CarriedReceipts ==
    ASSUME Receipted, PromotionFenced, CarriesOn, receipts \subseteq receipts',
           policy' = policy, promotedAt' = promotedAt, receipt' \in {receipt, NoReceipt}
    PROVE  Receipted' /\ PromotionFenced'
<1> USE DEF CarriesOn
<1>1. ASSUME policy = "receipt", receipt'.recovery # 0
      PROVE  \E c \in receipts' : c.recovery = receipt'.recovery
  BY <1>1 DEF Receipted, Covered, NoReceipt
<1>2. ASSUME policy = "receipt", hp'.pc \in WithReceipt
      PROVE  \E c \in receipts' : c.recovery = hp'.rec
  <2>1. hp'.pc = hp.pc /\ hp'.rec = hp.rec
    BY <1>2
  <2> QED BY <1>2, <2>1 DEF Receipted, Covered
<1>3. ASSUME policy = "receipt", hp'.pc = "renamed"
      PROVE  \E c \in receipts' : c.recovery = hp'.rec /\ c.fencedAt <= promotedAt
  <2>1. hp'.pc = hp.pc /\ hp'.rec = hp.rec
    BY <1>3 DEF WithReceipt
  <2> QED BY <1>3, <2>1 DEF Receipted
<1>4. ASSUME policy = "receipt", hp'.role = "primary"
      PROVE  \E c \in receipts' : c.fencedAt <= promotedAt /\ hp'.promotion \in {0, c.recovery}
  BY <1>4 DEF PromotionFenced
<1> QED BY <1>1, <1>2, <1>3, <1>4 DEF Receipted, PromotionFenced, Covered

LEMMA ReceiptsKept ==
    ASSUME FailoverTypeOK, HpFits, WitnessInv, Receipted, PromotionFenced, [Next]_failoverVars
    PROVE  Receipted' /\ PromotionFenced'
<1>1. /\ hp \in Hp /\ dumps \in Dumps /\ policy \in {"receipt", "unreachable"}
      /\ now \in Nat /\ promotedAt \in Nat
      /\ \A c \in receipts : c.fencedAt \in Nat /\ c.fencedAt <= now
  BY TypeParts DEF WitnessTypeOK, WitnessInv, PastReceipts
<1>2. CASE Opi5Step \/ DumpStep \/ Time \/ UNCHANGED failoverVars
  <2>1. UNCHANGED <<policy, hp, receipt, promotedAt, receipts>>
    BY <1>2, Opi5Frame, DumpFrame DEF Time, Tick, failoverVars, standbyVars, witnessVars
  <2>2. CarriesOn
    BY <2>1 DEF CarriesOn
  <2> QED BY <2>1, <2>2, CarriedReceipts
<1>3. CASE HpStep
  <2>1. policy' = policy
    BY <1>3, HpFrame
  <2>2. CASE Undisturbed
    <3>1. CarriesOn
      BY <1>1, <2>2, QuietCarriesOn
    <3>2. /\ receipts' = receipts /\ promotedAt' = promotedAt
          /\ receipt' \in {receipt, NoReceipt}
      BY <1>3, <2>2, HpKeeps
         DEF Undisturbed, witnessVars, HpHealthy, HpUnreachable, HpBlocked, HpNotFenced,
             HpNotPromotable, HpCutoverStarts, HpPlanFails, HpCutoverActive, HpFlags,
             HpCutoverFails, HpFinishes, HpRepairs, HpRetries, HpRetryBlocked, HpLoses, HpBoots,
             NoFault, Fault, KeepsRole, OnlyStandby, standbyVars
    <3> QED BY <2>1, <3>1, <3>2, CarriedReceipts
  <2>3. CASE policy = "unreachable"
    BY <2>1, <2>3 DEF Receipted, PromotionFenced
  <2>4. CASE policy = "receipt" /\ HpChecksReceipt
    <3>1. UNCHANGED <<receipt, receipts, promotedAt>> /\ hp.pc = "ready" /\ dumps.prepared # 0
      BY <2>4 DEF HpChecksReceipt, NoFault, OnlyStandby, witnessVars
    <3>2. /\ hp'.role = hp.role /\ hp'.promotion = hp.promotion /\ hp'.pc # "renamed"
          /\ hp'.pc \in WithReceipt =>
                receipt.recovery = dumps.prepared /\ hp'.rec = dumps.prepared
      BY <1>1, <2>4 DEF HpChecksReceipt, At, Valid, Hp, WithReceipt
    <3> QED BY <2>1, <2>4, <3>1, <3>2 DEF Receipted, Covered, PromotionFenced
  <2>5. CASE policy = "receipt" /\ HpFences
    <3>1. /\ UNCHANGED <<receipt, promotedAt>>
          /\ receipts' = receipts \cup {[recovery |-> hp.rec, fencedAt |-> now]}
          /\ hp'.role = hp.role /\ hp'.promotion = hp.promotion
          /\ hp'.pc = "granted" /\ hp'.rec = hp.rec
      BY <1>1, <2>5 DEF HpFences, Fence, At, Hp
    <3>2. [recovery |-> hp.rec, fencedAt |-> now] \in receipts'
      BY <3>1
    <3>3. \E c \in receipts' : c.recovery = hp'.rec
      BY <3>1, <3>2
    <3> QED BY <2>1, <2>5, <3>1, <3>3 DEF Receipted, Covered, PromotionFenced
  <2>6. CASE policy = "receipt" /\ HpSavesReceipt
    <3>1. /\ UNCHANGED <<receipts, promotedAt>> /\ hp.pc = "granted"
          /\ receipt'.recovery = hp.rec
          /\ hp'.role = hp.role /\ hp'.promotion = hp.promotion
          /\ hp'.pc = "activating" /\ hp'.rec = hp.rec
      BY <1>1, <2>6 DEF HpSavesReceipt, OnlyStandby, witnessVars, At, Hp
    <3> QED BY <2>1, <2>6, <3>1 DEF Receipted, Covered, PromotionFenced, WithReceipt
  <2>7. CASE policy = "receipt" /\ (HpVerifies \/ HpStarts)
    <3>1. /\ UNCHANGED <<receipt, receipts, promotedAt>> /\ hp.pc \in WithReceipt
          /\ hp'.role = hp.role /\ hp'.promotion = hp.promotion
          /\ hp'.pc \in WithReceipt /\ hp'.rec = hp.rec
      BY <1>1, <2>7 DEF HpVerifies, HpStarts, NoFault, OnlyStandby, witnessVars, At, Hp, WithReceipt
    <3> QED BY <2>1, <2>7, <3>1 DEF Receipted, Covered, PromotionFenced, WithReceipt
  <2>8. CASE policy = "receipt" /\ HpRenames
    <3>1. /\ UNCHANGED <<receipt, receipts>> /\ hp.pc = "starting" /\ promotedAt' = now
          /\ hp'.promotion = hp.promotion /\ hp'.pc = "renamed" /\ hp'.rec = hp.rec
      BY <1>1, <2>8 DEF HpRenames, OnlyStandby, witnessVars, At, Hp
    <3>2. PICK c \in receipts : c.recovery = hp.rec
      BY <2>8, <3>1 DEF Receipted, Covered, WithReceipt
    <3>3. hp'.promotion = 0
      BY <3>1 DEF HpFits, RoleFits, BeforeRole
    <3>4. c \in receipts' /\ c.recovery = hp'.rec /\ c.fencedAt <= promotedAt'
      BY <1>1, <3>1, <3>2
    <3> QED BY <2>1, <2>8, <3>1, <3>3, <3>4 DEF Receipted, Covered, PromotionFenced, WithReceipt
  <2>9. CASE policy = "receipt" /\ HpPromotionFails
    <3>1. /\ UNCHANGED <<receipt, receipts>> /\ hp'.role = "standby" /\ hp'.pc = "idle"
      BY <1>1, <2>9 DEF HpPromotionFails, Fault, OnlyStandby, witnessVars, Ended, Hp
    <3> QED BY <2>1, <2>9, <3>1 DEF Receipted, Covered, PromotionFenced, WithReceipt
  <2>10. CASE policy = "receipt" /\ HpMarks
    <3>1. /\ UNCHANGED <<receipt, receipts, promotedAt>> /\ hp.pc = "renamed"
          /\ hp'.promotion = hp.rec /\ hp'.pc = "planning"
      BY <1>1, <2>10 DEF HpMarks, NoFault, OnlyStandby, witnessVars, At, Hp
    <3> QED BY <2>1, <2>10, <3>1 DEF Receipted, Covered, PromotionFenced, WithReceipt
  <2>11. CASE policy = "receipt" /\ HpChecksGrace
    BY <2>11 DEF HpChecksGrace
  <2> QED BY <1>1, <1>3, <2>2, <2>3, <2>4, <2>5, <2>6, <2>7, <2>8, <2>9, <2>10, <2>11
          DEF HpStep, StandbyStep, Undisturbed
<1> QED BY <1>2, <1>3, NextParts
LEMMA FencingKept ==
    ASSUME FailoverTypeOK, WitnessInv, Fencing, [Next]_failoverVars
    PROVE  Fencing'
<1>1. /\ opi5 \in Opi5 /\ now \in Nat /\ promised \in Nat /\ witness.lease \in Nat
      /\ LeaseTTL \in Nat \ {0} /\ now + LeaseTTL \in Nat
      /\ opi5.lease \in Nat /\ opi5.answer \in Nat
      /\ witness \in [owner : Servers \cup {NoServer}, lease : Nat, fenced : BOOLEAN,
                      last : {0} \cup Recoveries]
      /\ receipts \subseteq [recovery : Recoveries, fencedAt : Nat]
  BY TypeParts, Bounds DEF WitnessTypeOK, Opi5
<1>2. CASE LeaseGranted
  <2>1. /\ witness'.lease = now + LeaseTTL /\ promised' = now + LeaseTTL /\ now' = now
        /\ receipts' = receipts /\ ~witness.fenced
        /\ opi5'.lease = opi5.lease /\ opi5'.answer = now + LeaseTTL
    BY <1>1, <1>2 DEF LeaseGranted, Lease, Leased, MayLease, Opi5
  <2>2. receipts = {} /\ opi5.lease <= now + LeaseTTL
    BY <1>1, <2>1 DEF Fencing
  <2> QED BY <1>1, <2>1, <2>2 DEF Fencing
<1>3. CASE Opi5Step /\ ~LeaseGranted
  <2>1. UNCHANGED witnessVars
    BY <1>3
       DEF Opi5Step, WatchdogStep, WatchdogStarts, LeaseFails, LeaseSaved, WatchdogWaits,
           WatchdogDisarms, SelfFences, SelfFenceFails, PeerFences, Opi5Loses, Opi5Boots,
           OnlyOpi5
  <2>2. opi5'.lease <= promised /\ opi5'.answer <= promised
    <3> USE DEF Fencing, Opi5
    <3>1. CASE WatchdogStarts
      BY <1>1, <3>1 DEF WatchdogStarts
    <3>2. CASE Dog("failed") \/ Dog("idle")
      <4>1. opi5'.lease = opi5.lease /\ opi5'.answer = 0
        BY <1>1, <3>2 DEF Dog
      <4> QED BY <1>1, <4>1
    <3>3. CASE LeaseSaved
      BY <1>1, <3>3 DEF LeaseSaved
    <3>4. CASE WatchdogDisarms
      BY <1>1, <3>4 DEF WatchdogDisarms
    <3>5. CASE SelfFences \/ PeerFences
      BY <1>1, <3>5 DEF SelfFences, PeerFences, Stopped
    <3>6. CASE Opi5Loses
      BY <1>1, <3>6 DEF Opi5Loses
    <3>7. CASE Opi5Boots
      BY <1>1, <3>7 DEF Opi5Boots
    <3> QED BY <1>3, <3>1, <3>2, <3>3, <3>4, <3>5, <3>6, <3>7
            DEF Opi5Step, WatchdogStep, LeaseFails, WatchdogWaits, SelfFenceFails
  <2> QED BY <2>1, <2>2 DEF Fencing, witnessVars
<1>4. CASE HpFences
  <2>1. /\ witness'.lease = witness.lease /\ witness'.fenced /\ witness.lease <= now
        /\ receipts' = receipts \cup {[recovery |-> hp.rec, fencedAt |-> now]}
        /\ UNCHANGED <<now, promised, opi5>>
    BY <1>1, <1>4 DEF HpFences, Fence, Fenced, MayFence
  <2>2. \A c \in receipts' : promised <= c.fencedAt
    BY <1>1, <2>1 DEF Fencing
  <2> QED BY <2>1, <2>2 DEF Fencing
<1>5. CASE Time
  BY <1>1, <1>5 DEF Time, Tick, Fencing
<1>6. CASE DumpStep \/ (HpStep /\ ~HpFences) \/ UNCHANGED failoverVars
  <2>1. UNCHANGED <<witnessVars, opi5>>
    BY <1>6, DumpFrame, HpFrame, HpKeeps DEF failoverVars
  <2> QED BY <2>1 DEF Fencing, witnessVars
<1> QED BY <1>2, <1>3, <1>4, <1>5, <1>6, NextParts

LEMMA WatchingKept ==
    ASSUME FailoverTypeOK, Watching, [Next]_failoverVars
    PROVE  Watching'
<1>1. /\ opi5 \in Opi5 /\ now \in Nat /\ promotedAt \in Nat /\ opi5.at \in Nat /\ opi5.boot \in Nat
      /\ RunTime \in Nat /\ Period \in Nat
  BY TypeParts, Bounds DEF WitnessTypeOK, Opi5
<1>2. CASE Opi5Step
  <2>1. now' = now /\ promotedAt' = promotedAt
    BY <1>2, Opi5Frame
  <2> USE DEF Watching, Opi5
  <2>2. CASE WatchdogStarts
    BY <1>1, <2>1, <2>2 DEF WatchdogStarts, Urgent
  <2>3. CASE LeaseGranted
    BY <1>1, <2>1, <2>3 DEF LeaseGranted
  <2>4. CASE LeaseFails
    BY <1>1, <2>1, <2>4 DEF LeaseFails, Dog
  <2>5. CASE LeaseSaved
    BY <1>1, <2>1, <2>5 DEF LeaseSaved
  <2>6. CASE WatchdogWaits
    BY <1>1, <2>1, <2>6 DEF WatchdogWaits, Dog
  <2>7. CASE WatchdogDisarms
    BY <1>1, <2>1, <2>7 DEF WatchdogDisarms
  <2>8. CASE SelfFences
    BY <1>1, <2>1, <2>8 DEF SelfFences, Stopped
  <2>9. CASE SelfFenceFails
    BY <1>1, <2>1, <2>9 DEF SelfFenceFails, Dog
  <2>10. CASE PeerFences
    BY <1>1, <2>1, <2>10 DEF PeerFences, Stopped
  <2>11. CASE Opi5Loses
    BY <1>1, <2>1, <2>11 DEF Opi5Loses
  <2>12. CASE Opi5Boots
    BY <1>1, <2>1, <2>12 DEF Opi5Boots
  <2> QED BY <1>2, <2>2, <2>3, <2>4, <2>5, <2>6, <2>7, <2>8, <2>9, <2>10, <2>11, <2>12
          DEF Opi5Step, WatchdogStep
<1>3. CASE HpStep
  <2>1. UNCHANGED <<now, opi5>>
    BY <1>3, HpFrame
  <2>2. promotedAt' <= now
    <3>1. CASE HpRenames \/ HpPromotionFails
      BY <1>1, <3>1 DEF HpRenames, HpPromotionFails
    <3> QED BY <1>3, <3>1, HpKeeps DEF Watching
  <2> QED BY <2>1, <2>2 DEF Watching
<1>4. CASE Time
  <2>1. now' = now + 1 /\ UNCHANGED <<opi5, promotedAt>> /\ ~Urgent
    BY <1>4 DEF Time, Tick, standbyVars
  <2>2. ASSUME opi5.dog # "idle" PROVE now' <= opi5.at + RunTime
    <3>1. ~(opi5.at + RunTime <= now)
      BY <2>1, <2>2 DEF Urgent, Due, Watching
    <3> QED BY <1>1, <2>1, <3>1
  <2> QED BY <1>1, <2>1, <2>2 DEF Watching
<1>5. CASE DumpStep \/ UNCHANGED failoverVars
  <2>1. UNCHANGED <<now, opi5, promotedAt>>
    BY <1>5, DumpFrame DEF failoverVars, standbyVars, witnessVars
  <2> QED BY <2>1 DEF Watching
<1> QED BY <1>2, <1>3, <1>4, <1>5, NextParts
(* A lease or an answer that still runs and a promotion under a receipt do *)
(* not go together.                                                        *)
LEMMA NoLeaseLeft ==
    ASSUME FailoverTypeOK, WitnessInv, Fencing, Watching, PromotionFenced,
           policy = "receipt", hp.role = "primary"
    PROVE  opi5.lease <= now /\ opi5.answer <= now
<1>1. PICK c \in receipts : TRUE
  BY DEF PromotionFenced
<1>2. promised <= c.fencedAt /\ c.fencedAt <= now /\ c.fencedAt \in Nat
  BY <1>1, TypeParts DEF WitnessInv, PastReceipts, Fencing, WitnessTypeOK
<1>3. promised \in Nat /\ now \in Nat /\ opi5.lease \in Nat /\ opi5.answer \in Nat
  BY TypeParts DEF WitnessTypeOK, Opi5
<1> QED BY <1>2, <1>3 DEF Fencing

(* Nothing of the overlap changes, or a run of the watchdog goes on.       *)
SameOverlap ==
    /\ policy' = policy /\ promotedAt' = promotedAt /\ now' = now
    /\ hp'.role = hp.role
    /\ opi5'.up = opi5.up /\ opi5'.running = opi5.running
    /\ opi5'.at = opi5.at /\ opi5'.boot = opi5.boot
    /\ \/ opi5'.dog = opi5.dog /\ opi5'.timer = opi5.timer
       \/ opi5'.dog # "idle" /\ opi5.dog # "idle" /\ opi5.timer

LEMMA SameOverlapSoon == ASSUME OverlapSoon, SameOverlap PROVE OverlapSoon'
BY DEF SameOverlap, OverlapSoon, Soon, Overlapping, BothWritable

LEMMA OverlapKept ==
    ASSUME FailoverTypeOK, HpFits, WitnessInv, Fencing, Watching, PromotionFenced,
           OverlapSoon, [Next]_failoverVars
    PROVE  OverlapSoon'
<1>1. /\ opi5 \in Opi5 /\ hp \in Hp /\ now \in Nat /\ promotedAt \in Nat
      /\ opi5.at \in Nat /\ opi5.boot \in Nat
      /\ RunTime \in Nat /\ Period \in Nat
  BY TypeParts, Bounds DEF WitnessTypeOK, Opi5
<1>2. CASE Opi5Step
  <2>1. UNCHANGED <<policy, now, promotedAt, hp>>
    BY <1>2, Opi5Frame
  <2>2. CASE WatchdogStarts
    <3>1. /\ opi5'.dog = "asking" /\ opi5'.at = now /\ opi5'.boot = opi5.boot
          /\ opi5'.up = opi5.up /\ opi5'.running = opi5.running /\ opi5'.timer = opi5.timer
          /\ opi5.dog = "idle"
      BY <1>1, <2>2 DEF WatchdogStarts, Opi5
    <3>2. Overlapping' => Overlapping
      BY <2>1, <3>1 DEF Overlapping, BothWritable
    <3> QED BY <1>1, <2>1, <3>1, <3>2 DEF OverlapSoon, Soon
  <2>3. CASE LeaseGranted \/ LeaseFails
    <3>1. opi5.dog \in {"asking", "answered"} /\ opi5.timer
      BY <2>3 DEF LeaseGranted, LeaseFails, Watching
    <3>2. /\ opi5'.up = opi5.up /\ opi5'.running = opi5.running
          /\ opi5'.at = opi5.at /\ opi5'.boot = opi5.boot /\ opi5'.dog # "idle"
      BY <1>1, <2>3 DEF LeaseGranted, LeaseFails, Dog, Opi5
    <3> QED BY <2>1, <3>1, <3>2, SameOverlapSoon DEF SameOverlap
  <2>4. CASE LeaseSaved \/ WatchdogWaits
    <3>1. opi5.lease \in Nat /\ opi5.answer \in Nat
      BY <1>1 DEF Opi5
    <3>2. ~(policy = "receipt" /\ hp.role = "primary")
      BY <1>1, <2>4, <3>1, NoLeaseLeft DEF LeaseSaved, WatchdogWaits, LeaseOver
    <3> QED BY <2>1, <3>2 DEF OverlapSoon, Overlapping, BothWritable
  <2>5. CASE WatchdogDisarms
    <3>1. opi5.dog = "failed" /\ opi5.timer
      BY <2>5 DEF WatchdogDisarms, Watching
    <3>2. /\ opi5'.up = opi5.up /\ opi5'.running = opi5.running
          /\ opi5'.at = opi5.at /\ opi5'.boot = opi5.boot /\ opi5'.dog # "idle"
      BY <1>1, <2>5 DEF WatchdogDisarms, Opi5
    <3> QED BY <2>1, <3>1, <3>2, SameOverlapSoon DEF SameOverlap
  <2>6. CASE SelfFences \/ PeerFences
    <3>1. opi5'.running = "none"
      BY <1>1, <2>6 DEF SelfFences, PeerFences, Stopped, Opi5
    <3> QED BY <3>1 DEF OverlapSoon, Overlapping, BothWritable
  <2>7. CASE SelfFenceFails
    <3>1. ~opi5'.timer /\ opi5'.dog = "idle"
      BY <1>1, <2>7 DEF SelfFenceFails, Dog, Watching, Opi5
    <3> QED BY <3>1 DEF OverlapSoon, Overlapping
  <2>8. CASE Opi5Loses
    <3>1. ~opi5'.up
      BY <1>1, <2>8 DEF Opi5Loses, Opi5
    <3> QED BY <3>1 DEF OverlapSoon, Overlapping, BothWritable
  <2>9. CASE Opi5Boots
    <3>1. opi5'.boot = now /\ opi5'.at = now /\ opi5'.dog = "idle"
      BY <1>1, <2>9 DEF Opi5Boots, Watching, Opi5
    <3> QED BY <1>1, <2>1, <3>1 DEF OverlapSoon, Soon
  <2> QED BY <1>2, <2>2, <2>3, <2>4, <2>5, <2>6, <2>7, <2>8, <2>9 DEF Opi5Step, WatchdogStep
<1>3. CASE HpStep
  <2>1. UNCHANGED <<policy, now, opi5>>
    BY <1>3, HpFrame
  <2>2. CASE HpRenames
    <3>1. promotedAt' = now
      BY <2>2 DEF HpRenames
    <3>2. CASE opi5.dog = "idle"
      BY <1>1, <2>1, <3>1, <3>2 DEF OverlapSoon, Soon, Watching
    <3>3. CASE opi5.dog # "idle"
      <4>1. opi5.at <= now + Period /\ now <= opi5.at + RunTime
        BY <1>1, <3>3 DEF Watching
      <4> QED BY <2>1, <3>1, <3>3, <4>1 DEF OverlapSoon, Soon
    <3> QED BY <3>2, <3>3
  <2>3. CASE HpPromotionFails
    <3>1. hp'.role = "standby"
      BY <1>1, <2>3 DEF HpPromotionFails, Ended, Hp
    <3> QED BY <3>1 DEF OverlapSoon, Overlapping, BothWritable
  <2>4. CASE ~HpRenames /\ ~HpPromotionFails
    <3>1. hp'.role = hp.role
      <4> USE <1>1 DEF Hp, At
      <4>1. CASE Undisturbed
        BY <4>1, QuietCarriesOn DEF CarriesOn
      <4>2. CASE HpChecksReceipt
        BY <4>2 DEF HpChecksReceipt
      <4>3. CASE HpChecksGrace
        BY <4>3 DEF HpChecksGrace, Ended
      <4>4. CASE HpFences \/ HpSavesReceipt
        BY <4>4 DEF HpFences, HpSavesReceipt
      <4>5. CASE HpVerifies \/ HpStarts \/ HpMarks
        BY <4>5 DEF HpVerifies, HpStarts, HpMarks
      <4> QED BY <1>3, <2>4, <4>1, <4>2, <4>3, <4>4, <4>5 DEF HpStep, StandbyStep, Undisturbed
    <3>2. promotedAt' = promotedAt
      BY <1>3, <2>4, HpKeeps
    <3> QED BY <2>1, <3>1, <3>2, SameOverlapSoon DEF SameOverlap
  <2> QED BY <2>2, <2>3, <2>4
<1>4. CASE Time
  <2>1. now' = now + 1 /\ UNCHANGED <<policy, hp, opi5, promotedAt>> /\ ~Urgent
    BY <1>4 DEF Time, Tick, standbyVars
  <2>2. ASSUME Overlapping'
        PROVE  Soon(promotedAt)' \/ Soon(opi5.boot)'
    <3>1. Overlapping /\ opi5.up /\ (opi5.timer \/ opi5.dog = "disarmed")
      BY <2>1, <2>2 DEF Overlapping, BothWritable
    <3>2. ~Due
      BY <2>1, <3>1 DEF Urgent
    <3>3. CASE opi5.dog = "idle"
      <4>1. opi5.at + Period > now
        BY <1>1, <3>2, <3>3 DEF Due
      <4> QED BY <1>1, <2>1, <3>1, <3>3, <4>1 DEF OverlapSoon, Soon
    <3>4. CASE opi5.dog # "idle"
      <4>1. opi5.at + RunTime > now
        BY <1>1, <3>2, <3>4 DEF Due
      <4> QED BY <1>1, <2>1, <3>1, <3>4, <4>1 DEF OverlapSoon, Soon
    <3> QED BY <3>3, <3>4
  <2> QED BY <2>2 DEF OverlapSoon
<1>5. CASE DumpStep \/ UNCHANGED failoverVars
  <2>1. UNCHANGED <<policy, now, opi5, hp, promotedAt>>
    BY <1>5, DumpFrame DEF failoverVars, standbyVars, witnessVars
  <2> QED BY <2>1, SameOverlapSoon DEF SameOverlap
<1> QED BY <1>2, <1>3, <1>4, <1>5, NextParts

-----------------------------------------------------------------------------
LEMMA Initially == Init => FailoverInv
<1> SUFFICES ASSUME Init PROVE FailoverInv
  OBVIOUS
<1> USE Bounds DEF Init, Leased, NoReceipt
<1>1. 1 + LeaseTTL \in Nat
  OBVIOUS
<1>2. WitnessTypeOK
  BY <1>1 DEF WitnessTypeOK, Recoveries
<1>3. FailoverTypeOK
  <2>1. opi5 \in Opi5
    BY <1>1 DEF Opi5
  <2>2. hp \in Hp
    BY DEF Hp, HpSteps, Cutovers, States
  <2>3. /\ receipt \in [recovery : {0} \cup Recoveries, expires : Nat]
        /\ dumps \in Dumps /\ policy \in {"receipt", "unreachable"}
    BY DEF Dumps
  <2>4. faults \in 0 .. MaxFaults /\ crashes \in 0 .. MaxCrashes /\ promotedAt \in Nat
    OBVIOUS
  <2> QED BY <1>2, <2>1, <2>2, <2>3, <2>4, TypeParts
<1>4. WitnessInv
  BY <1>1, <1>2 DEF WitnessInv, FencedOutlivesLease, PromiseKept, PastReceipts
<1>5. RoleFits /\ CutoverFits /\ PromotedIsTrue
  BY DEF RoleFits, CutoverFits, PromotedIsTrue, BeforeRole, WithReceipt, AfterMark,
         PromotedStatus
<1>6. Receipted /\ PromotionFenced
  BY DEF Receipted, PromotionFenced, WithReceipt
<1>7. Fencing /\ Watching /\ OverlapSoon
  BY <1>1 DEF Fencing, Watching, OverlapSoon, Overlapping, BothWritable
<1> QED BY <1>3, <1>4, <1>5, <1>6, <1>7 DEF FailoverInv

LEMMA Stepwise == FailoverInv /\ [Next]_failoverVars => FailoverInv'
<1> SUFFICES ASSUME FailoverInv, [Next]_failoverVars PROVE FailoverInv'
  OBVIOUS
<1> USE DEF FailoverInv
<1>1. HpFits
  BY TypeParts DEF HpFits
<1>2. WitnessInv'
  BY WitnessMoves, WitnessStep
<1>3. FailoverTypeOK'
  BY <1>1, <1>2, TypesKept DEF WitnessInv
<1>4. HpFits'
  <2>1. CASE HpStep
    BY <1>1, <2>1, HpStepFits DEF HpStep
  <2>2. CASE ~HpStep
    <3>1. hp' = hp
      BY <2>2, Opi5Frame, DumpFrame, NextParts DEF Time, failoverVars, standbyVars
    <3> QED BY <1>1, <3>1 DEF HpFits, RoleFits, CutoverFits, PromotedIsTrue
  <2> QED BY <2>1, <2>2
<1>5. Receipted' /\ PromotionFenced'
  BY <1>1, ReceiptsKept
<1>6. Fencing' /\ Watching' /\ OverlapSoon'
  BY <1>1, FencingKept, WatchingKept, OverlapKept
<1> QED BY <1>2, <1>3, <1>4, <1>5, <1>6 DEF HpFits

LEMMA Inductive == Spec => []FailoverInv
BY Initially, Stepwise, PTL DEF Spec

(* The records of both hosts, of the witness and of the receipt keep their *)
(* types.                                                                  *)
THEOREM FailoverTypeCorrect == Spec => []FailoverTypeOK
<1>1. FailoverInv => FailoverTypeOK
  BY DEF FailoverInv
<1> QED BY <1>1, Inductive, PTL

(* With both hosts' scripts around it the witness still never has a fenced *)
(* primary whose lease runs.                                               *)
THEOREM FencedSystem == Spec => []FencedOutlivesLease
<1>1. FailoverInv => FencedOutlivesLease
  BY DEF FailoverInv, WitnessInv
<1> QED BY <1>1, Inductive, PTL

(* Under the receipt policy the standby is a primary only by a receipt     *)
(* signed before, for the recovery point it was promoted from.             *)
THEOREM PromotionCovered == Spec => []PromotionFenced
<1>1. FailoverInv => PromotionFenced
  BY DEF FailoverInv
<1> QED BY <1>1, Inductive, PTL

(* A reported promotion has its marker, its active cutover and its role,   *)
(* wherever a run was interrupted.                                         *)
THEOREM ReportedTruly == Spec => []PromotedIsTrue
<1>1. FailoverInv => PromotedIsTrue
  BY DEF FailoverInv
<1> QED BY <1>1, Inductive, PTL

(* With an armed watchdog two writable hosts last no longer than a period  *)
(* and a run of it, whatever these lengths are.                            *)
THEOREM OverlapShort == Spec => []OverlapBounded
<1>1. ASSUME FailoverInv PROVE OverlapBounded
  <2>1. /\ opi5.at \in Nat /\ opi5.boot \in Nat /\ promotedAt \in Nat /\ now \in Nat
        /\ Period \in Nat /\ RunTime \in Nat
    BY <1>1, TypeParts, Bounds DEF FailoverInv, WitnessTypeOK, Opi5
  <2>2. ASSUME Overlapping PROVE \E from \in {promotedAt, opi5.boot} : now <= from + Period + RunTime
    <3>1. CASE Soon(promotedAt)
      BY <2>1, <3>1 DEF Soon
    <3>2. CASE Soon(opi5.boot)
      BY <2>1, <3>2 DEF Soon
    <3> QED BY <1>1, <2>2, <3>1, <3>2 DEF FailoverInv, OverlapSoon
  <2> QED BY <2>2 DEF OverlapBounded, Overlapping
<1> QED BY <1>1, Inductive, PTL

(***************************************************************************)
(* The public cutover with one operator at a time: the receipt records the *)
(* original state, and an active one is the truth.  With two operators     *)
(* neither holds (TunnelCutoverTwo.cfg): the scripts take no lock.         *)
(***************************************************************************)

OneOperator == \A p, q \in Cli : p = q

FileStatus == {"none", "applying", "active", "rolled-back", "rollback-failed"}
Pcs == {"idle", "archiving", "planning", "recording", "routing", "deleting", "creating",
        "verifying", "activating", "flagging", "unrouting", "clearing", "restoring",
        "closing", "unflagging"}
Run == [pc : Pcs, command : {"none", "apply", "rollback"}, previous : Public,
        next : Hosts, failed : BOOLEAN]

(* What can be in the variables; the counters play no part.                *)
Typed ==
    /\ public \in Public /\ before \in Public
    /\ file \in [status : FileStatus, previous : Public]
    /\ flag \in BOOLEAN /\ undone \in BOOLEAN
    /\ run \in [Cli -> Run]

Unfinished == {"applying", "active", "rollback-failed"}
Preparing == {"archiving", "planning", "recording"}
Applying == {"routing", "deleting", "creating", "verifying", "activating"}
Undoing == {"unrouting", "clearing", "restoring", "closing"}

(* What a process knows at its step: of the receipt, of the plan it holds, *)
(* and of what it has restored so far.                                     *)
Knows(p) ==
    LET r == run[p] IN
    /\ r.pc \in Preparing => file.status \in Archivable
    /\ r.pc = "recording" => r.previous = before
    /\ r.pc \in Applying => file.status = "applying" /\ r.previous = before
    /\ r.pc = "flagging" => file.status = "active" /\ r.previous = before
    /\ r.pc \in {"activating", "flagging"} => public = AllHp
    /\ r.pc \in Undoing => file.status \in Unfinished /\ r.previous = before /\ undone
    /\ r.pc = "unrouting" => r.next = 1
    /\ r.pc \in {"clearing", "restoring"} =>
          public.routes = before.routes /\ \A h \in 1 .. r.next - 1 : public.dns[h] = before.dns[h]
    /\ r.pc = "closing" /\ ~r.failed => public = before

TunnelInv == Typed /\ RecordedOriginal /\ ActiveIsPublic /\ \A p \in Cli : Knows(p)

-----------------------------------------------------------------------------
(* The public state and the runs                                           *)

LEMMA HostsTyped == 1 \in Hosts /\ NumHosts \in Hosts /\ Hosts \subseteq Nat
  BY TunnelCutoverAssumption DEF Hosts

LEMMA SamePublic ==
    ASSUME NEW a \in Public, NEW b \in Public, a.routes = b.routes,
           \A h \in Hosts : a.dns[h] = b.dns[h]
    PROVE  a = b
<1>1. a.dns \in [Hosts -> {"none", "old", "hp"}] /\ b.dns \in [Hosts -> {"none", "old", "hp"}]
  BY DEF Public
<1>2. a.dns = b.dns
  BY <1>1
<1> QED BY <1>2 DEF Public

LEMMA AllHpTyped == AllHp \in Public /\ AllHp.routes \in [Hosts -> {"old", "hp"}]
  BY DEF AllHp, Public

LEMMA RoutedTyped ==
    ASSUME Typed, NEW routes \in [Hosts -> {"old", "hp"}], Routed(routes)
    PROVE  public' \in Public /\ public'.routes = routes /\ public'.dns = public.dns
  BY DEF Typed, Routed, Public

LEMMA NamedTyped ==
    ASSUME Typed, NEW h \in Hosts, NEW target \in {"none", "old", "hp"}, Named(h, target)
    PROVE  /\ public' \in Public /\ public'.routes = public.routes
           /\ public'.dns[h] = target /\ \A k \in Hosts \ {h} : public'.dns[k] = public.dns[k]
<1> DEFINE dns == [public.dns EXCEPT ![h] = target]
<1>1. public.dns \in [Hosts -> {"none", "old", "hp"}]
  BY DEF Typed, Public
<1>2. /\ dns \in [Hosts -> {"none", "old", "hp"}] /\ dns[h] = target
      /\ \A k \in Hosts \ {h} : dns[k] = public.dns[k]
  BY <1>1
<1>3. public' = [public EXCEPT !.dns = dns]
  BY DEF Named
<1> HIDE DEF dns
<1> QED BY <1>2, <1>3 DEF Typed, Public

LEMMA GoTyped ==
    ASSUME Typed, NEW p \in Cli, NEW step \in Pcs, Go(p, step)
    PROVE  /\ run' \in [Cli -> Run] /\ run'[p].pc = step
           /\ run'[p].previous = run[p].previous /\ run'[p].next = run[p].next
           /\ run'[p].failed = run[p].failed /\ run'[p].command = run[p].command
<1>1. run[p] \in Run /\ run \in [Cli -> Run]
  BY DEF Typed
<1> DEFINE r == [run[p] EXCEPT !.pc = step]
<1>2. r \in Run /\ r.pc = step /\ r.previous = run[p].previous /\ r.next = run[p].next
      /\ r.failed = run[p].failed /\ r.command = run[p].command
  BY <1>1 DEF Run
<1>3. run' = [run EXCEPT ![p] = r]
  BY DEF Go
<1> HIDE DEF r
<1> QED BY <1>1, <1>2, <1>3

LEMMA IdleTyped == ASSUME Typed PROVE Idle \in Run /\ Idle.pc = "idle" /\ Idle.next = 1
  BY HostsTyped DEF Typed, Idle, Run, Pcs

LEMMA EndsTyped ==
    ASSUME Typed, NEW p \in Cli, Ends(p)
    PROVE  run' \in [Cli -> Run] /\ run'[p].pc = "idle"
  BY IdleTyped DEF Typed, Ends

LEMMA OnwardTyped ==
    ASSUME Typed, NEW p \in Cli, NEW again \in Pcs, NEW done \in Pcs, Onward(p, again, done)
    PROVE  /\ run' \in [Cli -> Run] /\ run'[p].previous = run[p].previous
           /\ run'[p].failed = run[p].failed
           /\ \/ run[p].next < NumHosts /\ run'[p].pc = again /\ run'[p].next = run[p].next + 1
              \/ run[p].next = NumHosts /\ run'[p].pc = done /\ run'[p].next = 1
<1>1. /\ run[p] \in Run /\ run \in [Cli -> Run] /\ run[p].next \in Hosts
      /\ 1 \in Hosts /\ NumHosts \in Nat
  BY TunnelCutoverAssumption, HostsTyped DEF Typed, Run
<1>2. CASE run[p].next < NumHosts
  <2> DEFINE n == run[p].next + 1
             r == [run[p] EXCEPT !.pc = again, !.next = n]
  <2>1. n \in Hosts
    BY <1>1, <1>2 DEF Hosts
  <2>2. run' = [run EXCEPT ![p] = r]
    BY <1>2 DEF Onward
  <2> HIDE DEF n
  <2>3. r \in Run /\ r.pc = again /\ r.previous = run[p].previous /\ r.next = n
        /\ r.failed = run[p].failed
    BY <1>1, <2>1 DEF Run
  <2> HIDE DEF r
  <2> QED BY <1>1, <1>2, <2>2, <2>3 DEF n
<1>3. CASE ~(run[p].next < NumHosts)
  <2> DEFINE r == [run[p] EXCEPT !.pc = done, !.next = 1]
  <2>1. run[p].next = NumHosts
    BY <1>1, <1>3 DEF Hosts
  <2>2. run' = [run EXCEPT ![p] = r]
    BY <1>3 DEF Onward
  <2>3. r \in Run /\ r.pc = done /\ r.previous = run[p].previous /\ r.next = 1
        /\ r.failed = run[p].failed
    BY <1>1 DEF Run
  <2> HIDE DEF r
  <2> QED BY <1>1, <2>1, <2>2, <2>3
<1> QED BY <1>2, <1>3

-----------------------------------------------------------------------------
(* Steps of the only process                                               *)

LEMMA Concludes ==
    ASSUME OneOperator, NEW p \in Cli, Typed', RecordedOriginal', ActiveIsPublic', Knows(p)'
    PROVE  TunnelInv'
<1>1. \A q \in Cli : q = p
  BY DEF OneOperator
<1>2. \A q \in Cli : Knows(q)'
  BY <1>1
<1> QED BY <1>2 DEF TunnelInv

(* A run that ends with the receipt and the public state as they were.     *)
LEMMA EndKeeps ==
    ASSUME OneOperator, TunnelInv, NEW p \in Cli, run' \in [Cli -> Run], run'[p].pc = "idle",
           UNCHANGED <<public, file, before, undone>>, flag' \in BOOLEAN
    PROVE  TunnelInv'
<1>1. Typed' /\ RecordedOriginal' /\ ActiveIsPublic'
  BY DEF TunnelInv, Typed, RecordedOriginal, ActiveIsPublic, AllHp
<1>2. Knows(p)'
  BY DEF Knows, Preparing, Applying, Undoing
<1> QED BY <1>1, <1>2, Concludes

LEMMA BeginsKeeps ==
    ASSUME OneOperator, TunnelInv, NEW p \in Cli, ApplyBegins(p)
    PROVE  TunnelInv'
<1> DEFINE pc == IF file.status = "none" THEN "planning" ELSE "archiving"
           r == [Idle EXCEPT !.command = "apply", !.pc = pc]
<1>1. file.status \in Archivable /\ UNCHANGED <<public, file, flag, before, undone>>
      /\ run' = [run EXCEPT ![p] = r]
  BY DEF ApplyBegins, NoCall, NoWrite
<1>2. pc \in {"planning", "archiving"}
  OBVIOUS
<1> HIDE DEF pc
<1>3. r \in Run /\ r.pc = pc
  BY <1>2, IdleTyped DEF TunnelInv, Run, Pcs
<1> HIDE DEF r
<1>4. run' \in [Cli -> Run] /\ run'[p].pc = pc
  BY <1>1, <1>3 DEF TunnelInv, Typed
<1>5. Typed' /\ RecordedOriginal' /\ ActiveIsPublic'
  BY <1>1, <1>4 DEF TunnelInv, Typed, RecordedOriginal, ActiveIsPublic, AllHp
<1>6. Knows(p)'
  BY <1>1, <1>2, <1>4 DEF Knows, Preparing, Applying, Undoing
<1> QED BY <1>5, <1>6, Concludes

LEMMA ArchivesKeeps ==
    ASSUME OneOperator, TunnelInv, NEW p \in Cli, Archives(p)
    PROVE  TunnelInv'
<1>1. /\ run[p].pc = "archiving" /\ Go(p, "planning")
      /\ file' = [status |-> "none", previous |-> before]
      /\ UNCHANGED <<public, flag, before, undone>>
  BY DEF Archives, NoCall
<1>2. run' \in [Cli -> Run] /\ run'[p].pc = "planning"
  BY <1>1, GoTyped DEF TunnelInv, Pcs
<1>3. file.status \in Archivable
  BY <1>1 DEF TunnelInv, Knows, Preparing
<1>4. Typed' /\ RecordedOriginal' /\ ActiveIsPublic'
  BY <1>1, <1>2, <1>3
     DEF TunnelInv, Typed, FileStatus, RecordedOriginal, ActiveIsPublic, Archivable
<1>5. Knows(p)'
  BY <1>1, <1>2 DEF Knows, Archivable, Preparing, Applying, Undoing
<1> QED BY <1>4, <1>5, Concludes

LEMMA PlansKeeps ==
    ASSUME OneOperator, TunnelInv, NEW p \in Cli, Plans(p)
    PROVE  TunnelInv'
<1> DEFINE r == [run[p] EXCEPT !.pc = "recording", !.previous = public]
<1>1. /\ run[p].pc = "planning" /\ UNCHANGED <<public, file, flag, before, undone>>
      /\ run' = [run EXCEPT ![p] = r]
  BY DEF Plans, Quiet, NoCall, NoWrite
<1>2. r \in Run /\ r.pc = "recording" /\ r.previous = public
  BY DEF TunnelInv, Typed, Run, Pcs
<1> HIDE DEF r
<1>3. run' \in [Cli -> Run] /\ run'[p] = r
  BY <1>1, <1>2 DEF TunnelInv, Typed
<1>4. file.status \in Archivable
  BY <1>1 DEF TunnelInv, Knows, Preparing
<1>5. public = before
  BY <1>4 DEF TunnelInv, RecordedOriginal, Archivable
<1>6. Typed' /\ RecordedOriginal' /\ ActiveIsPublic'
  BY <1>1, <1>3 DEF TunnelInv, Typed, RecordedOriginal, ActiveIsPublic, AllHp
<1>7. Knows(p)'
  BY <1>1, <1>2, <1>3, <1>4, <1>5 DEF Knows, Preparing, Applying, Undoing
<1> QED BY <1>6, <1>7, Concludes

LEMMA RecordsKeeps ==
    ASSUME OneOperator, TunnelInv, NEW p \in Cli, Records(p)
    PROVE  TunnelInv'
<1>1. /\ run[p].pc = "recording" /\ Go(p, "routing")
      /\ file' = [status |-> "applying", previous |-> run[p].previous]
      /\ UNCHANGED <<public, flag, before, undone>>
  BY DEF Records, NoCall
<1>2. run' \in [Cli -> Run] /\ run'[p].pc = "routing" /\ run'[p].previous = run[p].previous
  BY <1>1, GoTyped DEF TunnelInv, Pcs
<1>3. run[p].previous = before
  BY <1>1 DEF TunnelInv, Knows
<1>4. Typed' /\ RecordedOriginal' /\ ActiveIsPublic'
  BY <1>1, <1>2, <1>3 DEF TunnelInv, Typed, FileStatus, RecordedOriginal, ActiveIsPublic
<1>5. Knows(p)'
  BY <1>1, <1>2, <1>3 DEF Knows, Preparing, Applying, Undoing
<1> QED BY <1>4, <1>5, Concludes

(* While the receipt is there and is "applying", or an undoing has begun,  *)
(* Cloudflare may be changed freely.                                       *)
LEMMA ChangeKeeps ==
    ASSUME TunnelInv, public' \in Public, run' \in [Cli -> Run],
           file.status \in Unfinished, file.status = "applying" \/ undone',
           UNCHANGED <<file, flag, before>>, undone' \in BOOLEAN
    PROVE  Typed' /\ RecordedOriginal' /\ ActiveIsPublic'
<1>1. Typed'
  BY DEF TunnelInv, Typed
<1>2. RecordedOriginal'
  BY DEF TunnelInv, RecordedOriginal, Unfinished
<1>3. ActiveIsPublic'
  BY DEF TunnelInv, ActiveIsPublic
<1> QED BY <1>1, <1>2, <1>3

(* A step of the apply that goes on.                                       *)
LEMMA AppliesKeeps ==
    ASSUME OneOperator, TunnelInv, NEW p \in Cli, run[p].pc \in Applying \ {"activating"},
           public' \in Public, run' \in [Cli -> Run], run'[p].pc \in Applying,
           run'[p].pc = "activating" => public' = AllHp,
           run'[p].previous = run[p].previous, UNCHANGED <<file, flag, before, undone>>
    PROVE  TunnelInv'
<1>1. file.status = "applying" /\ run[p].previous = before
  BY DEF TunnelInv, Knows
<1>2. Typed' /\ RecordedOriginal' /\ ActiveIsPublic'
  BY <1>1, ChangeKeeps DEF Unfinished, TunnelInv, Typed
<1>3. AllHp' = AllHp
  BY DEF AllHp
<1>4. Knows(p)'
  BY <1>1, <1>3 DEF Knows, Preparing, Applying, Undoing
<1> QED BY <1>2, <1>4, Concludes

LEMMA RoutesKeeps ==
    ASSUME OneOperator, TunnelInv, NEW p \in Cli,
           Routes(p) \/ Deletes(p) \/ Creates(p) \/ Verifies(p)
    PROVE  TunnelInv'
<1>1. run[p].next \in Hosts
  BY DEF TunnelInv, Typed, Run
<1>2. CASE Routes(p)
  <2>1. /\ run[p].pc = "routing" /\ Go(p, "deleting") /\ Routed(AllHp.routes)
        /\ UNCHANGED <<file, flag, before, undone>>
    BY <1>2 DEF Routes, Routed, NoWrite
  <2>2. public' \in Public
    BY <2>1, AllHpTyped, RoutedTyped DEF TunnelInv
  <2>3. run' \in [Cli -> Run] /\ run'[p].pc = "deleting" /\ run'[p].previous = run[p].previous
    BY <2>1, GoTyped DEF TunnelInv, Pcs
  <2> QED BY <2>1, <2>2, <2>3, AppliesKeeps DEF Applying
<1>3. CASE Deletes(p)
  <2>1. /\ run[p].pc = "deleting" /\ Go(p, "creating") /\ UNCHANGED <<file, flag, undone>>
        /\ UNCHANGED <<public, before>> \/ Named(run[p].next, "none")
    BY <1>3 DEF Deletes, NoWrite
  <2>2. public' \in Public /\ before' = before
    BY <1>1, <2>1, NamedTyped DEF TunnelInv, Typed, Named
  <2>3. run' \in [Cli -> Run] /\ run'[p].pc = "creating" /\ run'[p].previous = run[p].previous
    BY <2>1, GoTyped DEF TunnelInv, Pcs
  <2> QED BY <2>1, <2>2, <2>3, AppliesKeeps DEF Applying
<1>4. CASE Creates(p)
  <2>1. /\ run[p].pc = "creating" /\ Named(run[p].next, "hp")
        /\ Onward(p, "deleting", "verifying") /\ UNCHANGED <<file, flag, undone>>
    BY <1>4 DEF Creates, NoWrite
  <2>2. public' \in Public /\ before' = before
    BY <1>1, <2>1, NamedTyped DEF TunnelInv, Named
  <2>3. /\ run' \in [Cli -> Run] /\ run'[p].pc \in {"deleting", "verifying"}
        /\ run'[p].previous = run[p].previous
    <3>1. "deleting" \in Pcs /\ "verifying" \in Pcs
      BY DEF Pcs
    <3> QED BY <2>1, <3>1, OnwardTyped DEF TunnelInv
  <2> QED BY <2>1, <2>2, <2>3, AppliesKeeps DEF Applying
<1>5. CASE Verifies(p)
  <2>1. /\ run[p].pc = "verifying" /\ Go(p, "activating") /\ public = AllHp
        /\ UNCHANGED <<public, file, flag, before, undone>>
    BY <1>5 DEF Verifies, Quiet, NoCall, NoWrite
  <2>2. /\ run' \in [Cli -> Run] /\ run'[p].pc = "activating"
        /\ run'[p].previous = run[p].previous
    BY <2>1, GoTyped DEF TunnelInv, Pcs
  <2>3. public' = AllHp /\ public' \in Public
    BY <2>1, AllHpTyped
  <2> QED BY <2>1, <2>2, <2>3, AppliesKeeps DEF Applying
<1> QED BY <1>2, <1>3, <1>4, <1>5

LEMMA CompletesKeeps ==
    ASSUME OneOperator, TunnelInv, NEW p \in Cli, Completes(p)
    PROVE  TunnelInv'
<1>1. CASE run[p].pc = "activating"
  <2>1. /\ file' = [status |-> "active", previous |-> run[p].previous] /\ undone' = FALSE
        /\ Go(p, "flagging") /\ UNCHANGED <<public, flag, before>>
    BY <1>1 DEF Completes
  <2>2. run' \in [Cli -> Run] /\ run'[p].pc = "flagging" /\ run'[p].previous = run[p].previous
    BY <2>1, GoTyped DEF TunnelInv, Pcs
  <2>3. run[p].previous = before /\ public = AllHp
    BY <1>1 DEF TunnelInv, Knows, Applying
  <2>4. AllHp' = AllHp
    BY DEF AllHp
  <2>5. Typed' /\ RecordedOriginal' /\ ActiveIsPublic'
    BY <2>1, <2>2, <2>3, <2>4
       DEF TunnelInv, Typed, FileStatus, RecordedOriginal, ActiveIsPublic
  <2>6. Knows(p)'
    BY <2>1, <2>2, <2>3, <2>4 DEF Knows, Preparing, Applying, Undoing
  <2> QED BY <2>5, <2>6, Concludes
<1>2. CASE run[p].pc = "flagging"
  <2>1. Ends(p) /\ flag' = TRUE /\ UNCHANGED <<public, file, before, undone>>
    BY <1>2 DEF Completes
  <2> QED BY <2>1, EndsTyped, EndKeeps DEF TunnelInv
<1> QED BY <1>1, <1>2 DEF Completes

LEMMA EndingsKeep ==
    ASSUME OneOperator, TunnelInv, NEW p \in Cli,
           ApplyRefused(p) \/ CloseFails(p) \/ Dies(p)
    PROVE  TunnelInv'
<1>1. Ends(p) /\ UNCHANGED <<public, file, flag, before, undone>>
  BY DEF ApplyRefused, CloseFails, Dies, NoCall, NoWrite
<1> QED BY <1>1, EndsTyped, EndKeeps DEF TunnelInv, Typed

(* A failure of the apply turns to the undoing, whatever took effect.      *)
LEMMA FailsKeeps ==
    ASSUME OneOperator, TunnelInv, NEW p \in Cli, ApplyFails(p)
    PROVE  TunnelInv'
<1> DEFINE r == [run[p] EXCEPT !.pc = "unrouting", !.next = 1]
           h == run[p].next
<1>1. run' = [run EXCEPT ![p] = r] /\ undone' = TRUE /\ UNCHANGED <<file, flag>>
  BY DEF ApplyFails, Caught, NoWrite
<1>2. run[p] \in Run /\ h \in Hosts
  BY DEF TunnelInv, Typed, Run
<1>3. r \in Run /\ r.pc = "unrouting" /\ r.previous = run[p].previous /\ r.next = 1
  BY <1>2, HostsTyped DEF Run, Pcs
<1>4. /\ run[p].pc \in Applying \cup {"flagging"}
      /\ \/ UNCHANGED <<public, before>>
         \/ Routed(AllHp.routes) \/ Named(h, "none") \/ Named(h, "hp")
  <2>1. CASE run[p].pc = "routing" /\ (Routed(AllHp.routes) \/ UNCHANGED <<public, before>>)
    BY <2>1 DEF Applying
  <2>2. CASE run[p].pc = "deleting" /\ (Named(h, "none") \/ UNCHANGED <<public, before>>)
    BY <2>2 DEF Applying
  <2>3. CASE run[p].pc = "creating" /\ (Named(h, "hp") \/ UNCHANGED <<public, before>>)
    BY <2>3 DEF Applying
  <2>4. CASE run[p].pc \in {"verifying", "activating", "flagging"} /\ UNCHANGED <<public, before>>
    BY <2>4 DEF Applying
  <2>5. CASE Disturbed(p) /\ run[p].pc # "restoring" /\ UNCHANGED <<public, before>>
    BY <2>5 DEF Disturbed, Applying
  <2> QED BY <2>1, <2>2, <2>3, <2>4, <2>5 DEF ApplyFails
<1>5. file.status \in Unfinished /\ run[p].previous = before
  BY <1>4 DEF TunnelInv, Knows, Unfinished
<1> HIDE DEF r, h
<1>6. run' \in [Cli -> Run] /\ run'[p] = r
  BY <1>1, <1>3 DEF TunnelInv, Typed
<1>7. public' \in Public /\ before' = before
  <2>1. CASE UNCHANGED <<public, before>>
    BY <2>1 DEF TunnelInv, Typed
  <2>2. CASE Routed(AllHp.routes)
    BY <2>2, AllHpTyped, RoutedTyped DEF TunnelInv, Routed
  <2>3. CASE Named(h, "none") \/ Named(h, "hp")
    BY <1>2, <2>3, NamedTyped DEF TunnelInv, Named
  <2> QED BY <1>4, <2>1, <2>2, <2>3
<1>8. Typed' /\ RecordedOriginal' /\ ActiveIsPublic'
  BY <1>1, <1>5, <1>6, <1>7, ChangeKeeps
<1>9. Knows(p)'
  BY <1>1, <1>3, <1>5, <1>6, <1>7 DEF Knows, Preparing, Applying, Undoing
<1> QED BY <1>8, <1>9, Concludes

LEMMA RollbackKeeps ==
    ASSUME OneOperator, TunnelInv, NEW p \in Cli, RollbackBegins(p)
    PROVE  TunnelInv'
<1> DEFINE r == [Idle EXCEPT !.pc = "unrouting", !.command = "rollback", !.previous = file.previous]
<1>1. /\ file.status \in {"active", "rollback-failed"} /\ undone' = TRUE
      /\ run' = [run EXCEPT ![p] = r] /\ UNCHANGED <<public, file, flag, before>>
  BY DEF RollbackBegins, NoWrite
<1>2. r \in Run /\ r.pc = "unrouting" /\ r.previous = file.previous /\ r.next = 1
  BY IdleTyped DEF TunnelInv, Typed, Run, Pcs
<1> HIDE DEF r
<1>3. run' \in [Cli -> Run] /\ run'[p] = r
  BY <1>1, <1>2 DEF TunnelInv, Typed
<1>4. file.previous = before /\ file.status \in Unfinished
  BY <1>1 DEF TunnelInv, RecordedOriginal, Unfinished
<1>5. Typed' /\ RecordedOriginal' /\ ActiveIsPublic'
  BY <1>1, <1>3, <1>4, ChangeKeeps DEF TunnelInv, Typed
<1>6. Knows(p)'
  BY <1>1, <1>2, <1>3, <1>4 DEF Knows, Preparing, Applying, Undoing
<1> QED BY <1>5, <1>6, Concludes

LEMMA UndoesKnow ==
    ASSUME TunnelInv, NEW p \in Cli, run[p].pc \in Undoing
    PROVE  /\ file.status \in Unfinished /\ run[p].previous = before /\ undone
           /\ run[p] \in Run /\ run[p].next \in Hosts /\ before \in Public
           /\ before.routes \in [Hosts -> {"old", "hp"}]
           /\ before.dns \in [Hosts -> {"none", "old", "hp"}]
  BY DEF TunnelInv, Knows, Typed, Run, Public

LEMMA UnroutesKeeps ==
    ASSUME OneOperator, TunnelInv, NEW p \in Cli, Unroutes(p) \/ Clears(p)
    PROVE  TunnelInv'
<1>1. /\ run[p].pc \in {"unrouting", "clearing"} /\ UNCHANGED <<file, flag, before, undone>>
      /\ run[p].pc \in Undoing
  BY DEF Unroutes, Clears, Routed, Named, NoWrite, Undoing
<1>2. /\ file.status \in Unfinished /\ run[p].previous = before /\ undone
      /\ run[p].next \in Hosts /\ before.routes \in [Hosts -> {"old", "hp"}]
  BY <1>1, UndoesKnow
<1>3. CASE Unroutes(p)
  <2>1. Routed(before.routes) /\ Go(p, "clearing")
    BY <1>2, <1>3 DEF Unroutes
  <2>2. public' \in Public /\ public'.routes = before.routes
    BY <1>2, <2>1, RoutedTyped DEF TunnelInv
  <2>3. /\ run' \in [Cli -> Run] /\ run'[p].pc = "clearing" /\ run'[p].next = run[p].next
        /\ run'[p].previous = run[p].previous
    BY <2>1, GoTyped DEF TunnelInv, Pcs
  <2>4. Typed' /\ RecordedOriginal' /\ ActiveIsPublic'
    BY <1>1, <1>2, <2>2, <2>3, ChangeKeeps DEF TunnelInv, Typed
  <2>5. run[p].next = 1
    BY <1>3 DEF TunnelInv, Knows, Unroutes
  <2>6. Knows(p)'
    BY <1>1, <1>2, <2>2, <2>3, <2>5 DEF Knows, Preparing, Applying, Undoing
  <2> QED BY <2>4, <2>6, Concludes
<1>4. CASE Clears(p)
  <2> DEFINE h == run[p].next
  <2>1. Named(h, "none") /\ Go(p, "restoring") /\ run[p].pc = "clearing"
    BY <1>4 DEF Clears
  <2>2. /\ public' \in Public /\ public'.routes = public.routes
        /\ \A k \in Hosts \ {h} : public'.dns[k] = public.dns[k]
    BY <1>2, <2>1, NamedTyped DEF TunnelInv
  <2>3. /\ run' \in [Cli -> Run] /\ run'[p].pc = "restoring" /\ run'[p].next = h
        /\ run'[p].previous = run[p].previous
    BY <2>1, GoTyped DEF TunnelInv, Pcs
  <2>4. Typed' /\ RecordedOriginal' /\ ActiveIsPublic'
    BY <1>1, <1>2, <2>2, <2>3, ChangeKeeps DEF TunnelInv, Typed
  <2>5. /\ public.routes = before.routes
        /\ \A k \in 1 .. h - 1 : public.dns[k] = before.dns[k]
    BY <2>1 DEF TunnelInv, Knows
  <2>6. \A k \in 1 .. h - 1 : k \in Hosts \ {h}
    BY <1>2, TunnelCutoverAssumption DEF Hosts
  <2>7. \A k \in 1 .. h - 1 : public'.dns[k] = before.dns[k]
    BY <2>2, <2>5, <2>6
  <2>8. Knows(p)'
    BY <1>1, <1>2, <2>2, <2>3, <2>5, <2>7 DEF Knows, Preparing, Applying, Undoing
  <2> QED BY <2>4, <2>8, Concludes
<1> QED BY <1>3, <1>4

LEMMA RestoresKeeps ==
    ASSUME OneOperator, TunnelInv, NEW p \in Cli, Restores(p)
    PROVE  TunnelInv'
<1> DEFINE h == run[p].next
<1>1. /\ run[p].pc = "restoring" /\ Named(h, run[p].previous.dns[h])
      /\ Onward(p, "clearing", "closing") /\ UNCHANGED <<file, flag, before, undone>>
  BY DEF Restores, Target, Named, NoWrite
<1>2. /\ file.status \in Unfinished /\ run[p].previous = before /\ undone /\ h \in Hosts
      /\ before \in Public /\ before.dns \in [Hosts -> {"none", "old", "hp"}]
  BY <1>1, UndoesKnow DEF Undoing
<1>3. /\ public' \in Public /\ public'.routes = public.routes
      /\ public'.dns[h] = before.dns[h] /\ \A k \in Hosts \ {h} : public'.dns[k] = public.dns[k]
  BY <1>1, <1>2, NamedTyped DEF TunnelInv
<1>4. /\ public.routes = before.routes
      /\ \A k \in 1 .. h - 1 : public.dns[k] = before.dns[k]
  BY <1>1 DEF TunnelInv, Knows
<1>5. \A k \in 1 .. h : public'.dns[k] = before.dns[k]
  <2>1. ASSUME NEW k \in 1 .. h
        PROVE  k = h \/ (k \in 1 .. h - 1 /\ k \in Hosts \ {h})
    BY <1>2, TunnelCutoverAssumption DEF Hosts
  <2> QED BY <1>3, <1>4, <2>1
<1>6. /\ run' \in [Cli -> Run] /\ run'[p].previous = run[p].previous
      /\ \/ h < NumHosts /\ run'[p].pc = "clearing" /\ run'[p].next = h + 1
         \/ h = NumHosts /\ run'[p].pc = "closing" /\ run'[p].next = 1
  <2>1. "clearing" \in Pcs /\ "closing" \in Pcs
    BY DEF Pcs
  <2> QED BY <1>1, <2>1, OnwardTyped DEF TunnelInv
<1>7. Typed' /\ RecordedOriginal' /\ ActiveIsPublic'
  BY <1>1, <1>2, <1>3, <1>6, ChangeKeeps DEF TunnelInv, Typed
<1>8. CASE run'[p].pc = "clearing" /\ run'[p].next = h + 1
  <2>0. h \in Nat
    BY <1>2, HostsTyped
  <2> HIDE DEF h
  <2>1. (h + 1) - 1 = h
    BY <2>0
  <2>2. \A k \in 1 .. run'[p].next - 1 : public'.dns[k] = before.dns[k]
    BY <1>5, <1>8, <2>1
  <2>3. Knows(p)'
    BY <1>1, <1>2, <1>3, <1>4, <1>6, <1>8, <2>2 DEF Knows, Preparing, Applying, Undoing
  <2> QED BY <1>7, <2>3, Concludes
<1>9. CASE h = NumHosts /\ run'[p].pc = "closing"
  <2>1. public' = before
    <3>1. \A k \in Hosts : public'.dns[k] = before.dns[k]
      BY <1>5, <1>9 DEF Hosts
    <3> QED BY <1>2, <1>3, <1>4, <3>1, SamePublic
  <2>2. Knows(p)'
    BY <1>1, <1>2, <1>6, <1>9, <2>1 DEF Knows, Preparing, Applying, Undoing
  <2> QED BY <1>7, <2>2, Concludes
<1> QED BY <1>6, <1>8, <1>9

LEMMA UndoFailsKeeps ==
    ASSUME OneOperator, TunnelInv, NEW p \in Cli, UndoFails(p)
    PROVE  TunnelInv'
<1> DEFINE h == run[p].next
           r == [run[p] EXCEPT !.pc = "closing", !.failed = TRUE]
<1>1. Gives(p) /\ UNCHANGED <<file, flag, undone>> /\ run[p].pc \in Undoing
  BY DEF UndoFails, NoWrite, Undoing
<1>2. /\ file.status \in Unfinished /\ run[p].previous = before /\ undone /\ h \in Hosts
      /\ run[p] \in Run /\ before.routes \in [Hosts -> {"old", "hp"}]
      /\ before.dns \in [Hosts -> {"none", "old", "hp"}]
  BY <1>1, UndoesKnow
<1>3. \/ UNCHANGED <<public, before>>
      \/ Routed(before.routes) \/ Named(h, "none") \/ Named(h, before.dns[h])
  BY <1>2 DEF UndoFails, Target
<1> HIDE DEF h
<1>4. public' \in Public /\ before' = before
  <2>1. CASE UNCHANGED <<public, before>>
    BY <2>1 DEF TunnelInv, Typed
  <2>2. CASE Routed(before.routes)
    BY <1>2, <2>2, RoutedTyped DEF TunnelInv, Routed
  <2>3. CASE Named(h, "none") \/ Named(h, before.dns[h])
    BY <1>2, <2>3, NamedTyped DEF TunnelInv, Named
  <2> QED BY <1>3, <2>1, <2>2, <2>3
<1>5. CASE run[p].command = "apply"
  <2>1. run' = [run EXCEPT ![p] = r]
    BY <1>1, <1>5 DEF Gives
  <2>2. r \in Run /\ r.pc = "closing" /\ r.failed = TRUE /\ r.previous = before
    BY <1>2 DEF Run, Pcs
  <2> HIDE DEF r
  <2>3. run' \in [Cli -> Run] /\ run'[p] = r
    BY <2>1, <2>2 DEF TunnelInv, Typed
  <2>4. Typed' /\ RecordedOriginal' /\ ActiveIsPublic'
    BY <1>1, <1>2, <1>4, <2>3, ChangeKeeps DEF TunnelInv, Typed
  <2>5. Knows(p)'
    BY <1>1, <1>2, <1>4, <2>2, <2>3 DEF Knows, Preparing, Applying, Undoing
  <2> QED BY <2>4, <2>5, Concludes
<1>6. CASE run[p].command # "apply"
  <2>1. run' \in [Cli -> Run] /\ run'[p].pc = "idle"
    BY <1>1, <1>6, EndsTyped DEF Gives, TunnelInv
  <2>2. Typed' /\ RecordedOriginal' /\ ActiveIsPublic'
    BY <1>1, <1>2, <1>4, <2>1, ChangeKeeps DEF TunnelInv, Typed
  <2>3. Knows(p)'
    BY <2>1 DEF Knows, Preparing, Applying, Undoing
  <2> QED BY <2>2, <2>3, Concludes
<1> QED BY <1>5, <1>6

(* The outcome is written: "rolled-back" only over the original state.     *)
LEMMA ClosesKeeps ==
    ASSUME OneOperator, TunnelInv, NEW p \in Cli, Closes(p)
    PROVE  TunnelInv'
<1> DEFINE status == IF run[p].failed THEN "rollback-failed" ELSE "rolled-back"
<1>1. /\ run[p].pc = "closing" /\ UNCHANGED <<public, flag, before, undone>>
      /\ file' = [status |-> status, previous |-> run[p].previous]
      /\ Ends(p) \/ Go(p, "unflagging")
      /\ Go(p, "unflagging") \/ run[p].command = "apply"
  BY DEF Closes, NoCall
<1>2. run[p].previous = before /\ (~run[p].failed => public = before)
  BY <1>1, UndoesKnow DEF TunnelInv, Knows, Undoing
<1>3. run' \in [Cli -> Run] /\ run'[p].pc \in {"idle", "unflagging"}
  BY <1>1, EndsTyped, GoTyped DEF TunnelInv, Pcs
<1>4. Typed'
  BY <1>1, <1>2, <1>3 DEF TunnelInv, Typed, FileStatus
<1>5. RecordedOriginal' /\ ActiveIsPublic'
  BY <1>1, <1>2 DEF RecordedOriginal, ActiveIsPublic
<1>6. Knows(p)'
  BY <1>1, <1>3 DEF Knows, Preparing, Applying, Undoing
<1> QED BY <1>4, <1>5, <1>6, Concludes

LEMMA UnflagsKeeps ==
    ASSUME OneOperator, TunnelInv, NEW p \in Cli, Unflags(p)
    PROVE  TunnelInv'
<1>1. Ends(p) /\ flag' = FALSE /\ UNCHANGED <<public, file, before, undone>>
  BY DEF Unflags, NoCall
<1> QED BY <1>1, EndsTyped, EndKeeps DEF TunnelInv

(* Nothing but the flag of the promotion changes.                          *)
LEMMA FlagKeeps ==
    ASSUME TunnelInv, UNCHANGED <<public, file, run, before, undone>>, flag' \in BOOLEAN
    PROVE  TunnelInv'
<1>1. Typed' /\ RecordedOriginal' /\ ActiveIsPublic'
  BY DEF TunnelInv, Typed, RecordedOriginal, ActiveIsPublic, AllHp
<1>2. \A p \in Cli : Knows(p)'
  BY DEF TunnelInv, Knows, AllHp
<1> QED BY <1>1, <1>2 DEF TunnelInv

LEMMA TunnelInitially == TunnelInit => TunnelInv
<1> SUFFICES ASSUME TunnelInit PROVE TunnelInv
  OBVIOUS
<1>1. before \in Public /\ public = before /\ flag = FALSE /\ undone = FALSE
      /\ file = [status |-> "none", previous |-> before] /\ run = [p \in Cli |-> Idle]
  BY DEF TunnelInit, Public
<1>2. Idle \in Run /\ Idle.pc = "idle"
  BY <1>1, HostsTyped DEF Idle, Run, Pcs
<1>3. Typed /\ RecordedOriginal /\ ActiveIsPublic
  BY <1>1, <1>2 DEF Typed, FileStatus, RecordedOriginal, ActiveIsPublic
<1>4. \A p \in Cli : Knows(p)
  BY <1>1, <1>2 DEF Knows, Preparing, Applying, Undoing
<1> QED BY <1>3, <1>4 DEF TunnelInv

LEMMA TunnelKept ==
    ASSUME OneOperator
    PROVE  TunnelInv /\ [TunnelNext]_tunnelVars => TunnelInv'
<1> SUFFICES ASSUME TunnelInv, [TunnelNext]_tunnelVars PROVE TunnelInv'
  OBVIOUS
<1>1. ASSUME NEW p \in Cli, Apply(p) PROVE TunnelInv'
  BY <1>1, BeginsKeeps, ArchivesKeeps, PlansKeeps, RecordsKeeps, EndingsKeep, RoutesKeeps,
     CompletesKeeps, FailsKeeps DEF Apply
<1>2. ASSUME NEW p \in Cli, Undo(p) PROVE TunnelInv'
  BY <1>2, RollbackKeeps, UnroutesKeeps, RestoresKeeps, UndoFailsKeeps, ClosesKeeps,
     UnflagsKeeps, EndingsKeep DEF Undo
<1>3. ASSUME NEW p \in Cli, Dies(p) PROVE TunnelInv'
  BY <1>3, EndingsKeep
<1>4. CASE Repairs
  BY <1>4, FlagKeeps DEF Repairs
<1>5. CASE UNCHANGED tunnelVars
  BY <1>5, FlagKeeps DEF tunnelVars, TunnelInv, Typed
<1> QED BY <1>1, <1>2, <1>3, <1>4, <1>5 DEF TunnelNext

(* Whatever fails and whenever the process dies, a public state other than *)
(* the original one can be restored from the receipt, which names it.      *)
THEOREM OriginalRecorded ==
    ASSUME OneOperator
    PROVE  TunnelSpec => []RecordedOriginal
<1>1. TunnelInv /\ [TunnelNext]_tunnelVars => TunnelInv'
  BY TunnelKept
<1>2. TunnelInv => RecordedOriginal
  BY DEF TunnelInv
<1> QED BY <1>1, <1>2, TunnelInitially, PTL DEF TunnelSpec

(* A receipt that says "active" is true: every host is routed and named to *)
(* HP until an undoing begins.                                             *)
THEOREM ActiveTrue ==
    ASSUME OneOperator
    PROVE  TunnelSpec => []ActiveIsPublic
<1>1. TunnelInv /\ [TunnelNext]_tunnelVars => TunnelInv'
  BY TunnelKept
<1>2. TunnelInv => ActiveIsPublic
  BY DEF TunnelInv
<1> QED BY <1>1, <1>2, TunnelInitially, PTL DEF TunnelSpec
================================================================================
