----------------------------- MODULE OffsiteBackups -----------------------------
(***************************************************************************)
(* The replication of the local backup sets to an encrypted repository in  *)
(* an object store, lib/offsite-backup-manager.js: the jobs that replicate,*)
(* check and test a restore, and the daily and weekly schedule that waits  *)
(* for them.                                                               *)
(*                                                                         *)
(* Of a set only its number is kept; a snapshot is a set of whole sets.    *)
(* The jobs hold the keys of the repository and the lock of the backup     *)
(* manager; the route that deletes a set by hand holds neither.            *)
(***************************************************************************)
EXTENDS Naturals, Sequences, FiniteSets

CONSTANTS
    KeepLast,       \* settings.retention
    MaxLocal, MaxDate, MaxSnapshots, MaxTroubles   \* bounds

ASSUME OffsiteAssumption ==
    /\ KeepLast \in 1..365
    /\ {MaxLocal, MaxDate, MaxSnapshots, MaxTroubles} \subseteq Nat

VARIABLES
    local, produced,    \* the complete local sets, and the number of the newest
    snapshots,          \* of the repository, oldest first
    replication,        \* the job that waits or runs
    scheduler,          \* what runScheduled waits for
    today, recorded,    \* lastScheduledDate; 0 for a date that is past
    resting,            \* less than 15 minutes since the last attempt
    covered,            \* history: the sets there were when the recorded run was asked for
    troubles

offsiteVars == <<local, produced, snapshots, replication, scheduler, today, recorded,
                 resting, covered, troubles>>

NoJob == [kind |-> "none", pc |-> "none"]
NotWaiting == [date |-> 0, sets |-> {}]

Trouble == troubles < MaxTroubles /\ troubles' = troubles + 1

Does(pc) == replication.pc = pc
Then(pc) == replication' = [replication EXCEPT !.pc = pc]

LatestSnapshot == IF snapshots = <<>> THEN {} ELSE snapshots[Len(snapshots)]

(* A job is over: the scheduler's wait ends with its status.               *)

(* Mutant: the date is recorded however the job ended.                     *)
RecordsAlways(status) ==
    /\ recorded' = IF scheduler.date # 0 THEN scheduler.date ELSE recorded
    /\ covered' = IF scheduler.date # 0 THEN scheduler.sets ELSE covered

Records(status) ==
    LET done == scheduler.date # 0 /\ status = "succeeded"
    IN /\ recorded' = IF done THEN scheduler.date ELSE recorded
       /\ covered' = IF done THEN scheduler.sets ELSE covered

Finishes(status) ==
    /\ replication' = NoJob
    /\ IF replication.kind = "sync"
       THEN Records(status) /\ scheduler' = NotWaiting
       ELSE UNCHANGED <<recorded, covered, scheduler>>

-----------------------------------------------------------------------------
(* Local sets                                                              *)

(* withLock of the backup manager.                                         *)
CompletesLocal ==
    /\ replication.pc \in {"none", "queued"} /\ produced < MaxLocal
    /\ produced' = produced + 1 /\ local' = local \cup {produced'}
    /\ UNCHANGED <<snapshots, replication, scheduler, today, recorded, resting, covered, troubles>>

(* Retention, or the route.  While the set is uploaded its snapshot may    *)
(* have it whole or not.                                                   *)
DeletesLocal(s) ==
    /\ local' = local \ {s}
    /\ IF Does("upload")
       THEN \E seen \in {replication.seen, replication.seen \ {s}} :
               replication' = [replication EXCEPT !.seen = seen]
       ELSE UNCHANGED replication
    /\ UNCHANGED <<produced, snapshots, scheduler, today, recorded, resting, covered, troubles>>

-----------------------------------------------------------------------------
(* The jobs: one waits or runs, and asking again for the same kind returns *)
(* it.                                                                     *)

Asks(kind) ==
    /\ Does("none")
    /\ replication' = [kind |-> kind, pc |-> "queued", seen |-> {}, created |-> FALSE]
    /\ UNCHANGED <<local, produced, snapshots, scheduler, today, recorded, resting, covered, troubles>>

Begins ==
    /\ Does("queued")
    /\ replication' = [replication EXCEPT
          !.pc = CASE replication.kind = "sync" -> "upload"
                   [] replication.kind = "check" -> "check"
                   [] OTHER -> "restore",
          !.seen = local]
    /\ UNCHANGED <<local, produced, snapshots, scheduler, today, recorded, resting, covered, troubles>>

(* --skip-if-unchanged.                                                    *)
UnchangedData == snapshots # <<>> /\ replication.seen = LatestSnapshot

Uploads ==
    /\ Does("upload") /\ Len(snapshots) < MaxSnapshots
    /\ snapshots' = IF UnchangedData THEN snapshots ELSE Append(snapshots, replication.seen)
    /\ replication' = [replication EXCEPT !.pc = "verify", !.created = ~UnchangedData]
    /\ UNCHANGED <<local, produced, scheduler, today, recorded, resting, covered, troubles>>

ChecksSnapshot ==
    /\ Does("verify") /\ Then("forget")
    /\ UNCHANGED <<local, produced, snapshots, scheduler, today, recorded, resting, covered, troubles>>

(* forget --keep-last, when the run has created a snapshot.                *)
Forgets ==
    /\ Does("forget")
    /\ snapshots' = IF replication.created /\ Len(snapshots) > KeepLast
                    THEN SubSeq(snapshots, Len(snapshots) - KeepLast + 1, Len(snapshots))
                    ELSE snapshots
    /\ Finishes("succeeded")
    /\ UNCHANGED <<local, produced, today, resting, troubles>>

ChecksRepository ==
    /\ Does("check") /\ Finishes("succeeded")
    /\ UNCHANGED <<local, produced, snapshots, today, resting, troubles>>

(* runRestoreTest: some local set, whichever is smallest, from the latest  *)
(* snapshot.                                                               *)
TestsRestore(s) ==
    /\ Does("restore")
    /\ Finishes(IF s \in LatestSnapshot THEN "succeeded" ELSE "failed")
    /\ UNCHANGED <<local, produced, snapshots, today, resting, troubles>>

(* The store cannot be reached, the job is cancelled, or the panel dies:   *)
(* then nobody waits any more.                                             *)
ReplicationFails ==
    /\ replication.pc \in {"upload", "verify", "forget", "check", "restore"}
    /\ Trouble
    /\ Finishes("failed")
    /\ UNCHANGED <<local, produced, snapshots, today, resting>>

PanelRestarts ==
    /\ Trouble
    /\ replication' = IF Does("queued") THEN replication ELSE NoJob
    /\ scheduler' = NotWaiting /\ resting' = FALSE
    /\ UNCHANGED <<local, produced, snapshots, today, recorded, covered>>

-----------------------------------------------------------------------------
(* runScheduled                                                            *)

(* The daily run: its own job, or the one that already waits or runs.      *)
ScheduledReplication ==
    /\ ~resting /\ resting' = TRUE
    /\ recorded # today
    /\ replication.kind \in {"none", "sync"}
    /\ replication' = IF Does("none")
                      THEN [kind |-> "sync", pc |-> "queued", seen |-> {}, created |-> FALSE]
                      ELSE replication
    /\ scheduler' = [date |-> today, sets |-> local]
    /\ UNCHANGED <<local, produced, snapshots, today, recorded, covered, troubles>>

QuarterHour ==
    /\ resting /\ resting' = FALSE
    /\ UNCHANGED <<local, produced, snapshots, replication, scheduler, today, recorded, covered, troubles>>

NextDate ==
    /\ today < MaxDate /\ today' = today + 1
    /\ UNCHANGED <<local, produced, snapshots, replication, scheduler, recorded, resting, covered, troubles>>

OffsiteInit ==
    /\ local = {} /\ produced = 0 /\ snapshots = <<>>
    /\ replication = NoJob /\ scheduler = NotWaiting
    /\ today = 1 /\ recorded = 0 /\ resting = FALSE /\ covered = {} /\ troubles = 0

OffsiteNext ==
    \/ CompletesLocal \/ \E s \in local : DeletesLocal(s)
    \/ \E kind \in {"sync", "check", "restore"} : Asks(kind)
    \/ Begins \/ Uploads \/ ChecksSnapshot \/ Forgets \/ ChecksRepository
    \/ \E s \in local : TestsRestore(s)
    \/ ReplicationFails \/ PanelRestarts
    \/ ScheduledReplication \/ QuarterHour \/ NextDate

OffsiteSpec == OffsiteInit /\ [][OffsiteNext]_offsiteVars

-----------------------------------------------------------------------------
(* Properties                                                              *)

(* When a day's replication is recorded as done, the latest snapshot has   *)
(* every set that was there when it was asked for and still is: whichever  *)
(* job it joined, whatever failed before, and though sets were deleted     *)
(* while they were uploaded.                                               *)
RecordedIsReplicated ==
    [][recorded' # recorded => covered' \cap local' \subseteq LatestSnapshot']_offsiteVars

(* A replication that succeeded leaves no more snapshots than are to be    *)
(* kept.                                                                   *)
RetentionApplied ==
    [][Does("forget") /\ recorded' # recorded => Len(snapshots') <= KeepLast]_offsiteVars
================================================================================
