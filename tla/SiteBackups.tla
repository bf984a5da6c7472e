------------------------------ MODULE SiteBackups ------------------------------
(***************************************************************************)
(* The backup sets of one website and the jobs that make and use them:     *)
(* backups, retention, the daily schedule and restore of                   *)
(* lib/backup-manager.js, and the controlled WordPress update of           *)
(* lib/wordpress-update-manager.js with its rollback.                      *)
(*                                                                         *)
(* One job runs at a time: every one of them holds "server-heavy" (module  *)
(* JobManager) and the manager's own lock.  Only the route that deletes a  *)
(* set holds neither.  The website is the version of its files and of its  *)
(* database, which an update changes together, and its maintenance file.   *)
(* Sets are numbered in the order of their names, which are times.         *)
(***************************************************************************)
EXTENDS Naturals, FiniteSets

CONSTANTS
    Retentions,    \* what the operator chooses from, "Backup sets to keep"
    MaxSets, MaxUpdates, MaxDays, MaxFaults, MaxCrashes   \* bounds

ASSUME SiteBackupsAssumption ==
    /\ Retentions \subseteq Nat \ {0}
    /\ {MaxSets, MaxUpdates, MaxDays, MaxFaults, MaxCrashes} \subseteq Nat

VARIABLES
    site,        \* [files, db, maintenance]: Broken if lost or half imported
    sets,        \* sets[id]: the website in it, if suspect, the day it was completed, if daily
    made,        \* number of the newest set ever made
    retention,   \* backup-settings.json
    day, scheduled,   \* today, lastScheduledDate
    job,         \* what the running job does
    suspect,     \* history: a job died or reported a failed rollback, or the website
                 \* was restored from a set made after one or by a rollback
    bounds       \* [updates, faults, crashes]

vars == <<site, sets, made, retention, day, scheduled, job, suspect, bounds>>

Broken == 0
Idle == [kind |-> "none", pc |-> "idle"]

At(pc) == job.pc = pc
Goes(pc) == job' = [job EXCEPT !.pc = pc]

Fault == bounds.faults < MaxFaults /\ bounds' = [bounds EXCEPT !.faults = @ + 1]

-----------------------------------------------------------------------------
(* Retention                                                               *)

Newer(id, ids) == {other \in ids : other > id}

(* applyRetention: history is sorted by name, newest first.                *)
Kept(all, keep) ==
    [id \in {i \in DOMAIN all : Cardinality(Newer(i, DOMAIN all)) < keep} |-> all[id]]

Without(id) == [i \in DOMAIN sets \ {id} |-> sets[i]]

-----------------------------------------------------------------------------
(* Starting a job.  begin is the website at its start.                     *)

Task(kind, pc, target, date) ==
    [kind |-> kind, pc |-> pc, target |-> target, safety |-> 0,
     taken |-> site, begin |-> site, date |-> date]

Starts(task) ==
    /\ At("idle") /\ site.files # Broken
    /\ job' = task
    /\ UNCHANGED <<site, sets, made, retention, day, scheduled, suspect, bounds>>

Backup == Starts(Task("backup", "archive", 0, 0))
Restore == \E id \in DOMAIN sets : Starts(Task("restore", "verify", id, 0))
Update == bounds.updates < MaxUpdates /\ Starts(Task("update", "archive", 0, 0))

(* Mutant: a retried schedule does not look for the set of the same day.   *)
CompleteOnNever(date) == FALSE

(* hasCompleteBackupOnDate.                                                *)
CompleteOn(date) == \E id \in DOMAIN sets : sets[id].day = date

(* runScheduled and the part of runScheduledWork for this website.  The    *)
(* rest of the daily job may fail, or the process die, before the date is  *)
(* written; the schedule then tries again.                                 *)
Schedule ==
    /\ scheduled # day
    /\ \/ /\ ~CompleteOn(day) /\ Starts(Task("backup", "archive", 0, day))
       \/ /\ CompleteOn(day) /\ At("idle") /\ site.files # Broken
          /\ scheduled' = day
          /\ UNCHANGED <<site, sets, made, retention, day, job, suspect, bounds>>

-----------------------------------------------------------------------------
(* createSiteBackup                                                        *)

Archives ==
    /\ At("archive")
    /\ job' = [job EXCEPT !.pc = "dump", !.taken = site]
    /\ UNCHANGED <<site, sets, made, retention, day, scheduled, suspect, bounds>>

Dumps ==
    /\ At("dump")
    /\ job' = [job EXCEPT !.pc = "publish", !.taken.db = site.db]
    /\ UNCHANGED <<site, sets, made, retention, day, scheduled, suspect, bounds>>

Published ==
    [id \in DOMAIN sets \cup {made + 1} |->
        IF id \in DOMAIN sets THEN sets[id]
        ELSE [site |-> job.taken, suspect |-> suspect \/ job.kind = "rollback",
              day |-> day, daily |-> job.date # 0]]

Keep == IF job.kind = "backup" THEN retention ELSE retention + 1

(* The rename, and the retention that follows it.                          *)
Publishes ==
    /\ At("publish") /\ made < MaxSets /\ made' = made + 1
    /\ sets' = Kept(Published, Keep)
    /\ job' = CASE job.kind = "backup" -> Idle
                [] job.kind = "update" -> [job EXCEPT !.pc = "check", !.target = made']
                [] OTHER -> [job EXCEPT !.pc = "extract", !.safety = made']
    /\ \/ scheduled' = IF job.date # 0 THEN job.date ELSE scheduled
       \/ job.date # 0 /\ UNCHANGED scheduled
    /\ UNCHANGED <<site, retention, day, suspect, bounds>>

-----------------------------------------------------------------------------
(* restoreSiteBackup                                                       *)

(* Ownership and checksums of the set.                                     *)
Verifies ==
    /\ At("verify") /\ job.target \in DOMAIN sets
    /\ Goes("archive")
    /\ UNCHANGED <<site, sets, made, retention, day, scheduled, suspect, bounds>>

Extracts ==
    /\ At("extract") /\ job.target \in DOMAIN sets
    /\ job' = [job EXCEPT !.pc = "swap", !.taken = sets[job.target].site]
    /\ UNCHANGED <<site, sets, made, retention, day, scheduled, suspect, bounds>>

(* The old directory is kept aside until the database is imported.         *)
Swaps ==
    /\ At("swap")
    /\ site' = [site EXCEPT !.files = job.taken.files, !.maintenance = job.taken.maintenance]
    /\ Goes("import")
    /\ UNCHANGED <<sets, made, retention, day, scheduled, suspect, bounds>>

Imports ==
    /\ At("import") /\ job.target \in DOMAIN sets
    /\ site' = [site EXCEPT !.db = job.taken.db]
    /\ sets' = Kept(sets, retention)
    /\ suspect' = sets[job.target].suspect
    /\ job' = IF job.kind = "restore" THEN Idle ELSE [job EXCEPT !.pc = "revalidate"]
    /\ UNCHANGED <<made, retention, day, scheduled, bounds>>

ImportFails ==
    /\ At("import")
    /\ \/ Fault /\ site' \in {site, [site EXCEPT !.db = Broken]}
       \/ job.target \notin DOMAIN sets /\ UNCHANGED <<site, bounds>>
    /\ Goes("undo")
    /\ UNCHANGED <<sets, made, retention, day, scheduled, suspect>>

(* Mutant: only the files are put back.                                    *)
UndoesFiles ==
    /\ At("undo")
    /\ site' = [site EXCEPT !.files = job.begin.files, !.maintenance = job.begin.maintenance]
    /\ job' = IF job.kind = "restore" THEN Idle ELSE [job EXCEPT !.pc = "leave"]
    /\ UNCHANGED <<sets, made, retention, day, scheduled, suspect, bounds>>

(* Mutant: the database of the chosen set is imported.                     *)
UndoesChosen ==
    /\ At("undo")
    /\ site' = [job.begin EXCEPT !.db = job.taken.db]
    /\ job' = IF job.kind = "restore" THEN Idle ELSE [job EXCEPT !.pc = "leave"]
    /\ UNCHANGED <<sets, made, retention, day, scheduled, suspect, bounds>>

(* The old directory comes back and the database of the safety set is      *)
(* imported; if that fails the error of the job says so.                   *)
Undoes ==
    /\ At("undo")
    /\ LET back == [site EXCEPT !.files = job.begin.files, !.maintenance = job.begin.maintenance]
       IN \/ /\ job.safety \in DOMAIN sets
             /\ site' = [back EXCEPT !.db = sets[job.safety].site.db]
             /\ UNCHANGED <<suspect, bounds>>
          \/ /\ Fault \/ (job.safety \notin DOMAIN sets /\ UNCHANGED bounds)
             /\ site' \in {back, [back EXCEPT !.db = Broken]}
             /\ suspect' = TRUE
    /\ job' = IF job.kind = "restore" THEN Idle ELSE [job EXCEPT !.pc = "leave"]
    /\ UNCHANGED <<sets, made, retention, day, scheduled>>

-----------------------------------------------------------------------------
(* The update, WordPressUpdateManager.apply                                *)

(* verifySiteBackup.                                                       *)
Checks ==
    /\ At("check") /\ job.target \in DOMAIN sets
    /\ Goes("on")
    /\ UNCHANGED <<site, sets, made, retention, day, scheduled, suspect, bounds>>

(* Maintenance mode on.                                                    *)
Closes ==
    /\ At("on")
    /\ site' = [site EXCEPT !.maintenance = TRUE] /\ Goes("apply")
    /\ UNCHANGED <<sets, made, retention, day, scheduled, suspect, bounds>>

NewVersion == bounds.updates + 2

(* applyOperations, with the database upgrade, and validateWordPress.      *)
AppliesUpdate ==
    /\ At("apply")
    /\ site' = [site EXCEPT !.files = NewVersion, !.db = NewVersion]
    /\ bounds' = [bounds EXCEPT !.updates = @ + 1]
    /\ Goes("off")
    /\ UNCHANGED <<sets, made, retention, day, scheduled, suspect>>

Opens ==
    /\ At("off")
    /\ site' = [site EXCEPT !.maintenance = FALSE] /\ Goes("probe")
    /\ UNCHANGED <<sets, made, retention, day, scheduled, suspect, bounds>>

(* The HTTP checks; the caches are purged.                                 *)
Probes ==
    /\ At("probe") /\ job' = Idle
    /\ UNCHANGED <<site, sets, made, retention, day, scheduled, suspect, bounds>>

(* What a step that failed may have done.                                  *)
Half ==
    CASE At("on") -> {site, [site EXCEPT !.maintenance = TRUE]}
      [] At("off") -> {site, [site EXCEPT !.maintenance = FALSE]}
      [] At("apply") ->
            [files : {site.files, NewVersion}, db : {site.db, NewVersion}, maintenance : {TRUE}]
      [] OTHER -> {site}

(* Any failure after the backup: maintenance mode on, and the restore of   *)
(* the set made before.                                                    *)
UpdateFails ==
    /\ job.pc \in {"check", "on", "apply", "off", "probe"}
    /\ \E half \in Half, closed \in BOOLEAN :
          site' = [half EXCEPT !.maintenance = @ \/ closed]
    /\ bounds' = [bounds EXCEPT !.faults = @ + 1, !.updates = IF At("apply") THEN @ + 1 ELSE @]
    /\ bounds.faults < MaxFaults
    /\ job' = [Task("rollback", "verify", job.target, 0) EXCEPT !.begin = site']
    /\ UNCHANGED <<sets, made, retention, day, scheduled, suspect>>

(* The restored website is validated, opened and checked.                  *)
Revalidates ==
    /\ At("revalidate")
    /\ site' = [site EXCEPT !.maintenance = FALSE]
    /\ job' = Idle
    /\ UNCHANGED <<sets, made, retention, day, scheduled, suspect, bounds>>

(* The rollback failed: "rollback failed" in the job's error; maintenance  *)
(* mode is switched off if that works.                                     *)
Leaves ==
    /\ At("leave")
    /\ \/ site' = [site EXCEPT !.maintenance = FALSE] /\ UNCHANGED bounds
       \/ Fault /\ UNCHANGED site
    /\ suspect' = TRUE /\ job' = Idle
    /\ UNCHANGED <<sets, made, retention, day, scheduled>>

-----------------------------------------------------------------------------
(* A step fails before the website is touched: the job fails, the partial  *)
(* set and the staging directory are removed.  A rollback leaves.          *)
Fails ==
    /\ job.pc \in {"verify", "archive", "dump", "publish", "extract", "swap"}
    /\ \/ Fault
       \/ job.pc \in {"verify", "extract"} /\ job.target \notin DOMAIN sets /\ UNCHANGED bounds
    /\ job' = IF job.kind = "rollback" THEN [job EXCEPT !.pc = "leave"] ELSE Idle
    /\ UNCHANGED <<site, sets, made, retention, day, scheduled, suspect>>

(* The panel dies; its jobs are not resumed.  Between the two renames the  *)
(* website has no directory, and a set may be published but nothing pruned.*)
Dies ==
    /\ ~At("idle")
    /\ bounds.crashes < MaxCrashes /\ bounds' = [bounds EXCEPT !.crashes = @ + 1]
    /\ \/ At("swap") /\ site' = [site EXCEPT !.files = Broken] /\ UNCHANGED <<sets, made>>
       \/ At("import") /\ site' = [site EXCEPT !.db = Broken] /\ UNCHANGED <<sets, made>>
       \/ site' \in Half /\ UNCHANGED <<sets, made>>
       \/ /\ At("publish") /\ made < MaxSets /\ made' = made + 1
          /\ sets' = Published /\ UNCHANGED site
    /\ suspect' = (suspect \/ job.kind \in {"update", "restore", "rollback"})
    /\ job' = Idle
    /\ UNCHANGED <<retention, day, scheduled>>

-----------------------------------------------------------------------------
(* The operator and the calendar                                           *)

(* The route asks for no lock.                                             *)
Deletes ==
    /\ \E id \in DOMAIN sets : sets' = Without(id)
    /\ UNCHANGED <<site, made, retention, day, scheduled, job, suspect, bounds>>

ChangesRetention ==
    /\ retention' \in Retentions \ {retention}
    /\ UNCHANGED <<site, sets, made, day, scheduled, job, suspect, bounds>>

Midnight ==
    /\ day < MaxDays /\ day' = day + 1
    /\ UNCHANGED <<site, sets, made, retention, scheduled, job, suspect, bounds>>

Init ==
    /\ site = [files |-> 1, db |-> 1, maintenance |-> FALSE]
    /\ sets = <<>> /\ made = 0 /\ retention \in Retentions
    /\ day = 1 /\ scheduled = 0 /\ job = Idle /\ suspect = FALSE
    /\ bounds = [updates |-> 0, faults |-> 0, crashes |-> 0]

Creates == Archives \/ Dumps \/ Publishes
Restores == Verifies \/ Extracts \/ Swaps \/ Imports \/ ImportFails \/ Undoes
Updates == Checks \/ Closes \/ AppliesUpdate \/ Opens \/ Probes \/ UpdateFails \/ Revalidates \/ Leaves
Operator == Backup \/ Restore \/ Update \/ Deletes \/ ChangesRetention

Next == Creates \/ Restores \/ Updates \/ Fails \/ Dies \/ Operator \/ Schedule \/ Midnight

Spec == Init /\ [][Next]_vars

-----------------------------------------------------------------------------
(* Properties                                                              *)

(* Unless a job died or reported that its rollback failed, the website is  *)
(* whole whenever no job runs: its files and its database are of the same  *)
(* version and it is not left in maintenance, whichever step of a restore, *)
(* of an update or of a rollback failed.                                   *)
SiteWhole ==
    At("idle") /\ ~suspect => site.files = site.db /\ ~site.maintenance

(* A restore that ends without such a report leaves the website as it was  *)
(* before or as it is in the chosen set; an update leaves it updated or as *)
(* in the set it made first.                                               *)
AllOrNothing ==
    [][job.pc # "idle" /\ job'.pc = "idle" /\ ~suspect' =>
          \/ site' = job.begin
          \/ job.kind \in {"restore", "rollback"} /\ site' = [job.taken EXCEPT !.maintenance = FALSE]
          \/ job.kind = "restore" /\ site' = job.taken
          \/ job.kind = "update" /\ site'.files = site'.db /\ site'.files > job.begin.files]_vars

(* A day has one daily set at most, though the job was tried again after a *)
(* failure of its rest or a restart, or ran past midnight.                 *)
OneDaily ==
    \A m, n \in DOMAIN sets :
        sets[m].daily /\ sets[n].daily /\ sets[m].day = sets[n].day => m = n

(* "The Restore action is available for every website backup set": a       *)
(* restore finds its set until it has extracted it, unless the operator    *)
(* deleted the set.                                                        *)
RestoreFindsSet ==
    [][job.kind = "restore" /\ job.target \in DOMAIN sets /\ job'.pc = "extract"
          => job.target \in DOMAIN sets' \/ sets' = Without(job.target)]_vars
================================================================================
