----------------------------- MODULE SiteLifecycle -----------------------------
(***************************************************************************)
(* How a website comes and goes: provisioning (ui-manager/app/server.js,   *)
(* lib/provisioner.js), import of an uploaded archive or of a portable     *)
(* bundle (lib/migration-manager.js, lib/provision-import-store.js),       *)
(* and removal (lib/site-removal-plan.js).                                 *)
(*                                                                         *)
(* These jobs all conflict on "server-heavy", so one runs at a time; hosts *)
(* edited by hand take no part in that and may change the runtime files    *)
(* between any two steps.  A commit or a rollback of the runtime files is  *)
(* one step here: RuntimeTransaction opens it.                             *)
(*                                                                         *)
(* A site has a directory, a pool and a database of its own name: distinct *)
(* domains are taken to have distinct database names.  Alias is a host     *)
(* added by hand on the directory of a site.  DNS, proxy hosts and         *)
(* certificates only ever warn when a site is made, and are one step that  *)
(* may fail when it is removed.                                            *)
(***************************************************************************)
EXTENDS Naturals, Sequences, FiniteSets

CONSTANTS
    Sites, Alias, None,
    MaxFaults,   \* bound: commands, writes and probes that fail
    MaxCrashes,  \* bound: restarts of the panel
    Unswept,     \* may work fail where it has files or a database nobody has noted?
    LateAlias    \* may a host be added to a site whose removal has been planned?

ASSUME SiteLifecycleAssumption ==
    /\ Alias \notin Sites /\ None \notin Sites
    /\ MaxFaults \in Nat /\ MaxCrashes \in Nat
    /\ Unswept \in BOOLEAN /\ LateAlias \in BOOLEAN

Hosts == Sites \cup {Alias}
Fresh == {"app", "plain", "shop"}
Imports == {"upload", "import"}
Resources == {"runtime", "pool", "database", "files"}
Obstacles == {"route", "pool", "files", "database"}

VARIABLES
    rt,        \* [routes, pools]: sites.map and pools.conf
    disk,      \* disk[s]: the website directory
    dbs,       \* dbs[s]: the database and its user
    linked,    \* sites whose configuration has the name and password of their database
    job,       \* the heavy job that runs, or the outcome of the last one
    spoiled,   \* history: sites broken as their report says, by a crash, or as asked
    faults, crashes

vars == <<rt, disk, dbs, linked, job, spoiled, faults, crashes>>

Route == [root : Sites, pool : Sites]
Own(s) == [root |-> s, pool |-> s]
Queues == {<<s>> : s \in Sites} \cup {q \in Sites \X Sites : q[1] # q[2]}
Elements(q) == {q[i] : i \in DOMAIN q}
Ending == {"idle", "done", "failed"}

Busy == job.pc \notin Ending
Site == job.sites[job.at]
Targets == Elements(job.sites)

(* Sites with a database are routed before they are installed.             *)
Building == IF Busy /\ job.kind \in {"app", "shop"} THEN Targets ELSE {}

World == <<rt, disk, dbs, linked>>
Counters == <<faults, crashes>>

(* A step goes right, or fails with the effect it leaves: a fault is used. *)
Right == UNCHANGED faults
Fault == faults < MaxFaults /\ faults' = faults + 1

Job(kind, sites, adopt, sel, step) ==
    [kind |-> kind, sites |-> sites, at |-> 1, pc |-> step, adopt |-> adopt, sel |-> sel,
     rt |-> None, made |-> {}, created |-> {}, applied |-> FALSE, reported |-> FALSE,
     staged |-> kind = "upload", before |-> {}]

(* What a finished job leaves behind is its outcome.                       *)
Ends(outcome, reported, staged) ==
    job' = [Job("none", <<>>, FALSE, {}, outcome) EXCEPT !.reported = reported, !.staged = staged]
Moves(step, reported) ==
    IF step = "failed" THEN Ends("failed", reported, job.staged)
    ELSE IF step = "done" THEN Ends("done", FALSE, FALSE)
    ELSE job' = [job EXCEPT !.pc = step, !.reported = reported]
Goes(step) == Moves(step, job.reported)

-----------------------------------------------------------------------------
(* What stands in the way of a website that is not there yet.              *)

Free(s) == rt.routes[s] = None
Fillable(s) == disk[s] \in {"none", "empty"}

Obstacle(kind, adopt, s) ==
    (IF Free(s) THEN {} ELSE {"route"})
      \cup (IF s \in rt.pools THEN {"pool"} ELSE {})
      \cup (IF Fillable(s) # adopt THEN {} ELSE {"files"})
      \cup (IF kind \in Imports /\ dbs[s] # "none" THEN {"database"} ELSE {})

Adding(q) == [routes |-> [h \in Hosts |-> IF h \in Elements(q) THEN Own(h) ELSE rt.routes[h]],
              pools |-> rt.pools \cup Elements(q)]

(* allocatePort and the pool of the site's name: one that is left over is  *)
(* listed twice, or refused.                                               *)
Addable(q) == \A s \in Elements(q) : Free(s) /\ s \notin rt.pools

Starts(kind, q, adopt, step) ==
    /\ ~Busy
    /\ \A s \in Elements(q) : Free(s)
    /\ job' = [Job(kind, q, adopt, {}, step) EXCEPT
                 !.rt = IF kind \in Fresh THEN rt ELSE None,
                 !.before = UNION {{s} \X Obstacle(kind, adopt, s) : s \in Elements(q)}]

-----------------------------------------------------------------------------
(* Provisioning in place: WordPress ("app"), files without a database      *)
(* ("plain"), generated or uploaded, or an uploaded OpenCart ("shop").     *)

StartFresh(kind, s) ==
    /\ Starts(kind, <<s>>, FALSE, IF kind = "app" THEN "commit" ELSE "archive")
    /\ Fillable(s) /\ disk' = [disk EXCEPT ![s] = "empty"]
    /\ UNCHANGED <<rt, dbs, linked, spoiled>> /\ UNCHANGED Counters

(* The files, generated or uploaded.  What fails or is cancelled from here *)
(* to the commit leaves them where they are.                               *)
Archive ==
    LET whole == IF job.kind = "plain" THEN "plain" ELSE "app" IN
    /\ job.pc = "archive"
    /\ \/ disk' = [disk EXCEPT ![Site] = whole] /\ Goes("commit") /\ Right
       \/ Unswept /\ Fault /\ Goes("failed")
          /\ \E left \in {"torn", whole} : disk' = [disk EXCEPT ![Site] = left]
    /\ UNCHANGED <<rt, dbs, linked, spoiled, crashes>>

(* The map and the pools are those read before the directory was made.     *)
Commit ==
    /\ job.pc = "commit"
    /\ \/ /\ rt = job.rt /\ Addable(job.sites) /\ Right
          /\ rt' = Adding(job.sites) /\ UNCHANGED disk
          /\ Goes(IF job.kind = "plain" THEN "register" ELSE "database")
       \/ /\ IF rt = job.rt /\ Addable(job.sites) THEN Fault ELSE Right
          /\ disk' = [disk EXCEPT ![Site] = "none"] /\ UNCHANGED rt
          /\ Goes("failed")
    /\ UNCHANGED <<dbs, linked, spoiled, crashes>>

(* createDatabase: a database that is there is kept, its user's password   *)
(* is not.  When it fails half way nobody drops it.                        *)
CreateDatabase ==
    LET made == [dbs EXCEPT ![Site] = IF @ = "none" THEN "bare" ELSE @] IN
    /\ job.pc = "database"
    /\ \/ /\ dbs' = made /\ linked' = linked \ {Site} /\ Right
          /\ job' = [job EXCEPT !.pc = "install", !.created = {Site},
                                !.made = IF dbs[Site] = "none" THEN {Site} ELSE {}]
       \/ /\ Fault /\ Goes("undo")
          /\ \/ dbs' = made /\ linked' = linked \ {Site}
             \/ UNCHANGED <<dbs, linked>>
    /\ UNCHANGED <<rt, disk, spoiled, crashes>>

InstallWordPress ==
    /\ job.pc = "install" /\ job.kind = "app"
    /\ \/ /\ disk' = [disk EXCEPT ![Site] = "app"] /\ dbs' = [dbs EXCEPT ![Site] = "loaded"]
          /\ linked' = linked \cup {Site} /\ Goes("register") /\ Right
       \/ /\ disk' = [disk EXCEPT ![Site] = "torn"] /\ UNCHANGED <<dbs, linked>>
          /\ Goes("undo") /\ Fault
    /\ UNCHANGED <<rt, spoiled, crashes>>

(* The dump is imported, the configuration rewritten, the storefront asked.*)
InstallShop ==
    /\ job.pc = "install" /\ job.kind = "shop"
    /\ \/ /\ dbs' = [dbs EXCEPT ![Site] = "loaded"]
          /\ linked' = linked \cup {Site} /\ Goes("register") /\ Right
       \/ Goes("undo") /\ Fault /\ UNCHANGED <<dbs, linked>>
    /\ UNCHANGED <<rt, disk, spoiled, crashes>>

(* siteState.update and the reload of nginx.                               *)
Register ==
    /\ job.pc = "register"
    /\ (Goes("finish") /\ Right) \/ (Goes("undo") /\ Fault)
    /\ UNCHANGED World /\ UNCHANGED <<spoiled, crashes>>

(* Integrations only warn, and the staged archives are removed; a failure  *)
(* here leaves a site that works.                                          *)
Finish ==
    /\ job.pc = "finish"
    /\ (Goes("done") /\ Right) \/ (Goes("failed") /\ Fault)
    /\ spoiled' = spoiled \ Targets
    /\ UNCHANGED World /\ UNCHANGED crashes

(* Rolled back only if the files are still those of this job's commit;     *)
(* otherwise the job's report says that the runtime was not recovered.     *)
Committed == [routes |-> [h \in Hosts |-> IF h \in Targets THEN Own(h) ELSE job.rt.routes[h]],
              pools |-> job.rt.pools \cup Targets]

Restores(step) ==
    \/ /\ rt = Committed /\ rt' = job.rt /\ Right /\ Goes(step) /\ UNCHANGED spoiled
    \/ /\ IF rt = Committed THEN Fault ELSE Right
       /\ Moves(step, TRUE)
       /\ spoiled' = spoiled \cup Targets /\ UNCHANGED rt

(* Fresh work is undone in this order: database, runtime and files.        *)
UndoDatabase ==
    /\ job.pc = "undo" /\ job.kind \in Fresh
    /\ Goes("undo runtime")
    /\ \/ Right /\ dbs' = [s \in Sites |-> IF s \in job.created THEN "none" ELSE dbs[s]]
          /\ linked' = linked \ job.created
       \/ job.created # {} /\ Fault /\ UNCHANGED <<dbs, linked>>
    /\ UNCHANGED <<rt, disk, spoiled, crashes>>

UndoRuntime ==
    /\ job.pc = "undo runtime"
    /\ Restores("failed")
    /\ disk' = [disk EXCEPT ![Site] = "none"]
    /\ UNCHANGED <<dbs, linked, crashes>>

-----------------------------------------------------------------------------
(* Imports: an uploaded archive, or the sites of a bundle one after        *)
(* another, extracted or adopted where they lie.                           *)

StartUpload(s) ==
    /\ Starts("upload", <<s>>, FALSE, "unpack")
    /\ UNCHANGED World /\ UNCHANGED spoiled /\ UNCHANGED Counters

(* Cancelled, or the archives are not what they have to be.                *)
Unpack ==
    /\ job.pc = "unpack"
    /\ (Goes("prepare") /\ Right) \/ (Goes("failed") /\ Fault)
    /\ UNCHANGED World /\ UNCHANGED <<spoiled, crashes>>

(* The preview is made again when the job starts, and blocks it.           *)
StartImport(q, adopt) ==
    /\ Starts("import", q, adopt, "prepare")
    /\ \A s \in Elements(q) : dbs[s] = "none" /\ (IF adopt THEN disk[s] = "app" ELSE Fillable(s))
    /\ UNCHANGED World /\ UNCHANGED spoiled /\ UNCHANGED Counters

(* Mutant: the directories of a bundle's earlier sites are forgotten.      *)
NotesLast(made) == {Site}
Notes(made) == made \cup {Site}

(* prepareWebsite.  Only a directory it returns is noted for removal.      *)
Prepare ==
    /\ job.pc = "prepare"
    /\ \/ /\ job.adopt /\ Goes("create") /\ Right /\ UNCHANGED disk
       \/ /\ ~job.adopt /\ Fillable(Site) /\ Right
          /\ disk' = [disk EXCEPT ![Site] = "app"]
          /\ job' = [job EXCEPT !.pc = "create", !.made = Notes(@)]
       \/ /\ ~job.adopt /\ ~Fillable(Site) /\ Goes("undo") /\ Right /\ UNCHANGED disk
       \/ /\ Goes("undo") /\ Fault /\ UNCHANGED disk
       \/ /\ Unswept /\ ~job.adopt /\ Fillable(Site) /\ Goes("undo") /\ Fault
          /\ disk' = [disk EXCEPT ![Site] = "torn"]
    /\ UNCHANGED <<rt, dbs, linked, spoiled, crashes>>

(* databaseExists, then createDatabaseUser, which cleans up after itself.  *)
CreateDatabaseUser ==
    /\ job.pc = "create"
    /\ \/ /\ dbs[Site] = "none" /\ Right
          /\ dbs' = [dbs EXCEPT ![Site] = "bare"] /\ linked' = linked \ {Site}
          /\ job' = [job EXCEPT !.pc = "load", !.created = @ \cup {Site}]
       \/ /\ Goes("undo") /\ (IF dbs[Site] = "none" THEN Fault ELSE Right)
          /\ UNCHANGED <<dbs, linked>>
       \/ /\ Unswept /\ dbs[Site] = "none" /\ Goes("undo") /\ Fault
          /\ dbs' = [dbs EXCEPT ![Site] = "bare"] /\ linked' = linked \ {Site}
    /\ UNCHANGED <<rt, disk, spoiled, crashes>>

ImportDatabase ==
    /\ job.pc = "load"
    /\ \/ dbs' = [dbs EXCEPT ![Site] = "loaded"] /\ Goes("configure") /\ Right
       \/ UNCHANGED dbs /\ Goes("undo") /\ Fault
    /\ UNCHANGED <<rt, disk, linked, spoiled, crashes>>

(* Mutant: one site too many.                                              *)
MoreThanAll == job.at <= Len(job.sites)
More == job.at < Len(job.sites)

(* updateWordPressDatabase or rewriteOpenCart; then the next site.         *)
Configure ==
    /\ job.pc = "configure"
    /\ \/ /\ linked' = linked \cup {Site} /\ Right
          /\ IF More THEN job' = [job EXCEPT !.at = @ + 1, !.pc = "prepare"]
                                        ELSE Goes("import commit")
       \/ UNCHANGED linked /\ Goes("undo") /\ Fault
    /\ UNCHANGED <<rt, disk, dbs, spoiled, crashes>>

(* configureRuntime reads the files now, and the commit follows.           *)
ImportCommit ==
    /\ job.pc = "import commit"
    /\ \/ /\ Addable(job.sites) /\ Right /\ rt' = Adding(job.sites)
          /\ job' = [job EXCEPT !.pc = "probe", !.rt = rt, !.applied = TRUE]
       \/ /\ (IF Addable(job.sites) THEN Fault ELSE Right) /\ Goes("undo")
          /\ UNCHANGED rt
    /\ UNCHANGED <<disk, dbs, linked, spoiled, crashes>>

(* An OpenCart storefront has to answer.                                   *)
Probe ==
    /\ job.pc = "probe"
    /\ (Goes("settle") /\ Right) \/ (Goes("undo") /\ Fault)
    /\ UNCHANGED World /\ UNCHANGED <<spoiled, crashes>>

(* DNS, proxy and addresses only warn; the panel's state and the last      *)
(* reload may fail, and nothing is undone any more.                        *)
Settle ==
    /\ job.pc = "settle"
    /\ \/ Goes(IF job.kind = "upload" THEN "finish" ELSE "done") /\ Right
       \/ Goes("failed") /\ Fault
    /\ spoiled' = spoiled \ Targets
    /\ UNCHANGED World /\ UNCHANGED crashes

(* An import is undone in this order: runtime, databases, files.           *)
UndoImportRuntime ==
    /\ job.pc = "undo" /\ job.kind \in Imports
    /\ IF job.applied THEN Restores("undo databases")
                      ELSE Goes("undo databases") /\ Right /\ UNCHANGED <<rt, spoiled>>
    /\ UNCHANGED <<disk, dbs, linked, crashes>>

UndoImportDatabases ==
    /\ job.pc = "undo databases"
    /\ \/ Goes("undo files") /\ Right
          /\ dbs' = [s \in Sites |-> IF s \in job.created THEN "none" ELSE dbs[s]]
       \/ /\ job.created # {} /\ Fault /\ UNCHANGED dbs
          /\ Moves("undo files", TRUE)
    /\ linked' = linked \ job.created
    /\ UNCHANGED <<rt, disk, spoiled, crashes>>

UndoImportFiles ==
    /\ job.pc = "undo files" /\ Goes("failed") /\ Right
    /\ disk' = [s \in Sites |-> IF s \in job.made THEN "none" ELSE disk[s]]
    /\ UNCHANGED <<rt, dbs, linked, spoiled, crashes>>

-----------------------------------------------------------------------------
(* Removal of what the operator selected.                                  *)

(* Hosts of one directory and one pool are one site and its aliases.       *)
HostsOf(s) == {h \in Hosts : rt.routes[h] = rt.routes[s]}
Others(s) == {h \in Hosts \ HostsOf(s) : rt.routes[h] # None}

PoolSafe(s) == \A h \in Others(s) : rt.routes[h].pool # s
(* Mutant: the directory is taken for the site's own, like its pool.       *)
FilesSafeByPool(s) == \A h \in Others(s) : rt.routes[h].pool # s
FilesSafe(s) == \A h \in Others(s) : rt.routes[h].root # s

(* Every other site has to say which database it uses.                     *)
DatabaseSafe(s) ==
    /\ disk[s] = "app"
    /\ \A h \in Others(s) : rt.routes[h].root # s /\ disk[rt.routes[h].root] \in {"app", "plain"}

Selectable(sel) == sel # {} /\ ("pool" \in sel => "runtime" \in sel)
Available(s, sel) ==
    /\ "pool" \in sel => PoolSafe(s) /\ s \in rt.pools
    /\ "files" \in sel => FilesSafe(s)
    /\ "database" \in sel => DatabaseSafe(s)

(* createSiteRemovalPlan is made before the storage lock is taken.         *)
StartRemoval(s, sel) ==
    /\ ~Busy /\ ~Free(s)
    /\ Selectable(sel) /\ Available(s, sel)
    /\ job' = [Job("remove", <<s>>, FALSE, sel, "outside") EXCEPT !.rt = rt]
    /\ UNCHANGED World /\ UNCHANGED spoiled /\ UNCHANGED Counters

(* The final backup, a last chance to cancel, then DNS, proxy host and     *)
(* certificate.                                                            *)
RemoveOutside ==
    /\ job.pc = "outside"
    /\ (Goes("runtime") /\ Right) \/ (Goes("failed") /\ Fault)
    /\ UNCHANGED World /\ UNCHANGED <<spoiled, crashes>>

PlannedHosts(s) == {h \in Hosts : job.rt.routes[h] = job.rt.routes[s]}

Removing(s) ==
    [routes |-> [h \in Hosts |-> IF h \in PlannedHosts(s) THEN None ELSE rt.routes[h]],
     pools |-> IF "pool" \in job.sel THEN rt.pools \ {s} ELSE rt.pools]

Runs(c) == \A h \in Hosts : c.routes[h] # None => c.routes[h].pool \in c.pools

(* The files are read now; the hosts are those of the plan.                *)
RemoveRuntime ==
    /\ job.pc = "runtime"
    /\ \/ "runtime" \notin job.sel /\ Goes("drop") /\ Right /\ UNCHANGED rt
          /\ spoiled' = IF job.sel \cap {"database", "files"} = {} THEN spoiled ELSE spoiled \cup {Site}
       \/ /\ "runtime" \in job.sel /\ Runs(Removing(Site)) /\ Right
          /\ rt' = Removing(Site) /\ Goes("drop") /\ UNCHANGED spoiled
       \/ /\ "runtime" \in job.sel /\ (IF Runs(Removing(Site)) THEN Fault ELSE Right)
          /\ Goes("failed") /\ UNCHANGED <<rt, spoiled>>
    /\ UNCHANGED <<disk, dbs, linked, crashes>>

RemoveDatabase ==
    /\ job.pc = "drop"
    /\ \/ "database" \notin job.sel /\ Goes("delete") /\ Right /\ UNCHANGED <<dbs, linked>>
       \/ /\ "database" \in job.sel /\ Goes("delete") /\ Right
          /\ dbs' = [dbs EXCEPT ![Site] = "none"] /\ linked' = linked \ {Site}
       \/ "database" \in job.sel /\ Goes("failed") /\ Fault /\ UNCHANGED <<dbs, linked>>
    /\ UNCHANGED <<rt, disk, spoiled, crashes>>

RemoveFiles ==
    /\ job.pc = "delete" /\ Goes("done") /\ Right
    /\ disk' = IF "files" \in job.sel THEN [disk EXCEPT ![Site] = "none"] ELSE disk
    /\ UNCHANGED <<rt, dbs, linked, spoiled, crashes>>

-----------------------------------------------------------------------------
(* Hosts edited by hand, and restarts of the panel.  *)

AddAlias(r, p) ==
    /\ rt.routes[Alias] = None /\ rt.routes[r] # None /\ p \in rt.pools
    /\ LateAlias \/ ~(Busy /\ job.kind = "remove" /\ r = Site)
    /\ rt' = [rt EXCEPT !.routes[Alias] = [root |-> r, pool |-> p]]
    /\ UNCHANGED <<disk, dbs, linked, job, spoiled>> /\ UNCHANGED Counters

(* The pool goes with the last host that uses it.                          *)
DeleteHost(h) ==
    LET p == rt.routes[h].pool
        used == \E g \in Hosts \ {h} : rt.routes[g] # None /\ rt.routes[g].pool = p IN
    /\ rt.routes[h] # None
    /\ rt' = [routes |-> [rt.routes EXCEPT ![h] = None],
              pools |-> IF used THEN rt.pools ELSE rt.pools \ {p}]
    /\ UNCHANGED <<disk, dbs, linked, job, spoiled>> /\ UNCHANGED Counters

(* A job that ran is reported as interrupted and never taken up again.     *)
Crash ==
    /\ crashes < MaxCrashes /\ crashes' = crashes + 1
    /\ Ends("idle", FALSE, FALSE)
    /\ spoiled' = spoiled \cup Building
    /\ UNCHANGED World /\ UNCHANGED faults

-----------------------------------------------------------------------------
Init ==
    /\ \E r \in SUBSET Sites :
         /\ rt = [routes |-> [h \in Hosts |-> IF h \in r THEN Own(h) ELSE None], pools |-> r]
         /\ disk = [s \in Sites |-> IF s \in r THEN "app" ELSE "none"]
         /\ dbs = [s \in Sites |-> IF s \in r THEN "loaded" ELSE "none"]
         /\ linked = r
    /\ job = Job("none", <<>>, FALSE, {}, "idle")
    /\ spoiled = {} /\ faults = 0 /\ crashes = 0

Provisioning == Archive \/ Commit \/ CreateDatabase \/ InstallWordPress \/ InstallShop \/ Register \/ Finish
                  \/ UndoDatabase \/ UndoRuntime
Importing == Unpack \/ Prepare \/ CreateDatabaseUser \/ ImportDatabase \/ Configure \/ ImportCommit
               \/ Probe \/ Settle \/ UndoImportRuntime \/ UndoImportDatabases \/ UndoImportFiles
Removal == RemoveOutside \/ RemoveRuntime \/ RemoveDatabase \/ RemoveFiles

Next ==
    \/ \E s \in Sites, k \in Fresh : StartFresh(k, s)
    \/ \E s \in Sites : StartUpload(s)
    \/ \E q \in Queues, adopt \in BOOLEAN : StartImport(q, adopt)
    \/ \E s \in Sites, sel \in SUBSET Resources : StartRemoval(s, sel)
    \/ Provisioning \/ Importing \/ Removal
    \/ \E r, p \in Sites : AddAlias(r, p)
    \/ \E h \in Hosts : DeleteHost(h)
    \/ Crash

Spec == Init /\ [][Next]_vars

-----------------------------------------------------------------------------
(* The types of the variables.                                             *)
LifecycleTypeOK ==
    /\ rt \in [routes : [Hosts -> Route \cup {None}], pools : SUBSET Sites]
    /\ disk \in [Sites -> {"none", "empty", "torn", "plain", "app"}]
    /\ dbs \in [Sites -> {"none", "bare", "loaded"}]
    /\ linked \subseteq Sites /\ spoiled \subseteq Sites
    /\ job.kind \in Fresh \cup Imports \cup {"none", "remove"}
    /\ job.sites \in Queues \cup {<<>>} /\ job.sel \subseteq Resources
    /\ job.before \subseteq Sites \X Obstacles
    /\ Busy => job.at \in DOMAIN job.sites
    /\ faults \in 0..MaxFaults /\ crashes \in 0..MaxCrashes

(* Whatever jobs, failures, restarts and edits by hand do, a host that is  *)
(* routed has its pool, its whole website, and, unless the site is plain,  *)
(* its loaded database and the credentials for it: imports route a site    *)
(* last and undo that first, a removal of the routes takes them before the *)
(* data, and nobody takes what another host still uses.  Left out: a       *)
(* WordPress being installed, and the sites a report or a restart names.   *)
Served(h) ==
    LET r == rt.routes[h] IN
    /\ r.pool \in rt.pools
    /\ \/ disk[r.root] = "plain"
       \/ disk[r.root] = "app" /\ dbs[r.root] = "loaded" /\ r.root \in linked
ServedWhole ==
    \A h \in Hosts :
        rt.routes[h] # None /\ rt.routes[h].root \notin spoiled \cup Building => Served(h)

(* Failed work can be submitted again: whatever stands in its way when it  *)
(* fails stood there when it began, unless its report says that the        *)
(* recovery failed too.  Work that fails after the site works leaves it.   *)
Fails == Busy /\ job'.pc = "failed" /\ ~job'.reported
FailedWorkRepeatable ==
    [][Fails /\ job.kind \in Fresh \cup Imports /\ job.pc \notin {"settle", "finish"} =>
         \A s \in Targets : \A k \in {job.kind}, adopt \in {job.adopt} :
             /\ {s} \X (Obstacle(k, adopt, s))' \subseteq job.before
             /\ job'.staged = job.staged]_vars

(* A database that no job made goes only with a removal that selected it:  *)
(* what an earlier removal was asked to retain stays.  It does not hold:   *)
(* createDatabase takes over the database it finds, and an installation    *)
(* that fails drops it.                                                    *)
RetainedDatabaseSurvives ==
    [][\A s \in Sites :
         dbs[s] = "loaded" /\ dbs'[s] = "none" =>
             IF job.kind = "remove" THEN "database" \in job.sel
             ELSE s \in (IF job.kind \in Fresh THEN job.made ELSE job.created)]_vars
=============================================================================
