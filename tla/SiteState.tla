------------------------------- MODULE SiteState -------------------------------
(***************************************************************************)
(* What changes under the runtime lock besides the transactions of         *)
(* RuntimeTransaction: the switches and the page-cache version of a site   *)
(* (lib/site-state-transaction.js), PHP-FPM profiles                       *)
(* (lib/pool-preset-apply.js) and the isolation of static routes by the    *)
(* CLI (lib/static-route-migration.js).  And what changes the same files   *)
(* without it: SiteState.update() and purge(), PUT /api/pool-presets and   *)
(* the boot of the panel.                                                  *)
(*                                                                         *)
(* There is one WordPress website with a pool, and one static site that    *)
(* may still have a pool and a PHP route.  The lock is RuntimeTransaction's*)
(* and here a single step.                                                 *)
(***************************************************************************)
EXTENDS Integers, Sequences

CONSTANTS
    Requesters,   \* requests of the panel
    Migrator,     \* the process of migrate-static-routes
    Presets,      \* values of one profile
    MaxRequests,
    MaxDirect,    \* changes without the lock
    MaxFailures,  \* of a write, a command or a check
    MaxStops      \* of the panel or the CLI

ASSUME SiteStateAssumption ==
    /\ Migrator \notin Requesters
    /\ Presets # {}
    /\ {MaxRequests, MaxDirect, MaxFailures, MaxStops} \subseteq Nat

VARIABLES
    store,    \* the files
    served,   \* what php-fpm and nginx have loaded
    redis,    \* whether the website uses the object cache
    asked,    \* the request that each waits with for the lock
    work,     \* the transaction that has it
    pending,  \* a change without the lock whose reload is to come
    acked,    \* what callers were told is applied
    flaws,    \* undo: a rollback failed; torn: a process stopped or a reload without undo failed;
              \* stale: files changed under a transaction, or between a request and its turn
    tally     \* requests, direct changes, failures and stops so far

stateVars == <<store, served, redis, asked, work, pending, acked, flaws, tally>>

Nothing == [kind |-> "none"]
Vacant == [by |-> "nobody"]

----------------------------------------------------------------------------
(* The files *)

NginxOf(files) == [map |-> files.map, gate |-> files.gate, cache |-> files.cache]

\* renderCacheMapContent(), of the site's version.
Rendered(state) == state.version

Updated(files, state) == [files EXCEPT !.state = state, !.cache = Rendered(state)]

Bumped(state) == [state EXCEPT !.version = @ + 1]

\* migrateStaticRoutes(): a static site with PHP files in its directory becomes a PHP site, any other loses its pool.
Isolated(files, hasPhp) ==
    IF files.state.type # "static" THEN [files EXCEPT !.gate = TRUE]
    ELSE [files EXCEPT !.gate = TRUE,
                       !.map = IF hasPhp THEN "php" ELSE "none",
                       !.pools.legacy = hasPhp,
                       !.state.type = IF hasPhp THEN "generic-php" ELSE @]

\* The handler decides before the lock whether OPcache and Redis change.
OpcacheChanges(r) == r.opcache # r.seen.opcache
RedisChanges(r) == r.kind = "put" /\ r.redis # r.seen.redis

WithState(r, b) ==
    LET files == Updated(b, [b.state EXCEPT !.redis = r.redis, !.opcache = r.opcache])
    IN  [files EXCEPT !.pools.opcache = IF OpcacheChanges(r) THEN r.opcache ELSE @]

WithPlannedPools(r, b) == [b EXCEPT !.presets = r.to, !.pools = [r.seen EXCEPT !.children = r.to]]
WithPresets(r, b) == [b EXCEPT !.presets = r.to, !.pools.children = r.to]

After(r, b) ==
    CASE r.kind = "put"     -> WithState(r, b)
      [] r.kind = "purge"   -> Updated(b, Bumped(b.state))
      [] r.kind = "presets" -> WithPresets(r, b)
      [] r.kind = "migrate" -> Isolated(b, r.php)

\* "Changed after preview; preview again".
Refusable(r, b) ==
    \/ r.kind = "presets" /\ b.pools.children # r.seen.children
    \/ r.kind = "migrate" /\ \E f \in {"map", "pools", "gate", "state"} : b[f] # r.seen[f]

WriteOrder(r) ==
    CASE r.kind = "presets" -> <<"presets", "pools">>
      [] r.kind = "migrate" -> <<"map", "pools", "gate", "state">>
      [] OTHER              -> <<"state", "cache", "pools", "map">>

RestoreOrder(r) ==
    CASE r.kind = "presets" -> <<"pools", "presets">>
      [] r.kind = "migrate" -> <<"map", "pools", "gate", "state">>
      [] OTHER              -> <<"map", "pools", "state", "cache">>

\* The first n files of an order are written.
Written(order, n, content) ==
    [f \in DOMAIN store |-> IF \E i \in 1..n : order[i] = f THEN content[f] ELSE store[f]]

----------------------------------------------------------------------------
(* The course of a transaction *)

Opt(condition, steps) == IF condition THEN steps ELSE <<>>

\* applySiteStateTransaction(): only what changed is activated.
StateSteps(r, b, a) ==
    <<"write">>
    \o (IF a.pools # b.pools THEN <<"validate", "php", "nginx", "verify">>
        ELSE Opt(a.cache # b.cache, <<"validate", "nginx">>))
    \o Opt(RedisChanges(r), <<"external">>)

StepsOf(r, b, a) ==
    CASE r.kind = "presets" -> <<"write", "validate", "php", "verify">>
      [] r.kind = "migrate" -> <<"write", "validate", "php", "nginx", "verify">>
      [] OTHER              -> StateSteps(r, b, a)

StateUndoUnloaded(tried) == <<"restore", "validate">> \o Opt("external" \in tried, <<"external">>)

\* Its rollback reloads only what was to be activated.
StateUndo(tried) ==
    <<"restore", "validate">> \o Opt("external" \in tried, <<"external">>) \o Opt("php" \in tried, <<"php">>)
    \o Opt("nginx" \in tried, <<"nginx">>) \o Opt("php" \in tried, <<"verify">>)

PresetUndo(tried) == IF "php" \in tried THEN <<"restore", "validate", "php">> ELSE <<"restore">>

MigrationUndo(tried) ==
    <<"restore">> \o Opt("validate" \in tried, <<"validate", "php", "nginx", "verify">>)

Undo(r, tried) ==
    CASE r.kind = "presets" -> PresetUndo(tried)
      [] r.kind = "migrate" -> MigrationUndo(tried)
      [] OTHER              -> StateUndo(tried)

\* From its first file to its last the panel does nothing else; the CLI is another process.
InOneGo == work # Vacant /\ work.by # Migrator /\ Head(work.todo) \in {"write", "restore"}

----------------------------------------------------------------------------
(* Requests *)

Counts(counter, max) == tally[counter] < max /\ tally' = [tally EXCEPT ![counter] = @ + 1]

\* detectTier(): the pool still has the values of its profile.
Detected == store.pools.children = store.presets

Inputs ==
    [kind : {"put"}, redis : BOOLEAN, opcache : BOOLEAN,
      seen : {[redis |-> store.state.redis, opcache |-> store.state.opcache]}]
    \cup {[kind |-> "purge"]}
    \cup {r \in [kind : {"presets"}, to : Presets, seen : {store.pools}] : Detected /\ r.to # store.presets}

Asking(p, r) ==
    /\ asked[p] = Nothing /\ Counts("requests", MaxRequests)
    /\ asked' = [asked EXCEPT ![p] = r]
    /\ UNCHANGED <<store, served, redis, work, pending, acked, flaws>>

\* A request reads the files, and plans, before it waits for the lock.
Asks(p) == ~InOneGo /\ \E r \in Inputs : Asking(p, r)

\* The CLI decides what the directory holds, and plans from what it has read.
Previews == \E hasPhp \in BOOLEAN : Asking(Migrator, [kind |-> "migrate", php |-> hasPhp, seen |-> store])

Decided(r) ==
    r.kind = "put" => r.seen.redis = store.state.redis /\ r.seen.opcache = store.state.opcache

TakesTurn(p) ==
    LET r == asked[p]
        a == After(r, store)
    IN  /\ work = Vacant /\ r # Nothing
        /\ ~Refusable(r, store)
        /\ work' = [by |-> p, request |-> r, before |-> store, after |-> a, todo |-> StepsOf(r, store, a),
                    tried |-> {}, undoing |-> FALSE]
        /\ flaws' = [flaws EXCEPT !.stale = @ \/ ~Decided(r)]
        /\ UNCHANGED <<store, served, redis, asked, pending, acked, tally>>

Refuses(p) ==
    /\ work = Vacant /\ asked[p] # Nothing /\ Refusable(asked[p], store)
    /\ asked' = [asked EXCEPT ![p] = Nothing]
    /\ UNCHANGED <<store, served, redis, work, pending, acked, flaws, tally>>

----------------------------------------------------------------------------
(* Steps *)

Order == IF work.undoing THEN RestoreOrder(work.request) ELSE WriteOrder(work.request)
Contents == IF work.undoing THEN work.before ELSE work.after

\* What a step that succeeds leaves, of the files, of what is loaded, and of the website.
Takes(step) ==
    /\ store' = IF step \in {"write", "restore"} THEN Written(Order, Len(Order), Contents) ELSE store
    /\ served' = CASE step = "php"   -> [served EXCEPT !.php = store.pools]
                   [] step = "nginx" -> [served EXCEPT !.nginx = NginxOf(store)]
                   [] OTHER          -> served
    /\ redis' = IF step # "external" THEN redis
                ELSE IF work.undoing THEN work.request.seen.redis
                ELSE work.request.redis

Acknowledged(r, a) ==
    [version  |-> IF r.kind = "purge" THEN a.state.version ELSE acked.version,
     redis    |-> IF r.kind = "put" THEN r.redis ELSE acked.redis,
     opcache  |-> IF r.kind = "put" THEN r.opcache ELSE acked.opcache,
     children |-> IF r.kind = "presets" THEN r.to ELSE acked.children]

Releases == work' = Vacant /\ asked' = [asked EXCEPT ![work.by] = Nothing]

Succeeds ==
    /\ work # Vacant
    /\ Takes(Head(work.todo))
    /\ IF Len(work.todo) > 1
       THEN /\ work' = [work EXCEPT !.todo = Tail(@), !.tried = @ \cup {Head(work.todo)}]
            /\ UNCHANGED <<asked, acked>>
       ELSE /\ Releases
            /\ acked' = IF work.undoing THEN acked ELSE Acknowledged(work.request, work.after)
    /\ UNCHANGED <<pending, flaws, tally>>

\* A step fails, before its effect or after it.
FailsAt ==
    LET step == Head(work.todo)
        tried == work.tried \cup {step}
    IN  /\ work # Vacant /\ Counts("failures", MaxFailures)
        /\ \/ step \in {"write", "restore"} /\ UNCHANGED <<served, redis>>
              /\ \E n \in 0..Len(Order) - 1 : store' = Written(Order, n, Contents)
           \/ step \in {"php", "nginx", "external"} /\ Takes(step)
           \/ step \notin {"write", "restore"} /\ UNCHANGED <<store, served, redis>>
        /\ IF work.undoing
           THEN Releases /\ flaws' = [flaws EXCEPT !.undo = TRUE]
           ELSE /\ work' = [work EXCEPT !.undoing = TRUE, !.tried = tried, !.todo = Undo(work.request, tried)]
                /\ UNCHANGED <<asked, flaws>>
        /\ UNCHANGED <<pending, acked>>

----------------------------------------------------------------------------
(* Without the lock *)

Under == flaws' = [flaws EXCEPT !.stale = @ \/ work # Vacant]

\* purge() from Telegram and after an update; provisioning and imports update the file the same way.
PurgesDirectly ==
    /\ ~InOneGo /\ ~pending /\ Counts("direct", MaxDirect)
    /\ store' = Updated(store, Bumped(store.state))
    /\ acked' = [acked EXCEPT !.version = store.state.version + 1]
    /\ pending' = TRUE /\ Under
    /\ UNCHANGED <<served, redis, asked, work>>

ReloadsDirectly ==
    /\ pending /\ pending' = FALSE
    /\ \/ served' = [served EXCEPT !.nginx = NginxOf(store)] /\ Under /\ UNCHANGED tally
       \/ Counts("failures", MaxFailures) /\ flaws' = [flaws EXCEPT !.torn = TRUE] /\ UNCHANGED served
    /\ UNCHANGED <<store, redis, asked, work, acked>>

\* writePoolPresets(): the profile alone, no pool.
SavesPresets ==
    /\ ~InOneGo /\ Counts("direct", MaxDirect)
    /\ \E v \in Presets : store' = [store EXCEPT !.presets = v]
    /\ Under
    /\ UNCHANGED <<served, redis, asked, work, pending, acked>>

\* Files written when a process stops.
Leftovers ==
    IF Head(work.todo) \notin {"write", "restore"} THEN {store}
    ELSE {Written(Order, n, Contents) : n \in 0..Len(Order)}

BootsPlain(files) == files
\* A panel that is not a standby renders the cache map, and reloads nothing.
Boots(files) == Updated(files, files.state)

\* The panel stops and starts again; the lock of what it was doing is taken over after ten minutes.
PanelStops ==
    /\ Counts("stops", MaxStops)
    /\ IF work # Vacant /\ work.by # Migrator
       THEN /\ work' = Vacant /\ flaws' = [flaws EXCEPT !.torn = TRUE]
            /\ \E files \in Leftovers : store' = Boots(files)
       ELSE /\ UNCHANGED work /\ store' = Boots(store)
            /\ flaws' = [flaws EXCEPT !.torn = @ \/ pending]
    /\ asked' = [p \in DOMAIN asked |-> IF p = Migrator THEN asked[p] ELSE Nothing]
    /\ pending' = FALSE
    /\ UNCHANGED <<served, redis, acked>>

MigratorStops ==
    /\ work # Vacant /\ work.by = Migrator /\ Counts("stops", MaxStops)
    /\ \E files \in Leftovers : store' = files
    /\ Releases /\ flaws' = [flaws EXCEPT !.torn = TRUE]
    /\ UNCHANGED <<served, redis, pending, acked>>

----------------------------------------------------------------------------
StateInit ==
    /\ \E legacy \in BOOLEAN, v \in Presets :
        /\ store = [map |-> IF legacy THEN "php" ELSE "none",
                    pools |-> [opcache |-> TRUE, children |-> v, legacy |-> legacy], gate |-> FALSE,
                    state |-> [version |-> 1, redis |-> FALSE, opcache |-> TRUE, type |-> "static"],
                    cache |-> 1, presets |-> v]
        /\ acked = [version |-> 1, redis |-> FALSE, opcache |-> TRUE, children |-> v]
    /\ served = [php |-> store.pools, nginx |-> NginxOf(store)]
    /\ redis = FALSE
    /\ asked = [p \in Requesters \cup {Migrator} |-> Nothing]
    /\ work = Vacant /\ pending = FALSE
    /\ flaws = [undo |-> FALSE, torn |-> FALSE, stale |-> FALSE]
    /\ tally = [requests |-> 0, direct |-> 0, failures |-> 0, stops |-> 0]

\* Nobody is left waiting: anything else is a deadlock.
Rests == work = Vacant /\ ~pending /\ (\A p \in DOMAIN asked : asked[p] = Nothing) /\ UNCHANGED stateVars

StateNext ==
    \/ \E p \in Requesters : Asks(p)
    \/ Previews
    \/ \E p \in Requesters \cup {Migrator} : TakesTurn(p) \/ Refuses(p)
    \/ Succeeds \/ FailsAt
    \/ PurgesDirectly \/ ReloadsDirectly \/ SavesPresets
    \/ PanelStops \/ MigratorStops \/ Rests

StateSpec == StateInit /\ [][StateNext]_stateVars

----------------------------------------------------------------------------
(* Properties *)

Quiet == work = Vacant /\ ~pending
Sound == ~flaws.undo /\ ~flaws.torn /\ ~flaws.stale

\* site-state.json, cache.map, the pools, the loaded configuration and the website's object cache say the same between
\* transactions, whichever of their steps failed and was rolled back; the two panel files even after a crash and a boot.
Agreement ==
    /\ Quiet /\ ~flaws.undo /\ ~flaws.stale => store.cache = Rendered(store.state)
    /\ Quiet /\ Sound =>
        /\ served.php = store.pools /\ served.nginx = NginxOf(store)
        /\ store.state.redis = redis /\ store.state.opcache = store.pools.opcache

\* What a caller was told is applied is in the files until another caller changes it: no later transaction or rollback
\* takes it back, although it planned from older files.
AppliedStays ==
    Quiet /\ Sound =>
        /\ store.state.version = acked.version /\ store.state.redis = acked.redis
        /\ store.pools.opcache = acked.opcache /\ store.pools.children = acked.children

\* docs/UI_GUIDE.md:64, of purges without the lock as well: a version once served is never served again.
PurgeStays == store.state.version >= acked.version

\* docs/OPERATIONS.md:641, "applies Redis integration inside the same coordinated operation", of requests that were
\* decided on a state another one changes before their turn as well.
SwitchesAgree == Quiet /\ ~flaws.undo /\ ~flaws.torn => store.state.redis = redis
================================================================================
