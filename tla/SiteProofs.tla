------------------------------ MODULE SiteProofs ------------------------------
(***************************************************************************)
(* What is routed is whole, for any sites, jobs, failing steps, restarts   *)
(* and edits by hand; and what the transactions on a site's files leave    *)
(* agrees with what is loaded, for any requests and failures;              *)
(* and an uploaded bundle is the operator's file.                          *)
(*                                                                         *)
(* SiteLifecycle: a site whose files or database a job may still change is *)
(* unserved: no host is routed to it, or a report named it.  An import     *)
(* keeps that of all it made until it routes its sites, when they are      *)
(* whole, and its undo takes the routes first; a removal keeps that every  *)
(* host of the directory is one it planned to take.                        *)
(* What stands in the way of work stood there when it began, or is among   *)
(* what the work has noted and will take back.                             *)
(*                                                                         *)
(* SiteState: the files are those of before or of after a transaction, or  *)
(* are being restored; on its way what was tried is loaded, on its way     *)
(* back what is not left to do is as before.                               *)
(*                                                                         *)
(* ImportUploads: a request has written what lies between its start and    *)
(* the end of the partial file, which is the beginning of the whole one.   *)
(***************************************************************************)
EXTENDS SiteLifecycle, SiteState, ImportUploads, TLAPS

Config == [routes : [Hosts -> Route \cup {None}], pools : SUBSET Sites]

FreshSteps == {"archive", "commit", "database", "install", "register", "finish", "undo", "undo runtime"}
Making == {"unpack", "prepare", "create", "load", "configure"}
ImportSteps == Making \cup {"import commit", "probe", "settle", "finish", "undo", "undo databases", "undo files"}
RemovalSteps == {"outside", "runtime", "drop", "delete"}
Steps == Ending \cup FreshSteps \cup ImportSteps \cup RemovalSteps

JobTypes ==
    [kind : Fresh \cup Imports \cup {"none", "remove"}, sites : Queues \cup {<<>>}, at : Nat, pc : Steps,
     adopt : BOOLEAN, sel : SUBSET Resources, rt : Config \cup {None}, made : SUBSET Sites,
     created : SUBSET Sites, applied : BOOLEAN, reported : BOOLEAN, staged : BOOLEAN,
     before : SUBSET (Sites \X Obstacles)]

WorldTyped ==
    /\ rt \in Config
    /\ disk \in [Sites -> {"none", "empty", "torn", "plain", "app"}]
    /\ dbs \in [Sites -> {"none", "bare", "loaded"}]
    /\ linked \subseteq Sites /\ spoiled \subseteq Sites
    /\ faults \in 0..MaxFaults /\ crashes \in 0..MaxCrashes

Single == job.sites \in {<<s>> : s \in Sites} /\ job.at = 1

JobTyped ==
    /\ job \in JobTypes
    /\ job.kind = "none" => job.pc \in Ending
    /\ job.kind \in Fresh => job.pc \in FreshSteps /\ Single
    /\ job.kind \in Imports => job.pc \in ImportSteps /\ job.sites \in Queues /\ job.at \in DOMAIN job.sites
    /\ job.kind = "remove" => job.pc \in RemovalSteps /\ Single

(* A site's own host is routed to it, and every routed host has its pool.  *)
Fits(c) == (\A s \in Sites : c.routes[s] \in {None, Own(s)}) /\ Runs(c)
Rooted(c, s) == \E h \in Hosts : c.routes[h] # None /\ c.routes[h].root = s
Unserved(s) == s \in spoiled \/ ~Rooted(rt, s)
Whole(s) == disk[s] = "plain" \/ (disk[s] = "app" /\ dbs[s] = "loaded" /\ s \in linked)

(* Where an undo returns to, the sites of the job are not served.          *)
Returnable(c) ==
    /\ c \in Config /\ Fits(c)
    /\ \A s \in Targets : c.routes[s] = None /\ (Rooted(c, s) => s \in spoiled)

FreshSound ==
    job.kind \in Fresh =>
        /\ Returnable(job.rt)
        /\ job.pc \in {"archive", "commit"} => Unserved(Site)
        /\ job.kind = "plain" =>
             /\ job.pc \in {"archive", "commit", "register", "finish", "undo", "undo runtime"}
             /\ job.pc # "archive" => disk[Site] = "plain"
        /\ job.kind = "shop" /\ job.pc \in {"commit", "database", "install"} => disk[Site] = "app"
        /\ job.kind # "plain" /\ job.pc \in {"register", "finish"} => Whole(Site)
        /\ job.created \subseteq (IF job.kind = "plain" THEN {} ELSE {Site})

ImportSound ==
    job.kind \in Imports =>
        /\ job.made \cup job.created \subseteq Targets
        /\ job.pc \in Making \cup {"import commit"} => ~job.applied
        /\ job.pc \in {"probe", "settle", "finish"} => job.applied
        /\ ~job.applied \/ job.pc \in {"undo databases", "undo files"}
             => \A s \in job.made \cup job.created : Unserved(s)
        /\ job.applied /\ job.pc \in {"probe", "settle", "undo"} => Returnable(job.rt)
        /\ job.adopt /\ job.pc \in Making =>
             \A i \in DOMAIN job.sites : i >= job.at => disk[job.sites[i]] = "app"
        /\ job.pc \in {"create", "load", "configure"} => disk[Site] = "app"
        /\ job.pc \in {"load", "configure"} => Site \in job.created
        /\ job.pc = "configure" => dbs[Site] = "loaded"
        /\ job.pc \in Making =>
             \A i \in DOMAIN job.sites : i < job.at => Whole(job.sites[i]) /\ job.sites[i] \in job.created
        /\ job.pc \in {"import commit", "probe", "settle", "finish"} => \A s \in Targets : Whole(s)
        /\ job.pc = "import commit" => Targets \subseteq job.created

TakesData == job.sel \cap {"database", "files"} # {}
RemovalSound ==
    job.kind = "remove" =>
        /\ job.rt \in Config
        /\ "pool" \in job.sel => "runtime" \in job.sel
        /\ TakesData /\ job.pc \in {"outside", "runtime"} =>
             \A h \in Hosts : rt.routes[h] # None /\ rt.routes[h].root = Site => h \in PlannedHosts(Site)
        /\ TakesData /\ job.pc \in {"drop", "delete"} => Unserved(Site)

(* ServedWhole, but for the pool of the host, which is in Fits.            *)
RootsWhole == \A s \in Sites : Rooted(rt, s) => s \in spoiled \cup Building \/ Whole(s)

LifecycleInv ==
    /\ WorldTyped /\ JobTyped
    /\ Fits(rt) /\ RootsWhole
    /\ FreshSound /\ ImportSound /\ RemovalSound

-----------------------------------------------------------------------------
(* How a job's record moves.                                               *)
LEMMA JobFields ==
    ASSUME NEW kind, NEW sites, NEW adopt, NEW sel, NEW step
    PROVE  LET j == Job(kind, sites, adopt, sel, step) IN
           /\ j = [kind |-> kind, sites |-> sites, at |-> 1, pc |-> step, adopt |-> adopt, sel |-> sel,
                   rt |-> None, made |-> {}, created |-> {}, applied |-> FALSE, reported |-> FALSE,
                   staged |-> (kind = "upload"), before |-> {}]
  BY DEF Job

LEMMA EndsFields ==
    ASSUME NEW outcome \in Ending, NEW reported \in BOOLEAN, NEW archives \in BOOLEAN,
           Ends(outcome, reported, archives)
    PROVE  /\ job' \in JobTypes /\ job'.kind = "none" /\ job'.pc = outcome
           /\ JobTyped' /\ FreshSound' /\ ImportSound' /\ RemovalSound' /\ Building' = {}
<1>1. job' = [kind |-> "none", sites |-> <<>>, at |-> 1, pc |-> outcome, adopt |-> FALSE, sel |-> {},
              rt |-> None, made |-> {}, created |-> {}, applied |-> FALSE, reported |-> reported,
              staged |-> archives, before |-> {}]
  <2> DEFINE j == Job("none", <<>>, FALSE, {}, outcome)
  <2>1. j = [kind |-> "none", sites |-> <<>>, at |-> 1, pc |-> outcome, adopt |-> FALSE, sel |-> {},
             rt |-> None, made |-> {}, created |-> {}, applied |-> FALSE, reported |-> FALSE,
             staged |-> ("none" = "upload"), before |-> {}]
    BY JobFields
  <2>2. job' = [j EXCEPT !.reported = reported, !.staged = archives]
    BY DEF Ends
  <2> HIDE DEF j
  <2> QED BY <2>1, <2>2
<1>2. job' \in JobTypes
  BY <1>1 DEF JobTypes, Steps
<1>3. job'.kind = "none" /\ job'.pc = outcome
  BY <1>1
<1>4. JobTyped'
  BY <1>2, <1>3 DEF JobTyped, Fresh, Imports
<1>5. FreshSound' /\ ImportSound' /\ RemovalSound' /\ Building' = {}
  BY <1>3 DEF FreshSound, ImportSound, RemovalSound, Building, Busy, Fresh, Imports
<1> QED BY <1>2, <1>3, <1>4, <1>5

(* All fields but the step and whether something was reported.             *)
SameJob ==
    /\ job'.kind = job.kind /\ job'.sites = job.sites /\ job'.at = job.at /\ job'.adopt = job.adopt
    /\ job'.sel = job.sel /\ job'.rt = job.rt /\ job'.made = job.made /\ job'.created = job.created
    /\ job'.applied = job.applied

LEMMA MovesFields ==
    ASSUME job \in JobTypes, NEW step \in Steps \ {"failed", "done"}, NEW reported \in BOOLEAN,
           Moves(step, reported)
    PROVE  job' \in JobTypes /\ job'.pc = step /\ SameJob
<1>1. job' = [job EXCEPT !.pc = step, !.reported = reported]
  BY DEF Moves
<1>2. job' \in JobTypes
  BY <1>1 DEF JobTypes
<1>3. job'.pc = step /\ SameJob
  BY <1>1 DEF SameJob, JobTypes
<1> QED BY <1>2, <1>3

LEMMA MovesEnds ==
    ASSUME job \in JobTypes, NEW step \in {"failed", "done"}, NEW reported \in BOOLEAN, Moves(step, reported)
    PROVE  /\ job' \in JobTypes /\ job'.kind = "none"
           /\ JobTyped' /\ FreshSound' /\ ImportSound' /\ RemovalSound' /\ Building' = {}
<1>1. job.staged \in BOOLEAN
  BY DEF JobTypes
<1>2. CASE step = "failed"
  BY <1>1, <1>2, EndsFields DEF Moves, Ending
<1>3. CASE step = "done"
  BY <1>1, <1>3, EndsFields DEF Moves, Ending
<1> QED BY <1>2, <1>3

LEMMA Typed ==
    ASSUME JobTyped
    PROVE  /\ job \in JobTypes /\ job.reported \in BOOLEAN /\ job.pc \in Steps
           /\ job.kind \in Fresh \cup {"remove"} => Single
           /\ Building = IF job.kind \in {"app", "shop"} THEN Targets ELSE {}
  BY DEF JobTyped, JobTypes, Building, Busy, Fresh, FreshSteps, Ending

LEMMA SingleSite ==
    ASSUME Single
    PROVE  Targets = {Site} /\ Site \in Sites
  BY DEF Single, Targets, Elements, Site

LEMMA QueueSites ==
    ASSUME NEW q \in Queues
    PROVE  /\ DOMAIN q \in {{1}, {1, 2}} /\ Elements(q) \subseteq Sites /\ Len(q) \in {1, 2}
           /\ DOMAIN q = 1 .. Len(q)
           /\ \A i \in DOMAIN q : q[i] \in Sites
           /\ \A i, j \in DOMAIN q : i # j => q[i] # q[j]
<1>1. CASE \E s \in Sites : q = <<s>>
  BY <1>1 DEF Elements
<1>2. CASE q \in Sites \X Sites /\ q[1] # q[2]
  <2> PICK s, t \in Sites : q = <<s, t>>
    BY <1>2
  <2>1. s # t /\ DOMAIN q = {1, 2} /\ q[1] = s /\ q[2] = t /\ Len(q) = 2
    BY <1>2
  <2> QED BY <2>1 DEF Elements
<1> QED BY <1>1, <1>2 DEF Queues

-----------------------------------------------------------------------------
(* The runtime files.                                                      *)
LEMMA AddingFits ==
    ASSUME rt \in Config, Fits(rt), NEW q \in Queues
    PROVE  /\ Adding(q) \in Config /\ Fits(Adding(q))
           /\ \A s \in Sites : Rooted(Adding(q), s) => Rooted(rt, s) \/ s \in Elements(q)
<1>1. Elements(q) \subseteq Sites
  BY QueueSites
<1>2. Adding(q) \in Config
  BY <1>1 DEF Adding, Config, Route, Own, Hosts
<1>3. \A h \in Hosts : Adding(q).routes[h] = IF h \in Elements(q) THEN Own(h) ELSE rt.routes[h]
  BY DEF Adding
<1>4. Adding(q).pools = rt.pools \cup Elements(q)
  BY DEF Adding
<1> DEFINE c == Adding(q)
<1> HIDE DEF c
<1>5. \A h \in Elements(q) : Own(h).pool = h /\ Own(h).root = h
  BY DEF Own
<1>6. Fits(c)
  <2>1. ASSUME NEW s \in Sites
        PROVE  c.routes[s] \in {None, Own(s)}
    BY <1>3 DEF Fits, Hosts, c
  <2>2. ASSUME NEW h \in Hosts, c.routes[h] # None
        PROVE  c.routes[h].pool \in c.pools
    <3>1. CASE h \in Elements(q)
      BY <1>3, <1>4, <1>5, <3>1 DEF c
    <3>2. CASE h \notin Elements(q)
      BY <1>3, <1>4, <2>2, <3>2 DEF c, Fits, Runs
    <3> QED BY <3>1, <3>2
  <2> QED BY <2>1, <2>2 DEF Fits, Runs
<1>7. ASSUME NEW s \in Sites, NEW h \in Hosts, c.routes[h] # None, c.routes[h].root = s
      PROVE  Rooted(rt, s) \/ s \in Elements(q)
  BY <1>3, <1>5, <1>7 DEF c, Rooted
<1> QED BY <1>2, <1>6, <1>7 DEF c, Rooted

(* A rollback leads back to what was read, or its report names the sites.  *)
LEMMA RestoresFits ==
    ASSUME WorldTyped, Fits(rt), job.sites \in Queues, Returnable(job.rt), NEW step, Restores(step)
    PROVE  /\ rt' \in Config /\ Fits(rt)' /\ spoiled' \subseteq Sites /\ spoiled \subseteq spoiled'
           /\ \A s \in Sites : Rooted(rt', s) => Rooted(rt, s)
           /\ \A s \in Targets : s \in spoiled' \/ ~Rooted(rt', s)
           /\ faults' \in 0..MaxFaults
           /\ \E r \in BOOLEAN : Moves(step, IF r THEN TRUE ELSE job.reported)
<1>1. Elements(job.sites) \subseteq Sites
  BY QueueSites
<1>2. faults' \in 0..MaxFaults
  <2>1. faults' = faults \/ (faults < MaxFaults /\ faults' = faults + 1)
    BY DEF Restores, Right, Fault
  <2> QED BY <2>1, SiteLifecycleAssumption DEF WorldTyped
<1>3. \E r \in BOOLEAN : Moves(step, IF r THEN TRUE ELSE job.reported)
  BY DEF Restores, Goes
<1>4. CASE rt = Committed /\ rt' = job.rt /\ UNCHANGED spoiled
  <2>1. \A h \in Hosts : job.rt.routes[h] # None => rt.routes[h] = job.rt.routes[h]
    BY <1>4, <1>1 DEF Committed, Returnable, Targets
  <2>2. \A s \in Sites : Rooted(rt', s) => Rooted(rt, s)
    BY <1>4, <2>1 DEF Rooted
  <2>3. rt' \in Config /\ Fits(rt)'
    BY <1>4 DEF Returnable, Fits, Runs
  <2>4. \A s \in Targets : s \in spoiled' \/ ~Rooted(rt', s)
    BY <1>4 DEF Returnable
  <2> QED BY <1>2, <1>3, <1>4, <2>2, <2>3, <2>4 DEF WorldTyped
<1>5. CASE spoiled' = spoiled \cup Targets /\ UNCHANGED rt
  <2>1. rt' \in Config /\ Fits(rt)'
    BY <1>5 DEF WorldTyped, Fits, Runs
  <2> QED BY <1>1, <1>2, <1>3, <1>5, <2>1 DEF WorldTyped, Targets
<1> QED BY <1>4, <1>5 DEF Restores

(* A job that goes on has the same sites under construction.               *)
SameSites == job'.kind = job.kind /\ job'.sites = job.sites /\ job'.at = job.at

LEMMA SameBuilding ==
    ASSUME JobTyped, JobTyped', SameSites
    PROVE  Building' = Building /\ Targets' = Targets /\ Site' = Site
<1>1. Building = IF job.kind \in {"app", "shop"} THEN Targets ELSE {}
  BY Typed
<1>2. Building' = IF job'.kind \in {"app", "shop"} THEN Targets' ELSE {}
  BY DEF JobTyped, Building, Busy, Fresh, FreshSteps, Ending
<1>3. Targets' = Targets /\ Site' = Site
  BY DEF SameSites, Targets, Site, Elements
<1> QED BY <1>1, <1>2, <1>3 DEF SameSites

-----------------------------------------------------------------------------
(* What is unserved stays so when no host is routed to it anew.            *)
LEMMA UnservedStays ==
    ASSUME spoiled \subseteq spoiled', \A s \in Sites : Rooted(rt', s) => Rooted(rt, s),
           NEW s \in Sites, Unserved(s)
    PROVE  Unserved(s)'
  BY DEF Unserved, Rooted

LEMMA ReturnableStays ==
    ASSUME NEW c, Returnable(c), spoiled \subseteq spoiled', Targets' = Targets
    PROVE  Returnable(c)'
  BY DEF Returnable, Fits, Runs, Rooted

LEMMA SitesOfJob ==
    ASSUME JobTyped
    PROVE  /\ job.kind \in Fresh \cup {"remove"} => Targets = {Site} /\ Site \in Sites /\ job.sites \in Queues
           /\ job.kind \in Imports => /\ Targets \subseteq Sites /\ Site \in Sites /\ Site \in Targets
                                      /\ \A i \in DOMAIN job.sites : job.sites[i] \in Targets
<1>1. CASE job.kind \in Fresh \cup {"remove"}
  <2>1. Single
    BY <1>1, Typed
  <2>2. Targets = {Site} /\ Site \in Sites
    BY <2>1, SingleSite
  <2>3. job.sites \in Queues
    BY <2>1 DEF Single, Queues
  <2> QED BY <1>1, <2>2, <2>3 DEF Fresh, Imports
<1>2. CASE job.kind \in Imports
  <2>1. job.sites \in Queues /\ job.at \in DOMAIN job.sites
    BY <1>2 DEF JobTyped
  <2>2. Elements(job.sites) \subseteq Sites /\ \A i \in DOMAIN job.sites : job.sites[i] \in Sites
    BY <2>1, QueueSites
  <2> QED BY <1>2, <2>1, <2>2 DEF Targets, Site, Elements, Fresh, Imports
<1>3. CASE job.kind = "none"
  BY <1>3 DEF Fresh, Imports
<1> QED BY <1>1, <1>2, <1>3, Typed DEF JobTypes

(* Hosts edited by hand leave what the job relies on.                      *)
LEMMA HandKeeps ==
    ASSUME LifecycleInv, ~LateAlias,
           (\E r, p \in Sites : AddAlias(r, p)) \/ (\E h \in Hosts : DeleteHost(h))
    PROVE  LifecycleInv'
<1>1. UNCHANGED <<disk, dbs, linked, job, spoiled, faults, crashes>>
  BY DEF AddAlias, DeleteHost, Counters
<1>2. rt' \in Config /\ Fits(rt)' /\ (\A s \in Sites : Rooted(rt', s) => Rooted(rt, s)) /\ RemovalSound'
  <2>1. CASE \E r, p \in Sites : AddAlias(r, p)
    <3> PICK r, p \in Sites : AddAlias(r, p)
      BY <2>1
    <3>1. /\ rt.routes[r] # None /\ p \in rt.pools /\ ~(Busy /\ job.kind = "remove" /\ r = Site)
          /\ rt' = [rt EXCEPT !.routes[Alias] = [root |-> r, pool |-> p]]
      BY DEF AddAlias
    <3> DEFINE new == [root |-> r, pool |-> p]
    <3>2. new \in Route /\ new.root = r /\ new.pool = p
      BY DEF Route
    <3> HIDE DEF new
    <3>3. rt' = [routes |-> [rt.routes EXCEPT ![Alias] = new], pools |-> rt.pools]
      BY <3>1 DEF LifecycleInv, WorldTyped, Config, new
    <3>4. rt' \in Config /\ rt'.pools = rt.pools
      BY <3>2, <3>3 DEF LifecycleInv, WorldTyped, Config
    <3>5. \A h \in Hosts : rt'.routes[h] = IF h = Alias THEN new ELSE rt.routes[h]
      BY <3>3 DEF LifecycleInv, WorldTyped, Config, Hosts
    <3>6. Alias \notin Sites
      BY SiteLifecycleAssumption
    <3>7. Fits(rt)'
      BY <3>1, <3>2, <3>4, <3>5, <3>6 DEF LifecycleInv, Fits, Runs, Hosts
    <3>8. rt.routes[r].root = r /\ r \in Hosts
      BY <3>1 DEF LifecycleInv, Fits, Own, Hosts
    <3>9. \A s \in Sites : Rooted(rt', s) => Rooted(rt, s)
      BY <3>1, <3>2, <3>5, <3>8 DEF Rooted
    <3>10. RemovalSound'
      <4> SUFFICES ASSUME job.kind = "remove" PROVE RemovalSound'
        BY <1>1 DEF RemovalSound
      <4>1. r # Site /\ Site \in Sites
        BY <3>1, SitesOfJob DEF LifecycleInv, JobTyped, Busy, Ending, RemovalSteps
      <4>2. ASSUME NEW h \in Hosts, rt'.routes[h] # None, rt'.routes[h].root = Site
            PROVE  rt.routes[h] # None /\ rt.routes[h].root = Site
        BY <3>2, <3>5, <4>1, <4>2
      <4>3. Unserved(Site) => Unserved(Site)'
        BY <1>1, <3>9, <4>1 DEF Unserved, Site, Rooted
      <4> QED BY <1>1, <4>2, <4>3 DEF LifecycleInv, RemovalSound, TakesData, Site, PlannedHosts
    <3> QED BY <3>4, <3>7, <3>9, <3>10
  <2>2. CASE \E h \in Hosts : DeleteHost(h)
    <3> PICK g \in Hosts : DeleteHost(g)
      BY <2>2
    <3> DEFINE p == rt.routes[g].pool
               used == \E h \in Hosts \ {g} : rt.routes[h] # None /\ rt.routes[h].pool = p
    <3>1. rt' = [routes |-> [rt.routes EXCEPT ![g] = None], pools |-> IF used THEN rt.pools ELSE rt.pools \ {p}]
      BY DEF DeleteHost
    <3>2. \A h \in Hosts : rt'.routes[h] = IF h = g THEN None ELSE rt.routes[h]
      BY <3>1 DEF LifecycleInv, WorldTyped, Config
    <3>3. rt'.pools = IF used THEN rt.pools ELSE rt.pools \ {p}
      BY <3>1
    <3>4. rt' \in Config
      BY <3>1, <3>3 DEF LifecycleInv, WorldTyped, Config
    <3>5. Fits(rt)'
      BY <3>2, <3>3 DEF LifecycleInv, Fits, Runs, Hosts
    <3>6. \A s \in Sites : Rooted(rt', s) => Rooted(rt, s)
      BY <3>2 DEF Rooted
    <3>7. RemovalSound'
      <4> SUFFICES ASSUME job.kind = "remove" PROVE RemovalSound'
        BY <1>1 DEF RemovalSound
      <4>1. Site \in Sites
        BY SitesOfJob DEF LifecycleInv
      <4>2. ASSUME NEW h \in Hosts, rt'.routes[h] # None, rt'.routes[h].root = Site
            PROVE  rt.routes[h] # None /\ rt.routes[h].root = Site
        BY <3>2, <4>2
      <4>3. Unserved(Site) => Unserved(Site)'
        BY <1>1, <3>6, <4>1 DEF Unserved, Site, Rooted
      <4> QED BY <1>1, <4>2, <4>3 DEF LifecycleInv, RemovalSound, TakesData, Site, PlannedHosts
    <3> QED BY <3>4, <3>5, <3>6, <3>7
  <2> QED BY <2>1, <2>2
<1>3. WorldTyped' /\ JobTyped'
  BY <1>1, <1>2 DEF LifecycleInv, WorldTyped, JobTyped, Single
<1>4. Building' = Building /\ Targets' = Targets /\ Site' = Site
  BY <1>1 DEF Building, Busy, Targets, Site
<1>5. RootsWhole'
  BY <1>1, <1>2, <1>4 DEF LifecycleInv, RootsWhole, Rooted, Whole
<1>6. \A s \in Sites : Unserved(s) => Unserved(s)'
  BY <1>1, <1>2, UnservedStays
<1>7. \A s \in Sites : Whole(s)' = Whole(s)
  BY <1>1 DEF Whole
<1>8. FreshSound'
  <2> SUFFICES ASSUME job.kind \in Fresh PROVE FreshSound'
    BY <1>1 DEF FreshSound
  <2>1. Site \in Sites
    BY SitesOfJob DEF LifecycleInv
  <2>2. Returnable(job.rt)'
    <3>1. Returnable(job.rt)
      BY DEF LifecycleInv, FreshSound
    <3> QED BY <1>1, <1>4, <3>1 DEF Returnable, Fits, Runs, Rooted
  <2> QED BY <1>1, <1>4, <1>6, <1>7, <2>1, <2>2 DEF LifecycleInv, FreshSound
<1>9. ImportSound'
  <2> SUFFICES ASSUME job.kind \in Imports PROVE ImportSound'
    BY <1>1 DEF ImportSound
  <2>1. Targets \subseteq Sites /\ \A i \in DOMAIN job.sites : job.sites[i] \in Sites
    BY SitesOfJob DEF LifecycleInv
  <2>2. Returnable(job.rt) => Returnable(job.rt)'
    BY <1>1, <1>4 DEF Returnable, Fits, Runs, Rooted
  <2>3. ImportSound
    BY DEF LifecycleInv
  <2> QED BY <1>1, <1>4, <1>6, <1>7, <2>1, <2>2, <2>3 DEF ImportSound
<1> QED BY <1>2, <1>3, <1>5, <1>8, <1>9 DEF LifecycleInv

(* A restart of the panel names the WordPress that was being installed.    *)
LEMMA CrashKeeps ==
    ASSUME LifecycleInv, Crash
    PROVE  LifecycleInv'
<1>1. /\ UNCHANGED <<rt, disk, dbs, linked, faults>> /\ spoiled' = spoiled \cup Building
      /\ crashes < MaxCrashes /\ crashes' = crashes + 1
  BY DEF Crash, World
<1>2. JobTyped' /\ FreshSound' /\ ImportSound' /\ RemovalSound' /\ Building' = {}
  BY EndsFields DEF Crash, Ending
<1>3. Building \subseteq Sites
  BY Typed, SitesOfJob DEF LifecycleInv, Fresh
<1>4. crashes' \in 0..MaxCrashes
  BY <1>1, SiteLifecycleAssumption DEF LifecycleInv, WorldTyped
<1>5. WorldTyped'
  BY <1>1, <1>3, <1>4 DEF LifecycleInv, WorldTyped
<1>6. RootsWhole' /\ Fits(rt)'
  BY <1>1, <1>2 DEF LifecycleInv, RootsWhole, Rooted, Whole, Fits, Runs
<1> QED BY <1>2, <1>5, <1>6 DEF LifecycleInv

-----------------------------------------------------------------------------
(* A step leaves what is routed whole: the sites it does not touch by what *)
(* held before, those in x by its own doing.                               *)
LEMMA RootsKept ==
    ASSUME LifecycleInv, NEW x \in SUBSET Sites, spoiled \ x \subseteq spoiled',
           Building \subseteq x \cup Building',
           \A s \in Sites : Rooted(rt', s) => Rooted(rt, s) \/ s \in x,
           \A s \in Sites \ x : Whole(s) => Whole(s)',
           \A s \in x : s \in spoiled' \cup Building' \/ ~Rooted(rt', s) \/ Whole(s)'
    PROVE  RootsWhole'
<1> SUFFICES ASSUME NEW s \in Sites, Rooted(rt', s)
             PROVE  s \in spoiled' \cup Building' \/ Whole(s)'
  BY DEF RootsWhole, Rooted
<1>1. CASE s \in x
  BY <1>1
<1>2. CASE s \notin x
  <2>1. s \in spoiled \cup Building \/ Whole(s)
    BY <1>2 DEF LifecycleInv, RootsWhole
  <2> QED BY <1>2, <2>1
<1> QED BY <1>1, <1>2

LEMMA NotBusy ==
    ASSUME LifecycleInv, ~Busy
    PROVE  job.kind = "none" /\ Building = {}
  BY DEF LifecycleInv, JobTyped, JobTypes, Busy, Building, FreshSteps, ImportSteps, Making, RemovalSteps, Ending,
         Fresh, Imports

(* A fault that is used stays within the bound.                            *)
LEMMA FaultTyped ==
    ASSUME WorldTyped, Right \/ Fault
    PROVE  faults' \in 0..MaxFaults
  BY SiteLifecycleAssumption DEF Right, Fault, WorldTyped

-----------------------------------------------------------------------------
(* Jobs begin.                                                             *)
LEMMA StartFreshKeeps ==
    ASSUME LifecycleInv, NEW kind \in Fresh, NEW s \in Sites, StartFresh(kind, s)
    PROVE  LifecycleInv'
<1> DEFINE step == IF kind = "app" THEN "commit" ELSE "archive"
           sites == <<s>>
<1>1. /\ ~Busy /\ Free(s) /\ Fillable(s)
      /\ disk' = [disk EXCEPT ![s] = "empty"]
      /\ UNCHANGED <<rt, dbs, linked, spoiled, faults, crashes>>
  <2>1. s \in Elements(<<s>>)
    BY DEF Elements
  <2> QED BY <2>1 DEF StartFresh, Starts, Counters
<1>2. job.kind = "none" /\ Building = {}
  BY <1>1, NotBusy
<1> DEFINE before == UNION {{r} \X Obstacle(kind, FALSE, r) : r \in Elements(sites)}
<1>3. job' = [Job(kind, sites, FALSE, {}, step) EXCEPT !.rt = rt, !.before = before]
  BY DEF StartFresh, Starts
<1>4. before \subseteq Sites \X Obstacles
  <2>1. Elements(sites) \subseteq Sites
    BY DEF Elements
  <2>2. \A r \in Sites : Obstacle(kind, FALSE, r) \subseteq Obstacles
    BY DEF Obstacle, Obstacles
  <2>3. ASSUME NEW b \in before
        PROVE  b \in Sites \X Obstacles
    <3> PICK r \in Elements(sites) : b \in {r} \X Obstacle(kind, FALSE, r)
      OBVIOUS
    <3> QED BY <2>1, <2>2
  <2> QED BY <2>3
<1> HIDE DEF before, step
<1>5. job' = [kind |-> kind, sites |-> sites, at |-> 1, pc |-> step, adopt |-> FALSE, sel |-> {},
              rt |-> rt, made |-> {}, created |-> {}, applied |-> FALSE, reported |-> FALSE,
              staged |-> (kind = "upload"), before |-> before]
  <2> DEFINE j == Job(kind, sites, FALSE, {}, step)
  <2>1. j = [kind |-> kind, sites |-> sites, at |-> 1, pc |-> step, adopt |-> FALSE, sel |-> {},
             rt |-> None, made |-> {}, created |-> {}, applied |-> FALSE, reported |-> FALSE,
             staged |-> (kind = "upload"), before |-> {}]
    BY JobFields
  <2>2. job' = [j EXCEPT !.rt = rt, !.before = before]
    BY <1>3
  <2> HIDE DEF j
  <2> QED BY <2>1, <2>2
<1>6. step \in FreshSteps /\ step \in Steps /\ (kind = "plain" => step = "archive")
      /\ (kind = "shop" => step = "archive") /\ step \in {"archive", "commit"}
  BY DEF step, FreshSteps, Steps
<1>7. job' \in JobTypes /\ job'.sites = sites /\ job'.at = 1 /\ job'.kind = kind /\ job'.pc = step
      /\ job'.rt = rt /\ job'.created = {}
  <2>1. sites \in Queues
    BY DEF Queues
  <2>2. rt \in Config
    BY DEF LifecycleInv, WorldTyped
  <2> HIDE DEF sites
  <2>3. job' \in JobTypes
    BY <1>4, <1>5, <1>6, <2>1, <2>2 DEF JobTypes
  <2> QED BY <1>5, <2>3
<1>8. JobTyped' /\ ImportSound' /\ RemovalSound'
  BY <1>6, <1>7 DEF JobTyped, Single, Fresh, Imports, ImportSound, RemovalSound
<1>9. Targets' = {s} /\ Site' = s
  BY <1>7 DEF Targets, Elements, Site
<1>10. Rooted(rt, s) => s \in spoiled
  BY <1>1, <1>2 DEF LifecycleInv, RootsWhole, Whole, Fillable
<1>11. WorldTyped' /\ Fits(rt)'
  BY <1>1 DEF LifecycleInv, WorldTyped, Fits, Runs
<1>12. RootsWhole'
  <2>1. \A r \in Sites \ {s} : Whole(r) => Whole(r)'
    BY <1>1 DEF LifecycleInv, WorldTyped, Whole
  <2> DEFINE x == {s}
  <2>2. x \in SUBSET Sites /\ \A r \in Sites \ x : Whole(r) => Whole(r)'
    BY <2>1
  <2>3. \A r \in x : r \in spoiled' \/ ~Rooted(rt', r)
    BY <1>1, <1>10
  <2>4. \A r \in Sites : Rooted(rt', r) => Rooted(rt, r)
    BY <1>1
  <2> HIDE DEF x
  <2> QED BY <1>1, <1>2, <2>2, <2>3, <2>4, RootsKept
<1>13. FreshSound'
  <2>1. Returnable(rt)'
    BY <1>1, <1>9, <1>10, <1>11 DEF Returnable, Fits, Runs, Rooted, WorldTyped, Free
  <2>2. Unserved(s)'
    BY <1>1, <1>10 DEF Unserved, Rooted
  <2>3. Returnable(job.rt)'
    BY <1>1, <1>7, <2>1
  <2> QED BY <1>6, <1>7, <1>9, <2>2, <2>3 DEF FreshSound
<1> QED BY <1>8, <1>11, <1>12, <1>13 DEF LifecycleInv

LEMMA StartImportKeeps ==
    ASSUME LifecycleInv, NEW kind \in Imports, NEW q \in Queues, NEW adopt \in BOOLEAN,
           NEW step \in {"unpack", "prepare"}, Starts(kind, q, adopt, step),
           adopt => \A s \in Elements(q) : disk[s] = "app",
           UNCHANGED World, UNCHANGED spoiled, UNCHANGED Counters
    PROVE  LifecycleInv'
<1>1. ~Busy /\ UNCHANGED <<rt, disk, dbs, linked, spoiled, faults, crashes>>
  BY DEF Starts, World, Counters
<1>2. job.kind = "none" /\ Building = {}
  BY <1>1, NotBusy
<1> DEFINE before == UNION {{r} \X Obstacle(kind, adopt, r) : r \in Elements(q)}
<1>3. Elements(q) \subseteq Sites /\ DOMAIN q \in {{1}, {1, 2}} /\ \A i \in DOMAIN q : q[i] \in Elements(q)
  BY QueueSites DEF Elements
<1>4. before \subseteq Sites \X Obstacles
  BY <1>3 DEF Obstacle, Obstacles
<1>5. job' = [Job(kind, q, adopt, {}, step) EXCEPT !.rt = None, !.before = before]
  BY DEF Starts, Fresh, Imports
<1> HIDE DEF before
<1>6. job' = [kind |-> kind, sites |-> q, at |-> 1, pc |-> step, adopt |-> adopt, sel |-> {},
              rt |-> None, made |-> {}, created |-> {}, applied |-> FALSE, reported |-> FALSE,
              staged |-> (kind = "upload"), before |-> before]
  <2> DEFINE j == Job(kind, q, adopt, {}, step)
  <2>1. j = [kind |-> kind, sites |-> q, at |-> 1, pc |-> step, adopt |-> adopt, sel |-> {},
             rt |-> None, made |-> {}, created |-> {}, applied |-> FALSE, reported |-> FALSE,
             staged |-> (kind = "upload"), before |-> {}]
    BY JobFields
  <2>2. job' = [j EXCEPT !.rt = None, !.before = before]
    BY <1>5
  <2> HIDE DEF j
  <2> QED BY <2>1, <2>2
<1>7. step \in ImportSteps /\ step \in Steps
  BY DEF ImportSteps, Making, Steps
<1>8. /\ job' \in JobTypes /\ job'.sites = q /\ job'.at = 1 /\ job'.kind = kind /\ job'.pc = step
      /\ job'.created = {} /\ job'.made = {} /\ ~job'.applied /\ job'.adopt = adopt
  BY <1>4, <1>6, <1>7 DEF JobTypes
<1>9. JobTyped' /\ FreshSound' /\ RemovalSound' /\ Building' = {}
  BY <1>3, <1>7, <1>8 DEF JobTyped, Fresh, Imports, FreshSound, RemovalSound, Building
<1>10. WorldTyped' /\ Fits(rt)' /\ RootsWhole'
  BY <1>1, <1>2, <1>9 DEF LifecycleInv, WorldTyped, Fits, Runs, RootsWhole, Rooted, Whole
<1>11. ImportSound'
  <2>1. \A i \in DOMAIN q : ~(i < 1) /\ (adopt => disk[q[i]] = "app")
    BY <1>3
  <2> QED BY <1>1, <1>8, <2>1 DEF ImportSound, Targets, Elements
<1> QED BY <1>9, <1>10, <1>11 DEF LifecycleInv

(* Nobody but the hosts to be removed uses what the plan takes.            *)
LEMMA StartRemovalKeeps ==
    ASSUME LifecycleInv, NEW s \in Sites, NEW sel \in SUBSET Resources, StartRemoval(s, sel)
    PROVE  LifecycleInv'
<1> DEFINE sites == <<s>>
<1>1. ~Busy /\ ~Free(s) /\ UNCHANGED <<rt, disk, dbs, linked, spoiled, faults, crashes>>
  BY DEF StartRemoval, World, Counters
<1>2. job.kind = "none" /\ Building = {}
  BY <1>1, NotBusy
<1>3. job' = [kind |-> "remove", sites |-> sites, at |-> 1, pc |-> "outside", adopt |-> FALSE, sel |-> sel,
              rt |-> rt, made |-> {}, created |-> {}, applied |-> FALSE, reported |-> FALSE,
              staged |-> ("remove" = "upload"), before |-> {}]
  <2> DEFINE j == Job("remove", sites, FALSE, sel, "outside")
  <2>1. j = [kind |-> "remove", sites |-> sites, at |-> 1, pc |-> "outside", adopt |-> FALSE, sel |-> sel,
             rt |-> None, made |-> {}, created |-> {}, applied |-> FALSE, reported |-> FALSE,
             staged |-> ("remove" = "upload"), before |-> {}]
    BY JobFields
  <2>2. job' = [j EXCEPT !.rt = rt]
    BY DEF StartRemoval
  <2> HIDE DEF j
  <2> QED BY <2>1, <2>2
<1>4. /\ job' \in JobTypes /\ job'.sites = sites /\ job'.at = 1 /\ job'.kind = "remove" /\ job'.pc = "outside"
      /\ job'.sel = sel /\ job'.rt = rt
  <2>1. sites \in Queues /\ rt \in Config /\ "outside" \in Steps
    BY DEF Queues, LifecycleInv, WorldTyped, Steps, RemovalSteps
  <2> QED BY <1>3, <2>1 DEF JobTypes
<1>5. JobTyped' /\ FreshSound' /\ ImportSound' /\ Building' = {}
  BY <1>4 DEF JobTyped, Single, Fresh, Imports, RemovalSteps, FreshSound, ImportSound, Building
<1>6. WorldTyped' /\ Fits(rt)' /\ RootsWhole'
  BY <1>1, <1>2, <1>5 DEF LifecycleInv, WorldTyped, Fits, Runs, RootsWhole, Rooted, Whole
<1>7. Site' = s
  BY <1>4 DEF Site
<1>8. ASSUME sel \cap {"database", "files"} # {}, NEW h \in Hosts, rt.routes[h] # None, rt.routes[h].root = s
      PROVE  rt.routes[h] = rt.routes[s]
  <2>1. "files" \in sel \/ "database" \in sel
    BY <1>8
  <2>2. \A g \in Others(s) : rt.routes[g].root # s
    BY <2>1 DEF StartRemoval, Available, FilesSafe, DatabaseSafe
  <2> QED BY <1>8, <2>2 DEF Others, HostsOf
<1>9. RemovalSound'
  <2>1. "pool" \in sel => "runtime" \in sel
    BY DEF StartRemoval, Selectable
  <2>2. rt \in Config
    BY DEF LifecycleInv, WorldTyped
  <2> QED BY <1>1, <1>4, <1>7, <1>8, <2>1, <2>2 DEF RemovalSound, TakesData, PlannedHosts
<1> QED BY <1>5, <1>6, <1>9 DEF LifecycleInv

-----------------------------------------------------------------------------
(* Which job takes a step.                                                 *)
LEMMA WhoseStep ==
    ASSUME JobTyped
    PROVE  /\ job.pc \in {"archive", "commit", "database", "install", "register", "undo runtime"}
                => job.kind \in Fresh
           /\ job.pc \in Making \cup {"import commit", "probe", "settle", "undo databases", "undo files"}
                => job.kind \in Imports
           /\ job.pc \in RemovalSteps => job.kind = "remove"
           /\ job.pc = "finish" => job.kind \in Fresh \cup Imports
  BY DEF JobTyped, JobTypes, Ending, FreshSteps, ImportSteps, Making, RemovalSteps

LEMMA Ended ==
    ASSUME JobTyped, NEW step \in {"failed", "done"}, Goes(step) \/ Moves(step, TRUE)
    PROVE  JobTyped' /\ FreshSound' /\ ImportSound' /\ RemovalSound' /\ Building' = {}
  BY Typed, MovesEnds DEF Goes

LEMMA WentOn ==
    ASSUME JobTyped, NEW step \in Steps \ {"failed", "done"}, Goes(step) \/ Moves(step, TRUE)
    PROVE  job' \in JobTypes /\ job'.pc = step /\ SameJob /\ SameSites
  BY Typed, MovesFields DEF Goes, SameJob, SameSites

LEMMA FreshGoesOn ==
    ASSUME LifecycleInv, job.kind \in Fresh, job' \in JobTypes, job'.pc \in FreshSteps, SameSites
    PROVE  /\ JobTyped' /\ ImportSound' /\ RemovalSound'
           /\ Building' = Building /\ Targets' = Targets /\ Site' = Site
<1>1. JobTyped'
  BY DEF LifecycleInv, JobTyped, SameSites, Single, Fresh, Imports
<1>2. ImportSound' /\ RemovalSound'
  BY DEF SameSites, Fresh, Imports, ImportSound, RemovalSound
<1> QED BY <1>1, <1>2, SameBuilding DEF LifecycleInv

(* A step on the website that is being made.                               *)
OnlySite ==
    /\ disk' \in [Sites -> {"none", "empty", "torn", "plain", "app"}]
    /\ dbs' \in [Sites -> {"none", "bare", "loaded"}]
    /\ linked' \subseteq Sites
    /\ \A s \in Sites \ {Site} : disk'[s] = disk[s] /\ dbs'[s] = dbs[s] /\ (s \in linked <=> s \in linked')

LEMMA SiteStep ==
    ASSUME LifecycleInv, job.kind \in Fresh \cup {"remove"} \cup Imports, OnlySite,
           UNCHANGED rt, spoiled' \subseteq Sites, spoiled \subseteq spoiled' \cup {Site},
           Right \/ Fault, UNCHANGED crashes, Building \subseteq Building' \cup {Site},
           NEW t, t = Site, t \in spoiled' \cup Building' \/ ~Rooted(rt, t) \/ Whole(t)'
    PROVE  WorldTyped' /\ Fits(rt)' /\ RootsWhole'
<1>1. WorldTyped' /\ Fits(rt)'
  <2>1. faults' \in 0..MaxFaults
    BY FaultTyped DEF LifecycleInv
  <2> QED BY <2>1 DEF LifecycleInv, WorldTyped, OnlySite, Fits, Runs
<1>2. RootsWhole'
  <2>1. Site \in Sites
    BY SitesOfJob DEF LifecycleInv
  <2> DEFINE x == {Site}
  <2>2. x \in SUBSET Sites /\ spoiled \ x \subseteq spoiled' /\ Building \subseteq x \cup Building'
    BY <2>1
  <2>3. \A s \in Sites \ x : Whole(s) => Whole(s)'
    BY DEF OnlySite, Whole
  <2>4. \A s \in Sites : Rooted(rt', s) => Rooted(rt, s)
    OBVIOUS
  <2>5. \A s \in x : s \in spoiled' \cup Building' \/ ~Rooted(rt', s) \/ Whole(s)'
    OBVIOUS
  <2> HIDE DEF x
  <2> QED BY <2>2, <2>3, <2>4, <2>5, RootsKept
<1> QED BY <1>1, <1>2

(* An installation goes on, or ends, after a step on its own website.      *)
LEMMA FreshOn ==
    ASSUME LifecycleInv, job.kind \in Fresh, OnlySite, UNCHANGED <<rt, spoiled, crashes>>, Right \/ Fault,
           job' \in JobTypes, job'.pc \in FreshSteps, SameSites, job'.rt = job.rt,
           Site \in spoiled \cup Building \/ ~Rooted(rt, Site) \/ \A t \in {Site} : Whole(t)'
    PROVE  /\ WorldTyped' /\ JobTyped' /\ Fits(rt)' /\ RootsWhole' /\ ImportSound' /\ RemovalSound'
           /\ Building' = Building /\ Targets' = Targets /\ Site' = Site /\ Returnable(job.rt)'
           /\ Unserved(Site) => Unserved(Site)'
<1>1. /\ JobTyped' /\ ImportSound' /\ RemovalSound'
      /\ Building' = Building /\ Targets' = Targets /\ Site' = Site
  BY FreshGoesOn
<1>2. WorldTyped' /\ Fits(rt)' /\ RootsWhole'
  <2> PICK t \in {Site} : TRUE
    OBVIOUS
  <2>1. spoiled' \subseteq Sites /\ spoiled \subseteq spoiled' \cup {Site} /\ t = Site
    BY DEF LifecycleInv, WorldTyped
  <2>2. t \in spoiled' \cup Building' \/ ~Rooted(rt, t) \/ Whole(t)'
    BY <1>1
  <2> QED BY <1>1, <2>1, <2>2, SiteStep
<1>3. Returnable(job.rt)'
  <2>1. Returnable(job.rt)
    BY DEF LifecycleInv, FreshSound
  <2> QED BY <1>1, <2>1 DEF Returnable, Fits, Runs, Rooted
<1>4. Unserved(Site) => Unserved(Site)'
  BY <1>1 DEF Unserved, Rooted
<1> QED BY <1>1, <1>2, <1>3, <1>4

LEMMA FreshEnds ==
    ASSUME LifecycleInv, job.kind \in Fresh, OnlySite, UNCHANGED <<rt, crashes>>, Right \/ Fault,
           NEW step \in {"failed", "done"}, Goes(step) \/ Moves(step, TRUE),
           spoiled' \in {spoiled, spoiled \ {Site}},
           Site \in spoiled' \/ ~Rooted(rt, Site) \/ \A t \in {Site} : Whole(t)'
    PROVE  LifecycleInv'
<1>1. JobTyped' /\ FreshSound' /\ ImportSound' /\ RemovalSound' /\ Building' = {}
  BY Ended DEF LifecycleInv
<1>2. Building \subseteq {Site}
  BY Typed, SitesOfJob DEF LifecycleInv
<1>3. WorldTyped' /\ Fits(rt)' /\ RootsWhole'
  <2> PICK t \in {Site} : TRUE
    OBVIOUS
  <2>1. spoiled' \subseteq Sites /\ spoiled \subseteq spoiled' \cup {Site} /\ t = Site
    BY DEF LifecycleInv, WorldTyped
  <2>2. t \in spoiled' \cup Building' \/ ~Rooted(rt, t) \/ Whole(t)'
    BY <1>1
  <2> QED BY <1>1, <1>2, <2>1, <2>2, SiteStep
<1> QED BY <1>1, <1>3 DEF LifecycleInv

LEMMA ArchiveKeeps ==
    ASSUME LifecycleInv, Archive
    PROVE  LifecycleInv'
<1>1. job.kind \in Fresh /\ JobTyped /\ Site \in Sites
  BY WhoseStep, SitesOfJob DEF LifecycleInv, Archive
<1>2. Unserved(Site) /\ job.created \subseteq (IF job.kind = "plain" THEN {} ELSE {Site})
  BY <1>1 DEF LifecycleInv, FreshSound, Archive
<1>3. UNCHANGED <<rt, dbs, linked, spoiled, crashes>>
  BY DEF Archive
<1>4. Site \in spoiled \/ ~Rooted(rt, Site)
  BY <1>2 DEF Unserved
<1> DEFINE whole == IF job.kind = "plain" THEN "plain" ELSE "app"
<1>5. CASE Goes("commit") /\ disk' = [disk EXCEPT ![Site] = whole] /\ Right
  <2>1. job' \in JobTypes /\ job'.pc = "commit" /\ SameJob /\ SameSites
    BY <1>1, <1>5, WentOn DEF Steps, FreshSteps
  <2>2. OnlySite /\ disk'[Site] = whole
    BY <1>1, <1>3, <1>5 DEF OnlySite, LifecycleInv, WorldTyped
  <2>3. /\ WorldTyped' /\ JobTyped' /\ Fits(rt)' /\ RootsWhole' /\ ImportSound' /\ RemovalSound'
        /\ Building' = Building /\ Targets' = Targets /\ Site' = Site /\ Returnable(job.rt)'
        /\ Unserved(Site)'
    BY <1>1, <1>2, <1>3, <1>4, <1>5, <2>1, <2>2, FreshOn DEF FreshSteps, SameJob
  <2>4. FreshSound'
    BY <1>2, <2>1, <2>2, <2>3 DEF FreshSound, SameJob
  <2> QED BY <2>3, <2>4 DEF LifecycleInv
<1>6. CASE Goes("failed") /\ Fault /\ \E left \in {"torn", whole} : disk' = [disk EXCEPT ![Site] = left]
  <2>1. OnlySite
    BY <1>1, <1>3, <1>6 DEF OnlySite, LifecycleInv, WorldTyped
  <2> QED BY <1>1, <1>3, <1>4, <1>6, <2>1, FreshEnds
<1> QED BY <1>5, <1>6 DEF Archive

(* The runtime files are those read before, and the site is added to them. *)
LEMMA CommitKeeps ==
    ASSUME LifecycleInv, Commit
    PROVE  LifecycleInv'
<1>1. job.kind \in Fresh /\ JobTyped /\ Site \in Sites /\ Targets = {Site} /\ job.sites \in Queues
  BY WhoseStep, SitesOfJob DEF LifecycleInv, Commit
<1>2. /\ Unserved(Site) /\ job.created \subseteq (IF job.kind = "plain" THEN {} ELSE {Site})
      /\ Returnable(job.rt)
      /\ job.kind = "plain" => disk[Site] = "plain"
      /\ job.kind = "shop" => disk[Site] = "app"
  BY <1>1 DEF LifecycleInv, FreshSound, Commit
<1>3. UNCHANGED <<dbs, linked, spoiled, crashes>>
  BY DEF Commit
<1> DEFINE next == IF job.kind = "plain" THEN "register" ELSE "database"
<1>4. CASE /\ rt = job.rt /\ Addable(job.sites) /\ Right
           /\ rt' = Adding(job.sites) /\ UNCHANGED disk /\ Goes(next)
  <2>1. next \in Steps \ {"failed", "done"} /\ next \in FreshSteps
    BY DEF Steps, FreshSteps
  <2>2. job' \in JobTypes /\ job'.pc = next /\ SameJob /\ SameSites
    BY <1>1, <1>4, <2>1, WentOn
  <2>3. /\ JobTyped' /\ ImportSound' /\ RemovalSound'
        /\ Building' = Building /\ Targets' = Targets /\ Site' = Site
    BY <1>1, <2>1, <2>2, FreshGoesOn
  <2>4. /\ rt' \in Config /\ Fits(rt)'
        /\ \A s \in Sites : Rooted(rt', s) => Rooted(rt, s) \/ s \in {Site}
    <3>1. rt \in Config /\ Fits(rt) /\ Elements(job.sites) = {Site}
      BY <1>1 DEF LifecycleInv, WorldTyped, Targets
    <3> QED BY <1>1, <1>4, <3>1, AddingFits DEF Fits, Runs
  <2>5. WorldTyped'
    BY <1>3, <1>4, <2>4 DEF LifecycleInv, WorldTyped, Right
  <2>6. Site \in Building \/ \A t \in {Site} : Whole(t)'
    BY <1>1, <1>2, <1>4, Typed DEF Whole, Fresh
  <2>7. RootsWhole'
    <3> DEFINE x == {Site}
    <3>1. x \in SUBSET Sites /\ spoiled \ x \subseteq spoiled' /\ Building \subseteq x \cup Building'
      BY <1>1, <1>3, <2>3
    <3>2. \A s \in Sites : Whole(s) => Whole(s)'
      BY <1>3, <1>4 DEF Whole
    <3>3. \A s \in x : s \in spoiled' \cup Building' \/ ~Rooted(rt', s) \/ Whole(s)'
      BY <2>3, <2>6
    <3>4. \A s \in Sites : Rooted(rt', s) => Rooted(rt, s) \/ s \in x
      BY <2>4
    <3> HIDE DEF x
    <3> QED BY <3>1, <3>2, <3>3, <3>4, RootsKept
  <2>8. FreshSound'
    <3>1. Returnable(job.rt)'
      BY <1>2, <1>3, <2>2, <2>3 DEF SameJob, Returnable, Fits, Runs, Rooted
    <3> QED BY <1>2, <1>4, <2>2, <2>3, <3>1 DEF FreshSound, SameJob
  <2> QED BY <2>3, <2>4, <2>5, <2>7, <2>8 DEF LifecycleInv
<1>5. CASE Goes("failed") /\ (Right \/ Fault) /\ disk' = [disk EXCEPT ![Site] = "none"] /\ UNCHANGED rt
  <2>1. OnlySite
    BY <1>1, <1>3, <1>5 DEF OnlySite, LifecycleInv, WorldTyped
  <2>2. Site \in spoiled \/ ~Rooted(rt, Site)
    BY <1>2 DEF Unserved
  <2> QED BY <1>1, <1>3, <1>5, <2>1, <2>2, FreshEnds
<1> QED BY <1>4, <1>5 DEF Commit

(* The steps on a site that is being built, which its report will name.    *)
LEMMA BuildKeeps ==
    ASSUME LifecycleInv, CreateDatabase \/ InstallWordPress \/ InstallShop
    PROVE  LifecycleInv'
<1>1. job.kind \in Fresh /\ JobTyped /\ Site \in Sites /\ job.pc \in {"database", "install"}
  BY WhoseStep, SitesOfJob DEF LifecycleInv, CreateDatabase, InstallWordPress, InstallShop
<1>2. job.kind \in {"app", "shop"}
  BY <1>1 DEF LifecycleInv, FreshSound, Fresh
<1>3. Site \in Building /\ job.created \subseteq {Site}
  BY <1>1, <1>2, Typed, SitesOfJob DEF LifecycleInv, FreshSound
<1>4. UNCHANGED <<rt, spoiled, crashes>> /\ (Right \/ Fault)
  BY DEF CreateDatabase, InstallWordPress, InstallShop
<1>5. OnlySite
  <2> USE DEF LifecycleInv, WorldTyped
  <2>1. CASE CreateDatabase
    BY <1>1, <2>1 DEF OnlySite, CreateDatabase
  <2>2. CASE InstallWordPress
    BY <1>1, <2>2 DEF OnlySite, InstallWordPress
  <2>3. CASE InstallShop
    BY <1>1, <2>3 DEF OnlySite, InstallShop
  <2> QED BY <2>1, <2>2, <2>3
<1>6. /\ job' \in JobTypes /\ SameSites /\ job'.rt = job.rt /\ job'.created \subseteq {Site}
      /\ job'.pc \in {"install", "register", "undo"}
      /\ job'.pc = "install" => UNCHANGED disk
      /\ job'.pc = "register" => \A t \in {Site} : Whole(t)'
  <2>1. CASE \E step \in {"register", "undo"} : Goes(step) /\ (step = "register" => \A t \in {Site} : Whole(t)')
    <3> PICK step \in {"register", "undo"} : Goes(step) /\ (step = "register" => \A t \in {Site} : Whole(t)')
      BY <2>1
    <3>1. job' \in JobTypes /\ job'.pc = step /\ SameJob /\ SameSites
      BY <1>1, WentOn DEF Steps, FreshSteps
    <3> QED BY <1>3, <3>1 DEF SameJob
  <2>2. CASE CreateDatabase
    <3>1. CASE /\ job' = [job EXCEPT !.pc = "install", !.created = {Site},
                                     !.made = IF dbs[Site] = "none" THEN {Site} ELSE {}]
               /\ UNCHANGED disk
      <4> DEFINE made == IF dbs[Site] = "none" THEN {Site} ELSE {}
      <4>1. made \in SUBSET Sites /\ "install" \in Steps
        BY <1>1 DEF Steps, FreshSteps
      <4> HIDE DEF made
      <4>2. job' = [job EXCEPT !.pc = "install", !.created = {Site}, !.made = made]
        BY <3>1 DEF made
      <4>3. job' \in JobTypes
        BY <1>1, <4>1, <4>2 DEF JobTyped, JobTypes
      <4>4. job'.pc = "install" /\ SameSites /\ job'.rt = job.rt /\ job'.created = {Site}
        BY <1>1, <4>2 DEF JobTyped, JobTypes, SameSites
      <4> QED BY <3>1, <4>3, <4>4
    <3> QED BY <2>1, <2>2, <3>1 DEF CreateDatabase
  <2>3. CASE InstallWordPress
    <3>1. Goes("register") => \A t \in {Site} : Whole(t)'
      <4> SUFFICES ASSUME Goes("register") PROVE \A t \in {Site} : Whole(t)'
        OBVIOUS
      <4>1. "register" \in Steps \ {"failed", "done"} /\ "undo" \in Steps \ {"failed", "done"}
        BY DEF Steps, FreshSteps
      <4>2. job'.pc = "register"
        BY <1>1, <4>1, WentOn
      <4>3. ~Goes("undo")
        BY <1>1, <4>1, <4>2, WentOn
      <4> QED BY <1>1, <2>3, <4>3 DEF InstallWordPress, Whole, LifecycleInv, WorldTyped
    <3> QED BY <2>1, <2>3, <3>1 DEF InstallWordPress
  <2>4. CASE InstallShop
    <3>1. Goes("register") => \A t \in {Site} : Whole(t)'
      <4> SUFFICES ASSUME Goes("register") PROVE \A t \in {Site} : Whole(t)'
        OBVIOUS
      <4>1. "register" \in Steps \ {"failed", "done"} /\ "undo" \in Steps \ {"failed", "done"}
        BY DEF Steps, FreshSteps
      <4>2. job'.pc = "register"
        BY <1>1, <4>1, WentOn
      <4>3. ~Goes("undo")
        BY <1>1, <4>1, <4>2, WentOn
      <4>4. disk[Site] = "app"
        BY <1>1, <2>4 DEF LifecycleInv, FreshSound, InstallShop
      <4> QED BY <1>1, <2>4, <4>3, <4>4 DEF InstallShop, Whole, LifecycleInv, WorldTyped
    <3> QED BY <2>1, <2>4, <3>1 DEF InstallShop
  <2> QED BY <2>2, <2>3, <2>4
<1>7. /\ WorldTyped' /\ JobTyped' /\ Fits(rt)' /\ RootsWhole' /\ ImportSound' /\ RemovalSound'
      /\ Building' = Building /\ Targets' = Targets /\ Site' = Site /\ Returnable(job.rt)'
  BY <1>1, <1>3, <1>4, <1>5, <1>6, FreshOn DEF FreshSteps
<1>8. FreshSound'
  <2>1. job'.pc = "register" => Whole(Site)'
    <3> PICK t \in {Site} : TRUE
    OBVIOUS
    <3>1. job'.pc = "register" => Whole(t)'
      BY <1>6
    <3> QED BY <1>7, <3>1 DEF Whole
  <2>2. job.kind = "shop" => disk[Site] = "app"
    BY <1>1 DEF LifecycleInv, FreshSound
  <2> QED BY <1>2, <1>6, <1>7, <2>1, <2>2 DEF FreshSound, SameSites
<1> QED BY <1>7, <1>8 DEF LifecycleInv

(* What is registered works, and the undo of what does not is reported or  *)
(* leads back to where the site was not served.                            *)
LEMMA RegisterKeeps ==
    ASSUME LifecycleInv, Register
    PROVE  LifecycleInv'
<1>1. job.kind \in Fresh /\ JobTyped /\ Site \in Sites /\ job.pc = "register"
  BY WhoseStep, SitesOfJob DEF LifecycleInv, Register
<1>2. Whole(Site) /\ (job.kind = "plain" => disk[Site] = "plain")
      /\ job.created \subseteq (IF job.kind = "plain" THEN {} ELSE {Site})
  BY <1>1 DEF LifecycleInv, FreshSound, Whole
<1>3. UNCHANGED <<rt, disk, dbs, linked, spoiled, crashes>> /\ (Right \/ Fault)
  BY DEF Register, World
<1>4. PICK step \in {"finish", "undo"} : Goes(step)
  BY DEF Register
<1>5. job' \in JobTypes /\ job'.pc = step /\ SameJob /\ SameSites
  BY <1>1, <1>4, WentOn DEF Steps, FreshSteps
<1>6. OnlySite /\ \A s \in Sites : Whole(s)' = Whole(s)
  BY <1>3 DEF OnlySite, LifecycleInv, WorldTyped, Whole
<1>7. \A t \in {Site} : Whole(t)'
  BY <1>1, <1>2, <1>6
<1>8. /\ WorldTyped' /\ JobTyped' /\ Fits(rt)' /\ RootsWhole' /\ ImportSound' /\ RemovalSound'
      /\ Building' = Building /\ Targets' = Targets /\ Site' = Site /\ Returnable(job.rt)'
  BY <1>1, <1>3, <1>5, <1>6, <1>7, FreshOn DEF FreshSteps, SameJob
<1>9. FreshSound'
  <2>1. Whole(Site)'
    BY <1>2, <1>3, <1>8 DEF Whole
  <2> QED BY <1>2, <1>3, <1>5, <1>8, <2>1 DEF FreshSound, SameJob
<1> QED BY <1>8, <1>9 DEF LifecycleInv

LEMMA FreshFinishKeeps ==
    ASSUME LifecycleInv, Finish, job.kind \in Fresh
    PROVE  LifecycleInv'
<1>1. Site \in Sites /\ Targets = {Site}
  BY SitesOfJob DEF LifecycleInv
<1>2. Whole(Site)
  BY DEF LifecycleInv, FreshSound, Finish, Whole
<1>3. UNCHANGED <<rt, disk, dbs, linked, crashes>> /\ (Right \/ Fault) /\ spoiled' = spoiled \ {Site}
  BY <1>1 DEF Finish, World
<1>4. OnlySite
  BY <1>3 DEF OnlySite, LifecycleInv, WorldTyped
<1>5. \A t \in {Site} : Whole(t)'
  BY <1>2, <1>3 DEF Whole
<1>6. PICK step \in {"failed", "done"} : Goes(step)
  BY DEF Finish
<1> QED BY <1>3, <1>4, <1>5, <1>6, FreshEnds

LEMMA UndoDatabaseKeeps ==
    ASSUME LifecycleInv, UndoDatabase
    PROVE  LifecycleInv'
<1>1. job.kind \in Fresh /\ JobTyped /\ Site \in Sites /\ job.pc = "undo"
  BY SitesOfJob DEF LifecycleInv, UndoDatabase
<1>2. (job.kind = "plain" => disk[Site] = "plain")
      /\ job.created \subseteq (IF job.kind = "plain" THEN {} ELSE {Site})
  BY <1>1 DEF LifecycleInv, FreshSound
<1>3. UNCHANGED <<rt, disk, spoiled, crashes>> /\ (Right \/ Fault) /\ Goes("undo runtime")
  BY DEF UndoDatabase
<1>4. job' \in JobTypes /\ job'.pc = "undo runtime" /\ SameJob /\ SameSites
  BY <1>1, <1>3, WentOn DEF Steps, FreshSteps
<1>5. OnlySite
  BY <1>1, <1>2, <1>3 DEF OnlySite, LifecycleInv, WorldTyped, UndoDatabase
<1>6. Site \in Building \/ \A t \in {Site} : Whole(t)'
  <2>1. CASE job.kind = "plain"
    BY <1>2, <1>3, <2>1 DEF Whole
  <2>2. CASE job.kind # "plain"
    BY <1>1, <2>2, Typed, SitesOfJob DEF Fresh
  <2> QED BY <2>1, <2>2
<1>7. /\ WorldTyped' /\ JobTyped' /\ Fits(rt)' /\ RootsWhole' /\ ImportSound' /\ RemovalSound'
      /\ Building' = Building /\ Targets' = Targets /\ Site' = Site /\ Returnable(job.rt)'
  BY <1>1, <1>3, <1>4, <1>5, <1>6, FreshOn DEF FreshSteps, SameJob
<1>8. FreshSound'
  BY <1>2, <1>3, <1>4, <1>7 DEF FreshSound, SameJob
<1> QED BY <1>7, <1>8 DEF LifecycleInv

LEMMA UndoRuntimeKeeps ==
    ASSUME LifecycleInv, UndoRuntime
    PROVE  LifecycleInv'
<1>1. job.kind \in Fresh /\ JobTyped /\ Site \in Sites /\ Targets = {Site} /\ job.sites \in Queues
  BY WhoseStep, SitesOfJob DEF LifecycleInv, UndoRuntime
<1>2. Returnable(job.rt)
  BY <1>1 DEF LifecycleInv, FreshSound
<1>3. /\ UNCHANGED <<dbs, linked, crashes>> /\ disk' = [disk EXCEPT ![Site] = "none"]
      /\ Restores("failed")
  BY DEF UndoRuntime
<1>4. /\ rt' \in Config /\ Fits(rt)' /\ spoiled' \subseteq Sites /\ spoiled \subseteq spoiled'
      /\ \A s \in Sites : Rooted(rt', s) => Rooted(rt, s)
      /\ \A s \in {Site} : s \in spoiled' \/ ~Rooted(rt', s)
      /\ faults' \in 0..MaxFaults
      /\ Goes("failed") \/ Moves("failed", TRUE)
  BY <1>1, <1>2, <1>3, RestoresFits DEF LifecycleInv, Goes
<1>5. JobTyped' /\ FreshSound' /\ ImportSound' /\ RemovalSound' /\ Building' = {}
  BY <1>1, <1>4, Ended
<1>6. WorldTyped'
  BY <1>1, <1>3, <1>4 DEF LifecycleInv, WorldTyped
<1>7. RootsWhole'
  <2> DEFINE x == {Site}
  <2>1. x \in SUBSET Sites /\ spoiled \ x \subseteq spoiled' /\ Building \subseteq x \cup Building'
    BY <1>1, <1>4, Typed
  <2>2. \A s \in Sites \ x : Whole(s) => Whole(s)'
    BY <1>3 DEF Whole, LifecycleInv, WorldTyped
  <2>3. \A s \in x : s \in spoiled' \/ ~Rooted(rt', s)
    BY <1>4
  <2> HIDE DEF x
  <2> QED BY <1>4, <2>1, <2>2, <2>3, RootsKept
<1> QED BY <1>4, <1>5, <1>6, <1>7 DEF LifecycleInv

-----------------------------------------------------------------------------
(* Imports.                                                                *)
LEMMA ImportGoesOn ==
    ASSUME LifecycleInv, job.kind \in Imports, job' \in JobTypes, job'.pc \in ImportSteps,
           job'.kind = job.kind, job'.sites = job.sites, job'.at \in DOMAIN job.sites
    PROVE  /\ JobTyped' /\ FreshSound' /\ RemovalSound'
           /\ Building = {} /\ Building' = {} /\ Targets' = Targets
<1>1. JobTyped'
  BY DEF LifecycleInv, JobTyped, Fresh, Imports
<1>2. FreshSound' /\ RemovalSound' /\ Building = {} /\ Building' = {}
  BY DEF Fresh, Imports, FreshSound, RemovalSound, Building
<1>3. Targets' = Targets
  BY DEF Targets, Elements
<1> QED BY <1>1, <1>2, <1>3

(* Sites of one import are distinct.                                       *)
LEMMA ImportSites ==
    ASSUME LifecycleInv, job.kind \in Imports
    PROVE  /\ Targets \subseteq Sites /\ Site \in Targets /\ Building = {} /\ job.at \in DOMAIN job.sites
           /\ DOMAIN job.sites \in {{1}, {1, 2}} /\ Len(job.sites) \in {1, 2}
           /\ DOMAIN job.sites = 1 .. Len(job.sites)
           /\ \A i \in DOMAIN job.sites : job.sites[i] \in Targets /\ (i # job.at => job.sites[i] # Site)
           /\ \A s \in Targets : \E i \in DOMAIN job.sites : job.sites[i] = s
<1>1. job.sites \in Queues /\ job.at \in DOMAIN job.sites
  BY DEF LifecycleInv, JobTyped
<1>2. /\ DOMAIN job.sites \in {{1}, {1, 2}} /\ Len(job.sites) \in {1, 2}
      /\ DOMAIN job.sites = 1 .. Len(job.sites)
      /\ \A i, k \in DOMAIN job.sites : i # k => job.sites[i] # job.sites[k]
  BY <1>1, QueueSites
<1>3. Targets \subseteq Sites /\ Site \in Targets /\ \A i \in DOMAIN job.sites : job.sites[i] \in Targets
  BY SitesOfJob DEF LifecycleInv
<1>4. Building = {}
  BY DEF Building, Imports
<1>5. \A s \in Targets : \E i \in DOMAIN job.sites : job.sites[i] = s
  BY DEF Targets, Elements
<1> QED BY <1>1, <1>2, <1>3, <1>4, <1>5 DEF Site

(* A site without files or without database is not served.                 *)
LEMMA BareIsUnserved ==
    ASSUME LifecycleInv, job.kind \in Imports, NEW s \in Sites, ~Whole(s)
    PROVE  Unserved(s)
  BY ImportSites DEF LifecycleInv, RootsWhole, Unserved

LEMMA ImportEnds ==
    ASSUME LifecycleInv, job.kind \in Imports, UNCHANGED <<rt, disk, dbs, linked, crashes>>, Right \/ Fault,
           NEW step \in {"failed", "done"}, Goes(step),
           \/ UNCHANGED spoiled
           \/ spoiled' = spoiled \ Targets /\ \A s \in Targets : Whole(s)
    PROVE  LifecycleInv'
<1>1. JobTyped' /\ FreshSound' /\ ImportSound' /\ RemovalSound' /\ Building' = {}
  BY Ended DEF LifecycleInv
<1>2. WorldTyped' /\ Fits(rt)'
  BY FaultTyped DEF LifecycleInv, WorldTyped, Fits, Runs
<1>3. RootsWhole'
  <2>1. \A s \in Sites : Whole(s)' = Whole(s) /\ Rooted(rt, s)' = Rooted(rt, s)
    BY DEF Whole, Rooted
  <2>2. \A s \in spoiled : s \in spoiled' \/ Whole(s)
    OBVIOUS
  <2> QED BY <1>1, <2>1, <2>2, ImportSites DEF LifecycleInv, RootsWhole
<1> QED BY <1>1, <1>2, <1>3 DEF LifecycleInv

(* A failure before the commit: what was made so far is not served.        *)
LEMMA ImportGivesUp ==
    ASSUME LifecycleInv, job.kind \in Imports, job.pc \in Making \cup {"import commit"}, Goes("undo"),
           OnlySite, UNCHANGED <<rt, spoiled, crashes>>, Right \/ Fault,
           Unserved(Site) \/ UNCHANGED <<disk, dbs, linked>>
    PROVE  LifecycleInv'
<1>1. JobTyped /\ ImportSound /\ Site \in Sites
  BY SitesOfJob DEF LifecycleInv
<1>2. job' \in JobTypes /\ job'.pc = "undo" /\ SameJob /\ SameSites
  BY <1>1, WentOn DEF Steps, FreshSteps
<1>3. /\ JobTyped' /\ FreshSound' /\ RemovalSound'
      /\ Building = {} /\ Building' = {} /\ Targets' = Targets
  BY <1>2, ImportGoesOn, ImportSites DEF SameSites, ImportSteps
<1>4. WorldTyped' /\ Fits(rt)' /\ RootsWhole'
  <2> PICK t \in {Site} : TRUE
    OBVIOUS
  <2>1. t \in spoiled' \cup Building' \/ ~Rooted(rt, t) \/ Whole(t)'
    BY <1>1, <1>3 DEF Unserved, LifecycleInv, RootsWhole, Whole
  <2> QED BY <1>3, <2>1, SiteStep DEF LifecycleInv, WorldTyped
<1>5. ImportSound'
  <2>1. ~job.applied /\ job.made \cup job.created \subseteq Targets
        /\ \A s \in job.made \cup job.created : Unserved(s)
    BY <1>1 DEF ImportSound
  <2>2. \A s \in job.made \cup job.created : Unserved(s)'
    BY <2>1 DEF Unserved, Rooted
  <2> QED BY <1>2, <1>3, <2>1, <2>2 DEF ImportSound, SameJob, Making
<1> QED BY <1>3, <1>4, <1>5 DEF LifecycleInv

(* The step of an import on its site, which is not served or whole after.  *)
LEMMA ImportOn ==
    ASSUME LifecycleInv, job.kind \in Imports, job' \in JobTypes, job'.pc \in ImportSteps,
           job'.kind = job.kind, job'.sites = job.sites, job'.at \in DOMAIN job.sites,
           OnlySite, UNCHANGED <<rt, spoiled, crashes>>, Right \/ Fault, Unserved(Site)
    PROVE  /\ WorldTyped' /\ JobTyped' /\ Fits(rt)' /\ RootsWhole' /\ FreshSound' /\ RemovalSound'
           /\ Targets' = Targets /\ Site \in Sites
           /\ \A s \in Sites : Unserved(s) => Unserved(s)'
           /\ \A s \in Sites \ {Site} : Whole(s) => Whole(s)'
<1>1. /\ JobTyped' /\ FreshSound' /\ RemovalSound'
      /\ Building = {} /\ Building' = {} /\ Targets' = Targets
  BY ImportGoesOn
<1>2. WorldTyped' /\ Fits(rt)' /\ RootsWhole'
  <2> PICK t \in {Site} : TRUE
    OBVIOUS
  <2>1. t \in spoiled' \cup Building' \/ ~Rooted(rt, t) \/ Whole(t)'
    BY DEF Unserved
  <2> QED BY <1>1, <2>1, SiteStep DEF LifecycleInv, WorldTyped
<1>3. \A s \in Sites : Unserved(s) => Unserved(s)'
  BY DEF Unserved, Rooted
<1>4. \A s \in Sites \ {Site} : Whole(s) => Whole(s)'
  BY DEF OnlySite, Whole
<1>5. Site \in Sites
  BY SitesOfJob DEF LifecycleInv
<1> QED BY <1>1, <1>2, <1>3, <1>4, <1>5

LEMMA EarlierStayWhole ==
    ASSUME LifecycleInv, job.kind \in Imports, job.pc \in Making, OnlySite, job'.sites = job.sites
    PROVE  \A i \in DOMAIN job.sites : i < job.at => Whole(job.sites[i])' /\ job.sites[i] \in job.created
<1> SUFFICES ASSUME NEW i \in DOMAIN job.sites, i < job.at
             PROVE  Whole(job.sites[i])' /\ job.sites[i] \in job.created
  OBVIOUS
<1> DEFINE s == job.sites[i]
<1>1. job.at \in Nat /\ i \in Nat
  BY ImportSites DEF LifecycleInv, JobTyped, JobTypes
<1>2. Whole(s) /\ s \in job.created /\ s \in Sites \ {Site}
  <2>1. ImportSound
    BY DEF LifecycleInv
  <2>2. Whole(s) /\ s \in job.created
    BY <2>1 DEF ImportSound
  <2>3. i # job.at
    BY <1>1
  <2> QED BY <2>2, <2>3, ImportSites
<1>3. disk'[s] = disk[s] /\ dbs'[s] = dbs[s] /\ (s \in linked <=> s \in linked')
  BY <1>2 DEF OnlySite
<1> QED BY <1>2, <1>3 DEF Whole

LEMMA UnpackKeeps ==
    ASSUME LifecycleInv, Unpack
    PROVE  LifecycleInv'
<1>1. job.kind \in Imports /\ JobTyped /\ ImportSound
  BY WhoseStep DEF LifecycleInv, Unpack, Making
<1>2. UNCHANGED <<rt, disk, dbs, linked, spoiled, crashes>> /\ (Right \/ Fault)
  BY DEF Unpack, World
<1>3. CASE Goes("failed")
  BY <1>1, <1>2, <1>3, ImportEnds
<1>4. CASE Goes("prepare")
  <2>1. job' \in JobTypes /\ job'.pc = "prepare" /\ SameJob /\ SameSites
    BY <1>1, <1>4, WentOn DEF Steps, ImportSteps, Making
  <2>2. /\ JobTyped' /\ FreshSound' /\ RemovalSound'
        /\ Building = {} /\ Building' = {} /\ Targets' = Targets
    BY <1>1, <2>1, ImportGoesOn, ImportSites DEF SameSites, ImportSteps, Making
  <2>3. WorldTyped' /\ Fits(rt)' /\ RootsWhole'
    <3>1. WorldTyped' /\ Fits(rt)'
      BY <1>2, FaultTyped DEF LifecycleInv, WorldTyped, Fits, Runs
    <3> QED BY <1>2, <2>2, <3>1 DEF LifecycleInv, RootsWhole, Rooted, Whole
  <2>4. \A s \in Sites : Whole(s)' = Whole(s) /\ Unserved(s)' = Unserved(s)
    BY <1>2 DEF Whole, Unserved, Rooted
  <2>5. ImportSound'
    BY <1>1, <1>2, <2>1, <2>2, <2>4, ImportSites DEF ImportSound, SameJob, Making, Unpack
  <2> QED BY <2>2, <2>3, <2>5 DEF LifecycleInv
<1> QED BY <1>3, <1>4 DEF Unpack

LEMMA PrepareKeeps ==
    ASSUME LifecycleInv, Prepare
    PROVE  LifecycleInv'
<1>1. job.kind \in Imports /\ JobTyped /\ ImportSound /\ job.pc = "prepare" /\ Site \in Sites /\ Site \in Targets
  BY WhoseStep, SitesOfJob DEF LifecycleInv, Prepare, Making
<1>2. UNCHANGED <<rt, dbs, linked, spoiled, crashes>> /\ (Right \/ Fault)
  BY DEF Prepare
<1>3. Fillable(Site) => Unserved(Site)
  BY <1>1, BareIsUnserved DEF Fillable, Whole
<1>4. OnlySite
  BY <1>1, <1>2 DEF OnlySite, LifecycleInv, WorldTyped, Prepare
<1>5. CASE Goes("undo") /\ (Fillable(Site) \/ UNCHANGED disk)
  BY <1>1, <1>2, <1>3, <1>4, <1>5, ImportGivesUp DEF Making
<1>6. CASE /\ job.adopt \/ Fillable(Site)
           /\ job.adopt => UNCHANGED disk
           /\ ~job.adopt => disk' = [disk EXCEPT ![Site] = "app"]
           /\ \/ job.adopt /\ Goes("create")
              \/ ~job.adopt /\ job' = [job EXCEPT !.pc = "create", !.made = Notes(@)]
  <2>1. /\ job' \in JobTypes /\ job'.pc = "create" /\ SameSites /\ job'.created = job.created
        /\ job'.applied = job.applied /\ job'.adopt = job.adopt
        /\ job'.made \subseteq job.made \cup {Site} /\ (job.adopt => job'.made = job.made)
    <3>1. CASE job.adopt /\ Goes("create")
      <4>1. job' \in JobTypes /\ job'.pc = "create" /\ SameJob /\ SameSites
        BY <1>1, <3>1, WentOn DEF Steps, ImportSteps, Making
      <4> QED BY <4>1 DEF SameJob
    <3>2. CASE ~job.adopt /\ job' = [job EXCEPT !.pc = "create", !.made = Notes(@)]
      <4> DEFINE made == job.made \cup {Site}
      <4>1. made \in SUBSET Sites /\ "create" \in Steps
        BY <1>1 DEF JobTyped, JobTypes, Steps, ImportSteps, Making
      <4> HIDE DEF made
      <4>2. job' = [job EXCEPT !.pc = "create", !.made = made]
        BY <3>2 DEF made, Notes
      <4>3. job' \in JobTypes
        BY <1>1, <4>1, <4>2 DEF JobTyped, JobTypes
      <4> QED BY <1>1, <3>2, <4>2, <4>3 DEF JobTyped, JobTypes, SameSites, made
    <3> QED BY <1>6, <3>1, <3>2
  <2>2. disk'[Site] = "app"
    <3>1. CASE job.adopt
      BY <1>1, <1>6, <3>1, ImportSites DEF ImportSound, Making, Site
    <3>2. CASE ~job.adopt
      BY <1>1, <1>6, <3>2 DEF LifecycleInv, WorldTyped
    <3> QED BY <3>1, <3>2
  <2>3. CASE ~job.adopt
    <3>1. Unserved(Site)
      BY <1>3, <1>6, <2>3
    <3>2. /\ WorldTyped' /\ JobTyped' /\ Fits(rt)' /\ RootsWhole' /\ FreshSound' /\ RemovalSound'
          /\ Targets' = Targets
          /\ \A s \in Sites : Unserved(s) => Unserved(s)'
          /\ \A s \in Sites \ {Site} : Whole(s) => Whole(s)'
      BY <1>1, <1>2, <1>4, <2>1, <3>1, ImportOn, ImportSites DEF SameSites, ImportSteps, Making
    <3>3. \A i \in DOMAIN job.sites : i < job.at => Whole(job.sites[i])' /\ job.sites[i] \in job.created
      BY <1>1, <1>4, <2>1, EarlierStayWhole DEF Making, SameSites
    <3>4. Site' = Site
      BY <2>1 DEF SameSites, Site
    <3>5. \A s \in job.made \cup job.created : Unserved(s)'
      BY <1>1, <3>2, ImportSites DEF ImportSound, Making
    <3>6. Unserved(Site)'
      BY <1>1, <3>1, <3>2, <3>4 DEF Unserved, Rooted
    <3>7. \A s \in job'.made \cup job'.created : Unserved(s)'
      BY <2>1, <3>4, <3>5, <3>6 DEF Unserved, Rooted
    <3>8. ImportSound'
      <4>1. ~job.applied /\ job.made \cup job.created \subseteq Targets
        BY <1>1 DEF ImportSound, Making
      <4> QED BY <1>1, <2>1, <2>2, <2>3, <3>2, <3>3, <3>4, <3>7, <4>1 DEF ImportSound, SameSites, Making
    <3> QED BY <3>2, <3>8 DEF LifecycleInv
  <2>4. CASE job.adopt
    <3>1. UNCHANGED <<rt, disk, dbs, linked, spoiled, crashes>>
      BY <1>2, <1>6, <2>4
    <3>2. /\ JobTyped' /\ FreshSound' /\ RemovalSound'
          /\ Building = {} /\ Building' = {} /\ Targets' = Targets
      BY <1>1, <2>1, ImportGoesOn, ImportSites DEF SameSites, ImportSteps, Making
    <3>3. WorldTyped' /\ Fits(rt)' /\ RootsWhole'
      <4>1. WorldTyped' /\ Fits(rt)'
        BY <1>2, <3>1, FaultTyped DEF LifecycleInv, WorldTyped, Fits, Runs
      <4> QED BY <3>1, <3>2, <4>1 DEF LifecycleInv, RootsWhole, Rooted, Whole
    <3>4. \A s \in Sites : Whole(s)' = Whole(s) /\ Unserved(s)' = Unserved(s)
      BY <3>1 DEF Whole, Unserved, Rooted
    <3>5. Site' = Site
      BY <2>1 DEF SameSites, Site
    <3>6. ImportSound'
      BY <1>1, <2>1, <2>2, <2>4, <3>1, <3>2, <3>4, <3>5, ImportSites DEF ImportSound, SameSites, Making
    <3> QED BY <3>2, <3>3, <3>6 DEF LifecycleInv
  <2> QED BY <2>3, <2>4
<1> QED BY <1>5, <1>6 DEF Prepare

LEMMA CreateDatabaseUserKeeps ==
    ASSUME LifecycleInv, CreateDatabaseUser
    PROVE  LifecycleInv'
<1>1. job.kind \in Imports /\ JobTyped /\ ImportSound /\ job.pc = "create" /\ Site \in Sites /\ Site \in Targets
  BY WhoseStep, SitesOfJob DEF LifecycleInv, CreateDatabaseUser, Making
<1>2. UNCHANGED <<rt, disk, spoiled, crashes>> /\ (Right \/ Fault)
  BY DEF CreateDatabaseUser
<1>3. disk[Site] = "app" /\ (dbs[Site] = "none" => Unserved(Site))
  BY <1>1, BareIsUnserved DEF ImportSound, Whole
<1>4. OnlySite
  BY <1>1, <1>2 DEF OnlySite, LifecycleInv, WorldTyped, CreateDatabaseUser
<1>5. CASE Goes("undo") /\ (dbs[Site] = "none" \/ UNCHANGED <<dbs, linked>>)
  BY <1>1, <1>2, <1>3, <1>4, <1>5, ImportGivesUp DEF Making
<1>6. CASE /\ dbs[Site] = "none"
           /\ job' = [job EXCEPT !.pc = "load", !.created = @ \cup {Site}]
  <2>1. /\ job' \in JobTypes /\ job'.pc = "load" /\ SameSites /\ job'.created = job.created \cup {Site}
        /\ job'.applied = job.applied /\ job'.adopt = job.adopt /\ job'.made = job.made
    <3> DEFINE created == job.created \cup {Site}
    <3>1. created \in SUBSET Sites /\ "load" \in Steps
      BY <1>1 DEF JobTyped, JobTypes, Steps, ImportSteps, Making
    <3> HIDE DEF created
    <3>2. job' = [job EXCEPT !.pc = "load", !.created = created]
      BY <1>6 DEF created
    <3>3. job' \in JobTypes
      BY <1>1, <3>1, <3>2 DEF JobTyped, JobTypes
    <3> QED BY <1>1, <3>2, <3>3 DEF JobTyped, JobTypes, SameSites, created
  <2>2. Unserved(Site)
    BY <1>3, <1>6
  <2>3. /\ WorldTyped' /\ JobTyped' /\ Fits(rt)' /\ RootsWhole' /\ FreshSound' /\ RemovalSound'
        /\ Targets' = Targets
        /\ \A s \in Sites : Unserved(s) => Unserved(s)'
    BY <1>1, <1>2, <1>4, <2>1, <2>2, ImportOn, ImportSites DEF SameSites, ImportSteps, Making
  <2>4. \A i \in DOMAIN job.sites : i < job.at => Whole(job.sites[i])' /\ job.sites[i] \in job.created
    BY <1>1, <1>4, <2>1, EarlierStayWhole DEF Making, SameSites
  <2>5. Site' = Site
    BY <2>1 DEF SameSites, Site
  <2>6. \A s \in job'.made \cup job'.created : Unserved(s)'
    <3>1. \A s \in job.made \cup job.created : Unserved(s) /\ s \in Sites
      BY <1>1, ImportSites DEF ImportSound, Making
    <3> QED BY <1>1, <2>1, <2>2, <2>3, <3>1
  <2>7. ImportSound'
    <3>1. ~job.applied /\ job.made \cup job.created \subseteq Targets
      BY <1>1 DEF ImportSound, Making
    <3>2. job.adopt => \A i \in DOMAIN job.sites : i >= job.at => disk[job.sites[i]] = "app"
      BY <1>1 DEF ImportSound, Making
    <3> QED BY <1>1, <1>2, <1>3, <2>1, <2>3, <2>4, <2>5, <2>6, <3>1, <3>2 DEF ImportSound, SameSites, Making
  <2> QED BY <2>3, <2>7 DEF LifecycleInv
<1> QED BY <1>5, <1>6 DEF CreateDatabaseUser

LEMMA ImportDatabaseKeeps ==
    ASSUME LifecycleInv, ImportDatabase
    PROVE  LifecycleInv'
<1>1. job.kind \in Imports /\ JobTyped /\ ImportSound /\ job.pc = "load" /\ Site \in Sites /\ Site \in Targets
  BY WhoseStep, SitesOfJob DEF LifecycleInv, ImportDatabase, Making
<1>2. UNCHANGED <<rt, disk, linked, spoiled, crashes>> /\ (Right \/ Fault)
  BY DEF ImportDatabase
<1>3. disk[Site] = "app" /\ Site \in job.created /\ Unserved(Site)
  BY <1>1 DEF ImportSound, Making
<1>4. OnlySite
  BY <1>1, <1>2 DEF OnlySite, LifecycleInv, WorldTyped, ImportDatabase
<1>5. CASE Goes("undo")
  BY <1>1, <1>2, <1>3, <1>4, <1>5, ImportGivesUp DEF Making
<1>6. CASE dbs' = [dbs EXCEPT ![Site] = "loaded"] /\ Goes("configure")
  <2>1. job' \in JobTypes /\ job'.pc = "configure" /\ SameJob /\ SameSites
    BY <1>1, <1>6, WentOn DEF Steps, ImportSteps, Making
  <2>2. /\ WorldTyped' /\ JobTyped' /\ Fits(rt)' /\ RootsWhole' /\ FreshSound' /\ RemovalSound'
        /\ Targets' = Targets
        /\ \A s \in Sites : Unserved(s) => Unserved(s)'
    BY <1>1, <1>2, <1>3, <1>4, <2>1, ImportOn, ImportSites DEF SameSites, ImportSteps, Making
  <2>3. \A i \in DOMAIN job.sites : i < job.at => Whole(job.sites[i])' /\ job.sites[i] \in job.created
    BY <1>1, <1>4, <2>1, EarlierStayWhole DEF Making, SameSites
  <2>4. Site' = Site /\ dbs'[Site] = "loaded"
    BY <1>1, <1>6, <2>1 DEF SameSites, Site, LifecycleInv, WorldTyped
  <2>5. \A s \in job.made \cup job.created : Unserved(s)'
    BY <1>1, <2>2, ImportSites DEF ImportSound, Making
  <2>6. ImportSound'
    <3>1. ~job.applied /\ job.made \cup job.created \subseteq Targets
      BY <1>1 DEF ImportSound, Making
    <3>2. job.adopt => \A i \in DOMAIN job.sites : i >= job.at => disk[job.sites[i]] = "app"
      BY <1>1 DEF ImportSound, Making
    <3> QED BY <1>1, <1>2, <1>3, <2>1, <2>2, <2>3, <2>4, <2>5, <3>1, <3>2 DEF ImportSound, SameJob, Making
  <2> QED BY <2>2, <2>6 DEF LifecycleInv
<1> QED BY <1>5, <1>6 DEF ImportDatabase

LEMMA ConfigureKeeps ==
    ASSUME LifecycleInv, Configure
    PROVE  LifecycleInv'
<1>1. job.kind \in Imports /\ JobTyped /\ ImportSound /\ job.pc = "configure" /\ Site \in Sites /\ Site \in Targets
  BY WhoseStep, SitesOfJob DEF LifecycleInv, Configure, Making
<1>2. UNCHANGED <<rt, disk, dbs, spoiled, crashes>> /\ (Right \/ Fault)
  BY DEF Configure
<1>3. disk[Site] = "app" /\ dbs[Site] = "loaded" /\ Site \in job.created /\ Unserved(Site)
  BY <1>1 DEF ImportSound, Making
<1>4. OnlySite
  BY <1>1, <1>2 DEF OnlySite, LifecycleInv, WorldTyped, Configure
<1>5. CASE Goes("undo")
  BY <1>1, <1>2, <1>3, <1>4, <1>5, ImportGivesUp DEF Making
<1>6. CASE /\ linked' = linked \cup {Site}
           /\ IF More THEN job' = [job EXCEPT !.at = @ + 1, !.pc = "prepare"] ELSE Goes("import commit")
  <2> DEFINE next == IF More THEN "prepare" ELSE "import commit"
  <2>1. /\ job' \in JobTypes /\ job'.pc = next /\ job'.sites = job.sites /\ job'.kind = job.kind
        /\ job'.created = job.created /\ job'.made = job.made /\ job'.applied = job.applied
        /\ job'.adopt = job.adopt /\ job'.at = IF More THEN job.at + 1 ELSE job.at
    <3>1. CASE More
      <4>1. job' = [job EXCEPT !.at = job.at + 1, !.pc = "prepare"]
        BY <1>6, <3>1
      <4>2. job.at + 1 \in Nat /\ "prepare" \in Steps
        <5>1. job.at \in Nat
          BY <1>1, Typed DEF JobTypes
        <5> QED BY <5>1 DEF Steps, ImportSteps, Making
      <4>3. job' \in JobTypes
        BY <1>1, <4>1, <4>2 DEF JobTyped, JobTypes
      <4> QED BY <1>1, <3>1, <4>1, <4>3 DEF JobTyped, JobTypes
    <3>2. CASE ~More
      <4>1. job' \in JobTypes /\ job'.pc = "import commit" /\ SameJob
        BY <1>1, <1>6, <3>2, WentOn DEF Steps, ImportSteps
      <4> QED BY <3>2, <4>1 DEF SameJob
    <3> QED BY <3>1, <3>2
  <2>2. /\ job.at \in 1 .. Len(job.sites) /\ Len(job.sites) \in {1, 2}
        /\ DOMAIN job.sites = 1 .. Len(job.sites) /\ job'.at \in DOMAIN job.sites
        /\ More <=> job.at < Len(job.sites)
    <3>1. /\ job.at \in DOMAIN job.sites /\ Len(job.sites) \in {1, 2}
          /\ DOMAIN job.sites = 1 .. Len(job.sites)
      BY <1>1, ImportSites
    <3>2. job'.at = IF job.at < Len(job.sites) THEN job.at + 1 ELSE job.at
      BY <2>1 DEF More
    <3> QED BY <3>1, <3>2 DEF More
  <2>3. /\ WorldTyped' /\ JobTyped' /\ Fits(rt)' /\ RootsWhole' /\ FreshSound' /\ RemovalSound'
        /\ Targets' = Targets
        /\ \A s \in Sites : Unserved(s) => Unserved(s)'
    BY <1>1, <1>2, <1>3, <1>4, <2>1, <2>2, ImportOn DEF ImportSteps, Making
  <2>4. \A i \in DOMAIN job.sites : i < job.at => Whole(job.sites[i])' /\ job.sites[i] \in job.created
    BY <1>1, <1>4, <2>1, EarlierStayWhole DEF Making
  <2>5. \A i \in DOMAIN job.sites : i = job.at => Whole(job.sites[i])' /\ job.sites[i] \in job.created
    <3>1. \A s \in {Site} : Whole(s)' /\ s \in job.created
      BY <1>2, <1>3, <1>6 DEF Whole
    <3>2. \A i \in DOMAIN job.sites : \A s \in {Site} : i = job.at => job.sites[i] = s
      BY DEF Site
    <3> SUFFICES ASSUME NEW i \in DOMAIN job.sites, i = job.at
                 PROVE  Whole(job.sites[i])' /\ job.sites[i] \in job.created
      OBVIOUS
    <3> PICK s \in {Site} : TRUE
      OBVIOUS
    <3> QED BY <2>1, <3>1, <3>2 DEF Whole
  <2>6. \A i \in DOMAIN job.sites : i < job.at + 1 => Whole(job.sites[i])' /\ job.sites[i] \in job.created
    BY <2>2, <2>4, <2>5
  <2>7. \A s \in job.made \cup job.created : Unserved(s)'
    BY <1>1, <2>3, ImportSites DEF ImportSound, Making
  <2>8. ~job.applied /\ job.made \cup job.created \subseteq Targets
    BY <1>1 DEF ImportSound, Making
  <2>9. job.adopt => \A i \in DOMAIN job.sites : i >= job.at => disk[job.sites[i]] = "app"
    BY <1>1 DEF ImportSound, Making
  <2>10. CASE More
    <3>1. \A i \in DOMAIN job.sites : i >= job.at + 1 => i >= job.at
      BY <2>2
    <3>2. ImportSound'
      BY <1>2, <2>1, <2>3, <2>6, <2>7, <2>8, <2>9, <2>10, <3>1 DEF ImportSound, Making
    <3> QED BY <2>3, <3>2 DEF LifecycleInv
  <2>11. CASE ~More
    <3>1. \A i \in DOMAIN job.sites : i < job.at + 1
      BY <2>2, <2>11
    <3>2. \A s \in Targets : Whole(s)' /\ s \in job.created
      <4> SUFFICES ASSUME NEW s \in Targets PROVE Whole(s)' /\ s \in job.created
        OBVIOUS
      <4> PICK i \in DOMAIN job.sites : job.sites[i] = s
        BY <1>1, ImportSites
      <4> QED BY <2>1, <2>6, <3>1 DEF Whole
    <3>3. ImportSound'
      BY <1>2, <2>1, <2>3, <2>7, <2>8, <2>11, <3>2 DEF ImportSound, Making
    <3> QED BY <2>3, <3>3 DEF LifecycleInv
  <2> QED BY <2>10, <2>11
<1> QED BY <1>5, <1>6 DEF Configure

(* All sites of the import are whole when they are routed, and none was    *)
(* served before.                                                          *)
LEMMA ImportCommitKeeps ==
    ASSUME LifecycleInv, ImportCommit
    PROVE  LifecycleInv'
<1>1. job.kind \in Imports /\ JobTyped /\ ImportSound /\ job.pc = "import commit" /\ job.sites \in Queues
  BY WhoseStep DEF LifecycleInv, ImportCommit, JobTyped, FreshSteps, Making
<1>2. UNCHANGED <<disk, dbs, linked, spoiled, crashes>> /\ (Right \/ Fault)
  BY DEF ImportCommit
<1>3. CASE Goes("undo") /\ UNCHANGED rt
  <2>1. OnlySite
    BY <1>2 DEF OnlySite, LifecycleInv, WorldTyped
  <2> QED BY <1>1, <1>2, <1>3, <2>1, ImportGivesUp
<1>4. CASE /\ Addable(job.sites) /\ rt' = Adding(job.sites)
           /\ job' = [job EXCEPT !.pc = "probe", !.rt = rt, !.applied = TRUE]
  <2>1. /\ job' \in JobTypes /\ job'.pc = "probe" /\ SameSites /\ job'.created = job.created
        /\ job'.made = job.made /\ job'.applied /\ job'.rt = rt /\ job'.adopt = job.adopt
    <3>1. rt \in Config /\ "probe" \in Steps
      BY DEF LifecycleInv, WorldTyped, Steps, ImportSteps
    <3>2. job' \in JobTypes
      BY <1>1, <1>4, <3>1 DEF JobTyped, JobTypes
    <3> QED BY <1>1, <1>4, <3>2 DEF JobTyped, JobTypes, SameSites
  <2>2. /\ JobTyped' /\ FreshSound' /\ RemovalSound'
        /\ Building = {} /\ Building' = {} /\ Targets' = Targets
    BY <1>1, <2>1, ImportGoesOn, ImportSites DEF SameSites, ImportSteps
  <2>3. /\ rt' \in Config /\ Fits(rt)'
        /\ \A s \in Sites : Rooted(rt', s) => Rooted(rt, s) \/ s \in Targets
    <3>1. rt \in Config /\ Fits(rt)
      BY DEF LifecycleInv, WorldTyped
    <3> QED BY <1>1, <1>4, <3>1, AddingFits DEF Fits, Runs, Targets
  <2>4. WorldTyped'
    BY <1>2, <2>3, FaultTyped DEF LifecycleInv, WorldTyped
  <2>5. \A s \in Sites : Whole(s)' = Whole(s)
    BY <1>2 DEF Whole
  <2>6. Targets \subseteq Sites /\ (\A s \in Targets : Whole(s)) /\ Targets \subseteq job.created
    BY <1>1, ImportSites DEF ImportSound
  <2>7. RootsWhole'
    <3>1. spoiled \ Targets \subseteq spoiled' /\ Building \subseteq Targets \cup Building'
      BY <1>2, <2>2
    <3>2. \A s \in Targets : Whole(s)'
      BY <2>5, <2>6
    <3>3. Targets \in SUBSET Sites
      BY <2>6
    <3>4. \A s \in Sites \ Targets : Whole(s) => Whole(s)'
      BY <2>5
    <3> QED BY <2>3, <3>1, <3>2, <3>3, <3>4, RootsKept
  <2>8. Returnable(job.rt)'
    <3>1. \A s \in Targets : rt.routes[s] = None
      BY <1>4 DEF Addable, Free, Targets
    <3>2. \A s \in Targets : Rooted(rt, s) => s \in spoiled
      BY <1>1, <2>6 DEF ImportSound, Making, Unserved
    <3>3. rt \in Config /\ Fits(rt)
      BY DEF LifecycleInv, WorldTyped
    <3> QED BY <1>2, <2>1, <2>2, <3>1, <3>2, <3>3 DEF Returnable, Fits, Runs, Rooted
  <2>9. ImportSound'
    <3>1. job.made \cup job.created \subseteq Targets
      BY <1>1 DEF ImportSound
    <3>2. \A s \in Targets : Whole(s)'
      BY <2>5, <2>6
    <3> QED BY <2>1, <2>2, <2>8, <3>1, <3>2 DEF ImportSound, SameSites, Making
  <2> QED BY <2>2, <2>3, <2>4, <2>7, <2>9 DEF LifecycleInv
<1> QED BY <1>3, <1>4 DEF ImportCommit

LEMMA ProbeKeeps ==
    ASSUME LifecycleInv, Probe
    PROVE  LifecycleInv'
<1>1. job.kind \in Imports /\ JobTyped /\ ImportSound /\ job.pc = "probe"
  BY WhoseStep DEF LifecycleInv, Probe, Making
<1>2. UNCHANGED <<rt, disk, dbs, linked, spoiled, crashes>> /\ (Right \/ Fault)
  BY DEF Probe, World
<1>3. PICK step \in {"settle", "undo"} : Goes(step)
  BY DEF Probe
<1>4. job' \in JobTypes /\ job'.pc = step /\ SameJob /\ SameSites
  BY <1>1, <1>3, WentOn DEF Steps, ImportSteps
<1>5. /\ JobTyped' /\ FreshSound' /\ RemovalSound'
      /\ Building = {} /\ Building' = {} /\ Targets' = Targets
  BY <1>1, <1>4, ImportGoesOn, ImportSites DEF SameSites, ImportSteps
<1>6. WorldTyped' /\ Fits(rt)' /\ RootsWhole'
  <2>1. WorldTyped' /\ Fits(rt)'
    BY <1>2, FaultTyped DEF LifecycleInv, WorldTyped, Fits, Runs
  <2> QED BY <1>2, <1>5, <2>1 DEF LifecycleInv, RootsWhole, Rooted, Whole
<1>7. \A s \in Sites : Whole(s)' = Whole(s) /\ Unserved(s)' = Unserved(s)
  BY <1>2 DEF Whole, Unserved, Rooted
<1>8. Returnable(job.rt) => Returnable(job.rt)'
  BY <1>2, <1>4, <1>5 DEF Returnable, Fits, Runs, Rooted, SameJob
<1>9. ImportSound'
  <2>1. /\ job.applied /\ Returnable(job.rt)' /\ job.made \cup job.created \subseteq Targets
        /\ \A s \in Targets : Whole(s)
    BY <1>1, <1>8 DEF ImportSound
  <2>2. \A s \in Targets : Whole(s)'
    BY <1>1, <1>7, <2>1, ImportSites
  <2> QED BY <1>1, <1>4, <1>5, <2>1, <2>2 DEF ImportSound, SameJob, Making
<1> QED BY <1>5, <1>6, <1>9 DEF LifecycleInv

LEMMA SettleKeeps ==
    ASSUME LifecycleInv, Settle
    PROVE  LifecycleInv'
<1>1. job.kind \in Imports /\ JobTyped /\ ImportSound /\ job.pc = "settle"
  BY WhoseStep DEF LifecycleInv, Settle, Making
<1>2. /\ UNCHANGED <<rt, disk, dbs, linked, crashes>> /\ (Right \/ Fault)
      /\ spoiled' = spoiled \ Targets /\ \A s \in Targets : Whole(s)
  BY <1>1 DEF Settle, World, ImportSound
<1>3. CASE \E step \in {"failed", "done"} : Goes(step)
  BY <1>1, <1>2, <1>3, ImportEnds
<1>4. CASE Goes("finish")
  <2>1. job' \in JobTypes /\ job'.pc = "finish" /\ SameJob /\ SameSites
    BY <1>1, <1>4, WentOn DEF Steps, ImportSteps
  <2>2. /\ JobTyped' /\ FreshSound' /\ RemovalSound'
        /\ Building = {} /\ Building' = {} /\ Targets' = Targets
    BY <1>1, <2>1, ImportGoesOn, ImportSites DEF SameSites, ImportSteps
  <2>3. WorldTyped' /\ Fits(rt)'
    BY <1>2, FaultTyped DEF LifecycleInv, WorldTyped, Fits, Runs
  <2>4. \A s \in Sites : Whole(s)' = Whole(s) /\ Rooted(rt, s)' = Rooted(rt, s)
    BY <1>2 DEF Whole, Rooted
  <2>5. RootsWhole'
    BY <1>2, <2>2, <2>4 DEF LifecycleInv, RootsWhole
  <2>6. ImportSound'
    <3>1. job.applied /\ job.made \cup job.created \subseteq Targets
      BY <1>1 DEF ImportSound
    <3>2. \A s \in Targets : Whole(s)'
      BY <1>1, <1>2, <2>4, ImportSites
    <3> QED BY <1>1, <2>1, <2>2, <3>1, <3>2 DEF ImportSound, SameJob, Making
  <2> QED BY <2>2, <2>3, <2>5, <2>6 DEF LifecycleInv
<1> QED BY <1>3, <1>4 DEF Settle

LEMMA UploadFinishKeeps ==
    ASSUME LifecycleInv, Finish, job.kind \in Imports
    PROVE  LifecycleInv'
<1>1. /\ UNCHANGED <<rt, disk, dbs, linked, crashes>> /\ (Right \/ Fault)
      /\ spoiled' = spoiled \ Targets /\ \A s \in Targets : Whole(s)
  BY DEF Finish, World, LifecycleInv, ImportSound
<1>2. PICK step \in {"failed", "done"} : Goes(step)
  BY DEF Finish
<1> QED BY <1>1, <1>2, ImportEnds

(* The routes go first, and what was made is not served any more.          *)
LEMMA UndoImportRuntimeKeeps ==
    ASSUME LifecycleInv, UndoImportRuntime
    PROVE  LifecycleInv'
<1>1. job.kind \in Imports /\ JobTyped /\ ImportSound /\ job.pc = "undo" /\ job.sites \in Queues
  BY DEF LifecycleInv, UndoImportRuntime, JobTyped
<1>2. UNCHANGED <<disk, dbs, linked, crashes>>
  BY DEF UndoImportRuntime
<1>3. /\ rt' \in Config /\ Fits(rt)' /\ spoiled' \subseteq Sites /\ spoiled \subseteq spoiled'
      /\ \A s \in Sites : Rooted(rt', s) => Rooted(rt, s)
      /\ faults' \in 0..MaxFaults
      /\ Goes("undo databases") \/ Moves("undo databases", TRUE)
      /\ \A s \in job.made \cup job.created : s \in spoiled' \/ ~Rooted(rt', s)
  <2>1. job.made \cup job.created \subseteq Targets
    BY <1>1 DEF ImportSound
  <2>2. CASE job.applied
    <3>1. Returnable(job.rt) /\ Restores("undo databases")
      BY <1>1, <2>2 DEF ImportSound, UndoImportRuntime
    <3> QED BY <1>1, <2>1, <3>1, RestoresFits DEF LifecycleInv, Goes
  <2>3. CASE ~job.applied
    <3>1. UNCHANGED <<rt, spoiled>> /\ Right /\ Goes("undo databases")
      BY <2>3 DEF UndoImportRuntime
    <3>2. \A s \in job.made \cup job.created : Unserved(s)
      BY <1>1, <2>3 DEF ImportSound
    <3> QED BY <3>1, <3>2 DEF LifecycleInv, WorldTyped, Fits, Runs, Right, Unserved
  <2> QED BY <2>2, <2>3
<1>4. job' \in JobTypes /\ job'.pc = "undo databases" /\ SameJob /\ SameSites
  BY <1>1, <1>3, WentOn DEF Steps, ImportSteps
<1>5. /\ JobTyped' /\ FreshSound' /\ RemovalSound'
      /\ Building = {} /\ Building' = {} /\ Targets' = Targets
  BY <1>1, <1>4, ImportGoesOn, ImportSites DEF SameSites, ImportSteps
<1>6. WorldTyped'
  BY <1>2, <1>3 DEF LifecycleInv, WorldTyped
<1>7. RootsWhole'
  <2>1. \A s \in Sites : Whole(s)' = Whole(s)
    BY <1>2 DEF Whole
  <2> QED BY <1>3, <1>5, <2>1 DEF LifecycleInv, RootsWhole, Rooted
<1>8. ImportSound'
  <2>1. \A s \in job.made \cup job.created : Unserved(s)'
    BY <1>3 DEF Unserved, Rooted
  <2>2. job.made \cup job.created \subseteq Targets
    BY <1>1 DEF ImportSound
  <2> QED BY <1>1, <1>4, <1>5, <2>1, <2>2 DEF ImportSound, SameJob, Making
<1> QED BY <1>3, <1>5, <1>6, <1>7, <1>8 DEF LifecycleInv

LEMMA UndoImportDataKeeps ==
    ASSUME LifecycleInv, UndoImportDatabases \/ UndoImportFiles
    PROVE  LifecycleInv'
<1>1. job.kind \in Imports /\ JobTyped /\ ImportSound /\ job.pc \in {"undo databases", "undo files"}
  BY WhoseStep DEF LifecycleInv, UndoImportDatabases, UndoImportFiles
<1>2. UNCHANGED <<rt, spoiled, crashes>> /\ (Right \/ Fault)
  BY DEF UndoImportDatabases, UndoImportFiles
<1> DEFINE x == job.made \cup job.created
<1>3. x \subseteq Targets /\ x \in SUBSET Sites /\ \A s \in x : Unserved(s)
  BY <1>1, ImportSites DEF ImportSound
<1>4. /\ disk' \in [Sites -> {"none", "empty", "torn", "plain", "app"}]
      /\ dbs' \in [Sites -> {"none", "bare", "loaded"}] /\ linked' \subseteq Sites
      /\ \A s \in Sites \ x : disk'[s] = disk[s] /\ dbs'[s] = dbs[s] /\ (s \in linked => s \in linked')
  BY DEF UndoImportDatabases, UndoImportFiles, LifecycleInv, WorldTyped
<1>5. WorldTyped' /\ Fits(rt)'
  BY <1>2, <1>4, FaultTyped DEF LifecycleInv, WorldTyped, Fits, Runs
<1>6. Building = {}
  BY <1>1, ImportSites
<1>7. RootsWhole'
  <2>1. \A s \in Sites \ x : Whole(s) => Whole(s)'
    BY <1>4 DEF Whole
  <2>2. \A s \in x : s \in spoiled' \/ ~Rooted(rt', s)
    BY <1>2, <1>3 DEF Unserved
  <2>3. spoiled \ x \subseteq spoiled' /\ Building \subseteq x \cup Building'
        /\ \A s \in Sites : Rooted(rt', s) => Rooted(rt, s)
    BY <1>2, <1>6
  <2> QED BY <1>3, <2>1, <2>2, <2>3, RootsKept
<1>8. CASE UndoImportFiles
  <2>1. JobTyped' /\ FreshSound' /\ ImportSound' /\ RemovalSound' /\ Building' = {}
    BY <1>1, <1>8, Ended DEF UndoImportFiles
  <2> QED BY <1>5, <1>7, <2>1 DEF LifecycleInv
<1>9. CASE UndoImportDatabases
  <2>1. Goes("undo files") \/ Moves("undo files", TRUE)
    BY <1>9 DEF UndoImportDatabases
  <2>2. job' \in JobTypes /\ job'.pc = "undo files" /\ SameJob /\ SameSites
    BY <1>1, <2>1, WentOn DEF Steps, ImportSteps
  <2>3. /\ JobTyped' /\ FreshSound' /\ RemovalSound' /\ Targets' = Targets
    BY <1>1, <2>2, ImportGoesOn, ImportSites DEF SameSites, ImportSteps
  <2>4. ImportSound'
    <3>1. \A s \in x : Unserved(s)'
      BY <1>2, <1>3 DEF Unserved, Rooted
    <3> QED BY <1>1, <1>3, <2>2, <2>3, <3>1 DEF ImportSound, SameJob, Making
  <2> QED BY <1>5, <1>7, <2>3, <2>4 DEF LifecycleInv
<1> QED BY <1>8, <1>9

-----------------------------------------------------------------------------
(* Removal.                                                                *)
LEMMA RemovalEnds ==
    ASSUME LifecycleInv, job.kind = "remove", OnlySite, UNCHANGED <<rt, spoiled, crashes>>, Right \/ Fault,
           NEW step \in {"failed", "done"}, Goes(step), Unserved(Site) \/ UNCHANGED <<disk, dbs, linked>>
    PROVE  LifecycleInv'
<1>1. JobTyped' /\ FreshSound' /\ ImportSound' /\ RemovalSound' /\ Building' = {}
  BY Ended DEF LifecycleInv
<1>2. Building = {} /\ Site \in Sites
  BY SitesOfJob DEF Building, LifecycleInv
<1>3. WorldTyped' /\ Fits(rt)' /\ RootsWhole'
  <2> PICK t \in {Site} : TRUE
    OBVIOUS
  <2>1. t \in spoiled' \cup Building' \/ ~Rooted(rt, t) \/ Whole(t)'
    BY <1>2 DEF Unserved, LifecycleInv, RootsWhole, Whole
  <2> QED BY <1>2, <2>1, SiteStep DEF LifecycleInv, WorldTyped
<1> QED BY <1>1, <1>3 DEF LifecycleInv

LEMMA RemovalGoesOn ==
    ASSUME LifecycleInv, job.kind = "remove", NEW step \in RemovalSteps, Goes(step)
    PROVE  /\ job' \in JobTypes /\ job'.pc = step /\ SameJob
           /\ JobTyped' /\ FreshSound' /\ ImportSound' /\ Building = {} /\ Building' = {}
           /\ Targets' = Targets /\ Site' = Site /\ Site \in Sites
<1>1. job' \in JobTypes /\ job'.pc = step /\ SameJob /\ SameSites
  BY WentOn DEF LifecycleInv, Steps, RemovalSteps
<1>2. JobTyped'
  BY <1>1 DEF LifecycleInv, JobTyped, SameSites, Single, Fresh, Imports
<1>3. FreshSound' /\ ImportSound' /\ Building = {} /\ Building' = {}
  BY <1>1 DEF SameSites, Fresh, Imports, FreshSound, ImportSound, Building
<1> QED BY <1>1, <1>2, <1>3, SameBuilding, SitesOfJob DEF LifecycleInv

LEMMA RemoveOutsideKeeps ==
    ASSUME LifecycleInv, RemoveOutside
    PROVE  LifecycleInv'
<1>1. job.kind = "remove" /\ job.pc = "outside" /\ RemovalSound
  BY WhoseStep DEF LifecycleInv, RemoveOutside, RemovalSteps
<1>2. UNCHANGED <<rt, disk, dbs, linked, spoiled, crashes>> /\ (Right \/ Fault)
  BY DEF RemoveOutside, World
<1>3. CASE Goes("failed")
  <2>1. OnlySite
    BY <1>2 DEF OnlySite, LifecycleInv, WorldTyped
  <2> QED BY <1>1, <1>2, <1>3, <2>1, RemovalEnds
<1>4. CASE Goes("runtime")
  <2>1. /\ job' \in JobTypes /\ job'.pc = "runtime" /\ SameJob
        /\ JobTyped' /\ FreshSound' /\ ImportSound' /\ Building = {} /\ Building' = {}
        /\ Targets' = Targets /\ Site' = Site
    BY <1>1, <1>4, RemovalGoesOn DEF RemovalSteps
  <2>2. WorldTyped' /\ Fits(rt)'
    BY <1>2, FaultTyped DEF LifecycleInv, WorldTyped, Fits, Runs
  <2>3. RootsWhole'
    BY <1>2, <2>1 DEF LifecycleInv, RootsWhole, Rooted, Whole
  <2>4. RemovalSound'
    BY <1>1, <1>2, <2>1 DEF RemovalSound, SameJob, TakesData, PlannedHosts
  <2> QED BY <2>1, <2>2, <2>3, <2>4 DEF LifecycleInv
<1> QED BY <1>3, <1>4 DEF RemoveOutside

(* Before any data goes its hosts are gone, or the operator asked for it.  *)
LEMMA RemoveRuntimeKeeps ==
    ASSUME LifecycleInv, RemoveRuntime
    PROVE  LifecycleInv'
<1>1. job.kind = "remove" /\ job.pc = "runtime" /\ RemovalSound /\ Site \in Sites /\ job.sel \subseteq Resources
  <2>1. job.kind = "remove" /\ job.pc = "runtime"
    BY WhoseStep DEF LifecycleInv, RemoveRuntime, RemovalSteps
  <2>2. job \in JobTypes
    BY Typed DEF LifecycleInv
  <2>3. job.sel \subseteq Resources
    BY <2>2 DEF JobTypes
  <2> QED BY <2>1, <2>3, SitesOfJob DEF LifecycleInv
<1>2. UNCHANGED <<disk, dbs, linked, crashes>> /\ (Right \/ Fault)
  BY DEF RemoveRuntime
<1>3. CASE Goes("failed") /\ UNCHANGED <<rt, spoiled>>
  <2>1. OnlySite
    BY <1>2 DEF OnlySite, LifecycleInv, WorldTyped
  <2> QED BY <1>1, <1>2, <1>3, <2>1, RemovalEnds
<1>4. CASE /\ Goes("drop")
           /\ \/ /\ "runtime" \notin job.sel /\ UNCHANGED rt
                 /\ spoiled' = IF job.sel \cap {"database", "files"} = {} THEN spoiled ELSE spoiled \cup {Site}
              \/ /\ "runtime" \in job.sel /\ Runs(Removing(Site)) /\ rt' = Removing(Site) /\ UNCHANGED spoiled
  <2>1. /\ job' \in JobTypes /\ job'.pc = "drop" /\ SameJob
        /\ JobTyped' /\ FreshSound' /\ ImportSound' /\ Building = {} /\ Building' = {}
        /\ Targets' = Targets /\ Site' = Site
    BY <1>1, <1>4, RemovalGoesOn DEF RemovalSteps
  <2>2. /\ rt' \in Config /\ Fits(rt)' /\ (\A s \in Sites : Rooted(rt', s) => Rooted(rt, s))
        /\ spoiled' \subseteq Sites /\ spoiled \subseteq spoiled'
        /\ TakesData => Site \in spoiled' \/ ~Rooted(rt', Site)
    <3>1. CASE "runtime" \notin job.sel
      BY <1>1, <1>4, <3>1 DEF LifecycleInv, WorldTyped, Fits, Runs, TakesData
    <3>2. CASE "runtime" \in job.sel
      <4>1. Runs(Removing(Site)) /\ rt' = Removing(Site) /\ UNCHANGED spoiled
        BY <1>4, <3>2
      <4>2. \A h \in Hosts : Removing(Site).routes[h] = IF h \in PlannedHosts(Site) THEN None ELSE rt.routes[h]
        BY DEF Removing
      <4>3. Removing(Site) \in Config
        BY DEF Removing, Config, LifecycleInv, WorldTyped
      <4> DEFINE c == Removing(Site)
      <4> HIDE DEF c
      <4>4. Fits(c)
        BY <4>1, <4>2 DEF Fits, c, LifecycleInv, Hosts
      <4>5. \A s \in Sites : Rooted(c, s) => Rooted(rt, s)
        BY <4>2 DEF Rooted, c
      <4>6. TakesData => ~Rooted(c, Site)
        BY <1>1, <4>2 DEF RemovalSound, Rooted, c
      <4>7. rt' = c
        BY <4>1 DEF c
      <4> QED BY <4>1, <4>3, <4>4, <4>5, <4>6, <4>7 DEF c, LifecycleInv, WorldTyped, Fits, Runs
    <3> QED BY <3>1, <3>2
  <2>3. WorldTyped'
    BY <1>2, <2>2, FaultTyped DEF LifecycleInv, WorldTyped
  <2>4. RootsWhole'
    <3>1. \A s \in Sites : Whole(s)' = Whole(s)
      BY <1>2 DEF Whole
    <3> QED BY <2>1, <2>2, <3>1 DEF LifecycleInv, RootsWhole, Rooted
  <2>5. RemovalSound'
    <3>1. TakesData => Unserved(Site)'
      BY <2>1, <2>2 DEF Unserved, Rooted
    <3> QED BY <1>1, <2>1, <3>1 DEF RemovalSound, SameJob, TakesData
  <2> QED BY <2>1, <2>2, <2>3, <2>4, <2>5 DEF LifecycleInv
<1> QED BY <1>3, <1>4 DEF RemoveRuntime

LEMMA RemoveDataKeeps ==
    ASSUME LifecycleInv, RemoveDatabase \/ RemoveFiles
    PROVE  LifecycleInv'
<1>1. job.kind = "remove" /\ RemovalSound /\ Site \in Sites
  BY WhoseStep, SitesOfJob DEF LifecycleInv, RemoveDatabase, RemoveFiles, RemovalSteps
<1>2. UNCHANGED <<rt, spoiled, crashes>> /\ (Right \/ Fault)
  BY DEF RemoveDatabase, RemoveFiles
<1>3. OnlySite
  BY <1>1, <1>2 DEF OnlySite, LifecycleInv, WorldTyped, RemoveDatabase, RemoveFiles
<1>4. Unserved(Site) \/ UNCHANGED <<disk, dbs, linked>>
  BY <1>1 DEF RemovalSound, TakesData, RemoveDatabase, RemoveFiles
<1>5. CASE \E step \in {"failed", "done"} : Goes(step)
  BY <1>1, <1>2, <1>3, <1>4, <1>5, RemovalEnds
<1>6. CASE Goes("delete") /\ job.pc = "drop"
  <2>1. /\ job' \in JobTypes /\ job'.pc = "delete" /\ SameJob
        /\ JobTyped' /\ FreshSound' /\ ImportSound' /\ Building = {} /\ Building' = {}
        /\ Targets' = Targets /\ Site' = Site
    BY <1>1, <1>6, RemovalGoesOn DEF RemovalSteps
  <2>2. WorldTyped' /\ Fits(rt)' /\ RootsWhole'
    <3> PICK t \in {Site} : TRUE
      OBVIOUS
    <3>1. t \in spoiled' \cup Building' \/ ~Rooted(rt, t) \/ Whole(t)'
      BY <1>1, <1>2, <1>4, <2>1 DEF Unserved, LifecycleInv, RootsWhole, Whole
    <3> QED BY <1>1, <1>2, <1>3, <2>1, <3>1, SiteStep DEF LifecycleInv, WorldTyped
  <2>3. RemovalSound'
    <3>1. Unserved(Site) => Unserved(Site)'
      BY <1>2, <2>1 DEF Unserved, Rooted
    <3> QED BY <1>1, <1>6, <2>1, <3>1 DEF RemovalSound, SameJob, TakesData
  <2> QED BY <2>1, <2>2, <2>3 DEF LifecycleInv
<1> QED BY <1>5, <1>6 DEF RemoveDatabase, RemoveFiles

-----------------------------------------------------------------------------
LEMMA InitLifecycle == Init => LifecycleInv
<1> SUFFICES ASSUME Init PROVE LifecycleInv
  OBVIOUS
<1> PICK r \in SUBSET Sites :
      /\ rt = [routes |-> [h \in Hosts |-> IF h \in r THEN Own(h) ELSE None], pools |-> r]
      /\ disk = [s \in Sites |-> IF s \in r THEN "app" ELSE "none"]
      /\ dbs = [s \in Sites |-> IF s \in r THEN "loaded" ELSE "none"]
      /\ linked = r
  BY DEF Init
<1>1. spoiled = {} /\ faults = 0 /\ crashes = 0
  BY DEF Init
<1>2. \A h \in Hosts : rt.routes[h] = IF h \in r THEN Own(h) ELSE None
  OBVIOUS
<1>3. WorldTyped
  <2>1. rt \in Config
    BY DEF Config, Route, Own, Hosts
  <2> QED BY <1>1, <2>1, SiteLifecycleAssumption DEF WorldTyped
<1>4. Fits(rt)
  <2>1. \A h \in r : Own(h).pool = h
    BY DEF Own
  <2> QED BY <1>2, <2>1 DEF Fits, Runs, Hosts
<1>5. RootsWhole
  <2>1. \A h \in r : Own(h).root = h
    BY DEF Own
  <2> QED BY <1>2, <2>1 DEF RootsWhole, Rooted, Whole
<1>6. JobTyped /\ job.kind = "none"
  <2>1. job = [kind |-> "none", sites |-> <<>>, at |-> 1, pc |-> "idle", adopt |-> FALSE, sel |-> {},
               rt |-> None, made |-> {}, created |-> {}, applied |-> FALSE, reported |-> FALSE,
               staged |-> ("none" = "upload"), before |-> {}]
    BY JobFields DEF Init
  <2>2. job \in JobTypes
    BY <2>1 DEF JobTypes, Steps, Ending
  <2> QED BY <2>1, <2>2 DEF JobTyped, Ending, Fresh, Imports
<1> QED BY <1>3, <1>4, <1>5, <1>6 DEF LifecycleInv, FreshSound, ImportSound, RemovalSound, Fresh, Imports

LEMMA LifecycleKept == ~LateAlias => (LifecycleInv /\ [Next]_vars => LifecycleInv')
<1> SUFFICES ASSUME ~LateAlias, LifecycleInv, [Next]_vars PROVE LifecycleInv'
  OBVIOUS
<1>1. CASE \E s \in Sites, k \in Fresh : StartFresh(k, s)
  BY <1>1, StartFreshKeeps
<1>2. CASE \E s \in Sites : StartUpload(s)
  <2> PICK s \in Sites : StartUpload(s)
    BY <1>2
  <2>1. <<s>> \in Queues
    BY DEF Queues
  <2> QED BY <2>1, StartImportKeeps DEF StartUpload, Imports
<1>3. CASE \E q \in Queues, adopt \in BOOLEAN : StartImport(q, adopt)
  BY <1>3, StartImportKeeps DEF StartImport, Imports
<1>4. CASE \E s \in Sites, sel \in SUBSET Resources : StartRemoval(s, sel)
  BY <1>4, StartRemovalKeeps
<1>5. CASE Provisioning
  <2>1. Finish => job.kind \in Fresh \cup Imports
    BY WhoseStep DEF LifecycleInv, Finish
  <2> QED BY <1>5, <2>1, ArchiveKeeps, CommitKeeps, BuildKeeps, RegisterKeeps, FreshFinishKeeps,
             UploadFinishKeeps, UndoDatabaseKeeps, UndoRuntimeKeeps DEF Provisioning
<1>6. CASE Importing
  BY <1>6, UnpackKeeps, PrepareKeeps, CreateDatabaseUserKeeps, ImportDatabaseKeeps, ConfigureKeeps,
     ImportCommitKeeps, ProbeKeeps, SettleKeeps, UndoImportRuntimeKeeps, UndoImportDataKeeps DEF Importing
<1>7. CASE Removal
  BY <1>7, RemoveOutsideKeeps, RemoveRuntimeKeeps, RemoveDataKeeps DEF Removal
<1>8. CASE (\E r, p \in Sites : AddAlias(r, p)) \/ (\E h \in Hosts : DeleteHost(h))
  BY <1>8, HandKeeps
<1>9. CASE Crash
  BY <1>9, CrashKeeps
<1>10. CASE UNCHANGED vars
  <2>1. UNCHANGED <<rt, disk, dbs, linked, job, spoiled, faults, crashes>>
    BY <1>10 DEF vars
  <2>2. (WorldTyped <=> WorldTyped') /\ (JobTyped <=> JobTyped') /\ (Fits(rt) <=> Fits(rt)')
    BY <2>1 DEF WorldTyped, JobTyped, Single, Fits, Runs
  <2>3. (RootsWhole <=> RootsWhole') /\ (RemovalSound <=> RemovalSound')
    BY <2>1 DEF RootsWhole, Rooted, Whole, Building, Busy, Targets, RemovalSound, TakesData, PlannedHosts, Site,
       Unserved
  <2>4. Returnable(job.rt) <=> Returnable(job.rt)'
    BY <2>1 DEF Returnable, Fits, Runs, Rooted, Targets
  <2>5. Site' = Site /\ Targets' = Targets
    BY <2>1 DEF Site, Targets
  <2>6. \A s : (Whole(s) <=> Whole(s)') /\ (Unserved(s) <=> Unserved(s)')
    BY <2>1 DEF Whole, Unserved, Rooted
  <2>7. FreshSound <=> FreshSound'
    <3>1. Whole(Site) <=> Whole(Site)'
      BY <2>1, <2>5 DEF Whole
    <3>2. Unserved(Site) <=> Unserved(Site)'
      BY <2>1, <2>5 DEF Unserved, Rooted
    <3> QED BY <2>1, <2>4, <2>5, <3>1, <3>2 DEF FreshSound
  <2>8. ImportSound <=> ImportSound'
    <3>1. \A i \in DOMAIN job.sites : Whole(job.sites[i]) <=> Whole(job.sites[i])'
      BY <2>1 DEF Whole
    <3> QED BY <2>1, <2>4, <2>5, <2>6, <3>1 DEF ImportSound
  <2> QED BY <2>2, <2>3, <2>7, <2>8 DEF LifecycleInv
<1> QED BY <1>1, <1>2, <1>3, <1>4, <1>5, <1>6, <1>7, <1>8, <1>9, <1>10 DEF Next

(* Whatever jobs, failures, restarts and edits by hand do, a routed host   *)
(* has its pool and its whole website, for any number of sites, unless its *)
(* job is still installing it or a report or a restart named it.  No host  *)
(* is added to a site whose removal has been planned.                      *)
THEOREM RoutedIsWhole ==
    ASSUME ~LateAlias
    PROVE  Spec => []ServedWhole
<1>1. LifecycleInv => ServedWhole
  <2> SUFFICES ASSUME LifecycleInv, NEW h \in Hosts, rt.routes[h] # None,
                      rt.routes[h].root \notin spoiled \cup Building
               PROVE  Served(h)
    BY DEF ServedWhole
  <2>1. rt.routes[h] \in Route
    BY DEF LifecycleInv, WorldTyped, Config
  <2>2. rt.routes[h].root \in Sites /\ Rooted(rt, rt.routes[h].root)
    BY <2>1 DEF Route, Rooted
  <2>3. rt.routes[h].pool \in rt.pools
    BY DEF LifecycleInv, Fits, Runs
  <2>4. Whole(rt.routes[h].root)
    BY <2>2 DEF LifecycleInv, RootsWhole
  <2> QED BY <2>3, <2>4 DEF Served, Whole
<1>2. LifecycleInv /\ [Next]_vars => LifecycleInv'
  BY LifecycleKept
<1> QED BY <1>1, <1>2, InitLifecycle, PTL DEF Spec

-----------------------------------------------------------------------------
(* What stands in the way stood there when the job began.                  *)
Stood(s, obstacle) == <<s, obstacle>> \in job.before
FreeStill(c, s) == c.routes[s] = None /\ (s \in c.pools => Stood(s, "pool"))

FreshRepeats ==
    job.kind \in Fresh =>
        /\ ~job.adopt /\ FreeStill(job.rt, Site)
        /\ job.pc \in {"archive", "commit"} => FreeStill(rt, Site)

ImportRepeats ==
    job.kind \in Imports =>
        /\ job.made # {} => ~job.adopt
        /\ job.pc = "unpack" => job.made \cup job.created = {}
        /\ \A s \in Targets :
             /\ s \notin job.made /\ (Fillable(s) <=> job.adopt) => Stood(s, "files")
             /\ s \notin job.created \/ (job.pc = "undo files" /\ ~job.reported)
                  => dbs[s] = "none" \/ Stood(s, "database")
             /\ ~job.applied \/ (job.pc \in {"undo databases", "undo files"} /\ ~job.reported)
                  => FreeStill(rt, s)
             /\ job.applied => FreeStill(job.rt, s)

RepeatInv == FreshRepeats /\ ImportRepeats

SameWork == job'.kind = job.kind /\ job'.sites = job.sites /\ job'.adopt = job.adopt /\ job'.before = job.before

LEMMA RepeatOver ==
    ASSUME job'.kind \notin Fresh \cup Imports
    PROVE  RepeatInv'
  BY DEF RepeatInv, FreshRepeats, ImportRepeats

LEMMA EndsRepeats ==
    ASSUME NEW outcome, NEW reported, NEW archives, Ends(outcome, reported, archives)
    PROVE  RepeatInv' /\ job'.pc = outcome /\ job'.reported = reported /\ job'.staged = archives
<1>1. job' = [kind |-> "none", sites |-> <<>>, at |-> 1, pc |-> outcome, adopt |-> FALSE, sel |-> {},
              rt |-> None, made |-> {}, created |-> {}, applied |-> FALSE, reported |-> reported,
              staged |-> archives, before |-> {}]
  <2> DEFINE j == Job("none", <<>>, FALSE, {}, outcome)
  <2>1. j = [kind |-> "none", sites |-> <<>>, at |-> 1, pc |-> outcome, adopt |-> FALSE, sel |-> {},
             rt |-> None, made |-> {}, created |-> {}, applied |-> FALSE, reported |-> FALSE,
             staged |-> ("none" = "upload"), before |-> {}]
    BY JobFields
  <2>2. job' = [j EXCEPT !.reported = reported, !.staged = archives]
    BY DEF Ends
  <2> HIDE DEF j
  <2> QED BY <2>1, <2>2
<1>2. job'.kind = "none" /\ job'.pc = outcome /\ job'.reported = reported /\ job'.staged = archives
  BY <1>1
<1> QED BY <1>2, RepeatOver DEF Fresh, Imports

(* A job that goes on does the same work, and one that fails reports what  *)
(* it is told to.                                                          *)
LEMMA StepMoves ==
    ASSUME JobTyped, NEW step \in Steps \ {"failed", "done"}, NEW reported \in BOOLEAN, Moves(step, reported)
    PROVE  job'.pc = step /\ job'.reported = reported /\ SameJob /\ SameWork
<1>1. job' = [job EXCEPT !.pc = step, !.reported = reported] /\ job \in JobTypes
  BY Typed DEF Moves
<1> QED BY <1>1 DEF JobTypes, SameJob, SameWork

LEMMA StepGoes ==
    ASSUME JobTyped, NEW step \in Steps \ {"failed", "done"}, Goes(step)
    PROVE  job'.pc = step /\ job'.reported = job.reported /\ SameJob /\ SameWork
  BY StepMoves, Typed DEF Goes

LEMMA FailedMoves ==
    ASSUME NEW reported, Moves("failed", reported)
    PROVE  RepeatInv' /\ job'.reported = reported /\ job'.staged = job.staged
  BY EndsRepeats DEF Moves

LEMMA DoneGoes == ASSUME Goes("done") PROVE RepeatInv' /\ job'.pc = "done"
  BY EndsRepeats DEF Goes, Moves

LEMMA SameTargets == ASSUME SameWork PROVE Targets' = Targets
  BY DEF SameWork, Targets, Elements

LEMMA FreshRepeatsOn ==
    ASSUME RepeatInv, job.kind \in Fresh, SameWork, job'.at = job.at, job'.rt = job.rt,
           job'.pc \in {"archive", "commit"} => job.pc \in {"archive", "commit"} /\ UNCHANGED rt
    PROVE  RepeatInv'
<1>1. Site' = Site
  BY DEF SameWork, Site
<1>2. FreshRepeats'
  BY <1>1 DEF RepeatInv, FreshRepeats, SameWork, FreeStill, Stood
<1>3. job'.kind \notin Imports
  BY DEF SameWork, Fresh, Imports
<1> QED BY <1>2, <1>3 DEF RepeatInv, ImportRepeats

LEMMA ImportRepeatsOn ==
    ASSUME RepeatInv, job.kind \in Imports, SameWork, job'.made = job.made, job'.pc # "unpack", UNCHANGED disk,
           \A s \in Targets :
             /\ s \notin job'.created \/ (job'.pc = "undo files" /\ ~job'.reported)
                  => dbs'[s] = "none" \/ Stood(s, "database")
             /\ ~job'.applied \/ (job'.pc \in {"undo databases", "undo files"} /\ ~job'.reported)
                  => FreeStill(rt', s)
             /\ job'.applied => FreeStill(job'.rt, s)
    PROVE  RepeatInv'
<1>1. Targets' = Targets
  BY SameTargets
<1>2. ImportRepeats'
  BY <1>1 DEF RepeatInv, ImportRepeats, SameWork, FreeStill, Stood, Fillable
<1>3. job'.kind \notin Fresh
  BY DEF SameWork, Fresh, Imports
<1> QED BY <1>2, <1>3 DEF RepeatInv, FreshRepeats

-----------------------------------------------------------------------------
LEMMA InitRepeats == Init => RepeatInv
<1> SUFFICES ASSUME Init PROVE RepeatInv
  OBVIOUS
<1>1. job.kind = "none"
  <2> DEFINE j == Job("none", <<>>, FALSE, {}, "idle")
  <2>1. job = j
    BY DEF Init
  <2>2. j.kind = "none"
    BY JobFields
  <2> QED BY <2>1, <2>2
<1>2. job.kind \notin Fresh \cup Imports
  BY <1>1 DEF Fresh, Imports
<1> QED BY <1>2 DEF RepeatInv, FreshRepeats, ImportRepeats

(* The obstacles of a site when its job begins.                            *)
LEMMA StartsRepeat ==
    ASSUME LifecycleInv, NEW kind \in Fresh \cup Imports, NEW q \in Queues, NEW adopt \in BOOLEAN, NEW step,
           Starts(kind, q, adopt, step), kind \in Fresh => ~adopt, UNCHANGED rt,
           kind \in Imports => step \notin {"undo databases", "undo files"} /\ UNCHANGED <<disk, dbs>>
    PROVE  RepeatInv'
<1>1. /\ job'.kind = kind /\ job'.sites = q /\ job'.at = 1 /\ job'.adopt = adopt /\ job'.pc = step
      /\ job'.rt = (IF kind \in Fresh THEN rt ELSE None) /\ job'.made = {} /\ job'.created = {}
      /\ job'.applied = FALSE
      /\ job'.before = UNION {{s} \X Obstacle(kind, adopt, s) : s \in Elements(q)}
  <2> DEFINE j == Job(kind, q, adopt, {}, step)
             b == UNION {{s} \X Obstacle(kind, adopt, s) : s \in Elements(q)}
             c == IF kind \in Fresh THEN rt ELSE None
  <2>1. j = [kind |-> kind, sites |-> q, at |-> 1, pc |-> step, adopt |-> adopt, sel |-> {},
             rt |-> None, made |-> {}, created |-> {}, applied |-> FALSE, reported |-> FALSE,
             staged |-> (kind = "upload"), before |-> {}]
    BY JobFields
  <2>2. job' = [j EXCEPT !.rt = c, !.before = b]
    BY DEF Starts
  <2> HIDE DEF j, b, c
  <2>3. /\ job'.kind = kind /\ job'.sites = q /\ job'.at = 1 /\ job'.adopt = adopt /\ job'.pc = step
        /\ job'.rt = c /\ job'.made = {} /\ job'.created = {} /\ job'.applied = FALSE /\ job'.before = b
    BY <2>1, <2>2
  <2> QED BY <2>3 DEF b, c
<1>2. \A s \in Elements(q) : rt.routes[s] = None
  BY DEF Starts, Free
<1>3. ASSUME NEW s \in Elements(q), NEW o \in Obstacle(kind, adopt, s)
      PROVE  <<s, o>> \in job'.before
  <2>1. <<s, o>> \in {s} \X Obstacle(kind, adopt, s)
    OBVIOUS
  <2>2. {s} \X Obstacle(kind, adopt, s) \in {{r} \X Obstacle(kind, adopt, r) : r \in Elements(q)}
    OBVIOUS
  <2> QED BY <1>1, <2>1, <2>2
<1>4. \A s \in Elements(q) :
         /\ s \in rt.pools => <<s, "pool">> \in job'.before
         /\ (Fillable(s) <=> adopt) => <<s, "files">> \in job'.before
         /\ kind \in Imports /\ dbs[s] # "none" => <<s, "database">> \in job'.before
  <2> SUFFICES ASSUME NEW s \in Elements(q)
               PROVE  /\ s \in rt.pools => "pool" \in Obstacle(kind, adopt, s)
                      /\ (Fillable(s) <=> adopt) => "files" \in Obstacle(kind, adopt, s)
                      /\ kind \in Imports /\ dbs[s] # "none" => "database" \in Obstacle(kind, adopt, s)
    BY <1>3
  <2>1. s \in rt.pools => "pool" \in Obstacle(kind, adopt, s)
    BY DEF Obstacle
  <2>2. (Fillable(s) <=> adopt) => "files" \in Obstacle(kind, adopt, s)
    <3> SUFFICES ASSUME Fillable(s) <=> adopt PROVE "files" \in Obstacle(kind, adopt, s)
      OBVIOUS
    <3>1. Fillable(s) = adopt
      <4>1. CASE adopt = TRUE
        BY <4>1 DEF Fillable
      <4>2. CASE adopt = FALSE
        <5>1. ~Fillable(s)
          BY <4>2, Zenon
        <5>2. Fillable(s) = FALSE
          BY <5>1, Zenon DEF Fillable
        <5> QED BY <4>2, <5>2, Zenon
      <4>3. adopt = TRUE \/ adopt = FALSE
        OBVIOUS
      <4> QED BY <4>1, <4>2, <4>3, Zenon
    <3> QED BY <3>1 DEF Obstacle
  <2>3. kind \in Imports /\ dbs[s] # "none" => "database" \in Obstacle(kind, adopt, s)
    BY DEF Obstacle
  <2> QED BY <2>1, <2>2, <2>3
<1>5. Targets' = Elements(q)
  BY <1>1 DEF Targets
<1>6. CASE kind \in Fresh
  <2>1. Site' = q[1] /\ q[1] \in Elements(q)
    <3>1. 1 \in DOMAIN q
      BY QueueSites
    <3> QED BY <1>1, <3>1 DEF Site, Elements
  <2>2. FreshRepeats'
    BY <1>1, <1>2, <1>4, <1>6, <2>1 DEF FreshRepeats, FreeStill, Stood
  <2> QED BY <1>1, <1>6, <2>2 DEF RepeatInv, ImportRepeats, Fresh, Imports
<1>7. CASE kind \in Imports
  <2>1. ImportRepeats'
    BY <1>1, <1>2, <1>4, <1>5, <1>7 DEF ImportRepeats, FreeStill, Stood, Fillable
  <2> QED BY <1>1, <1>7, <2>1 DEF RepeatInv, FreshRepeats, Fresh, Imports
<1> QED BY <1>6, <1>7

(* Hands free hosts and pools, and route nothing but the alias.            *)
LEMMA HandRepeats ==
    ASSUME LifecycleInv, RepeatInv,
           (\E r, p \in Sites : AddAlias(r, p)) \/ (\E h \in Hosts : DeleteHost(h)) \/ UNCHANGED vars
    PROVE  RepeatInv'
<1>1. UNCHANGED <<disk, dbs, job>>
  BY DEF AddAlias, DeleteHost, vars
<1>2. \A s \in Sites : FreeStill(rt, s) => FreeStill(rt', s)
  <2>0. rt \in Config /\ Alias \notin Sites
    BY SiteLifecycleAssumption DEF LifecycleInv, WorldTyped
  <2>1. CASE \E r, p \in Sites : AddAlias(r, p)
    <3> PICK r, p \in Sites : AddAlias(r, p)
      BY <2>1
    <3>1. rt' = [rt EXCEPT !.routes[Alias] = [root |-> r, pool |-> p]]
      BY DEF AddAlias
    <3>2. rt'.pools = rt.pools /\ \A s \in Sites : rt'.routes[s] = rt.routes[s]
      BY <2>0, <3>1 DEF Config, Hosts
    <3> QED BY <3>2 DEF FreeStill
  <2>2. CASE \E h \in Hosts : DeleteHost(h)
    <3> PICK h \in Hosts : DeleteHost(h)
      BY <2>2
    <3>1. rt'.pools \subseteq rt.pools /\ rt'.routes = [rt.routes EXCEPT ![h] = None]
      BY DEF DeleteHost
    <3>2. \A s \in Sites : rt.routes[s] = None => rt'.routes[s] = None
      BY <2>0, <3>1 DEF Config, Hosts
    <3> QED BY <3>1, <3>2 DEF FreeStill
  <2>3. CASE UNCHANGED vars
    BY <2>3 DEF vars
  <2> QED BY <2>1, <2>2, <2>3
<1>3. job.kind \in Fresh => Site \in Sites
  BY SitesOfJob DEF LifecycleInv
<1>4. job.kind \in Imports => Targets \subseteq Sites
  BY SitesOfJob DEF LifecycleInv
<1>5. Site' = Site /\ Targets' = Targets
  BY <1>1 DEF Site, Targets
<1>6. FreshRepeats'
  BY <1>1, <1>2, <1>3, <1>5 DEF RepeatInv, FreshRepeats, FreeStill, Stood
<1>7. ImportRepeats'
  BY <1>1, <1>2, <1>4, <1>5 DEF RepeatInv, ImportRepeats, FreeStill, Stood, Fillable
<1> QED BY <1>6, <1>7 DEF RepeatInv

-----------------------------------------------------------------------------
LEMMA FreshGoesRepeats ==
    ASSUME JobTyped, RepeatInv, job.kind \in Fresh, NEW step \in FreshSteps \ {"archive", "commit"}, Goes(step)
    PROVE  RepeatInv' /\ job'.pc = step
<1>1. step \in Steps \ {"failed", "done"}
  BY DEF Steps, FreshSteps
<1>2. job'.pc = step /\ SameJob /\ SameWork
  BY <1>1, StepGoes
<1>3. step \notin {"archive", "commit"}
  OBVIOUS
<1>4. job'.at = job.at /\ job'.rt = job.rt
  BY <1>2 DEF SameJob
<1> QED BY <1>2, <1>3, <1>4, FreshRepeatsOn

LEMMA ProvisioningRepeats ==
    ASSUME LifecycleInv, RepeatInv, Provisioning
    PROVE  RepeatInv'
<1>0. JobTyped /\ job \in JobTypes
  BY Typed DEF LifecycleInv
<1>1. CASE Archive
  <2>1. job.kind \in Fresh /\ job.pc = "archive" /\ UNCHANGED rt
    BY <1>0, <1>1, WhoseStep DEF Archive
  <2>2. CASE Goes("commit")
    BY <1>0, <2>1, <2>2, StepGoes, FreshRepeatsOn DEF SameJob, Steps, FreshSteps
  <2>3. CASE Goes("failed")
    BY <2>3, FailedMoves DEF Goes
  <2> QED BY <1>1, <2>2, <2>3 DEF Archive
<1>2. CASE Commit
  <2>1. job.kind \in Fresh
    BY <1>0, <1>2, WhoseStep DEF Commit
  <2>2. CASE \E step \in {"register", "database"} : Goes(step)
    BY <1>0, <2>1, <2>2, FreshGoesRepeats DEF FreshSteps
  <2>3. CASE Goes("failed")
    BY <2>3, FailedMoves DEF Goes
  <2> QED BY <1>2, <2>2, <2>3 DEF Commit
<1>3. CASE CreateDatabase
  <2>1. job.kind \in Fresh
    BY <1>0, <1>3, WhoseStep DEF CreateDatabase
  <2>2. CASE Goes("undo")
    BY <1>0, <2>1, <2>2, FreshGoesRepeats DEF FreshSteps
  <2>3. CASE job' = [job EXCEPT !.pc = "install", !.created = {Site},
                                !.made = IF dbs[Site] = "none" THEN {Site} ELSE {}]
    <3>1. job'.pc = "install" /\ SameWork /\ job'.at = job.at /\ job'.rt = job.rt
      BY <1>0, <2>3 DEF JobTypes, SameWork
    <3> QED BY <2>1, <3>1, FreshRepeatsOn
  <2> QED BY <1>3, <2>2, <2>3 DEF CreateDatabase
<1>4. CASE InstallWordPress \/ InstallShop \/ Register
  <2>1. job.kind \in Fresh
    BY <1>0, <1>4, WhoseStep DEF InstallWordPress, InstallShop, Register
  <2>2. \E step \in {"register", "undo", "finish"} : Goes(step)
    BY <1>4 DEF InstallWordPress, InstallShop, Register
  <2> QED BY <1>0, <2>1, <2>2, FreshGoesRepeats DEF FreshSteps
<1>5. CASE Finish
  BY <1>5, DoneGoes, FailedMoves DEF Finish, Goes
<1>6. CASE UndoDatabase
  <2>1. job.kind \in Fresh /\ Goes("undo runtime")
    BY <1>6 DEF UndoDatabase
  <2> QED BY <1>0, <2>1, FreshGoesRepeats DEF FreshSteps
<1>7. CASE UndoRuntime
  BY <1>7, FailedMoves DEF UndoRuntime, Restores, Goes
<1> QED BY <1>1, <1>2, <1>3, <1>4, <1>5, <1>6, <1>7 DEF Provisioning

(* Files, databases and routes that an import has made are still its own.  *)
LEMMA ImportUnmade ==
    ASSUME LifecycleInv, RepeatInv, job.kind \in Imports, ~Unswept, NEW step \in Steps \ {"failed", "done"},
           step \notin {"unpack", "undo databases", "undo files"}, Goes(step), UNCHANGED <<rt, disk, dbs>>
    PROVE  RepeatInv'
<1>1. job'.pc = step /\ job'.reported = job.reported /\ SameJob /\ SameWork
  BY StepGoes DEF LifecycleInv
<1> QED BY <1>1, ImportRepeatsOn DEF RepeatInv, ImportRepeats, SameJob

LEMMA PrepareRepeats == ASSUME LifecycleInv, RepeatInv, ~Unswept, Prepare PROVE RepeatInv'
<1>0. /\ JobTyped /\ job \in JobTypes /\ job.kind \in Imports /\ job.pc = "prepare" /\ UNCHANGED <<rt, dbs>>
      /\ Site \in Targets /\ Targets \subseteq Sites /\ disk \in [Sites -> {"none", "empty", "torn", "plain", "app"}]
  <2>1. JobTyped /\ job \in JobTypes /\ job.pc = "prepare" /\ UNCHANGED <<rt, dbs>>
    BY Typed DEF LifecycleInv, Prepare
  <2>2. job.kind \in Imports
    BY <2>1, WhoseStep DEF Making
  <2> QED BY <2>1, <2>2, ImportSites DEF LifecycleInv, WorldTyped
<1>1. CASE Goes("create") /\ UNCHANGED disk
  BY <1>0, <1>1, ImportUnmade DEF Steps, ImportSteps, Making
<1>2. CASE Goes("undo") /\ UNCHANGED disk
  BY <1>0, <1>2, ImportUnmade DEF Steps, ImportSteps
<1>3. CASE ~job.adopt /\ disk' = [disk EXCEPT ![Site] = "app"] /\ job' = [job EXCEPT !.pc = "create", !.made = Notes(@)]
  <2>1. /\ SameWork /\ job'.pc = "create" /\ job'.made = job.made \cup {Site} /\ job'.created = job.created
        /\ job'.applied = job.applied /\ job'.rt = job.rt
    BY <1>0, <1>3 DEF JobTypes, SameWork, Notes
  <2>2. Targets' = Targets
    BY <2>1, SameTargets
  <2>3. \A s \in Targets : s # Site => disk'[s] = disk[s]
    BY <1>0, <1>3
  <2>4. ImportRepeats'
    BY <1>0, <1>3, <2>1, <2>2, <2>3 DEF RepeatInv, ImportRepeats, SameWork, FreeStill, Stood, Fillable
  <2> QED BY <1>0, <2>1, <2>4 DEF RepeatInv, FreshRepeats, SameWork, Fresh, Imports
<1> QED BY <1>1, <1>2, <1>3 DEF Prepare

LEMMA CreateDatabaseUserRepeats == ASSUME LifecycleInv, RepeatInv, ~Unswept, CreateDatabaseUser PROVE RepeatInv'
<1>0. /\ JobTyped /\ job \in JobTypes /\ job.kind \in Imports /\ job.pc = "create" /\ UNCHANGED <<rt, disk>>
      /\ Site \in Targets /\ Targets \subseteq Sites /\ dbs \in [Sites -> {"none", "bare", "loaded"}]
  <2>1. JobTyped /\ job \in JobTypes /\ job.pc = "create" /\ UNCHANGED <<rt, disk>>
    BY Typed DEF LifecycleInv, CreateDatabaseUser
  <2>2. job.kind \in Imports
    BY <2>1, WhoseStep DEF Making
  <2> QED BY <2>1, <2>2, ImportSites DEF LifecycleInv, WorldTyped
<1>1. CASE Goes("undo") /\ UNCHANGED dbs
  BY <1>0, <1>1, ImportUnmade DEF Steps, ImportSteps
<1>2. CASE dbs' = [dbs EXCEPT ![Site] = "bare"] /\ job' = [job EXCEPT !.pc = "load", !.created = @ \cup {Site}]
  <2>1. /\ SameWork /\ job'.pc = "load" /\ job'.made = job.made /\ job'.created = job.created \cup {Site}
        /\ job'.applied = job.applied /\ job'.rt = job.rt
    BY <1>0, <1>2 DEF JobTypes, SameWork
  <2>2. \A s \in Targets : s # Site => dbs'[s] = dbs[s]
    BY <1>0, <1>2
  <2> QED BY <1>0, <2>1, <2>2, ImportRepeatsOn DEF RepeatInv, ImportRepeats
<1> QED BY <1>1, <1>2 DEF CreateDatabaseUser

LEMMA ImportDatabaseRepeats == ASSUME LifecycleInv, RepeatInv, ~Unswept, ImportDatabase PROVE RepeatInv'
<1>0. /\ JobTyped /\ job.kind \in Imports /\ job.pc = "load" /\ UNCHANGED <<rt, disk>> /\ Site \in job.created
      /\ Targets \subseteq Sites /\ dbs \in [Sites -> {"none", "bare", "loaded"}]
  <2>1. JobTyped /\ job.pc = "load" /\ UNCHANGED <<rt, disk>>
    BY DEF LifecycleInv, ImportDatabase
  <2>2. job.kind \in Imports
    BY <2>1, WhoseStep DEF Making
  <2> QED BY <2>1, <2>2, ImportSites DEF LifecycleInv, WorldTyped, ImportSound
<1>1. CASE Goes("undo") /\ UNCHANGED dbs
  BY <1>0, <1>1, ImportUnmade DEF Steps, ImportSteps
<1>2. CASE dbs' = [dbs EXCEPT ![Site] = "loaded"] /\ Goes("configure")
  <2>1. job'.pc = "configure" /\ SameJob /\ SameWork
    BY <1>0, <1>2, StepGoes DEF Steps, ImportSteps, Making
  <2>2. \A s \in Targets : s # Site => dbs'[s] = dbs[s]
    BY <1>0, <1>2
  <2> QED BY <1>0, <2>1, <2>2, ImportRepeatsOn DEF RepeatInv, ImportRepeats, SameJob
<1> QED BY <1>1, <1>2 DEF ImportDatabase

LEMMA ConfigureRepeats == ASSUME LifecycleInv, RepeatInv, ~Unswept, Configure PROVE RepeatInv'
<1>0. JobTyped /\ job \in JobTypes /\ job.kind \in Imports /\ UNCHANGED <<rt, disk, dbs>>
  <2>1. JobTyped /\ job \in JobTypes /\ job.pc = "configure" /\ UNCHANGED <<rt, disk, dbs>>
    BY Typed DEF LifecycleInv, Configure
  <2> QED BY <2>1, WhoseStep DEF Making
<1>1. CASE \E step \in {"undo", "import commit"} : Goes(step)
  BY <1>0, <1>1, ImportUnmade DEF Steps, ImportSteps
<1>2. CASE job' = [job EXCEPT !.at = @ + 1, !.pc = "prepare"]
  <2>1. /\ SameWork /\ job'.pc = "prepare" /\ job'.made = job.made /\ job'.created = job.created
        /\ job'.applied = job.applied /\ job'.rt = job.rt
    BY <1>0, <1>2 DEF JobTypes, SameWork
  <2> QED BY <1>0, <2>1, ImportRepeatsOn DEF RepeatInv, ImportRepeats
<1> QED BY <1>1, <1>2 DEF Configure

LEMMA ImportCommitRepeats == ASSUME LifecycleInv, RepeatInv, ~Unswept, ImportCommit PROVE RepeatInv'
<1>0. JobTyped /\ job \in JobTypes /\ job.kind \in Imports /\ UNCHANGED <<disk, dbs>>
  <2>1. JobTyped /\ job \in JobTypes /\ job.pc = "import commit" /\ UNCHANGED <<disk, dbs>>
    BY Typed DEF LifecycleInv, ImportCommit
  <2> QED BY <2>1, WhoseStep
<1>1. CASE Goes("undo") /\ UNCHANGED rt
  BY <1>0, <1>1, ImportUnmade DEF Steps, ImportSteps
<1>2. CASE Addable(job.sites) /\ job' = [job EXCEPT !.pc = "probe", !.rt = rt, !.applied = TRUE]
  <2>1. /\ SameWork /\ job'.pc = "probe" /\ job'.made = job.made /\ job'.created = job.created
        /\ job'.applied /\ job'.rt = rt
    BY <1>0, <1>2 DEF JobTypes, SameWork
  <2>2. \A s \in Targets : FreeStill(rt, s)
    BY <1>2 DEF Addable, Free, FreeStill, Targets
  <2> QED BY <1>0, <2>1, <2>2, ImportRepeatsOn DEF RepeatInv, ImportRepeats
<1> QED BY <1>1, <1>2 DEF ImportCommit

LEMMA ImportUndoRepeats ==
    ASSUME LifecycleInv, RepeatInv, ~Unswept, UndoImportRuntime \/ UndoImportDatabases \/ UndoImportFiles
    PROVE  RepeatInv'
<1>0. JobTyped /\ job \in JobTypes /\ job.kind \in Imports /\ job.reported \in BOOLEAN
      /\ Targets \subseteq Sites
  <2>1. JobTyped /\ job \in JobTypes /\ job.reported \in BOOLEAN
    BY Typed DEF LifecycleInv
  <2>2. job.kind \in Imports
    BY <2>1, WhoseStep DEF UndoImportRuntime, UndoImportDatabases, UndoImportFiles
  <2> QED BY <2>1, <2>2, ImportSites
<1>1. CASE UndoImportRuntime
  <2>1. job.pc = "undo" /\ UNCHANGED <<disk, dbs>>
    BY <1>1 DEF UndoImportRuntime
  <2>2. /\ job'.pc = "undo databases" /\ SameJob /\ SameWork
        /\ ~job'.reported => /\ job.applied => rt' = job.rt
                             /\ ~job.applied => rt' = rt
        /\ ~job.applied => rt' = rt
    <3>1. CASE job.applied /\ rt' = job.rt /\ Goes("undo databases")
      BY <1>0, <3>1, StepGoes DEF Steps, ImportSteps
    <3>2. CASE job.applied /\ Moves("undo databases", TRUE)
      BY <1>0, <3>2, StepMoves DEF Steps, ImportSteps
    <3>3. CASE ~job.applied /\ Goes("undo databases") /\ UNCHANGED rt
      BY <1>0, <3>3, StepGoes DEF Steps, ImportSteps
    <3> QED BY <1>1, <3>1, <3>2, <3>3 DEF UndoImportRuntime, Restores
  <2> QED BY <1>0, <2>1, <2>2, ImportRepeatsOn DEF RepeatInv, ImportRepeats, SameJob
<1>2. CASE UndoImportDatabases
  <2>1. job.pc = "undo databases" /\ UNCHANGED <<rt, disk>>
    BY <1>2 DEF UndoImportDatabases
  <2>2. /\ job'.pc = "undo files" /\ SameJob /\ SameWork
        /\ \/ /\ job'.reported = job.reported
              /\ \A s \in Targets : dbs'[s] = IF s \in job.created THEN "none" ELSE dbs[s]
           \/ job'.reported /\ dbs' = dbs
    <3>1. CASE Goes("undo files") /\ dbs' = [s \in Sites |-> IF s \in job.created THEN "none" ELSE dbs[s]]
      BY <1>0, <3>1, StepGoes DEF Steps, ImportSteps
    <3>2. CASE UNCHANGED dbs /\ Moves("undo files", TRUE)
      BY <1>0, <3>2, StepMoves DEF Steps, ImportSteps
    <3> QED BY <1>2, <3>1, <3>2 DEF UndoImportDatabases
  <2> QED BY <1>0, <2>1, <2>2, ImportRepeatsOn DEF RepeatInv, ImportRepeats, SameJob
<1>3. CASE UndoImportFiles
  BY <1>3, FailedMoves DEF UndoImportFiles, Goes
<1> QED BY <1>1, <1>2, <1>3

LEMMA ImportingRepeats ==
    ASSUME LifecycleInv, RepeatInv, ~Unswept, Importing
    PROVE  RepeatInv'
<1>0. JobTyped
  BY DEF LifecycleInv
<1>1. CASE Unpack \/ Probe \/ Settle
  <2>1. job.kind \in Imports /\ UNCHANGED <<rt, disk, dbs>>
    BY <1>0, <1>1, WhoseStep DEF Unpack, Probe, Settle, World, Making
  <2>2. CASE \E step \in {"prepare", "settle", "undo", "finish"} : Goes(step)
    BY <2>1, <2>2, ImportUnmade DEF Steps, ImportSteps, Making
  <2>3. CASE Goes("failed") \/ Goes("done")
    BY <2>3, FailedMoves, DoneGoes DEF Goes
  <2> QED BY <1>1, <2>2, <2>3 DEF Unpack, Probe, Settle
<1> QED
  BY <1>1, PrepareRepeats, CreateDatabaseUserRepeats, ImportDatabaseRepeats, ConfigureRepeats,
     ImportCommitRepeats, ImportUndoRepeats DEF Importing

LEMMA RepeatKept == ~Unswept => (LifecycleInv /\ RepeatInv /\ [Next]_vars => RepeatInv')
<1> SUFFICES ASSUME ~Unswept, LifecycleInv, RepeatInv, [Next]_vars PROVE RepeatInv'
  OBVIOUS
<1>1. CASE \E s \in Sites, k \in Fresh : StartFresh(k, s)
  <2> PICK s \in Sites, k \in Fresh : StartFresh(k, s)
    BY <1>1
  <2>1. <<s>> \in Queues
    BY DEF Queues
  <2>2. Starts(k, <<s>>, FALSE, IF k = "app" THEN "commit" ELSE "archive") /\ UNCHANGED rt
    BY DEF StartFresh
  <2> QED BY <2>1, <2>2, StartsRepeat DEF Fresh, Imports
<1>2. CASE \E s \in Sites : StartUpload(s)
  <2> PICK s \in Sites : StartUpload(s)
    BY <1>2
  <2>1. <<s>> \in Queues
    BY DEF Queues
  <2> QED BY <2>1, StartsRepeat DEF StartUpload, World, Fresh, Imports
<1>3. CASE \E q \in Queues, adopt \in BOOLEAN : StartImport(q, adopt)
  BY <1>3, StartsRepeat DEF StartImport, World, Fresh, Imports
<1>4. CASE \E s \in Sites, sel \in SUBSET Resources : StartRemoval(s, sel)
  <2> PICK s \in Sites, sel \in SUBSET Resources : StartRemoval(s, sel)
    BY <1>4
  <2>1. job'.kind = "remove"
    <3> DEFINE j == Job("remove", <<s>>, FALSE, sel, "outside")
    <3>1. job' = [j EXCEPT !.rt = rt]
      BY DEF StartRemoval
    <3>2. j.kind = "remove" /\ j = [kind |-> "remove", sites |-> <<s>>, at |-> 1, pc |-> "outside", adopt |-> FALSE,
               sel |-> sel, rt |-> None, made |-> {}, created |-> {}, applied |-> FALSE, reported |-> FALSE,
               staged |-> ("remove" = "upload"), before |-> {}]
      BY JobFields
    <3> HIDE DEF j
    <3> QED BY <3>1, <3>2
  <2> QED BY <2>1, RepeatOver DEF Fresh, Imports
<1>5. CASE Provisioning
  BY <1>5, ProvisioningRepeats
<1>6. CASE Importing
  BY <1>6, ImportingRepeats
<1>7. CASE Removal
  <2>1. JobTyped /\ job.kind = "remove"
    BY <1>7, WhoseStep DEF LifecycleInv, Removal, RemoveOutside, RemoveRuntime, RemoveDatabase, RemoveFiles,
       RemovalSteps
  <2>2. CASE \E step \in {"runtime", "drop", "delete"} : Goes(step)
    <3>1. job'.kind = "remove"
      BY <2>1, <2>2, StepGoes DEF SameJob, Steps, RemovalSteps
    <3> QED BY <3>1, RepeatOver DEF Fresh, Imports
  <2>3. CASE Goes("failed") \/ Goes("done")
    BY <2>3, FailedMoves, DoneGoes DEF Goes
  <2> QED BY <1>7, <2>2, <2>3 DEF Removal, RemoveOutside, RemoveRuntime, RemoveDatabase, RemoveFiles
<1>8. CASE (\E r, p \in Sites : AddAlias(r, p)) \/ (\E h \in Hosts : DeleteHost(h)) \/ UNCHANGED vars
  BY <1>8, HandRepeats
<1>9. CASE Crash
  BY <1>9, EndsRepeats DEF Crash
<1> QED BY <1>1, <1>2, <1>3, <1>4, <1>5, <1>6, <1>7, <1>8, <1>9 DEF Next

-----------------------------------------------------------------------------
(* What can still stand in the way.                                        *)
LEMMA Hindered ==
    ASSUME NEW kind \in Fresh \cup Imports, NEW adopt \in BOOLEAN, NEW s, FreeStill(rt', s),
           (disk'[s] \in {"none", "empty"} <=> adopt) => Stood(s, "files"),
           kind \in Imports => dbs'[s] = "none" \/ Stood(s, "database")
    PROVE  {s} \X (Obstacle(kind, adopt, s))' \subseteq job.before
<1> SUFFICES ASSUME NEW o \in (Obstacle(kind, adopt, s))' PROVE Stood(s, o)
  BY DEF Stood
<1>1. CASE rt'.routes[s] # None /\ o = "route"
  BY <1>1 DEF FreeStill
<1>2. CASE s \in rt'.pools /\ o = "pool"
  BY <1>2 DEF FreeStill
<1>3. CASE (disk'[s] \in {"none", "empty"} <=> adopt) /\ o = "files"
  BY <1>3
<1>4. CASE kind \in Imports /\ dbs'[s] # "none" /\ o = "database"
  BY <1>4
<1>5. \/ rt'.routes[s] # None /\ o = "route"
      \/ s \in rt'.pools /\ o = "pool"
      \/ (disk'[s] \in {"none", "empty"} <=> adopt) /\ o = "files"
      \/ kind \in Imports /\ dbs'[s] # "none" /\ o = "database"
  BY DEF Obstacle, Free, Fillable
<1> QED BY <1>1, <1>2, <1>3, <1>4, <1>5

(* Work fails without a word about its recovery in four places only.       *)
LEMMA FreshFails ==
    ASSUME ~Unswept, LifecycleInv, Provisioning, Fails, job.pc # "finish"
    PROVE  /\ job.kind \in Fresh
           /\ \/ job.pc = "commit" /\ UNCHANGED rt
              \/ rt' = job.rt
           /\ disk' = [disk EXCEPT ![Site] = "none"]
           /\ job'.staged = job.staged
<1>0. JobTyped
  BY DEF LifecycleInv
<1>8. ASSUME NEW step \in FreshSteps, Goes(step) PROVE FALSE
  <2>1. step \in Steps \ {"failed", "done"}
    BY DEF Steps, FreshSteps
  <2>2. job'.pc = step
    BY <1>0, <1>8, <2>1, StepGoes
  <2> QED BY <2>2 DEF Fails, FreshSteps
<1>1. CASE Archive
  <2>1. Goes("commit")
    BY <1>1 DEF Archive
  <2> QED BY <1>8, <2>1 DEF FreshSteps
<1>2. CASE Commit
  <2>1. job.kind \in Fresh /\ job.pc = "commit"
    BY <1>0, <1>2, WhoseStep DEF Commit
  <2>2. CASE \E step \in {"register", "database"} : Goes(step)
    BY <1>8, <2>2 DEF FreshSteps
  <2>3. CASE disk' = [disk EXCEPT ![Site] = "none"] /\ UNCHANGED rt /\ Goes("failed")
    BY <2>1, <2>3, FailedMoves DEF Goes
  <2> QED BY <1>2, <2>2, <2>3 DEF Commit
<1>3. CASE CreateDatabase
  <2>1. CASE Goes("undo")
    BY <1>8, <2>1 DEF FreshSteps
  <2>2. CASE job' = [job EXCEPT !.pc = "install", !.created = {Site},
                                !.made = IF dbs[Site] = "none" THEN {Site} ELSE {}]
    <3>1. job'.pc = "install"
      BY <1>0, <2>2, Typed DEF JobTypes
    <3> QED BY <3>1 DEF Fails
  <2> QED BY <1>3, <2>1, <2>2 DEF CreateDatabase
<1>4. CASE InstallWordPress \/ InstallShop \/ Register
  <2>1. \E step \in {"register", "undo", "finish"} : Goes(step)
    BY <1>4 DEF InstallWordPress, InstallShop, Register
  <2> QED BY <1>8, <2>1 DEF FreshSteps
<1>5. CASE Finish
  BY <1>5 DEF Finish
<1>6. CASE UndoDatabase
  <2>1. Goes("undo runtime")
    BY <1>6 DEF UndoDatabase
  <2> QED BY <1>8, <2>1 DEF FreshSteps
<1>7. CASE UndoRuntime
  <2>1. job.kind \in Fresh
    BY <1>0, <1>7, WhoseStep DEF UndoRuntime
  <2>2. CASE rt' = job.rt /\ Goes("failed")
    BY <1>7, <2>1, <2>2, FailedMoves DEF UndoRuntime, Goes
  <2>3. CASE Moves("failed", TRUE)
    BY <2>3, FailedMoves DEF Fails
  <2> QED BY <1>7, <2>2, <2>3 DEF UndoRuntime, Restores
<1> QED BY <1>1, <1>2, <1>3, <1>4, <1>5, <1>6, <1>7 DEF Provisioning

LEMMA ImportFails ==
    ASSUME ~Unswept, LifecycleInv, Importing, Fails, job.pc # "settle"
    PROVE  /\ job.kind \in Imports /\ UNCHANGED <<rt, dbs>>
           /\ \/ job.pc = "unpack" /\ UNCHANGED disk
              \/ /\ job.pc = "undo files" /\ ~job.reported
                 /\ disk' = [s \in Sites |-> IF s \in job.made THEN "none" ELSE disk[s]]
           /\ job'.staged = job.staged
<1>0. JobTyped /\ job \in JobTypes
  BY Typed DEF LifecycleInv
<1>1. job'.pc = "failed"
  BY DEF Fails
<1>2. ASSUME NEW step \in ImportSteps, NEW reported \in BOOLEAN, Moves(step, reported) PROVE FALSE
  BY <1>0, <1>1, <1>2, StepMoves DEF Steps, ImportSteps, Making
<1>3. ASSUME NEW step \in ImportSteps, Goes(step) PROVE FALSE
  BY <1>0, <1>2, <1>3, Typed DEF Goes
<1>4. CASE Unpack
  <2>1. CASE Goes("prepare")
    BY <1>3, <2>1 DEF ImportSteps, Making
  <2>2. CASE Goes("failed")
    BY <1>0, <1>4, <2>2, FailedMoves, WhoseStep DEF Unpack, World, Goes, Making
  <2> QED BY <1>4, <2>1, <2>2 DEF Unpack
<1>5. CASE UndoImportFiles
  <2>1. Goes("failed") /\ job.pc = "undo files" /\ UNCHANGED <<rt, dbs>>
        /\ disk' = [s \in Sites |-> IF s \in job.made THEN "none" ELSE disk[s]]
    BY <1>5 DEF UndoImportFiles
  <2>2. job'.reported = job.reported /\ job'.staged = job.staged
    BY <2>1, FailedMoves DEF Goes
  <2> QED BY <1>0, <2>1, <2>2, WhoseStep DEF Fails
<1>6. CASE Prepare \/ CreateDatabaseUser \/ ImportDatabase \/ Configure \/ ImportCommit
  <2>1. CASE \E step \in {"create", "undo", "configure", "import commit"} : Goes(step)
    BY <1>3, <2>1 DEF ImportSteps, Making
  <2>2. CASE job' = [job EXCEPT !.pc = "create", !.made = Notes(@)]
    BY <1>0, <1>1, <2>2 DEF JobTypes
  <2>3. CASE job' = [job EXCEPT !.pc = "load", !.created = @ \cup {Site}]
    BY <1>0, <1>1, <2>3 DEF JobTypes
  <2>4. CASE job' = [job EXCEPT !.at = @ + 1, !.pc = "prepare"]
    BY <1>0, <1>1, <2>4 DEF JobTypes
  <2>5. CASE job' = [job EXCEPT !.pc = "probe", !.rt = rt, !.applied = TRUE]
    BY <1>0, <1>1, <2>5 DEF JobTypes
  <2> QED
    BY <1>6, <2>1, <2>2, <2>3, <2>4, <2>5 DEF Prepare, CreateDatabaseUser, ImportDatabase, Configure, ImportCommit
<1>7. CASE Probe \/ UndoImportRuntime \/ UndoImportDatabases
  <2>1. \E step \in {"settle", "undo", "undo databases", "undo files"}, reported \in BOOLEAN : Moves(step, reported)
    <3>1. job.reported \in BOOLEAN
      BY <1>0, Typed
    <3> QED BY <1>7, <3>1 DEF Probe, UndoImportRuntime, UndoImportDatabases, Restores, Goes
  <2> QED BY <1>2, <2>1 DEF ImportSteps, Making
<1> QED BY <1>4, <1>5, <1>6, <1>7 DEF Importing, Settle

LEMMA FailsClean ==
    ASSUME ~Unswept, LifecycleInv, RepeatInv, [Next]_vars, Fails, job.kind \in Fresh \cup Imports,
           job.pc \notin {"settle", "finish"}, NEW s \in Targets
    PROVE  /\ FreeStill(rt', s) /\ job'.staged = job.staged
           /\ (disk'[s] \in {"none", "empty"} <=> job.adopt) => Stood(s, "files")
           /\ job.kind \in Imports => dbs'[s] = "none" \/ Stood(s, "database")
<1>0. JobTyped /\ job \in JobTypes /\ disk \in [Sites -> {"none", "empty", "torn", "plain", "app"}]
  BY Typed DEF LifecycleInv, WorldTyped
<1>1. CASE Provisioning
  <2>1. /\ job.kind \in Fresh
        /\ (job.pc = "commit" /\ rt' = rt) \/ rt' = job.rt
        /\ disk' = [disk EXCEPT ![Site] = "none"]
        /\ job'.staged = job.staged
    BY <1>1, FreshFails
  <2>2. Site \in Sites /\ s = Site
    BY <1>0, <2>1, SingleSite DEF JobTyped
  <2>3. FreeStill(rt', s) /\ ~job.adopt
    BY <2>1, <2>2 DEF RepeatInv, FreshRepeats
  <2>4. disk'[s] = "none"
    BY <1>0, <2>1, <2>2
  <2>5. job.kind \notin Imports
    BY <2>1 DEF Fresh, Imports
  <2> QED BY <2>1, <2>3, <2>4, <2>5
<1>2. CASE Importing
  <2>1. /\ job.kind \in Imports /\ rt' = rt /\ dbs' = dbs
        /\ \/ job.pc = "unpack" /\ disk' = disk
           \/ /\ job.pc = "undo files" /\ ~job.reported
              /\ disk' = [r \in Sites |-> IF r \in job.made THEN "none" ELSE disk[r]]
        /\ job'.staged = job.staged
    BY <1>2, ImportFails
  <2>2. s \in Sites
    BY <1>0, <2>1, ImportSites
  <2>3. job.pc = "unpack" => ~job.applied /\ job.made = {} /\ job.created = {}
    BY <2>1 DEF RepeatInv, ImportRepeats, LifecycleInv, ImportSound, Making
  <2>4. FreeStill(rt, s) /\ (dbs[s] = "none" \/ Stood(s, "database"))
    BY <2>1, <2>3 DEF RepeatInv, ImportRepeats
  <2>5. CASE s \in job.made
    <3>1. ~job.adopt /\ disk'[s] = "none"
      BY <2>1, <2>2, <2>3, <2>5 DEF RepeatInv, ImportRepeats
    <3> QED BY <2>1, <2>4, <3>1
  <2>6. CASE s \notin job.made
    <3>1. disk'[s] = disk[s]
      BY <2>1, <2>2, <2>6
    <3>2. (disk[s] \in {"none", "empty"} <=> job.adopt) => Stood(s, "files")
      BY <2>1, <2>6 DEF RepeatInv, ImportRepeats, Fillable
    <3> QED BY <2>1, <2>4, <3>1, <3>2
  <2> QED BY <2>5, <2>6
<1>3. CASE Removal
  <2>1. job.kind = "remove"
    BY <1>0, <1>3, WhoseStep DEF Removal, RemoveOutside, RemoveRuntime, RemoveDatabase, RemoveFiles, RemovalSteps
  <2> QED BY <2>1 DEF Fresh, Imports
<1>4. CASE Crash
  <2>1. job'.pc = "idle"
    BY <1>4, EndsRepeats DEF Crash
  <2> QED BY <2>1 DEF Fails
<1>5. CASE (\E r, p \in Sites : AddAlias(r, p)) \/ (\E h \in Hosts : DeleteHost(h)) \/ UNCHANGED vars
  <2>1. job' = job
    BY <1>5 DEF AddAlias, DeleteHost, vars
  <2> QED BY <2>1 DEF Fails, Busy, Ending
<1>6. \/ Provisioning \/ Importing \/ Removal \/ Crash
      \/ (\E r, p \in Sites : AddAlias(r, p)) \/ (\E h \in Hosts : DeleteHost(h)) \/ UNCHANGED vars
  <2>1. Busy
    BY DEF Fails
  <2>2. ~\E r \in Sites, k \in Fresh : StartFresh(k, r)
    BY <2>1 DEF StartFresh, Starts
  <2>3. ~\E r \in Sites : StartUpload(r)
    BY <2>1 DEF StartUpload, Starts
  <2>4. ~\E q \in Queues, adopt \in BOOLEAN : StartImport(q, adopt)
    BY <2>1 DEF StartImport, Starts
  <2>5. ~\E r \in Sites, sel \in SUBSET Resources : StartRemoval(r, sel)
    BY <2>1 DEF StartRemoval
  <2> QED BY <2>2, <2>3, <2>4, <2>5 DEF Next
<1> QED BY <1>1, <1>2, <1>3, <1>4, <1>5, <1>6

(* Failed work can be submitted again: what stands in its way then stood   *)
(* there when it began, unless its report says that its recovery failed    *)
(* too (lib/provisioner.js, lib/migration-manager.js).  It needs that work *)
(* notes a directory and a database before it can fail with them, and that *)
(* no host is added to a site whose removal is planned.                    *)
THEOREM FailedRepeats ==
    ASSUME ~LateAlias, ~Unswept
    PROVE  Spec => FailedWorkRepeatable
<1>1. ASSUME LifecycleInv, RepeatInv, [Next]_vars, Fails, job.kind \in Fresh \cup Imports,
             job.pc \notin {"settle", "finish"}, NEW s \in Targets, NEW k \in {job.kind}, NEW adopt \in {job.adopt}
      PROVE  /\ {s} \X (Obstacle(k, adopt, s))' \subseteq job.before
             /\ job'.staged = job.staged
  <2>1. /\ FreeStill(rt', s) /\ job'.staged = job.staged
        /\ (disk'[s] \in {"none", "empty"} <=> job.adopt) => Stood(s, "files")
        /\ job.kind \in Imports => dbs'[s] = "none" \/ Stood(s, "database")
    BY <1>1, FailsClean
  <2>2. k \in Fresh \cup Imports /\ adopt \in BOOLEAN
    BY <1>1, Typed DEF LifecycleInv, JobTypes
  <2>3. k = job.kind /\ adopt = job.adopt
    OBVIOUS
  <2>4. /\ (disk'[s] \in {"none", "empty"} <=> adopt) => Stood(s, "files")
        /\ k \in Imports => dbs'[s] = "none" \/ Stood(s, "database")
    BY <2>1, <2>3
  <2> QED BY <2>1, <2>2, <2>4, Hindered
<1>2. LifecycleInv /\ RepeatInv /\ [Next]_vars =>
        [Fails /\ job.kind \in Fresh \cup Imports /\ job.pc \notin {"settle", "finish"} =>
           \A s \in Targets : \A k \in {job.kind}, adopt \in {job.adopt} :
               /\ {s} \X (Obstacle(k, adopt, s))' \subseteq job.before
               /\ job'.staged = job.staged]_vars
  BY <1>1
<1>3. LifecycleInv /\ RepeatInv /\ [Next]_vars => LifecycleInv' /\ RepeatInv'
  BY LifecycleKept, RepeatKept
<1>4. Init => LifecycleInv /\ RepeatInv
  BY InitLifecycle, InitRepeats
<1> QED BY <1>2, <1>3, <1>4, PTL DEF Spec, FailedWorkRepeatable
-----------------------------------------------------------------------------
(* SiteState: the files and their requests.                                *)

Pools == [opcache : BOOLEAN, children : Presets, legacy : BOOLEAN]
Switches == [version : Nat, redis : BOOLEAN, opcache : BOOLEAN, type : {"static", "generic-php"}]
Files == [map : {"php", "none"}, pools : Pools, gate : BOOLEAN, state : Switches, cache : Nat, presets : Presets]

Puts == [kind : {"put"}, redis : BOOLEAN, opcache : BOOLEAN, seen : [redis : BOOLEAN, opcache : BOOLEAN]]
Purges == [kind : {"purge"}]
Profiles == [kind : {"presets"}, to : Presets, seen : Pools]
Migrations == [kind : {"migrate"}, php : BOOLEAN, seen : Files]
Requests == Puts \cup Purges \cup Profiles \cup Migrations

Step == {"write", "restore", "validate", "php", "nginx", "verify", "external"}

Works ==
    [by : Requesters \cup {Migrator}, request : Requests, before : Files, after : Files,
     todo : Seq(Step), tried : SUBSET Step, undoing : BOOLEAN]

(* Files that no write of the request concerns.                            *)
Apart(r, x, y) ==
    /\ r.kind = "presets" => x.map = y.map /\ x.gate = y.gate /\ x.state = y.state /\ x.cache = y.cache
    /\ r.kind = "migrate" => x.cache = y.cache /\ x.presets = y.presets /\ x.state.version = y.state.version
    /\ r.kind \in {"put", "purge"} => x.gate = y.gate /\ x.presets = y.presets

LEMMA FilesEqual ==
    ASSUME NEW x \in Files, NEW y \in Files, x.map = y.map, x.pools = y.pools, x.gate = y.gate,
           x.state = y.state, x.cache = y.cache, x.presets = y.presets
    PROVE  x = y
  BY DEF Files

LEMMA Kinds ==
    ASSUME NEW r \in Requests
    PROVE  /\ r.kind \in {"put", "purge", "presets", "migrate"}
           /\ r.kind = "put" => r \in Puts
           /\ r.kind = "purge" => r \in Purges
           /\ r.kind = "presets" => r \in Profiles
           /\ r.kind = "migrate" => r \in Migrations
  BY DEF Requests, Puts, Purges, Profiles, Migrations

LEMMA AfterPresets ==
    ASSUME NEW r \in Profiles, NEW b \in Files
    PROVE  LET a == After(r, b) IN
           /\ a \in Files /\ a.map = b.map /\ a.gate = b.gate /\ a.state = b.state /\ a.cache = b.cache
           /\ a.pools.opcache = b.pools.opcache /\ a.pools.legacy = b.pools.legacy
           /\ a.pools.children = r.to
  BY DEF After, WithPresets, Profiles, Files, Pools

LEMMA AfterPurge ==
    ASSUME NEW r \in Purges, NEW b \in Files
    PROVE  LET a == After(r, b) IN
           /\ a \in Files /\ a.map = b.map /\ a.gate = b.gate /\ a.pools = b.pools /\ a.presets = b.presets
           /\ a.cache = a.state.version /\ a.state.redis = b.state.redis /\ a.state.opcache = b.state.opcache
<1> DEFINE s == [b.state EXCEPT !.version = @ + 1]
<1>1. s \in Switches /\ s.redis = b.state.redis /\ s.opcache = b.state.opcache
  BY DEF Files, Switches
<1>2. After(r, b) = [b EXCEPT !.state = s, !.cache = s.version]
  BY DEF After, Updated, Bumped, Rendered, Purges
<1> HIDE DEF s
<1> QED BY <1>1, <1>2 DEF Files, Switches

LEMMA AfterPut ==
    ASSUME NEW r \in Puts, NEW b \in Files
    PROVE  LET a == After(r, b) IN
           /\ a \in Files /\ a.map = b.map /\ a.gate = b.gate /\ a.presets = b.presets
           /\ a.cache = a.state.version /\ a.state.version = b.state.version
           /\ a.state.redis = r.redis /\ a.state.opcache = r.opcache
           /\ a.pools.children = b.pools.children
           /\ OpcacheChanges(r) => a.pools.opcache = r.opcache
           /\ ~OpcacheChanges(r) => a.pools = b.pools
<1> DEFINE s == [b.state EXCEPT !.redis = r.redis, !.opcache = r.opcache]
           u == [b EXCEPT !.state = s, !.cache = s.version]
           o == IF OpcacheChanges(r) THEN r.opcache ELSE u.pools.opcache
           a == [u EXCEPT !.pools = [u.pools EXCEPT !.opcache = o]]
<1>1. s \in Switches /\ s.version = b.state.version /\ s.redis = r.redis /\ s.opcache = r.opcache
  BY DEF Files, Puts, Switches
<1>2. After(r, b) = a
  BY DEF After, WithState, Updated, Rendered, Puts
<1> HIDE DEF s
<1>3. /\ u \in Files /\ u.map = b.map /\ u.gate = b.gate /\ u.presets = b.presets /\ u.pools = b.pools
      /\ u.state = s /\ u.cache = s.version
  BY <1>1 DEF Files, Switches
<1> HIDE DEF u
<1>4. o \in BOOLEAN /\ r.opcache \in BOOLEAN
  BY <1>3 DEF Files, Pools, Puts
<1>5. /\ [u.pools EXCEPT !.opcache = o] \in Pools
      /\ [u.pools EXCEPT !.opcache = o].children = b.pools.children
      /\ [u.pools EXCEPT !.opcache = o].opcache = o
      /\ ~OpcacheChanges(r) => [u.pools EXCEPT !.opcache = o] = b.pools
  BY <1>3, <1>4 DEF Files, Pools
<1> DEFINE p == [u.pools EXCEPT !.opcache = o]
<1> HIDE DEF p
<1>6. /\ a \in Files /\ a.map = u.map /\ a.gate = u.gate /\ a.presets = u.presets /\ a.pools = p
      /\ a.state = u.state /\ a.cache = u.cache
  BY <1>3, <1>5 DEF Files, p
<1> QED BY <1>1, <1>2, <1>3, <1>5, <1>6 DEF p

LEMMA AfterMigrate ==
    ASSUME NEW r \in Migrations, NEW b \in Files
    PROVE  LET a == After(r, b) IN
           /\ a \in Files /\ a.cache = b.cache /\ a.presets = b.presets
           /\ a.state.version = b.state.version /\ a.state.redis = b.state.redis
           /\ a.state.opcache = b.state.opcache
           /\ a.pools.opcache = b.pools.opcache /\ a.pools.children = b.pools.children
  BY DEF After, Isolated, Migrations, Files, Switches, Pools

LEMMA WrittenFields ==
    ASSUME store \in Files, NEW c \in Files, NEW order, NEW n \in Nat
    PROVE  LET w == Written(order, n, c) 
               Done(f) == \E i \in 1 .. n : order[i] = f IN
           /\ w \in Files
           /\ w.map = IF Done("map") THEN c.map ELSE store.map
           /\ w.pools = IF Done("pools") THEN c.pools ELSE store.pools
           /\ w.gate = IF Done("gate") THEN c.gate ELSE store.gate
           /\ w.state = IF Done("state") THEN c.state ELSE store.state
           /\ w.cache = IF Done("cache") THEN c.cache ELSE store.cache
           /\ w.presets = IF Done("presets") THEN c.presets ELSE store.presets
  BY DEF Written, Files

(* A transaction's writes, and those that take them back, in full.         *)
LEMMA WrittenWhole ==
    ASSUME store \in Files, NEW c \in Files, NEW r \in Requests, Apart(r, store, c)
    PROVE  /\ Written(WriteOrder(r), Len(WriteOrder(r)), c) = c
           /\ Written(RestoreOrder(r), Len(RestoreOrder(r)), c) = c
<1> DEFINE w == Written(WriteOrder(r), Len(WriteOrder(r)), c)
           u == Written(RestoreOrder(r), Len(RestoreOrder(r)), c)
<1>1. CASE r.kind = "presets"
  <2>1. /\ WriteOrder(r) = <<"presets", "pools">> /\ Len(WriteOrder(r)) = 2
        /\ RestoreOrder(r) = <<"pools", "presets">> /\ Len(RestoreOrder(r)) = 2
    BY <1>1 DEF WriteOrder, RestoreOrder
  <2>2. w \in Files /\ w.presets = c.presets /\ w.pools = c.pools /\ w.map = c.map /\ w.gate = c.gate
        /\ w.state = c.state /\ w.cache = c.cache
    BY <1>1, <2>1, WrittenFields DEF Apart
  <2>3. u \in Files /\ u.presets = c.presets /\ u.pools = c.pools /\ u.map = c.map /\ u.gate = c.gate
        /\ u.state = c.state /\ u.cache = c.cache
    BY <1>1, <2>1, WrittenFields DEF Apart
  <2> QED BY <2>2, <2>3, FilesEqual
<1>2. CASE r.kind = "migrate"
  <2>1. /\ WriteOrder(r) = <<"map", "pools", "gate", "state">> /\ Len(WriteOrder(r)) = 4
        /\ RestoreOrder(r) = <<"map", "pools", "gate", "state">> /\ Len(RestoreOrder(r)) = 4
    BY <1>2 DEF WriteOrder, RestoreOrder
  <2>2. w \in Files /\ w.presets = c.presets /\ w.pools = c.pools /\ w.map = c.map /\ w.gate = c.gate
        /\ w.state = c.state /\ w.cache = c.cache
    BY <1>2, <2>1, WrittenFields DEF Apart
  <2>3. u = w
    BY <2>1
  <2> QED BY <2>2, <2>3, FilesEqual
<1>3. CASE r.kind \in {"put", "purge"}
  <2>1. /\ WriteOrder(r) = <<"state", "cache", "pools", "map">> /\ Len(WriteOrder(r)) = 4
        /\ RestoreOrder(r) = <<"map", "pools", "state", "cache">> /\ Len(RestoreOrder(r)) = 4
    BY <1>3 DEF WriteOrder, RestoreOrder
  <2>2. w \in Files /\ w.presets = c.presets /\ w.pools = c.pools /\ w.map = c.map /\ w.gate = c.gate
        /\ w.state = c.state /\ w.cache = c.cache
    BY <1>3, <2>1, WrittenFields DEF Apart
  <2>3. u \in Files /\ u.presets = c.presets /\ u.pools = c.pools /\ u.map = c.map /\ u.gate = c.gate
        /\ u.state = c.state /\ u.cache = c.cache
    BY <1>3, <2>1, WrittenFields DEF Apart
  <2> QED BY <2>2, <2>3, FilesEqual
<1> QED BY <1>1, <1>2, <1>3, Kinds

(* Some of them, in either direction.                                      *)
LEMMA WrittenPart ==
    ASSUME store \in Files, NEW b \in Files, NEW a \in Files, NEW r \in Requests, NEW n \in Nat,
           Apart(r, store, b), Apart(r, a, b)
    PROVE  /\ Written(WriteOrder(r), n, a) \in Files /\ Apart(r, Written(WriteOrder(r), n, a), b)
           /\ Written(RestoreOrder(r), n, b) \in Files /\ Apart(r, Written(RestoreOrder(r), n, b), b)
<1> DEFINE w == Written(WriteOrder(r), n, a)
           u == Written(RestoreOrder(r), n, b)
<1>1. w \in Files /\ u \in Files
  BY WrittenFields
<1>2. /\ w.map \in {a.map, store.map} /\ w.gate \in {a.gate, store.gate} /\ w.cache \in {a.cache, store.cache}
      /\ w.presets \in {a.presets, store.presets} /\ w.state \in {a.state, store.state}
      /\ u.map \in {b.map, store.map} /\ u.gate \in {b.gate, store.gate} /\ u.cache \in {b.cache, store.cache}
      /\ u.presets \in {b.presets, store.presets} /\ u.state \in {b.state, store.state}
  BY WrittenFields
<1> HIDE DEF w, u
<1>3. Apart(r, w, b) /\ Apart(r, u, b)
  BY <1>2 DEF Apart
<1> QED BY <1>1, <1>3 DEF w, u

-----------------------------------------------------------------------------
(* Steps that are left.                                                    *)

Left(todo) == {todo[i] : i \in DOMAIN todo}
Later(todo) == {todo[i] : i \in DOMAIN todo \ {1}}
Course(todo, first) ==
    /\ todo \in Seq(Step) /\ todo # <<>> /\ todo[1] = first
    /\ Later(todo) \cap {"write", "restore"} = {}

LEMMA LeftLater ==
    ASSUME NEW s \in Seq(Step), s # <<>>
    PROVE  Left(s) = {s[1]} \cup Later(s) /\ Left(s) \subseteq Step
  BY DEF Left, Later

LEMMA TakenStep ==
    ASSUME NEW s \in Seq(Step), Len(s) > 1
    PROVE  /\ Tail(s) \in Seq(Step) /\ Tail(s) # <<>> /\ Tail(s)[1] = s[2] /\ s[2] \in Later(s)
           /\ Left(Tail(s)) = Later(s) /\ Later(Tail(s)) \subseteq Later(s)
<1>1. Tail(s) \in Seq(Step) /\ Len(Tail(s)) = Len(s) - 1 /\ \A i \in 1 .. Len(s) - 1 : Tail(s)[i] = s[i + 1]
  OBVIOUS
<1>2. Tail(s) # <<>> /\ Tail(s)[1] = s[2] /\ s[2] \in Later(s)
  <2>1. Tail(s) # <<>> /\ Tail(s)[1] = s[2]
    <3>1. Len(Tail(s)) # 0 /\ Tail(s)[1] = s[2]
      BY <1>1
    <3>2. Len(<<>>) = 0
      OBVIOUS
    <3> QED BY <3>1, <3>2
  <2>2. DOMAIN s = 1 .. Len(s) /\ Len(s) \in Nat
    OBVIOUS
  <2>3. 2 \in DOMAIN s \ {1}
    BY <2>2
  <2> QED BY <2>1, <2>3 DEF Later
<1>3. Left(Tail(s)) \subseteq Later(s) /\ Later(Tail(s)) \subseteq Later(s)
  BY <1>1 DEF Left, Later
<1>4. ASSUME NEW i \in DOMAIN s \ {1}
      PROVE  s[i] \in Left(Tail(s))
  <2>1. i - 1 \in 1 .. Len(Tail(s)) /\ Tail(s)[i - 1] = s[i]
    BY <1>1
  <2> QED BY <1>1, <2>1 DEF Left
<1> QED BY <1>1, <1>2, <1>3, <1>4 DEF Later

LEMMA LastStep ==
    ASSUME NEW s \in Seq(Step), s # <<>>, ~(Len(s) > 1)
    PROVE  Left(s) = {s[1]}
  BY DEF Left

LEMMA Joined ==
    ASSUME NEW s \in Seq(Step), NEW t \in Seq(Step), s # <<>>
    PROVE  /\ s \o t \in Seq(Step) /\ s \o t # <<>> /\ (s \o t)[1] = s[1]
           /\ Left(s \o t) = Left(s) \cup Left(t) /\ Later(s \o t) \subseteq Later(s) \cup Left(t)
<1> DEFINE u == s \o t
<1>1. /\ u \in Seq(Step) /\ Len(u) = Len(s) + Len(t) /\ Len(s) \in Nat /\ Len(t) \in Nat /\ Len(s) >= 1
      /\ \A i \in 1 .. Len(u) : u[i] = IF i <= Len(s) THEN s[i] ELSE t[i - Len(s)]
  OBVIOUS
<1>2. u # <<>> /\ u[1] = s[1] /\ DOMAIN u = 1 .. Len(u)
  BY <1>1
<1> HIDE DEF u
<1>3. ASSUME NEW i \in DOMAIN u
      PROVE  u[i] \in Left(s) \cup Left(t) /\ (i # 1 => u[i] \in Later(s) \cup Left(t))
  <2>1. CASE i <= Len(s)
    BY <1>1, <1>2, <2>1 DEF Left, Later
  <2>2. CASE i > Len(s)
    <3>1. i - Len(s) \in DOMAIN t /\ u[i] = t[i - Len(s)]
      BY <1>1, <1>2, <2>2
    <3> QED BY <3>1 DEF Left
  <2> QED BY <1>1, <1>2, <2>1, <2>2
<1>4. ASSUME NEW i \in DOMAIN s
      PROVE  s[i] \in Left(u)
  BY <1>1, <1>2 DEF Left
<1>5. ASSUME NEW i \in DOMAIN t
      PROVE  t[i] \in Left(u)
  <2>1. i + Len(s) \in DOMAIN u /\ u[i + Len(s)] = t[i]
    BY <1>1, <1>2
  <2> QED BY <2>1 DEF Left
<1>6. Left(u) = Left(s) \cup Left(t)
  BY <1>3, <1>4, <1>5 DEF Left
<1>7. Later(u) \subseteq Later(s) \cup Left(t)
  BY <1>3 DEF Later
<1> QED BY <1>1, <1>2, <1>6, <1>7 DEF u

LEMMA StepNames ==
    /\ "write" \in Step /\ "restore" \in Step /\ "validate" \in Step /\ "php" \in Step
    /\ "nginx" \in Step /\ "verify" \in Step /\ "external" \in Step
  BY DEF Step

LEMMA Tuples ==
    /\ \A a \in Step : <<a>> \in Seq(Step) /\ <<a>> # <<>> /\ Left(<<a>>) = {a} /\ Later(<<a>>) = {}
    /\ \A a, b \in Step : /\ <<a, b>> \in Seq(Step) /\ <<a, b>> # <<>>
                         /\ Left(<<a, b>>) = {a, b} /\ Later(<<a, b>>) = {b}
    /\ \A a, b, c \in Step : /\ <<a, b, c>> \in Seq(Step) /\ <<a, b, c>> # <<>>
                            /\ Left(<<a, b, c>>) = {a, b, c} /\ Later(<<a, b, c>>) = {b, c}
    /\ \A a, b, c, d \in Step :
          /\ <<a, b, c, d>> \in Seq(Step) /\ <<a, b, c, d>> # <<>>
          /\ Left(<<a, b, c, d>>) = {a, b, c, d} /\ Later(<<a, b, c, d>>) = {b, c, d}
    /\ \A a, b, c, d, e \in Step :
          /\ <<a, b, c, d, e>> \in Seq(Step) /\ <<a, b, c, d, e>> # <<>>
          /\ Left(<<a, b, c, d, e>>) = {a, b, c, d, e} /\ Later(<<a, b, c, d, e>>) = {b, c, d, e}
<1>1. ASSUME NEW a \in Step
      PROVE  <<a>> \in Seq(Step) /\ <<a>> # <<>> /\ Left(<<a>>) = {a} /\ Later(<<a>>) = {}
  BY DEF Left, Later
<1>2. ASSUME NEW a \in Step, NEW b \in Step
      PROVE  /\ <<a, b>> \in Seq(Step) /\ <<a, b>> # <<>>
             /\ Left(<<a, b>>) = {a, b} /\ Later(<<a, b>>) = {b}
  BY DEF Left, Later
<1>3. ASSUME NEW a \in Step, NEW b \in Step, NEW c \in Step
      PROVE  /\ <<a, b, c>> \in Seq(Step) /\ <<a, b, c>> # <<>>
             /\ Left(<<a, b, c>>) = {a, b, c} /\ Later(<<a, b, c>>) = {b, c}
  BY DEF Left, Later
<1>4. ASSUME NEW a \in Step, NEW b \in Step, NEW c \in Step, NEW d \in Step
      PROVE  /\ <<a, b, c, d>> \in Seq(Step) /\ <<a, b, c, d>> # <<>>
             /\ Left(<<a, b, c, d>>) = {a, b, c, d} /\ Later(<<a, b, c, d>>) = {b, c, d}
  BY DEF Left, Later
<1>5. ASSUME NEW a \in Step, NEW b \in Step, NEW c \in Step, NEW d \in Step, NEW e \in Step
      PROVE  /\ <<a, b, c, d, e>> \in Seq(Step) /\ <<a, b, c, d, e>> # <<>>
             /\ Left(<<a, b, c, d, e>>) = {a, b, c, d, e} /\ Later(<<a, b, c, d, e>>) = {b, c, d, e}
  BY DEF Left, Later
<1> QED BY <1>1, <1>2, <1>3, <1>4, <1>5

LEMMA Chosen ==
    /\ <<>> \in Seq(Step) /\ Left(<<>>) = {}
    /\ \A c \in BOOLEAN, s \in Seq(Step) :
          Opt(c, s) \in Seq(Step) /\ Left(Opt(c, s)) = IF c THEN Left(s) ELSE {}
<1>1. <<>> \in Seq(Step) /\ Left(<<>>) = {}
  BY DEF Left
<1>2. ASSUME NEW c \in BOOLEAN, NEW s \in Seq(Step)
      PROVE  Opt(c, s) \in Seq(Step) /\ Left(Opt(c, s)) = IF c THEN Left(s) ELSE {}
  <2>1. Opt(c, s) = IF c THEN s ELSE <<>>
    BY DEF Opt
  <2> QED BY <1>1, <2>1
<1> QED BY <1>1, <1>2

LEMMA CourseAhead ==
    ASSUME NEW r \in Requests, NEW b \in Files, NEW a \in Files
    PROVE  LET s == StepsOf(r, b, a) IN
           /\ Course(s, "write")
           /\ "external" \in Left(s) => r.kind = "put"
           /\ r.kind = "put" /\ "external" \notin Left(s) => r.redis = r.seen.redis
           /\ "php" \notin Left(s) => r.kind \in {"put", "purge"} /\ a.pools = b.pools
           /\ "nginx" \notin Left(s) => r.kind \in {"put", "purge", "presets"}
           /\ r.kind = "presets" => "nginx" \notin Left(s)
           /\ "nginx" \notin Left(s) /\ r.kind # "presets" => a.cache = b.cache
           /\ r.kind = "migrate" => Len(s) > 1 /\ s[2] = "validate"
<1> DEFINE s == StepsOf(r, b, a)
<1>1. CASE r.kind = "presets"
  <2>1. s = <<"write", "validate", "php", "verify">>
    BY <1>1 DEF StepsOf
  <2>2. /\ s \in Seq(Step) /\ s # <<>> /\ s[1] = "write"
        /\ Left(s) = {"write", "validate", "php", "verify"} /\ Later(s) = {"validate", "php", "verify"}
    BY <2>1, Tuples, StepNames
  <2> QED BY <1>1, <2>2 DEF Course
<1>2. CASE r.kind = "migrate"
  <2>1. s = <<"write", "validate", "php", "nginx", "verify">>
    BY <1>2 DEF StepsOf
  <2>2. /\ s \in Seq(Step) /\ s # <<>> /\ s[1] = "write" /\ s[2] = "validate" /\ Len(s) > 1
        /\ Left(s) = {"write", "validate", "php", "nginx", "verify"}
        /\ Later(s) = {"validate", "php", "nginx", "verify"}
    BY <2>1, Tuples, StepNames
  <2> QED BY <1>2, <2>2 DEF Course
<1>3. CASE r.kind \in {"put", "purge"}
  <2> DEFINE m == IF a.pools # b.pools THEN <<"validate", "php", "nginx", "verify">>
                  ELSE Opt(a.cache # b.cache, <<"validate", "nginx">>)
             x == Opt(RedisChanges(r), <<"external">>)
             h == <<"write">>
  <2>1. s = (h \o m) \o x
    BY <1>3 DEF StepsOf, StateSteps
  <2>2. h \in Seq(Step) /\ h # <<>> /\ h[1] = "write" /\ Left(h) = {"write"} /\ Later(h) = {}
    BY Tuples, StepNames
  <2> DEFINE full == <<"validate", "php", "nginx", "verify">>
             part == <<"validate", "nginx">>
             one == <<"external">>
             differ == a.cache # b.cache
             changes == RedisChanges(r)
  <2>3. /\ full \in Seq(Step) /\ Left(full) = {"validate", "php", "nginx", "verify"}
        /\ part \in Seq(Step) /\ Left(part) = {"validate", "nginx"}
        /\ one \in Seq(Step) /\ Left(one) = {"external"}
    BY Tuples, StepNames
  <2>4. differ \in BOOLEAN /\ changes \in BOOLEAN
    BY DEF RedisChanges
  <2> HIDE DEF full, part, one, differ, changes
  <2>5. /\ Opt(differ, part) \in Seq(Step) /\ Left(Opt(differ, part)) = IF differ THEN Left(part) ELSE {}
        /\ Opt(changes, one) \in Seq(Step) /\ Left(Opt(changes, one)) = IF changes THEN Left(one) ELSE {}
    BY <2>3, <2>4, Chosen
  <2>6. m = (IF a.pools # b.pools THEN full ELSE Opt(differ, part)) /\ x = Opt(changes, one)
    BY DEF full, part, one, differ, changes
  <2> HIDE DEF s, m, x, h
  <2>7. /\ m \in Seq(Step) /\ Left(m) \subseteq {"validate", "php", "nginx", "verify"}
        /\ "php" \notin Left(m) => a.pools = b.pools
        /\ "nginx" \notin Left(m) => ~differ
    BY <2>3, <2>5, <2>6
  <2>8. x \in Seq(Step) /\ Left(x) = IF changes THEN {"external"} ELSE {}
    BY <2>3, <2>5, <2>6
  <2> DEFINE g == h \o m
  <2>9. /\ g \in Seq(Step) /\ g # <<>> /\ g[1] = "write" /\ Left(g) = Left(h) \cup Left(m)
        /\ Later(g) \subseteq Left(m)
    BY <2>2, <2>7, Joined
  <2>10. s = g \o x
    BY <2>1
  <2> HIDE DEF g
  <2>11. /\ s \in Seq(Step) /\ s # <<>> /\ s[1] = "write" /\ Left(s) = {"write"} \cup Left(m) \cup Left(x)
         /\ Later(s) \subseteq Left(m) \cup Left(x)
    BY <2>2, <2>8, <2>9, <2>10, Joined
  <2>12. Course(s, "write")
    BY <2>7, <2>8, <2>11 DEF Course
  <2>13. /\ "external" \in Left(s) <=> RedisChanges(r)
         /\ "php" \notin Left(s) => a.pools = b.pools
         /\ "nginx" \notin Left(s) => a.cache = b.cache
    BY <2>7, <2>8, <2>11 DEF differ, changes
  <2> QED BY <1>3, <2>12, <2>13 DEF RedisChanges, s
<1> QED BY <1>1, <1>2, <1>3, Kinds

(* The undo of what was tried takes everything back that was loaded.       *)
LEMMA CourseBack ==
    ASSUME NEW r \in Requests, NEW tried \in SUBSET Step
    PROVE  LET u == Undo(r, tried) IN
           /\ Course(u, "restore")
           /\ "external" \in Left(u) => "external" \in tried
           /\ "external" \in tried /\ r.kind = "put" => "external" \in Left(u)
           /\ "php" \in tried /\ (r.kind = "migrate" => "validate" \in tried) => "php" \in Left(u)
           /\ "nginx" \in tried /\ r.kind # "presets" /\ (r.kind = "migrate" => "validate" \in tried)
                => "nginx" \in Left(u)
<1> DEFINE u == Undo(r, tried)
<1>1. CASE r.kind = "presets"
  <2>1. u = IF "php" \in tried THEN <<"restore", "validate", "php">> ELSE <<"restore">>
    BY <1>1 DEF Undo, PresetUndo
  <2>2. CASE "php" \in tried
    <3>1. /\ u \in Seq(Step) /\ u # <<>> /\ u[1] = "restore"
          /\ Left(u) = {"restore", "validate", "php"} /\ Later(u) = {"validate", "php"}
      BY <2>1, <2>2, Tuples, StepNames
    <3> QED BY <1>1, <2>2, <3>1 DEF Course
  <2>3. CASE "php" \notin tried
    <3>1. u \in Seq(Step) /\ u # <<>> /\ u[1] = "restore" /\ Left(u) = {"restore"} /\ Later(u) = {}
      BY <2>1, <2>3, Tuples, StepNames
    <3> QED BY <1>1, <2>3, <3>1 DEF Course
  <2> QED BY <2>2, <2>3
<1>2. CASE r.kind = "migrate"
  <2>1. u = <<"restore">> \o Opt("validate" \in tried, <<"validate", "php", "nginx", "verify">>)
    BY <1>2 DEF Undo, MigrationUndo
  <2>2. <<"restore">> \in Seq(Step) /\ <<"restore">> # <<>> /\ Left(<<"restore">>) = {"restore"} /\ Later(<<"restore">>) = {}
    BY Tuples, StepNames
  <2>3. CASE "validate" \in tried
    <3> DEFINE h == <<"restore">>
               t == <<"validate", "php", "nginx", "verify">>
    <3>1. u = h \o t
      BY <2>1, <2>3 DEF Opt
    <3>2. t \in Seq(Step) /\ Left(t) = {"validate", "php", "nginx", "verify"} /\ h[1] = "restore"
      BY Tuples, StepNames
    <3> HIDE DEF h, t, u
    <3>3. /\ u \in Seq(Step) /\ u # <<>> /\ u[1] = h[1] /\ Left(u) = Left(h) \cup Left(t)
          /\ Later(u) \subseteq Later(h) \cup Left(t)
      BY <2>2, <3>1, <3>2, Joined DEF h
    <3>4. /\ u \in Seq(Step) /\ u # <<>> /\ u[1] = "restore"
          /\ Left(u) = {"restore", "validate", "php", "nginx", "verify"}
          /\ Later(u) \subseteq {"validate", "php", "nginx", "verify"}
      BY <2>2, <3>2, <3>3 DEF h
    <3> QED BY <1>2, <2>3, <3>4 DEF Course, u
  <2>4. CASE "validate" \notin tried
    <3>1. u = <<"restore">>
      BY <2>1, <2>4 DEF Opt
    <3> QED BY <1>2, <2>2, <2>4, <3>1 DEF Course
  <2> QED BY <2>3, <2>4
<1>3. CASE r.kind \in {"put", "purge"}
  <2> DEFINE o(x) == Opt(x \in tried, <<x>>)
             v == Opt("php" \in tried, <<"verify">>)
             h == <<"restore", "validate">>
  <2>1. u = (((h \o o("external")) \o o("php")) \o o("nginx")) \o v
    BY <1>3 DEF Undo, StateUndo
  <2>2. /\ h \in Seq(Step) /\ h # <<>> /\ h[1] = "restore"
        /\ Left(h) = {"restore", "validate"} /\ Later(h) = {"validate"}
    BY Tuples, StepNames
  <2>3. ASSUME NEW x \in Step
        PROVE  o(x) \in Seq(Step) /\ Left(o(x)) = tried \cap {x}
    <3> DEFINE c == x \in tried
               one == <<x>>
    <3>1. c \in BOOLEAN /\ one \in Seq(Step) /\ Left(one) = {x}
      BY Tuples
    <3> HIDE DEF c, one
    <3>2. Opt(c, one) \in Seq(Step) /\ Left(Opt(c, one)) = IF c THEN {x} ELSE {}
      BY <3>1, Chosen
    <3>3. o(x) = Opt(c, one)
      BY DEF c, one
    <3> HIDE DEF o
    <3> QED BY <3>2, <3>3 DEF c
  <2>4. v \in Seq(Step) /\ Left(v) \subseteq {"verify"}
    <3> DEFINE c == "php" \in tried
               one == <<"verify">>
    <3>1. c \in BOOLEAN /\ one \in Seq(Step) /\ Left(one) = {"verify"}
      BY Tuples, StepNames
    <3> HIDE DEF c, one
    <3>2. Opt(c, one) \in Seq(Step) /\ Left(Opt(c, one)) = IF c THEN {"verify"} ELSE {}
      BY <3>1, Chosen
    <3>3. v = Opt(c, one)
      BY DEF c, one
    <3> HIDE DEF v
    <3> QED BY <3>2, <3>3
  <2> HIDE DEF u, v, h, o
  <2> DEFINE oe == o("external")  op == o("php")  on == o("nginx")
  <2>4a. /\ oe \in Seq(Step) /\ Left(oe) = tried \cap {"external"}
        /\ op \in Seq(Step) /\ Left(op) = tried \cap {"php"}
        /\ on \in Seq(Step) /\ Left(on) = tried \cap {"nginx"}
    BY <2>3, StepNames
  <2> HIDE DEF oe, op, on
  <2>4b. /\ h \o oe \in Seq(Step) /\ h \o oe # <<>> /\ (h \o oe)[1] = h[1]
         /\ Left(h \o oe) = Left(h) \cup Left(oe) /\ Later(h \o oe) \subseteq Later(h) \cup Left(oe)
    BY <2>2, <2>4a, Joined
  <2>5. /\ h \o oe \in Seq(Step) /\ h \o oe # <<>> /\ (h \o oe)[1] = "restore"
        /\ Left(h \o oe) = {"restore", "validate"} \cup (tried \cap {"external"})
        /\ Later(h \o oe) \subseteq {"validate", "external"}
    BY <2>2, <2>4a, <2>4b
  <2> DEFINE k == h \o oe
  <2> HIDE DEF k
  <2>6. /\ k \o op \in Seq(Step) /\ k \o op # <<>> /\ (k \o op)[1] = "restore"
        /\ Left(k \o op) = {"restore", "validate"} \cup (tried \cap {"external", "php"})
        /\ Later(k \o op) \subseteq {"validate", "external", "php"}
    BY <2>5, <2>4a, Joined DEF k
  <2> DEFINE l == k \o op
  <2> HIDE DEF l
  <2>7. /\ l \o on \in Seq(Step) /\ l \o on # <<>> /\ (l \o on)[1] = "restore"
        /\ Left(l \o on) = {"restore", "validate"} \cup (tried \cap {"external", "php", "nginx"})
        /\ Later(l \o on) \subseteq {"validate", "external", "php", "nginx"}
    BY <2>6, <2>4a, Joined DEF l
  <2> DEFINE n == l \o on
  <2> HIDE DEF n
  <2>8. u = n \o v
    BY <2>1 DEF k, l, n, oe, op, on
  <2>9. /\ u \in Seq(Step) /\ u # <<>> /\ u[1] = "restore"
        /\ Left(u) = {"restore", "validate"} \cup (tried \cap {"external", "php", "nginx"}) \cup Left(v)
        /\ Later(u) \subseteq {"validate", "external", "php", "nginx", "verify"}
    BY <2>4, <2>7, <2>8, Joined DEF n
  <2>10. Course(u, "restore")
    BY <2>9 DEF Course
  <2> QED BY <1>3, <2>4, <2>9, <2>10 DEF u
<1> QED BY <1>1, <1>2, <1>3, Kinds

LEMMA AfterFacts ==
    ASSUME NEW r \in Requests, NEW b \in Files
    PROVE  LET a == After(r, b) IN
           /\ a \in Files /\ Apart(r, a, b) /\ Apart(r, b, a)
           /\ b.cache = b.state.version => a.cache = a.state.version
<1>1. CASE r.kind = "presets"
  BY <1>1, Kinds, AfterPresets DEF Apart
<1>2. CASE r.kind = "purge"
  BY <1>2, Kinds, AfterPurge DEF Apart
<1>3. CASE r.kind = "put"
  BY <1>3, Kinds, AfterPut DEF Apart
<1>4. CASE r.kind = "migrate"
  BY <1>4, Kinds, AfterMigrate DEF Apart
<1> QED BY <1>1, <1>2, <1>3, <1>4, Kinds

-----------------------------------------------------------------------------
(* What holds between the steps of a transaction.                          *)

Loaded == [php : Pools, nginx : [map : {"php", "none"}, gate : BOOLEAN, cache : Nat]]

SystemTyped ==
    /\ store \in Files /\ served \in Loaded /\ redis \in BOOLEAN /\ pending \in BOOLEAN
    /\ asked \in [Requesters \cup {Migrator} -> Requests \cup {Nothing}]
    /\ acked \in [version : Nat, redis : BOOLEAN, opcache : BOOLEAN, children : Presets]
    /\ flaws \in [undo : BOOLEAN, torn : BOOLEAN, stale : BOOLEAN]

WorkTyped == work = Vacant \/ work \in Works

(* Only the CLI migrates, and does nothing else.                           *)
ByMigrator ==
    /\ asked[Migrator] # Nothing => asked[Migrator].kind = "migrate"
    /\ work # Vacant /\ work.by = Migrator => work.request.kind = "migrate"

CourseTrue ==
    work # Vacant =>
        /\ work.after = After(work.request, work.before)
        /\ Course(work.todo, work.todo[1])
        /\ work.todo[1] = "write" => ~work.undoing
        /\ work.todo[1] = "restore" => work.undoing
        /\ "external" \in work.tried \cup Left(work.todo) => work.request.kind = "put"
        /\ ~work.undoing =>
             /\ work.tried \cup Left(work.todo) = Left(StepsOf(work.request, work.before, work.after))
             /\ work.request.kind = "migrate" /\ "validate" \notin work.tried =>
                  /\ work.tried \cap {"php", "nginx"} = {}
                  /\ \/ work.todo[1] = "validate"
                     \/ work.todo[1] = "write" /\ Len(work.todo) > 1 /\ work.todo[2] = "validate"

(* The files are those of before or those of after, or are being restored. *)
StoreTrue ==
    ~flaws.undo /\ ~flaws.stale =>
        IF work = Vacant THEN store.cache = store.state.version
        ELSE /\ work.before.cache = work.before.state.version
             /\ IF work.todo[1] = "restore" THEN Apart(work.request, store, work.before)
                ELSE store = IF work.undoing \/ work.todo[1] = "write" THEN work.before ELSE work.after

Told(files) ==
    /\ files.state.version = acked.version /\ files.state.redis = acked.redis
    /\ files.pools.opcache = acked.opcache /\ files.pools.children = acked.children

Settled ==
    /\ served.php = store.pools /\ (~pending => served.nginx = NginxOf(store))
    /\ store.state.redis = redis /\ store.state.opcache = store.pools.opcache /\ Told(store)

(* What a transaction relies on: that of its beginning, and its decision.  *)
Begun ==
    /\ work.before.state.opcache = work.before.pools.opcache /\ Told(work.before)
    /\ work.request.kind = "put" =>
         /\ work.request.seen.redis = work.before.state.redis
         /\ work.request.seen.opcache = work.before.state.opcache

(* On its way, what was tried is loaded; on its way back, what is not left *)
(* is as it was.                                                           *)
Ahead(tried) ==
    /\ served.php = IF "php" \in tried THEN work.after.pools ELSE work.before.pools
    /\ "nginx" \in tried => served.nginx = NginxOf(work.after)
    /\ "nginx" \notin tried /\ ~pending => served.nginx = NginxOf(work.before)
    /\ redis = IF "external" \in tried THEN work.request.redis ELSE work.before.state.redis

Back(left) ==
    /\ "php" \notin left => served.php = work.before.pools
    /\ "nginx" \notin left /\ ~pending => served.nginx = NginxOf(work.before)
    /\ "external" \notin left => redis = work.before.state.redis

ServedTrue ==
    Sound => IF work = Vacant THEN Settled
             ELSE Begun /\ IF work.undoing THEN Back(Left(work.todo)) ELSE Ahead(work.tried)

StateInv == SystemTyped /\ WorkTyped /\ ByMigrator /\ CourseTrue /\ StoreTrue /\ ServedTrue

LEMMA VacantApart == Vacant \notin Works
  BY DEF Vacant, Works

LEMMA WorkFields ==
    ASSUME StateInv, work # Vacant
    PROVE  /\ work \in Works /\ work.by \in Requesters \cup {Migrator} /\ work.request \in Requests
           /\ work.before \in Files /\ work.after \in Files /\ work.tried \in SUBSET Step
           /\ work.undoing \in BOOLEAN /\ work.todo \in Seq(Step) /\ work.todo # <<>>
           /\ Head(work.todo) = work.todo[1] /\ work.todo[1] \in Left(work.todo)
           /\ Left(work.todo) = {work.todo[1]} \cup Later(work.todo)
           /\ Later(work.todo) \cap {"write", "restore"} = {}
           /\ work.after = After(work.request, work.before)
           /\ Apart(work.request, work.after, work.before) /\ Apart(work.request, work.before, work.after)
<1>1. work \in Works
  BY DEF StateInv, WorkTyped
<1>2. /\ work.by \in Requesters \cup {Migrator} /\ work.request \in Requests
      /\ work.before \in Files /\ work.after \in Files /\ work.tried \in SUBSET Step
      /\ work.undoing \in BOOLEAN /\ work.todo \in Seq(Step)
  BY <1>1 DEF Works
<1>3. /\ work.todo # <<>> /\ Later(work.todo) \cap {"write", "restore"} = {}
      /\ work.after = After(work.request, work.before)
  BY DEF StateInv, CourseTrue, Course
<1>4. Head(work.todo) = work.todo[1]
  BY <1>2, <1>3
<1>5. Left(work.todo) = {work.todo[1]} \cup Later(work.todo)
  BY <1>2, <1>3, LeftLater
<1>6. Apart(work.request, work.after, work.before) /\ Apart(work.request, work.before, work.after)
  BY <1>2, <1>3, AfterFacts
<1> QED BY <1>1, <1>2, <1>3, <1>4, <1>5, <1>6

LEMMA NginxTyped ==
    ASSUME NEW f \in Files
    PROVE  NginxOf(f) \in [map : {"php", "none"}, gate : BOOLEAN, cache : Nat]
  BY DEF NginxOf, Files

(* A step that succeeds, or fails after its effect.                        *)
LEMMA StepTyped ==
    ASSUME StateInv, work # Vacant, Takes(work.todo[1])
    PROVE  /\ store' \in Files /\ served' \in Loaded /\ redis' \in BOOLEAN
           /\ work.todo[1] \notin {"write", "restore"} => store' = store
           /\ ~flaws.undo /\ ~flaws.stale => store' = IF work.undoing THEN work.before ELSE work.after
           /\ served'.php = IF work.todo[1] = "php" THEN store.pools ELSE served.php
           /\ served'.nginx = IF work.todo[1] = "nginx" THEN NginxOf(store) ELSE served.nginx
<1> DEFINE step == work.todo[1]
<1>1. store \in Files /\ served \in Loaded /\ redis \in BOOLEAN
  BY DEF StateInv, SystemTyped
<1>2. Len(Order) \in Nat /\ Contents \in Files
  BY WorkFields DEF Order, Contents, RestoreOrder, WriteOrder
<1>3. store' \in Files /\ (step \notin {"write", "restore"} => store' = store)
  BY <1>1, <1>2, WrittenFields DEF Takes
<1>4. ~flaws.undo /\ ~flaws.stale => store' = IF work.undoing THEN work.before ELSE work.after
  <2> SUFFICES ASSUME ~flaws.undo, ~flaws.stale PROVE store' = IF work.undoing THEN work.before ELSE work.after
    OBVIOUS
  <2>1. CASE step = "write"
    <3>1. ~work.undoing /\ store = work.before
      BY <2>1 DEF StateInv, CourseTrue, StoreTrue
    <3>2. store' = Written(WriteOrder(work.request), Len(WriteOrder(work.request)), work.after)
      BY <2>1, <3>1 DEF Takes, Order, Contents
    <3> QED BY <1>1, <3>1, <3>2, WorkFields, WrittenWhole
  <2>2. CASE step = "restore"
    <3>1. work.undoing /\ Apart(work.request, store, work.before)
      BY <2>2 DEF StateInv, CourseTrue, StoreTrue
    <3>2. store' = Written(RestoreOrder(work.request), Len(RestoreOrder(work.request)), work.before)
      BY <2>2, <3>1 DEF Takes, Order, Contents
    <3> QED BY <1>1, <3>1, <3>2, WorkFields, WrittenWhole
  <2>3. CASE step \notin {"write", "restore"}
    BY <1>3, <2>3 DEF StateInv, StoreTrue
  <2> QED BY <2>1, <2>2, <2>3
<1>5. served' = CASE step = "php"   -> [served EXCEPT !.php = store.pools]
                  [] step = "nginx" -> [served EXCEPT !.nginx = NginxOf(store)]
                  [] OTHER          -> served
  BY DEF Takes
<1>6. /\ served' \in Loaded
      /\ served'.php = IF step = "php" THEN store.pools ELSE served.php
      /\ served'.nginx = IF step = "nginx" THEN NginxOf(store) ELSE served.nginx
  <2>1. store.pools \in Pools /\ NginxOf(store) \in [map : {"php", "none"}, gate : BOOLEAN, cache : Nat]
    BY <1>1, NginxTyped DEF Files
  <2>2. CASE step = "php"
    <3>1. served' = [served EXCEPT !.php = store.pools]
      BY <1>5, <2>2
    <3> QED BY <1>1, <2>1, <2>2, <3>1 DEF Loaded
  <2>3. CASE step = "nginx"
    <3>1. served' = [served EXCEPT !.nginx = NginxOf(store)]
      BY <1>5, <2>3
    <3> QED BY <1>1, <2>1, <2>3, <3>1 DEF Loaded
  <2>4. CASE step \notin {"php", "nginx"}
    BY <1>1, <1>5, <2>4
  <2> QED BY <2>2, <2>3, <2>4
<1>7. redis' \in BOOLEAN
  <2>1. CASE step = "external"
    <3>1. work.request.kind = "put"
      BY <2>1, WorkFields DEF StateInv, CourseTrue
    <3>2. work.request \in Puts
      BY <3>1, Kinds, WorkFields
    <3>3. redis' \in {work.request.seen.redis, work.request.redis}
      BY <2>1 DEF Takes
    <3> QED BY <3>2, <3>3 DEF Puts
  <2>2. CASE step # "external"
    BY <1>1, <2>2 DEF Takes
  <2> QED BY <2>1, <2>2
<1> QED BY <1>3, <1>4, <1>6, <1>7

LEMMA AckTyped ==
    ASSUME SystemTyped, NEW r \in Requests, NEW a \in Files
    PROVE  Acknowledged(r, a) \in [version : Nat, redis : BOOLEAN, opcache : BOOLEAN, children : Presets]
<1>1. r.kind = "put" => r.redis \in BOOLEAN /\ r.opcache \in BOOLEAN
  BY Kinds DEF Puts
<1>2. r.kind = "presets" => r.to \in Presets
  BY Kinds DEF Profiles
<1>3. a.state.version \in Nat
  BY DEF Files, Switches
<1> QED BY <1>1, <1>2, <1>3 DEF Acknowledged, SystemTyped

LEMMA StepAhead ==
    ASSUME StateInv, work # Vacant, ~work.undoing, Sound, Takes(work.todo[1])
    PROVE  LET t == work.tried \cup {work.todo[1]} IN
           /\ served'.php = IF "php" \in t THEN work.after.pools ELSE work.before.pools
           /\ "nginx" \in t => served'.nginx = NginxOf(work.after)
           /\ "nginx" \notin t /\ ~pending => served'.nginx = NginxOf(work.before)
           /\ redis' = IF "external" \in t THEN work.request.redis ELSE work.before.state.redis
<1>1. Ahead(work.tried)
  BY DEF StateInv, ServedTrue
<1>2. work.todo[1] # "write" => store = work.after
  BY WorkFields DEF StateInv, StoreTrue, CourseTrue, Sound
<1>3. redis' = IF work.todo[1] # "external" THEN redis ELSE work.request.redis
  BY DEF Takes
<1>4. /\ served'.php = IF work.todo[1] = "php" THEN store.pools ELSE served.php
      /\ served'.nginx = IF work.todo[1] = "nginx" THEN NginxOf(store) ELSE served.nginx
  BY StepTyped
<1> QED BY <1>1, <1>2, <1>3, <1>4 DEF Ahead

LEMMA StepBack ==
    ASSUME StateInv, work # Vacant, work.undoing, Sound, Takes(work.todo[1])
    PROVE  LET left == Later(work.todo) IN
           /\ "php" \notin left => served'.php = work.before.pools
           /\ "nginx" \notin left /\ ~pending => served'.nginx = NginxOf(work.before)
           /\ "external" \notin left => redis' = work.before.state.redis
<1>1. Back(Left(work.todo)) /\ Begun
  BY DEF StateInv, ServedTrue
<1>2. work.todo[1] # "restore" => store = work.before
  BY DEF StateInv, StoreTrue, Sound
<1>3. redis' = IF work.todo[1] # "external" THEN redis ELSE work.request.seen.redis
  BY DEF Takes
<1>4. /\ served'.php = IF work.todo[1] = "php" THEN store.pools ELSE served.php
      /\ served'.nginx = IF work.todo[1] = "nginx" THEN NginxOf(store) ELSE served.nginx
  BY StepTyped
<1>5. Left(work.todo) = {work.todo[1]} \cup Later(work.todo)
  BY WorkFields
<1>6. work.todo[1] = "external" => work.request.seen.redis = work.before.state.redis
  <2>1. work.todo[1] = "external" => work.request.kind = "put"
    BY <1>5 DEF StateInv, CourseTrue
  <2> QED BY <1>1, <2>1 DEF Begun
<1> QED BY <1>1, <1>2, <1>3, <1>4, <1>5, <1>6 DEF Back

(* What a change leaves agrees, and is what its caller is told.            *)
LEMMA ChangeAgrees ==
    ASSUME SystemTyped, NEW r \in Requests, NEW b \in Files, b.state.opcache = b.pools.opcache, Told(b),
           r.kind = "put" => r.seen.redis = b.state.redis /\ r.seen.opcache = b.state.opcache
    PROVE  LET a == After(r, b)
               told == Acknowledged(r, a) IN
           /\ a.state.opcache = a.pools.opcache
           /\ a.state.version = told.version /\ a.state.redis = told.redis
           /\ a.pools.opcache = told.opcache /\ a.pools.children = told.children
           /\ a.state.redis = IF r.kind = "put" THEN r.redis ELSE b.state.redis
           /\ r.kind = "presets" => NginxOf(a) = NginxOf(b)
           /\ r.kind \in {"put", "purge"} /\ a.cache = b.cache => NginxOf(a) = NginxOf(b)
<1> DEFINE a == After(r, b)
<1>1. CASE r.kind = "presets"
  <2>1. r \in Profiles
    BY <1>1, Kinds
  <2>2. /\ a.map = b.map /\ a.gate = b.gate /\ a.state = b.state /\ a.cache = b.cache
        /\ a.pools.opcache = b.pools.opcache /\ a.pools.children = r.to
    BY <2>1, AfterPresets
  <2> HIDE DEF a
  <2>3. NginxOf(a) = NginxOf(b)
    BY <2>2 DEF NginxOf
  <2>4. Acknowledged(r, a) = [version |-> acked.version, redis |-> acked.redis, opcache |-> acked.opcache,
                              children |-> r.to]
    BY <1>1 DEF Acknowledged
  <2>5. r.to \in Presets
    BY <2>1 DEF Profiles
  <2> QED BY <1>1, <2>2, <2>3, <2>4, <2>5 DEF a, Told, SystemTyped
<1>2. CASE r.kind = "purge"
  <2>1. r \in Purges
    BY <1>2, Kinds
  <2>2. /\ a \in Files /\ a.map = b.map /\ a.gate = b.gate /\ a.pools = b.pools
        /\ a.state.redis = b.state.redis /\ a.state.opcache = b.state.opcache
    BY <2>1, AfterPurge
  <2> HIDE DEF a
  <2>3. a.cache = b.cache => NginxOf(a) = NginxOf(b)
    BY <2>2 DEF NginxOf
  <2>4. Acknowledged(r, a) = [version |-> a.state.version, redis |-> acked.redis, opcache |-> acked.opcache,
                              children |-> acked.children]
    BY <1>2 DEF Acknowledged
  <2>5. a.state.version \in Nat
    BY <2>2 DEF Files, Switches
  <2> QED BY <1>2, <2>2, <2>3, <2>4, <2>5 DEF a, Told, SystemTyped
<1>3. CASE r.kind = "put"
  <2>1. r \in Puts
    BY <1>3, Kinds
  <2>2. /\ a.map = b.map /\ a.gate = b.gate /\ a.state.version = b.state.version
        /\ a.state.redis = r.redis /\ a.state.opcache = r.opcache
        /\ a.pools.children = b.pools.children
        /\ OpcacheChanges(r) => a.pools.opcache = r.opcache
        /\ ~OpcacheChanges(r) => a.pools = b.pools
    BY <2>1, AfterPut
  <2> HIDE DEF a
  <2>3. a.cache = b.cache => NginxOf(a) = NginxOf(b)
    BY <2>2 DEF NginxOf
  <2>4. Acknowledged(r, a) = [version |-> acked.version, redis |-> r.redis, opcache |-> r.opcache,
                              children |-> acked.children]
    BY <1>3 DEF Acknowledged
  <2>5. r.redis \in BOOLEAN /\ r.opcache \in BOOLEAN
    BY <2>1 DEF Puts
  <2>6. a.pools.opcache = r.opcache
    BY <1>3, <2>2 DEF OpcacheChanges
  <2> QED BY <1>3, <2>2, <2>3, <2>4, <2>5, <2>6 DEF a, Told, SystemTyped
<1>4. CASE r.kind = "migrate"
  <2>1. r \in Migrations
    BY <1>4, Kinds
  <2>2. /\ a.state.version = b.state.version /\ a.state.redis = b.state.redis
        /\ a.state.opcache = b.state.opcache
        /\ a.pools.opcache = b.pools.opcache /\ a.pools.children = b.pools.children
    BY <2>1, AfterMigrate
  <2> HIDE DEF a
  <2>4. Acknowledged(r, a) = [version |-> acked.version, redis |-> acked.redis, opcache |-> acked.opcache,
                              children |-> acked.children]
    BY <1>4 DEF Acknowledged
  <2> QED BY <1>4, <2>2, <2>4 DEF a, Told, SystemTyped
<1> QED BY <1>1, <1>2, <1>3, <1>4, Kinds

-----------------------------------------------------------------------------
LEMMA StateInitially == StateInit => StateInv
<1> SUFFICES ASSUME StateInit PROVE StateInv
  OBVIOUS
<1> PICK legacy \in BOOLEAN, v \in Presets :
      /\ store = [map |-> IF legacy THEN "php" ELSE "none",
                  pools |-> [opcache |-> TRUE, children |-> v, legacy |-> legacy], gate |-> FALSE,
                  state |-> [version |-> 1, redis |-> FALSE, opcache |-> TRUE, type |-> "static"],
                  cache |-> 1, presets |-> v]
      /\ acked = [version |-> 1, redis |-> FALSE, opcache |-> TRUE, children |-> v]
  BY DEF StateInit
<1>1. store \in Files
  BY DEF Files, Pools, Switches
<1>2. SystemTyped
  <2>1. served = [php |-> store.pools, nginx |-> NginxOf(store)]
    BY DEF StateInit
  <2>2. served \in Loaded
    BY <1>1, <2>1, NginxTyped DEF Loaded, Files
  <2>3. acked \in [version : Nat, redis : BOOLEAN, opcache : BOOLEAN, children : Presets]
    OBVIOUS
  <2>4. /\ redis \in BOOLEAN /\ pending \in BOOLEAN
        /\ asked \in [Requesters \cup {Migrator} -> Requests \cup {Nothing}]
        /\ flaws \in [undo : BOOLEAN, torn : BOOLEAN, stale : BOOLEAN]
    BY DEF StateInit
  <2> QED BY <1>1, <2>2, <2>3, <2>4 DEF SystemTyped
<1>3. work = Vacant /\ asked[Migrator] = Nothing
  BY DEF StateInit
<1>4. WorkTyped /\ ByMigrator /\ CourseTrue
  BY <1>3 DEF WorkTyped, ByMigrator, CourseTrue
<1>5. store.cache = store.state.version
  OBVIOUS
<1>6. StoreTrue
  BY <1>3, <1>5 DEF StoreTrue
<1>7. Settled
  BY DEF Settled, Told, StateInit
<1> QED BY <1>2, <1>3, <1>4, <1>6, <1>7 DEF StateInv, ServedTrue

(* Requests come and go without a trace.                                   *)
LEMMA SameState ==
    ASSUME StateInv, UNCHANGED <<store, served, redis, work, pending, acked, flaws>>,
           asked' \in [Requesters \cup {Migrator} -> Requests \cup {Nothing}],
           asked'[Migrator] # Nothing => asked'[Migrator].kind = "migrate"
    PROVE  StateInv'
<1>1. SystemTyped' /\ WorkTyped' /\ ByMigrator'
  BY DEF StateInv, SystemTyped, WorkTyped, ByMigrator
<1>2. CourseTrue'
  BY DEF StateInv, CourseTrue
<1>3. StoreTrue'
  BY DEF StateInv, StoreTrue
<1>4. ServedTrue'
  BY DEF StateInv, ServedTrue, Sound, Settled, Told, Begun, Ahead, Back
<1> QED BY <1>1, <1>2, <1>3, <1>4 DEF StateInv

LEMMA AskingKeeps ==
    ASSUME StateInv, \/ \E p \in Requesters : Asks(p)
                     \/ Previews
                     \/ \E p \in Requesters \cup {Migrator} : Refuses(p)
    PROVE  StateInv'
<1>1. store \in Files /\ asked \in [Requesters \cup {Migrator} -> Requests \cup {Nothing}]
  BY DEF StateInv, SystemTyped
<1>2. CASE \E p \in Requesters : Asks(p)
  <2>1. PICK p \in Requesters : Asks(p)
    BY <1>2
  <2>2. PICK r \in Inputs : Asking(p, r)
    BY <2>1 DEF Asks
  <2>3. r \in Requests
    BY <1>1 DEF Inputs, Requests, Puts, Purges, Profiles, Files, Switches
  <2>4. p # Migrator
    BY SiteStateAssumption
  <2> QED BY <1>1, <2>2, <2>3, <2>4, SameState DEF Asking, StateInv, ByMigrator
<1>3. CASE Previews
  <2>1. PICK hasPhp \in BOOLEAN : Asking(Migrator, [kind |-> "migrate", php |-> hasPhp, seen |-> store])
    BY <1>3 DEF Previews
  <2>2. [kind |-> "migrate", php |-> hasPhp, seen |-> store] \in Requests
    BY <1>1 DEF Requests, Migrations
  <2> QED BY <1>1, <2>1, <2>2, SameState DEF Asking
<1>4. CASE \E p \in Requesters \cup {Migrator} : Refuses(p)
  BY <1>1, <1>4, SameState DEF Refuses, StateInv, ByMigrator
<1> QED BY <1>2, <1>3, <1>4

LEMMA TurnKeeps ==
    ASSUME StateInv, NEW p \in Requesters \cup {Migrator}, TakesTurn(p)
    PROVE  StateInv'
<1> DEFINE r == asked[p]
           a == After(r, store)
           s == StepsOf(r, store, a)
<1>1. /\ work = Vacant /\ r # Nothing
      /\ work' = [by |-> p, request |-> r, before |-> store, after |-> a, todo |-> s,
                  tried |-> {}, undoing |-> FALSE]
      /\ flaws' = [flaws EXCEPT !.stale = @ \/ ~Decided(r)]
      /\ UNCHANGED <<store, served, redis, asked, pending, acked, tally>>
  BY DEF TakesTurn
<1>2. r \in Requests /\ store \in Files
  BY <1>1 DEF StateInv, SystemTyped
<1>3. a \in Files /\ (store.cache = store.state.version => a.cache = a.state.version)
  BY <1>2, AfterFacts
<1>4. /\ Course(s, "write") /\ s \in Seq(Step) /\ s[1] = "write"
      /\ "external" \in Left(s) => r.kind = "put"
      /\ r.kind = "migrate" => Len(s) > 1 /\ s[2] = "validate"
  BY <1>2, <1>3, CourseAhead DEF Course
<1> HIDE DEF r, s, a
<1>5. work' \in Works /\ work' # Vacant
  <2>1. /\ p \in Requesters \cup {Migrator} /\ r \in Requests /\ store \in Files /\ a \in Files
        /\ s \in Seq(Step) /\ {} \in SUBSET Step /\ FALSE \in BOOLEAN
    BY <1>2, <1>3, <1>4
  <2>2. [by |-> p, request |-> r, before |-> store, after |-> a, todo |-> s, tried |-> {}, undoing |-> FALSE]
           \in Works
    BY <2>1 DEF Works
  <2> QED BY <1>1, <2>2, VacantApart
<1>6. /\ work'.by = p /\ work'.request = r /\ work'.before = store /\ work'.after = a /\ work'.todo = s
      /\ work'.tried = {} /\ ~work'.undoing
  BY <1>1
<1>7. flaws' \in [undo : BOOLEAN, torn : BOOLEAN, stale : BOOLEAN] /\ flaws'.undo = flaws.undo
      /\ flaws'.torn = flaws.torn /\ (~flaws'.stale => ~flaws.stale /\ Decided(r))
  BY <1>1 DEF StateInv, SystemTyped, Decided
<1>8. SystemTyped'
  BY <1>1, <1>7 DEF StateInv, SystemTyped
<1>9. WorkTyped' /\ ByMigrator'
  BY <1>1, <1>5, <1>6 DEF WorkTyped, StateInv, ByMigrator, r
<1>10. CourseTrue'
  BY <1>4, <1>6 DEF CourseTrue, a, s
<1>11. StoreTrue'
  BY <1>1, <1>4, <1>5, <1>6, <1>7 DEF StateInv, StoreTrue
<1>12. ServedTrue'
  <2> SUFFICES ASSUME Sound' PROVE Begun' /\ Ahead({})'
    BY <1>5, <1>6 DEF ServedTrue
  <2>1. Settled /\ Decided(r)
    BY <1>1, <1>7 DEF StateInv, ServedTrue, Sound
  <2>2. Begun'
    BY <1>1, <1>6, <2>1 DEF Settled, Decided, Begun, Told
  <2>3. Ahead({})'
    BY <1>1, <1>6, <2>1 DEF Settled, Ahead
  <2> QED BY <2>2, <2>3
<1> QED BY <1>8, <1>9, <1>10, <1>11, <1>12 DEF StateInv

(* Another step is to come.                                                *)
LEMMA MoreKeeps ==
    ASSUME StateInv, work # Vacant, Len(work.todo) > 1, Takes(work.todo[1]),
           work' = [work EXCEPT !.todo = Tail(@), !.tried = @ \cup {work.todo[1]}],
           UNCHANGED <<asked, acked, pending, flaws>>
    PROVE  StateInv'
<1> DEFINE t == work.tried \cup {work.todo[1]}
<1>1. /\ Tail(work.todo) \in Seq(Step) /\ Tail(work.todo) # <<>> /\ Tail(work.todo)[1] = work.todo[2]
      /\ work.todo[2] \in Later(work.todo) /\ Left(Tail(work.todo)) = Later(work.todo)
      /\ Later(Tail(work.todo)) \subseteq Later(work.todo)
  BY WorkFields, TakenStep
<1>2. t \in SUBSET Step
  BY WorkFields, LeftLater
<1> HIDE DEF t
<1>3. /\ work' \in Works /\ work' # Vacant /\ work'.by = work.by /\ work'.request = work.request
      /\ work'.before = work.before /\ work'.after = work.after /\ work'.undoing = work.undoing
      /\ work'.todo = Tail(work.todo) /\ work'.tried = t
  <2>1. work' = [work EXCEPT !.todo = Tail(work.todo), !.tried = t]
    BY DEF t
  <2>2. work' \in Works
    BY <1>1, <1>2, <2>1, WorkFields DEF Works
  <2>3. work' # Vacant
    BY <2>2, VacantApart
  <2> QED BY <2>1, <2>2, <2>3, WorkFields DEF Works
<1>4. SystemTyped'
  BY StepTyped DEF StateInv, SystemTyped
<1>5. WorkTyped' /\ ByMigrator'
  BY <1>3 DEF WorkTyped, StateInv, ByMigrator
<1>6. work.todo[2] \notin {"write", "restore"}
  BY <1>1, WorkFields
<1>7. CourseTrue'
  <2>1. Course(Tail(work.todo), Tail(work.todo)[1])
    BY <1>1, WorkFields DEF Course
  <2>2. t \cup Left(Tail(work.todo)) = work.tried \cup Left(work.todo)
    BY <1>1, WorkFields DEF t
  <2>3. work'.request.kind = "migrate" /\ "validate" \notin t /\ ~work.undoing =>
           t \cap {"php", "nginx"} = {} /\ Tail(work.todo)[1] = "validate"
    BY <1>1, <1>3 DEF StateInv, CourseTrue, t
  <2>4. work'.after = After(work'.request, work'.before)
    BY <1>3 DEF StateInv, CourseTrue
  <2>5. "external" \in t \cup Left(Tail(work.todo)) => work.request.kind = "put"
    BY <2>2 DEF StateInv, CourseTrue
  <2>6. ~work.undoing => t \cup Left(Tail(work.todo)) = Left(StepsOf(work.request, work.before, work.after))
    BY <2>2 DEF StateInv, CourseTrue
  <2> QED BY <1>1, <1>3, <1>6, <2>1, <2>3, <2>4, <2>5, <2>6 DEF CourseTrue
<1>8. StoreTrue'
  <2>1. ~flaws.undo /\ ~flaws.stale => store' = IF work.undoing THEN work.before ELSE work.after
    BY StepTyped
  <2> QED BY <1>1, <1>3, <1>6, <2>1 DEF StateInv, StoreTrue
<1>9. ServedTrue'
  <2> SUFFICES ASSUME Sound' PROVE ServedTrue'
    BY DEF ServedTrue
  <2>1. Sound
    BY DEF Sound
  <2>2. Begun'
    BY <1>3, <2>1 DEF StateInv, ServedTrue, Begun, Told
  <2>3. CASE work.undoing
    <3>1. /\ "php" \notin Later(work.todo) => served'.php = work.before.pools
          /\ "nginx" \notin Later(work.todo) /\ ~pending => served'.nginx = NginxOf(work.before)
          /\ "external" \notin Later(work.todo) => redis' = work.before.state.redis
      BY <2>1, <2>3, StepBack
    <3>2. Back(Left(work.todo))'
      BY <1>1, <1>3, <3>1 DEF Back
    <3> QED BY <1>3, <2>2, <2>3, <3>2 DEF ServedTrue
  <2>4. CASE ~work.undoing
    <3>1. /\ served'.php = IF "php" \in t THEN work.after.pools ELSE work.before.pools
          /\ "nginx" \in t => served'.nginx = NginxOf(work.after)
          /\ "nginx" \notin t /\ ~pending => served'.nginx = NginxOf(work.before)
          /\ redis' = IF "external" \in t THEN work.request.redis ELSE work.before.state.redis
      BY <2>1, <2>4, StepAhead DEF t
    <3>2. Ahead(work.tried)'
      BY <1>3, <3>1 DEF Ahead
    <3> QED BY <1>3, <2>2, <2>4, <3>2 DEF ServedTrue
  <2> QED BY <2>3, <2>4, WorkFields
<1> QED BY <1>4, <1>5, <1>7, <1>8, <1>9 DEF StateInv

(* The lock is free again.                                                 *)
LEMMA ReleaseKeeps ==
    ASSUME StateInv, work # Vacant, Releases, store' \in Files, served' \in Loaded, redis' \in BOOLEAN,
           pending' \in BOOLEAN, flaws' \in [undo : BOOLEAN, torn : BOOLEAN, stale : BOOLEAN],
           acked' \in [version : Nat, redis : BOOLEAN, opcache : BOOLEAN, children : Presets],
           ~flaws'.undo /\ ~flaws'.stale => store'.cache = store'.state.version,
           Sound' => Settled'
    PROVE  StateInv'
<1>1. work' = Vacant /\ asked' = [asked EXCEPT ![work.by] = Nothing]
  BY DEF Releases
<1>2. asked' \in [Requesters \cup {Migrator} -> Requests \cup {Nothing}] /\ ByMigrator'
  BY <1>1 DEF StateInv, SystemTyped, ByMigrator
<1>3. SystemTyped'
  BY <1>2 DEF SystemTyped
<1> QED BY <1>1, <1>2, <1>3 DEF StateInv, WorkTyped, CourseTrue, StoreTrue, ServedTrue

LEMMA SucceedsKeeps == ASSUME StateInv, Succeeds PROVE StateInv'
<1>1. work # Vacant /\ Takes(work.todo[1]) /\ UNCHANGED <<pending, flaws>>
  BY WorkFields DEF Succeeds
<1>2. CASE Len(work.todo) > 1
  BY <1>1, <1>2, MoreKeeps, WorkFields DEF Succeeds
<1>3. CASE ~(Len(work.todo) > 1)
  <2>1. Releases /\ acked' = IF work.undoing THEN acked ELSE Acknowledged(work.request, work.after)
    BY <1>3 DEF Succeeds
  <2>2. Left(work.todo) = {work.todo[1]} /\ Later(work.todo) = {}
    <3>1. Left(work.todo) = {work.todo[1]}
      BY <1>1, <1>3, WorkFields, LastStep
    <3>2. Later(work.todo) = {}
      BY <1>1, <1>3, WorkFields DEF Later
    <3> QED BY <3>1, <3>2
  <2>3. /\ store' \in Files /\ served' \in Loaded /\ redis' \in BOOLEAN
        /\ ~flaws.undo /\ ~flaws.stale => store' = IF work.undoing THEN work.before ELSE work.after
    BY <1>1, StepTyped
  <2>4. SystemTyped /\ work.request \in Requests /\ work.before \in Files
        /\ work.after = After(work.request, work.before)
    BY <1>1, WorkFields DEF StateInv
  <2>5. acked' \in [version : Nat, redis : BOOLEAN, opcache : BOOLEAN, children : Presets]
    <3>1. Acknowledged(work.request, work.after)
             \in [version : Nat, redis : BOOLEAN, opcache : BOOLEAN, children : Presets]
      BY <1>1, <2>4, WorkFields, AckTyped
    <3> QED BY <2>1, <2>4, <3>1 DEF SystemTyped
  <2>6. ~flaws.undo /\ ~flaws.stale => store'.cache = store'.state.version
    BY <1>1, <2>3, <2>4, AfterFacts DEF StateInv, StoreTrue
  <2>7. ASSUME Sound
        PROVE  Settled'
    <3>1. Begun /\ ~flaws.undo /\ ~flaws.stale
      BY <1>1, <2>7 DEF StateInv, ServedTrue, Sound
    <3>2. CASE work.undoing
      <4>1. store' = work.before /\ acked' = acked
        BY <2>1, <2>3, <3>1, <3>2
      <4>2. /\ served'.php = work.before.pools /\ redis' = work.before.state.redis
            /\ ~pending => served'.nginx = NginxOf(work.before)
        BY <1>1, <2>2, <2>7, <3>2, StepBack
      <4> QED BY <1>1, <3>1, <4>1, <4>2 DEF Settled, Begun, Told
    <3>3. CASE ~work.undoing
      <4> DEFINE r == work.request  b == work.before  a == work.after
                 t == work.tried \cup {work.todo[1]}
      <4>1. store' = a /\ acked' = Acknowledged(r, a)
        BY <2>1, <2>3, <3>1, <3>3
      <4>2. /\ a.state.opcache = a.pools.opcache
            /\ a.state.version = acked'.version /\ a.state.redis = acked'.redis
            /\ a.pools.opcache = acked'.opcache /\ a.pools.children = acked'.children
            /\ a.state.redis = IF r.kind = "put" THEN r.redis ELSE b.state.redis
            /\ r.kind = "presets" => NginxOf(a) = NginxOf(b)
            /\ r.kind \in {"put", "purge"} /\ a.cache = b.cache => NginxOf(a) = NginxOf(b)
        BY <2>4, <3>1, <4>1, ChangeAgrees DEF Begun
      <4>3. t = Left(StepsOf(r, b, a))
        BY <1>1, <2>2, <3>3 DEF StateInv, CourseTrue
      <4>4. /\ served'.php = IF "php" \in t THEN a.pools ELSE b.pools
            /\ "nginx" \in t => served'.nginx = NginxOf(a)
            /\ "nginx" \notin t /\ ~pending => served'.nginx = NginxOf(b)
            /\ redis' = IF "external" \in t THEN r.redis ELSE b.state.redis
        BY <1>1, <2>7, <3>3, StepAhead
      <4>5. /\ "external" \in t => r.kind = "put"
            /\ r.kind = "put" /\ "external" \notin t => r.redis = r.seen.redis
            /\ "php" \notin t => a.pools = b.pools
            /\ "nginx" \notin t => r.kind \in {"put", "purge", "presets"}
            /\ "nginx" \notin t /\ r.kind # "presets" => a.cache = b.cache
        BY <1>1, <2>4, <4>3, WorkFields, CourseAhead
      <4> HIDE DEF t, a, b, r
      <4>6. served'.php = a.pools
        BY <4>4, <4>5
      <4>7. ~pending => served'.nginx = NginxOf(a)
        BY <4>2, <4>4, <4>5
      <4>8. a.state.redis = redis'
        BY <3>1, <4>2, <4>4, <4>5 DEF Begun, r, b
      <4> QED BY <1>1, <4>1, <4>2, <4>6, <4>7, <4>8 DEF Settled, Told
    <3> QED BY <1>1, <3>2, <3>3
  <2>8. Sound' <=> Sound
    BY <1>1 DEF Sound
  <2>9. pending' \in BOOLEAN /\ flaws' \in [undo : BOOLEAN, torn : BOOLEAN, stale : BOOLEAN]
    BY <1>1, <2>4 DEF SystemTyped
  <2> QED BY <1>1, <2>1, <2>3, <2>5, <2>6, <2>7, <2>8, <2>9, ReleaseKeeps
<1> QED BY <1>1, <1>2, <1>3

-----------------------------------------------------------------------------
(* What is left of the files where a write fails or a process stops.       *)
LEMMA PartOfFiles ==
    ASSUME StateInv, work # Vacant, work.todo[1] \in {"write", "restore"}, NEW n \in Nat
    PROVE  /\ Written(Order, n, Contents) \in Files
           /\ ~flaws.undo /\ ~flaws.stale => Apart(work.request, Written(Order, n, Contents), work.before)
<1>1. store \in Files /\ Contents \in Files
  BY WorkFields DEF StateInv, SystemTyped, Contents
<1>2. Written(Order, n, Contents) \in Files
  BY <1>1, WrittenFields
<1>3. ASSUME ~flaws.undo, ~flaws.stale
      PROVE  Apart(work.request, Written(Order, n, Contents), work.before)
  <2>1. CASE work.todo[1] = "write"
    <3>1. ~work.undoing /\ store = work.before
      BY <1>3, <2>1 DEF StateInv, CourseTrue, StoreTrue
    <3>2. Order = WriteOrder(work.request) /\ Contents = work.after
      BY <3>1 DEF Order, Contents
    <3>3. Apart(work.request, store, work.before)
      BY <3>1 DEF Apart
    <3> QED BY <1>1, <3>2, <3>3, WorkFields, WrittenPart
  <2>2. CASE work.todo[1] = "restore"
    <3>1. work.undoing /\ Apart(work.request, store, work.before)
      BY <1>3, <2>2 DEF StateInv, CourseTrue, StoreTrue
    <3>2. Order = RestoreOrder(work.request) /\ Contents = work.before
      BY <3>1 DEF Order, Contents
    <3> QED BY <1>1, <3>1, <3>2, WorkFields, WrittenPart
  <2> QED BY <2>1, <2>2
<1> QED BY <1>2, <1>3

LEMMA WholeApart ==
    ASSUME StateInv, work # Vacant, work.todo[1] \notin {"write", "restore"}, ~flaws.undo, ~flaws.stale
    PROVE  Apart(work.request, store, work.before)
<1>1. store \in {work.before, work.after}
  BY DEF StateInv, StoreTrue
<1> QED BY <1>1, WorkFields DEF Apart

LEMMA LeftoverFiles ==
    ASSUME StateInv, work # Vacant, NEW f \in Leftovers
    PROVE  f \in Files /\ (~flaws.undo /\ ~flaws.stale => Apart(work.request, f, work.before))
<1>1. CASE work.todo[1] \in {"write", "restore"}
  <2>1. Len(Order) \in Nat
    BY WorkFields DEF Order, RestoreOrder, WriteOrder
  <2>2. PICK n \in 0 .. Len(Order) : f = Written(Order, n, Contents)
    BY <1>1, WorkFields DEF Leftovers
  <2> QED BY <1>1, <2>1, <2>2, PartOfFiles
<1>2. CASE work.todo[1] \notin {"write", "restore"}
  <2>1. f = store
    BY <1>2, WorkFields DEF Leftovers
  <2> QED BY <1>2, <2>1, WholeApart DEF StateInv, SystemTyped
<1> QED BY <1>1, <1>2

(* A step fails, and what was tried is to be taken back.                   *)
LEMMA FailTyped ==
    ASSUME StateInv, FailsAt
    PROVE  /\ work # Vacant /\ store' \in Files /\ served' \in Loaded /\ redis' \in BOOLEAN
           /\ ~work.undoing /\ ~flaws.undo /\ ~flaws.stale => Apart(work.request, store', work.before)
           /\ \/ Takes(work.todo[1])
              \/ UNCHANGED <<served, redis>>
<1> DEFINE step == work.todo[1]
<1>1. work # Vacant /\ store \in Files /\ served \in Loaded /\ redis \in BOOLEAN
  BY DEF FailsAt, StateInv, SystemTyped
<1>2. Head(work.todo) = step
  BY <1>1, WorkFields
<1>3. CASE step \in {"write", "restore"}
  <2>1. Len(Order) \in Nat
    BY <1>1, WorkFields DEF Order, RestoreOrder, WriteOrder
  <2>2. UNCHANGED <<served, redis>> /\ \E n \in 0 .. Len(Order) - 1 : store' = Written(Order, n, Contents)
    BY <1>2, <1>3 DEF FailsAt
  <2>3. PICK n \in 0 .. Len(Order) - 1 : store' = Written(Order, n, Contents)
    BY <2>2
  <2>4. n \in Nat
    BY <2>1
  <2> QED BY <1>1, <1>3, <2>2, <2>3, <2>4, PartOfFiles
<1>4. CASE step \notin {"write", "restore"}
  <2>1. Takes(step) \/ UNCHANGED <<store, served, redis>>
    BY <1>2, <1>4 DEF FailsAt
  <2>2. ~flaws.undo /\ ~flaws.stale => Apart(work.request, store, work.before)
    BY <1>1, <1>4, WholeApart
  <2>3. CASE Takes(step)
    <3>1. store' = store /\ served' \in Loaded /\ redis' \in BOOLEAN
      BY <1>1, <1>4, <2>3, StepTyped
    <3> QED BY <1>1, <2>2, <2>3, <3>1
  <2>4. CASE UNCHANGED <<store, served, redis>>
    BY <1>1, <2>2, <2>4
  <2> QED BY <2>1, <2>3, <2>4
<1> QED BY <1>3, <1>4

LEMMA TurnsBack ==
    ASSUME StateInv, FailsAt, ~work.undoing
    PROVE  StateInv'
<1> DEFINE t == work.tried \cup {work.todo[1]}
           u == Undo(work.request, t)
<1>1. /\ work # Vacant /\ store' \in Files /\ served' \in Loaded /\ redis' \in BOOLEAN
      /\ ~flaws.undo /\ ~flaws.stale => Apart(work.request, store', work.before)
      /\ Takes(work.todo[1]) \/ UNCHANGED <<served, redis>>
  BY FailTyped
<1>2. /\ work' = [work EXCEPT !.undoing = TRUE, !.tried = t, !.todo = u]
      /\ UNCHANGED <<asked, flaws, pending, acked>>
  BY <1>1, WorkFields DEF FailsAt
<1>3. t \in SUBSET Step /\ work.request \in Requests
  BY <1>1, WorkFields, LeftLater
<1>4. /\ t \subseteq Left(StepsOf(work.request, work.before, work.after))
      /\ "external" \in t => work.request.kind = "put"
      /\ work.request.kind = "migrate" /\ "validate" \notin t => t \cap {"php", "nginx"} = {}
  <2>1. work.todo[1] \in Left(work.todo)
    BY <1>1, WorkFields
  <2> QED BY <1>1, <2>1 DEF StateInv, CourseTrue
<1>5. work.request.kind = "presets" => "nginx" \notin t
  BY <1>1, <1>3, <1>4, WorkFields, CourseAhead
<1> HIDE DEF t
<1>6. /\ Course(u, "restore")
      /\ "external" \in Left(u) => "external" \in t
      /\ "external" \in t /\ work.request.kind = "put" => "external" \in Left(u)
      /\ "php" \in t /\ (work.request.kind = "migrate" => "validate" \in t) => "php" \in Left(u)
      /\ "nginx" \in t /\ work.request.kind # "presets" /\ (work.request.kind = "migrate" => "validate" \in t)
           => "nginx" \in Left(u)
  BY <1>3, CourseBack
<1> HIDE DEF u
<1>7. /\ work' \in Works /\ work' # Vacant /\ work'.by = work.by /\ work'.request = work.request
      /\ work'.before = work.before /\ work'.after = work.after /\ work'.undoing
      /\ work'.todo = u /\ work'.tried = t
  <2>1. u \in Seq(Step)
    BY <1>6 DEF Course
  <2>2. work' \in Works
    BY <1>1, <1>2, <1>3, <2>1, WorkFields DEF Works
  <2>3. work' # Vacant
    BY <2>2, VacantApart
  <2> QED BY <1>1, <1>2, <2>2, <2>3, WorkFields DEF Works
<1>8. SystemTyped'
  BY <1>1, <1>2 DEF StateInv, SystemTyped
<1>9. WorkTyped' /\ ByMigrator'
  BY <1>1, <1>2, <1>7 DEF WorkTyped, StateInv, ByMigrator
<1>10. u[1] = "restore"
  BY <1>6 DEF Course
<1>11. CourseTrue'
  <2>1. work'.after = After(work'.request, work'.before)
    BY <1>1, <1>7 DEF StateInv, CourseTrue
  <2>2. "external" \in t \cup Left(u) => work.request.kind = "put"
    BY <1>4, <1>6
  <2> QED BY <1>6, <1>7, <1>10, <2>1, <2>2 DEF CourseTrue
<1>12. StoreTrue'
  BY <1>1, <1>2, <1>7, <1>10 DEF StateInv, StoreTrue
<1>13. ServedTrue'
  <2> SUFFICES ASSUME Sound' PROVE Begun' /\ Back(Left(work.todo))'
    BY <1>7 DEF ServedTrue
  <2>1. Sound
    BY <1>2 DEF Sound
  <2>2. Begun'
    BY <1>1, <1>2, <1>7, <2>1 DEF StateInv, ServedTrue, Begun, Told
  <2>3. /\ "php" \notin t => served'.php = work.before.pools
        /\ "nginx" \notin t /\ ~pending => served'.nginx = NginxOf(work.before)
        /\ "external" \notin t => redis' = work.before.state.redis
    <3>1. CASE Takes(work.todo[1])
      BY <1>1, <2>1, <3>1, StepAhead DEF t
    <3>2. CASE UNCHANGED <<served, redis>>
      <4>1. Ahead(work.tried)
        BY <1>1, <2>1 DEF StateInv, ServedTrue
      <4> QED BY <3>2, <4>1 DEF Ahead, t
    <3> QED BY <1>1, <3>1, <3>2
  <2>4. /\ "php" \notin Left(u) => "php" \notin t
        /\ "nginx" \notin Left(u) => "nginx" \notin t
        /\ "external" \notin Left(u) => "external" \notin t
    BY <1>4, <1>5, <1>6
  <2>5. Back(Left(work.todo))'
    BY <1>2, <1>7, <2>3, <2>4 DEF Back
  <2> QED BY <2>2, <2>5
<1> QED BY <1>8, <1>9, <1>11, <1>12, <1>13 DEF StateInv

LEMMA FailsKeeps == ASSUME StateInv, FailsAt PROVE StateInv'
<1>1. CASE ~work.undoing
  BY <1>1, TurnsBack
<1>2. CASE work.undoing
  <2>1. Releases /\ flaws' = [flaws EXCEPT !.undo = TRUE] /\ UNCHANGED <<pending, acked>>
    BY <1>2 DEF FailsAt
  <2>2. flaws' \in [undo : BOOLEAN, torn : BOOLEAN, stale : BOOLEAN] /\ flaws'.undo /\ ~Sound'
    BY <2>1 DEF StateInv, SystemTyped, Sound
  <2>3. /\ pending' \in BOOLEAN
        /\ acked' \in [version : Nat, redis : BOOLEAN, opcache : BOOLEAN, children : Presets]
    BY <2>1 DEF StateInv, SystemTyped
  <2> QED BY <2>1, <2>2, <2>3, FailTyped, ReleaseKeeps
<1> QED BY <1>1, <1>2

-----------------------------------------------------------------------------
(* The boot renders the version; where the cache map has it, it changes    *)
(* nothing.                                                                *)
LEMMA BootFields ==
    ASSUME NEW f \in Files
    PROVE  /\ Boots(f) \in Files /\ Boots(f).cache = Boots(f).state.version
           /\ f.cache = f.state.version => Boots(f) = f
<1>1. Boots(f) = [f EXCEPT !.state = f.state, !.cache = f.state.version]
  BY DEF Boots, Updated, Rendered
<1>2. f.state \in Switches /\ f.state.version \in Nat
  BY DEF Files, Switches
<1>3. /\ Boots(f) \in Files /\ Boots(f).state = f.state /\ Boots(f).cache = f.state.version
      /\ Boots(f).map = f.map /\ Boots(f).pools = f.pools /\ Boots(f).gate = f.gate
      /\ Boots(f).presets = f.presets
  BY <1>1, <1>2 DEF Files
<1> QED BY <1>3, FilesEqual

LEMMA PurgedFields ==
    ASSUME NEW f \in Files
    PROVE  LET u == Updated(f, Bumped(f.state)) IN
           /\ u \in Files /\ u.pools = f.pools /\ u.state.version = f.state.version + 1
           /\ u.cache = u.state.version /\ u.state.redis = f.state.redis
           /\ u.state.opcache = f.state.opcache
<1> DEFINE s == Bumped(f.state)
<1>1. /\ s \in Switches /\ s.version = f.state.version + 1 /\ s.redis = f.state.redis
      /\ s.opcache = f.state.opcache
  BY DEF Bumped, Files, Switches
<1> HIDE DEF s
<1>2. Updated(f, s) = [f EXCEPT !.state = s, !.cache = s.version]
  BY DEF Updated, Rendered
<1>3. s.version \in Nat
  BY <1>1 DEF Switches
<1>4. /\ Updated(f, s) \in Files /\ Updated(f, s).pools = f.pools /\ Updated(f, s).state = s
      /\ Updated(f, s).cache = s.version
  BY <1>1, <1>2, <1>3 DEF Files
<1> QED BY <1>1, <1>4 DEF s

(* A change without the lock leaves the course of a transaction, and makes *)
(* it stale.                                                               *)
LEMMA UnderKeeps ==
    ASSUME StateInv, UNCHANGED <<work, redis, asked>>, store' \in Files, served' \in Loaded,
           pending' \in BOOLEAN,
           acked' \in [version : Nat, redis : BOOLEAN, opcache : BOOLEAN, children : Presets], Under,
           ~flaws.undo /\ ~flaws.stale /\ work = Vacant => store'.cache = store'.state.version,
           Sound /\ work = Vacant => Settled'
    PROVE  StateInv'
<1>1. /\ flaws' \in [undo : BOOLEAN, torn : BOOLEAN, stale : BOOLEAN] /\ flaws'.undo = flaws.undo
      /\ flaws'.torn = flaws.torn /\ (~flaws'.stale => ~flaws.stale /\ work = Vacant)
  BY DEF StateInv, SystemTyped, Under
<1>2. SystemTyped' /\ WorkTyped' /\ ByMigrator' /\ CourseTrue'
  BY <1>1 DEF StateInv, SystemTyped, WorkTyped, ByMigrator, CourseTrue
<1>3. StoreTrue' /\ ServedTrue'
  BY <1>1 DEF StoreTrue, ServedTrue, Sound
<1> QED BY <1>2, <1>3 DEF StateInv

LEMMA DirectKeeps ==
    ASSUME StateInv, PurgesDirectly \/ ReloadsDirectly \/ SavesPresets
    PROVE  StateInv'
<1>1. /\ store \in Files /\ served \in Loaded /\ pending \in BOOLEAN
      /\ acked \in [version : Nat, redis : BOOLEAN, opcache : BOOLEAN, children : Presets]
      /\ flaws \in [undo : BOOLEAN, torn : BOOLEAN, stale : BOOLEAN]
  BY DEF StateInv, SystemTyped
<1>2. ~flaws.undo /\ ~flaws.stale /\ work = Vacant => store.cache = store.state.version
  BY DEF StateInv, StoreTrue
<1>3. Sound /\ work = Vacant => Settled
  BY DEF StateInv, ServedTrue
<1>4. CASE PurgesDirectly
  <2>1. /\ store' = Updated(store, Bumped(store.state)) /\ pending' /\ pending' \in BOOLEAN /\ Under
        /\ acked' = [acked EXCEPT !.version = store.state.version + 1]
        /\ UNCHANGED <<served, redis, asked, work>>
    BY <1>4 DEF PurgesDirectly
  <2>2. /\ store' \in Files /\ store'.pools = store.pools
        /\ store'.state.version = store.state.version + 1
        /\ store'.cache = store'.state.version /\ store'.state.redis = store.state.redis
        /\ store'.state.opcache = store.state.opcache
    BY <1>1, <2>1, PurgedFields
  <2>3. store.state.version \in Nat
    BY <1>1 DEF Files, Switches
  <2>4. /\ acked' \in [version : Nat, redis : BOOLEAN, opcache : BOOLEAN, children : Presets]
        /\ acked'.version = store.state.version + 1 /\ acked'.redis = acked.redis
        /\ acked'.opcache = acked.opcache /\ acked'.children = acked.children
    BY <1>1, <2>1, <2>3
  <2>5. Sound /\ work = Vacant => Settled'
    BY <1>3, <2>1, <2>2, <2>4 DEF Settled, Told
  <2> QED BY <1>1, <2>1, <2>2, <2>4, <2>5, UnderKeeps
<1>5. CASE SavesPresets
  <2>1. /\ Under /\ UNCHANGED <<served, redis, asked, work, pending, acked>>
        /\ \E v \in Presets : store' = [store EXCEPT !.presets = v]
    BY <1>5 DEF SavesPresets
  <2>2. /\ store' \in Files /\ store'.map = store.map /\ store'.gate = store.gate
        /\ store'.state = store.state /\ store'.cache = store.cache /\ store'.pools = store.pools
    BY <1>1, <2>1 DEF Files
  <2>3. Sound /\ work = Vacant => Settled'
    BY <1>3, <2>1, <2>2 DEF Settled, Told, NginxOf
  <2> QED BY <1>1, <1>2, <2>1, <2>2, <2>3, UnderKeeps
<1>6. CASE ReloadsDirectly
  <2>1. pending /\ ~pending' /\ pending' \in BOOLEAN /\ UNCHANGED <<store, redis, asked, work, acked>>
    BY <1>6 DEF ReloadsDirectly
  <2>2. CASE served' = [served EXCEPT !.nginx = NginxOf(store)] /\ Under
    <3>1. NginxOf(store) \in [map : {"php", "none"}, gate : BOOLEAN, cache : Nat]
      BY <1>1, NginxTyped
    <3>2. served' \in Loaded /\ served'.php = served.php /\ served'.nginx = NginxOf(store)
      BY <1>1, <2>2, <3>1 DEF Loaded
    <3>3. Sound /\ work = Vacant => Settled'
      BY <1>3, <2>1, <3>2 DEF Settled, Told
    <3> QED BY <1>1, <1>2, <2>1, <2>2, <3>2, <3>3, UnderKeeps
  <2>3. CASE flaws' = [flaws EXCEPT !.torn = TRUE] /\ UNCHANGED served
    <3>1. /\ flaws' \in [undo : BOOLEAN, torn : BOOLEAN, stale : BOOLEAN] /\ flaws'.torn
          /\ flaws'.undo = flaws.undo /\ flaws'.stale = flaws.stale
      BY <1>1, <2>3
    <3>2. SystemTyped' /\ WorkTyped' /\ ByMigrator' /\ CourseTrue'
      BY <2>1, <2>3, <3>1 DEF StateInv, SystemTyped, WorkTyped, ByMigrator, CourseTrue
    <3>3. StoreTrue' /\ ServedTrue'
      BY <2>1, <3>1 DEF StateInv, StoreTrue, ServedTrue, Sound
    <3> QED BY <3>2, <3>3 DEF StateInv
  <2> QED BY <1>6, <2>2, <2>3 DEF ReloadsDirectly
<1> QED BY <1>4, <1>5, <1>6

LEMMA PanelStopKeeps == ASSUME StateInv, PanelStops PROVE StateInv'
<1>1. /\ store \in Files /\ asked \in [Requesters \cup {Migrator} -> Requests \cup {Nothing}]
      /\ served \in Loaded /\ redis \in BOOLEAN /\ pending \in BOOLEAN
      /\ acked \in [version : Nat, redis : BOOLEAN, opcache : BOOLEAN, children : Presets]
      /\ flaws \in [undo : BOOLEAN, torn : BOOLEAN, stale : BOOLEAN]
  BY DEF StateInv, SystemTyped
<1>2. /\ asked' = [p \in DOMAIN asked |-> IF p = Migrator THEN asked[p] ELSE Nothing]
      /\ pending' = FALSE /\ UNCHANGED <<served, redis, acked>>
  BY DEF PanelStops
<1>3. /\ asked' \in [Requesters \cup {Migrator} -> Requests \cup {Nothing}]
      /\ asked'[Migrator] = asked[Migrator]
  BY <1>1, <1>2
<1>4. CASE work # Vacant /\ work.by # Migrator
  <2>1. work' = Vacant /\ flaws' = [flaws EXCEPT !.torn = TRUE] /\ \E f \in Leftovers : store' = Boots(f)
    BY <1>4 DEF PanelStops
  <2>2. PICK f \in Leftovers : store' = Boots(f)
    BY <2>1
  <2>3. store' \in Files /\ store'.cache = store'.state.version
    BY <1>4, <2>2, LeftoverFiles, BootFields
  <2>4. flaws' \in [undo : BOOLEAN, torn : BOOLEAN, stale : BOOLEAN] /\ flaws'.torn
    BY <1>1, <2>1
  <2>5. SystemTyped' /\ WorkTyped' /\ ByMigrator' /\ CourseTrue'
    BY <1>1, <1>2, <1>3, <2>1, <2>3, <2>4 DEF StateInv, SystemTyped, WorkTyped, ByMigrator, CourseTrue
  <2>6. StoreTrue' /\ ServedTrue'
    BY <2>1, <2>3, <2>4 DEF StoreTrue, ServedTrue, Sound
  <2> QED BY <2>5, <2>6 DEF StateInv
<1>5. CASE ~(work # Vacant /\ work.by # Migrator)
  <2>1. work' = work /\ store' = Boots(store) /\ flaws' = [flaws EXCEPT !.torn = @ \/ pending]
    BY <1>5 DEF PanelStops
  <2>2. /\ flaws' \in [undo : BOOLEAN, torn : BOOLEAN, stale : BOOLEAN] /\ flaws'.undo = flaws.undo
        /\ flaws'.stale = flaws.stale /\ (~flaws'.torn => ~flaws.torn /\ ~pending)
    BY <1>1, <2>1
  <2>3. store' \in Files /\ (store.cache = store.state.version => store' = store)
    BY <1>1, <2>1, BootFields
  <2>4. SystemTyped' /\ WorkTyped' /\ ByMigrator' /\ CourseTrue'
    BY <1>1, <1>2, <1>3, <2>1, <2>2, <2>3 DEF StateInv, SystemTyped, WorkTyped, ByMigrator, CourseTrue
  <2>5. ASSUME ~flaws.undo, ~flaws.stale
        PROVE  store' = store
    <3>1. CASE work = Vacant
      BY <2>3, <2>5, <3>1 DEF StateInv, StoreTrue
    <3>2. CASE work # Vacant
      <4>1. work.request.kind = "migrate"
        BY <1>5, <3>2 DEF StateInv, ByMigrator
      <4>2. work.before.cache = work.before.state.version
        BY <2>5, <3>2 DEF StateInv, StoreTrue
      <4>3. Apart(work.request, store, work.before)
        <5>1. CASE work.todo[1] = "restore"
          BY <2>5, <3>2, <5>1 DEF StateInv, StoreTrue
        <5>2. CASE work.todo[1] # "restore"
          <6>1. store \in {work.before, work.after}
            BY <2>5, <3>2, <5>2 DEF StateInv, StoreTrue
          <6> QED BY <3>2, <6>1, WorkFields DEF Apart
        <5> QED BY <5>1, <5>2
      <4> QED BY <2>3, <4>1, <4>2, <4>3 DEF Apart
    <3> QED BY <3>1, <3>2
  <2>6. StoreTrue'
    BY <2>1, <2>2, <2>5 DEF StateInv, StoreTrue
  <2>7. ServedTrue'
    <3> SUFFICES ASSUME Sound' PROVE ServedTrue'
      BY DEF ServedTrue
    <3>1. Sound /\ ~pending /\ store' = store
      BY <2>2, <2>5 DEF Sound
    <3>2. ~pending'
      BY <1>2
    <3> QED BY <1>2, <2>1, <3>1, <3>2 DEF StateInv, ServedTrue, Settled, Told, Begun, Ahead, Back
  <2> QED BY <2>4, <2>6, <2>7 DEF StateInv
<1> QED BY <1>4, <1>5

LEMMA MigratorStopKeeps == ASSUME StateInv, MigratorStops PROVE StateInv'
<1>1. /\ work # Vacant /\ work.by = Migrator /\ Releases /\ flaws' = [flaws EXCEPT !.torn = TRUE]
      /\ UNCHANGED <<served, redis, pending, acked>> /\ \E f \in Leftovers : store' = f
  BY DEF MigratorStops
<1>2. work.request.kind = "migrate"
  BY <1>1 DEF StateInv, ByMigrator
<1>3. /\ flaws' \in [undo : BOOLEAN, torn : BOOLEAN, stale : BOOLEAN] /\ flaws'.torn
      /\ flaws'.undo = flaws.undo /\ flaws'.stale = flaws.stale
  BY <1>1 DEF StateInv, SystemTyped
<1>4. store' \in Files /\ (~flaws.undo /\ ~flaws.stale => Apart(work.request, store', work.before))
  BY <1>1, LeftoverFiles
<1>5. ~flaws.undo /\ ~flaws.stale => store'.cache = store'.state.version
  BY <1>1, <1>2, <1>4 DEF StateInv, StoreTrue, Apart
<1>6. /\ served' \in Loaded /\ redis' \in BOOLEAN /\ pending' \in BOOLEAN
      /\ acked' \in [version : Nat, redis : BOOLEAN, opcache : BOOLEAN, children : Presets]
  BY <1>1 DEF StateInv, SystemTyped
<1>7. ~Sound'
  BY <1>3 DEF Sound
<1> QED BY <1>1, <1>3, <1>4, <1>5, <1>6, <1>7, ReleaseKeeps

LEMMA StateKept == StateInv /\ [StateNext]_stateVars => StateInv'
<1> SUFFICES ASSUME StateInv, [StateNext]_stateVars PROVE StateInv'
  OBVIOUS
<1>1. CASE \E p \in Requesters : Asks(p)
  BY <1>1, AskingKeeps
<1>2. CASE Previews
  BY <1>2, AskingKeeps
<1>3. CASE \E p \in Requesters \cup {Migrator} : TakesTurn(p)
  BY <1>3, TurnKeeps
<1>4. CASE \E p \in Requesters \cup {Migrator} : Refuses(p)
  BY <1>4, AskingKeeps
<1>5. CASE Succeeds
  BY <1>5, SucceedsKeeps
<1>6. CASE FailsAt
  BY <1>6, FailsKeeps
<1>7. CASE PurgesDirectly \/ ReloadsDirectly \/ SavesPresets
  BY <1>7, DirectKeeps
<1>8. CASE PanelStops
  BY <1>8, PanelStopKeeps
<1>9. CASE MigratorStops
  BY <1>9, MigratorStopKeeps
<1>10. CASE Rests \/ UNCHANGED stateVars
  BY <1>10, SameState DEF Rests, stateVars, StateInv, SystemTyped, ByMigrator
<1> QED
  BY <1>1, <1>2, <1>3, <1>4, <1>5, <1>6, <1>7, <1>8, <1>9, <1>10 DEF StateNext

LEMMA StateInvariant == StateSpec => []StateInv
<1> QED BY StateInitially, StateKept, PTL DEF StateSpec

(* Between transactions, the switches of a site, its cache map, its pool,  *)
(* what php-fpm and nginx have loaded and the object cache of the website  *)
(* say the same, however many of the transactions' steps failed and were   *)
(* rolled back: lib/site-state-transaction.js, lib/pool-preset-apply.js    *)
(* and lib/static-route-migration.js take turns on the same files.         *)
THEOREM ChangesAgree == StateSpec => []Agreement
<1>1. StateInv => Agreement
  BY DEF StateInv, StoreTrue, ServedTrue, Settled, Agreement, Quiet, Rendered, Sound
<1> QED BY <1>1, StateInvariant, PTL

(* What a caller was told is applied, a version, a switch or a profile,    *)
(* stays in the files until another caller changes it: neither the         *)
(* rollback of a later transaction nor one that was planned from older     *)
(* files takes it back.                                                    *)
THEOREM AppliedKept == StateSpec => []AppliedStays
<1>1. StateInv => AppliedStays
  BY DEF StateInv, ServedTrue, Settled, Told, AppliedStays, Quiet
<1> QED BY <1>1, StateInvariant, PTL
-----------------------------------------------------------------------------
(* ImportUploads: the bundle an import begins with.                        *)

(* The first n units of the file.                                          *)
Part(n) == [i \in 1..n |-> i]
Parts == {Part(n) : n \in 0..Length}

Uploads == [partial : {Missing} \cup Parts, stored : {Missing, File}, recorded : BOOLEAN, aged : BOOLEAN]
Chunks == [start : Nat, end : Nat, wrote : Nat, to : {"partial", "none"}, awaited : BOOLEAN]

(* A request has written what lies between its start and the end of the    *)
(* partial file, unless that was removed under it.                         *)
Appending(r) ==
    /\ r \in Chunks
    /\ r.start + r.wrote <= r.end /\ r.end <= Length
    /\ upload.partial = IF r.to = "partial" THEN Part(r.start + r.wrote) ELSE Missing

UploadInv ==
    /\ upload \in Uploads /\ staged \in {Missing, File}
    /\ \A r \in requests : Appending(r) /\ requests = {r}

LEMMA PartFacts ==
    ASSUME NEW n \in Nat
    PROVE  /\ Part(n) \in Seq(Nat) /\ Len(Part(n)) = n /\ Part(n) # Missing
           /\ Append(Part(n), n + 1) = Part(n + 1)
           /\ \A m \in 0..n : Cut(Part(n), m) = Part(m)
           /\ Size(Part(n)) = n /\ Content(Part(n)) = Part(n)
<1>1. Part(n) \in Seq(Nat) /\ Len(Part(n)) = n
  BY DEF Part
<1>2. Part(n) # Missing
  <2>1. CASE n = 1
    <3>1. Part(n)[1] = 1
      BY <2>1 DEF Part
    <3> QED BY <3>1 DEF Missing
  <2>2. CASE n # 1
    <3>1. Len(Missing) = 1
      BY DEF Missing
    <3> QED BY <1>1, <2>2, <3>1
  <2> QED BY <2>1, <2>2
<1>3. Append(Part(n), n + 1) = Part(n + 1)
  BY <1>1 DEF Part
<1>4. ASSUME NEW m \in 0..n PROVE Cut(Part(n), m) = Part(m)
  <2>1. Cut(Part(n), m) = [i \in 1..m |-> IF i <= n THEN Part(n)[i] ELSE 0]
    BY <1>1, <1>2 DEF Cut
  <2>2. \A i \in 1..m : i <= n /\ Part(n)[i] = i
    BY DEF Part
  <2> QED BY <2>1, <2>2 DEF Part
<1>5. Size(Part(n)) = n /\ Content(Part(n)) = Part(n)
  BY <1>1, <1>2 DEF Size, Content
<1> QED BY <1>1, <1>2, <1>3, <1>4, <1>5

LEMMA FileIsPart == Length \in Nat /\ File = Part(Length) /\ Part(0) = <<>> /\ Part(0) \in Parts /\ File # Missing
<1>1. Length \in Nat
  BY ImportUploadsAssumption
<1>2. File = Part(Length) /\ Part(0) = <<>>
  BY DEF File, Part
<1> QED BY <1>1, <1>2, PartFacts DEF Parts

LEMMA UnlinkedOne ==
    ASSUME UploadInv, upload'.partial = Missing, upload' \in Uploads, staged' \in {Missing, File},
           requests' = Unlinked(requests, {"partial", "stored"})
    PROVE  UploadInv'
<1> SUFFICES ASSUME NEW q \in requests' PROVE Appending(q)' /\ requests' = {q}
  BY DEF UploadInv
<1>1. PICK r \in requests : q = [r EXCEPT !.to = IF @ \in {"partial", "stored"} THEN "none" ELSE @]
  BY DEF Unlinked
<1>2. requests = {r} /\ Appending(r) /\ r \in Chunks
  BY DEF UploadInv, Appending
<1>3. requests' = {q}
  BY <1>1, <1>2 DEF Unlinked
<1>4. q \in Chunks /\ q.start = r.start /\ q.end = r.end /\ q.wrote = r.wrote /\ q.to = "none"
  BY <1>1, <1>2 DEF Chunks
<1> QED BY <1>2, <1>3, <1>4 DEF Appending

LEMMA SameUploads ==
    ASSUME UploadInv, upload'.partial = upload.partial, upload' \in Uploads, UNCHANGED requests,
           staged' \in {Missing, File}
    PROVE  UploadInv'
  BY DEF UploadInv, Appending

LEMMA OneUploads ==
    ASSUME NEW q \in Chunks, requests' = {q}, q.start + q.wrote <= q.end, q.end <= Length,
           upload'.partial = IF q.to = "partial" THEN Part(q.start + q.wrote) ELSE Missing,
           upload' \in Uploads, staged' \in {Missing, File}
    PROVE  UploadInv'
<1>1. Appending(q)'
  BY DEF Appending
<1> QED BY <1>1 DEF UploadInv

LEMMA NobodyUploads ==
    ASSUME upload' \in Uploads, staged' \in {Missing, File}, requests' = {}
    PROVE  UploadInv'
  BY DEF UploadInv

LEMMA ClearedFits == ASSUME UploadInv, NEW start PROVE Cleared(upload, start) \in Uploads
  BY DEF UploadInv, Cleared, Uploads

LEMMA BeginsKeeps == ASSUME UploadInv, ~Overlap, Begins PROVE UploadInv'
<1>1. PICK received \in 0..2 * Length :
        /\ Offer(received) /\ received # End /\ Accepts(received)
        /\ upload' = LET u == Cleared(upload, client.at)
                     IN  [u EXCEPT !.partial = Content(@), !.aged = @ /\ u.partial # Missing]
        /\ requests' = (IF client.at = 0 THEN Unlinked(requests, {"partial", "stored"}) ELSE requests)
                       \cup {[start |-> client.at, end |-> End, wrote |-> 0, to |-> "partial", awaited |-> TRUE]}
        /\ UNCHANGED staged
  BY DEF Begins
<1> DEFINE at == client.at
           u == Cleared(upload, at)
           r == [start |-> at, end |-> End, wrote |-> 0, to |-> "partial", awaited |-> TRUE]
<1>2. at = received /\ at \in Nat /\ Length \in Nat /\ Chunk \in Nat /\ requests = {} /\ Size(u.partial) = at
  <2>1. Length \in Nat /\ Chunk \in Nat
    BY ImportUploadsAssumption
  <2> QED BY <1>1, <2>1 DEF Offer, Accepts
<1>3. requests' = {r}
  <2>1. Unlinked({}, {"partial", "stored"}) = {}
    BY DEF Unlinked
  <2> QED BY <1>1, <1>2, <2>1
<1>4. u \in Uploads
  BY ClearedFits
<1>5. at <= Length /\ Content(u.partial) = Part(at)
  <2>1. CASE u.partial = Missing
    BY <1>2, <2>1, FileIsPart DEF Size, Content
  <2>2. CASE u.partial # Missing
    <3>1. PICK n \in 0..Length : u.partial = Part(n)
      BY <1>4, <2>2 DEF Uploads, Parts
    <3> QED BY <1>2, <3>1, PartFacts
  <2> QED BY <2>1, <2>2
<1>6. End \in Nat /\ at <= End /\ End <= Length
  BY <1>2, <1>5 DEF End
<1>7. Part(at) \in Parts
  BY <1>2, <1>5 DEF Parts
<1>8. upload' \in Uploads /\ upload'.partial = Part(at)
  <2> HIDE DEF u
  <2>1. upload' = [u EXCEPT !.partial = Content(u.partial), !.aged = u.aged /\ u.partial # Missing]
    BY <1>1 DEF u
  <2>2. (u.aged /\ u.partial # Missing) \in BOOLEAN
    OBVIOUS
  <2> QED BY <1>4, <1>5, <1>7, <2>1, <2>2 DEF Uploads
<1>9. r \in Chunks /\ r.start + r.wrote = at /\ r.end = End /\ r.to = "partial"
  BY <1>2, <1>6 DEF Chunks
<1>10. PICK q : q = r
  OBVIOUS
<1> HIDE DEF r, u
<1>11. /\ q \in Chunks /\ requests' = {q} /\ q.start + q.wrote <= q.end /\ q.end <= Length
       /\ upload'.partial = IF q.to = "partial" THEN Part(q.start + q.wrote) ELSE Missing
  BY <1>3, <1>6, <1>8, <1>9, <1>10
<1>12. staged' \in {Missing, File}
  BY <1>1 DEF UploadInv
<1> QED BY <1>8, <1>11, <1>12, OneUploads

LEMMA AppendsKeeps == ASSUME UploadInv, NEW r \in requests, Appends(r) PROVE UploadInv'
<1>1. Appending(r) /\ requests = {r} /\ r \in Chunks /\ upload \in Uploads /\ staged \in {Missing, File}
  BY DEF UploadInv, Appending
<1>2. PICK n : n = r.start + r.wrote
  OBVIOUS
<1>3. n \in Nat /\ n + 1 \in Nat /\ n < r.end /\ n < Length /\ r.end <= Length
  <2>1. r.start \in Nat /\ r.wrote \in Nat /\ r.end \in Nat /\ Length \in Nat
    BY <1>1, FileIsPart DEF Chunks
  <2>2. r.start + r.wrote <= r.end /\ r.end <= Length /\ r.start + r.wrote # r.end
    BY <1>1 DEF Appends, Received, Appending
  <2> QED BY <1>2, <2>1, <2>2
<1>4. PICK q : q = [r EXCEPT !.wrote = @ + 1]
  OBVIOUS
<1>5. q \in Chunks /\ q.start + q.wrote = n + 1 /\ q.end = r.end /\ q.to = r.to
  <2>1. q \in Chunks /\ q.start = r.start /\ q.wrote = r.wrote + 1 /\ q.end = r.end /\ q.to = r.to
    BY <1>1, <1>4 DEF Chunks
  <2>2. r.start \in Nat /\ r.wrote \in Nat
    BY <1>1 DEF Chunks
  <2> QED BY <1>2, <2>1, <2>2
<1>6. requests' = {q} /\ staged' \in {Missing, File}
  BY <1>1, <1>4 DEF Appends
<1>7. upload' \in Uploads /\ upload'.partial = IF q.to = "partial" THEN Part(q.start + q.wrote) ELSE Missing
  <2>1. CASE r.to = "none"
    BY <1>1, <1>5, <2>1 DEF Appends, Appending
  <2>2. CASE r.to = "partial"
    <3>1. upload.partial = Part(n)
      BY <1>1, <1>2, <2>2 DEF Appending
    <3>2. upload' = [upload EXCEPT !.partial = Append(upload.partial, File[n + 1])]
      BY <1>2, <2>2 DEF Appends
    <3>3. File[n + 1] = n + 1
      <4>1. n + 1 \in 1..Length
        BY <1>3, FileIsPart
      <4> QED BY <4>1 DEF File
    <3>4. Append(Part(n), n + 1) = Part(n + 1)
      BY <1>3, PartFacts
    <3>5. Part(n + 1) \in Parts
      <4>1. n + 1 \in 0..Length
        BY <1>3, FileIsPart
      <4> QED BY <4>1 DEF Parts
    <3>6. upload' \in Uploads /\ upload'.partial = Part(n + 1)
      BY <1>1, <3>1, <3>2, <3>3, <3>4, <3>5 DEF Uploads
    <3> QED BY <1>5, <2>2, <3>6
  <2>3. r.to \in {"partial", "none"}
    BY <1>1 DEF Chunks
  <2> QED BY <2>1, <2>2, <2>3
<1>8. q.start + q.wrote <= q.end /\ q.end <= Length
  <2>1. r.end \in Nat /\ Length \in Nat
    BY <1>1, FileIsPart DEF Chunks
  <2> QED BY <1>3, <1>5, <2>1
<1> QED BY <1>5, <1>6, <1>7, <1>8, OneUploads

LEMMA BreaksKeeps == ASSUME UploadInv, ~Overlap, NEW r \in requests, Breaks(r) PROVE UploadInv'
<1>1. Appending(r) /\ requests = {r} /\ r \in Chunks /\ upload \in Uploads /\ staged \in {Missing, File}
  BY DEF UploadInv, Appending
<1>2. upload' = [upload EXCEPT !.partial = CutsBack(r)] /\ requests' = requests \ {r} /\ UNCHANGED staged
  BY DEF Breaks
<1>3. CutsBack(r) \in {Missing} \cup Parts
  <2>1. r.start \in Nat /\ r.wrote \in Nat /\ r.end \in Nat /\ Length \in Nat
    BY <1>1, FileIsPart DEF Chunks
  <2>2. r.start + r.wrote \in Nat /\ r.start \in 0..(r.start + r.wrote) /\ r.start \in 0..Length
    BY <1>1, <2>1 DEF Appending
  <2>3. CASE r.to = "partial"
    <3>1. upload.partial = Part(r.start + r.wrote)
      BY <1>1, <2>3 DEF Appending
    <3>2. CutsBack(r) = Part(r.start)
      <4>1. \A n \in Nat : \A m \in 0..n : Cut(Part(n), m) = Part(m)
        BY PartFacts
      <4> QED BY <2>2, <3>1, <4>1 DEF CutsBack
    <3> QED BY <2>2, <3>2 DEF Parts
  <2>4. CASE r.to # "partial"
    BY <1>1, <2>4 DEF Appending, CutsBack, Cut
  <2> QED BY <2>3, <2>4
<1>4. upload' \in Uploads
  BY <1>1, <1>2, <1>3 DEF Uploads
<1> QED BY <1>1, <1>2, <1>4, NobodyUploads

(* What is renamed is the whole file.                                      *)
LEMMA RenamedWhole ==
    ASSUME UploadInv, NEW r \in requests, Received(r), r.end = Length, upload.partial # Missing
    PROVE  Renamed(upload) \in Uploads
<1>1. Appending(r) /\ r \in Chunks /\ upload \in Uploads
  BY DEF UploadInv, Appending
<1>2. upload.partial = File
  BY <1>1, FileIsPart DEF Appending, Received
<1> QED BY <1>1, <1>2 DEF Renamed, Uploads

LEMMA CompletesKeeps == ASSUME UploadInv, NEW r \in requests, Completes(r) PROVE UploadInv'
<1>1. requests = {r} /\ upload \in Uploads /\ staged \in {Missing, File}
  BY DEF UploadInv
<1>2. requests' = {}
  <2>1. requests \ {r} = {} /\ AfterRename({}) = {}
    BY <1>1 DEF AfterRename
  <2> QED BY <2>1 DEF Completes
<1>3. upload' \in Uploads
  <2>1. CASE r.end = Length /\ upload.partial # Missing
    <3>1. upload' = [Renamed(upload) EXCEPT !.recorded = TRUE] /\ Received(r)
      BY <2>1 DEF Completes
    <3>2. Renamed(upload) \in Uploads
      BY <2>1, <3>1, RenamedWhole
    <3> QED BY <3>1, <3>2 DEF Uploads
  <2>2. CASE ~(r.end = Length /\ upload.partial # Missing)
    BY <1>1, <2>2 DEF Completes
  <2> QED BY <2>1, <2>2
<1> QED BY <1>1, <1>2, <1>3, NobodyUploads DEF Completes

LEMMA StopsKeeps == ASSUME UploadInv, Stops PROVE UploadInv'
<1>1. upload' \in Uploads
  <2>1. CASE UNCHANGED upload
    BY <2>1 DEF UploadInv
  <2>2. CASE Renames /\ upload' = Renamed(upload)
    BY <2>2, RenamedWhole DEF Renames
  <2> QED BY <2>1, <2>2 DEF Stops
<1> QED BY <1>1, NobodyUploads DEF Stops, UploadInv

LEMMA NoUploadFits == NoUpload \in Uploads /\ NoUpload.partial = Missing
  BY DEF NoUpload, Uploads

LEMMA UploadKept == ~Overlap => (UploadInv /\ [UploadNext]_uploadVars => UploadInv')
<1> SUFFICES ASSUME ~Overlap, UploadInv, [UploadNext]_uploadVars PROVE UploadInv'
  OBVIOUS
<1>0. upload \in Uploads /\ staged \in {Missing, File}
  BY DEF UploadInv
<1>1. CASE Opens \/ Conflicts \/ Finalizes \/ StageStarts \/ Idle \/ UNCHANGED uploadVars
  <2>1. UNCHANGED <<upload, requests, staged>>
    BY <1>1 DEF Opens, Conflicts, Finalizes, StageStarts, Idle, uploadVars
  <2> QED BY <1>0, <2>1, SameUploads
<1>2. CASE Duplicates
  <2>1. requests' = {} /\ UNCHANGED staged /\ upload' = Cleared(upload, client.at)
    BY <1>2 DEF Duplicates, Offer
  <2> QED BY <1>0, <2>1, ClearedFits, NobodyUploads
<1>3. CASE Begins
  BY <1>3, BeginsKeeps
<1>4. ASSUME NEW r \in requests, Appends(r) \/ Breaks(r) \/ Completes(r) PROVE UploadInv'
  BY <1>4, AppendsKeeps, BreaksKeeps, CompletesKeeps
<1>5. CASE Ages
  <2>1. upload' = [upload EXCEPT !.aged = TRUE] /\ UNCHANGED <<requests, staged>>
    BY <1>5 DEF Ages
  <2>2. upload' \in Uploads /\ upload'.partial = upload.partial
    BY <1>0, <2>1 DEF Uploads
  <2> QED BY <1>0, <2>1, <2>2, SameUploads
<1>6. CASE Expires
  BY <1>0, <1>6, NoUploadFits, UnlinkedOne DEF Expires
<1>7. CASE Stops
  BY <1>7, StopsKeeps
<1>8. CASE Stages
  <2>1. CASE /\ Complete /\ staged' = upload.stored /\ upload' = NoUpload
             /\ requests' = Unlinked(requests, {"partial", "stored"})
    <3>1. staged' \in {Missing, File}
      BY <1>0, <2>1 DEF Uploads
    <3> QED BY <2>1, <3>1, NoUploadFits, UnlinkedOne
  <2>2. CASE UNCHANGED <<upload, requests, staged>>
    BY <1>0, <2>2, SameUploads
  <2> QED BY <1>8, <2>1, <2>2 DEF Stages
<1> QED BY <1>1, <1>2, <1>3, <1>4, <1>5, <1>6, <1>7, <1>8 DEF UploadNext

(* What the record calls the uploaded bundle, and what was staged from it, *)
(* is the operator's file, for any lengths, losses, restarts and expiries  *)
(* (lib/provision-import-store.js, uploadChunk).  One browser uploads, and *)
(* the panel does not stop between the last unit and its renaming.         *)
THEOREM UploadIntact ==
    ASSUME ~Overlap
    PROVE  UploadSpec => []Intact
<1>1. UploadInit => UploadInv
  BY NoUploadFits DEF UploadInit, UploadInv
<1>2. UploadInv => Intact
  BY DEF UploadInv, Uploads, Intact, Complete
<1> QED BY <1>1, <1>2, UploadKept, PTL DEF UploadSpec
===============================================================================
