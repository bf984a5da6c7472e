------------------------------ MODULE BackupProofs ------------------------------
(***************************************************************************)
(* The sets of a website and their use on the primary (SiteBackups), the   *)
(* copies on the standby (BackupReception) and those in the repository     *)
(* (OffsiteBackups), for any bounds.                                       *)
(*                                                                         *)
(* On the primary the argument follows what a running job relies on: the   *)
(* website as it was when the job began, and the sets it took or was told  *)
(* to use.  Sets never change, so that a set still there has the website   *)
(* that was put into it.                                                   *)
(***************************************************************************)
EXTENDS SiteBackups, BackupReception, OffsiteBackups, FiniteSetTheorems, SequenceTheorems, TLAPS

Websites == [files : Nat, db : Nat, maintenance : BOOLEAN]

(* A website that is whole, of a version that exists.                      *)
Sound(s) == s.files = s.db /\ ~s.maintenance /\ s.files <= bounds.updates + 1

Taking == {"archive", "dump", "publish"}
Restoring == {"verify", "extract", "swap", "import", "undo"}
Updating == {"check", "on", "apply", "off", "probe"}

(* The steps of a job of each kind.                                        *)
Steps ==
    \/ job.kind = "backup" /\ job.pc \in Taking
    \/ job.kind = "restore" /\ job.pc \in Taking \cup Restoring
    \/ job.kind = "update" /\ job.pc \in Taking \cup Updating
    \/ job.kind = "rollback" /\ job.pc \in Taking \cup Restoring \cup {"revalidate", "leave"}

Typed ==
    /\ site \in Websites /\ made \in Nat /\ suspect \in BOOLEAN /\ day \in Nat
    /\ bounds \in [updates : Nat, faults : Nat, crashes : Nat]

SetsSound ==
    /\ DOMAIN sets \subseteq 1 .. made
    /\ \A id \in DOMAIN sets :
          /\ sets[id].site \in Websites /\ sets[id].suspect \in BOOLEAN
          /\ ~sets[id].suspect => Sound(sets[id].site)

Jobs ==
    [kind : {"backup", "restore", "update", "rollback"},
     pc : Taking \cup Restoring \cup Updating \cup {"revalidate", "leave"},
     target : Nat, safety : Nat, taken : Websites, begin : Websites, date : Nat]

JobTyped ==
    \/ job = Idle
    \/ /\ job \in Jobs
       /\ job.target <= made /\ job.safety <= made /\ Steps

(* No job runs, or what it began with was whole and is still there until   *)
(* the job changes the website.                                            *)
BegunSound ==
    ~suspect => IF job = Idle THEN Sound(site) ELSE job.kind # "rollback" => Sound(job.begin)

NotTouched ==
    job.kind \in {"backup", "restore", "update"}
    /\ job.pc \in Taking \cup {"verify", "extract", "swap", "check", "on"}
        => site = job.begin

TakenTrue == job.pc \in {"dump", "publish"} => job.taken = site

(* The sets the job knows by their numbers.                                *)
SafetyTrue ==
    job.kind = "restore" /\ job.pc \in {"extract", "swap", "import", "undo"}
    /\ job.safety \in DOMAIN sets
        => sets[job.safety].site = job.begin

TargetTrue ==
    job.pc \in {"swap", "import"} /\ job.target \in DOMAIN sets
        => sets[job.target].site = job.taken

(* The later steps of a restore, a rollback and an update.                 *)
HalfRestored ==
    /\ job.pc = "import" => site = [job.taken EXCEPT !.db = site.db]
    /\ job.pc = "revalidate" => site = job.taken /\ (~suspect => Sound(site))

Updated ==
    job.pc \in {"off", "probe"} =>
        /\ site.files = bounds.updates + 1 /\ site.db = site.files
        /\ ~suspect => job.begin.files <= bounds.updates
        /\ job.pc = "probe" => ~site.maintenance

JobSound ==
    /\ BegunSound
    /\ job # Idle => NotTouched /\ TakenTrue /\ SafetyTrue /\ TargetTrue /\ HalfRestored /\ Updated

SiteInv == Typed /\ SetsSound /\ JobTyped /\ JobSound

-----------------------------------------------------------------------------
(* Lemmas about parts of the invariant that most steps keep alike.         *)

LEMMA SoundStays ==
    ASSUME Typed, Typed', bounds.updates <= bounds'.updates, NEW s \in Websites, Sound(s)
    PROVE  Sound(s)'
  BY DEF Typed, Sound, Websites

(* Sets are left alone, or some of them removed.                           *)
LEMMA SetsStay ==
    ASSUME Typed, Typed', SetsSound, bounds.updates <= bounds'.updates, made <= made',
           DOMAIN sets' \subseteq DOMAIN sets, \A id \in DOMAIN sets' : sets'[id] = sets[id]
    PROVE  SetsSound'
<1>1. DOMAIN sets' \subseteq 1 .. made'
  BY DEF SetsSound, Typed
<1>2. ASSUME NEW id \in DOMAIN sets'
      PROVE  /\ sets'[id].site \in Websites /\ sets'[id].suspect \in BOOLEAN
             /\ ~sets'[id].suspect => Sound(sets[id].site)'
  <2>1. sets'[id] = sets[id] /\ id \in DOMAIN sets
    OBVIOUS
  <2> QED BY <2>1, SoundStays DEF SetsSound
<1> QED BY <1>1, <1>2 DEF SetsSound, Sound

LEMMA Running ==
    ASSUME JobTyped, job.pc # "idle"
    PROVE  job # Idle /\ job \in Jobs /\ job.target <= made /\ job.safety <= made /\ Steps
  BY DEF JobTyped, Idle

LEMMA Resting ==
    ASSUME JobTyped, job.pc = "idle"
    PROVE  job = Idle
  BY DEF JobTyped, Idle, Jobs, Taking, Restoring, Updating

LEMMA NeverIdle == \A j \in Jobs : j # Idle /\ j.pc # "idle"
  BY DEF Idle, Jobs, Taking, Restoring, Updating

(* A job that goes on to another step, and learns of a set meanwhile.      *)
LEMMA JobMoved ==
    ASSUME NEW j \in Jobs, NEW k, NEW pc \in Taking \cup Restoring \cup Updating \cup {"revalidate", "leave"},
           k = [j EXCEPT !.pc = pc]
    PROVE  /\ k \in Jobs /\ k.pc = pc /\ k.kind = j.kind /\ k.target = j.target
           /\ k.safety = j.safety /\ k.taken = j.taken /\ k.begin = j.begin /\ k.date = j.date
  BY DEF Jobs

LEMMA TaskTyped ==
    ASSUME Typed, NEW kind \in {"backup", "restore", "update", "rollback"}, NEW pc \in {"verify", "archive"},
           NEW target \in Nat, NEW date \in Nat
    PROVE  LET t == Task(kind, pc, target, date)
           IN /\ t \in Jobs /\ t.kind = kind /\ t.pc = pc /\ t.target = target /\ t.safety = 0
              /\ t.taken = site /\ t.begin = site /\ t.date = date
  BY DEF Task, Jobs, Typed, Taking, Restoring

-----------------------------------------------------------------------------
LEMMA SiteInitHolds == Init => SiteInv
<1> SUFFICES ASSUME Init PROVE SiteInv
  OBVIOUS
<1>1. Typed /\ JobTyped
  BY DEF Init, Typed, JobTyped, Websites
<1>3. SetsSound
  <2>1. sets = <<>> /\ DOMAIN <<>> = {}
    BY DEF Init
  <2> QED BY <2>1 DEF SetsSound
<1>2. Sound(site)
  BY DEF Init, Sound
<1> QED BY <1>1, <1>2, <1>3 DEF SiteInv, JobSound, BegunSound, Init

(* Nothing of the website, its sets and the job changes.                   *)
LEMMA Undisturbed ==
    ASSUME SiteInv, day' \in Nat, UNCHANGED <<site, sets, made, job, suspect, bounds>>
    PROVE  SiteInv'
<1>1. Typed' /\ SetsSound'
  BY SetsStay DEF SiteInv, Typed
<1> QED BY <1>1 DEF SiteInv, JobTyped, Steps, JobSound, BegunSound, Sound, NotTouched,
                    TakenTrue, SafetyTrue, TargetTrue, HalfRestored, Updated

(* The operator starts a job, or the schedule does.                        *)
LEMMA StartKeeps ==
    ASSUME SiteInv, Backup \/ Restore \/ Update \/ Schedule
    PROVE  SiteInv'
<1>1. ASSUME NEW kind \in {"backup", "restore", "update"}, NEW pc \in {"verify", "archive"},
             NEW target \in Nat, NEW date \in Nat, Starts(Task(kind, pc, target, date)),
             target <= made, pc = "verify" => kind = "restore"
      PROVE  SiteInv'
  <2>1. UNCHANGED <<site, sets, made, day, suspect, bounds>> /\ job = Idle
    BY <1>1, Resting DEF Starts, At, SiteInv
  <2>2. /\ job' \in Jobs /\ job'.kind = kind /\ job'.pc = pc /\ job'.target = target
        /\ job'.safety = 0 /\ job'.begin = site /\ job'.taken = site
    BY <1>1, TaskTyped DEF Starts, SiteInv
  <2>3. Typed' /\ SetsSound'
    BY <2>1, SetsStay DEF SiteInv, Typed
  <2>4. JobTyped'
    BY <1>1, <2>1, <2>2 DEF JobTyped, Steps, Taking, Restoring, SiteInv, Typed
  <2>5. BegunSound'
    BY <2>1, <2>2, NeverIdle DEF SiteInv, JobSound, BegunSound, Sound
  <2>6. JobSound'
    BY <2>1, <2>2, <2>5 DEF JobSound, NotTouched, TakenTrue, SafetyTrue, TargetTrue, HalfRestored, Updated
  <2> QED BY <2>3, <2>4, <2>6 DEF SiteInv
<1>2. CASE Backup
  BY <1>1, <1>2 DEF Backup, SiteInv, Typed
<1>3. CASE Update
  BY <1>1, <1>3 DEF Update, SiteInv, Typed
<1>4. CASE Restore
  <2> PICK id \in DOMAIN sets : Starts(Task("restore", "verify", id, 0))
    BY <1>4 DEF Restore
  <2> QED BY <1>1 DEF SiteInv, SetsSound, Typed
<1>5. CASE Schedule
  <2>1. CASE Starts(Task("backup", "archive", 0, day))
    BY <1>1, <2>1 DEF SiteInv, Typed
  <2>2. CASE UNCHANGED <<site, sets, made, retention, day, job, suspect, bounds>>
    BY <2>2, Undisturbed DEF SiteInv, Typed
  <2> QED BY <1>5, <2>1, <2>2 DEF Schedule
<1> QED BY <1>2, <1>3, <1>4, <1>5

(* createSiteBackup, on its own or for a restore, an update or a rollback. *)
LEMMA ArchiveKeeps ==
    ASSUME SiteInv, Archives \/ Dumps
    PROVE  SiteInv'
<1>1. /\ UNCHANGED <<site, sets, made, day, suspect, bounds>>
      /\ job.pc \in {"archive", "dump"} /\ job \in Jobs /\ Steps
      /\ job.target <= made /\ job.safety <= made /\ site \in Websites
  BY Running DEF SiteInv, Typed, Archives, Dumps, At
<1>2. /\ job' \in Jobs /\ job'.kind = job.kind /\ job'.target = job.target
      /\ job'.safety = job.safety /\ job'.begin = job.begin
      /\ job'.pc \in {"dump", "publish"} /\ job'.taken = site
  <2>1. CASE Archives
    BY <1>1, <2>1 DEF Archives, Jobs, Taking
  <2>2. CASE Dumps
    <3>1. job.taken = site
      BY <1>1, <2>2, NeverIdle DEF Dumps, At, SiteInv, JobSound, TakenTrue
    <3>2. job' = [kind |-> job.kind, pc |-> "publish", target |-> job.target, safety |-> job.safety,
                  taken |-> [site EXCEPT !.db = site.db], begin |-> job.begin, date |-> job.date]
      BY <1>1, <2>2, <3>1 DEF Dumps, Jobs
    <3>3. [site EXCEPT !.db = site.db] = site
      BY <1>1 DEF Websites
    <3> QED BY <1>1, <3>2, <3>3 DEF Jobs, Taking
  <2> QED BY <2>1, <2>2
<1>3. Typed' /\ SetsSound'
  BY <1>1, SetsStay DEF SiteInv, Typed
<1>4. JobTyped'
  BY <1>1, <1>2 DEF JobTyped, Steps, Taking, Restoring, Updating
<1>5. BegunSound'
  BY <1>1, <1>2, NeverIdle DEF SiteInv, JobSound, BegunSound, Sound
<1>6. JobSound'
  BY <1>1, <1>2, <1>5, NeverIdle DEF SiteInv, JobSound, NotTouched, TakenTrue, SafetyTrue, TargetTrue,
                                     HalfRestored, Updated, Taking
<1> QED BY <1>3, <1>4, <1>6 DEF SiteInv

(* A set is published: all of them, or what the retention leaves.          *)
LEMMA PublishedSound ==
    ASSUME SiteInv, Typed', job.pc = "publish", made' = made + 1, bounds.updates <= bounds'.updates,
           DOMAIN sets' \subseteq DOMAIN Published, \A id \in DOMAIN sets' : sets'[id] = Published[id]
    PROVE  /\ SetsSound'
           /\ \A id \in DOMAIN sets' :
                 IF id \in DOMAIN sets THEN sets'[id] = sets[id] ELSE id = made' /\ sets'[id].site = site
<1>1. job \in Jobs /\ job.taken = site
  BY Running, NeverIdle DEF SiteInv, JobSound, TakenTrue
<1>2. ASSUME NEW id \in DOMAIN sets'
      PROVE  /\ id \in 1 .. made'
             /\ IF id \in DOMAIN sets THEN sets'[id] = sets[id]
                ELSE /\ id = made'
                     /\ sets'[id] = [site |-> site, suspect |-> suspect \/ job.kind = "rollback",
                                     day |-> day, daily |-> job.date # 0]
  <2>1. id \in DOMAIN Published /\ sets'[id] = Published[id]
    BY <1>2
  <2>2. DOMAIN Published = DOMAIN sets \cup {made + 1}
    BY DEF Published
  <2>3. Published[id] = IF id \in DOMAIN sets THEN sets[id]
                        ELSE [site |-> job.taken, suspect |-> suspect \/ job.kind = "rollback",
                              day |-> day, daily |-> job.date # 0]
    BY <2>1, <2>2 DEF Published
  <2>4. id \in 1 .. made'
    BY <2>1, <2>2 DEF SiteInv, SetsSound, Typed
  <2> QED BY <1>1, <2>1, <2>2, <2>3, <2>4
<1>3. ASSUME NEW id \in DOMAIN sets'
      PROVE  /\ sets'[id].site \in Websites /\ sets'[id].suspect \in BOOLEAN
             /\ ~sets'[id].suspect => Sound(sets[id].site)'
  <2>1. CASE id \in DOMAIN sets
    BY <1>2, <2>1, SoundStays DEF SiteInv, SetsSound
  <2>2. CASE id \notin DOMAIN sets
    <3>1. sets'[id].site = site /\ sets'[id].suspect = (suspect \/ job.kind = "rollback")
      BY <1>2, <2>2
    <3>2. ~suspect /\ job.kind # "rollback" => Sound(site)
      <4>1. job.kind # "rollback" => site = job.begin
        BY <1>1, NeverIdle DEF SiteInv, JobSound, NotTouched, Taking, Jobs
      <4> QED BY <1>1, <4>1, NeverIdle DEF SiteInv, JobSound, BegunSound
    <3> QED BY <3>1, <3>2, SoundStays DEF SiteInv, Typed
  <2> QED BY <2>1, <2>2
<1>4. SetsSound'
  BY <1>2, <1>3 DEF SetsSound, Sound
<1> QED BY <1>2, <1>4

LEMMA PublishKeeps ==
    ASSUME SiteInv, Publishes
    PROVE  SiteInv'
<1>1. /\ UNCHANGED <<site, day, suspect, bounds>> /\ made' = made + 1 /\ job.pc = "publish"
      /\ DOMAIN sets' \subseteq DOMAIN Published /\ \A id \in DOMAIN sets' : sets'[id] = Published[id]
  BY DEF Publishes, At, Kept
<1>2. /\ job \in Jobs /\ Steps /\ job.target <= made /\ job.safety <= made
      /\ site \in Websites /\ made \in Nat
  BY <1>1, Running DEF SiteInv, Typed
<1>3. Typed'
  BY <1>1 DEF SiteInv, Typed
<1>4. SetsSound'
  BY <1>1, <1>3, PublishedSound DEF SiteInv, Typed
<1>5. \A id \in DOMAIN sets' :
         IF id \in DOMAIN sets THEN sets'[id] = sets[id] ELSE id = made' /\ sets'[id].site = site
  BY <1>1, <1>3, PublishedSound DEF SiteInv, Typed
<1>6. job.kind # "rollback" => site = job.begin
  BY <1>1, <1>2, NeverIdle DEF SiteInv, JobSound, NotTouched, Taking, Jobs
<1>7. CASE job.kind = "backup"
  <2>1. job' = Idle
    BY <1>7 DEF Publishes
  <2>2. ~suspect => Sound(site)
    BY <1>2, <1>6, <1>7, NeverIdle DEF SiteInv, JobSound, BegunSound
  <2>3. BegunSound'
    BY <1>1, <2>1, <2>2 DEF BegunSound, Sound
  <2> QED BY <1>3, <1>4, <2>1, <2>3 DEF SiteInv, JobTyped, JobSound
<1>8. CASE job.kind = "update"
  <2>1. job' = [job EXCEPT !.pc = "check", !.target = made']
    BY <1>8 DEF Publishes
  <2>2. /\ job' \in Jobs /\ job'.kind = "update" /\ job'.pc = "check" /\ job'.target = made'
        /\ job'.safety = job.safety /\ job'.begin = job.begin
    <3>1. job' = [kind |-> job.kind, pc |-> "check", target |-> made', safety |-> job.safety,
                  taken |-> job.taken, begin |-> job.begin, date |-> job.date]
      BY <1>2, <2>1 DEF Jobs
    <3>2. made' \in Nat
      BY <1>1, <1>2
    <3> QED BY <1>2, <1>8, <3>1, <3>2 DEF Jobs, Updating
  <2>3. JobTyped'
    BY <1>1, <1>2, <2>2 DEF JobTyped, Steps, Updating, Jobs
  <2>4. BegunSound'
    BY <1>1, <1>2, <1>8, <2>2, NeverIdle DEF SiteInv, JobSound, BegunSound, Sound
  <2>5. JobSound'
    BY <1>1, <1>6, <1>8, <2>2, <2>4 DEF JobSound, NotTouched, TakenTrue, SafetyTrue, TargetTrue, HalfRestored, Updated
  <2> QED BY <1>3, <1>4, <2>3, <2>5 DEF SiteInv
<1>9. CASE job.kind \in {"restore", "rollback"}
  <2>1. job' = [job EXCEPT !.pc = "extract", !.safety = made']
    BY <1>9 DEF Publishes
  <2>2. /\ job' \in Jobs /\ job'.kind = job.kind /\ job'.pc = "extract" /\ job'.target = job.target
        /\ job'.safety = made' /\ job'.begin = job.begin
    <3>1. job' = [kind |-> job.kind, pc |-> "extract", target |-> job.target, safety |-> made',
                  taken |-> job.taken, begin |-> job.begin, date |-> job.date]
      BY <1>2, <2>1 DEF Jobs
    <3>2. made' \in Nat
      BY <1>1, <1>2
    <3> QED BY <1>2, <3>1, <3>2 DEF Jobs, Restoring
  <2>3. JobTyped'
    BY <1>1, <1>2, <1>9, <2>2 DEF JobTyped, Steps, Restoring, Jobs
  <2>4. BegunSound'
    BY <1>1, <1>2, <1>9, <2>2, NeverIdle DEF SiteInv, JobSound, BegunSound, Sound
  <2>5. SafetyTrue'
    <3>1. made' \notin DOMAIN sets
      BY <1>1, <1>2 DEF SiteInv, SetsSound
    <3> QED BY <1>1, <1>5, <1>6, <2>2, <3>1 DEF SafetyTrue
  <2>6. JobSound'
    BY <1>1, <1>6, <2>2, <2>4, <2>5 DEF JobSound, NotTouched, TakenTrue, TargetTrue, HalfRestored, Updated
  <2> QED BY <1>3, <1>4, <2>3, <2>6 DEF SiteInv
<1> QED BY <1>2, <1>7, <1>8, <1>9 DEF Jobs

-----------------------------------------------------------------------------
(* The steps of a restore after its safety set.                            *)

LEMMA VerifyKeeps ==
    ASSUME SiteInv, Verifies \/ Extracts \/ Checks
    PROVE  SiteInv'
<1>1. /\ UNCHANGED <<site, sets, made, day, suspect, bounds>>
      /\ job.pc \in {"verify", "extract", "check"} /\ job \in Jobs /\ Steps /\ job.target \in DOMAIN sets
      /\ job.target <= made /\ job.safety <= made /\ site \in Websites
  BY Running DEF SiteInv, Typed, Verifies, Extracts, Checks, At
<1>2. Typed' /\ SetsSound'
  BY <1>1, SetsStay DEF SiteInv, Typed
<1>3. CASE Verifies
  <2>1. /\ job' \in Jobs /\ job'.kind = job.kind /\ job'.target = job.target /\ job.pc = "verify"
        /\ job'.safety = job.safety /\ job'.begin = job.begin /\ job'.pc = "archive"
    BY <1>1, <1>3, JobMoved DEF Verifies, Goes, Taking, At
  <2>2. JobTyped'
    BY <1>1, <2>1 DEF JobTyped, Steps, Taking, Restoring, Updating
  <2>3. BegunSound'
    BY <1>1, <2>1, NeverIdle DEF SiteInv, JobSound, BegunSound, Sound
  <2>4. JobSound'
    BY <1>1, <2>1, <2>3, NeverIdle DEF SiteInv, JobSound, NotTouched, TakenTrue, SafetyTrue, TargetTrue, HalfRestored, Updated
  <2> QED BY <1>2, <2>2, <2>4 DEF SiteInv
<1>4. CASE Checks
  <2>1. /\ job' \in Jobs /\ job'.kind = job.kind /\ job'.target = job.target /\ job.pc = "check"
        /\ job'.safety = job.safety /\ job'.begin = job.begin /\ job'.pc = "on"
    BY <1>1, <1>4, JobMoved DEF Checks, Goes, Updating, At
  <2>2. JobTyped'
    BY <1>1, <2>1 DEF JobTyped, Steps, Taking, Restoring, Updating
  <2>3. BegunSound'
    BY <1>1, <2>1, NeverIdle DEF SiteInv, JobSound, BegunSound, Sound
  <2>4. JobSound'
    BY <1>1, <2>1, <2>3, NeverIdle DEF SiteInv, JobSound, NotTouched, TakenTrue, SafetyTrue, TargetTrue, HalfRestored, Updated
  <2> QED BY <1>2, <2>2, <2>4 DEF SiteInv
<1>5. CASE Extracts
  <2>1. sets[job.target].site \in Websites
    BY <1>1 DEF SiteInv, SetsSound
  <2>2. /\ job' \in Jobs /\ job'.kind = job.kind /\ job'.target = job.target /\ job.pc = "extract"
        /\ job'.safety = job.safety /\ job'.begin = job.begin /\ job'.pc = "swap"
        /\ job'.taken = sets[job.target].site
    BY <1>1, <1>5, <2>1 DEF Extracts, At, Jobs, Restoring
  <2>3. JobTyped'
    BY <1>1, <2>2 DEF JobTyped, Steps, Taking, Restoring, Updating
  <2>4. BegunSound'
    BY <1>1, <2>2, NeverIdle DEF SiteInv, JobSound, BegunSound, Sound
  <2>5. JobSound'
    BY <1>1, <2>2, <2>4, NeverIdle DEF SiteInv, JobSound, NotTouched, TakenTrue, SafetyTrue, TargetTrue, HalfRestored, Updated
  <2> QED BY <1>2, <2>3, <2>5 DEF SiteInv
<1> QED BY <1>3, <1>4, <1>5

(* The directories change places, and the database is imported or not.     *)
LEMMA SwapKeeps ==
    ASSUME SiteInv, Swaps
    PROVE  SiteInv'
<1>1. /\ UNCHANGED <<sets, made, day, suspect, bounds>> /\ job.pc = "swap" /\ job \in Jobs /\ Steps
      /\ job.target <= made /\ job.safety <= made /\ site \in Websites /\ job.taken \in Websites
  BY Running DEF SiteInv, Typed, Swaps, At, Jobs
<1>2. /\ job' \in Jobs /\ job'.kind = job.kind /\ job'.target = job.target /\ job'.safety = job.safety
      /\ job'.begin = job.begin /\ job'.taken = job.taken /\ job'.pc = "import"
  BY <1>1, JobMoved DEF Swaps, Goes, Restoring
<1>3. site' = [files |-> job.taken.files, db |-> site.db, maintenance |-> job.taken.maintenance]
  BY <1>1 DEF Swaps, Websites
<1>4. site' \in Websites /\ site' = [job.taken EXCEPT !.db = site'.db]
  BY <1>1, <1>3 DEF Websites
<1>5. Typed' /\ SetsSound'
  BY <1>1, <1>4, SetsStay DEF SiteInv, Typed
<1>6. JobTyped'
  BY <1>1, <1>2 DEF JobTyped, Steps, Taking, Restoring, Updating
<1>7. BegunSound'
  BY <1>1, <1>2, NeverIdle DEF SiteInv, JobSound, BegunSound, Sound
<1>8. JobSound'
  BY <1>1, <1>2, <1>4, <1>7, NeverIdle DEF SiteInv, JobSound, NotTouched, TakenTrue, SafetyTrue, TargetTrue,
                                           HalfRestored, Updated, Taking
<1> QED BY <1>5, <1>6, <1>8 DEF SiteInv

(* The retention removes sets only.                                        *)
LEMMA KeptSome ==
    ASSUME NEW all, NEW keep
    PROVE  /\ DOMAIN Kept(all, keep) \subseteq DOMAIN all
           /\ \A id \in DOMAIN Kept(all, keep) : Kept(all, keep)[id] = all[id]
  BY DEF Kept

LEMMA ImportKeeps ==
    ASSUME SiteInv, Imports
    PROVE  SiteInv' /\ site' = job.taken
<1>1. /\ UNCHANGED <<made, day, bounds>> /\ job.pc = "import" /\ job \in Jobs /\ Steps
      /\ job.target <= made /\ job.safety <= made /\ site \in Websites /\ job.taken \in Websites
      /\ job.target \in DOMAIN sets /\ suspect' = sets[job.target].suspect /\ sets' = Kept(sets, retention)
  BY Running DEF SiteInv, Typed, Imports, At, Jobs
<1>2. sets[job.target].site = job.taken /\ site = [job.taken EXCEPT !.db = site.db]
  BY <1>1, NeverIdle DEF SiteInv, JobSound, TargetTrue, HalfRestored
<1>3. site' = job.taken
  <2>1. site.files = job.taken.files /\ site.maintenance = job.taken.maintenance
    BY <1>1, <1>2 DEF Websites
  <2> QED BY <1>1, <2>1 DEF Imports, Websites
<1>4. suspect' \in BOOLEAN /\ (~suspect' => Sound(job.taken))
  BY <1>1, <1>2 DEF SiteInv, SetsSound
<1>5. Typed'
  BY <1>1, <1>3, <1>4 DEF SiteInv, Typed
<1>6. SetsSound'
  BY <1>1, <1>5, SetsStay, KeptSome DEF SiteInv, Typed
<1>7. ~suspect' => Sound(site)'
  BY <1>1, <1>3, <1>4 DEF Sound
<1>8. CASE job.kind = "restore"
  <2>1. job' = Idle
    BY <1>8 DEF Imports
  <2> QED BY <1>3, <1>5, <1>6, <1>7, <2>1 DEF SiteInv, JobTyped, JobSound, BegunSound
<1>9. CASE job.kind = "rollback"
  <2>1. /\ job' \in Jobs /\ job'.kind = "rollback" /\ job'.target = job.target /\ job'.safety = job.safety
        /\ job'.taken = job.taken /\ job'.pc = "revalidate"
    BY <1>1, <1>9, JobMoved DEF Imports
  <2>2. JobTyped'
    BY <1>1, <2>1 DEF JobTyped, Steps
  <2>3. JobSound'
    BY <1>3, <1>7, <2>1, NeverIdle DEF JobSound, BegunSound, NotTouched, TakenTrue, SafetyTrue, TargetTrue,
                            HalfRestored, Updated
  <2> QED BY <1>3, <1>5, <1>6, <2>2, <2>3 DEF SiteInv
<1> QED BY <1>1, <1>8, <1>9 DEF Steps, Taking, Updating

LEMMA ImportFailKeeps ==
    ASSUME SiteInv, ImportFails
    PROVE  SiteInv'
<1>1. /\ UNCHANGED <<sets, made, day, suspect>> /\ job.pc = "import" /\ job \in Jobs /\ Steps
      /\ job.target <= made /\ job.safety <= made /\ site \in Websites
  BY Running DEF SiteInv, Typed, ImportFails, At
<1>2. site' \in Websites /\ bounds' \in [updates : Nat, faults : Nat, crashes : Nat] /\ bounds'.updates = bounds.updates
  <2>1. CASE UNCHANGED <<site, bounds>>
    BY <1>1, <2>1 DEF SiteInv, Typed
  <2>2. CASE Fault /\ site' \in {site, [site EXCEPT !.db = Broken]}
    <3>1. site' \in Websites
      BY <1>1, <2>2 DEF Websites, Broken
    <3> QED BY <2>2, <3>1 DEF Fault, SiteInv, Typed
  <2> QED BY <2>1, <2>2 DEF ImportFails
<1>3. /\ job' \in Jobs /\ job'.kind = job.kind /\ job'.target = job.target /\ job'.safety = job.safety
      /\ job'.begin = job.begin /\ job'.taken = job.taken /\ job'.pc = "undo"
  BY <1>1, JobMoved DEF ImportFails, Goes, Restoring
<1>4. Typed' /\ SetsSound'
  BY <1>1, <1>2, SetsStay DEF SiteInv, Typed
<1>5. JobTyped'
  BY <1>1, <1>3 DEF JobTyped, Steps, Taking, Restoring, Updating
<1>6. BegunSound'
  BY <1>1, <1>2, <1>3, NeverIdle DEF SiteInv, JobSound, BegunSound, Sound
<1>7. JobSound'
  BY <1>1, <1>3, <1>6, NeverIdle DEF SiteInv, JobSound, NotTouched, TakenTrue, SafetyTrue, TargetTrue,
                                     HalfRestored, Updated, Taking
<1> QED BY <1>4, <1>5, <1>7 DEF SiteInv

(* Putting back what was there: a restore that can reports nothing.        *)
LEMMA UndoKeeps ==
    ASSUME SiteInv, Undoes
    PROVE  SiteInv' /\ (job.kind = "restore" /\ ~suspect' => site' = job.begin)
<1>1. /\ UNCHANGED <<sets, made, day>> /\ job.pc = "undo" /\ job \in Jobs /\ Steps
      /\ job.target <= made /\ job.safety <= made /\ site \in Websites /\ job.begin \in Websites
  BY Running DEF SiteInv, Typed, Undoes, At, Jobs
<1> DEFINE back == [files |-> job.begin.files, db |-> site.db, maintenance |-> job.begin.maintenance]
<1>2. [site EXCEPT !.files = job.begin.files, !.maintenance = job.begin.maintenance] = back
  <2>1. ASSUME NEW r, r = [site EXCEPT !.files = job.begin.files, !.maintenance = job.begin.maintenance]
        PROVE  r = [files |-> job.begin.files, db |-> site.db, maintenance |-> job.begin.maintenance]
    BY <1>1, <2>1 DEF Websites
  <2> QED BY <2>1
<1>3. /\ site' \in Websites /\ suspect' \in BOOLEAN
      /\ bounds' \in [updates : Nat, faults : Nat, crashes : Nat] /\ bounds'.updates = bounds.updates
      /\ job.kind = "restore" /\ ~suspect' => site' = job.begin /\ ~suspect
  <2>1. CASE /\ job.safety \in DOMAIN sets /\ site' = [back EXCEPT !.db = sets[job.safety].site.db]
             /\ UNCHANGED <<suspect, bounds>>
    <3>1. sets[job.safety].site \in Websites
      BY <2>1 DEF SiteInv, SetsSound
    <3>2. site' = [files |-> job.begin.files, db |-> sets[job.safety].site.db, maintenance |-> job.begin.maintenance]
      BY <1>2, <2>1
    <3>3. job.kind = "restore" => sets[job.safety].site = job.begin
      BY <1>1, <2>1, NeverIdle DEF SiteInv, JobSound, SafetyTrue
    <3>4. job.kind = "restore" => site' = job.begin
      BY <1>1, <3>2, <3>3 DEF Websites
    <3>5. site' \in Websites
      BY <1>1, <3>1, <3>2 DEF Websites
    <3> QED BY <2>1, <3>4, <3>5 DEF SiteInv, Typed
  <2>2. CASE /\ Fault \/ UNCHANGED bounds
             /\ site' \in {back, [back EXCEPT !.db = Broken]} /\ suspect' = TRUE
    <3>1. site' \in Websites
      BY <1>1, <2>2 DEF Websites, Broken
    <3>2. bounds' \in [updates : Nat, faults : Nat, crashes : Nat] /\ bounds'.updates = bounds.updates
      BY <2>2 DEF Fault, SiteInv, Typed
    <3> QED BY <2>2, <3>1, <3>2
  <2> QED BY <1>2, <2>1, <2>2 DEF Undoes
<1> HIDE DEF back
<1>4. Typed' /\ SetsSound'
  BY <1>1, <1>3, SetsStay DEF SiteInv, Typed
<1>5. CASE job.kind = "restore"
  <2>1. job' = Idle
    BY <1>5 DEF Undoes
  <2>2. ~suspect' => Sound(site)'
    <3>1. ~suspect' => Sound(job.begin)
      BY <1>1, <1>3, <1>5, NeverIdle DEF SiteInv, JobSound, BegunSound
    <3> QED BY <1>3, <1>5, <3>1 DEF Sound
  <2> QED BY <1>3, <1>4, <2>1, <2>2 DEF SiteInv, JobTyped, JobSound, BegunSound
<1>6. CASE job.kind = "rollback"
  <2>1. /\ job' \in Jobs /\ job'.kind = "rollback" /\ job'.target = job.target /\ job'.safety = job.safety
        /\ job'.pc = "leave"
    BY <1>1, <1>6, JobMoved DEF Undoes
  <2>2. JobTyped'
    BY <1>1, <2>1 DEF JobTyped, Steps
  <2>3. JobSound'
    BY <2>1, NeverIdle DEF JobSound, BegunSound, NotTouched, TakenTrue, SafetyTrue, TargetTrue,
                            HalfRestored, Updated
  <2> QED BY <1>4, <1>6, <2>2, <2>3 DEF SiteInv
<1> QED BY <1>1, <1>5, <1>6 DEF Steps, Taking, Updating

-----------------------------------------------------------------------------
(* The controlled update and its rollback.                                 *)

LEMMA CloseKeeps ==
    ASSUME SiteInv, Closes
    PROVE  SiteInv'
<1>1. /\ UNCHANGED <<sets, made, day, suspect, bounds>> /\ job.pc = "on" /\ job \in Jobs /\ Steps
      /\ job.target <= made /\ job.safety <= made /\ site \in Websites
  BY Running DEF SiteInv, Typed, Closes, At
<1>2. /\ job' \in Jobs /\ job'.kind = job.kind /\ job'.target = job.target /\ job'.safety = job.safety
      /\ job'.begin = job.begin /\ job'.pc = "apply"
  BY <1>1, JobMoved DEF Closes, Goes, Updating
<1>3. Typed' /\ SetsSound'
  <2>1. site' \in Websites
    BY <1>1 DEF Closes, Websites
  <2> QED BY <1>1, <2>1, SetsStay DEF SiteInv, Typed
<1>4. JobTyped'
  BY <1>1, <1>2 DEF JobTyped, Steps, Taking, Restoring, Updating
<1>5. BegunSound'
  BY <1>1, <1>2, NeverIdle DEF SiteInv, JobSound, BegunSound, Sound
<1>6. JobSound'
  BY <1>1, <1>2, <1>5, NeverIdle DEF SiteInv, JobSound, NotTouched, TakenTrue, SafetyTrue, TargetTrue,
                                     HalfRestored, Updated, Taking
<1> QED BY <1>3, <1>4, <1>6 DEF SiteInv

LEMMA ApplyKeeps ==
    ASSUME SiteInv, AppliesUpdate
    PROVE  SiteInv'
<1>1. /\ UNCHANGED <<sets, made, day, suspect>> /\ job.pc = "apply" /\ job \in Jobs /\ Steps
      /\ job.target <= made /\ job.safety <= made /\ site \in Websites
  BY Running DEF SiteInv, Typed, AppliesUpdate, At
<1>2. /\ job' \in Jobs /\ job'.kind = job.kind /\ job'.target = job.target /\ job'.safety = job.safety
      /\ job'.begin = job.begin /\ job'.pc = "off"
  BY <1>1, JobMoved DEF AppliesUpdate, Goes, Updating
<1>3. /\ bounds' \in [updates : Nat, faults : Nat, crashes : Nat] /\ bounds'.updates = bounds.updates + 1
      /\ bounds.updates \in Nat
  BY DEF AppliesUpdate, SiteInv, Typed
<1>4. site' \in Websites /\ site'.files = bounds'.updates + 1 /\ site'.db = site'.files
  <2>1. NewVersion \in Nat /\ NewVersion = bounds'.updates + 1
    BY <1>3 DEF NewVersion
  <2>2. site' = [site EXCEPT !.files = NewVersion, !.db = NewVersion]
    BY DEF AppliesUpdate
  <2> QED BY <1>1, <2>1, <2>2 DEF Websites
<1>5. Typed' /\ SetsSound'
  BY <1>1, <1>3, <1>4, SetsStay DEF SiteInv, Typed
<1>6. JobTyped'
  BY <1>1, <1>2 DEF JobTyped, Steps, Taking, Restoring, Updating
<1>7. job.kind = "update" /\ (~suspect => Sound(job.begin)) /\ job.begin \in Websites
  BY <1>1, NeverIdle DEF SiteInv, JobSound, BegunSound, Steps, Taking, Restoring, Jobs
<1>8. BegunSound'
  BY <1>1, <1>2, <1>3, <1>7, NeverIdle DEF BegunSound, Sound, Websites
<1>9. Updated'
  <2>1. ~suspect => job.begin.files <= bounds'.updates
    BY <1>3, <1>7 DEF Sound, Websites
  <2> QED BY <1>1, <1>2, <1>4, <2>1 DEF Updated
<1>10. JobSound'
  BY <1>2, <1>8, <1>9 DEF JobSound, NotTouched, TakenTrue, SafetyTrue, TargetTrue, HalfRestored, Taking
<1> QED BY <1>5, <1>6, <1>10 DEF SiteInv

LEMMA OpenKeeps ==
    ASSUME SiteInv, Opens
    PROVE  SiteInv'
<1>1. /\ UNCHANGED <<sets, made, day, suspect, bounds>> /\ job.pc = "off" /\ job \in Jobs /\ Steps
      /\ job.target <= made /\ job.safety <= made /\ site \in Websites
  BY Running DEF SiteInv, Typed, Opens, At
<1>2. /\ job' \in Jobs /\ job'.kind = job.kind /\ job'.target = job.target /\ job'.safety = job.safety
      /\ job'.begin = job.begin /\ job'.pc = "probe"
  BY <1>1, JobMoved DEF Opens, Goes, Updating
<1>3. site' \in Websites /\ site'.files = site.files /\ site'.db = site.db /\ ~site'.maintenance
  BY <1>1 DEF Opens, Websites
<1>4. Typed' /\ SetsSound'
  BY <1>1, <1>3, SetsStay DEF SiteInv, Typed
<1>5. JobTyped'
  BY <1>1, <1>2 DEF JobTyped, Steps, Taking, Restoring, Updating
<1>6. BegunSound'
  BY <1>1, <1>2, NeverIdle DEF SiteInv, JobSound, BegunSound, Sound
<1>7. JobSound'
  BY <1>1, <1>2, <1>3, <1>6, NeverIdle DEF SiteInv, JobSound, NotTouched, TakenTrue, SafetyTrue, TargetTrue,
                                     HalfRestored, Updated, Taking
<1> QED BY <1>4, <1>5, <1>7 DEF SiteInv

LEMMA ProbeKeeps ==
    ASSUME SiteInv, Probes
    PROVE  /\ SiteInv'
           /\ ~suspect' => job.kind = "update" /\ site'.files = site'.db /\ site'.files > job.begin.files
<1>1. /\ UNCHANGED <<site, sets, made, day, suspect, bounds>> /\ job.pc = "probe" /\ job \in Jobs /\ Steps
      /\ site \in Websites /\ bounds.updates \in Nat /\ job' = Idle
  BY Running DEF SiteInv, Typed, Probes, At
<1>2. /\ site.files = bounds.updates + 1 /\ site.db = site.files /\ ~site.maintenance
      /\ ~suspect => job.begin.files <= bounds.updates
  BY <1>1, NeverIdle DEF SiteInv, JobSound, Updated
<1>3. Sound(site)
  BY <1>1, <1>2 DEF Sound
<1>4. SiteInv'
  <2>1. Typed' /\ SetsSound'
    BY <1>1, SetsStay DEF SiteInv, Typed
  <2>2. Sound(site)'
    BY <1>1, <1>3 DEF Sound
  <2> QED BY <1>1, <2>1, <2>2 DEF SiteInv, JobTyped, JobSound, BegunSound
<1>5. job.begin.files \in Nat /\ job.kind = "update"
  BY <1>1 DEF Jobs, Websites, Steps, Taking, Restoring
<1> QED BY <1>1, <1>2, <1>4, <1>5

(* What a failing or interrupted step leaves is a website.                 *)
LEMMA HalfTyped ==
    ASSUME Typed, NEW half \in Half
    PROVE  half \in Websites
<1>1. NewVersion \in Nat /\ site \in Websites
  BY DEF Typed, NewVersion
<1>2. CASE At("on")
  BY <1>1, <1>2 DEF Half, Websites
<1>3. CASE At("off")
  BY <1>1, <1>3 DEF Half, Websites, At
<1>4. CASE At("apply")
  BY <1>1, <1>4 DEF Half, Websites, At
<1>5. CASE ~At("on") /\ ~At("off") /\ ~At("apply")
  BY <1>1, <1>5 DEF Half
<1> QED BY <1>2, <1>3, <1>4, <1>5

LEMMA UpdateFailKeeps ==
    ASSUME SiteInv, UpdateFails
    PROVE  SiteInv'
<1>1. /\ UNCHANGED <<sets, made, day, suspect>> /\ job.pc \in Updating /\ job \in Jobs
      /\ job.target <= made /\ job.target \in Nat /\ made \in Nat
  BY Running, NeverIdle DEF SiteInv, Typed, UpdateFails, Updating, Jobs
<1>2. site' \in Websites
  <2> PICK half \in Half, closed \in BOOLEAN : site' = [half EXCEPT !.maintenance = @ \/ closed]
    BY DEF UpdateFails
  <2>1. half \in Websites
    BY HalfTyped DEF SiteInv
  <2>2. (half.maintenance \/ closed) \in BOOLEAN
    BY <2>1 DEF Websites
  <2> QED BY <2>1, <2>2 DEF Websites
<1>3. bounds' \in [updates : Nat, faults : Nat, crashes : Nat] /\ bounds.updates <= bounds'.updates
  <2>1. bounds \in [updates : Nat, faults : Nat, crashes : Nat]
    BY DEF SiteInv, Typed
  <2>2. bounds' = [updates |-> IF At("apply") THEN bounds.updates + 1 ELSE bounds.updates,
                   faults |-> bounds.faults + 1, crashes |-> bounds.crashes]
    BY <2>1 DEF UpdateFails
  <2> QED BY <2>1, <2>2
<1>4. /\ job' \in Jobs /\ job'.kind = "rollback" /\ job'.pc = "verify" /\ job'.target = job.target
      /\ job'.safety = 0
  <2> DEFINE t == Task("rollback", "verify", job.target, 0)
  <2>1. t \in Jobs /\ t.kind = "rollback" /\ t.pc = "verify" /\ t.target = job.target /\ t.safety = 0
    BY <1>1, TaskTyped DEF SiteInv
  <2>2. job' = [t EXCEPT !.begin = site']
    BY DEF UpdateFails
  <2> HIDE DEF t
  <2> QED BY <1>2, <2>1, <2>2 DEF Jobs
<1>5. Typed' /\ SetsSound'
  BY <1>1, <1>2, <1>3, SetsStay DEF SiteInv, Typed
<1>6. JobTyped'
  BY <1>1, <1>4 DEF JobTyped, Steps, Restoring
<1>7. JobSound'
  BY <1>4, NeverIdle DEF JobSound, BegunSound, NotTouched, TakenTrue, SafetyTrue, TargetTrue, HalfRestored, Updated
<1> QED BY <1>5, <1>6, <1>7 DEF SiteInv

LEMMA RevalidateKeeps ==
    ASSUME SiteInv, Revalidates
    PROVE  SiteInv' /\ job.kind = "rollback" /\ site' = [job.taken EXCEPT !.maintenance = FALSE]
<1>1. /\ UNCHANGED <<sets, made, day, suspect, bounds>> /\ job.pc = "revalidate" /\ job \in Jobs /\ Steps
      /\ site \in Websites /\ job' = Idle /\ site' = [site EXCEPT !.maintenance = FALSE]
  BY Running DEF SiteInv, Typed, Revalidates, At
<1>2. site = job.taken /\ (~suspect => Sound(site))
  BY <1>1, NeverIdle DEF SiteInv, JobSound, HalfRestored
<1>3. site' \in Websites /\ (~suspect => Sound(site)')
  BY <1>1, <1>2 DEF Websites, Sound
<1>4. Typed' /\ SetsSound'
  BY <1>1, <1>3, SetsStay DEF SiteInv, Typed
<1>5. job.kind = "rollback"
  BY <1>1 DEF Steps, Taking, Restoring, Updating
<1> QED BY <1>1, <1>2, <1>3, <1>4, <1>5 DEF SiteInv, JobTyped, JobSound, BegunSound

LEMMA LeaveKeeps ==
    ASSUME SiteInv, Leaves
    PROVE  SiteInv' /\ suspect'
<1>1. UNCHANGED <<sets, made, day>> /\ suspect' = TRUE /\ job' = Idle /\ site \in Websites
  BY DEF Leaves, SiteInv, Typed
<1>2. /\ site' \in Websites /\ bounds' \in [updates : Nat, faults : Nat, crashes : Nat]
      /\ bounds.updates <= bounds'.updates
  <2>1. CASE site' = [site EXCEPT !.maintenance = FALSE] /\ UNCHANGED bounds
    <3>1. site' \in Websites
      BY <1>1, <2>1 DEF Websites
    <3> QED BY <2>1, <3>1 DEF SiteInv, Typed
  <2>2. CASE Fault /\ UNCHANGED site
    BY <1>1, <2>2 DEF SiteInv, Typed, Fault
  <2> QED BY <2>1, <2>2 DEF Leaves
<1>3. Typed' /\ SetsSound'
  BY <1>1, <1>2, SetsStay DEF SiteInv, Typed
<1> QED BY <1>1, <1>3 DEF SiteInv, JobTyped, JobSound, BegunSound

-----------------------------------------------------------------------------
(* Failures before the website is touched, and the death of the panel.     *)

LEMMA FailKeeps ==
    ASSUME SiteInv, Fails
    PROVE  SiteInv' /\ (job'.pc = "idle" => site' = job.begin)
<1>1. /\ UNCHANGED <<site, sets, made, day, suspect>> /\ job \in Jobs /\ Steps
      /\ job.pc \in {"verify", "archive", "dump", "publish", "extract", "swap"}
      /\ job.target <= made /\ job.safety <= made
  BY Running, NeverIdle DEF SiteInv, Typed, Fails
<1>2. /\ bounds' \in [updates : Nat, faults : Nat, crashes : Nat] /\ bounds'.updates = bounds.updates
  BY DEF Fails, Fault, SiteInv, Typed
<1>3. Typed' /\ SetsSound'
  BY <1>1, <1>2, SetsStay DEF SiteInv, Typed
<1>4. CASE job.kind = "rollback"
  <2>1. /\ job' \in Jobs /\ job'.kind = "rollback" /\ job'.pc = "leave"
        /\ job'.target = job.target /\ job'.safety = job.safety
    BY <1>1, <1>4, JobMoved DEF Fails
  <2>2. JobTyped'
    BY <1>1, <2>1 DEF JobTyped, Steps
  <2>3. JobSound'
    BY <2>1, NeverIdle DEF JobSound, BegunSound, NotTouched, TakenTrue, SafetyTrue, TargetTrue, HalfRestored, Updated
  <2> QED BY <1>3, <2>1, <2>2, <2>3, NeverIdle DEF SiteInv
<1>5. CASE job.kind # "rollback"
  <2>1. job' = Idle /\ site = job.begin
    BY <1>1, <1>5, NeverIdle DEF Fails, SiteInv, JobSound, NotTouched, Taking, Jobs
  <2>2. ~suspect => Sound(site)
    BY <1>1, <1>5, <2>1, NeverIdle DEF SiteInv, JobSound, BegunSound
  <2>3. ~suspect => Sound(site)'
    BY <1>1, <1>2, <2>2 DEF Sound
  <2> QED BY <1>1, <1>3, <2>1, <2>3 DEF SiteInv, JobTyped, JobSound, BegunSound
<1> QED BY <1>4, <1>5

LEMMA DeathKeeps ==
    ASSUME SiteInv, Dies
    PROVE  SiteInv' /\ (suspect' \/ site' = job.begin)
<1>1. /\ UNCHANGED day /\ job \in Jobs /\ Steps /\ job' = Idle /\ site \in Websites /\ made \in Nat
      /\ suspect' = (suspect \/ job.kind \in {"update", "restore", "rollback"}) /\ suspect' \in BOOLEAN
  BY Running DEF SiteInv, Typed, Dies, At
<1>2. /\ bounds' \in [updates : Nat, faults : Nat, crashes : Nat] /\ bounds'.updates = bounds.updates
  BY DEF Dies, SiteInv, Typed
<1>3. site' \in Websites /\ made' \in Nat
  <2>1. CASE site' \in Half /\ UNCHANGED <<sets, made>>
    BY <1>1, <2>1, HalfTyped DEF SiteInv
  <2>2. CASE site' = [site EXCEPT !.files = Broken] /\ UNCHANGED <<sets, made>>
    BY <1>1, <2>2 DEF Websites, Broken
  <2>3. CASE site' = [site EXCEPT !.db = Broken] /\ UNCHANGED <<sets, made>>
    BY <1>1, <2>3 DEF Websites, Broken
  <2>4. CASE made' = made + 1 /\ UNCHANGED site
    BY <1>1, <2>4
  <2> QED BY <2>1, <2>2, <2>3, <2>4 DEF Dies
<1>4. Typed'
  BY <1>1, <1>2, <1>3 DEF SiteInv, Typed
<1>5. SetsSound'
  <2>1. CASE UNCHANGED <<sets, made>>
    BY <1>1, <1>2, <1>4, <2>1, SetsStay DEF SiteInv
  <2>2. CASE job.pc = "publish" /\ made' = made + 1 /\ sets' = Published
    BY <1>2, <1>4, <2>2, PublishedSound DEF SiteInv, Typed
  <2> QED BY <2>1, <2>2 DEF Dies, At
<1>6. suspect' \/ (site' = job.begin /\ Sound(job.begin))
  <2>1. SUFFICES ASSUME ~suspect' PROVE site' = job.begin /\ Sound(job.begin)
    OBVIOUS
  <2>2. job.kind = "backup" /\ ~suspect /\ job.pc \in Taking
    BY <1>1, <2>1 DEF Steps
  <2>3. site = job.begin /\ Sound(job.begin)
    BY <1>1, <2>2, NeverIdle DEF SiteInv, JobSound, BegunSound, NotTouched
  <2>4. site' = site
    BY <2>2 DEF Dies, Half, At, Taking
  <2> QED BY <2>3, <2>4
<1>7. ~suspect' => Sound(site)'
  BY <1>2, <1>6 DEF Sound
<1> QED BY <1>1, <1>4, <1>5, <1>6, <1>7 DEF SiteInv, JobTyped, JobSound, BegunSound

(* The route deletes a set under a running job.                            *)
LEMMA DeleteKeeps ==
    ASSUME SiteInv, Deletes
    PROVE  SiteInv'
<1>1. /\ UNCHANGED <<site, made, day, job, suspect, bounds>>
      /\ DOMAIN sets' \subseteq DOMAIN sets /\ \A id \in DOMAIN sets' : sets'[id] = sets[id]
  BY DEF Deletes, Without
<1>2. Typed' /\ SetsSound'
  BY <1>1, SetsStay DEF SiteInv, Typed
<1> QED BY <1>1, <1>2 DEF SiteInv, JobTyped, Steps, JobSound, BegunSound, Sound, NotTouched,
                    TakenTrue, SafetyTrue, TargetTrue, HalfRestored, Updated

LEMMA NextKeeps ==
    ASSUME SiteInv, [Next]_vars
    PROVE  SiteInv'
<1>1. CASE Creates
  BY <1>1, ArchiveKeeps, PublishKeeps DEF Creates
<1>2. CASE Restores
  BY <1>2, VerifyKeeps, SwapKeeps, ImportKeeps, ImportFailKeeps, UndoKeeps DEF Restores
<1>3. CASE Updates
  BY <1>3, VerifyKeeps, CloseKeeps, ApplyKeeps, OpenKeeps, ProbeKeeps, UpdateFailKeeps, RevalidateKeeps,
     LeaveKeeps DEF Updates
<1>4. CASE Fails \/ Dies
  BY <1>4, FailKeeps, DeathKeeps
<1>5. CASE Operator \/ Schedule
  <2>1. CASE Backup \/ Restore \/ Update \/ Schedule
    BY <2>1, StartKeeps
  <2>2. CASE Deletes
    BY <2>2, DeleteKeeps
  <2>3. CASE ChangesRetention
    BY <2>3, Undisturbed DEF ChangesRetention, SiteInv, Typed
  <2> QED BY <1>5, <2>1, <2>2, <2>3 DEF Operator
<1>6. CASE Midnight
  <2>1. day' \in Nat
    BY <1>6 DEF Midnight, SiteInv, Typed
  <2> QED BY <1>6, <2>1, Undisturbed DEF Midnight
<1>7. CASE UNCHANGED vars
  BY <1>7, Undisturbed DEF vars, SiteInv, Typed
<1> QED BY <1>1, <1>2, <1>3, <1>4, <1>5, <1>6, <1>7 DEF Next

(* Unless a job died or reported a failed rollback, the website is whole   *)
(* and open whenever no job runs (backup-manager.js and                    *)
(* wordpress-update-manager.js, whichever of their steps failed).          *)
THEOREM WebsiteWhole == Spec => []SiteWhole
<1>1. SiteInv => SiteWhole
  <2> SUFFICES ASSUME SiteInv, job.pc = "idle", ~suspect
               PROVE  site.files = site.db /\ ~site.maintenance
    BY DEF SiteWhole, At
  <2>1. job = Idle
    BY Resting DEF SiteInv
  <2> QED BY <2>1 DEF SiteInv, JobSound, BegunSound, Sound
<1> QED BY <1>1, SiteInitHolds, NextKeeps, PTL DEF Spec

(* How a job can end: a step of a job that ends it without such a report   *)
(* leaves the website as the job found it, or as it was asked to be.       *)
LEMMA EndsWell ==
    ASSUME SiteInv, [Next]_vars, job.pc # "idle", job'.pc = "idle", ~suspect'
    PROVE  \/ site' = job.begin
           \/ job.kind \in {"restore", "rollback"} /\ site' = [job.taken EXCEPT !.maintenance = FALSE]
           \/ job.kind = "restore" /\ site' = job.taken
           \/ job.kind = "update" /\ site'.files = site'.db /\ site'.files > job.begin.files
<1>1. job' = Idle /\ job \in Jobs
  <2>1. SiteInv'
    BY NextKeeps
  <2>2. JobTyped' => job' \in Jobs \/ job' = Idle
    BY DEF JobTyped
  <2> QED BY <2>1, <2>2, NeverIdle, Running DEF SiteInv
<1>2. CASE Publishes
  <2>1. job.pc = "publish" /\ UNCHANGED site
    BY <1>2 DEF Publishes, At
  <2>2. job.kind = "backup"
    <3>1. job.kind = "update" => job' = [job EXCEPT !.pc = "check", !.target = made']
      BY <1>2 DEF Publishes
    <3>2. job.kind \in {"restore", "rollback"} => job' = [job EXCEPT !.pc = "extract", !.safety = made']
      BY <1>2 DEF Publishes
    <3> QED BY <1>1, <3>1, <3>2 DEF Jobs
  <2> QED BY <1>1, <2>1, <2>2, NeverIdle DEF SiteInv, JobSound, NotTouched, Taking
<1>3. CASE Imports
  <2>1. site' = job.taken /\ job.pc = "import"
    BY <1>3, ImportKeeps DEF Imports, At
  <2>2. job.kind = "restore"
    <3>1. job.kind # "restore" => job' = [job EXCEPT !.pc = "revalidate"]
      BY <1>3 DEF Imports
    <3> QED BY <1>1, <3>1, JobMoved
  <2> QED BY <2>1, <2>2
<1>4. CASE Undoes
  <2>1. job.kind # "restore" => job' = [job EXCEPT !.pc = "leave"]
    BY <1>4 DEF Undoes
  <2> QED BY <1>1, <1>4, <2>1, JobMoved, UndoKeeps
<1>5. CASE Probes
  BY <1>5, ProbeKeeps
<1>6. CASE Revalidates
  BY <1>6, RevalidateKeeps
<1>7. CASE Leaves
  BY <1>7, LeaveKeeps
<1>8. CASE Fails \/ Dies
  BY <1>8, FailKeeps, DeathKeeps
<1>9. CASE Archives \/ Dumps \/ Verifies \/ Extracts \/ Swaps \/ ImportFails \/ Checks \/ Closes
           \/ AppliesUpdate \/ Opens
  BY <1>1, <1>9, JobMoved DEF Archives, Dumps, Verifies, Extracts, Swaps, ImportFails, Checks, Closes,
                              AppliesUpdate, Opens, Goes, Jobs
<1>10. CASE UpdateFails
  <2>1. job'.pc # "idle"
    BY <1>10 DEF UpdateFails, Task
  <2> QED BY <2>1
<1>11. CASE Operator \/ Schedule \/ Midnight
  BY <1>11 DEF Operator, Schedule, Midnight, Backup, Restore, Update, Starts, At, Deletes, ChangesRetention
<1>12. CASE UNCHANGED vars
  BY <1>12 DEF vars
<1> QED BY <1>2, <1>3, <1>4, <1>5, <1>6, <1>7, <1>8, <1>9, <1>10, <1>11, <1>12
        DEF Next, Creates, Restores, Updates

(* A restore or an update leaves the website as it was or as it was to be, *)
(* wherever it failed, or says that it did not (restoreSiteBackup,         *)
(* WordPressUpdateManager.apply).                                          *)
THEOREM JobsEndWell == Spec => AllOrNothing
<1>1. SiteInv /\ [Next]_vars =>
        [job.pc # "idle" /\ job'.pc = "idle" /\ ~suspect' =>
          \/ site' = job.begin
          \/ job.kind \in {"restore", "rollback"} /\ site' = [job.taken EXCEPT !.maintenance = FALSE]
          \/ job.kind = "restore" /\ site' = job.taken
          \/ job.kind = "update" /\ site'.files = site'.db /\ site'.files > job.begin.files]_vars
  BY EndsWell
<1> QED BY <1>1, SiteInitHolds, NextKeeps, PTL DEF Spec, AllOrNothing

-----------------------------------------------------------------------------
(***************************************************************************)
(* The standby.  What a receipt names is the newest of each group up to    *)
(* its application data, and nothing the standby holds was ever newer than *)
(* what a running reception asks for; the primary deletes oldest sets only.*)
(* What was prepared under the current receipt is therefore what it names, *)
(* or the operator moved that out.                                         *)
(***************************************************************************)

Copies == [group : Groups, id : Nat]

(* The sets of a running reception.                                        *)
Wanted == IF reception.pc = "stopped" THEN {} ELSE reception.todo \cup reception.verified

OnePerGroup(some) == \A x, y \in some : x.group = y.group => x = y

Known == held \cup receipt.sets \cup Wanted

ReceptionTyped ==
    /\ source \subseteq Copies /\ newest \in Nat /\ Known \subseteq Copies /\ IsFiniteSet(held)
    /\ receipt = [no |-> receipt.no, sets |-> receipt.sets] /\ receipt.no \in Nat
    /\ reception.pc \in {"stopped", "sets", "receipt"}
    /\ reception.pc = "stopped" => reception = Stopped
    /\ reception.pc # "stopped" =>
          reception = [pc |-> reception.pc, todo |-> reception.todo, verified |-> reception.verified]
    /\ reception.pc = "receipt" => reception.todo = {}
    /\ OnePerGroup(receipt.sets) /\ OnePerGroup(Wanted)

(* The primary still has a set, or only newer ones of its group; and its   *)
(* newest application data is newer.                                       *)
Behind(x) ==
    /\ x.id <= newest
    /\ x \in source \/ \A y \in source : y.group = x.group => x.id < y.id
    /\ InGroup(AppData, source) # {} => \E a \in InGroup(AppData, source) : x.id <= a.id

SourceOrdered ==
    /\ \A x \in source : x.id <= newest
    /\ InGroup(AppData, source) # {} => Latest(AppData, source) # {}
    /\ \A x \in Known : Behind(x)

(* These are the newest up to their application data, of all there is.     *)
Newest(some) ==
    \A a, r \in some : a.group = AppData =>
        /\ r.id <= a.id
        /\ \A x \in source \cup held : x.group = r.group /\ x.id <= a.id => x.id <= r.id

ReceptionOrdered ==
    /\ Newest(receipt.sets) /\ Newest(Wanted)
    /\ \A x \in held \cup receipt.sets, v \in Wanted : x.group = v.group => x.id <= v.id
    /\ reception.pc # "stopped" => progress = "running" /\ reception.verified \subseteq held \cup aside
    /\ ReceiptHeld
    /\ \A h \in held, r \in receipt.sets :
          h.group = r.group /\ h.id < r.id => r \in held \cup aside

ReceptionInv == ReceptionTyped /\ SourceOrdered /\ ReceptionOrdered

(* Who works has the lock.                                                 *)
LockTrue ==
    /\ reception.pc # "stopped" => flock = "reception"
    /\ verifier["service"].pc # "stopped" => flock = "service"
    /\ preparation.pc \in {"extract", "swap", "import"} => flock = "preparation"

(* A verification binds what it read to the receipt that it is of.         *)
Tasks ==
    [pc : {"hash", "sets"}, receipt : Nat, todo : SUBSET Copies, read : SUBSET Copies]

VerificationInv ==
    /\ deep.no \in Nat /\ deep.receipt \in Nat /\ deep.receipt <= receipt.no
    /\ verifier \in [Verifiers -> Tasks \cup {Stopped}]
    /\ \A v \in Verifiers : verifier[v].pc # "stopped" =>
          /\ verifier[v].receipt <= receipt.no
          /\ verifier[v].pc = "hash" => verifier[v].receipt = receipt.no
          /\ verifier[v].receipt = receipt.no => verifier[v].todo \cup verifier[v].read = receipt.sets
    /\ deep.receipt = receipt.no => deep.read = receipt.sets

(* What was prepared is what the receipt names, or that was moved out.     *)
Fits(some) ==
    \A a \in some \cap receipt.sets, m \in some, r \in receipt.sets :
        a.group = AppData /\ m.group = r.group => m = r \/ r \in aside

Works == {"lock", "extract", "swap", "import"}

PreparationTyped ==
    /\ preparation.pc \in Works \cup {"stopped"}
    /\ preparation.pc = "stopped" => preparation = Stopped
    /\ preparation.pc # "stopped" =>
          /\ preparation = [pc |-> preparation.pc, sets |-> preparation.sets, before |-> preparation.before,
                            receipt |-> preparation.receipt, deep |-> preparation.deep]
          /\ preparation.sets \subseteq Copies /\ OnePerGroup(preparation.sets)
          /\ preparation.receipt \in Nat /\ preparation.deep \in Nat

PreparationTrue ==
    /\ preparation.pc # "stopped" =>
          /\ preparation.sets \cap rotten = {} /\ ~Prepared
          /\ preparation.receipt <= receipt.no /\ preparation.deep <= deep.no
          /\ preparation.receipt = receipt.no => Fits(preparation.sets)
    /\ preparation.pc = "lock" /\ preparation.receipt # receipt.no => deep.receipt # receipt.no
    /\ preparation.pc \in {"extract", "swap", "import"} =>
          /\ preparation.receipt = receipt.no
          /\ preparation.deep = deep.no => deep.receipt = receipt.no
    /\ preparation.pc = "import" =>
          disk = [sets |-> preparation.sets, spoiled |-> FALSE, imported |-> FALSE]

PreparationInv == PreparationTyped /\ PreparationTrue

MarkerInv ==
    /\ marker.sets \subseteq Copies /\ OnePerGroup(marker.sets)
    /\ marker.receipt \in Nat /\ marker.receipt <= receipt.no
    /\ marker.deep \in Nat /\ marker.deep <= deep.no
    /\ Prepared =>
          /\ disk = [sets |-> marker.sets, spoiled |-> FALSE, imported |-> TRUE]
          /\ deep.receipt = receipt.no /\ Fits(marker.sets)

StandbyInv == ReceptionInv /\ LockTrue /\ VerificationInv /\ PreparationInv /\ MarkerInv

-----------------------------------------------------------------------------
(* What is selected is the newest of its group, of what is not later than  *)
(* the newest application data; the preparation chooses in the same way.   *)
LEMMA SelectedIs ==
    ASSUME NEW pool \in SUBSET Copies
    PROVE  /\ Selected(pool) \subseteq pool /\ OnePerGroup(Selected(pool))
           /\ \A r \in Selected(pool) : r.group = AppData => r \in Latest(AppData, pool)
           /\ \A r \in Selected(pool), a \in Latest(AppData, pool) : r.id <= a.id
           /\ \A r \in Selected(pool), x \in pool :
                 x.group = r.group /\ (\A a \in Latest(AppData, pool) : x.id <= a.id) => x.id <= r.id
<1> DEFINE early == NotLaterThan(Latest(AppData, pool), pool)
<1>1. early \subseteq pool /\ \A x \in pool :
         x \in early <=> x.group = AppData \/ \A a \in Latest(AppData, pool) : x.id <= a.id
  BY DEF NotLaterThan
<1>2. ASSUME NEW r \in Selected(pool)
      PROVE  r \in early /\ \A x \in early : x.group = r.group => x.id <= r.id
  BY <1>2 DEF Selected, Latest, InGroup
<1> HIDE DEF early
<1>3. ASSUME NEW x \in Selected(pool), NEW y \in Selected(pool), x.group = y.group
      PROVE  x = y
  <2>1. x \in Copies /\ y \in Copies /\ x.id <= y.id /\ y.id <= x.id
    BY <1>1, <1>2, <1>3
  <2> QED BY <1>3, <2>1 DEF Copies
<1>4. ASSUME NEW r \in Selected(pool), r.group = AppData
      PROVE  r \in Latest(AppData, pool)
  BY <1>1, <1>2, <1>4 DEF Latest, InGroup
<1>5. ASSUME NEW r \in Selected(pool), NEW a \in Latest(AppData, pool)
      PROVE  r.id <= a.id
  <2>1. CASE r.group = AppData
    BY <1>1, <1>2, <2>1 DEF Latest, InGroup
  <2>2. CASE r.group # AppData
    BY <1>1, <1>2, <2>2
  <2> QED BY <2>1, <2>2
<1>6. ASSUME NEW r \in Selected(pool), NEW x \in pool, x.group = r.group,
             \A a \in Latest(AppData, pool) : x.id <= a.id
      PROVE  x.id <= r.id
  BY <1>1, <1>2, <1>6
<1> QED BY <1>1, <1>2, <1>3, <1>4, <1>5, <1>6 DEF OnePerGroup

LEMMA ChosenIsSelected == Chosen = Selected(held)
  BY DEF Chosen, Selected

LEMMA LatestIs ==
    ASSUME NEW pool \in SUBSET Copies, NEW group, NEW a \in Latest(group, pool), NEW b \in Latest(group, pool)
    PROVE  a = b /\ a \in pool /\ a.group = group
<1>1. /\ a \in Copies /\ b \in Copies /\ a.group = group /\ b.group = group /\ a.id <= b.id /\ b.id <= a.id
      /\ a \in pool
  BY DEF Latest, InGroup
<1> QED BY <1>1 DEF Copies

LEMMA StoppedIs == Stopped.pc = "stopped"
  BY DEF Stopped

-----------------------------------------------------------------------------
(* The reception                                                           *)

LEMMA ReceptionStays ==
    ASSUME ReceptionInv, UNCHANGED <<source, newest, held, aside, receipt, progress, reception>>
    PROVE  ReceptionInv'
  BY DEF ReceptionInv, ReceptionTyped, Known, Wanted, OnePerGroup, SourceOrdered, Behind, InGroup, Latest,
         ReceptionOrdered, Newest, ReceiptHeld

LEMMA ReceptionInitHolds == ReceptionInit => ReceptionInv
<1> SUFFICES ASSUME ReceptionInit PROVE ReceptionInv
  OBVIOUS
<1>1. source = {} /\ held = {} /\ receipt = [no |-> 0, sets |-> {}] /\ newest = 0 /\ reception = Stopped
  BY DEF ReceptionInit, None
<1>2. Wanted = {} /\ Known = {}
  BY <1>1, StoppedIs DEF Wanted, Known
<1>3. ReceptionTyped
  BY <1>1, <1>2, StoppedIs, FS_EmptySet DEF ReceptionTyped, OnePerGroup
<1>4. SourceOrdered
  BY <1>1, <1>2 DEF SourceOrdered, InGroup
<1>5. ReceptionOrdered
  BY <1>1, <1>2, StoppedIs DEF ReceptionOrdered, Newest, ReceiptHeld
<1> QED BY <1>3, <1>4, <1>5 DEF ReceptionInv

(* A newer set on the primary.                                             *)
LEMMA CompletesKeeps ==
    ASSUME ReceptionInv, NEW group \in Groups, Completes(group)
    PROVE  ReceptionInv'
<1> DEFINE new == [group |-> group, id |-> newest + 1]
<1>1. /\ source' = source \cup {new} /\ newest' = newest + 1 /\ newest \in Nat
      /\ UNCHANGED <<held, aside, receipt, progress, reception>>
  BY DEF Completes, ReceptionInv, ReceptionTyped, copies, files
<1>2. new \in Copies /\ new.group = group /\ new.id = newest + 1
  BY <1>1 DEF Copies
<1> HIDE DEF new
<1>3. Known' = Known /\ Wanted' = Wanted /\ Known \subseteq Copies /\ source \subseteq Copies
  BY <1>1 DEF Known, Wanted, ReceptionInv, ReceptionTyped
<1>4. ReceptionTyped'
  BY <1>1, <1>2, <1>3 DEF ReceptionInv, ReceptionTyped, OnePerGroup
<1>5. ASSUME NEW x \in source \cup Known
      PROVE  x \in Copies /\ x.id \in Nat /\ x.id <= newest
  BY <1>3, <1>5 DEF ReceptionInv, SourceOrdered, Behind, Copies
<1>6. SourceOrdered'
  <2>1. \A x \in source' : x.id <= newest'
    BY <1>1, <1>2, <1>5
  <2>2. ASSUME InGroup(AppData, source') # {}
        PROVE  Latest(AppData, source') # {}
    <3>1. CASE group = AppData
      <4>1. new \in Latest(AppData, source')
        BY <1>1, <1>2, <1>5, <3>1 DEF Latest, InGroup
      <4> QED BY <4>1
    <3>2. CASE group # AppData
      <4>1. InGroup(AppData, source') = InGroup(AppData, source)
        BY <1>1, <1>2, <3>2 DEF InGroup
      <4> QED BY <2>2, <4>1 DEF Latest, ReceptionInv, SourceOrdered
    <3> QED BY <3>1, <3>2
  <2>3. ASSUME NEW x \in Known
        PROVE  Behind(x)'
    <3>1. Behind(x) /\ x.id \in Nat /\ x.id <= newest
      BY <1>5, <2>3 DEF ReceptionInv, SourceOrdered
    <3>2. x.id <= newest' /\ x.id < new.id /\ x.id <= new.id
      BY <1>1, <1>2, <3>1
    <3>3. InGroup(AppData, source') # {} => \E a \in InGroup(AppData, source') : x.id <= a.id
      <4>1. CASE group = AppData
        <5>1. new \in InGroup(AppData, source')
          BY <1>1, <1>2, <4>1 DEF InGroup
        <5> QED BY <3>2, <5>1
      <4>2. CASE group # AppData
        BY <1>1, <1>2, <3>1, <4>2 DEF InGroup, Behind
      <4> QED BY <4>1, <4>2
    <3>4. x \in source' \/ \A y \in source' : y.group = x.group => x.id < y.id
      BY <1>1, <3>1, <3>2 DEF Behind
    <3> QED BY <3>2, <3>3, <3>4 DEF Behind
  <2> QED BY <1>3, <2>1, <2>2, <2>3 DEF SourceOrdered
<1>7. ASSUME NEW some \in SUBSET Known, Newest(some)
      PROVE  Newest(some)'
  <2>1. ASSUME NEW a \in some, NEW r \in some, a.group = AppData
        PROVE  /\ r.id <= a.id
               /\ \A x \in source' \cup held' : x.group = r.group /\ x.id <= a.id => x.id <= r.id
    <3>1. a.id \in Nat /\ a.id <= newest
      BY <1>5
    <3>2. ~(new.id <= a.id)
      BY <1>1, <1>2, <3>1
    <3>3. /\ r.id <= a.id
          /\ \A x \in source \cup held : x.group = r.group /\ x.id <= a.id => x.id <= r.id
      BY <1>7, <2>1 DEF Newest
    <3> QED BY <1>1, <3>2, <3>3
  <2> QED BY <2>1 DEF Newest
<1>8. Newest(receipt.sets)' /\ Newest(Wanted)'
  BY <1>1, <1>3, <1>7 DEF Known, ReceptionInv, ReceptionOrdered, Newest
<1>9. ReceptionOrdered'
  BY <1>1, <1>3, <1>8 DEF ReceptionInv, ReceptionOrdered, ReceiptHeld
<1> QED BY <1>4, <1>6, <1>9 DEF ReceptionInv

(* The primary deletes the oldest set of a group that has another.         *)
LEMMA DropKeeps ==
    ASSUME ReceptionInv, ~SourceDeletes, NEW s \in source, SourceDrops(s)
    PROVE  ReceptionInv'
<1>1. /\ source' = source \ {s} /\ Older(s, source) = {} /\ InGroup(s.group, source) # {s}
      /\ UNCHANGED <<newest, held, aside, receipt, progress, reception>>
  BY DEF SourceDrops, copies, files
<1>2. Known' = Known /\ Wanted' = Wanted /\ Known \subseteq Copies /\ source \subseteq Copies /\ s \in Copies
  BY <1>1 DEF Known, Wanted, ReceptionInv, ReceptionTyped
<1>3. PICK t \in source : t.group = s.group /\ t # s
  BY <1>1 DEF InGroup
<1>4. ASSUME NEW y \in source', y.group = s.group
      PROVE  s.id < y.id
  <2>1. y \in Copies /\ y # s /\ ~(y.id < s.id)
    BY <1>1, <1>2, <1>4 DEF Older, InGroup
  <2> QED BY <1>2, <1>4, <2>1 DEF Copies
<1>5. t \in source' /\ s.id < t.id
  BY <1>1, <1>3, <1>4
<1>6. ReceptionTyped'
  BY <1>1, <1>2 DEF ReceptionInv, ReceptionTyped, OnePerGroup
<1>7. SourceOrdered'
  <2>1. \A x \in source' : x.id <= newest'
    BY <1>1 DEF ReceptionInv, SourceOrdered
  <2>2. ASSUME InGroup(AppData, source') # {}
        PROVE  Latest(AppData, source') # {}
    <3>1. InGroup(AppData, source) # {}
      BY <1>1, <2>2 DEF InGroup
    <3>2. PICK a \in Latest(AppData, source) : TRUE
      BY <3>1 DEF ReceptionInv, SourceOrdered
    <3>3. a # s
      BY <1>2, <1>3, <1>5, <3>2 DEF Latest, InGroup, Copies
    <3>4. a \in Latest(AppData, source')
      BY <1>1, <3>2, <3>3 DEF Latest, InGroup
    <3> QED BY <3>4
  <2>3. ASSUME NEW x \in Known
        PROVE  Behind(x)'
    <3>1. Behind(x) /\ x \in Copies
      BY <1>2, <2>3 DEF ReceptionInv, SourceOrdered
    <3>2. x \in source' \/ \A y \in source' : y.group = x.group => x.id < y.id
      BY <1>1, <1>4, <3>1 DEF Behind
    <3>3. ASSUME InGroup(AppData, source') # {}
          PROVE  \E a \in InGroup(AppData, source') : x.id <= a.id
      <4>1. PICK a \in InGroup(AppData, source) : x.id <= a.id
        BY <1>1, <3>1, <3>3 DEF Behind, InGroup
      <4>2. CASE a = s
        <5>1. t \in InGroup(AppData, source') /\ t \in Copies
          BY <1>2, <1>3, <1>5, <4>1, <4>2 DEF InGroup
        <5> QED BY <1>2, <1>5, <3>1, <4>1, <4>2, <5>1 DEF Copies
      <4>3. CASE a # s
        BY <1>1, <4>1, <4>3 DEF InGroup
      <4> QED BY <4>2, <4>3
    <3> QED BY <1>1, <3>1, <3>2, <3>3 DEF Behind
  <2> QED BY <1>2, <2>1, <2>2, <2>3 DEF SourceOrdered
<1>8. ReceptionOrdered'
  BY <1>1, <1>2 DEF ReceptionInv, ReceptionOrdered, ReceiptHeld, Newest
<1> QED BY <1>6, <1>7, <1>8 DEF ReceptionInv

(* The reception asks for nothing older than what the standby knows.       *)
LEMMA StartsReception ==
    ASSUME ReceptionInv, ReceptionStarts
    PROVE  ReceptionInv'
<1>1. /\ reception' = [pc |-> "sets", todo |-> Selected(source), verified |-> {}] /\ progress' = "running"
      /\ UNCHANGED <<source, newest, held, aside, receipt>>
  BY DEF ReceptionStarts, primary, copies
<1>2. source \in SUBSET Copies
  BY DEF ReceptionInv, ReceptionTyped
<1>3. Wanted' = Selected(source) /\ Known' = held \cup receipt.sets \cup Selected(source)
  BY <1>1 DEF Known, Wanted
<1>4. /\ Selected(source) \subseteq source /\ OnePerGroup(Selected(source))
      /\ \A r \in Selected(source) : r.group = AppData => r \in Latest(AppData, source)
      /\ \A r \in Selected(source), a \in Latest(AppData, source) : r.id <= a.id
      /\ \A r \in Selected(source), x \in source :
            x.group = r.group /\ (\A a \in Latest(AppData, source) : x.id <= a.id) => x.id <= r.id
  BY <1>2, SelectedIs
<1>5. ReceptionTyped'
  <2>1. Known' \subseteq Copies
    BY <1>2, <1>3, <1>4 DEF ReceptionInv, ReceptionTyped, Known
  <2>2. OnePerGroup(Wanted)'
    BY <1>3, <1>4 DEF OnePerGroup
  <2>3. /\ reception'.pc = "sets"
        /\ reception' = [pc |-> reception'.pc, todo |-> reception'.todo, verified |-> reception'.verified]
    BY <1>1
  <2> QED BY <1>1, <2>1, <2>2, <2>3 DEF ReceptionInv, ReceptionTyped, OnePerGroup
<1>6. ASSUME NEW x \in Known
      PROVE  Behind(x) /\ x \in Copies
  BY <1>6 DEF ReceptionInv, SourceOrdered, ReceptionTyped
<1>7. ASSUME NEW x \in Known, NEW r \in Selected(source), x.group = r.group
      PROVE  x.id <= r.id
  <2>1. r \in source /\ r \in Copies /\ x \in Copies /\ Behind(x)
    BY <1>2, <1>4, <1>6, <1>7
  <2>2. CASE x \in source
    <3>1. ASSUME NEW a \in Latest(AppData, source)
          PROVE  x.id <= a.id
      <4>1. a \in InGroup(AppData, source) /\ a \in Copies /\ \A b \in InGroup(AppData, source) : b.id <= a.id
        BY <1>2, <3>1 DEF Latest, InGroup
      <4>2. PICK b \in InGroup(AppData, source) : x.id <= b.id
        BY <2>1, <4>1 DEF Behind
      <4>3. b.id <= a.id /\ b \in Copies
        BY <1>2, <4>1, <4>2 DEF InGroup
      <4> QED BY <2>1, <4>1, <4>2, <4>3 DEF Copies
    <3> QED BY <1>4, <1>7, <2>2, <3>1
  <2>3. CASE x \notin source
    BY <1>7, <2>1, <2>3 DEF Behind, Copies
  <2> QED BY <2>2, <2>3
<1>8. SourceOrdered'
  <2>1. ASSUME NEW x \in Selected(source)
        PROVE  Behind(x)
    <3>1. x \in source /\ x.id <= newest
      BY <1>4, <2>1 DEF ReceptionInv, SourceOrdered
    <3>2. ASSUME InGroup(AppData, source) # {}
          PROVE  \E a \in InGroup(AppData, source) : x.id <= a.id
      BY <1>4, <2>1, <3>2 DEF ReceptionInv, SourceOrdered, Latest
    <3> QED BY <3>1, <3>2 DEF Behind
  <2>2. \A x \in Known' : Behind(x)
    BY <1>3, <1>6, <2>1 DEF Known
  <2> QED BY <1>1, <2>2 DEF ReceptionInv, SourceOrdered, Behind
<1>9. Newest(Wanted)'
  <2>1. ASSUME NEW a \in Selected(source), NEW r \in Selected(source), a.group = AppData
        PROVE  /\ r.id <= a.id
               /\ \A x \in source \cup held : x.group = r.group /\ x.id <= a.id => x.id <= r.id
    <3>1. a \in Latest(AppData, source) /\ r.id <= a.id
      BY <1>4, <2>1
    <3>2. ASSUME NEW x \in source, x.group = r.group, x.id <= a.id
          PROVE  x.id <= r.id
      <4>1. \A b \in Latest(AppData, source) : b = a
        BY <1>2, <3>1, LatestIs
      <4> QED BY <1>4, <2>1, <3>2, <4>1
    <3>3. ASSUME NEW x \in held, x.group = r.group
          PROVE  x.id <= r.id
      BY <1>7, <2>1, <3>3 DEF Known
    <3> QED BY <3>1, <3>2, <3>3
  <2> QED BY <1>1, <1>3, <2>1 DEF Newest
<1>10. \A x \in held' \cup receipt'.sets, v \in Wanted' : x.group = v.group => x.id <= v.id
  BY <1>1, <1>3, <1>7 DEF Known
<1>11. ReceptionOrdered'
  BY <1>1, <1>9, <1>10 DEF ReceptionInv, ReceptionOrdered, ReceiptHeld, Newest
<1> QED BY <1>5, <1>8, <1>11 DEF ReceptionInv

LEMMA ReceivesKeeps ==
    ASSUME ReceptionInv, NEW s, ReceivesSet(s)
    PROVE  ReceptionInv'
<1>1. /\ reception.pc = "sets" /\ s \in reception.todo /\ s \in held \cup source
      /\ held' = held \cup {s} /\ UNCHANGED <<source, newest, aside, receipt, progress>>
  BY DEF ReceivesSet, Acceptable, primary, files
<1>2. reception = [pc |-> "sets", todo |-> reception.todo, verified |-> reception.verified]
  BY <1>1 DEF ReceptionInv, ReceptionTyped
<1>3. reception' = [pc |-> "sets", todo |-> reception.todo \ {s}, verified |-> reception.verified \cup {s}]
  BY <1>2 DEF ReceivesSet
<1>4. Wanted' = Wanted /\ Known' = Known /\ s \in Wanted
  BY <1>1, <1>3 DEF Known, Wanted
<1>5. ReceptionTyped'
  <2>1. IsFiniteSet(held')
    BY <1>1, FS_AddElement DEF ReceptionInv, ReceptionTyped
  <2> QED BY <1>1, <1>3, <1>4, <2>1 DEF ReceptionInv, ReceptionTyped, OnePerGroup
<1>6. SourceOrdered'
  BY <1>1, <1>4 DEF ReceptionInv, SourceOrdered, Behind
<1>7. Newest(receipt.sets)' /\ Newest(Wanted)'
  BY <1>1, <1>4 DEF ReceptionInv, ReceptionOrdered, Newest
<1>8. s \in Copies /\ \A v \in Wanted : v.group = s.group => v = s
  BY <1>4 DEF ReceptionInv, ReceptionTyped, OnePerGroup, Known
<1>9. \A x \in held' \cup receipt'.sets, v \in Wanted' : x.group = v.group => x.id <= v.id
  BY <1>1, <1>4, <1>8 DEF ReceptionInv, ReceptionOrdered, Copies
<1>10. reception'.verified \subseteq held' \cup aside' /\ progress' = "running" /\ ReceiptHeld'
  BY <1>1, <1>3 DEF ReceptionInv, ReceptionOrdered, ReceiptHeld
<1>11. ASSUME NEW h \in held', NEW r \in receipt.sets, h.group = r.group, h.id < r.id
       PROVE  r \in held' \cup aside'
  <2>1. CASE h \in held
    BY <1>1, <1>11, <2>1 DEF ReceptionInv, ReceptionOrdered
  <2>2. CASE h = s
    <3>1. r.id <= s.id /\ r \in Copies
      BY <1>4, <1>11, <2>2 DEF ReceptionInv, ReceptionOrdered, ReceptionTyped, Known
    <3> QED BY <1>8, <1>11, <2>2, <3>1 DEF Copies
  <2> QED BY <1>1, <2>1, <2>2
<1>12. ReceptionOrdered'
  BY <1>1, <1>7, <1>9, <1>10, <1>11 DEF ReceptionOrdered
<1> QED BY <1>5, <1>6, <1>12 DEF ReceptionInv

(* The receiver's retention spares what was received: nothing is newer.    *)
LEMMA PrunesKeeps ==
    ASSUME ReceptionInv, Prunes
    PROVE  ReceptionInv'
<1> DEFINE groups == {s.group : s \in reception.verified}
           beyond == BeyondRetention(groups)
<1>1. /\ reception.pc = "sets" /\ reception.todo = {} /\ held' = held \ beyond
      /\ UNCHANGED <<source, newest, aside, receipt, progress>>
  BY DEF Prunes, primary, files
<1>2. /\ reception = [pc |-> "sets", todo |-> reception.todo, verified |-> reception.verified]
      /\ Wanted = reception.verified
  BY <1>1 DEF ReceptionInv, ReceptionTyped, Wanted
<1>3. reception' = [pc |-> "receipt", todo |-> {}, verified |-> reception.verified]
  BY <1>1, <1>2 DEF Prunes
<1>4. Wanted' = Wanted /\ Known' \subseteq Known /\ held \subseteq Copies /\ IsFiniteSet(held)
  BY <1>1, <1>2, <1>3 DEF Known, Wanted, ReceptionInv, ReceptionTyped
<1>5. \A s \in beyond : s \in held /\ s.group \in groups
                        /\ Cardinality({t \in InGroup(s.group, held) : t.id > s.id}) >= Retention
  BY DEF BeyondRetention
<1>6. Retention \in Nat /\ Retention > 0
  BY BackupReceptionAssumption
<1>7. ASSUME NEW v \in reception.verified
      PROVE  v \notin beyond
  <2>1. \A t \in InGroup(v.group, held) : t \in Copies /\ v \in Copies /\ t.id <= v.id
    BY <1>2, <1>4, <1>7 DEF InGroup, ReceptionInv, ReceptionOrdered, ReceptionTyped, Known
  <2>2. {t \in InGroup(v.group, held) : t.id > v.id} = {}
    BY <2>1 DEF Copies
  <2>3. Cardinality({t \in InGroup(v.group, held) : t.id > v.id}) = 0
    BY <2>2, FS_EmptySet
  <2> QED BY <1>5, <1>6, <2>3
<1>8. ASSUME NEW h \in held, NEW r \in beyond, h.group = r.group, h.id < r.id
      PROVE  h \in beyond
  <2> DEFINE overR == {t \in InGroup(r.group, held) : t.id > r.id}
             overH == {t \in InGroup(h.group, held) : t.id > h.id}
  <2>1. h \in Copies /\ r \in Copies
    BY <1>4, <1>5
  <2>2. overR \subseteq overH /\ overH \subseteq held
    BY <1>4, <1>8, <2>1 DEF InGroup, Copies
  <2>3. IsFiniteSet(overH)
    BY <1>4, <2>2, FS_Subset
  <2> HIDE DEF overR, overH
  <2>4. Cardinality(overR) <= Cardinality(overH) /\ Cardinality(overR) \in Nat /\ Cardinality(overH) \in Nat
    BY <2>2, <2>3, FS_Subset, FS_CardinalityType
  <2>5. Cardinality(overR) >= Retention /\ h.group \in groups
    BY <1>5, <1>8 DEF overR
  <2>6. Cardinality(overH) >= Retention
    BY <1>6, <2>4, <2>5
  <2> QED BY <1>8, <2>5, <2>6 DEF BeyondRetention, overH
<1> HIDE DEF beyond, groups
<1>9. ReceptionTyped'
  <2>1. IsFiniteSet(held')
    BY <1>1, <1>4, FS_Subset
  <2> QED BY <1>1, <1>3, <1>4, <2>1 DEF ReceptionInv, ReceptionTyped, OnePerGroup
<1>10. SourceOrdered'
  BY <1>1, <1>4 DEF ReceptionInv, SourceOrdered, Behind
<1>11. Newest(receipt.sets)' /\ Newest(Wanted)'
  BY <1>1, <1>4 DEF ReceptionInv, ReceptionOrdered, Newest
<1>12. \A x \in held' \cup receipt'.sets, v \in Wanted' : x.group = v.group => x.id <= v.id
  BY <1>1, <1>4 DEF ReceptionInv, ReceptionOrdered
<1>13. progress' = "running" /\ reception'.verified \subseteq held' \cup aside'
  BY <1>1, <1>3, <1>7 DEF ReceptionInv, ReceptionOrdered
<1>14. ASSUME NEW h \in held', NEW r \in receipt.sets, h.group = r.group, h.id < r.id
       PROVE  r \in held' \cup aside'
  BY <1>1, <1>8, <1>14 DEF ReceptionInv, ReceptionOrdered
<1>15. ReceptionOrdered'
  BY <1>1, <1>11, <1>12, <1>13, <1>14 DEF ReceptionOrdered, ReceiptHeld
<1> QED BY <1>9, <1>10, <1>15 DEF ReceptionInv

LEMMA PublishesKeeps ==
    ASSUME ReceptionInv, PublishesReceipt
    PROVE  ReceptionInv'
<1>1. /\ reception.pc = "receipt" /\ receipt' = [no |-> receipt.no + 1, sets |-> reception.verified]
      /\ reception' = Stopped /\ aside' = aside \ held /\ UNCHANGED <<source, newest, held>>
  BY DEF PublishesReceipt, primary
<1>2. Wanted = reception.verified /\ Wanted' = {} /\ Known' \subseteq Known
  BY <1>1, StoppedIs DEF Wanted, Known, ReceptionInv, ReceptionTyped
<1>3. ReceptionTyped'
  <2>1. receipt.no + 1 \in Nat /\ OnePerGroup(reception.verified)
    BY <1>2 DEF ReceptionInv, ReceptionTyped
  <2> QED BY <1>1, <1>2, <2>1, StoppedIs DEF ReceptionInv, ReceptionTyped, OnePerGroup
<1>4. SourceOrdered'
  BY <1>1, <1>2 DEF ReceptionInv, SourceOrdered, Behind
<1>5. Newest(receipt.sets)' /\ Newest(Wanted)'
  BY <1>1, <1>2 DEF ReceptionInv, ReceptionOrdered, Newest
<1>6. reception.verified \subseteq held' \cup aside'
  BY <1>1 DEF ReceptionInv, ReceptionOrdered
<1>7. ReceptionOrdered'
  BY <1>1, <1>2, <1>5, <1>6, StoppedIs DEF ReceptionOrdered, ReceiptHeld
<1> QED BY <1>3, <1>4, <1>7 DEF ReceptionInv

(* The reception fails, or ends with the host.                             *)
LEMMA StopsReception ==
    ASSUME ReceptionInv, UNCHANGED <<source, newest, held, aside, receipt>>,
           reception' = Stopped, progress' = "failed" \/ progress' = progress
    PROVE  ReceptionInv'
<1>1. Wanted' = {} /\ Known' \subseteq Known
  BY StoppedIs DEF Wanted, Known
<1>2. ReceptionTyped'
  BY <1>1, StoppedIs DEF ReceptionInv, ReceptionTyped, OnePerGroup
<1>3. SourceOrdered'
  BY <1>1 DEF ReceptionInv, SourceOrdered, Behind
<1>4. ReceptionOrdered'
  BY <1>1, StoppedIs DEF ReceptionInv, ReceptionOrdered, ReceiptHeld, Newest
<1> QED BY <1>2, <1>3, <1>4 DEF ReceptionInv

(* The operator moves a damaged set out.                                   *)
LEMMA QuarantineKeeps ==
    ASSUME ReceptionInv, NEW s, Quarantines(s)
    PROVE  ReceptionInv'
<1>1. /\ held' = held \ {s} /\ aside' = aside \cup {s}
      /\ UNCHANGED <<source, newest, receipt, progress, reception>>
  BY DEF Quarantines, primary, files
<1>2. Wanted' = Wanted /\ Known' \subseteq Known
  BY <1>1 DEF Wanted, Known
<1>3. ReceptionTyped'
  <2>1. IsFiniteSet(held')
    BY <1>1, FS_Subset DEF ReceptionInv, ReceptionTyped
  <2> QED BY <1>1, <1>2, <2>1 DEF ReceptionInv, ReceptionTyped, OnePerGroup
<1>4. SourceOrdered'
  BY <1>1, <1>2 DEF ReceptionInv, SourceOrdered, Behind
<1>5. Newest(receipt.sets)' /\ Newest(Wanted)'
  BY <1>1, <1>2 DEF ReceptionInv, ReceptionOrdered, Newest
<1>6. ReceptionOrdered'
  BY <1>1, <1>2, <1>5 DEF ReceptionInv, ReceptionOrdered, ReceiptHeld
<1> QED BY <1>3, <1>4, <1>6 DEF ReceptionInv

(* All the other processes leave what the receiver keeps alone.            *)
LEMMA ReceptionNextKeeps ==
    ASSUME ReceptionInv, ~SourceDeletes, [ReceptionNext]_receptionVars
    PROVE  ReceptionInv'
<1>1. CASE Receives
  <2>1. CASE ReceptionFails
    BY <2>1, StopsReception DEF ReceptionFails, primary, copies
  <2> QED BY <1>1, <2>1, StartsReception, ReceivesKeeps, PrunesKeeps, PublishesKeeps DEF Receives
<1>2. CASE DeepVerifies \/ Prepares \/ Promotes
  BY <1>2, ReceptionStays
     DEF DeepVerifies, Prepares, Promotes, ServiceRefused, VerificationStarts, Hashes, VerificationEnds,
         VerificationFails, VerifiesSet, PreparationStarts, PreparationLocks, PreparationRefused, ExtractsSets,
         SwapsIn, MarksPrepared, PreparationFails, PromotionStarts, PromotionEnds, primary, copies, files
<1>3. CASE Environment
  <2>1. CASE Reboots
    BY <2>1, StopsReception DEF Reboots, primary, copies
  <2>2. CASE ClearsIncoming \/ StopsContainers \/ \E s \in held : Rots(s)
    BY <2>2, ReceptionStays DEF ClearsIncoming, StopsContainers, Rots, primary, copies, files
  <2>3. CASE \E s \in held : Quarantines(s)
    BY <2>3, QuarantineKeeps
  <2>4. CASE \E group \in Groups : Completes(group)
    BY <2>4, CompletesKeeps
  <2>5. CASE \E s \in source : SourceDrops(s)
    BY <2>5, DropKeeps
  <2> QED BY <1>3, <2>1, <2>2, <2>3, <2>4, <2>5 DEF Environment
<1>4. CASE UNCHANGED receptionVars
  BY <1>4, ReceptionStays DEF receptionVars, primary, copies, files
<1> QED BY <1>1, <1>2, <1>3, <1>4 DEF ReceptionNext

(* What a successful reception attests is on the standby, but for what the *)
(* operator moved out: retention in receive-backups.sh, which runs before  *)
(* the receipt is written, never removes it, if the sets of the primary    *)
(* are deleted by its own retention only.                                  *)
THEOREM ReceiptKept ==
    ASSUME ~SourceDeletes
    PROVE  ReceptionSpec => []ReceiptHeld
<1>1. ReceptionInv /\ [ReceptionNext]_receptionVars => ReceptionInv'
  BY ReceptionNextKeeps
<1>2. ReceptionInv => ReceiptHeld
  BY DEF ReceptionInv, ReceptionOrdered
<1> QED BY <1>1, <1>2, ReceptionInitHolds, PTL DEF ReceptionSpec

-----------------------------------------------------------------------------
(* Who works has the lock.                                                 *)

LEMMA LockKeeps ==
    ASSUME LockTrue, VerificationInv, PreparationInv, [ReceptionNext]_receptionVars
    PROVE  LockTrue'
<1>1. verifier \in [Verifiers -> Tasks \cup {Stopped}] /\ "service" \in Verifiers
  BY DEF VerificationInv, Verifiers
<1>2. CASE Receives
  <2>1. UNCHANGED <<verifier, preparation>>
    BY <1>2 DEF Receives, ReceptionStarts, ReceivesSet, Prunes, PublishesReceipt, ReceptionFails
  <2>2. CASE ReceptionStarts
    BY <2>1, <2>2 DEF ReceptionStarts, LockTrue
  <2>3. CASE PublishesReceipt \/ ReceptionFails
    BY <2>1, <2>3, StoppedIs DEF PublishesReceipt, ReceptionFails, LockTrue
  <2>4. CASE Prunes \/ \E s \in source \cup held : ReceivesSet(s)
    <3>1. reception.pc = "sets" /\ UNCHANGED flock
      BY <2>4 DEF Prunes, ReceivesSet
    <3> QED BY <2>1, <3>1 DEF LockTrue
  <2> QED BY <1>2, <2>2, <2>3, <2>4 DEF Receives
<1>3. CASE DeepVerifies
  <2>1. UNCHANGED <<reception, preparation>>
    BY <1>3 DEF DeepVerifies, ServiceRefused, VerificationStarts, Hashes, VerificationEnds, VerificationFails, VerifiesSet
  <2>2. CASE ServiceRefused
    BY <2>1, <2>2 DEF ServiceRefused, LockTrue
  <2>3. ASSUME NEW v \in Verifiers, VerificationStarts(v)
        PROVE  LockTrue'
    <3>1. CASE v = "service"
      BY <2>1, <2>3, <3>1 DEF VerificationStarts, LockTrue
    <3>2. CASE v # "service"
      BY <1>1, <2>1, <2>3, <3>2 DEF VerificationStarts, LockTrue
    <3> QED BY <3>1, <3>2
  <2>4. ASSUME NEW v \in Verifiers, Hashes(v) \/ \E s \in held : VerifiesSet(v, s)
        PROVE  LockTrue'
    <3>1. verifier[v].pc # "stopped" /\ UNCHANGED flock /\ (v # "service" => verifier'["service"] = verifier["service"])
      BY <1>1, <2>4 DEF Hashes, VerifiesSet, Verifying
    <3> QED BY <2>1, <3>1 DEF LockTrue
  <2>5. ASSUME NEW v \in Verifiers, VerificationEnds(v) \/ VerificationFails(v)
        PROVE  LockTrue'
    <3>1. verifier' = [verifier EXCEPT ![v] = Stopped] /\ Releases(v) /\ verifier[v].pc = "sets"
      BY <2>5 DEF VerificationEnds, VerificationFails, Verifying
    <3>2. CASE v = "service"
      BY <1>1, <2>1, <3>1, <3>2, StoppedIs DEF Releases, LockTrue
    <3>3. CASE v # "service"
      BY <1>1, <2>1, <3>1, <3>3 DEF Releases, LockTrue
    <3> QED BY <3>2, <3>3
  <2> QED BY <1>3, <2>2, <2>3, <2>4, <2>5 DEF DeepVerifies
<1>4. CASE Prepares
  <2>1. UNCHANGED <<reception, verifier>>
    BY <1>4 DEF Prepares, PreparationStarts, PreparationLocks, PreparationRefused, ExtractsSets, SwapsIn,
                MarksPrepared, PreparationFails
  <2>2. CASE PreparationStarts \/ PreparationRefused
    BY <2>1, <2>2, StoppedIs DEF PreparationStarts, PreparationRefused, LockTrue
  <2>3. CASE PreparationLocks
    BY <2>1, <2>3 DEF PreparationLocks, MayPrepare, LockTrue
  <2>4. CASE ExtractsSets \/ SwapsIn
    <3>1. flock = "preparation" /\ UNCHANGED flock
      BY <2>4 DEF ExtractsSets, SwapsIn, Preparing, LockTrue
    <3> QED BY <2>1, <3>1 DEF LockTrue
  <2>5. CASE MarksPrepared \/ PreparationFails
    BY <2>1, <2>5, StoppedIs DEF MarksPrepared, PreparationFails, Preparing, LockTrue
  <2> QED BY <1>4, <2>2, <2>3, <2>4, <2>5 DEF Prepares
<1>5. CASE Promotes
  BY <1>5 DEF Promotes, PromotionStarts, PromotionEnds, LockTrue
<1>6. CASE Environment
  <2>1. CASE Reboots
    BY <2>1, StoppedIs DEF Reboots, LockTrue, Verifiers
  <2>2. CASE ~Reboots
    BY <1>6, <2>2 DEF Environment, ClearsIncoming, StopsContainers, Completes, SourceDrops, Rots, Quarantines, LockTrue
  <2> QED BY <2>1, <2>2
<1>7. CASE UNCHANGED receptionVars
  BY <1>7 DEF receptionVars, LockTrue
<1> QED BY <1>2, <1>3, <1>4, <1>5, <1>6, <1>7 DEF ReceptionNext

-----------------------------------------------------------------------------
(* The deep verifications                                                  *)

LEMMA VerificationStays ==
    ASSUME VerificationInv, UNCHANGED <<receipt, verifier, deep>>
    PROVE  VerificationInv'
  BY DEF VerificationInv

LEMMA TaskStopped == \A t \in Tasks : t.pc # "stopped"
  BY DEF Tasks

(* One verification goes on; what it knows is of the current receipt.      *)
LEMMA VerifierMoves ==
    ASSUME VerificationInv, UNCHANGED <<receipt, deep>>, NEW v \in Verifiers, NEW t \in Tasks \cup {Stopped},
           verifier' = [verifier EXCEPT ![v] = t],
           t.pc # "stopped" =>
               /\ t.receipt <= receipt.no /\ (t.pc = "hash" => t.receipt = receipt.no)
               /\ t.receipt = receipt.no => t.todo \cup t.read = receipt.sets
    PROVE  VerificationInv'
<1>1. verifier' \in [Verifiers -> Tasks \cup {Stopped}]
  BY DEF VerificationInv
<1>2. ASSUME NEW w \in Verifiers, verifier'[w].pc # "stopped"
      PROVE  /\ verifier'[w].receipt <= receipt'.no
             /\ verifier'[w].pc = "hash" => verifier'[w].receipt = receipt'.no
             /\ verifier'[w].receipt = receipt'.no => verifier'[w].todo \cup verifier'[w].read = receipt'.sets
  BY <1>2 DEF VerificationInv
<1> QED BY <1>1, <1>2 DEF VerificationInv

LEMMA VerificationKeeps ==
    ASSUME VerificationInv, ReceptionInv, ~TornReads, [ReceptionNext]_receptionVars
    PROVE  VerificationInv'
<1>1. receipt.no \in Nat /\ receipt.sets \subseteq Copies
  BY DEF ReceptionInv, ReceptionTyped, Known
<1>2. CASE Receives
  <2>1. UNCHANGED <<verifier, deep>>
    BY <1>2 DEF Receives, ReceptionStarts, ReceivesSet, Prunes, PublishesReceipt, ReceptionFails
  <2>2. CASE PublishesReceipt
    <3>1. receipt'.no = receipt.no + 1 /\ \A v \in Verifiers : verifier[v].pc # "hash"
      BY <2>2 DEF PublishesReceipt
    <3>2. ASSUME NEW v \in Verifiers, verifier[v].pc # "stopped"
          PROVE  verifier[v].receipt <= receipt'.no /\ verifier[v].receipt # receipt'.no
      <4>1. verifier[v] \in Tasks /\ verifier[v].receipt <= receipt.no
        BY <3>2, StoppedIs DEF VerificationInv
      <4> QED BY <1>1, <3>1, <4>1 DEF Tasks
    <3>3. deep.receipt <= receipt'.no /\ deep.receipt # receipt'.no
      BY <1>1, <3>1 DEF VerificationInv
    <3> QED BY <2>1, <3>1, <3>2, <3>3 DEF VerificationInv
  <2>3. CASE ~PublishesReceipt
    <3>1. UNCHANGED receipt
      BY <1>2, <2>3 DEF Receives, ReceptionStarts, ReceivesSet, Prunes, ReceptionFails, files
    <3> QED BY <2>1, <3>1, VerificationStays
  <2> QED BY <2>2, <2>3
<1>3. CASE DeepVerifies
  <2>1. UNCHANGED receipt
    BY <1>3 DEF DeepVerifies, ServiceRefused, VerificationStarts, Hashes, VerificationEnds, VerificationFails,
                VerifiesSet, files
  <2>2. CASE ServiceRefused
    BY <2>1, <2>2, VerificationStays DEF ServiceRefused
  <2>3. ASSUME NEW v \in Verifiers, VerificationStarts(v)
        PROVE  VerificationInv'
    <3> DEFINE t == [pc |-> "hash", receipt |-> receipt.no, todo |-> receipt.sets, read |-> {}]
    <3>1. t \in Tasks /\ t.receipt = receipt.no /\ t.receipt <= receipt.no /\ t.todo \cup t.read = receipt.sets
      BY <1>1 DEF Tasks
    <3>2. verifier' = [verifier EXCEPT ![v] = t] /\ UNCHANGED <<receipt, deep>>
      BY <2>1, <2>3 DEF VerificationStarts
    <3> HIDE DEF t
    <3> QED BY <1>1, <3>1, <3>2, VerifierMoves
  <2>4. ASSUME NEW v \in Verifiers, Hashes(v)
        PROVE  VerificationInv'
    <3> DEFINE t == [verifier[v] EXCEPT !.pc = "sets", !.receipt = receipt.no]
    <3>1. verifier[v] \in Tasks /\ verifier[v].todo \cup verifier[v].read = receipt.sets
      BY <2>4, StoppedIs DEF Hashes, Verifying, VerificationInv
    <3>2. verifier' = [verifier EXCEPT ![v] = t] /\ UNCHANGED <<receipt, deep>>
      BY <2>1, <2>4 DEF Hashes, VerificationInv
    <3>3. /\ t \in Tasks /\ t.pc = "sets" /\ t.receipt = receipt.no /\ t.receipt <= receipt.no
          /\ t.todo = verifier[v].todo /\ t.read = verifier[v].read
      <4>1. ASSUME NEW r, r = t
            PROVE  r = [pc |-> "sets", receipt |-> receipt.no, todo |-> verifier[v].todo, read |-> verifier[v].read]
        BY <3>1, <4>1 DEF Tasks
      <4> HIDE DEF t
      <4>2. t = [pc |-> "sets", receipt |-> receipt.no, todo |-> verifier[v].todo, read |-> verifier[v].read]
        BY <4>1
      <4>3. verifier[v].todo \subseteq Copies /\ verifier[v].read \subseteq Copies
        BY <3>1 DEF Tasks
      <4> QED BY <1>1, <4>2, <4>3 DEF Tasks
    <3> HIDE DEF t
    <3> QED BY <1>1, <3>1, <3>2, <3>3, VerifierMoves
  <2>5. ASSUME NEW v \in Verifiers, NEW s \in held, VerifiesSet(v, s)
        PROVE  VerificationInv'
    <3> DEFINE t == [verifier[v] EXCEPT !.todo = @ \ {s}, !.read = @ \cup {s}]
    <3>1. /\ verifier[v] \in Tasks /\ verifier[v].pc = "sets" /\ s \in verifier[v].todo
          /\ verifier[v].receipt <= receipt.no
          /\ verifier[v].receipt = receipt.no => verifier[v].todo \cup verifier[v].read = receipt.sets
      BY <2>5, StoppedIs DEF VerifiesSet, Verifying, VerificationInv
    <3>2. verifier' = [verifier EXCEPT ![v] = t] /\ UNCHANGED <<receipt, deep>>
      BY <2>1, <2>5 DEF VerifiesSet, VerificationInv
    <3>3. /\ t \in Tasks /\ t.pc = "sets" /\ t.receipt = verifier[v].receipt
          /\ t.todo = verifier[v].todo \ {s} /\ t.read = verifier[v].read \cup {s}
      BY <3>1 DEF Tasks
    <3>4. t.todo \cup t.read = verifier[v].todo \cup verifier[v].read
      BY <3>1, <3>3
    <3> HIDE DEF t
    <3> QED BY <3>1, <3>2, <3>3, <3>4, VerifierMoves
  <2>6. ASSUME NEW v \in Verifiers, VerificationFails(v)
        PROVE  VerificationInv'
    <3>1. verifier' = [verifier EXCEPT ![v] = Stopped] /\ UNCHANGED <<receipt, deep>>
      BY <2>1, <2>6 DEF VerificationFails
    <3> QED BY <3>1, StoppedIs, VerifierMoves
  <2>7. ASSUME NEW v \in Verifiers, VerificationEnds(v)
        PROVE  VerificationInv'
    <3>1. /\ verifier[v] \in Tasks /\ verifier[v].todo = {} /\ verifier[v].receipt <= receipt.no
          /\ verifier[v].receipt = receipt.no => verifier[v].todo \cup verifier[v].read = receipt.sets
      BY <2>7, StoppedIs DEF VerificationEnds, Verifying, VerificationInv
    <3>2. /\ deep' = [no |-> deep.no + 1, receipt |-> verifier[v].receipt, read |-> verifier[v].read]
          /\ verifier' = [verifier EXCEPT ![v] = Stopped]
      BY <2>7 DEF VerificationEnds, Bound
    <3>3. deep'.no \in Nat /\ deep'.receipt \in Nat /\ deep'.receipt <= receipt'.no
      BY <2>1, <3>1, <3>2 DEF VerificationInv, Tasks
    <3>4. deep'.receipt = receipt'.no => deep'.read = receipt'.sets
      BY <2>1, <3>1, <3>2
    <3>5. verifier' \in [Verifiers -> Tasks \cup {Stopped}]
      BY <3>2 DEF VerificationInv
    <3>6. \A w \in Verifiers : verifier'[w].pc # "stopped" => verifier'[w] = verifier[w]
      BY <3>2, StoppedIs DEF VerificationInv
    <3> QED BY <2>1, <3>3, <3>4, <3>5, <3>6 DEF VerificationInv
  <2> QED BY <1>3, <2>2, <2>3, <2>4, <2>5, <2>6, <2>7 DEF DeepVerifies
<1>4. CASE Prepares \/ Promotes
  BY <1>4, VerificationStays
     DEF Prepares, PreparationStarts, PreparationLocks, PreparationRefused, ExtractsSets, SwapsIn,
         MarksPrepared, PreparationFails, Promotes, PromotionStarts, PromotionEnds, files
<1>5. CASE Environment
  <2>1. CASE Reboots
    <3>1. verifier' = [v \in Verifiers |-> Stopped] /\ UNCHANGED <<receipt, deep>>
      BY <2>1 DEF Reboots
    <3> QED BY <3>1, StoppedIs DEF VerificationInv
  <2>2. CASE ~Reboots
    BY <1>5, <2>2, VerificationStays
       DEF Environment, ClearsIncoming, StopsContainers, Completes, SourceDrops, Rots, Quarantines, files
  <2> QED BY <2>1, <2>2
<1>6. CASE UNCHANGED receptionVars
  BY <1>6, VerificationStays DEF receptionVars, files
<1> QED BY <1>2, <1>3, <1>4, <1>5, <1>6 DEF ReceptionNext

-----------------------------------------------------------------------------
(* The preparation, and what it leaves marked.                             *)

LEMMA PreparationStays ==
    ASSUME PreparationInv, MarkerInv, UNCHANGED <<receipt, deep, preparation, disk, marker>>,
           rotten' \subseteq rotten, aside \subseteq aside'
    PROVE  PreparationInv' /\ MarkerInv'
  BY DEF PreparationInv, PreparationTyped, PreparationTrue, MarkerInv, Fits, Prepared, OnePerGroup

(* The sets chosen under the current receipt are those it names, or these  *)
(* were moved out: nothing else is newer, and of what is older the standby *)
(* has the newest only if it has lost the one the receipt names.           *)
LEMMA ChosenFits ==
    ASSUME ReceptionInv
    PROVE  Fits(Chosen) /\ Chosen \subseteq held /\ OnePerGroup(Chosen)
<1>1. held \in SUBSET Copies /\ receipt.sets \subseteq Copies
  BY DEF ReceptionInv, ReceptionTyped, Known
<1>2. /\ Chosen \subseteq held /\ OnePerGroup(Chosen)
      /\ \A r \in Chosen : r.group = AppData => r \in Latest(AppData, held)
      /\ \A r \in Chosen, a \in Latest(AppData, held) : r.id <= a.id
      /\ \A r \in Chosen, x \in held :
            x.group = r.group /\ (\A a \in Latest(AppData, held) : x.id <= a.id) => x.id <= r.id
  BY <1>1, SelectedIs, ChosenIsSelected
<1>3. ASSUME NEW a \in Chosen \cap receipt.sets, NEW m \in Chosen, NEW r \in receipt.sets,
             a.group = AppData, m.group = r.group, r \notin aside
      PROVE  m = r
  <2>1. a \in Latest(AppData, held) /\ \A b \in Latest(AppData, held) : b = a
    BY <1>1, <1>2, <1>3, LatestIs
  <2>2. m \in held /\ m.id <= a.id /\ m \in Copies /\ r \in Copies
    BY <1>1, <1>2, <1>3, <2>1
  <2>3. r.id <= a.id /\ m.id <= r.id
    BY <1>3, <2>2 DEF ReceptionInv, ReceptionOrdered, Newest
  <2>4. r \in held => r.id <= m.id
    BY <1>2, <1>3, <2>1, <2>3
  <2>5. m.id < r.id => r \in held
    BY <1>3, <2>2 DEF ReceptionInv, ReceptionOrdered
  <2>6. m.id = r.id
    BY <2>2, <2>3, <2>4, <2>5 DEF Copies
  <2> QED BY <1>3, <2>2, <2>6 DEF Copies
<1> QED BY <1>2, <1>3 DEF Fits

LEMMA PreparationInitHolds == ReceptionInit => LockTrue /\ VerificationInv /\ PreparationInv /\ MarkerInv
<1> SUFFICES ASSUME ReceptionInit PROVE LockTrue /\ VerificationInv /\ PreparationInv /\ MarkerInv
  OBVIOUS
<1>1. /\ receipt.no = 0 /\ receipt.sets = {} /\ deep = [no |-> 0, receipt |-> 0, read |-> {}]
      /\ marker = [sets |-> {}, receipt |-> 0, deep |-> 0]
      /\ reception = Stopped /\ preparation = Stopped /\ verifier = [v \in Verifiers |-> Stopped]
  BY DEF ReceptionInit, None
<1>2. LockTrue
  BY <1>1, StoppedIs DEF LockTrue, Verifiers
<1>3. VerificationInv
  BY <1>1, StoppedIs DEF VerificationInv
<1>4. PreparationInv
  BY <1>1, StoppedIs DEF PreparationInv, PreparationTyped, PreparationTrue
<1>5. MarkerInv
  BY <1>1 DEF MarkerInv, OnePerGroup, Prepared
<1> QED BY <1>2, <1>3, <1>4, <1>5

(* A new receipt or a new result makes what was prepared out of date.      *)
LEMMA OutOfDate ==
    ASSUME PreparationInv, MarkerInv, receipt.no \in Nat, deep.no \in Nat,
           UNCHANGED <<preparation, disk, marker, rotten>>,
           \/ /\ receipt'.no = receipt.no + 1 /\ UNCHANGED deep /\ deep.receipt <= receipt.no /\ deep.receipt \in Nat
              /\ preparation.pc \notin {"extract", "swap", "import"}
           \/ /\ deep'.no = deep.no + 1 /\ UNCHANGED <<receipt, aside>>
              /\ preparation.pc = "lock" => preparation.receipt = receipt.no
    PROVE  PreparationInv' /\ MarkerInv'
<1>1. ~Prepared'
  <2>1. marker.receipt \in Nat /\ marker.receipt <= receipt.no /\ marker.deep \in Nat /\ marker.deep <= deep.no
    BY DEF MarkerInv
  <2>2. CASE receipt'.no = receipt.no + 1
    BY <2>1, <2>2 DEF Prepared
  <2>3. CASE deep'.no = deep.no + 1
    BY <2>1, <2>3 DEF Prepared
  <2> QED BY <2>2, <2>3
<1>2. MarkerInv'
  <2>1. marker'.receipt <= receipt'.no /\ marker'.deep <= deep'.no
    BY DEF MarkerInv
  <2> QED BY <1>1, <2>1 DEF MarkerInv, OnePerGroup
<1>3. PreparationTyped'
  BY DEF PreparationInv, PreparationTyped, OnePerGroup
<1>4. CASE preparation.pc = "stopped"
  BY <1>2, <1>3, <1>4 DEF PreparationInv, PreparationTrue
<1>5. CASE preparation.pc # "stopped"
  <2>1. /\ preparation.sets \cap rotten = {}
        /\ preparation.receipt \in Nat /\ preparation.receipt <= receipt.no
        /\ preparation.deep \in Nat /\ preparation.deep <= deep.no
        /\ preparation.receipt = receipt.no => Fits(preparation.sets)
        /\ preparation.pc \in {"extract", "swap", "import"} => preparation.receipt = receipt.no
        /\ preparation.pc = "import" =>
              disk = [sets |-> preparation.sets, spoiled |-> FALSE, imported |-> FALSE]
    BY <1>5 DEF PreparationInv, PreparationTyped, PreparationTrue
  <2>2. CASE /\ receipt'.no = receipt.no + 1 /\ UNCHANGED deep /\ deep.receipt <= receipt.no /\ deep.receipt \in Nat
             /\ preparation.pc \notin {"extract", "swap", "import"}
    <3>1. preparation.receipt <= receipt'.no /\ preparation.receipt # receipt'.no /\ deep'.receipt # receipt'.no
      BY <2>1, <2>2
    <3>2. PreparationTrue'
      BY <1>1, <2>1, <2>2, <3>1 DEF PreparationTrue
    <3> QED BY <1>2, <1>3, <3>2 DEF PreparationInv
  <2>3. CASE /\ deep'.no = deep.no + 1 /\ UNCHANGED <<receipt, aside>>
             /\ preparation.pc = "lock" => preparation.receipt = receipt.no
    <3>1. preparation.deep <= deep'.no /\ preparation.deep # deep'.no
      BY <2>1, <2>3
    <3>2. preparation.receipt = receipt.no => Fits(preparation.sets)'
      BY <2>1, <2>3 DEF Fits
    <3>3. PreparationTrue'
      BY <1>1, <2>1, <2>3, <3>1, <3>2 DEF PreparationTrue
    <3> QED BY <1>2, <1>3, <3>3 DEF PreparationInv
  <2> QED BY <2>2, <2>3
<1> QED BY <1>4, <1>5

LEMMA NotPreparing ==
    ASSUME PreparationTyped
    PROVE  preparation.pc = "stopped" \/ preparation.pc = "lock" \/ preparation.pc \in {"extract", "swap", "import"}
  BY DEF PreparationTyped, Works

(* A preparation that ends without a marker.                               *)
LEMMA PreparationEnds ==
    ASSUME PreparationInv, MarkerInv, UNCHANGED <<receipt, deep, marker, aside>>, preparation' = Stopped,
           disk' = disk \/ preparation.pc # "stopped"
    PROVE  PreparationInv' /\ MarkerInv'
<1>1. PreparationInv'
  BY StoppedIs DEF PreparationInv, PreparationTyped, PreparationTrue
<1>2. Prepared' <=> Prepared
  BY DEF Prepared
<1>3. Prepared => disk' = disk /\ (Fits(marker.sets) => Fits(marker.sets)')
  BY DEF PreparationInv, PreparationTrue, Fits
<1>4. MarkerInv'
  BY <1>2, <1>3 DEF MarkerInv, OnePerGroup
<1> QED BY <1>1, <1>4

LEMMA StartsPreparation ==
    ASSUME ReceptionInv, VerificationInv, PreparationInv, MarkerInv, ~Repeats, PreparationStarts
    PROVE  PreparationInv' /\ MarkerInv'
<1>1. /\ preparation' = [pc |-> "lock", sets |-> Chosen, before |-> disk, receipt |-> receipt.no, deep |-> deep.no]
      /\ ~Prepared /\ Chosen \cap rotten = {}
      /\ UNCHANGED <<receipt, deep, disk, marker, rotten, aside>>
  BY DEF PreparationStarts, Preparing, copies, files, standby
<1>2. Fits(Chosen) /\ OnePerGroup(Chosen) /\ Chosen \subseteq Copies
  BY ChosenFits DEF ReceptionInv, ReceptionTyped, Known
<1>3. receipt.no \in Nat /\ deep.no \in Nat
  BY DEF ReceptionInv, ReceptionTyped, VerificationInv
<1>4. ~Prepared' /\ (Fits(Chosen) => Fits(preparation.sets)') /\ (OnePerGroup(Chosen) => OnePerGroup(preparation.sets)')
  BY <1>1 DEF Prepared, Fits, OnePerGroup
<1>5. PreparationTyped'
  BY <1>1, <1>2, <1>3, <1>4 DEF PreparationTyped, Works
<1>6. PreparationTrue'
  BY <1>1, <1>2, <1>3, <1>4 DEF PreparationTrue
<1>7. MarkerInv'
  BY <1>1, <1>4 DEF MarkerInv, OnePerGroup
<1> QED BY <1>5, <1>6, <1>7 DEF PreparationInv

(* With the lock, what was chosen under an older receipt is refused.       *)
LEMMA LocksPreparation ==
    ASSUME ReceptionInv, VerificationInv, PreparationInv, MarkerInv, PreparationLocks
    PROVE  PreparationInv' /\ MarkerInv'
<1>1. /\ preparation.pc = "lock" /\ deep.receipt = receipt.no
      /\ preparation' = [preparation EXCEPT !.pc = "extract", !.receipt = receipt.no, !.deep = deep.no]
      /\ UNCHANGED <<receipt, deep, disk, marker, rotten, aside>>
  BY DEF PreparationLocks, Preparing, MayPrepare, copies, files, standby
<1>2. /\ preparation = [pc |-> preparation.pc, sets |-> preparation.sets, before |-> preparation.before,
                        receipt |-> preparation.receipt, deep |-> preparation.deep]
      /\ preparation.sets \subseteq Copies /\ OnePerGroup(preparation.sets)
      /\ preparation.sets \cap rotten = {} /\ ~Prepared /\ Fits(preparation.sets)
  BY <1>1 DEF PreparationInv, PreparationTyped, PreparationTrue
<1>3. preparation' = [pc |-> "extract", sets |-> preparation.sets, before |-> preparation.before,
                      receipt |-> receipt.no, deep |-> deep.no]
  BY <1>1, <1>2
<1>4. receipt.no \in Nat /\ deep.no \in Nat
  BY DEF ReceptionInv, ReceptionTyped, VerificationInv
<1>5. ~Prepared' /\ Fits(preparation.sets)' /\ OnePerGroup(preparation.sets)'
  BY <1>1, <1>2, <1>3 DEF Prepared, Fits, OnePerGroup
<1>6. PreparationTyped'
  BY <1>2, <1>3, <1>4, <1>5 DEF PreparationTyped, Works
<1>7. PreparationTrue'
  BY <1>1, <1>2, <1>3, <1>4, <1>5 DEF PreparationTrue
<1>8. MarkerInv'
  BY <1>1, <1>5 DEF MarkerInv, OnePerGroup
<1> QED BY <1>6, <1>7, <1>8 DEF PreparationInv

(* The sets are extracted and change places with what was there.           *)
LEMMA ExtractsAndSwaps ==
    ASSUME ReceptionInv, VerificationInv, PreparationInv, MarkerInv, ExtractsSets \/ SwapsIn
    PROVE  PreparationInv' /\ MarkerInv'
<1>1. /\ preparation.pc \in {"extract", "swap"} /\ UNCHANGED <<receipt, deep, marker, rotten, aside>>
  BY DEF ExtractsSets, SwapsIn, Preparing, copies, files, standby
<1>2. /\ preparation = [pc |-> preparation.pc, sets |-> preparation.sets, before |-> preparation.before,
                        receipt |-> preparation.receipt, deep |-> preparation.deep]
      /\ preparation.sets \subseteq Copies /\ OnePerGroup(preparation.sets)
      /\ preparation.sets \cap rotten = {} /\ ~Prepared /\ Fits(preparation.sets)
      /\ preparation.receipt \in Nat /\ preparation.deep \in Nat /\ preparation.deep <= deep.no
      /\ preparation.receipt <= receipt.no /\ preparation.receipt = receipt.no
      /\ preparation.deep = deep.no => deep.receipt = receipt.no
  BY <1>1 DEF PreparationInv, PreparationTyped, PreparationTrue
<1>3. \E pc \in {"swap", "import"} :
         /\ preparation' = [preparation EXCEPT !.pc = pc]
         /\ pc = "import" => disk' = [sets |-> preparation.sets, spoiled |-> FALSE, imported |-> FALSE]
  BY <1>2 DEF ExtractsSets, SwapsIn
<1>4. PICK pc \in {"swap", "import"} :
         /\ preparation' = [preparation EXCEPT !.pc = pc]
         /\ pc = "import" => disk' = [sets |-> preparation.sets, spoiled |-> FALSE, imported |-> FALSE]
  BY <1>3
<1>5. preparation' = [pc |-> pc, sets |-> preparation.sets, before |-> preparation.before,
                      receipt |-> preparation.receipt, deep |-> preparation.deep]
  BY <1>2, <1>4
<1>6. ~Prepared' /\ Fits(preparation.sets)' /\ OnePerGroup(preparation.sets)'
  BY <1>1, <1>2, <1>5 DEF Prepared, Fits, OnePerGroup
<1>7. PreparationTyped'
  BY <1>2, <1>5, <1>6 DEF PreparationTyped, Works
<1>8. PreparationTrue'
  BY <1>1, <1>2, <1>4, <1>5, <1>6 DEF PreparationTrue
<1>9. MarkerInv'
  BY <1>1, <1>6 DEF MarkerInv, OnePerGroup
<1> QED BY <1>7, <1>8, <1>9 DEF PreparationInv

LEMMA MarksKeeps ==
    ASSUME ReceptionInv, VerificationInv, PreparationInv, MarkerInv, MarksPrepared
    PROVE  PreparationInv' /\ MarkerInv'
<1>1. /\ preparation.pc = "import" /\ preparation' = Stopped /\ disk' = [disk EXCEPT !.imported = TRUE]
      /\ marker' = [sets |-> preparation.sets, receipt |-> preparation.receipt, deep |-> preparation.deep]
      /\ UNCHANGED <<receipt, deep, rotten, aside>>
  BY DEF MarksPrepared, Preparing, copies, files
<1>2. /\ preparation.sets \subseteq Copies /\ OnePerGroup(preparation.sets) /\ Fits(preparation.sets)
      /\ preparation.receipt \in Nat /\ preparation.deep \in Nat /\ preparation.deep <= deep.no
      /\ preparation.receipt <= receipt.no /\ preparation.receipt = receipt.no
      /\ preparation.deep = deep.no => deep.receipt = receipt.no
      /\ disk = [sets |-> preparation.sets, spoiled |-> FALSE, imported |-> FALSE]
  BY <1>1 DEF PreparationInv, PreparationTyped, PreparationTrue
<1>3. disk' = [sets |-> marker'.sets, spoiled |-> FALSE, imported |-> TRUE]
  BY <1>1, <1>2
<1>4. Fits(marker.sets)' /\ OnePerGroup(marker.sets)'
  BY <1>1, <1>2 DEF Fits, OnePerGroup
<1>5. Prepared' => deep'.receipt = receipt'.no
  BY <1>1, <1>2 DEF Prepared
<1>6. MarkerInv'
  BY <1>1, <1>2, <1>3, <1>4, <1>5 DEF MarkerInv
<1>7. PreparationInv'
  BY <1>1, StoppedIs DEF PreparationInv, PreparationTyped, PreparationTrue
<1> QED BY <1>6, <1>7

LEMMA PreparationNextKeeps ==
    ASSUME ReceptionInv, LockTrue, VerificationInv, PreparationInv, MarkerInv,
           ~Repeats, ~Slow, [ReceptionNext]_receptionVars
    PROVE  PreparationInv' /\ MarkerInv'
<1>1. receipt.no \in Nat /\ deep.no \in Nat /\ deep.receipt \in Nat /\ deep.receipt <= receipt.no
  BY DEF ReceptionInv, ReceptionTyped, VerificationInv
<1>2. CASE Receives
  <2>1. UNCHANGED <<deep, preparation, disk, marker>> /\ rotten' \subseteq rotten
    BY <1>2 DEF Receives, ReceptionStarts, ReceivesSet, Prunes, PublishesReceipt, ReceptionFails, copies, standby
  <2>2. CASE PublishesReceipt
    <3>1. /\ receipt'.no = receipt.no + 1 /\ reception.pc = "receipt"
          /\ UNCHANGED <<deep, preparation, disk, marker, rotten>>
      BY <2>2 DEF PublishesReceipt, standby
    <3>2. preparation.pc \notin {"extract", "swap", "import"}
      BY <3>1 DEF LockTrue
    <3> QED BY <1>1, <3>1, <3>2, OutOfDate
  <2>3. CASE ~PublishesReceipt
    <3>1. UNCHANGED <<receipt, aside>>
      BY <1>2, <2>3 DEF Receives, ReceptionStarts, ReceivesSet, Prunes, ReceptionFails, copies, files
    <3> QED BY <2>1, <3>1, PreparationStays
  <2> QED BY <2>2, <2>3
<1>3. CASE DeepVerifies
  <2>1. UNCHANGED <<receipt, preparation, disk, marker, rotten, aside>>
    BY <1>3 DEF DeepVerifies, ServiceRefused, VerificationStarts, Hashes, VerificationEnds, VerificationFails,
                VerifiesSet, copies, files, standby
  <2>2. CASE \E v \in Verifiers : VerificationEnds(v)
    <3>1. deep'.no = deep.no + 1 /\ (preparation.pc = "lock" => preparation.receipt = receipt.no)
      BY <2>2 DEF VerificationEnds, InTime
    <3> QED BY <1>1, <2>1, <3>1, OutOfDate
  <2>3. CASE ~\E v \in Verifiers : VerificationEnds(v)
    <3>1. UNCHANGED deep
      BY <1>3, <2>3 DEF DeepVerifies, ServiceRefused, VerificationStarts, Hashes, VerificationFails, VerifiesSet
    <3> QED BY <2>1, <3>1, PreparationStays
  <2> QED BY <2>2, <2>3
<1>4. CASE Prepares
  <2>1. CASE PreparationRefused
    BY <2>1, PreparationEnds DEF PreparationRefused, Preparing, copies, files, standby
  <2>2. CASE PreparationFails
    <3>1. preparation.pc # "stopped" /\ preparation' = Stopped /\ UNCHANGED <<receipt, deep, marker, aside>>
      BY <2>2 DEF PreparationFails, Preparing, copies, files
    <3> QED BY <3>1, PreparationEnds
  <2> QED BY <1>4, <2>1, <2>2, StartsPreparation, LocksPreparation, ExtractsAndSwaps, MarksKeeps DEF Prepares
<1>5. CASE Promotes
  BY <1>5, PreparationStays DEF Promotes, PromotionStarts, PromotionEnds, copies, files, standby
<1>6. CASE Environment
  <2>1. CASE Reboots
    <3>1. preparation' = Stopped /\ UNCHANGED <<receipt, deep, marker, aside>>
          /\ (disk' = disk \/ preparation.pc # "stopped")
      BY <2>1 DEF Reboots, Preparing, copies
    <3> QED BY <3>1, PreparationEnds
  <2>2. CASE \E s \in held : Rots(s)
    <3>1. preparation.pc = "stopped" /\ UNCHANGED <<receipt, deep, preparation, disk, marker, aside>>
      BY <2>2 DEF Rots, Preparing, files, standby
    <3>2. preparation' = Stopped
      BY <3>1 DEF PreparationInv, PreparationTyped
    <3> QED BY <3>1, <3>2, PreparationEnds
  <2>3. CASE ~Reboots /\ ~\E s \in held : Rots(s)
    <3>1. UNCHANGED <<receipt, deep, preparation, disk, marker>> /\ rotten' \subseteq rotten /\ aside \subseteq aside'
      BY <1>6, <2>3 DEF Environment, ClearsIncoming, StopsContainers, Completes, SourceDrops, Quarantines,
                        copies, files, standby
    <3> QED BY <3>1, PreparationStays
  <2> QED BY <2>1, <2>2, <2>3
<1>7. CASE UNCHANGED receptionVars
  BY <1>7, PreparationStays DEF receptionVars, copies, files, standby
<1> QED BY <1>2, <1>3, <1>4, <1>5, <1>6, <1>7 DEF ReceptionNext

-----------------------------------------------------------------------------
(* One set for each group, and as many as there are groups, is all groups. *)
LEMMA EveryGroup ==
    ASSUME NEW some \in SUBSET Copies, OnePerGroup(some),
           Cardinality(some) = Cardinality(Sites) + 1, NEW group \in Groups
    PROVE  \E m \in some : m.group = group
<1>1. IsFiniteSet(Groups) /\ Cardinality(Groups) = Cardinality(Sites) + 1
  BY BackupReceptionAssumption, FS_AddElement DEF Groups
<1> DEFINE of == [m \in some |-> m.group]
<1>2. of \in Injection(some, Groups)
  BY DEF Injection, IsInjective, OnePerGroup, Copies
<1>3. Cardinality(some) = Cardinality(Groups)
  BY <1>1
<1>4. of \in Surjection(some, Groups)
  BY <1>1, <1>2, <1>3, FS_Injection
<1> QED BY <1>4 DEF Surjection

LEMMA ReadyFollows ==
    ASSUME ReceptionInv, VerificationInv, MarkerInv, Ready, receipt.sets \cap aside = {}
    PROVE  /\ disk = [sets |-> receipt.sets, spoiled |-> FALSE, imported |-> TRUE]
           /\ deep.read = receipt.sets
<1>1. receipt.sets \subseteq Copies /\ held \subseteq Copies
  BY DEF ReceptionInv, ReceptionTyped, Known
<1>2. /\ marker.sets \subseteq Copies /\ OnePerGroup(marker.sets)
      /\ disk = [sets |-> marker.sets, spoiled |-> FALSE, imported |-> TRUE]
      /\ deep.receipt = receipt.no /\ Fits(marker.sets)
  BY DEF Ready, MarkerInv
<1>3. PICK a \in marker.sets \cap receipt.sets : a.group = AppData
  BY DEF Ready, InGroup, Latest
<1>4. InGroup(AppData, disk.sets) # {}
  BY <1>2, <1>3 DEF InGroup
<1>5. Configured = Sites
  BY <1>4 DEF Configured
<1>6. /\ Cardinality(marker.sets) = Cardinality(Sites) + 1
      /\ \A group \in Groups : Latest(group, held) # {} /\ Latest(group, held) \subseteq receipt.sets
  BY <1>5 DEF Ready, Groups
<1>7. ASSUME NEW m \in marker.sets, NEW r \in receipt.sets, m.group = r.group
      PROVE  m = r
  BY <1>2, <1>3, <1>7 DEF Fits
<1>8. ASSUME NEW m \in marker.sets
      PROVE  m \in receipt.sets
  <2>1. m.group \in Groups
    BY <1>2 DEF Copies
  <2>2. PICK r \in receipt.sets : r.group = m.group
    BY <1>6, <2>1 DEF Latest, InGroup
  <2> QED BY <1>7, <2>2
<1>9. ASSUME NEW r \in receipt.sets
      PROVE  r \in marker.sets
  <2>1. r.group \in Groups
    BY <1>1 DEF Copies
  <2>2. PICK m \in marker.sets : m.group = r.group
    BY <1>2, <1>6, <2>1, EveryGroup
  <2> QED BY <1>7, <2>2
<1>10. marker.sets = receipt.sets
  BY <1>8, <1>9
<1> QED BY <1>2, <1>10 DEF VerificationInv

(* A standby that runPreflight of promotion-preflight.js calls ready was   *)
(* restored by prepare-standby.sh, whole and undamaged, from exactly the   *)
(* sets that the current receipt names, and a deep verification read each  *)
(* of them, whatever number of receptions, verifications, preparations,    *)
(* crashes and promotions met.                                             *)
THEOREM ReadyRestored ==
    ASSUME ~SourceDeletes, ~TornReads, ~Repeats, ~Slow
    PROVE  ReceptionSpec => []ReadyIsRestored
<1>1. ReceptionInit => StandbyInv
  BY ReceptionInitHolds, PreparationInitHolds DEF StandbyInv
<1>2. StandbyInv /\ [ReceptionNext]_receptionVars => StandbyInv'
  BY ReceptionNextKeeps, LockKeeps, VerificationKeeps, PreparationNextKeeps DEF StandbyInv
<1>3. StandbyInv => ReadyIsRestored
  BY ReadyFollows DEF StandbyInv, ReadyIsRestored
<1> QED BY <1>1, <1>2, <1>3, PTL DEF ReceptionSpec

-----------------------------------------------------------------------------
(* OffsiteBackups: what is recorded as replicated.                         *)

Replications ==
    [kind : {"sync", "check", "restore"}, pc : {"queued", "upload", "verify", "forget", "check", "restore"},
     seen : SUBSET Nat, created : BOOLEAN]

OffsiteTyped ==
    /\ produced \in Nat /\ local \in SUBSET Nat /\ snapshots \in Seq(SUBSET Nat)
    /\ replication \in Replications \cup {NoJob}

(* A job that checks or tests does not replicate.                          *)
KindFits ==
    /\ Does("check") => replication.kind = "check"
    /\ Does("restore") => replication.kind = "restore"

(* No set is completed while one is uploaded, so what is local has been    *)
(* seen, and then is in the snapshot.                                      *)
LocalKept ==
    /\ Does("upload") => local \subseteq replication.seen
    /\ replication.pc \in {"verify", "forget"} => snapshots # <<>> /\ local \subseteq LatestSnapshot

OffsiteInv == OffsiteTyped /\ KindFits /\ LocalKept

LEMMA NoJobFields == NoJob.kind = "none" /\ NoJob.pc = "none" /\ NoJob \notin Replications
  BY DEF NoJob, Replications

(* The newest snapshot is kept, however many are forgotten.                *)
LEMMA LastKept ==
    ASSUME NEW S, NEW s \in Seq(S), NEW k \in 1 .. 365, Len(s) > k
    PROVE  LET t == SubSeq(s, Len(s) - k + 1, Len(s)) IN
           t \in Seq(S) /\ t # <<>> /\ t[Len(t)] = s[Len(s)]
<1> DEFINE m == Len(s) - k + 1
           n == Len(s)
           t == SubSeq(s, m, n)
<1>1. m \in Int /\ n \in Int /\ n - m + 1 = k /\ m <= n /\ m + k - 1 = n /\ \A i \in m .. n : s[i] \in S
  OBVIOUS
<1> HIDE DEF m, n
<1>2. t \in Seq(S) /\ Len(t) = k /\ \A i \in 1 .. k : t[i] = s[m + i - 1]
  BY <1>1, SubSeqProperties
<1> HIDE DEF t
<1>3. t[k] = s[n]
  BY <1>1, <1>2
<1>4. t # <<>>
  <2>1. Len(t) # Len(<<>>)
    BY <1>2
  <2> QED BY <2>1
<1> QED BY <1>2, <1>3, <1>4 DEF t, m, n

LEMMA FinishesFields ==
    ASSUME NEW status, Finishes(status)
    PROVE  replication' = NoJob
  BY DEF Finishes

LEMMA OffsiteInitially == OffsiteInit => OffsiteInv
<1> SUFFICES ASSUME OffsiteInit PROVE OffsiteInv
  OBVIOUS
<1> QED BY NoJobFields DEF OffsiteInit, OffsiteInv, OffsiteTyped, KindFits, LocalKept, Does

LEMMA NoneKeeps ==
    ASSUME OffsiteInv, replication' = NoJob, UNCHANGED <<local, produced>>,
           snapshots' \in Seq(SUBSET Nat)
    PROVE  OffsiteInv'
  BY NoJobFields DEF OffsiteInv, OffsiteTyped, KindFits, LocalKept, Does

LEMMA UploadsKeeps == ASSUME OffsiteInv, Uploads PROVE OffsiteInv'
<1>1. /\ replication.pc = "upload" /\ replication \in Replications /\ local \subseteq replication.seen
      /\ snapshots \in Seq(SUBSET Nat) /\ replication.seen \in SUBSET Nat
  BY NoJobFields DEF OffsiteInv, OffsiteTyped, LocalKept, Uploads, Does, Replications
<1>2. /\ replication' \in Replications /\ replication'.pc = "verify" /\ replication'.kind = replication.kind
      /\ UNCHANGED <<local, produced>>
  BY <1>1 DEF Uploads, Replications, UnchangedData
<1>3. snapshots' \in Seq(SUBSET Nat) /\ snapshots' # <<>> /\ local \subseteq snapshots'[Len(snapshots')]
  <2>1. CASE UnchangedData
    BY <1>1, <2>1 DEF Uploads, UnchangedData, LatestSnapshot
  <2>2. CASE ~UnchangedData
    <3>1. snapshots' = Append(snapshots, replication.seen)
      BY <2>2 DEF Uploads
    <3>2. /\ snapshots' \in Seq(SUBSET Nat) /\ Len(snapshots') = Len(snapshots) + 1
          /\ snapshots'[Len(snapshots) + 1] = replication.seen
      BY <1>1, <3>1
    <3> QED BY <1>1, <3>2
  <2> QED BY <2>1, <2>2
<1>4. local' \subseteq LatestSnapshot'
  BY <1>2, <1>3 DEF LatestSnapshot
<1> QED BY <1>2, <1>3, <1>4 DEF OffsiteInv, OffsiteTyped, KindFits, LocalKept, Does

LEMMA ForgetsKeeps ==
    ASSUME OffsiteInv, Forgets
    PROVE  /\ local' = local /\ local' \subseteq LatestSnapshot'
           /\ OffsiteInv'
<1>1. /\ snapshots \in Seq(SUBSET Nat) /\ snapshots # <<>> /\ local \subseteq LatestSnapshot
      /\ replication' = NoJob /\ UNCHANGED <<local, produced>>
  BY FinishesFields DEF OffsiteInv, OffsiteTyped, LocalKept, Does, Forgets
<1>2. snapshots' \in Seq(SUBSET Nat) /\ LatestSnapshot' = LatestSnapshot
  <2>1. CASE replication.created /\ Len(snapshots) > KeepLast
    <3>1. snapshots' = SubSeq(snapshots, Len(snapshots) - KeepLast + 1, Len(snapshots))
      BY <2>1 DEF Forgets
    <3>2. KeepLast \in 1 .. 365
      BY OffsiteAssumption
    <3>3. /\ snapshots' \in Seq(SUBSET Nat) /\ snapshots' # <<>>
          /\ snapshots'[Len(snapshots')] = snapshots[Len(snapshots)]
      BY <1>1, <2>1, <3>1, <3>2, LastKept
    <3> QED BY <1>1, <3>3 DEF LatestSnapshot
  <2>2. CASE ~(replication.created /\ Len(snapshots) > KeepLast)
    BY <1>1, <2>2 DEF Forgets, LatestSnapshot
  <2> QED BY <2>1, <2>2
<1> QED BY <1>1, <1>2, NoneKeeps

LEMMA DeletesLocalKeeps == ASSUME OffsiteInv, NEW s \in local, DeletesLocal(s) PROVE OffsiteInv'
<1>1. local' = local \ {s} /\ UNCHANGED <<produced, snapshots>>
  BY DEF DeletesLocal
<1>2. CASE Does("upload")
  <2>1. /\ replication \in Replications /\ local \subseteq replication.seen
        /\ replication.seen \in SUBSET Nat /\ replication.pc = "upload"
    BY <1>2, NoJobFields DEF OffsiteInv, OffsiteTyped, LocalKept, Does, Replications
  <2>2. PICK seen \in {replication.seen, replication.seen \ {s}} :
           replication' = [replication EXCEPT !.seen = seen]
    BY <1>2 DEF DeletesLocal
  <2>3. /\ replication' \in Replications /\ replication'.seen = seen /\ replication'.pc = "upload"
        /\ local' \subseteq seen
    BY <1>1, <2>1, <2>2 DEF Replications
  <2> QED BY <1>1, <2>3 DEF OffsiteInv, OffsiteTyped, KindFits, LocalKept, Does
<1>3. CASE ~Does("upload")
  <2>1. replication' = replication
    BY <1>3 DEF DeletesLocal
  <2> QED BY <1>1, <1>3, <2>1 DEF OffsiteInv, OffsiteTyped, KindFits, LocalKept, Does, LatestSnapshot
<1> QED BY <1>2, <1>3

LEMMA BeginsKeeps == ASSUME OffsiteInv, Begins PROVE OffsiteInv'
<1>1. replication \in Replications /\ local \in SUBSET Nat /\ replication.pc = "queued"
  BY NoJobFields DEF Begins, OffsiteInv, OffsiteTyped, Does
<1> DEFINE pc == CASE replication.kind = "sync" -> "upload"
                   [] replication.kind = "check" -> "check"
                   [] OTHER -> "restore"
<1>2. pc \in {"upload", "check", "restore"} /\ (pc = "check" => replication.kind = "check")
      /\ (pc = "restore" => replication.kind = "restore")
  BY <1>1 DEF Replications
<1>3. replication' = [replication EXCEPT !.pc = pc, !.seen = local]
  BY DEF Begins
<1> HIDE DEF pc
<1>4. /\ replication' \in Replications /\ replication'.pc = pc /\ replication'.seen = local
      /\ replication'.kind = replication.kind
  BY <1>1, <1>2, <1>3 DEF Replications
<1>5. UNCHANGED <<local, produced, snapshots>>
  BY DEF Begins
<1> QED BY <1>2, <1>4, <1>5 DEF OffsiteInv, OffsiteTyped, KindFits, LocalKept, Does

(* A job that is asked for has not begun.                                  *)
LEMMA AskedKeeps ==
    ASSUME OffsiteInv, NEW kind \in {"sync", "check", "restore"}, UNCHANGED <<local, produced, snapshots>>,
           replication' = [kind |-> kind, pc |-> "queued", seen |-> {}, created |-> FALSE]
    PROVE  OffsiteInv'
<1>1. replication' \in Replications /\ replication'.pc = "queued"
  BY DEF Replications
<1> QED BY <1>1 DEF OffsiteInv, OffsiteTyped, KindFits, LocalKept, Does

LEMMA SameOffsite ==
    ASSUME OffsiteInv, UNCHANGED <<local, produced, snapshots, replication>>
    PROVE  OffsiteInv'
  BY DEF OffsiteInv, OffsiteTyped, KindFits, LocalKept, Does, LatestSnapshot

LEMMA OffsiteKept == OffsiteInv /\ [OffsiteNext]_offsiteVars => OffsiteInv'
<1> SUFFICES ASSUME OffsiteInv, [OffsiteNext]_offsiteVars PROVE OffsiteInv'
  OBVIOUS
<1>0. snapshots \in Seq(SUBSET Nat)
  BY DEF OffsiteInv, OffsiteTyped
<1>1. CASE CompletesLocal
  <2>1. replication.pc \in {"none", "queued"} /\ UNCHANGED <<snapshots, replication>>
    BY <1>1 DEF CompletesLocal
  <2>2. produced' \in Nat /\ local' \in SUBSET Nat
    BY <1>1 DEF CompletesLocal, OffsiteInv, OffsiteTyped
  <2> QED BY <2>1, <2>2 DEF OffsiteInv, OffsiteTyped, KindFits, LocalKept, Does
<1>2. CASE \E s \in local : DeletesLocal(s)
  BY <1>2, DeletesLocalKeeps
<1>3. CASE \E kind \in {"sync", "check", "restore"} : Asks(kind)
  BY <1>3, AskedKeeps DEF Asks
<1>4. CASE Begins
  BY <1>4, BeginsKeeps
<1>5. CASE Uploads
  BY <1>5, UploadsKeeps
<1>6. CASE ChecksSnapshot
  <2>1. replication \in Replications /\ replication.pc = "verify" /\ UNCHANGED <<local, produced, snapshots>>
    BY <1>6, NoJobFields DEF ChecksSnapshot, OffsiteInv, OffsiteTyped, Does
  <2>2. replication' \in Replications /\ replication'.pc = "forget"
    BY <1>6, <2>1 DEF ChecksSnapshot, Then, Replications
  <2> QED BY <2>1, <2>2 DEF OffsiteInv, OffsiteTyped, KindFits, LocalKept, Does, LatestSnapshot
<1>7. CASE Forgets
  BY <1>7, ForgetsKeeps
<1>8. CASE ChecksRepository \/ ReplicationFails \/ \E s \in local : TestsRestore(s)
  BY <1>0, <1>8, NoneKeeps, FinishesFields DEF ChecksRepository, ReplicationFails, TestsRestore
<1>9. CASE PanelRestarts
  BY <1>0, <1>9, NoneKeeps, SameOffsite DEF PanelRestarts
<1>10. CASE ScheduledReplication
  <2>1. CASE Does("none")
    BY <1>10, <2>1, AskedKeeps DEF ScheduledReplication
  <2>2. CASE ~Does("none")
    BY <1>10, <2>2, SameOffsite DEF ScheduledReplication
  <2> QED BY <2>1, <2>2
<1>11. CASE QuarterHour \/ NextDate \/ UNCHANGED offsiteVars
  BY <1>11, SameOffsite DEF QuarterHour, NextDate, offsiteVars
<1> QED
  BY <1>1, <1>2, <1>3, <1>4, <1>5, <1>6, <1>7, <1>8, <1>9, <1>10, <1>11 DEF OffsiteNext

LEMMA RecordsRightly ==
    ASSUME OffsiteInv, [OffsiteNext]_offsiteVars, recorded' # recorded
    PROVE  covered' \cap local' \subseteq LatestSnapshot'
<1>1. CASE Forgets
  BY <1>1, ForgetsKeeps
<1>2. CASE ChecksRepository
  <2>1. replication.kind = "check" /\ Finishes("succeeded")
    BY <1>2 DEF ChecksRepository, OffsiteInv, KindFits
  <2> QED BY <2>1 DEF Finishes
<1>3. CASE \E s \in local : TestsRestore(s)
  <2>1. PICK s \in local : TestsRestore(s)
    BY <1>3
  <2>2. replication.kind = "restore" /\ Finishes(IF s \in LatestSnapshot THEN "succeeded" ELSE "failed")
    BY <2>1 DEF TestsRestore, OffsiteInv, KindFits
  <2> QED BY <2>2 DEF Finishes
<1>4. CASE ReplicationFails
  BY <1>4 DEF ReplicationFails, Finishes, Records
<1>5. CASE \/ CompletesLocal \/ \E s \in local : DeletesLocal(s)
           \/ \E kind \in {"sync", "check", "restore"} : Asks(kind)
           \/ Begins \/ Uploads \/ ChecksSnapshot \/ PanelRestarts
           \/ ScheduledReplication \/ QuarterHour \/ NextDate \/ UNCHANGED offsiteVars
  BY <1>5 DEF CompletesLocal, DeletesLocal, Asks, Begins, Uploads, ChecksSnapshot, PanelRestarts,
              ScheduledReplication, QuarterHour, NextDate, offsiteVars
<1> QED BY <1>1, <1>2, <1>3, <1>4, <1>5 DEF OffsiteNext

(* A day's replication is recorded only when the newest snapshot has every *)
(* set that was local when it was asked for and still is                   *)
(* (lib/offsite-backup-manager.js, runScheduled).                          *)
THEOREM RecordedHeld == OffsiteSpec => RecordedIsReplicated
<1>1. OffsiteInv /\ [OffsiteNext]_offsiteVars
         => [recorded' # recorded => covered' \cap local' \subseteq LatestSnapshot']_offsiteVars
  BY RecordsRightly
<1> QED
  BY <1>1, OffsiteInitially, OffsiteKept, PTL DEF OffsiteSpec, RecordedIsReplicated
===============================================================================
