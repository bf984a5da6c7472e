-------------------------- MODULE RuntimeTransaction --------------------------
(***************************************************************************)
(* The shared runtime configuration, sites.map and pools.conf, and the     *)
(* transactions that change it                                             *)
(* (ui-manager/app/lib/runtime-transaction.js): callers in the panel, who  *)
(* share its promise chain, and one-shot containers, each a process of its *)
(* own, all under one lock directory.                                      *)
(*                                                                         *)
(* A file is told apart by the sites it holds: the map by the sites nginx  *)
(* routes, pools.conf by those with a PHP-FPM pool, hence a port.  A       *)
(* caller adds one site or removes it.  A reload is a signal: nginx and    *)
(* PHP-FPM read their file some time after it.  The order of the promise   *)
(* chain is left open.  A live holder is assumed to be done before its     *)
(* lock is stale (ten minutes).                                            *)
(***************************************************************************)
EXTENDS Naturals, FiniteSets

CONSTANTS
    Sites,
    Panel,      \* callers inside the panel
    Cli,        \* callers that are a container of their own
    Mortal,     \* callers whose process may die
    MaxFaults   \* bound: writes, commands, probes and later steps that fail

Callers == Panel \cup Cli

ASSUME RuntimeTransactionAssumption ==
    /\ IsFiniteSet(Callers) /\ Panel \cap Cli = {} /\ Mortal \subseteq Callers /\ MaxFaults \in Nat

VARIABLES
    files,    \* [map, pools]: the two files
    running,  \* [map, pools]: what nginx routes and what PHP-FPM listens for
    signals,  \* reloads asked for and not yet done: a subset of the fields of running
    lock,     \* runtime-config.lock: empty, or one record [by, stale]
    txn,      \* txn[p]: [pc, mode, site, before, outcome]
    faults,
    last,     \* history: how the last holder of the lock ended
    spoiled,  \* history: sites of transactions that died or failed to roll back
    initial   \* history: the sites at the start

vars == <<files, running, signals, lock, txn, faults, last, spoiled, initial>>

Config == [map : SUBSET Sites, pools : SUBSET Sites]
Steps == {"map", "pools", "php", "nginx", "verify"}
Critical == {"check"} \cup Steps
Inside == {"break"} \cup Critical
Lock(p, old) == {[by |-> p, stale |-> old]}

Together(p, q) == p = q \/ {p, q} \subseteq Panel

-----------------------------------------------------------------------------
(* The models a transaction goes from and to.                              *)

Adds(p) == txn[p].site \notin txn[p].before.map

After(p) ==
    LET s == txn[p].site  b == txn[p].before IN
    IF Adds(p) THEN [map |-> b.map \cup {s}, pools |-> b.pools \cup {s}]
               ELSE [map |-> b.map \ {s}, pools |-> b.pools \ {s}]

(* validateRuntimeModel: every routed site has a pool.                     *)
Valid(c) == c.map \subseteq c.pools

(* A pool of that name that is already there would be listed twice.        *)
Proposable(p) == Valid(After(p)) /\ (Adds(p) => txn[p].site \notin txn[p].before.pools)

Target(p) == IF txn[p].mode = "commit" THEN After(p) ELSE txn[p].before

Goes(p, step) == txn' = [txn EXCEPT ![p].pc = step]
NoFiles == UNCHANGED <<files, running, signals, initial>>

(* The lock directory is removed, whoever made it.                         *)
Ends(p, outcome) ==
    /\ txn' = [txn EXCEPT ![p].pc = "done", ![p].outcome = outcome]
    /\ lock' = {}
    /\ last' = outcome
    /\ spoiled' = IF outcome = "failed" THEN spoiled \cup {txn[p].site} ELSE spoiled

-----------------------------------------------------------------------------
(* A request reads both files, prepares its change, and asks for the lock. *)
Reads(p) ==
    /\ txn[p].pc = "idle"
    /\ txn' = [txn EXCEPT ![p].pc = "queued", ![p].before = files]
    /\ NoFiles /\ UNCHANGED <<lock, faults, last, spoiled>>

(* A later step of provisioning or of a restore failed.                    *)
Undoes(p) ==
    /\ txn[p].pc = "done" /\ txn[p].mode = "commit" /\ txn[p].outcome = "applied"
    /\ faults < MaxFaults /\ faults' = faults + 1
    /\ txn' = [txn EXCEPT ![p].pc = "queued", ![p].mode = "undo"]
    /\ NoFiles /\ UNCHANGED <<lock, last, spoiled>>

(* Its turn in the promise chain of its process, which runs one at a time. *)
Turn(p) ==
    /\ txn[p].pc = "queued"
    /\ \A q \in Callers : q # p /\ Together(p, q) => txn[q].pc \notin Inside

Acquires(p) ==
    /\ Turn(p) /\ lock = {}
    /\ lock' = Lock(p, FALSE)
    /\ Goes(p, "check")
    /\ NoFiles /\ UNCHANGED <<faults, last, spoiled>>

(* Mutant: whatever its age.                                               *)
StaleAnyAge == lock # {}

Stale == \E held \in lock : held.stale

(* The age of the directory is read, and only then is it removed.          *)
SeesStale(p) ==
    /\ Turn(p) /\ Stale
    /\ Goes(p, "break")
    /\ NoFiles /\ UNCHANGED <<lock, faults, last, spoiled>>

Breaks(p) ==
    /\ txn[p].pc = "break"
    /\ lock' = {}
    /\ Goes(p, "queued")
    /\ NoFiles /\ UNCHANGED <<faults, last, spoiled>>

(* The deadline passed: a commit is refused, an undo leaves things as they *)
(* are.                                                                    *)
Busy(p) ==
    /\ Turn(p) /\ lock # {}
    /\ txn' = [txn EXCEPT ![p].pc = "done",
                          ![p].outcome = IF txn[p].mode = "undo" THEN @ ELSE "rejected"]
    /\ NoFiles /\ UNCHANGED <<lock, faults, last, spoiled>>

-----------------------------------------------------------------------------
(* Mutant: the files are not compared.                                     *)
CurrentUnchecked(p) == TRUE

(* The files are those the request read; for an undo, those it wrote.      *)
Current(p) == files = IF txn[p].mode = "undo" THEN After(p) ELSE txn[p].before

Sound(p) == IF txn[p].mode = "undo" THEN Valid(txn[p].before) ELSE Proposable(p)

Checks(p) ==
    /\ txn[p].pc = "check" /\ Current(p) /\ Sound(p)
    /\ Goes(p, "map")
    /\ NoFiles /\ UNCHANGED <<lock, faults, last, spoiled>>

(* Refused with nothing changed: stale, invalid, or no backup.             *)
Refused(p) ==
    /\ txn[p].pc = "check"
    /\ \/ ~(Current(p) /\ Sound(p)) /\ UNCHANGED faults
       \/ txn[p].mode = "commit" /\ faults < MaxFaults /\ faults' = faults + 1
    /\ txn' = [txn EXCEPT ![p].pc = "done",
                          ![p].outcome = IF txn[p].mode = "undo" THEN @ ELSE "rejected"]
    /\ lock' = {}
    /\ NoFiles /\ UNCHANGED <<last, spoiled>>

(* The steps of an activation, of a proposal or of what was before.        *)
WritesMap(p) ==
    /\ txn[p].pc = "map"
    /\ files' = [files EXCEPT !.map = Target(p).map]
    /\ Goes(p, "pools")
    /\ UNCHANGED <<running, signals, lock, faults, last, spoiled, initial>>

(* Files put back after a write failed are not activated.                  *)
WritesPools(p) ==
    /\ txn[p].pc = "pools"
    /\ files' = [files EXCEPT !.pools = Target(p).pools]
    /\ IF txn[p].mode = "unwrite"
       THEN Ends(p, "unwritten")
       ELSE Goes(p, "php") /\ UNCHANGED <<lock, last, spoiled>>
    /\ UNCHANGED <<running, signals, faults, initial>>

Signals(which) == signals' = signals \cup {which} /\ UNCHANGED <<files, running, initial>>

(* The files are validated, and the servers told to read them.             *)
ReloadsPhp(p) ==
    /\ txn[p].pc = "php"
    /\ Signals("pools") /\ Goes(p, "nginx")
    /\ UNCHANGED <<lock, faults, last, spoiled>>

(* Mutant: only a commit reloads nginx.                                    *)
ReloadsNginxOnce(p) ==
    /\ txn[p].pc = "nginx"
    /\ IF txn[p].mode = "commit" THEN Signals("map") ELSE NoFiles
    /\ Goes(p, "verify")
    /\ UNCHANGED <<lock, faults, last, spoiled>>

ReloadsNginx(p) ==
    /\ txn[p].pc = "nginx"
    /\ Signals("map") /\ Goes(p, "verify")
    /\ UNCHANGED <<lock, faults, last, spoiled>>

Outcome(p) ==
    CASE txn[p].mode = "commit" -> "applied"
      [] txn[p].mode = "rollback" -> "restored"
      [] OTHER -> "undone"

(* Every port of the pools accepts a connection.                           *)
Verifies(p) ==
    /\ txn[p].pc = "verify" /\ Target(p).pools \subseteq running.pools
    /\ Ends(p, Outcome(p))
    /\ NoFiles /\ UNCHANGED faults

(* A step fails; a reload may have been signalled none the less.  Ports    *)
(* may stay closed for as long as PHP-FPM has not read its file.           *)
Fault(p) ==
    /\ txn[p].pc \in Steps
    /\ \/ txn[p].pc = "verify" /\ ~(Target(p).pools \subseteq running.pools) /\ UNCHANGED faults
       \/ faults < MaxFaults /\ faults' = faults + 1
    /\ \/ UNCHANGED signals
       \/ txn[p].pc = "php" /\ signals' = signals \cup {"pools"}
       \/ txn[p].pc = "nginx" /\ signals' = signals \cup {"map"}

(* Mutant: a mode that no step knows.                                      *)
RecoveryUnknown(p) == IF txn[p].pc \in {"map", "pools"} THEN "unwrite" ELSE "restored"

Recovery(p) == IF txn[p].pc \in {"map", "pools"} THEN "unwrite" ELSE "rollback"

(* A commit that fails turns to what was before.                           *)
TurnsBack(p) ==
    /\ txn[p].mode = "commit" /\ (Recovery(p) = "rollback" => Valid(txn[p].before))
    /\ Fault(p)
    /\ txn' = [txn EXCEPT ![p].pc = "map", ![p].mode = Recovery(p)]
    /\ UNCHANGED <<files, running, initial, lock, last, spoiled>>

(* There is no way back from a way back, or to an invalid configuration.   *)
Strands(p) ==
    /\ txn[p].mode = "commit" => Recovery(p) = "rollback" /\ ~Valid(txn[p].before)
    /\ Fault(p)
    /\ Ends(p, "failed")
    /\ UNCHANGED <<files, running, initial>>

-----------------------------------------------------------------------------
(* External: a server reads its file once more.                            *)
Reloads ==
    \E which \in signals :
      /\ running' = [running EXCEPT ![which] = files[which]]
      /\ signals' = signals \ {which}
      /\ UNCHANGED <<files, lock, txn, faults, last, spoiled, initial>>

(* A process dies, with all callers in it that are under way; one that     *)
(* dies while it waits for the lock merely takes no further step.          *)
Dies(p) ==
    LET lost == {q \in Callers : Together(p, q) /\ txn[q].pc \notin {"idle", "done"}}
        cut  == {q \in lost : txn[q].pc \in Critical}
    IN
    /\ p \in Mortal /\ txn[p].pc \in Inside
    /\ txn' = [q \in Callers |-> IF q \in lost THEN [txn[q] EXCEPT !.pc = "dead"] ELSE txn[q]]
    /\ last' = IF cut = {} THEN last ELSE "died"
    /\ spoiled' = spoiled \cup {txn[q].site : q \in cut}
    /\ UNCHANGED <<lock, faults>> /\ NoFiles

(* The lock of a dead holder is older than ten minutes.                    *)
Ages ==
    /\ \E held \in lock : /\ ~held.stale /\ txn[held.by].pc = "dead"
                          /\ lock' = Lock(held.by, TRUE)
    /\ NoFiles /\ UNCHANGED <<txn, faults, last, spoiled>>

Init ==
    /\ initial \in SUBSET Sites
    /\ files = [map |-> initial, pools |-> initial]
    /\ running = files /\ signals = {}
    /\ lock = {}
    /\ \E request \in [Callers -> Sites] :
         txn = [p \in Callers |-> [pc |-> "idle", mode |-> "commit", site |-> request[p],
                                   before |-> files, outcome |-> "none"]]
    /\ faults = 0 /\ last = "none" /\ spoiled = {}

Locking(p) ==
    \/ Reads(p) \/ Undoes(p) \/ Acquires(p) \/ SeesStale(p) \/ Breaks(p) \/ Busy(p)

Holding(p) ==
    \/ Checks(p) \/ Refused(p) \/ WritesMap(p) \/ WritesPools(p) \/ ReloadsPhp(p)
    \/ ReloadsNginx(p) \/ Verifies(p) \/ TurnsBack(p) \/ Strands(p)

Next == (\E p \in Callers : Locking(p) \/ Holding(p) \/ Dies(p)) \/ Reloads \/ Ages

Spec == Init /\ [][Next]_vars

-----------------------------------------------------------------------------
TypeOK ==
    /\ files \in Config /\ running \in Config
    /\ signals \subseteq {"map", "pools"}
    /\ lock = {} \/ \E p \in Callers, old \in BOOLEAN : lock = Lock(p, old)
    /\ txn \in [Callers -> [pc : {"idle", "queued", "done", "dead"} \cup Inside,
                            mode : {"commit", "unwrite", "rollback", "undo"},
                            site : Sites, before : Config,
                            outcome : {"none", "rejected", "applied", "restored", "unwritten",
                                       "undone", "failed"}]]
    /\ faults \in 0 .. MaxFaults
    /\ last \in {"none", "died", "applied", "restored", "unwritten", "undone", "failed"}
    /\ spoiled \subseteq Sites /\ initial \subseteq Sites

(* "the long-running panel and one-shot transfer/migration containers      *)
(* cannot allocate or activate ports at the same time"                     *)
(* (docs/OPERATIONS.md): one caller at a time is between taking the lock   *)
(* and releasing it.                                                       *)
Exclusive ==
    \A p, q \in Callers : txn[p].pc \in Critical /\ txn[q].pc \in Critical => p = q

(* Whatever was refused, rolled back or undone meanwhile, a site that no   *)
(* failed transaction touched is in both files exactly if the changes      *)
(* reported as applied, and not undone, say so: no update is lost and no   *)
(* undo takes another caller's change with it.                             *)
AppliedExactly ==
    lock = {} =>
        \A s \in Sites \ spoiled :
            LET toggles == Cardinality({p \in Callers : txn[p].outcome = "applied" /\ txn[p].site = s})
            IN  /\ s \in files.map <=> (s \in initial) # (toggles % 2 = 1)
                /\ s \in files.pools <=> s \in files.map

(* What Exclusive rests on: of the containers one at a time is at work, or *)
(* none dies, and the panel does not die.                                  *)
LoneCli == Mortal \subseteq Cli /\ (Mortal = {} \/ \A c, d \in Cli : c = d)

(* Once a change is reported as applied, rolled back or undone and the     *)
(* servers have read their files, they run what the files say and every    *)
(* site nginx routes has its pool, whatever failed or died before.         *)
Settled ==
    lock = {} /\ last \in {"none", "applied", "restored", "undone"} /\ signals = {}
        => running = files /\ Valid(files)

(* "rolled back is never reported unless restore validation, reload, and   *)
(* port verification all succeeded" (docs/OPERATIONS.md): after a commit   *)
(* that reported its rollback as succeeded the servers run the files, also *)
(* when it was a write that failed.                                        *)
RolledBackRuns ==
    lock = {} /\ last \in {"restored", "unwritten"} /\ signals = {} => running = files
=============================================================================
