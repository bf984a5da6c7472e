------------------------------ MODULE JobManager ------------------------------
(***************************************************************************)
(* The panel's durable job queue, ui-manager/app/lib/job-manager.js, with  *)
(* the process around it: the boot sequence of server.js, the HTTP and     *)
(* scheduler callers of create, cancel, retry and wait, the microtask that *)
(* launches jobs, the promise chain of a handler, a disk whose writes may  *)
(* fail, and a process that may die between any two of these steps.        *)
(*                                                                         *)
(* A job is a number: the n-th job ever created is n, so the order of the  *)
(* numbers is the order of the createdAt stamps.  Everything a job only    *)
(* displays (label, progress, message, results) is left out.               *)
(***************************************************************************)
EXTENDS Naturals, FiniteSets

CONSTANTS
    MaxJobs,       \* bound: jobs created over the whole behaviour
    HistoryLimit,  \* JOB_HISTORY_LIMIT
    Requests,      \* what callers submit: [type, conflicts, key, cancellable, retryable]
    NoKey,         \* a submission without an idempotency key
    LongKeys,      \* idempotency keys of more than 200 characters
    CutKey,        \* what boundedText leaves of a long key: equal to no whole key
    NoInput,       \* the input of a job not created yet
    Allowlist,     \* the job types a standby may execute
    Awaited,       \* the job types a scheduler submits and waits for
    MaxCrashes,    \* bound: how often the process is killed
    MaxFaults      \* bound: how many writes of jobs.json fail

Jobs == 1 .. MaxJobs
Active == {"queued", "running", "cancelling"}
Terminal == {"succeeded", "failed", "partially_succeeded", "cancelled"}
Unkeyed(r) == [r EXCEPT !.key = NoKey]
Inputs == Requests \cup {Unkeyed(r) : r \in Requests}

ASSUME JobManagerAssumption ==
    /\ MaxJobs \in Nat /\ HistoryLimit \in Nat
    /\ MaxCrashes \in Nat /\ MaxFaults \in Nat
    /\ CutKey # NoKey /\ NoInput \notin Inputs

VARIABLES
    server,      \* "down", "loaded" (constructed, not started), "primary" or "standby"
    rejected,    \* a promise rejected with no handler: node ends the process
    created,     \* number of the last job created
    input,       \* input[j]: what job j was created from
    status,      \* this.jobs: status[j] is job j's status, "absent" if it is not listed
    phase,       \* the promise chain of job j; this.running is where it is not "idle"
    scheduled,   \* this.processing: the launching microtask is queued
    waiting,     \* jobs some scheduler awaits in wait()
    disk,        \* disk[j]: job j's status in jobs.json, "absent" if not there
    crashes, faults,
    starts,      \* history: how often the handler of j was called
    owed,        \* history: jobs acknowledged to a caller and not yet ended
    suppressed   \* history: jobs a standby turned into cancelled history

memory == <<rejected, status, phase, scheduled, waiting>>
history == <<starts, suppressed>>
vars == <<server, rejected, created, input, status, phase, scheduled,
          waiting, disk, crashes, faults, starts, owed, suppressed>>

Running == {j \in Jobs : phase[j] # "idle"}
Serving == server \in {"primary", "standby"} /\ ~rejected
Allowed(type) == server = "standby" => type \in Allowlist
Conflict(j, k) == input[j].conflicts \cap input[k].conflicts # {}

(* boundedText(key, 200), the key a job is stored with.                    *)
BoundedKey(k) == IF k \in LongKeys THEN CutKey ELSE k

(* Mutant: only jobs that have not started yet are deduplicated into.      *)
ExistingQueued(r) ==
    {j \in Jobs : status[j] = "queued" /\ r.key # NoKey /\ input[j].key = r.key}

(* The active job a submission is deduplicated into, compared as the code  *)
(* compares: the stored key against the caller's whole key.                *)
Existing(r) ==
    {j \in Jobs : status[j] \in Active /\ r.key # NoKey /\ BoundedKey(input[j].key) = r.key}

-----------------------------------------------------------------------------
(* prune: over the limit, keep all active work and the newest terminal     *)
(* jobs that still fit.                                                    *)
Listed(st) == {j \in Jobs : st[j] # "absent"}
ActiveIn(st) == {j \in Jobs : st[j] \in Active}
NewerEnded(j, st) == {k \in Jobs : k > j /\ st[k] \in Terminal}

(* Mutant: prune goes by age alone.                                        *)
FitsByAge(j, st) ==
    \/ Cardinality(Listed(st)) <= HistoryLimit
    \/ Cardinality({k \in Listed(st) : k > j}) < HistoryLimit

Fits(j, st) ==
    \/ Cardinality(Listed(st)) <= HistoryLimit
    \/ st[j] \in Active
    \/ Cardinality(NewerEnded(j, st)) + Cardinality(ActiveIn(st)) < HistoryLimit

Prune(st) == [j \in Jobs |-> IF Fits(j, st) THEN st[j] ELSE "absent"]

(* Mutant: jobs.json receives the list as it was before the change.        *)
PersistLate(st, ok) ==
    /\ status' = Prune(st)
    /\ disk' = IF ok THEN status ELSE disk
    /\ faults' = IF ok THEN faults ELSE faults + 1

(* persist: prune in memory, then replace jobs.json by rename.  A failing  *)
(* write leaves the old file, but the pruned list.                         *)
Persist(st, ok) ==
    /\ status' = Prune(st)
    /\ disk' = IF ok THEN Prune(st) ELSE disk
    /\ faults' = IF ok THEN faults ELSE faults + 1

Writes == {TRUE} \cup (IF faults < MaxFaults THEN {FALSE} ELSE {})

(* Mutant: wait() looks for success or failure only.                       *)
EmittedDecided(j, st) == IF st[j] \in {"succeeded", "failed"} THEN waiting \ {j} ELSE waiting

(* events.emit("changed", j): wait() answers if j is listed and terminal.  *)
Emitted(j, st) == IF st[j] \in Terminal THEN waiting \ {j} ELSE waiting

Down ==
    /\ server' = "down"
    /\ rejected' = FALSE
    /\ status' = [j \in Jobs |-> "absent"]
    /\ phase' = [j \in Jobs |-> "idle"]
    /\ scheduled' = FALSE
    /\ waiting' = {}

-----------------------------------------------------------------------------
(* Mutant: interrupted work is queued again.                               *)
RecoveredQueued(s) == IF s = "running" THEN "queued" ELSE s

(* recoverInterrupted, applied to a stored status.                         *)
Recovered(s) == CASE s = "running" -> "failed"
                  [] s = "cancelling" -> "cancelled"
                  [] OTHER -> s

(* The constructor: load, recoverInterrupted, persist.                     *)
Boot ==
    /\ server = "down"
    /\ server' = "loaded"
    /\ LET st == [j \in Jobs |-> Recovered(disk[j])]
       IN  /\ Persist(st, TRUE)
           /\ owed' = {j \in owed : st[j] \notin Terminal}
    /\ UNCHANGED <<rejected, created, input, phase, scheduled, waiting, crashes, history>>

(* start() on a primary.                                                   *)
StartPrimary ==
    /\ server = "loaded"
    /\ server' = "primary"
    /\ scheduled' = TRUE
    /\ UNCHANGED <<rejected, created, input, status, phase, waiting, disk, crashes,
                   faults, owed, history>>

(* start({allowlist, suppressDisallowed}) on a standby: queued jobs of     *)
(* other types become cancelled history.                                   *)
Disallowed == {j \in Jobs : status[j] = "queued" /\ input[j].type \notin Allowlist}

(* Mutant: the suppressed jobs are not written back.                       *)
StartStandbyUnsaved ==
    /\ server = "loaded"
    /\ server' = "standby"
    /\ scheduled' = TRUE
    /\ status' = [j \in Jobs |-> IF j \in Disallowed THEN "cancelled" ELSE status[j]]
    /\ owed' = owed \ Disallowed
    /\ suppressed' = suppressed \cup Disallowed
    /\ UNCHANGED <<rejected, created, input, phase, waiting, disk, crashes, faults, starts>>

StartStandby ==
    /\ server = "loaded"
    /\ server' = "standby"
    /\ scheduled' = TRUE
    /\ IF Disallowed = {}
       THEN UNCHANGED <<status, disk, faults>>
       ELSE Persist([j \in Jobs |-> IF j \in Disallowed THEN "cancelled" ELSE status[j]], TRUE)
    /\ owed' = owed \ Disallowed
    /\ suppressed' = suppressed \cup Disallowed
    /\ UNCHANGED <<rejected, created, input, phase, waiting, crashes, starts>>

(* The process is killed, or the host loses power.                         *)
Crash ==
    /\ server # "down" /\ crashes < MaxCrashes
    /\ crashes' = crashes + 1
    /\ Down
    /\ UNCHANGED <<created, input, disk, faults, owed, history>>

(* Node ends the process after the microtasks of an unhandled rejection.   *)
Exit ==
    /\ rejected
    /\ Down
    /\ UNCHANGED <<created, input, disk, crashes, faults, owed, history>>

-----------------------------------------------------------------------------
(* The part of create() after deduplication.  If the write throws, the job *)
(* stays in memory, and nothing schedules it.                              *)
Enqueue(in) ==
    /\ created < MaxJobs
    /\ created' = created + 1
    /\ LET j == created + 1
       IN  \E ok \in Writes :
             /\ input' = [input EXCEPT ![j] = in]
             /\ Persist([status EXCEPT ![j] = "queued"], ok)
             /\ scheduled' = (scheduled \/ ok)
             /\ owed' = IF ok THEN owed \cup {j} ELSE owed
    /\ UNCHANGED <<server, rejected, phase, waiting, crashes, history>>

(* create() for a submission no active job has the key of.  On a standby   *)
(* only the allowlisted type is ever submitted (server.js answers 423 to   *)
(* every other mutation and starts no other scheduler).                    *)
Create(r) ==
    /\ Serving /\ Allowed(r.type)
    /\ Existing(r) = {}
    /\ Enqueue(r)

(* create() for a submission an active job has the key of: the caller is   *)
(* answered with the first such job.                                       *)
CreateDuplicate(r) ==
    /\ Serving /\ Allowed(r.type)
    /\ \E j \in Existing(r) :
         /\ \A k \in Existing(r) : j <= k
         /\ owed' = owed \cup {j}
    /\ UNCHANGED <<server, memory, created, input, disk, crashes, faults, history>>

(* retry(): a linked copy of a finished job, without its idempotency key.  *)
Retry(j) ==
    /\ Serving /\ server = "primary"
    /\ status[j] \in Terminal /\ input[j].retryable
    /\ Enqueue(Unkeyed(input[j]))

(* cancel() of a queued job takes effect at once.                          *)
CancelQueued(j) ==
    /\ Serving /\ server = "primary"
    /\ status[j] = "queued"
    /\ \E ok \in Writes :
         /\ Persist([status EXCEPT ![j] = "cancelled"], ok)
         /\ waiting' = IF ok THEN Emitted(j, status') ELSE waiting
    /\ owed' = owed \ {j}
    /\ UNCHANGED <<server, rejected, created, input, phase, scheduled, crashes, history>>

(* cancel() of a running job is a request the handler may still outrun.    *)
CancelRunning(j) ==
    /\ Serving /\ server = "primary"
    /\ status[j] \in {"running", "cancelling"} /\ input[j].cancellable
    /\ \E ok \in Writes : Persist([status EXCEPT ![j] = "cancelling"], ok)
    /\ UNCHANGED <<server, rejected, created, input, phase, scheduled, waiting,
                   crashes, owed, history>>

(* wait(), by the backup and maintenance schedulers, which only a primary  *)
(* runs, on a job that is not terminal yet.                                *)
Wait(j) ==
    /\ Serving /\ server = "primary"
    /\ status[j] \in Active /\ input[j].type \in Awaited
    /\ waiting' = waiting \cup {j}
    /\ UNCHANGED <<server, rejected, created, input, status, phase, scheduled, disk, crashes,
                    faults, owed, history>>

-----------------------------------------------------------------------------
Queued == {j \in Jobs : status[j] = "queued" /\ Allowed(input[j].type)}

(* Mutant: jobs launched earlier in the same walk do not block.            *)
LaunchableAtOnce(S) == S = {j \in Queued : ~ \E k \in Running : Conflict(j, k)}

(* The launching microtask walks the queued jobs in order; a job is        *)
(* launched unless a running job, or one launched before it in this walk,  *)
(* shares a conflict key with it.                                          *)
Launchable(S) ==
    \A j \in Queued :
        j \in S <=> ~ \E k \in Running \cup {i \in S : i < j} : Conflict(j, k)

Launched(S) == [j \in Jobs |-> IF j \in S THEN "running" ELSE status[j]]

Schedule ==
    /\ scheduled
    /\ scheduled' = FALSE
    /\ \E S \in SUBSET Queued :
         /\ Launchable(S)
         /\ phase' = [j \in Jobs |-> IF j \in S THEN "launched" ELSE phase[j]]
         /\ IF S = {} THEN UNCHANGED <<status, disk, faults>> ELSE Persist(Launched(S), TRUE)
    /\ UNCHANGED <<server, rejected, created, input, waiting, crashes, owed, history>>

(* A write that throws inside the microtask ends the process; the jobs     *)
(* launched before it are already on disk as running.                      *)
ScheduleFails ==
    /\ scheduled /\ FALSE \in Writes
    /\ \E S \in SUBSET Queued : \E j \in S :
         /\ Launchable(S)
         /\ LET before == {i \in S : i < j}
            IN  disk' = IF before = {} THEN disk
                        ELSE Prune(Launched(before))
    /\ faults' = faults + 1
    /\ Down
    /\ UNCHANGED <<created, input, crashes, owed, history>>

(* The first microtask of the promise chain calls the handler.             *)
CallHandler(j) ==
    /\ phase[j] = "launched"
    /\ phase' = [phase EXCEPT ![j] = "handling"]
    /\ starts' = [starts EXCEPT ![j] = @ + 1]
    /\ UNCHANGED <<server, rejected, created, input, status, scheduled, waiting, disk,
                   crashes, faults, owed, suppressed>>

(* context.update() by the handler, and recordNotification() by the alert  *)
(* manager: the whole list is written again.                               *)
Rewrite(j) ==
    /\ phase[j] = "handling" \/ status[j] \in Terminal
    /\ \E ok \in Writes : Persist(status, ok)
    /\ UNCHANGED <<server, rejected, created, input, phase, scheduled, waiting,
                   crashes, owed, history>>

(* What a handler may return: its own ok and status, whether some of its   *)
(* results succeeded or failed, and whether it stopped short of its total. *)
Results == [ok : {"true", "false", "unset"}, status : Terminal \cup {"unset"},
            good : BOOLEAN, bad : BOOLEAN, short : BOOLEAN]

(* Mutant: the status a handler returns is stored whatever it is.          *)
VerdictUnchecked(cancelling, r) == IF cancelling /\ r.short THEN "cancelled" ELSE r.status

(* finish(): the status a returned result earns.                           *)
Verdict(cancelling, r) ==
    IF cancelling /\ r.short THEN "cancelled"
    ELSE IF r.status # "unset" THEN r.status
    ELSE IF r.ok = "false" /\ r.good /\ r.bad THEN "partially_succeeded"
    ELSE IF r.ok = "false" \/ (r.bad /\ ~r.good) THEN "failed"
    ELSE IF r.bad THEN "partially_succeeded" ELSE "succeeded"

Verdicts == [cancelling \in BOOLEAN |-> {Verdict(cancelling, r) : r \in Results}]

Settled(j, v) == [status EXCEPT ![j] = v]

Settle(j, v, ok) ==
    /\ phase' = [phase EXCEPT ![j] = "settled"]
    /\ Persist(Settled(j, v), ok)
    /\ owed' = owed \ {j}
    /\ rejected' = (rejected \/ ~ok)
    /\ UNCHANGED <<server, created, input, scheduled, waiting, crashes, history>>

HandlerReturns(j) ==
    /\ phase[j] = "handling"
    /\ \E v \in Verdicts[status[j] = "cancelling"] : Settle(j, v, TRUE)

(* fail(): checkpoint() raises JobCancelledError once cancel was asked for;*)
(* any other error fails the job.  Nothing handles an error of this write. *)
HandlerThrows(j) ==
    /\ phase[j] = "handling"
    /\ \E v \in {"failed"} \cup (IF status[j] = "cancelling" THEN {"cancelled"} ELSE {}) :
       \E ok \in Writes : Settle(j, v, ok)

(* The write of finish() throws, and the chain falls through to fail():    *)
(* work that was done is recorded as failed.                               *)
FinishUnsaved(j) ==
    /\ phase[j] = "handling" /\ faults < MaxFaults
    /\ \E again \in BOOLEAN :
         /\ again => faults + 1 < MaxFaults
         /\ status' = Prune(Settled(j, "failed"))
         /\ disk' = IF again THEN disk ELSE status'
         /\ faults' = faults + (IF again THEN 2 ELSE 1)
         /\ rejected' = (rejected \/ again)
    /\ phase' = [phase EXCEPT ![j] = "settled"]
    /\ owed' = owed \ {j}
    /\ UNCHANGED <<server, created, input, scheduled, waiting, crashes, history>>

(* Mutant: the end of a job does not walk the queue again.                 *)
FinallyQuiet(j) ==
    /\ phase[j] = "settled"
    /\ phase' = [phase EXCEPT ![j] = "idle"]
    /\ waiting' = Emitted(j, status)
    /\ UNCHANGED <<server, rejected, created, input, status, scheduled, disk, crashes,
                    faults, owed, history>>

(* finally(): the job stops blocking others, and the queue is walked again.*)
Finally(j) ==
    /\ phase[j] = "settled"
    /\ phase' = [phase EXCEPT ![j] = "idle"]
    /\ waiting' = Emitted(j, status)
    /\ scheduled' = TRUE
    /\ UNCHANGED <<server, rejected, created, input, status, disk, crashes, faults,
                    owed, history>>

-----------------------------------------------------------------------------
Init ==
    /\ server = "down" /\ rejected = FALSE
    /\ created = 0
    /\ input = [j \in Jobs |-> NoInput]
    /\ status = [j \in Jobs |-> "absent"]
    /\ phase = [j \in Jobs |-> "idle"]
    /\ scheduled = FALSE
    /\ waiting = {}
    /\ disk = [j \in Jobs |-> "absent"]
    /\ crashes = 0 /\ faults = 0
    /\ starts = [j \in Jobs |-> 0]
    /\ owed = {} /\ suppressed = {}

Next ==
    \/ Boot \/ StartPrimary \/ StartStandby
    \/ Crash \/ Exit
    \/ \E r \in Requests : Create(r) \/ CreateDuplicate(r)
    \/ \E j \in Jobs :
         \/ Retry(j) \/ CancelQueued(j) \/ CancelRunning(j) \/ Wait(j)
         \/ CallHandler(j) \/ Rewrite(j) \/ HandlerReturns(j) \/ HandlerThrows(j)
         \/ FinishUnsaved(j) \/ Finally(j)
    \/ Schedule \/ ScheduleFails

Spec == Init /\ [][Next]_vars

(* Docker restarts the panel (restart: unless-stopped), the event loop     *)
(* drains its microtasks, and every handler returns or throws: each runs   *)
(* commands and requests that have time-outs.                              *)
Fairness ==
    /\ WF_vars(Boot) /\ WF_vars(StartPrimary \/ StartStandby) /\ WF_vars(Exit)
    /\ WF_vars(Schedule)
    /\ \A j \in Jobs :
         /\ WF_vars(CallHandler(j))
         /\ WF_vars(HandlerReturns(j) \/ HandlerThrows(j))
         /\ WF_vars(Finally(j))

FairSpec == Spec /\ Fairness

-----------------------------------------------------------------------------
Statuses == Active \cup Terminal \cup {"absent"}

(* Every variable has the shape the code gives it.                         *)
TypeOK ==
    /\ server \in {"down", "loaded", "primary", "standby"}
    /\ rejected \in BOOLEAN /\ scheduled \in BOOLEAN
    /\ created \in 0 .. MaxJobs
    /\ input \in [Jobs -> Inputs \cup {NoInput}]
    /\ status \in [Jobs -> Statuses]
    /\ disk \in [Jobs -> Statuses]
    /\ phase \in [Jobs -> {"idle", "launched", "handling", "settled"}]
    /\ waiting \subseteq Jobs
    /\ crashes \in Nat /\ faults \in Nat
    /\ starts \in [Jobs -> Nat]
    /\ owed \subseteq Jobs /\ suppressed \subseteq Jobs

(* Named conflict keys serialise work (docs/ARCHITECTURE.md): two jobs     *)
(* that share one are never both between launch and the end of their       *)
(* promise chain, whatever is cancelled, retried or pruned in between.     *)
ConflictExclusion == \A j, k \in Running : j # k => ~Conflict(j, k)

(* "Work that was running is marked failed because the panel cannot prove  *)
(* that an interrupted external mutation completed": over any number of    *)
(* restarts no job's handler is called twice.                              *)
AtMostOnce == \A j \in Jobs : starts[j] <= 1

(* "Active work is never pruned" (docs/CONFIGURATION.md): while the process*)
(* lives an acknowledged job leaves the list only by ending, however old   *)
(* it is and however many newer jobs the history holds.                    *)
ActiveNeverPruned ==
    [][\A j \in Jobs : (status[j] \in Active /\ status'[j] = "absent")
                          => (server' = "down" \/ phase'[j] = "settled" \/ j \notin owed')]_vars

(* An idempotency key names at most one active job, so a submission sent   *)
(* twice runs once (the test "deduplicates active submissions").           *)
OneActivePerKey ==
    \A j, k \in Jobs :
       ({status[j], status[k]} \subseteq Active /\ input[j].key = input[k].key
          /\ input[j].key # NoKey) => j = k

(* "Queued work survives a panel restart" (docs/ARCHITECTURE.md): a job    *)
(* the caller was told about is on disk as active work until it ends.      *)
AcknowledgedSurvives == \A j \in owed : disk[j] \in Active

(* The same as long as no write of jobs.json has failed.                   *)
WrittenWorkSurvives == faults = 0 => AcknowledgedSurvives

(* Work a standby turned into history is "never executed after promotion   *)
(* preparation" (docs/API.md): not by that process and not by a later one  *)
(* that boots as primary.                                                  *)
SuppressedNeverRuns == \A j \in suppressed : starts[j] = 0

(* No wake-up is lost: while writes succeed, a queued job the running      *)
(* server may execute leaves the queue, or the process goes down.          *)
QueuedLeaves ==
    \A j \in Jobs : (j \in Queued /\ server # "loaded" /\ faults = 0)
                       ~> (j \notin Queued \/ faults > 0)

(* A scheduler that waits for a job hears of its end, unless the job was   *)
(* pruned from history before its last event, or a write failed.           *)
WaiterAnswered ==
    \A j \in Jobs : (j \in waiting /\ faults = 0)
                       ~> (j \notin waiting \/ status[j] = "absent" \/ faults > 0)
=============================================================================
