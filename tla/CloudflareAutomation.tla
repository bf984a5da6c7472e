------------------------- MODULE CloudflareAutomation -------------------------
(***************************************************************************)
(* Bulk presets with their rollback, and temporary mitigations: the jobs   *)
(* of ui-manager/app/lib/cloudflare-automation-manager.js and the calls    *)
(* they make of Cloudflare (CloudflareClient in lib/integrations.js).      *)
(*                                                                         *)
(* All these jobs conflict on "cloudflare-automation", so they run one at  *)
(* a time in the order they were created (JobManager).  Rules may also be  *)
(* edited by hand at any moment, through the panel's own security routes   *)
(* or at Cloudflare.  One zone is modelled, with zone settings and panel   *)
(* rules as items of one kind or the other; a mitigation is the rule of an *)
(* address.  A preview and its confirmation are one step: what happens     *)
(* between them may as well happen while the job waits.                    *)
(*                                                                         *)
(* A rule has the number of its creation for an ID.                        *)
(***************************************************************************)
EXTENDS Naturals, Sequences, FiniteSets

CONSTANTS
    Rules, Settings, Addresses, None,
    Durations,    \* of a mitigation, in ticks
    MaxTime,      \* bound: ticks of the clock
    MaxCommands,  \* bound: what operators submit
    MaxEdits,     \* bound: edits by hand
    MaxFaults,    \* bound: calls that fail, with or without effect
    MaxCrashes,   \* bound: restarts of the panel
    LateEdits,    \* may a hand edit an item between the dry run of an apply job and its turn?
    ZoneLapses    \* may Cloudflare answer 404 because the zone is not active?

Wanted == "preset"
Values == {"before", "preset", "edited"}

ASSUME CloudflareAutomationAssumption ==
    /\ Rules \cap Settings = {} /\ None \notin Addresses
    /\ None \notin Values \cup [id : Nat, value : Values]
    /\ None \notin [id : Nat, until : Nat] \cup [no : Nat, id : Nat, until : Nat, removed : BOOLEAN]
    /\ Durations \subseteq Nat \ {0} /\ MaxTime \in Nat
    /\ MaxCommands \in Nat /\ MaxEdits \in Nat /\ MaxFaults \in Nat /\ MaxCrashes \in Nat
    /\ LateEdits \in BOOLEAN /\ ZoneLapses \in BOOLEAN

Items == Rules \cup Settings

VARIABLES
    items,     \* at Cloudflare: None or [id, value] of each item
    shield,    \* at Cloudflare: None or [id, until] of the rule of each address
    ids,       \* rules created so far
    batches,   \* cloudflare-automation-history.json, the oldest batch first
    records,   \* cloudflare-incidents.json: the last record of each address
    waiting,   \* jobs in the queue
    run,       \* the job that runs
    now,
    wrote,     \* history: who wrote an item last, over what
    lost,      \* history: addresses whose rule was written and the answer or the panel lost
    commands, edits, faults, crashes

vars == <<items, shield, ids, batches, records, waiting, run, now, wrote, lost,
          commands, edits, faults, crashes>>
Provider == <<items, shield, ids, wrote>>
Stored == <<batches, records>>
Bounds == <<commands, edits, faults, crashes>>

Idle == [pc |-> "idle"]
Running == run.pc # "idle"

Right == UNCHANGED faults
Fault == faults < MaxFaults /\ faults' = faults + 1

(* previewBulk: what is there decides what would be changed.               *)
Value(i) == IF items[i] = None THEN None ELSE items[i].value
Seen(sel) == [i \in sel |-> Value(i)]

Submits(job) ==
    /\ commands < MaxCommands /\ commands' = commands + 1
    /\ waiting' = Append(waiting, job)
    /\ UNCHANGED <<Provider, Stored, run, now, lost, edits, faults, crashes>>

Takes(kind) == ~Running /\ waiting # <<>> /\ Head(waiting).kind = kind /\ waiting' = Tail(waiting)
Ends == run' = Idle

-----------------------------------------------------------------------------
(* Bulk presets.                                                           *)

SubmitApply(sel) == Submits([kind |-> "apply", seen |-> Seen(sel)])

(* Mutant: the reviewed values are not compared with the present ones.     *)
UnchangedUnread(seen) == TRUE
Unchanged(seen) == seen = Seen(DOMAIN seen)

(* The batch is written before the first change, and again after the last. *)
StartApply ==
    LET job == Head(waiting) IN
    /\ Takes("apply")
    /\ \/ /\ Unchanged(job.seen) /\ Right
          /\ batches' = Append(batches, [status |-> "running", rollback |-> <<>>, undone |-> FALSE])
          /\ run' = [pc |-> "applying", batch |-> Len(batches) + 1, left |-> DOMAIN job.seen,
                     reviewed |-> job.seen, current |-> Seen(DOMAIN job.seen), rollback |-> <<>>, failed |-> FALSE]
       \/ /\ ~Unchanged(job.seen) /\ Right /\ UNCHANGED <<batches, run>>
       \/ /\ Unchanged(job.seen) /\ Fault /\ UNCHANGED <<batches, run>>
    /\ UNCHANGED <<Provider, records, now, lost, commands, edits, crashes>>

Writes(i, new, who) ==
    /\ items' = [items EXCEPT ![i] = new]
    /\ wrote' = [wrote EXCEPT ![i] = [by |-> who, over |-> items[i]]]

(* What the provider holds afterwards, and the entry of the rollback: the  *)
(* value of a setting is the one of the preview, a rule's is read again.   *)
Applied(i) ==
    IF items[i] = None THEN [id |-> ids + 1, value |-> Wanted]
    ELSE [items[i] EXCEPT !.value = Wanted]

(* Mutant: a rule that was there counts as created.                        *)
EntryDeletes(i) ==
    IF i \in Settings THEN [item |-> i, mode |-> "set", previous |-> run.current[i]]
    ELSE [item |-> i, mode |-> "delete", id |-> Applied(i).id]
Entry(i) ==
    IF i \in Settings THEN [item |-> i, mode |-> "set", previous |-> run.current[i]]
    ELSE IF items[i] = None THEN [item |-> i, mode |-> "delete", id |-> ids + 1]
    ELSE [item |-> i, mode |-> "restore", id |-> items[i].id,
          previous |-> IF items[i].value = Wanted THEN None ELSE items[i].value]

Done(i) == [run EXCEPT !.left = @ \ {i}]

ApplyItem(i) ==
    /\ run.pc = "applying" /\ i \in run.left
    /\ \/ /\ run.current[i] = Wanted /\ run' = Done(i) /\ Right
          /\ UNCHANGED <<items, ids, wrote>>
       \/ /\ run.current[i] # Wanted /\ Right
          /\ run' = [Done(i) EXCEPT !.rollback = Append(@, Entry(i))]
          /\ Writes(i, Applied(i), run.batch)
          /\ ids' = IF items[i] = None THEN ids + 1 ELSE ids
       \/ /\ run.current[i] # Wanted /\ Fault
          /\ run' = [Done(i) EXCEPT !.failed = TRUE]
          /\ \/ UNCHANGED <<items, ids, wrote>>
             \/ /\ Writes(i, Applied(i), run.batch)
                /\ ids' = IF items[i] = None THEN ids + 1 ELSE ids
    /\ UNCHANGED <<shield, Stored, waiting, now, lost, commands, edits, crashes>>

FinishApply ==
    /\ run.pc = "applying" /\ run.left = {}
    /\ batches' = [batches EXCEPT ![run.batch].status = IF ~run.failed THEN "complete" ELSE
                                     IF run.rollback # <<>> THEN "partial" ELSE "failed",
                                  ![run.batch].rollback = run.rollback]
    /\ Ends
    /\ UNCHANGED <<Provider, records, waiting, now, lost>> /\ UNCHANGED Bounds

(* A checkpoint stops the job between two calls and nothing is recorded.   *)
Cancel ==
    /\ run.pc \in {"applying", "undoing"} /\ (run.pc = "applying" => run.left # {})
    /\ commands < MaxCommands /\ commands' = commands + 1
    /\ Ends
    /\ UNCHANGED <<Provider, Stored, waiting, now, lost, edits, faults, crashes>>

SubmitRollback(b) ==
    /\ ~batches[b].undone
    /\ Submits([kind |-> "rollback", batch |-> b])

StartRollback ==
    LET batch == batches[Head(waiting).batch] IN
    /\ Takes("rollback")
    /\ run' = IF batch.undone THEN Idle
              ELSE [pc |-> "undoing", batch |-> Head(waiting).batch, left |-> batch.rollback]
    /\ UNCHANGED <<Provider, Stored, now, lost>> /\ UNCHANGED Bounds

(* The rule has to be there under the ID that was recorded.                *)
Undoable(e) ==
    e.mode # "set" => /\ items[e.item] # None /\ items[e.item].id = e.id
                      /\ e.mode = "restore" => e.previous # None
Undoes(e) ==
    Writes(e.item, IF e.mode = "delete" THEN None ELSE [items[e.item] EXCEPT !.value = e.previous], 0)

UndoItem ==
    /\ run.pc = "undoing" /\ run.left # <<>>
    /\ LET e == run.left[Len(run.left)] IN
       \/ Undoable(e) /\ Undoes(e) /\ Right
       \/ ~Undoable(e) /\ UNCHANGED <<items, wrote>> /\ Right
       \/ Undoable(e) /\ Fault /\ (Undoes(e) \/ UNCHANGED <<items, wrote>>)
    /\ run' = [run EXCEPT !.left = SubSeq(@, 1, Len(@) - 1)]
    /\ UNCHANGED <<shield, ids, Stored, waiting, now, lost, commands, edits, crashes>>

FinishRollback ==
    /\ run.pc = "undoing" /\ run.left = <<>>
    /\ batches' = [batches EXCEPT ![run.batch].undone = TRUE]
    /\ Ends
    /\ UNCHANGED <<Provider, records, waiting, now, lost>> /\ UNCHANGED Bounds

-----------------------------------------------------------------------------
(* Temporary mitigations.                                                  *)

SubmitMitigation(a, d) == Submits([kind |-> "mitigate", address |-> a, until |-> now + d])

(* One rule per address: there is one to change, or one is created.        *)
Shielded(a, until) ==
    /\ shield' = [shield EXCEPT ![a] = [id |-> IF @ = None THEN ids + 1 ELSE @.id, until |-> until]]
    /\ ids' = IF shield[a] = None THEN ids + 1 ELSE ids

StartMitigation ==
    LET job == Head(waiting) IN
    /\ Takes("mitigate")
    /\ \/ /\ job.until <= now /\ Right /\ UNCHANGED <<shield, ids, run, lost>>
       \/ /\ job.until > now /\ Right /\ UNCHANGED lost
          /\ Shielded(job.address, job.until)
          /\ run' = [pc |-> "record", address |-> job.address, until |-> job.until, id |-> shield'[job.address].id]
       \/ /\ job.until > now /\ Fault /\ UNCHANGED run
          /\ \/ UNCHANGED <<shield, ids, lost>>
             \/ Shielded(job.address, job.until) /\ lost' = lost \cup {job.address}
    /\ UNCHANGED <<items, wrote, Stored, now, commands, edits, crashes>>

(* An address whose rule is recorded keeps its record, or gets a new one.  *)
Live(r) == r # None /\ ~r.removed

No(r) == IF Live(r) THEN r.no ELSE IF r = None THEN 1 ELSE r.no + 1
(* Mutant: the record of a rule that was removed is used again as it is.   *)
RecordStillRemoved(r) ==
    [no |-> No(r), id |-> run.id, until |-> run.until, removed |-> r # None /\ ~Live(r)]
Record(r) == [no |-> No(r), id |-> run.id, until |-> run.until, removed |-> FALSE]

RecordMitigation ==
    LET a == run.address IN
    /\ run.pc = "record"
    /\ records' = [records EXCEPT ![a] = Record(@)]
    /\ lost' = lost \ {a} /\ Ends
    /\ UNCHANGED <<Provider, batches, waiting, now>> /\ UNCHANGED Bounds

Removal(a, manual) == [kind |-> "remove", address |-> a, no |-> records[a].no, manual |-> manual]

(* The idempotency key of a removal that waits or runs.                    *)
Asked(a) ==
    \/ \E k \in DOMAIN waiting : waiting[k] \in {Removal(a, TRUE), Removal(a, FALSE)}
    \/ run.pc \in {"delete", "removed"} /\ run.address = a /\ run.no = records[a].no

SubmitRemoval(a) == records[a] # None /\ ~Asked(a) /\ Submits(Removal(a, TRUE))

(* expireIncidents, once a minute.                                         *)
Expired(a) == Live(records[a]) /\ records[a].until <= now

ExpireIncidents(a) ==
    /\ Expired(a) /\ ~Asked(a)
    /\ waiting' = Append(waiting, Removal(a, FALSE))
    /\ UNCHANGED <<Provider, Stored, run, now, lost>> /\ UNCHANGED Bounds

StartRemoval ==
    LET job == Head(waiting) IN
    /\ Takes("remove")
    /\ run' = IF records[job.address].no = job.no /\ Live(records[job.address])
              THEN [pc |-> "delete", address |-> job.address, no |-> job.no, manual |-> job.manual] ELSE Idle
    /\ UNCHANGED <<Provider, Stored, now, lost>> /\ UNCHANGED Bounds

(* Does a call that failed count as one that found no rule?                *)
(* Mutant: whatever Cloudflare answers, the rule is taken to be gone.      *)
GoneAnyway(a) == TRUE
Gone(a) == FALSE

(* A rule that is not there under its ID, or a zone that is not: 404.      *)
DeleteRule ==
    LET a == run.address
        there == shield[a] # None /\ shield[a].id = records[a].id
        next == [run EXCEPT !.pc = "removed"] IN
    /\ run.pc = "delete"
    /\ \/ there /\ Right /\ shield' = [shield EXCEPT ![a] = None] /\ run' = next
       \/ (~there \/ ZoneLapses) /\ Right /\ UNCHANGED shield /\ run' = next
       \/ /\ Fault /\ run' = IF Gone(a) THEN next ELSE Idle
          /\ \/ UNCHANGED shield
             \/ there /\ shield' = [shield EXCEPT ![a] = None]
    /\ UNCHANGED <<items, ids, wrote, Stored, waiting, now, lost, commands, edits, crashes>>

RecordRemoval ==
    /\ run.pc = "removed"
    /\ records' = [records EXCEPT ![run.address].removed = TRUE] /\ Ends
    /\ UNCHANGED <<Provider, batches, waiting, now, lost>> /\ UNCHANGED Bounds

-----------------------------------------------------------------------------
(* Hands, time and restarts.                                               *)

Edits == edits < MaxEdits /\ edits' = edits + 1
Early(i) == LateEdits \/ ~(run.pc = "applying" /\ i \in run.left)

EditItem(i) ==
    /\ Edits /\ Early(i)
    /\ \/ items[i] # None /\ Value(i) # "edited"
          /\ Writes(i, [items[i] EXCEPT !.value = "edited"], 0) /\ UNCHANGED ids
       \/ i \in Rules /\ items[i] # None /\ Writes(i, None, 0) /\ UNCHANGED ids
    /\ UNCHANGED <<shield, Stored, waiting, run, now, lost, commands, faults, crashes>>

(* A preset chosen for one website, or the defaults given to a new one of  *)
(* the zone: no batch, no job of this queue and no rollback.               *)
ProvisioningDefault(i) ==
    /\ Edits /\ Early(i) /\ Value(i) # Wanted
    /\ Writes(i, Applied(i), 0) /\ ids' = IF items[i] = None THEN ids + 1 ELSE ids
    /\ UNCHANGED <<shield, Stored, waiting, run, now, lost, commands, faults, crashes>>

DeleteShield(a) ==
    /\ Edits /\ shield[a] # None /\ shield' = [shield EXCEPT ![a] = None]
    /\ lost' = lost \ {a}
    /\ UNCHANGED <<items, ids, wrote, Stored, waiting, run, now, commands, faults, crashes>>

Tick ==
    /\ now < MaxTime /\ now' = now + 1
    /\ UNCHANGED <<Provider, Stored, waiting, run, lost>> /\ UNCHANGED Bounds

(* recoverInterruptedBatches; the job that ran has failed, the others wait.*)
Crash ==
    /\ crashes < MaxCrashes /\ crashes' = crashes + 1
    /\ batches' = [b \in DOMAIN batches |-> IF batches[b].status = "running"
                                            THEN [batches[b] EXCEPT !.status = "interrupted"] ELSE batches[b]]
    /\ lost' = IF run.pc = "record" THEN lost \cup {run.address} ELSE lost
    /\ Ends
    /\ UNCHANGED <<Provider, records, waiting, now, commands, edits, faults>>

-----------------------------------------------------------------------------
Init ==
    /\ items = [i \in Items |-> IF i \in Settings THEN [id |-> 0, value |-> "before"] ELSE None]
    /\ shield = [a \in Addresses |-> None] /\ ids = 0
    /\ batches = <<>> /\ records = [a \in Addresses |-> None]
    /\ waiting = <<>> /\ run = Idle /\ now = 0
    /\ wrote = [i \in Items |-> [by |-> 0, over |-> None]] /\ lost = {}
    /\ commands = 0 /\ edits = 0 /\ faults = 0 /\ crashes = 0

Works ==
    \/ StartApply \/ (\E i \in Items : ApplyItem(i)) \/ FinishApply
    \/ StartRollback \/ UndoItem \/ FinishRollback
    \/ StartMitigation \/ RecordMitigation \/ StartRemoval \/ DeleteRule \/ RecordRemoval

Next ==
    \/ \E sel \in SUBSET Items \ {{}} : SubmitApply(sel)
    \/ \E b \in DOMAIN batches : SubmitRollback(b)
    \/ \E a \in Addresses, d \in Durations : SubmitMitigation(a, d)
    \/ \E a \in Addresses : SubmitRemoval(a) \/ ExpireIncidents(a) \/ DeleteShield(a)
    \/ \E i \in Items : EditItem(i) \/ ProvisioningDefault(i)
    \/ Works \/ Cancel \/ Tick \/ Crash

Spec == Init /\ [][Next]_vars

(* Queued jobs run and the expiry timer fires.                             *)
FairSpec ==
    /\ Spec /\ WF_vars(Works)
    /\ \A a \in Addresses : WF_vars(ExpireIncidents(a))

-----------------------------------------------------------------------------
(* An apply job writes nothing but what the operator reviewed: whatever    *)
(* jobs ran and hands edited while it waited, each of its writes finds the *)
(* value that the confirmed dry run showed.                                *)
ReviewedOnly ==
    [][\A i \in Items :
         run.pc = "applying" /\ items'[i] # items[i] /\ wrote'[i].by = run.batch =>
             i \in DOMAIN run.reviewed /\ run.reviewed[i] = Value(i)]_vars

(* A rollback gives back, under its ID, exactly what its batch wrote over, *)
(* unless somebody wrote later, and touches nothing else of other batches. *)
RollbackRestores ==
    [][\A i \in Items :
         run.pc = "undoing" /\ edits' = edits /\ items'[i] # items[i] /\ wrote[i].by = run.batch =>
             items'[i] = wrote[i].over]_vars

(* A rule that blocks visitors is known: unless the answer to its writing  *)
(* was lost, or a crash came before the record, the rule of an address has *)
(* a record that is not removed, with its ID and its expiry.               *)
MitigationRecorded ==
    \A a \in Addresses :
        shield[a] # None /\ a \notin lost /\ ~(run.pc = "record" /\ run.address = a) =>
            Live(records[a]) /\ records[a].id = shield[a].id /\ records[a].until = shield[a].until

(* A recorded mitigation ends after its expiry, whatever calls fail on the *)
(* way and however often the panel restarts.                               *)
Over(a) == shield[a] # None /\ shield[a].until <= now /\ a \notin lost
MitigationEnds == \A a \in Addresses : Over(a) ~> ~Over(a)

(* A mitigation lasts until its expiry unless an operator removes it.  It  *)
(* does not: a removal queued for the old expiry is not checked again and  *)
(* takes away what a job before it in the queue has just extended.         *)
MitigationLasts ==
    [][\A a \in Addresses :
         shield[a] # None /\ shield'[a] = None /\ edits' = edits =>
             shield[a].until <= now \/ run.manual]_vars
===============================================================================
