---------------------------- MODULE BackupReception ----------------------------
(***************************************************************************)
(* The standby's copies of the primary's backup sets, from reception to a  *)
(* prepared standby: scripts/receive-backups.sh, the deep verification of  *)
(* lib/deep-verify-manager.js (as a service and as a job of the panel),    *)
(* scripts/prepare-standby.sh and the readiness check of                   *)
(* lib/promotion-preflight.js.                                             *)
(*                                                                         *)
(* The scripts are processes of the host, which share one flock; only the  *)
(* panel's job does without it.  A set is immutable and known by its group *)
(* and its number, the time it was completed.  Receipts and verification   *)
(* results are known by numbers, which stand for the hashes of their files.*)
(***************************************************************************)
EXTENDS Naturals, FiniteSets

CONSTANTS
    Sites,           \* the websites; each is a group of sets
    AppData,         \* the group of the application data
    Retention,       \* --retention of the receiver
    SourceDeletes,   \* whether the operator of the primary deletes sets by hand
    TornReads,       \* whether a receipt may change between two reads of it
    Repeats,         \* whether a standby that is prepared may be prepared again
    Slow,            \* whether a preparation may verify its sets for longer than
                     \* a deep verification takes that began after it
    MaxSourceSets, MaxReceipts, MaxVerifications, MaxFailures, MaxReboots   \* bounds

ASSUME BackupReceptionAssumption ==
    /\ IsFiniteSet(Sites) /\ AppData \notin Sites /\ Retention \in 1..30
    /\ {SourceDeletes, TornReads, Repeats, Slow} \subseteq BOOLEAN
    /\ {MaxSourceSets, MaxReceipts, MaxVerifications, MaxFailures, MaxReboots} \subseteq Nat

VARIABLES
    source, newest,   \* the sets of the primary, and the number of the newest
    held,             \* the sets in the standby's directory
    rotten,           \* those of them with damaged contents
    aside,            \* history: moved out by the operator and not received again
                      \* before the current receipt
    receipt,          \* receiver-state.json
    progress,         \* status in receiver-progress.json
    left,             \* what killed receptions left in .incoming
    flock,            \* who holds /run/hosting-backup-receiver/lock
    reception, verifier, preparation,   \* the running processes
    deep,             \* deep-verify-state.json
    disk,             \* the websites and application data of the standby
    marker,           \* standby-recovery.json
    due,              \* services that OnSuccess is to start
    role, writable,   \* role.json; whether the writable containers run
    spent             \* [failures, reboots, verifications]

primary == <<source, newest>>
copies == <<held, rotten, aside>>
files == <<receipt, progress, left>>
standby == <<disk, marker>>
host == <<role, writable>>
receptionVars == <<primary, copies, files, flock, reception, verifier, preparation,
                   deep, standby, due, host, spent>>

Groups == Sites \cup {AppData}
Verifiers == {"service", "panel"}
Stopped == [pc |-> "stopped"]
None == [no |-> 0, sets |-> {}]
Torn == [sets |-> {}, spoiled |-> TRUE, imported |-> FALSE]   \* a swap cut short

Failure == spent.failures < MaxFailures /\ spent' = [spent EXCEPT !.failures = @ + 1]

-----------------------------------------------------------------------------
(* Choosing sets                                                           *)

InGroup(group, sets) == {s \in sets : s.group = group}

Latest(group, sets) ==
    {s \in InGroup(group, sets) : \A t \in InGroup(group, sets) : t.id <= s.id}

(* Those of no website are newer than the newest application data.         *)
NotLaterThan(points, sets) ==
    {s \in sets : s.group = AppData \/ \A point \in points : s.id <= point.id}

(* What the receiver asks for: the newest set of each group, up to the     *)
(* newest application data if there is any.                                *)
Selected(offered) ==
    UNION {Latest(group, NotLaterThan(Latest(AppData, offered), offered)) : group \in Groups}

(* What the preparation restores.                                          *)
Chosen ==
    UNION {Latest(group, NotLaterThan(Latest(AppData, held), held)) : group \in Groups}

Older(s, sets) == {t \in InGroup(s.group, sets) : t.id < s.id}

(* Mutant: the names are sorted the wrong way.                             *)
BeyondRetentionReversed(groups) ==
    {s \in held : s.group \in groups /\ Cardinality(Older(s, held)) >= Retention}

(* The receiver's retention, in the groups it has just received.           *)
BeyondRetention(groups) ==
    {s \in held : s.group \in groups
                  /\ Cardinality({t \in InGroup(s.group, held) : t.id > s.id}) >= Retention}

-----------------------------------------------------------------------------
(* The primary                                                             *)

Completes(group) ==
    /\ newest < MaxSourceSets /\ newest' = newest + 1
    /\ source' = source \cup {[group |-> group, id |-> newest']}
    /\ UNCHANGED <<copies, files, flock, reception, verifier, preparation, deep, standby, due, host, spent>>

(* Its own retention deletes the oldest set of a group that has another.   *)
SourceDrops(s) ==
    /\ SourceDeletes \/ (Older(s, source) = {} /\ InGroup(s.group, source) # {s})
    /\ source' = source \ {s}
    /\ UNCHANGED <<newest, copies, files, flock, reception, verifier, preparation, deep, standby, due, host, spent>>

-----------------------------------------------------------------------------
(* receive-backups.sh, which the timer starts under the flock              *)

ReceptionStarts ==
    /\ flock = "free" /\ role = "standby" /\ receipt.no < MaxReceipts
    /\ flock' = "reception" /\ progress' = "running"
    /\ reception' = [pc |-> "sets", todo |-> Selected(source), verified |-> {}]
    /\ UNCHANGED <<primary, copies, receipt, left, verifier, preparation, deep, standby, due, host, spent>>

(* reuse_prior_attestation looks at sizes only, verify_set at everything.  *)
Attested(s) == s \in receipt.sets
Acceptable(s) == IF s \in held THEN Attested(s) \/ s \notin rotten ELSE s \in source

(* A set that is missing is transferred, verified and moved into place.    *)
ReceivesSet(s) ==
    /\ reception.pc = "sets" /\ s \in reception.todo /\ Acceptable(s)
    /\ reception' = [reception EXCEPT !.todo = @ \ {s}, !.verified = @ \cup {s}]
    /\ held' = held \cup {s}
    /\ UNCHANGED <<primary, rotten, aside, files, flock, verifier, preparation, deep, standby, due, host, spent>>

Prunes ==
    /\ reception.pc = "sets" /\ reception.todo = {} /\ reception.verified # {}
    /\ LET beyond == BeyondRetention({s.group : s \in reception.verified})
       IN held' = held \ beyond /\ rotten' = rotten \ beyond
    /\ reception' = [reception EXCEPT !.pc = "receipt"]
    /\ UNCHANGED <<primary, aside, files, flock, verifier, preparation, deep, standby, due, host, spent>>

PublishesReceipt ==
    /\ reception.pc = "receipt"
    /\ TornReads \/ \A v \in Verifiers : verifier[v].pc # "hash"
    /\ receipt' = [no |-> receipt.no + 1, sets |-> reception.verified]
    /\ progress' = "succeeded" /\ left' = left \ {"list"} /\ aside' = aside \ held
    /\ reception' = Stopped /\ flock' = "free" /\ due' = due \cup {"deep"}
    /\ UNCHANGED <<primary, held, rotten, verifier, preparation, deep, standby, host, spent>>

(* The trap removes the stage and the list of verified sets.               *)
ReceptionFails ==
    /\ reception.pc = "sets"
    /\ \/ Failure
       \/ /\ \/ \E s \in reception.todo : ~Acceptable(s)
             \/ reception.todo = {} /\ reception.verified = {}
          /\ UNCHANGED spent
    /\ progress' = "failed" /\ left' = left \ {"list"}
    /\ reception' = Stopped /\ flock' = "free"
    /\ UNCHANGED <<primary, copies, receipt, verifier, preparation, deep, standby, due, host>>

-----------------------------------------------------------------------------
(* Deep verification, runDeepVerify.  The service runs under the flock and *)
(* does not wait for it.                                                   *)

Verifying(v, pc) == verifier[v].pc = pc

VerificationStarts(v) ==
    /\ Verifying(v, "stopped") /\ role = "standby" /\ receipt # None
    /\ spent.verifications < MaxVerifications
    /\ spent' = [spent EXCEPT !.verifications = @ + 1]
    /\ IF v = "service"
       THEN "deep" \in due /\ due' = due \ {"deep"} /\ flock = "free" /\ flock' = "service"
       ELSE UNCHANGED <<due, flock>>
    /\ verifier' = [verifier EXCEPT ![v] =
          [pc |-> "hash", receipt |-> receipt.no, todo |-> receipt.sets, read |-> {}]]
    /\ UNCHANGED <<primary, copies, files, reception, preparation, deep, standby, host>>

(* The receipt is read again to hash it.                                   *)
Hashes(v) ==
    /\ Verifying(v, "hash")
    /\ verifier' = [verifier EXCEPT ![v].pc = "sets", ![v].receipt = receipt.no]
    /\ UNCHANGED <<primary, copies, files, flock, reception, preparation, deep, standby, due, host, spent>>

VerifiesSet(v, s) ==
    /\ Verifying(v, "sets") /\ s \in verifier[v].todo /\ s \in held \ rotten
    /\ verifier' = [verifier EXCEPT ![v].todo = @ \ {s}, ![v].read = @ \cup {s}]
    /\ UNCHANGED <<primary, copies, files, flock, reception, preparation, deep, standby, due, host, spent>>

Releases(v) == IF v = "service" THEN flock' = "free" ELSE UNCHANGED flock

(* receiverReceiptSha256 in the result.                                    *)
Bound(v) == verifier[v].receipt

InTime ==
    IF Slow \/ preparation.pc # "lock" THEN TRUE ELSE preparation.receipt = receipt.no

VerificationEnds(v) ==
    /\ Verifying(v, "sets") /\ verifier[v].todo = {}
    /\ InTime
    /\ deep' = [no |-> deep.no + 1, receipt |-> Bound(v), read |-> verifier[v].read]
    /\ verifier' = [verifier EXCEPT ![v] = Stopped]
    /\ due' = IF v = "service" THEN due \cup {"prepare"} ELSE due
    /\ Releases(v)
    /\ UNCHANGED <<primary, copies, files, reception, preparation, standby, host, spent>>

(* A set is missing or damaged, the job is cancelled or takes too long.    *)
VerificationFails(v) ==
    /\ Verifying(v, "sets")
    /\ Failure \/ (~(verifier[v].todo \subseteq held \ rotten) /\ UNCHANGED spent)
    /\ verifier' = [verifier EXCEPT ![v] = Stopped]
    /\ Releases(v)
    /\ UNCHANGED <<primary, copies, files, reception, preparation, deep, standby, due, host>>

(* flock -n: the service gives up.                                         *)
ServiceRefused ==
    /\ "deep" \in due /\ flock # "free" /\ due' = due \ {"deep"}
    /\ UNCHANGED <<primary, copies, files, flock, reception, verifier, preparation, deep, standby, host, spent>>

-----------------------------------------------------------------------------
(* prepare-standby.sh, started by the service or by hand                   *)

Preparing(pc) == preparation.pc = pc

Prepared == marker.receipt # 0 /\ marker.receipt = receipt.no /\ marker.deep = deep.no

(* The sets are chosen and verified before the flock is taken.             *)
PreparationStarts ==
    /\ Preparing("stopped") /\ role = "standby"
    /\ Repeats \/ ~Prepared
    /\ due' = due \ {"prepare"}
    /\ Latest(AppData, held) # {} /\ Chosen \cap rotten = {}
    /\ preparation' = [pc |-> "lock", sets |-> Chosen, before |-> disk,
                       receipt |-> receipt.no, deep |-> deep.no]
    /\ UNCHANGED <<primary, copies, files, flock, reception, verifier, deep, standby, host, spent>>

(* Mutant: any result of a deep verification will do.                      *)
MayPrepareUnbound ==
    flock = "free" /\ left = {} /\ receipt # None /\ deep.receipt # 0 /\ ~writable

MayPrepare ==
    /\ flock = "free" /\ left = {}
    /\ receipt # None /\ deep.receipt = receipt.no
    /\ ~writable

PreparationLocks ==
    /\ Preparing("lock") /\ MayPrepare
    /\ flock' = "preparation"
    /\ preparation' = [preparation EXCEPT !.pc = "extract", !.receipt = receipt.no, !.deep = deep.no]
    /\ UNCHANGED <<primary, copies, files, reception, verifier, deep, standby, due, host, spent>>

PreparationRefused ==
    /\ Preparing("lock") /\ ~MayPrepare
    /\ preparation' = Stopped
    /\ UNCHANGED <<primary, copies, files, flock, reception, verifier, deep, standby, due, host, spent>>

ExtractsSets ==
    /\ Preparing("extract") /\ preparation.sets \subseteq held
    /\ preparation' = [preparation EXCEPT !.pc = "swap"]
    /\ UNCHANGED <<primary, copies, files, flock, reception, verifier, deep, standby, due, host, spent>>

(* The directories change places; then the databases are imported.         *)
SwapsIn ==
    /\ Preparing("swap")
    /\ disk' = [sets |-> preparation.sets, spoiled |-> preparation.sets \cap rotten # {},
                imported |-> FALSE]
    /\ preparation' = [preparation EXCEPT !.pc = "import"]
    /\ UNCHANGED <<primary, copies, files, flock, reception, verifier, deep, marker, due, host, spent>>

MarksPrepared ==
    /\ Preparing("import")
    /\ disk' = [disk EXCEPT !.imported = TRUE]
    /\ marker' = [sets |-> preparation.sets, receipt |-> preparation.receipt, deep |-> preparation.deep]
    /\ preparation' = Stopped /\ flock' = "free"
    /\ UNCHANGED <<primary, copies, files, reception, verifier, deep, due, host, spent>>

(* The previous directories are put back, unless one of the renames failed.*)
PreparationFails ==
    /\ preparation.pc \in {"extract", "swap", "import"}
    /\ IF Preparing("extract") /\ ~(preparation.sets \subseteq held)
       THEN UNCHANGED spent ELSE Failure
    /\ disk' \in IF Preparing("swap") THEN {disk, Torn} ELSE {preparation.before}
    /\ preparation' = Stopped /\ flock' = "free"
    /\ UNCHANGED <<primary, copies, files, reception, verifier, deep, marker, due, host>>

-----------------------------------------------------------------------------
(* Promotion, as far as it meets the others; module Failover has the rest. *)

PromotionStarts ==
    /\ role = "standby" /\ flock = "free" /\ left = {}
    /\ flock' = "promotion" /\ writable' = TRUE
    /\ UNCHANGED <<primary, copies, files, reception, verifier, preparation, deep, standby, due, role, spent>>

PromotionEnds ==
    /\ flock = "promotion" /\ flock' = "free"
    /\ \/ role' = "primary" /\ UNCHANGED writable
       \/ writable' = FALSE /\ UNCHANGED role
    /\ UNCHANGED <<primary, copies, files, reception, verifier, preparation, deep, standby, due, spent>>

-----------------------------------------------------------------------------
(* The host and its operator                                               *)

(* Every process ends where it is; containers come back by themselves.     *)
Reboots ==
    /\ spent.reboots < MaxReboots /\ spent' = [spent EXCEPT !.reboots = @ + 1]
    /\ left' \in IF reception = Stopped THEN {left}
                 ELSE {left \cup {"list"}, left \cup {"list", "stage"}}
    /\ disk' = IF Preparing("swap") THEN Torn ELSE disk
    /\ flock' = "free" /\ due' = {}
    /\ reception' = Stopped /\ preparation' = Stopped
    /\ verifier' = [v \in Verifiers |-> Stopped]
    /\ UNCHANGED <<primary, copies, receipt, progress, deep, marker, host>>

(* Damage that leaves the sizes.  Between the verification and the         *)
(* extraction gzip finds it, so that it is left out there.                 *)
Rots(s) ==
    /\ Preparing("stopped") /\ s \in held \ rotten /\ Failure
    /\ rotten' = rotten \cup {s}
    /\ UNCHANGED <<primary, held, aside, files, flock, reception, verifier, preparation, deep, standby, due, host>>

(* The operator quarantines a set that is proven damaged, clears .incoming *)
(* and stops containers of a standby.                                      *)
Quarantines(s) ==
    /\ s \in rotten
    /\ held' = held \ {s} /\ rotten' = rotten \ {s} /\ aside' = aside \cup {s}
    /\ UNCHANGED <<primary, files, flock, reception, verifier, preparation, deep, standby, due, host, spent>>

ClearsIncoming ==
    /\ flock = "free" /\ left # {} /\ left' = {}
    /\ UNCHANGED <<primary, copies, receipt, progress, flock, reception, verifier, preparation, deep, standby, due, host, spent>>

StopsContainers ==
    /\ role = "standby" /\ flock # "promotion" /\ writable /\ writable' = FALSE
    /\ UNCHANGED <<primary, copies, files, flock, reception, verifier, preparation, deep, standby, due, role, spent>>

ReceptionInit ==
    /\ source = {} /\ newest = 0
    /\ held = {} /\ rotten = {} /\ aside = {}
    /\ receipt = None /\ progress = "none" /\ left = {}
    /\ flock = "free" /\ due = {}
    /\ reception = Stopped /\ preparation = Stopped
    /\ verifier = [v \in Verifiers |-> Stopped]
    /\ deep = [no |-> 0, receipt |-> 0, read |-> {}]
    /\ disk = [sets |-> {}, spoiled |-> FALSE, imported |-> FALSE]
    /\ marker = [sets |-> {}, receipt |-> 0, deep |-> 0]
    /\ role = "standby" /\ writable = FALSE
    /\ spent = [failures |-> 0, reboots |-> 0, verifications |-> 0]

Receives ==
    \/ ReceptionStarts \/ Prunes \/ PublishesReceipt \/ ReceptionFails
    \/ \E s \in source \cup held : ReceivesSet(s)

DeepVerifies ==
    \/ ServiceRefused
    \/ \E v \in Verifiers :
          \/ VerificationStarts(v) \/ Hashes(v) \/ VerificationEnds(v) \/ VerificationFails(v)
          \/ \E s \in held : VerifiesSet(v, s)

Prepares ==
    \/ PreparationStarts \/ PreparationLocks \/ PreparationRefused
    \/ ExtractsSets \/ SwapsIn \/ MarksPrepared \/ PreparationFails

Promotes == PromotionStarts \/ PromotionEnds

Environment ==
    \/ Reboots \/ ClearsIncoming \/ StopsContainers
    \/ \E group \in Groups : Completes(group)
    \/ \E s \in source : SourceDrops(s)
    \/ \E s \in held : Rots(s) \/ Quarantines(s)

ReceptionNext == Receives \/ DeepVerifies \/ Prepares \/ Promotes \/ Environment

ReceptionSpec == ReceptionInit /\ [][ReceptionNext]_receptionVars

-----------------------------------------------------------------------------
(* runPreflight, as far as it reads what is modelled; a verification that  *)
(* is not of the current receipt is only a warning there.  The websites it *)
(* looks for are those of sites.map, which is application data.            *)

Configured == IF InGroup(AppData, disk.sets) = {} THEN {} ELSE Sites

Ready ==
    /\ role = "standby" /\ receipt # None
    /\ progress # "running" /\ left = {}
    /\ \A group \in Configured \cup {AppData} :
          Latest(group, held) # {} /\ Latest(group, held) \subseteq receipt.sets
    /\ Prepared
    /\ Latest(AppData, held) = InGroup(AppData, marker.sets)
    /\ Cardinality(marker.sets) = Cardinality(Configured) + 1

-----------------------------------------------------------------------------
(* Properties                                                              *)

(* After a reception that succeeded the sets that the receipt names are on *)
(* the standby, but for those the operator moved out: the receiver's       *)
(* retention does not remove what it attests, whatever failed before.      *)
ReceiptHeld ==
    progress = "succeeded" => receipt.sets \ held \subseteq aside

(* When the readiness check is passed, the websites, the application data  *)
(* and the databases of the standby were restored, whole and undamaged,    *)
(* from exactly the sets of the current receipt, and a deep verification   *)
(* read each of them, however receptions, verifications and preparations   *)
(* interleaved, unless the operator moved one of these sets out.           *)
ReadyIsRestored ==
    Ready /\ receipt.sets \cap aside = {} =>
        /\ disk = [sets |-> receipt.sets, spoiled |-> FALSE, imported |-> TRUE]
        /\ deep.read = receipt.sets

(* A preparation, whose checks of the role and of the sets precede the     *)
(* lock, never changes the data of a machine that was or is being promoted.*)
PrimaryUntouched ==
    [][disk' # disk => role = "standby" /\ ~writable]_receptionVars
================================================================================
