--------------------------- MODULE CloudflareProofs ---------------------------
(***************************************************************************)
(* Presets, rollbacks and mitigations for any rules, settings, addresses   *)
(* and durations, and any number of commands, edits, failing calls and     *)
(* restarts.                                                               *)
(*                                                                         *)
(* A rollback is exact because each of its entries says what its batch     *)
(* wrote over (Entered), as long as nobody wrote later.  A rule that       *)
(* blocks visitors is known because the job that writes it, or removes it, *)
(* is the only one between that and its record (MitigationsInv).           *)
(***************************************************************************)
EXTENDS CloudflareAutomation, SequenceTheorems, TLAPS

Item == [id : Nat, value : Values]
Maybe(S) == S \cup {None}
Reviews == UNION {[sel -> Maybe(Values)] : sel \in SUBSET Items}
Entries ==
    [item : Settings, mode : {"set"}, previous : Values] \cup
    [item : Rules, mode : {"delete"}, id : Nat] \cup
    [item : Rules, mode : {"restore"}, id : Nat, previous : Maybe(Values)]
Batch == [status : {"running", "complete", "partial", "failed", "interrupted"},
          rollback : Seq(Entries), undone : BOOLEAN]
Rule == [id : Nat, until : Nat]
Incident == [no : Nat, id : Nat, until : Nat, removed : BOOLEAN]

Jobs ==
    [kind : {"apply"}, seen : Reviews] \cup [kind : {"rollback"}, batch : Nat] \cup
    [kind : {"mitigate"}, address : Addresses, until : Nat] \cup
    [kind : {"remove"}, address : Addresses, no : Nat, manual : BOOLEAN]
Applying ==
    [pc : {"applying"}, batch : Nat, left : SUBSET Items, reviewed : Reviews, current : Reviews,
     rollback : Seq(Entries), failed : BOOLEAN]
Undoing == [pc : {"undoing"}, batch : Nat, left : Seq(Entries)]
Recording == [pc : {"record"}, address : Addresses, until : Nat, id : Nat]
Removing == [pc : {"delete", "removed"}, address : Addresses, no : Nat, manual : BOOLEAN]

Typed ==
    /\ items \in [Items -> Maybe(Item)] /\ ids \in Nat /\ now \in Nat /\ edits \in Nat
    /\ \A i \in Settings : items[i] # None
    /\ wrote \in [Items -> [by : Nat, over : Maybe(Item)]]
    /\ shield \in [Addresses -> Maybe(Rule)] /\ records \in [Addresses -> Maybe(Incident)]
    /\ batches \in Seq(Batch)
    /\ run \in {Idle} \cup Applying \cup Undoing \cup Recording \cup Removing

(* Jobs name batches that exist, and read what they write.                 *)
Known(job, table) == job.kind = "rollback" => job.batch \in DOMAIN table
Queued(queue, table) == queue \in Seq(Jobs) /\ \A k \in DOMAIN queue : Known(queue[k], table)
Sound ==
    /\ Queued(waiting, batches)
    /\ run.pc \in {"applying", "undoing"} => run.batch \in DOMAIN batches
    /\ run.pc = "applying" => /\ run.left \subseteq DOMAIN run.current
                              /\ \A i \in run.left \cap Settings : run.current[i] # None
    /\ run.pc \in {"delete", "removed"} => records[run.address] # None

TypedInv == Typed /\ Sound

(* A rule that was just written is not yet recorded; one that was just     *)
(* removed is not there, or was written and never heard of.                *)
MitigationsInv ==
    /\ TypedInv /\ MitigationRecorded
    /\ run.pc = "record" => \/ shield[run.address] = None
                           \/ shield[run.address] = [id |-> run.id, until |-> run.until]
    /\ run.pc = "removed" => shield[run.address] = None \/ run.address \in lost

(* An item that a batch wrote last has what it wrote.                      *)
Written ==
    \A i \in Items : wrote[i].by # 0 /\ wrote[i].over # None =>
        items[i] = [id |-> wrote[i].over.id, value |-> Wanted]

(* Entries of a rollback say what batch b wrote over, unless somebody      *)
(* wrote later, as the table of last writes has it.                        *)
Entered(table, e, b) ==
    table[e.item].by = b =>
        IF e.mode = "delete" THEN table[e.item].over = None
        ELSE table[e.item].over # None /\ e.previous \in {None, table[e.item].over.value}
AllEntered(table, es, b) == \A k \in DOMAIN es : Entered(table, es[k], b)

(* What the job has still to write is as it was reviewed.                  *)
StillReviewed ==
    run.pc = "applying" =>
        /\ run.reviewed = run.current
        /\ \A i \in run.left : run.current[i] = Value(i)
        /\ batches[run.batch].rollback = <<>>
        /\ \A k \in DOMAIN run.rollback : run.rollback[k].item \notin run.left
        /\ AllEntered(wrote, run.rollback, run.batch)

PresetsInv ==
    /\ TypedInv /\ Written /\ StillReviewed
    /\ \A b \in DOMAIN batches : AllEntered(wrote, batches[b].rollback, b)
    /\ run.pc = "undoing" => AllEntered(wrote, run.left, run.batch)

-----------------------------------------------------------------------------
(* What the jobs and the runs of each kind are.                            *)
LEMMA RunKinds ==
    ASSUME Typed
    PROVE  /\ run.pc \in {"idle", "applying", "undoing", "record", "delete", "removed"}
           /\ run.pc = "idle" => run = Idle
           /\ run.pc = "applying" => run \in Applying
           /\ run.pc = "undoing" => run \in Undoing
           /\ run.pc = "record" => run \in Recording
           /\ run.pc \in {"delete", "removed"} => run \in Removing
<1>1. CASE run = Idle
  BY <1>1 DEF Idle
<1>2. CASE run \in Applying
  BY <1>2 DEF Applying
<1>3. CASE run \in Undoing
  BY <1>3 DEF Undoing
<1>4. CASE run \in Recording
  BY <1>4 DEF Recording
<1>5. CASE run \in Removing
  BY <1>5 DEF Removing
<1> QED BY <1>1, <1>2, <1>3, <1>4, <1>5 DEF Typed

LEMMA JobKinds ==
    ASSUME NEW job \in Jobs
    PROVE  /\ job.kind = "apply" => job.seen \in Reviews
           /\ job.kind = "rollback" => job.batch \in Nat
           /\ job.kind = "mitigate" => job.address \in Addresses /\ job.until \in Nat
           /\ job.kind = "remove" => job.address \in Addresses /\ job.no \in Nat /\ job.manual \in BOOLEAN
  BY DEF Jobs

LEMMA EntryKinds ==
    ASSUME NEW e \in Entries
    PROVE  /\ e.mode \in {"set", "delete", "restore"} /\ e.item \in Items
           /\ e.mode = "set" => e.item \in Settings
           /\ e.mode # "set" => e.item \in Rules /\ e.id \in Nat
           /\ e.mode # "delete" => e.previous \in Maybe(Values)
           /\ e.mode = "set" => e.previous \in Values
  BY DEF Entries, Items, Maybe

(* The queue is in order after a job is added and after one is taken.      *)
LEMMA JobAdded ==
    ASSUME TypedInv, NEW job \in Jobs, Known(job, batches), waiting' = Append(waiting, job), UNCHANGED batches
    PROVE  Queued(waiting', batches')
<1>1. waiting \in Seq(Jobs) /\ \A k \in DOMAIN waiting : Known(waiting[k], batches)
  BY DEF TypedInv, Sound, Queued
<1>2. /\ waiting' \in Seq(Jobs)
      /\ DOMAIN waiting' = 1 .. Len(waiting) + 1 /\ DOMAIN waiting = 1 .. Len(waiting)
      /\ waiting'[Len(waiting) + 1] = job /\ \A k \in DOMAIN waiting : waiting'[k] = waiting[k]
  BY <1>1
<1>3. \A k \in DOMAIN waiting' : Known(waiting'[k], batches)
  <2> TAKE k \in DOMAIN waiting'
  <2>1. CASE k \in DOMAIN waiting
    BY <1>1, <1>2, <2>1
  <2>2. CASE k = Len(waiting) + 1
    BY <1>2, <2>2
  <2> QED BY <1>1, <1>2, <2>1, <2>2
<1> QED BY <1>2, <1>3 DEF Queued

LEMMA JobTaken ==
    ASSUME TypedInv, NEW kind, Takes(kind), DOMAIN batches \subseteq DOMAIN batches'
    PROVE  /\ run = Idle /\ Head(waiting) \in Jobs /\ Head(waiting).kind = kind
           /\ Known(Head(waiting), batches) /\ Queued(waiting', batches')
<1>1. waiting \in Seq(Jobs) /\ \A k \in DOMAIN waiting : Known(waiting[k], batches)
  BY DEF TypedInv, Sound, Queued
<1>2. waiting # <<>> /\ Head(waiting).kind = kind /\ waiting' = Tail(waiting)
  BY DEF Takes
<1>3. /\ Head(waiting) \in Jobs /\ Head(waiting) = waiting[1] /\ 1 \in DOMAIN waiting
      /\ waiting' \in Seq(Jobs)
  BY <1>1, <1>2
<1>4. \A k \in DOMAIN waiting' : k + 1 \in DOMAIN waiting /\ waiting'[k] = waiting[k + 1]
  BY <1>1, <1>2
<1>5. \A k \in DOMAIN waiting' : Known(waiting'[k], batches)
  BY <1>1, <1>4
<1>6. \A k \in DOMAIN waiting' : Known(waiting'[k], batches')
  BY <1>5 DEF Known
<1>7. run = Idle
  BY RunKinds DEF Takes, Running, TypedInv
<1> QED BY <1>1, <1>2, <1>3, <1>6, <1>7 DEF Queued

LEMMA QueueStays ==
    ASSUME TypedInv, UNCHANGED waiting, DOMAIN batches \subseteq DOMAIN batches'
    PROVE  Queued(waiting', batches')
  BY DEF TypedInv, Sound, Queued, Known

-----------------------------------------------------------------------------
(* What is written to an item.                                             *)
LEMMA WritesTyped ==
    ASSUME Typed, NEW i \in Items, NEW new \in Maybe(Item), NEW who \in Nat, Writes(i, new, who)
    PROVE  /\ items' \in [Items -> Maybe(Item)] /\ wrote' \in [Items -> [by : Nat, over : Maybe(Item)]]
           /\ items'[i] = new /\ wrote'[i] = [by |-> who, over |-> items[i]]
           /\ \A j \in Items : j # i => items'[j] = items[j] /\ wrote'[j] = wrote[j]
<1>1. /\ items \in [Items -> Maybe(Item)] /\ wrote \in [Items -> [by : Nat, over : Maybe(Item)]]
      /\ items' = [items EXCEPT ![i] = new] /\ wrote' = [wrote EXCEPT ![i] = [by |-> who, over |-> items[i]]]
  BY DEF Typed, Writes
<1>2. [by |-> who, over |-> items[i]] \in [by : Nat, over : Maybe(Item)]
  BY <1>1
<1> QED BY <1>1, <1>2

LEMMA Rewritten ==
    ASSUME NEW item \in Item, NEW value \in Values
    PROVE  /\ [item EXCEPT !.value = value] = [id |-> item.id, value |-> value]
           /\ [item EXCEPT !.value = value] \in Item
  BY DEF Item

LEMMA AppliedTyped ==
    ASSUME Typed, NEW i \in Items
    PROVE  /\ Applied(i) \in Item /\ Applied(i).value = Wanted
           /\ items[i] # None => items[i] \in Item /\ Applied(i) = [id |-> items[i].id, value |-> Wanted]
<1>1. Wanted \in Values /\ ids + 1 \in Nat /\ items[i] \in Maybe(Item)
  BY DEF Wanted, Values, Typed
<1>2. CASE items[i] = None
  BY <1>1, <1>2 DEF Applied, Item
<1>3. CASE items[i] # None
  <2>1. items[i] \in Item
    BY <1>1, <1>3 DEF Maybe
  <2>2. Applied(i) = [items[i] EXCEPT !.value = Wanted]
    BY <1>3 DEF Applied
  <2> QED BY <1>1, <2>1, <2>2, Rewritten
<1> QED BY <1>2, <1>3

LEMMA SeenTyped ==
    ASSUME Typed, NEW sel \in SUBSET Items
    PROVE  /\ Seen(sel) \in Reviews /\ DOMAIN Seen(sel) = sel
           /\ \A i \in sel : Seen(sel)[i] = Value(i)
<1>1. \A i \in sel : Value(i) \in Maybe(Values)
  BY DEF Typed, Value, Maybe, Item
<1>2. Seen(sel) \in [sel -> Maybe(Values)]
  BY <1>1 DEF Seen
<1> QED BY <1>2 DEF Seen, Reviews

LEMMA ReviewDomain ==
    ASSUME NEW review \in Reviews
    PROVE  DOMAIN review \in SUBSET Items /\ \A i \in DOMAIN review : review[i] \in Maybe(Values)
  BY DEF Reviews

LEMMA EntryTyped ==
    ASSUME TypedInv, NEW i, run.pc = "applying", i \in run.left
    PROVE  /\ i \in Items /\ Entry(i) \in Entries /\ Entry(i).item = i
           /\ Entry(i).mode = IF i \in Settings THEN "set"
                              ELSE IF items[i] = None THEN "delete" ELSE "restore"
           /\ i \in Settings => Entry(i).previous = run.current[i]
           /\ i \notin Settings /\ items[i] # None => Entry(i).previous \in {None, items[i].value}
<1>1. run.left \subseteq Items /\ run.current \in Reviews /\ i \in DOMAIN run.current
  BY RunKinds DEF TypedInv, Sound, Applying
<1>2. run.current[i] \in Maybe(Values) /\ i \in Items /\ ids + 1 \in Nat /\ items[i] \in Maybe(Item)
  BY <1>1, ReviewDomain DEF TypedInv, Typed
<1>3. CASE i \in Settings
  <2>1. run.current[i] \in Values
    BY <1>2, <1>3 DEF TypedInv, Sound, Maybe
  <2> QED BY <1>2, <1>3, <2>1 DEF Entry, Entries
<1>4. CASE i \notin Settings /\ items[i] = None
  BY <1>2, <1>4 DEF Entry, Entries, Items
<1>5. CASE i \notin Settings /\ items[i] # None
  <2>1. items[i].id \in Nat /\ items[i].value \in Values
    BY <1>2, <1>5 DEF Maybe, Item
  <2>2. Entry(i) = [item |-> i, mode |-> "restore", id |-> items[i].id,
                    previous |-> IF items[i].value = Wanted THEN None ELSE items[i].value]
    BY <1>5 DEF Entry
  <2>3. (IF items[i].value = Wanted THEN None ELSE items[i].value)
            \in Maybe(Values) \cap {None, items[i].value}
    BY <2>1 DEF Maybe
  <2> QED BY <1>2, <1>5, <2>1, <2>2, <2>3 DEF Entries, Items
<1> QED BY <1>2, <1>3, <1>4, <1>5

-----------------------------------------------------------------------------
(* The run of a preset, and what it does to an item.                       *)
LEMMA DoneTyped ==
    ASSUME run \in Applying, NEW i
    PROVE  /\ Done(i) \in Applying /\ Done(i).left = run.left \ {i}
           /\ Done(i).pc = "applying" /\ Done(i).batch = run.batch /\ Done(i).rollback = run.rollback
           /\ Done(i).reviewed = run.reviewed /\ Done(i).current = run.current
  BY DEF Done, Applying

LEMMA NotedTyped ==
    ASSUME NEW r \in Applying, NEW e \in Entries
    PROVE  LET noted == [r EXCEPT !.rollback = Append(@, e)] IN
           /\ noted \in Applying /\ noted.left = r.left /\ noted.rollback = Append(r.rollback, e)
           /\ noted.pc = "applying" /\ noted.batch = r.batch
           /\ noted.reviewed = r.reviewed /\ noted.current = r.current
<1>1. Append(r.rollback, e) \in Seq(Entries)
  BY DEF Applying
<1> QED BY <1>1 DEF Applying

LEMMA FailedTyped ==
    ASSUME NEW r \in Applying
    PROVE  LET failing == [r EXCEPT !.failed = TRUE] IN
           /\ failing \in Applying /\ failing.left = r.left /\ failing.rollback = r.rollback
           /\ failing.pc = "applying" /\ failing.batch = r.batch
           /\ failing.reviewed = r.reviewed /\ failing.current = r.current
  BY DEF Applying

(* What one step of a preset does: nothing, or it writes and notes it, or  *)
(* it fails, having written or not.                                        *)
LEMMA Steps ==
    ASSUME TypedInv, NEW i, ApplyItem(i)
    PROVE  /\ run.pc = "applying" /\ run \in Applying /\ i \in run.left /\ i \in Items /\ ids' \in Nat
           /\ run' \in Applying /\ run'.pc = "applying"
           /\ run'.batch = run.batch /\ run'.left = run.left \ {i}
           /\ run'.reviewed = run.reviewed /\ run'.current = run.current
           /\ \/ UNCHANGED <<items, wrote>> /\ run'.rollback = run.rollback
              \/ /\ Writes(i, Applied(i), run.batch)
                 /\ run'.rollback \in {run.rollback, Append(run.rollback, Entry(i))}
<1>0. run.pc = "applying" /\ run \in Applying /\ i \in run.left /\ i \in Items /\ Entry(i) \in Entries
  BY EntryTyped, RunKinds DEF ApplyItem, TypedInv
<1>1. ids' \in Nat
  <2>1. ids' \in {ids, ids + 1} /\ ids \in Nat
    BY DEF ApplyItem, TypedInv, Typed
  <2> QED BY <2>1
<1>2. CASE run' = Done(i) /\ UNCHANGED <<items, wrote>>
  BY <1>0, <1>1, <1>2, DoneTyped
<1>3. CASE run' = [Done(i) EXCEPT !.rollback = Append(@, Entry(i))] /\ Writes(i, Applied(i), run.batch)
  BY <1>0, <1>1, <1>3, DoneTyped, NotedTyped
<1>4. CASE run' = [Done(i) EXCEPT !.failed = TRUE]
           /\ (UNCHANGED <<items, wrote>> \/ Writes(i, Applied(i), run.batch))
  <2> DEFINE r == Done(i)
  <2>1. r \in Applying /\ r.left = run.left \ {i} /\ r.batch = run.batch /\ r.rollback = run.rollback
        /\ r.reviewed = run.reviewed /\ r.current = run.current
    BY <1>0, DoneTyped
  <2>2. run' = [r EXCEPT !.failed = TRUE]
    BY <1>4
  <2> HIDE DEF r
  <2>3. /\ run' \in Applying /\ run'.left = r.left /\ run'.rollback = r.rollback /\ run'.pc = "applying"
        /\ run'.batch = r.batch /\ run'.reviewed = r.reviewed /\ run'.current = r.current
    BY <2>1, <2>2, FailedTyped
  <2> QED BY <1>0, <1>1, <1>4, <2>1, <2>3
<1> QED BY <1>2, <1>3, <1>4 DEF ApplyItem

(* An entry that can be undone is undone to what it says.                  *)
LEMMA Undone ==
    ASSUME TypedInv, NEW e \in Entries, Undoable(e), Undoes(e)
    PROVE  /\ Writes(e.item, items'[e.item], 0) /\ items'[e.item] \in Maybe(Item)
           /\ e.mode = "delete" => items'[e.item] = None
           /\ e.mode # "delete" => /\ items[e.item] \in Item /\ e.previous \in Values
                                   /\ items'[e.item] = [id |-> items[e.item].id, value |-> e.previous]
<1>1. e.item \in Items /\ items[e.item] \in Maybe(Item) /\ e.mode \in {"set", "delete", "restore"}
      /\ (e.mode = "set" => e.item \in Settings /\ e.previous \in Values)
      /\ (e.mode # "delete" => e.previous \in Maybe(Values))
  BY EntryKinds DEF TypedInv, Typed
<1>2. CASE e.mode = "delete"
  <2>1. Writes(e.item, None, 0)
    BY <1>2 DEF Undoes
  <2>2. items'[e.item] = None
    BY <1>1, <2>1, WritesTyped DEF TypedInv, Maybe
  <2> QED BY <1>2, <2>1, <2>2 DEF Maybe
<1>3. CASE e.mode # "delete"
  <2>1. items[e.item] # None /\ e.previous # None
    BY <1>1, <1>3, CloudflareAutomationAssumption DEF Undoable, TypedInv, Typed
  <2>2. items[e.item] \in Item /\ e.previous \in Values
    BY <1>1, <1>3, <2>1 DEF Maybe
  <2> DEFINE new == [id |-> items[e.item].id, value |-> e.previous]
  <2>3. new = [items[e.item] EXCEPT !.value = e.previous] /\ new \in Item
    BY <2>2, Rewritten
  <2>4. Writes(e.item, new, 0)
    BY <1>3, <2>3 DEF Undoes
  <2> HIDE DEF new
  <2>5. items'[e.item] = new
    BY <1>1, <2>3, <2>4, WritesTyped DEF TypedInv, Maybe
  <2> QED BY <1>3, <2>2, <2>3, <2>4, <2>5 DEF Maybe, new
<1> QED BY <1>2, <1>3

(* What one step of a rollback does.                                       *)
LEMMA UndoSteps ==
    ASSUME TypedInv, UndoItem
    PROVE  /\ run.pc = "undoing" /\ run \in Undoing /\ Len(run.left) \in Nat \ {0}
           /\ run' \in Undoing /\ run'.pc = "undoing" /\ run'.batch = run.batch
           /\ DOMAIN run'.left \subseteq DOMAIN run.left
           /\ \A k \in DOMAIN run'.left : run'.left[k] = run.left[k]
           /\ Len(run.left) \in DOMAIN run.left
           /\ LET e == run.left[Len(run.left)] IN
              e \in Entries /\ (UNCHANGED <<items, wrote>> \/ (Undoable(e) /\ Undoes(e)))
<1>1. run.pc = "undoing" /\ run \in Undoing /\ run.left \in Seq(Entries) /\ run.left # <<>>
  BY RunKinds DEF UndoItem, TypedInv, Undoing
<1>2. Len(run.left) \in Nat \ {0} /\ Len(run.left) \in DOMAIN run.left /\ run.left[Len(run.left)] \in Entries
  BY <1>1
<1> DEFINE rest == SubSeq(run.left, 1, Len(run.left) - 1)
<1>3. rest \in Seq(Entries) /\ DOMAIN rest = 1 .. Len(run.left) - 1
      /\ \A k \in DOMAIN rest : rest[k] = run.left[k]
  BY <1>1, <1>2
<1>4. DOMAIN rest \subseteq DOMAIN run.left
  BY <1>1, <1>2, <1>3
<1>5. run' = [run EXCEPT !.left = rest]
  BY DEF UndoItem
<1> HIDE DEF rest
<1>6. run' \in Undoing /\ run'.pc = "undoing" /\ run'.batch = run.batch /\ run'.left = rest
  BY <1>1, <1>3, <1>5 DEF Undoing
<1>7. LET e == run.left[Len(run.left)] IN UNCHANGED <<items, wrote>> \/ (Undoable(e) /\ Undoes(e))
  BY DEF UndoItem
<1> QED BY <1>1, <1>2, <1>3, <1>4, <1>6, <1>7

-----------------------------------------------------------------------------
LEMMA InitTyped == Init => TypedInv
<1> SUFFICES ASSUME Init PROVE TypedInv
  OBVIOUS
<1>1. None \notin Item /\ Rules \cap Settings = {}
  BY CloudflareAutomationAssumption DEF Item
<1>2. [id |-> 0, value |-> "before"] \in Item
  BY DEF Item, Values
<1>3. items \in [Items -> Maybe(Item)] /\ \A i \in Settings : items[i] # None
  BY <1>1, <1>2 DEF Init, Items, Maybe
<1>4. wrote \in [Items -> [by : Nat, over : Maybe(Item)]]
  BY DEF Init, Maybe
<1>5. shield \in [Addresses -> Maybe(Rule)] /\ records \in [Addresses -> Maybe(Incident)]
  BY DEF Init, Maybe
<1>6. ids \in Nat /\ now \in Nat /\ edits \in Nat /\ batches \in Seq(Batch) /\ run = Idle
  BY DEF Init
<1>7. Queued(waiting, batches)
  BY DEF Init, Queued
<1> QED BY <1>3, <1>4, <1>5, <1>6, <1>7 DEF TypedInv, Typed, Sound, Idle

LEMMA BatchChanged ==
    ASSUME NEW b \in Batch, NEW status \in {"complete", "partial", "failed"}, NEW rollback \in Seq(Entries)
    PROVE  /\ [b EXCEPT !.status = status, !.rollback = rollback] \in Batch
           /\ [b EXCEPT !.undone = TRUE] \in Batch /\ [b EXCEPT !.undone = TRUE].rollback = b.rollback
           /\ [b EXCEPT !.status = "interrupted"] \in Batch
           /\ [b EXCEPT !.status = "interrupted"].rollback = b.rollback
  BY DEF Batch

(* The steps of presets and rollbacks.                                     *)
LEMMA PresetsTyped ==
    ASSUME TypedInv,
           \/ StartApply \/ (\E i \in Items : ApplyItem(i)) \/ FinishApply
           \/ StartRollback \/ UndoItem \/ FinishRollback
    PROVE  TypedInv'
<1>0. Typed /\ Sound
  BY DEF TypedInv
<1>1. CASE StartApply
  <2> DEFINE job == Head(waiting)
             new == [status |-> "running", rollback |-> <<>>, undone |-> FALSE]
             begun == [pc |-> "applying", batch |-> Len(batches) + 1, left |-> DOMAIN job.seen,
                       reviewed |-> job.seen, current |-> Seen(DOMAIN job.seen), rollback |-> <<>>,
                       failed |-> FALSE]
  <2>1. Takes("apply") /\ UNCHANGED <<items, ids, wrote, shield, records, now, edits>>
    BY <1>1 DEF StartApply, Provider
  <2>2. \/ batches' = Append(batches, new) /\ run' = begun
        \/ UNCHANGED <<batches, run>>
    BY <1>1 DEF StartApply
  <2>3. new \in Batch /\ batches \in Seq(Batch)
    BY <1>0 DEF Batch, Typed
  <2>4. batches' \in Seq(Batch) /\ DOMAIN batches \subseteq DOMAIN batches'
    BY <2>2, <2>3
  <2>5. run = Idle /\ job \in Jobs /\ job.kind = "apply" /\ Queued(waiting', batches')
    BY <2>1, <2>4, JobTaken
  <2>6. job.seen \in Reviews /\ DOMAIN job.seen \in SUBSET Items
    BY <2>5, JobKinds, ReviewDomain
  <2>7. /\ Seen(DOMAIN job.seen) \in Reviews /\ DOMAIN Seen(DOMAIN job.seen) = DOMAIN job.seen
        /\ \A i \in DOMAIN job.seen : Seen(DOMAIN job.seen)[i] = Value(i)
    BY <1>0, <2>6, SeenTyped
  <2>8. \A i \in DOMAIN job.seen \cap Settings : Value(i) # None
    <3> TAKE i \in DOMAIN job.seen \cap Settings
    <3>1. items[i] # None /\ items[i] \in Item
      BY <1>0, <2>6 DEF Typed, Maybe
    <3> QED BY <3>1, CloudflareAutomationAssumption DEF Value, Item
  <2>9. CASE batches' = Append(batches, new) /\ run' = begun
    <3>1. begun \in Applying
      BY <2>3, <2>6, <2>7 DEF Applying
    <3>2. begun.pc = "applying" /\ begun.batch = Len(batches) + 1 /\ begun.left = DOMAIN job.seen
          /\ begun.current = Seen(DOMAIN job.seen)
      OBVIOUS
    <3>3. Len(batches) + 1 \in DOMAIN batches'
      BY <2>3, <2>9
    <3>4. /\ run' \in Applying /\ run'.pc = "applying" /\ run'.batch \in DOMAIN batches'
          /\ run'.left \subseteq DOMAIN run'.current
          /\ \A i \in run'.left \cap Settings : run'.current[i] # None
      BY <2>7, <2>8, <2>9, <3>1, <3>2, <3>3
    <3> HIDE DEF begun, new, job
    <3> QED BY <1>0, <2>1, <2>4, <2>5, <3>4 DEF TypedInv, Typed, Sound
  <2>10. CASE UNCHANGED <<batches, run>>
    <3> HIDE DEF begun, new, job
    <3> QED BY <1>0, <2>1, <2>4, <2>5, <2>10 DEF TypedInv, Typed, Sound, Idle
  <2> QED BY <2>2, <2>9, <2>10
<1>2. ASSUME NEW i \in Items, ApplyItem(i)
      PROVE  TypedInv'
  <2>1. UNCHANGED <<shield, batches, records, waiting, now, edits>>
    BY <1>2 DEF ApplyItem, Stored
  <2>2. /\ run.pc = "applying" /\ run' \in Applying /\ run'.pc = "applying" /\ run'.batch = run.batch
        /\ run'.left = run.left \ {i} /\ run'.current = run.current /\ run.batch \in Nat /\ ids' \in Nat
        /\ (UNCHANGED <<items, wrote>> \/ Writes(i, Applied(i), run.batch))
    BY <1>2, Steps DEF TypedInv, Applying
  <2>3. /\ items' \in [Items -> Maybe(Item)] /\ wrote' \in [Items -> [by : Nat, over : Maybe(Item)]]
        /\ \A j \in Settings : items'[j] # None
    <3>1. CASE UNCHANGED <<items, wrote>>
      BY <1>0, <3>1 DEF Typed
    <3>2. CASE Writes(i, Applied(i), run.batch)
      <4>1. Applied(i) \in Item /\ Applied(i) # None
        BY <1>0, AppliedTyped, CloudflareAutomationAssumption DEF Item
      <4>2. /\ items' \in [Items -> Maybe(Item)] /\ wrote' \in [Items -> [by : Nat, over : Maybe(Item)]]
            /\ items'[i] = Applied(i) /\ \A j \in Items : j # i => items'[j] = items[j]
        BY <1>0, <2>2, <3>2, <4>1, WritesTyped DEF Maybe
      <4> QED BY <1>0, <4>1, <4>2 DEF Typed, Items
    <3> QED BY <2>2, <3>1, <3>2
  <2>4. Queued(waiting', batches')
    BY <2>1, QueueStays
  <2> QED BY <1>0, <2>1, <2>2, <2>3, <2>4 DEF TypedInv, Typed, Sound
<1>3. CASE FinishApply
  <2>1. /\ run.pc = "applying" /\ run' = Idle
        /\ UNCHANGED <<items, ids, wrote, shield, records, waiting, now, edits>>
    BY <1>3 DEF FinishApply, Ends, Provider, Bounds
  <2>2. run.batch \in DOMAIN batches /\ run.rollback \in Seq(Entries) /\ batches \in Seq(Batch)
    BY <1>0, <2>1, RunKinds DEF Applying, Sound, Typed
  <2>3. PICK status \in {"complete", "partial", "failed"} :
           batches' = [batches EXCEPT ![run.batch].status = status, ![run.batch].rollback = run.rollback]
    BY <1>3 DEF FinishApply
  <2>4. batches' \in Seq(Batch) /\ DOMAIN batches' = DOMAIN batches
    <3>1. batches' = [batches EXCEPT ![run.batch] =
                         [batches[run.batch] EXCEPT !.status = status, !.rollback = run.rollback]]
      BY <2>2, <2>3
    <3>2. batches[run.batch] \in Batch
      BY <2>2
    <3>3. [batches[run.batch] EXCEPT !.status = status, !.rollback = run.rollback] \in Batch
      BY <2>2, <3>2, BatchChanged
    <3> QED BY <2>2, <3>1, <3>3
  <2>5. Queued(waiting', batches')
    BY <2>1, <2>4, QueueStays
  <2> QED BY <1>0, <2>1, <2>4, <2>5 DEF TypedInv, Typed, Sound, Idle
<1>4. CASE StartRollback
  <2> DEFINE job == Head(waiting)
             begun == [pc |-> "undoing", batch |-> job.batch, left |-> batches[job.batch].rollback]
  <2>1. Takes("rollback") /\ UNCHANGED <<items, ids, wrote, shield, batches, records, now, edits>>
    BY <1>4 DEF StartRollback, Provider, Stored, Bounds
  <2>2. Queued(waiting', batches') /\ job.batch \in DOMAIN batches
    BY <2>1, JobTaken DEF Known
  <2>3. batches[job.batch] \in Batch /\ job.batch \in Nat
    BY <1>0, <2>2 DEF Typed
  <2>4. run' = Idle \/ run' = begun
    BY <1>4 DEF StartRollback
  <2>5. begun \in Undoing /\ begun.pc = "undoing" /\ begun.batch \in DOMAIN batches
    BY <2>2, <2>3 DEF Undoing, Batch
  <2> HIDE DEF begun, job
  <2> QED BY <1>0, <2>1, <2>2, <2>4, <2>5 DEF TypedInv, Typed, Sound, Idle
<1>5. CASE UndoItem
  <2>1. UNCHANGED <<shield, ids, batches, records, waiting, now, edits>>
    BY <1>5 DEF UndoItem, Stored
  <2> DEFINE e == run.left[Len(run.left)]
  <2>2. /\ run.pc = "undoing" /\ run' \in Undoing /\ run'.pc = "undoing" /\ run'.batch = run.batch
        /\ e \in Entries /\ (UNCHANGED <<items, wrote>> \/ (Undoable(e) /\ Undoes(e)))
    BY <1>5, UndoSteps
  <2> HIDE DEF e
  <2>3. /\ items' \in [Items -> Maybe(Item)] /\ wrote' \in [Items -> [by : Nat, over : Maybe(Item)]]
        /\ \A j \in Settings : items'[j] # None
    <3>1. CASE UNCHANGED <<items, wrote>>
      BY <1>0, <3>1 DEF Typed
    <3>2. CASE Undoable(e) /\ Undoes(e)
      <4>1. /\ e.item \in Items /\ (e.mode = "delete" => e.item \in Rules)
            /\ Writes(e.item, items'[e.item], 0) /\ items'[e.item] \in Maybe(Item)
            /\ (e.mode # "delete" => items'[e.item] # None)
        <5>1. e.item \in Items /\ (e.mode # "set" => e.item \in Rules)
          BY <2>2, EntryKinds
        <5>2. /\ Writes(e.item, items'[e.item], 0) /\ items'[e.item] \in Maybe(Item)
              /\ (e.mode # "delete" => /\ items[e.item] \in Item /\ e.previous \in Values
                                       /\ items'[e.item] = [id |-> items[e.item].id, value |-> e.previous])
          BY <2>2, <3>2, Undone
        <5>3. e.mode # "delete" => items'[e.item] \in Item
          BY <5>2 DEF Item
        <5> QED BY <5>1, <5>2, <5>3, CloudflareAutomationAssumption DEF Item
      <4>2. /\ items' \in [Items -> Maybe(Item)] /\ wrote' \in [Items -> [by : Nat, over : Maybe(Item)]]
            /\ \A j \in Items : j # e.item => items'[j] = items[j]
        BY <1>0, <4>1, WritesTyped
      <4> QED BY <1>0, <4>1, <4>2, CloudflareAutomationAssumption DEF Typed, Items
    <3> QED BY <2>2, <3>1, <3>2
  <2>4. Queued(waiting', batches')
    BY <2>1, QueueStays
  <2> QED BY <1>0, <2>1, <2>2, <2>3, <2>4 DEF TypedInv, Typed, Sound
<1>6. CASE FinishRollback
  <2>1. /\ run.pc = "undoing" /\ run' = Idle
        /\ batches' = [batches EXCEPT ![run.batch].undone = TRUE]
        /\ UNCHANGED <<items, ids, wrote, shield, records, waiting, now, edits>>
    BY <1>6 DEF FinishRollback, Ends, Provider, Bounds
  <2>2. run.batch \in DOMAIN batches /\ batches \in Seq(Batch)
    BY <1>0, <2>1 DEF Sound, Typed
  <2>3. batches[run.batch] \in Batch /\ <<>> \in Seq(Entries)
    BY <2>2
  <2>4. [batches[run.batch] EXCEPT !.undone = TRUE] \in Batch
    BY <2>3, BatchChanged
  <2>5. batches' \in Seq(Batch) /\ DOMAIN batches' = DOMAIN batches
    BY <2>1, <2>2, <2>4
  <2>6. Queued(waiting', batches')
    BY <2>1, <2>5, QueueStays
  <2> QED BY <1>0, <2>1, <2>5, <2>6 DEF TypedInv, Typed, Sound, Idle
<1> QED BY <1>1, <1>2, <1>3, <1>4, <1>5, <1>6

(* The steps of mitigations.                                               *)
LEMMA ShieldedTyped ==
    ASSUME Typed, NEW a \in Addresses, NEW until \in Nat, Shielded(a, until)
    PROVE  /\ shield' \in [Addresses -> Maybe(Rule)] /\ ids' \in Nat
           /\ shield'[a] \in Rule /\ shield'[a].until = until /\ shield'[a].id \in Nat
           /\ shield'[a] = [id |-> shield'[a].id, until |-> until]
           /\ \A c \in Addresses : c # a => shield'[c] = shield[c]
<1>1. shield \in [Addresses -> Maybe(Rule)] /\ ids \in Nat
  BY DEF Typed
<1>2. ids' \in Nat
  BY <1>1 DEF Shielded
<1>3. PICK id \in Nat : shield' = [shield EXCEPT ![a] = [id |-> id, until |-> until]]
  <2>1. CASE shield[a] = None
    <3>1. ids + 1 \in Nat
      BY <1>1
    <3>2. shield' = [shield EXCEPT ![a] = [id |-> ids + 1, until |-> until]]
      BY <2>1 DEF Shielded
    <3> QED BY <3>1, <3>2
  <2>2. CASE shield[a] # None
    <3>1. shield[a].id \in Nat
      BY <1>1, <2>2 DEF Maybe, Rule
    <3>2. shield' = [shield EXCEPT ![a] = [id |-> shield[a].id, until |-> until]]
      BY <2>2 DEF Shielded
    <3> QED BY <3>1, <3>2
  <2> QED BY <2>1, <2>2
<1>4. [id |-> id, until |-> until] \in Rule /\ shield'[a] = [id |-> id, until |-> until]
  BY <1>1, <1>3 DEF Rule
<1> QED BY <1>1, <1>2, <1>3, <1>4 DEF Maybe

LEMMA RecordTyped ==
    ASSUME NEW r \in Maybe(Incident), run \in Recording
    PROVE  /\ Record(r) \in Incident /\ Live(Record(r))
           /\ Record(r).id = run.id /\ Record(r).until = run.until
<1>1. No(r) \in Nat
  BY DEF No, Live, Maybe, Incident
<1>2. run.id \in Nat /\ run.until \in Nat
  BY DEF Recording
<1>3. Record(r) \in Incident /\ Record(r).removed = FALSE /\ Record(r).id = run.id
      /\ Record(r).until = run.until
  BY <1>1, <1>2 DEF Record, Incident
<1>4. None \notin Incident
  BY CloudflareAutomationAssumption DEF Incident
<1> QED BY <1>3, <1>4 DEF Live

LEMMA MitigationsTyped ==
    ASSUME TypedInv, StartMitigation \/ RecordMitigation \/ StartRemoval \/ DeleteRule \/ RecordRemoval
    PROVE  TypedInv'
<1>0. Typed /\ Sound
  BY DEF TypedInv
<1>1. CASE StartMitigation
  <2> DEFINE job == Head(waiting)
  <2>1. Takes("mitigate") /\ UNCHANGED <<items, wrote, batches, records, now, edits>>
    BY <1>1 DEF StartMitigation, Stored
  <2>2. run = Idle /\ Queued(waiting', batches') /\ job.address \in Addresses /\ job.until \in Nat
    BY <2>1, JobTaken, JobKinds
  <2>3. \/ UNCHANGED <<shield, ids, run>>
        \/ /\ Shielded(job.address, job.until)
           /\ \/ UNCHANGED run
              \/ run' = [pc |-> "record", address |-> job.address, until |-> job.until,
                         id |-> shield'[job.address].id]
    BY <1>1 DEF StartMitigation
  <2> HIDE DEF job
  <2>4. CASE UNCHANGED <<shield, ids, run>>
    BY <1>0, <2>1, <2>2, <2>4 DEF TypedInv, Typed, Sound
  <2>5. CASE Shielded(job.address, job.until) /\ UNCHANGED run
    <3>1. shield' \in [Addresses -> Maybe(Rule)] /\ ids' \in Nat
      BY <1>0, <2>2, <2>5, ShieldedTyped
    <3> QED BY <1>0, <2>1, <2>2, <2>5, <3>1 DEF TypedInv, Typed, Sound, Idle
  <2>6. CASE /\ Shielded(job.address, job.until)
             /\ run' = [pc |-> "record", address |-> job.address, until |-> job.until,
                        id |-> shield'[job.address].id]
    <3>1. shield' \in [Addresses -> Maybe(Rule)] /\ ids' \in Nat /\ shield'[job.address].id \in Nat
      BY <1>0, <2>2, <2>6, ShieldedTyped
    <3>2. run' \in Recording /\ run'.pc = "record"
      BY <2>2, <2>6, <3>1 DEF Recording
    <3> QED BY <1>0, <2>1, <2>2, <3>1, <3>2 DEF TypedInv, Typed, Sound
  <2> QED BY <2>3, <2>4, <2>5, <2>6
<1>2. CASE RecordMitigation
  <2>1. /\ run.pc = "record" /\ run' = Idle
        /\ UNCHANGED <<items, ids, wrote, shield, batches, waiting, now, edits>>
        /\ records' = [records EXCEPT ![run.address] = Record(records[run.address])]
    BY <1>2 DEF RecordMitigation, Ends, Provider, Bounds
  <2>2. run \in Recording /\ run.address \in Addresses
    BY <1>0, <2>1, RunKinds DEF Recording
  <2>3. Record(records[run.address]) \in Incident
    BY <1>0, <2>2, RecordTyped DEF Typed
  <2>4. records' \in [Addresses -> Maybe(Incident)]
    BY <1>0, <2>1, <2>3 DEF Typed, Maybe
  <2>5. Queued(waiting', batches')
    BY <2>1, QueueStays
  <2> QED BY <1>0, <2>1, <2>4, <2>5 DEF TypedInv, Typed, Sound, Idle
<1>3. CASE StartRemoval
  <2> DEFINE job == Head(waiting)
             begun == [pc |-> "delete", address |-> job.address, no |-> job.no, manual |-> job.manual]
  <2>1. Takes("remove") /\ UNCHANGED <<items, ids, wrote, shield, batches, records, now, edits>>
    BY <1>3 DEF StartRemoval, Provider, Stored, Bounds
  <2>2. Queued(waiting', batches') /\ job \in Jobs /\ job.kind = "remove"
    BY <2>1, JobTaken
  <2>3. begun \in Removing /\ begun.pc = "delete"
    BY <2>2, JobKinds DEF Removing
  <2>4. \/ run' = begun /\ records[begun.address] # None
        \/ run' = Idle
    BY <1>3 DEF StartRemoval, Live
  <2> HIDE DEF begun, job
  <2> QED BY <1>0, <2>1, <2>2, <2>3, <2>4 DEF TypedInv, Typed, Sound, Idle
<1>4. CASE DeleteRule
  <2>1. /\ run.pc = "delete" /\ UNCHANGED <<items, ids, wrote, batches, records, waiting, now, edits>>
        /\ run' \in {Idle, [run EXCEPT !.pc = "removed"]}
        /\ UNCHANGED shield \/ shield' = [shield EXCEPT ![run.address] = None]
    BY <1>4 DEF DeleteRule, Stored, Gone
  <2>2. shield' \in [Addresses -> Maybe(Rule)]
    BY <1>0, <2>1 DEF Typed, Maybe
  <2>3. /\ [run EXCEPT !.pc = "removed"] \in Removing /\ [run EXCEPT !.pc = "removed"].pc = "removed"
        /\ [run EXCEPT !.pc = "removed"].address = run.address
    BY <1>0, <2>1, RunKinds DEF Removing
  <2>4. Queued(waiting', batches')
    BY <2>1, QueueStays
  <2>5. records[run.address] # None
    BY <1>0, <2>1 DEF Sound
  <2>6. CASE run' = Idle
    BY <1>0, <2>1, <2>2, <2>4, <2>6 DEF TypedInv, Typed, Sound, Idle
  <2>7. CASE run' = [run EXCEPT !.pc = "removed"]
    BY <1>0, <2>1, <2>2, <2>3, <2>4, <2>5, <2>7 DEF TypedInv, Typed, Sound
  <2> QED BY <2>1, <2>6, <2>7
<1>5. CASE RecordRemoval
  <2>1. /\ run.pc = "removed" /\ run' = Idle
        /\ UNCHANGED <<items, ids, wrote, shield, batches, waiting, now, edits>>
        /\ records' = [records EXCEPT ![run.address] = [records[run.address] EXCEPT !.removed = TRUE]]
    BY <1>5 DEF RecordRemoval, Ends, Provider, Bounds
  <2>2. run.address \in Addresses /\ records[run.address] \in Incident
    BY <1>0, <2>1, RunKinds DEF Removing, Typed, Sound, Maybe
  <2>3. [records[run.address] EXCEPT !.removed = TRUE] \in Incident
    BY <2>2 DEF Incident
  <2>4. records' \in [Addresses -> Maybe(Incident)]
    BY <1>0, <2>1, <2>3 DEF Typed, Maybe
  <2>5. Queued(waiting', batches')
    BY <2>1, QueueStays
  <2> QED BY <1>0, <2>1, <2>4, <2>5 DEF TypedInv, Typed, Sound, Idle
<1> QED BY <1>1, <1>2, <1>3, <1>4, <1>5

LEMMA HandsWrite ==
    ASSUME Typed, NEW i \in Items, EditItem(i) \/ ProvisioningDefault(i)
    PROVE  \E new \in Maybe(Item) : Writes(i, new, 0) /\ (new = None => i \in Rules)
<1>1. items[i] \in Maybe(Item) /\ None \notin Item /\ "edited" \in Values
  BY CloudflareAutomationAssumption DEF Typed, Item, Values
<1>2. CASE i \in Rules /\ Writes(i, None, 0)
  BY <1>2 DEF Maybe
<1>3. CASE items[i] # None /\ Writes(i, [items[i] EXCEPT !.value = "edited"], 0)
  <2>1. [items[i] EXCEPT !.value = "edited"] \in Item
    BY <1>1, <1>3, Rewritten DEF Maybe
  <2> QED BY <1>1, <1>3, <2>1 DEF Maybe
<1>4. CASE Writes(i, Applied(i), 0)
  BY <1>1, <1>4, AppliedTyped DEF Maybe
<1> QED BY <1>2, <1>3, <1>4 DEF EditItem, ProvisioningDefault

(* What operators submit, hands that edit, the clock and restarts.         *)
LEMMA OthersTyped ==
    ASSUME TypedInv,
           \/ \E sel \in SUBSET Items \ {{}} : SubmitApply(sel)
           \/ \E b \in DOMAIN batches : SubmitRollback(b)
           \/ \E a \in Addresses, d \in Durations : SubmitMitigation(a, d)
           \/ \E a \in Addresses : SubmitRemoval(a) \/ ExpireIncidents(a) \/ DeleteShield(a)
           \/ \E i \in Items : EditItem(i) \/ ProvisioningDefault(i)
           \/ Cancel \/ Tick \/ Crash
    PROVE  TypedInv'
<1>0. Typed /\ Sound /\ batches \in Seq(Batch)
  BY DEF TypedInv, Typed
<1>1. ASSUME NEW job \in Jobs, Known(job, batches), waiting' = Append(waiting, job),
             UNCHANGED <<items, ids, wrote, shield, batches, records, run, now, edits>>
      PROVE  TypedInv'
  BY <1>0, <1>1, JobAdded DEF TypedInv, Typed, Sound
<1>2. ASSUME NEW sel \in SUBSET Items, SubmitApply(sel)
      PROVE  TypedInv'
  <2> DEFINE job == [kind |-> "apply", seen |-> Seen(sel)]
  <2>1. job \in Jobs /\ Known(job, batches)
    BY <1>0, SeenTyped DEF Jobs, Known
  <2> QED BY <1>1, <1>2, <2>1 DEF SubmitApply, Submits, Provider, Stored
<1>3. ASSUME NEW b \in DOMAIN batches, SubmitRollback(b)
      PROVE  TypedInv'
  <2> DEFINE job == [kind |-> "rollback", batch |-> b]
  <2>1. job \in Jobs /\ Known(job, batches)
    BY <1>0 DEF Jobs, Known
  <2> QED BY <1>1, <1>3, <2>1 DEF SubmitRollback, Submits, Provider, Stored
<1>4. ASSUME NEW a \in Addresses, NEW d \in Durations, SubmitMitigation(a, d)
      PROVE  TypedInv'
  <2> DEFINE job == [kind |-> "mitigate", address |-> a, until |-> now + d]
  <2>1. now + d \in Nat
    BY <1>0, CloudflareAutomationAssumption DEF Typed
  <2>2. job \in Jobs /\ Known(job, batches)
    BY <2>1 DEF Jobs, Known
  <2> QED BY <1>1, <1>4, <2>2 DEF SubmitMitigation, Submits, Provider, Stored
<1>5. ASSUME NEW a \in Addresses, SubmitRemoval(a) \/ ExpireIncidents(a)
      PROVE  TypedInv'
  <2>1. records[a] \in Incident
    BY <1>0, <1>5 DEF SubmitRemoval, ExpireIncidents, Expired, Live, Typed, Maybe
  <2>2. \A manual \in BOOLEAN : Removal(a, manual) \in Jobs /\ Known(Removal(a, manual), batches)
    BY <2>1 DEF Removal, Jobs, Known, Incident
  <2>3. \E manual \in BOOLEAN : waiting' = Append(waiting, Removal(a, manual))
    BY <1>5 DEF SubmitRemoval, Submits, ExpireIncidents
  <2>4. UNCHANGED <<items, ids, wrote, shield, batches, records, run, now, edits>>
    BY <1>5 DEF SubmitRemoval, Submits, ExpireIncidents, Provider, Stored, Bounds
  <2> QED BY <1>1, <2>2, <2>3, <2>4
<1>6. ASSUME NEW a \in Addresses, DeleteShield(a)
      PROVE  TypedInv'
  <2>1. shield' = [shield EXCEPT ![a] = None] /\ edits' = edits + 1
        /\ UNCHANGED <<items, ids, wrote, batches, records, waiting, run, now>>
    BY <1>6 DEF DeleteShield, Edits, Stored
  <2>2. shield' \in [Addresses -> Maybe(Rule)] /\ edits' \in Nat
    BY <1>0, <2>1 DEF Typed, Maybe
  <2>3. Queued(waiting', batches')
    BY <2>1, QueueStays
  <2> QED BY <1>0, <2>1, <2>2, <2>3 DEF TypedInv, Typed, Sound
<1>7. ASSUME NEW i \in Items, EditItem(i) \/ ProvisioningDefault(i)
      PROVE  TypedInv'
  <2>1. edits' = edits + 1 /\ ids' \in {ids, ids + 1}
        /\ UNCHANGED <<shield, batches, records, waiting, run, now>>
    BY <1>7 DEF EditItem, ProvisioningDefault, Edits, Stored
  <2>2. edits' \in Nat /\ ids' \in Nat
    BY <1>0, <2>1 DEF Typed
  <2>3. PICK new \in Maybe(Item) : Writes(i, new, 0) /\ (new = None => i \in Rules)
    BY <1>0, <1>7, HandsWrite
  <2>4. /\ items' \in [Items -> Maybe(Item)] /\ wrote' \in [Items -> [by : Nat, over : Maybe(Item)]]
        /\ items'[i] = new /\ \A j \in Items : j # i => items'[j] = items[j]
    BY <1>0, <2>3, WritesTyped
  <2>5. \A j \in Settings : items'[j] # None
    BY <1>0, <2>3, <2>4, CloudflareAutomationAssumption DEF Typed, Items
  <2>6. Queued(waiting', batches')
    BY <2>1, QueueStays
  <2> QED BY <1>0, <2>1, <2>2, <2>4, <2>5, <2>6 DEF TypedInv, Typed, Sound
<1>8. CASE Cancel \/ Tick
  <2>1. UNCHANGED <<items, ids, wrote, shield, batches, records, waiting, edits>>
        /\ now' \in {now, now + 1} /\ run' \in {run, Idle}
    BY <1>8 DEF Cancel, Tick, Ends, Provider, Stored, Bounds
  <2>2. now' \in Nat
    BY <1>0, <2>1 DEF Typed
  <2>3. Queued(waiting', batches')
    BY <2>1, QueueStays
  <2> QED BY <1>0, <2>1, <2>2, <2>3 DEF TypedInv, Typed, Sound, Idle
<1>9. CASE Crash
  <2>1. /\ run' = Idle /\ UNCHANGED <<items, ids, wrote, shield, records, waiting, now, edits>>
        /\ batches' = [b \in DOMAIN batches |-> IF batches[b].status = "running"
                                                THEN [batches[b] EXCEPT !.status = "interrupted"]
                                                ELSE batches[b]]
    BY <1>9 DEF Crash, Ends, Provider
  <2>2. \A b \in DOMAIN batches : batches'[b] \in Batch
    <3> TAKE b \in DOMAIN batches
    <3>1. batches[b] \in Batch /\ <<>> \in Seq(Entries)
      BY <1>0
    <3>2. [batches[b] EXCEPT !.status = "interrupted"] \in Batch
      BY <3>1, BatchChanged
    <3> QED BY <2>1, <3>1, <3>2
  <2>3. batches' \in Seq(Batch) /\ DOMAIN batches' = DOMAIN batches
    <3>1. /\ DOMAIN batches' = 1 .. Len(batches) /\ Len(batches) \in Nat
          /\ batches' = [b \in 1 .. Len(batches) |-> batches'[b]]
      BY <1>0, <2>1
    <3> QED BY <1>0, <2>2, <3>1
  <2>4. Queued(waiting', batches')
    BY <2>1, <2>3, QueueStays
  <2> QED BY <1>0, <2>1, <2>3, <2>4 DEF TypedInv, Typed, Sound, Idle
<1> QED BY <1>2, <1>3, <1>4, <1>5, <1>6, <1>7, <1>8, <1>9

LEMMA TypedKept == TypedInv /\ [Next]_vars => TypedInv'
<1> SUFFICES ASSUME TypedInv, [Next]_vars PROVE TypedInv'
  OBVIOUS
<1>1. CASE UNCHANGED vars
  <2>1. UNCHANGED <<items, ids, wrote, shield, batches, records, waiting, run, now, edits>>
    BY <1>1 DEF vars
  <2> QED BY <2>1 DEF TypedInv, Typed, Sound
<1> QED BY <1>1, PresetsTyped, MitigationsTyped, OthersTyped DEF Next, Works

(* Every batch, job and record that a step names is there, and is typed.   *)
THEOREM CloudflareTyped == Spec => []TypedInv
<1> QED BY InitTyped, TypedKept, PTL DEF Spec

-----------------------------------------------------------------------------
(* A run that names an address names one there is.                         *)
LEMMA RunAddress ==
    ASSUME TypedInv, run.pc \in {"record", "delete", "removed"}
    PROVE  run.address \in Addresses
  BY RunKinds DEF TypedInv, Recording, Removing

LEMMA MitigationStarts ==
    ASSUME MitigationsInv, TypedInv', StartMitigation
    PROVE  MitigationsInv'
<1> DEFINE job == Head(waiting)
           begun == [pc |-> "record", address |-> job.address, until |-> job.until,
                     id |-> shield'[job.address].id]
<1>1. TypedInv /\ Typed /\ MitigationRecorded /\ UNCHANGED records
  BY DEF MitigationsInv, TypedInv, StartMitigation, Stored
<1>2. run = Idle /\ job.address \in Addresses /\ job.until \in Nat
  <2>1. Takes("mitigate") /\ UNCHANGED batches
    BY DEF StartMitigation, Stored
  <2> QED BY <1>1, <2>1, JobTaken, JobKinds
<1>3. \/ UNCHANGED <<shield, run, lost>>
      \/ Shielded(job.address, job.until) /\ run' = begun /\ UNCHANGED lost
      \/ Shielded(job.address, job.until) /\ UNCHANGED run /\ lost' = lost \cup {job.address}
  BY DEF StartMitigation
<1>4. CASE UNCHANGED <<shield, run, lost>>
  BY <1>1, <1>4 DEF MitigationsInv, MitigationRecorded
<1>5. CASE Shielded(job.address, job.until) /\ run' = begun /\ UNCHANGED lost
  <2>1. /\ shield'[job.address] = [id |-> shield'[job.address].id, until |-> job.until]
        /\ \A a \in Addresses : a # job.address => shield'[a] = shield[a]
    BY <1>1, <1>2, <1>5, ShieldedTyped
  <2>2. run'.pc = "record" /\ run'.address = job.address /\ run'.until = job.until
        /\ run'.id = shield'[job.address].id
    BY <1>5
  <2> HIDE DEF job, begun
  <2>3. MitigationRecorded'
    BY <1>1, <1>2, <1>5, <2>1, <2>2 DEF MitigationRecorded, Idle
  <2> QED BY <2>1, <2>2, <2>3 DEF MitigationsInv
<1>6. CASE Shielded(job.address, job.until) /\ UNCHANGED run /\ lost' = lost \cup {job.address}
  <2>1. \A a \in Addresses : a # job.address => shield'[a] = shield[a]
    BY <1>1, <1>2, <1>6, ShieldedTyped
  <2> HIDE DEF job
  <2>2. MitigationRecorded'
    BY <1>1, <1>2, <1>6, <2>1 DEF MitigationRecorded, Idle
  <2> QED BY <1>2, <1>6, <2>2 DEF MitigationsInv, Idle
<1> QED BY <1>3, <1>4, <1>5, <1>6

LEMMA MitigationIsRecorded ==
    ASSUME MitigationsInv, TypedInv', RecordMitigation
    PROVE  MitigationsInv'
<1> DEFINE a == run.address
<1>1. TypedInv /\ Typed /\ MitigationRecorded
  BY DEF MitigationsInv, TypedInv
<1>2. /\ run.pc = "record" /\ run' = Idle /\ UNCHANGED shield /\ lost' = lost \ {a}
      /\ records' = [records EXCEPT ![a] = Record(records[a])]
  BY DEF RecordMitigation, Ends, Provider
<1>3. a \in Addresses /\ run \in Recording
  BY <1>1, <1>2, RunAddress, RunKinds
<1>4. /\ records'[a] = Record(records[a]) /\ \A c \in Addresses : c # a => records'[c] = records[c]
      /\ Live(records'[a]) /\ records'[a].id = run.id /\ records'[a].until = run.until
  BY <1>1, <1>2, <1>3, RecordTyped DEF Typed
<1>5. shield[a] = None \/ shield[a] = [id |-> run.id, until |-> run.until]
  BY <1>2 DEF MitigationsInv
<1>6. shield[a] # None => records'[a].id = shield[a].id /\ records'[a].until = shield[a].until
  BY <1>4, <1>5
<1> HIDE DEF a
<1>7. MitigationRecorded'
  <2> SUFFICES ASSUME NEW c \in Addresses, shield[c] # None, c \notin lost'
               PROVE  /\ Live(records'[c])
                      /\ records'[c].id = shield[c].id /\ records'[c].until = shield[c].until
    BY <1>2 DEF MitigationRecorded, Live
  <2>1. CASE c = a
    BY <1>4, <1>6, <2>1
  <2>2. CASE c # a
    <3>1. ~(run.pc = "record" /\ run.address = c) /\ c \notin lost /\ records'[c] = records[c]
      BY <1>2, <1>4, <2>2 DEF a
    <3> QED BY <1>1, <3>1 DEF MitigationRecorded
  <2> QED BY <2>1, <2>2
<1> QED BY <1>2, <1>7 DEF MitigationsInv, Idle

LEMMA RuleIsDeleted ==
    ASSUME MitigationsInv, TypedInv', ~ZoneLapses, DeleteRule
    PROVE  MitigationsInv'
<1> DEFINE a == run.address
           next == [run EXCEPT !.pc = "removed"]
<1>1. TypedInv /\ Typed /\ MitigationRecorded /\ run.pc = "delete" /\ UNCHANGED <<records, lost>>
  BY DEF MitigationsInv, TypedInv, DeleteRule, Stored
<1>2. a \in Addresses /\ run \in Removing
  BY <1>1, RunAddress, RunKinds
<1>3. next.pc = "removed" /\ next.address = a
  BY <1>2 DEF Removing
<1>4. \/ shield' = [shield EXCEPT ![a] = None] /\ run' \in {next, Idle}
      \/ /\ UNCHANGED shield
         /\ run' = Idle \/ (run' = next /\ (shield[a] = None \/ shield[a].id # records[a].id))
  BY DEF DeleteRule, Gone
<1>5. shield[a] = None \/ a \in lost \/ shield[a].id = records[a].id
  BY <1>1, <1>2 DEF MitigationRecorded
<1> HIDE DEF a, next
<1>6. /\ \A c \in Addresses : shield'[c] = shield[c] \/ shield'[c] = None
      /\ run' = next => shield'[a] = None \/ a \in lost
  <2>1. next # Idle
    BY <1>3 DEF Idle
  <2>2. CASE shield' = [shield EXCEPT ![a] = None]
    BY <1>1, <1>2, <2>2 DEF Typed
  <2>3. CASE UNCHANGED shield
    BY <1>2, <1>4, <1>5, <2>1, <2>2, <2>3
  <2> QED BY <1>4, <2>2, <2>3
<1>7. run' \in {next, Idle}
  BY <1>4
<1>8. MitigationRecorded'
  BY <1>1, <1>6 DEF MitigationRecorded, Live
<1> QED BY <1>1, <1>3, <1>6, <1>7, <1>8 DEF MitigationsInv, Idle

(* The other steps of a removal, and what happens at any moment.           *)
LEMMA RemovalsKeep ==
    ASSUME MitigationsInv, TypedInv',
           StartRemoval \/ RecordRemoval \/ Crash \/ \E a \in Addresses : DeleteShield(a)
    PROVE  MitigationsInv'
<1>0. TypedInv /\ Typed /\ MitigationRecorded
  BY DEF MitigationsInv, TypedInv
<1>1. CASE StartRemoval
  <2>1. Takes("remove") /\ UNCHANGED <<shield, records, batches, lost>>
    BY <1>1 DEF StartRemoval, Provider, Stored
  <2>2. run = Idle
    BY <1>0, <2>1, JobTaken
  <2>3. run'.pc \in {"delete", "idle"}
    BY <1>1 DEF StartRemoval, Idle
  <2>4. MitigationRecorded'
    BY <1>0, <2>1, <2>2 DEF MitigationRecorded, Live, Idle
  <2> QED BY <2>3, <2>4 DEF MitigationsInv
<1>2. CASE RecordRemoval
  <2>1. /\ run.pc = "removed" /\ run' = Idle /\ UNCHANGED <<shield, lost>>
        /\ records' = [records EXCEPT ![run.address] = [records[run.address] EXCEPT !.removed = TRUE]]
    BY <1>2 DEF RecordRemoval, Ends, Provider
  <2>2. /\ \A c \in Addresses : c # run.address => records'[c] = records[c]
        /\ shield[run.address] = None \/ run.address \in lost
    BY <1>0, <2>1 DEF Typed, MitigationsInv
  <2>3. MitigationRecorded'
    BY <1>0, <2>1, <2>2 DEF MitigationRecorded, Live
  <2> QED BY <2>1, <2>3 DEF MitigationsInv, Idle
<1>3. CASE Crash
  <2>1. /\ run' = Idle /\ UNCHANGED <<shield, records>>
        /\ lost' = IF run.pc = "record" THEN lost \cup {run.address} ELSE lost
    BY <1>3 DEF Crash, Ends, Provider
  <2>2. MitigationRecorded'
    BY <1>0, <2>1 DEF MitigationRecorded, Live
  <2> QED BY <2>1, <2>2 DEF MitigationsInv, Idle
<1>4. ASSUME NEW a \in Addresses, DeleteShield(a)
      PROVE  MitigationsInv'
  <2>1. /\ shield' = [shield EXCEPT ![a] = None] /\ lost' = lost \ {a} /\ UNCHANGED <<records, run>>
    BY <1>4 DEF DeleteShield, Stored
  <2>2. shield'[a] = None /\ \A c \in Addresses : c # a => shield'[c] = shield[c]
    BY <1>0, <2>1 DEF Typed
  <2>3. MitigationRecorded'
    BY <1>0, <2>1, <2>2 DEF MitigationRecorded, Live
  <2>4. run'.pc \in {"record", "removed"} => run.address \in Addresses
    BY <1>0, <2>1, RunAddress
  <2> QED BY <2>1, <2>2, <2>3, <2>4 DEF MitigationsInv
<1> QED BY <1>1, <1>2, <1>3, <1>4

LEMMA MitigationsKept ==
    ASSUME MitigationsInv, ~ZoneLapses, [Next]_vars
    PROVE  MitigationsInv'
<1>0. TypedInv /\ TypedInv' /\ MitigationRecorded
  BY TypedKept DEF MitigationsInv
<1>1. ASSUME UNCHANGED <<shield, records, lost>>, run.pc \in {"record", "removed"} => run' \in {run},
             run'.pc \in {"record", "removed"} => run' = run
      PROVE  MitigationsInv'
  BY <1>0, <1>1 DEF MitigationsInv, MitigationRecorded, Live
<1>2. CASE UNCHANGED vars
  BY <1>1, <1>2 DEF vars
<1>3. CASE \/ \E sel \in SUBSET Items \ {{}} : SubmitApply(sel)
           \/ \E b \in DOMAIN batches : SubmitRollback(b)
           \/ \E a \in Addresses, d \in Durations : SubmitMitigation(a, d)
           \/ \E a \in Addresses : SubmitRemoval(a) \/ ExpireIncidents(a)
           \/ \E i \in Items : EditItem(i) \/ ProvisioningDefault(i)
           \/ Tick
  <2>1. UNCHANGED <<shield, records, lost, run>>
    BY <1>3 DEF SubmitApply, SubmitRollback, SubmitMitigation, SubmitRemoval, Submits, ExpireIncidents,
       EditItem, ProvisioningDefault, Tick, Provider, Stored
  <2> QED BY <1>1, <2>1
<1>4. CASE StartApply \/ FinishApply \/ StartRollback \/ FinishRollback \/ Cancel
  <2>1. UNCHANGED <<shield, records, lost>>
    BY <1>4 DEF StartApply, FinishApply, StartRollback, FinishRollback, Cancel, Provider, Stored
  <2>2. run.pc \in {"idle", "applying", "undoing"}
    <3>1. CASE StartApply \/ StartRollback
      BY <3>1 DEF StartApply, StartRollback, Takes, Running
    <3>2. CASE FinishApply \/ FinishRollback \/ Cancel
      BY <3>2 DEF FinishApply, FinishRollback, Cancel
    <3> QED BY <1>4, <3>1, <3>2
  <2>3. run'.pc \in {"idle", "applying", "undoing"}
    <3>1. CASE StartApply \/ StartRollback
      BY <2>2, <3>1 DEF StartApply, StartRollback, Idle
    <3>2. CASE FinishApply \/ FinishRollback \/ Cancel
      BY <3>2 DEF FinishApply, FinishRollback, Cancel, Ends, Idle
    <3> QED BY <1>4, <3>1, <3>2
  <2> QED BY <1>1, <2>1, <2>2, <2>3
<1>5. CASE UndoItem \/ \E i \in Items : ApplyItem(i)
  <2>1. UNCHANGED <<shield, records, lost>>
    BY <1>5 DEF UndoItem, ApplyItem, Stored
  <2>2. run.pc \in {"applying", "undoing"} /\ run'.pc \in {"applying", "undoing"}
    BY <1>0, <1>5, Steps, UndoSteps
  <2> QED BY <1>1, <2>1, <2>2
<1> QED BY <1>0, <1>2, <1>3, <1>4, <1>5, MitigationStarts, MitigationIsRecorded, RuleIsDeleted, RemovalsKeep
        DEF Next, Works

(* A rule that blocks visitors is known, as long as Cloudflare does not    *)
(* answer that a rule is gone when its zone is not active.                 *)
THEOREM MitigationsKnown == ~ZoneLapses /\ Spec => []MitigationRecorded
<1> SUFFICES ASSUME ~ZoneLapses PROVE Spec => []MitigationRecorded
  OBVIOUS
<1>1. Init => MitigationsInv
  BY InitTyped DEF Init, Idle, MitigationsInv, MitigationRecorded
<1>2. MitigationsInv /\ [Next]_vars => MitigationsInv'
  BY MitigationsKept
<1>3. MitigationsInv => MitigationRecorded
  BY DEF MitigationsInv
<1> QED BY <1>1, <1>2, <1>3, PTL DEF Spec

-----------------------------------------------------------------------------
(* Entries stay true of what is written by others.                         *)
LEMMA StaysEntered ==
    ASSUME NEW v, NEW w, NEW b, NEW es \in Seq(Entries), AllEntered(v, es, b),
           \A i \in Items : w[i] = v[i] \/ w[i].by # b
    PROVE  AllEntered(w, es, b)
<1> SUFFICES ASSUME NEW k \in DOMAIN es PROVE Entered(w, es[k], b)
  BY DEF AllEntered
<1>1. es[k] \in Entries
  OBVIOUS
<1>2. es[k].item \in Items /\ Entered(v, es[k], b)
  BY <1>1, EntryKinds DEF AllEntered
<1> QED BY <1>2 DEF Entered

(* A step that writes no item, and neither begins a run nor changes a      *)
(* rollback.                                                               *)
LEMMA NothingWritten ==
    ASSUME PresetsInv, TypedInv', UNCHANGED <<items, wrote>>,
           run' = run \/ run'.pc \notin {"applying", "undoing"}, DOMAIN batches' = DOMAIN batches,
           \A b \in DOMAIN batches : batches'[b].rollback = batches[b].rollback
    PROVE  PresetsInv'
<1>1. TypedInv /\ Written /\ StillReviewed /\ Sound
  BY DEF PresetsInv, TypedInv
<1>2. Written'
  BY <1>1 DEF Written
<1>3. StillReviewed'
  BY <1>1 DEF StillReviewed, Value, Sound
<1> QED BY <1>2, <1>3 DEF PresetsInv

(* Somebody else writes what no job has still to write.                    *)
LEMMA OthersWrite ==
    ASSUME PresetsInv, TypedInv', NEW i \in Items, NEW new \in Maybe(Item), Writes(i, new, 0),
           UNCHANGED batches, ~(run.pc = "applying" /\ i \in run.left),
           \/ run' = run
           \/ /\ run.pc = "undoing" /\ run' \in Undoing /\ run'.pc = "undoing" /\ run'.batch = run.batch
              /\ AllEntered(wrote, run'.left, run.batch)
    PROVE  PresetsInv'
<1>1. TypedInv /\ Typed /\ Sound /\ Written /\ StillReviewed /\ batches \in Seq(Batch)
  BY DEF PresetsInv, TypedInv, Typed
<1>2. /\ wrote'[i] = [by |-> 0, over |-> items[i]] /\ items'[i] = new
      /\ \A j \in Items : j # i => items'[j] = items[j] /\ wrote'[j] = wrote[j]
  BY <1>1, WritesTyped
<1>3. \A b \in DOMAIN batches : \A j \in Items : wrote'[j] = wrote[j] \/ wrote'[j].by # b
  BY <1>1, <1>2
<1>4. Written'
  BY <1>1, <1>2 DEF Written
<1>5. ASSUME NEW b \in DOMAIN batches, NEW es \in Seq(Entries), AllEntered(wrote, es, b)
      PROVE  AllEntered(wrote', es, b)
  BY <1>3, <1>5, StaysEntered
<1>6. \A b \in DOMAIN batches : AllEntered(wrote', batches[b].rollback, b)
  <2> TAKE b \in DOMAIN batches
  <2>1. batches[b] \in Batch
    BY <1>1
  <2> QED BY <1>5, <2>1 DEF PresetsInv, Batch
<1>7. StillReviewed'
  <2> SUFFICES ASSUME run'.pc = "applying" PROVE StillReviewed'
    BY DEF StillReviewed
  <2>1. run' = run /\ run \in Applying /\ run.left \subseteq Items
    BY <1>1, RunKinds DEF Applying
  <2>2. run.batch \in DOMAIN batches /\ run.rollback \in Seq(Entries)
    BY <1>1, <2>1 DEF Sound, Applying
  <2>3. AllEntered(wrote', run.rollback, run.batch)
    BY <1>1, <1>5, <2>1, <2>2 DEF StillReviewed
  <2>4. \A j \in run.left : Value(j)' = Value(j)
    BY <1>2, <2>1 DEF Value
  <2> QED BY <1>1, <2>1, <2>3, <2>4 DEF StillReviewed
<1>8. run'.pc = "undoing" => AllEntered(wrote', run'.left, run'.batch)
  <2> SUFFICES ASSUME run'.pc = "undoing" PROVE AllEntered(wrote', run'.left, run'.batch)
    OBVIOUS
  <2>1. run.pc = "undoing" /\ run'.batch = run.batch /\ AllEntered(wrote, run'.left, run.batch)
    BY DEF PresetsInv
  <2>2. run \in Undoing /\ run' \in Undoing /\ run.batch \in DOMAIN batches
    BY <1>1, <2>1, RunKinds DEF Sound
  <2> QED BY <1>5, <2>1, <2>2 DEF Undoing
<1> QED BY <1>4, <1>6, <1>7, <1>8 DEF PresetsInv

LEMMA ApplyStarts ==
    ASSUME PresetsInv, TypedInv', StartApply
    PROVE  PresetsInv'
<1> DEFINE job == Head(waiting)
           new == [status |-> "running", rollback |-> <<>>, undone |-> FALSE]
           begun == [pc |-> "applying", batch |-> Len(batches) + 1, left |-> DOMAIN job.seen,
                     reviewed |-> job.seen, current |-> Seen(DOMAIN job.seen), rollback |-> <<>>,
                     failed |-> FALSE]
<1>1. UNCHANGED <<items, wrote>> /\ batches \in Seq(Batch) /\ Written
  BY DEF StartApply, Provider, PresetsInv, TypedInv, Typed
<1>2. \/ batches' = Append(batches, new) /\ run' = begun /\ job.seen = Seen(DOMAIN job.seen)
      \/ UNCHANGED <<batches, run>>
  BY DEF StartApply, Unchanged
<1>3. CASE UNCHANGED <<batches, run>>
  BY <1>1, <1>3, NothingWritten
<1>4. CASE batches' = Append(batches, new) /\ run' = begun /\ job.seen = Seen(DOMAIN job.seen)
  <2>1. /\ DOMAIN batches' = 1 .. Len(batches) + 1 /\ batches'[Len(batches) + 1] = new
        /\ DOMAIN batches = 1 .. Len(batches) /\ Len(batches) \in Nat
        /\ \A b \in DOMAIN batches : batches'[b] = batches[b]
    BY <1>1, <1>4
  <2>2. new.rollback = <<>>
    OBVIOUS
  <2> HIDE DEF new
  <2>3. \A b \in DOMAIN batches' : AllEntered(wrote', batches'[b].rollback, b)
    <3> TAKE b \in DOMAIN batches'
    <3>1. CASE b \in DOMAIN batches
      BY <1>1, <2>1, <3>1 DEF PresetsInv
    <3>2. CASE b = Len(batches) + 1
      BY <2>1, <2>2, <3>2 DEF AllEntered
    <3> QED BY <2>1, <3>1, <3>2
  <2>4. /\ run'.pc = "applying" /\ run'.left = DOMAIN job.seen /\ run'.reviewed = run'.current
        /\ run'.current = Seen(DOMAIN job.seen) /\ run'.batch = Len(batches) + 1 /\ run'.rollback = <<>>
    BY <1>4
  <2> HIDE DEF begun, job
  <2>5. \A i \in run'.left : run'.current[i] = Value(i)'
    BY <1>1, <2>4 DEF Seen, Value
  <2>6. StillReviewed'
    BY <2>1, <2>2, <2>4, <2>5 DEF StillReviewed, AllEntered
  <2>7. Written'
    BY <1>1 DEF Written
  <2> QED BY <2>3, <2>4, <2>6, <2>7 DEF PresetsInv
<1> QED BY <1>2, <1>3, <1>4

(* The entry of a step says what the step writes over.                     *)
LEMMA EntryIsTrue ==
    ASSUME PresetsInv, NEW i, ApplyItem(i), Writes(i, Applied(i), run.batch)
    PROVE  Entered(wrote', Entry(i), run.batch)
<1>1. /\ TypedInv /\ Typed /\ StillReviewed
      /\ run \in Applying /\ run.pc = "applying" /\ i \in run.left /\ i \in Items
  BY Steps DEF PresetsInv, TypedInv
<1>2. wrote'[i].over = items[i]
  <2>1. Applied(i) \in Maybe(Item) /\ run.batch \in Nat
    BY <1>1, AppliedTyped DEF Maybe, Applying
  <2>2. wrote'[i] = [by |-> run.batch, over |-> items[i]]
    BY <1>1, <2>1, WritesTyped
  <2> QED BY <2>2
<1>3. /\ Entry(i).item = i
      /\ Entry(i).mode = IF i \in Settings THEN "set" ELSE IF items[i] = None THEN "delete" ELSE "restore"
      /\ i \in Settings => Entry(i).previous = run.current[i]
      /\ i \notin Settings /\ items[i] # None => Entry(i).previous \in {None, items[i].value}
  BY <1>1, EntryTyped
<1>4. CASE i \in Settings
  <2>1. items[i] # None /\ run.current[i] = items[i].value
    BY <1>1, <1>4 DEF Typed, StillReviewed, Value
  <2> QED BY <1>2, <1>3, <1>4, <2>1 DEF Entered
<1>5. CASE i \notin Settings
  BY <1>2, <1>3, <1>5 DEF Entered
<1> QED BY <1>4, <1>5

LEMMA ItemApplied ==
    ASSUME PresetsInv, TypedInv', NEW i, ApplyItem(i)
    PROVE  PresetsInv'
<1>1. TypedInv /\ Typed /\ Sound /\ Written /\ StillReviewed /\ batches \in Seq(Batch) /\ UNCHANGED batches
  BY DEF PresetsInv, TypedInv, Typed, ApplyItem, Stored
<1>2. /\ run.pc = "applying" /\ run \in Applying /\ i \in run.left /\ i \in Items
      /\ run' \in Applying /\ run'.pc = "applying" /\ run'.batch = run.batch /\ run'.left = run.left \ {i}
      /\ run'.reviewed = run.reviewed /\ run'.current = run.current
      /\ \/ UNCHANGED <<items, wrote>> /\ run'.rollback = run.rollback
         \/ /\ Writes(i, Applied(i), run.batch)
            /\ run'.rollback \in {run.rollback, Append(run.rollback, Entry(i))}
  BY <1>1, Steps
<1>3. /\ run.batch \in DOMAIN batches /\ run.batch \in Nat \ {0}
      /\ run.left \subseteq Items /\ run.rollback \in Seq(Entries)
  BY <1>1, <1>2 DEF Sound, Applying
<1>4. /\ batches[run.batch].rollback = <<>>
      /\ \A k \in DOMAIN run.rollback : run.rollback[k].item \notin run.left
      /\ AllEntered(wrote, run.rollback, run.batch) /\ \A j \in run.left : run.current[j] = Value(j)
  BY <1>1, <1>2 DEF StillReviewed
<1>5. CASE UNCHANGED <<items, wrote>> /\ run'.rollback = run.rollback
  <2>1. StillReviewed'
    BY <1>1, <1>2, <1>4, <1>5 DEF StillReviewed, Value
  <2> QED BY <1>1, <1>2, <1>5, <2>1 DEF PresetsInv, Written
<1>6. CASE /\ Writes(i, Applied(i), run.batch)
           /\ run'.rollback \in {run.rollback, Append(run.rollback, Entry(i))}
  <2>1. /\ wrote'[i] = [by |-> run.batch, over |-> items[i]] /\ items'[i] = Applied(i)
        /\ \A j \in Items : j # i => items'[j] = items[j] /\ wrote'[j] = wrote[j]
    <3>1. Applied(i) \in Maybe(Item)
      BY <1>1, <1>2, AppliedTyped DEF Maybe
    <3> QED BY <1>1, <1>2, <1>3, <1>6, <3>1, WritesTyped
  <2>2. Written'
    <3>1. items[i] # None => items'[i] = [id |-> items[i].id, value |-> Wanted]
      BY <1>1, <1>2, <2>1, AppliedTyped
    <3> QED BY <1>1, <2>1, <3>1 DEF Written
  <2>3. \A b \in DOMAIN batches : AllEntered(wrote', batches[b].rollback, b)
    <3> TAKE b \in DOMAIN batches
    <3>1. CASE b = run.batch
      BY <1>4, <3>1 DEF AllEntered
    <3>2. CASE b # run.batch
      <4>1. \A j \in Items : wrote'[j] = wrote[j] \/ wrote'[j].by # b
        BY <2>1, <3>2
      <4>2. batches[b] \in Batch /\ AllEntered(wrote, batches[b].rollback, b)
        BY <1>1 DEF PresetsInv
      <4>3. batches[b].rollback \in Seq(Entries)
        BY <4>2 DEF Batch
      <4> QED BY <4>1, <4>2, <4>3, StaysEntered
    <3> QED BY <3>1, <3>2
  <2>4. AllEntered(wrote', run.rollback, run.batch)
    <3> SUFFICES ASSUME NEW k \in DOMAIN run.rollback PROVE Entered(wrote', run.rollback[k], run.batch)
      BY DEF AllEntered
    <3>1. run.rollback[k] \in Entries
      BY <1>3
    <3>2. run.rollback[k].item \in Items /\ run.rollback[k].item # i
      BY <1>2, <1>4, <3>1, EntryKinds
    <3> QED BY <1>4, <2>1, <3>2 DEF AllEntered, Entered
  <2>5. Entered(wrote', Entry(i), run.batch) /\ Entry(i) \in Entries /\ Entry(i).item = i
    BY <1>1, <1>2, <1>6, EntryIsTrue, EntryTyped
  <2>6. /\ \A k \in DOMAIN run'.rollback : run'.rollback[k].item \notin run'.left
        /\ AllEntered(wrote', run'.rollback, run.batch)
    <3>1. CASE run'.rollback = run.rollback
      BY <1>2, <1>4, <2>4, <3>1
    <3>2. CASE run'.rollback = Append(run.rollback, Entry(i))
      <4>1. /\ DOMAIN run'.rollback = 1 .. Len(run.rollback) + 1
            /\ DOMAIN run.rollback = 1 .. Len(run.rollback)
            /\ run'.rollback[Len(run.rollback) + 1] = Entry(i) /\ Len(run.rollback) \in Nat
            /\ \A k \in DOMAIN run.rollback : run'.rollback[k] = run.rollback[k]
        BY <1>3, <2>5, <3>2
      <4> SUFFICES ASSUME NEW k \in DOMAIN run'.rollback
                   PROVE  /\ run'.rollback[k].item \notin run'.left
                          /\ Entered(wrote', run'.rollback[k], run.batch)
        BY DEF AllEntered
      <4>2. CASE k \in DOMAIN run.rollback
        BY <1>2, <1>4, <2>4, <4>1, <4>2 DEF AllEntered
      <4>3. CASE k = Len(run.rollback) + 1
        BY <1>2, <2>5, <4>1, <4>3
      <4> QED BY <4>1, <4>2, <4>3
    <3> QED BY <1>6, <3>1, <3>2
  <2>7. \A j \in run'.left : run'.current[j] = Value(j)'
    BY <1>2, <1>3, <1>4, <2>1 DEF Value
  <2>8. StillReviewed'
    BY <1>1, <1>2, <1>4, <2>6, <2>7 DEF StillReviewed
  <2> QED BY <1>1, <1>2, <2>2, <2>3, <2>8 DEF PresetsInv
<1> QED BY <1>2, <1>5, <1>6

LEMMA ApplyEnds ==
    ASSUME PresetsInv, TypedInv', FinishApply
    PROVE  PresetsInv'
<1>1. /\ run.pc = "applying" /\ run' = Idle /\ UNCHANGED <<items, wrote>>
      /\ TypedInv /\ Typed /\ Sound /\ Written /\ StillReviewed /\ batches \in Seq(Batch)
  BY DEF FinishApply, Ends, Provider, PresetsInv, TypedInv, Typed
<1>2. /\ run.batch \in DOMAIN batches /\ run.rollback \in Seq(Entries)
      /\ AllEntered(wrote, run.rollback, run.batch)
  BY <1>1, RunKinds DEF Sound, Applying, StillReviewed
<1>3. PICK status \in {"complete", "partial", "failed"} :
         batches' = [batches EXCEPT ![run.batch].status = status, ![run.batch].rollback = run.rollback]
  BY DEF FinishApply
<1>4. batches' = [batches EXCEPT ![run.batch] =
                    [batches[run.batch] EXCEPT !.status = status, !.rollback = run.rollback]]
  BY <1>2, <1>3
<1>5. [batches[run.batch] EXCEPT !.status = status, !.rollback = run.rollback].rollback = run.rollback
  <2>1. batches[run.batch] \in Batch
    BY <1>1, <1>2
  <2>2. status \in {"complete", "partial", "failed"}
    BY <1>3
  <2>3. PICK b \in Batch : b = batches[run.batch]
    BY <2>1
  <2>4. PICK rollback \in Seq(Entries) : rollback = run.rollback
    BY <1>2
  <2>5. [b EXCEPT !.status = status, !.rollback = rollback].rollback = rollback
    BY <2>2 DEF Batch
  <2> QED BY <2>3, <2>4, <2>5
<1>6. /\ DOMAIN batches' = DOMAIN batches /\ batches'[run.batch].rollback = run.rollback
      /\ \A b \in DOMAIN batches : b # run.batch => batches'[b] = batches[b]
  BY <1>1, <1>2, <1>4, <1>5
<1>7. \A b \in DOMAIN batches' : AllEntered(wrote', batches'[b].rollback, b)
  BY <1>1, <1>2, <1>6 DEF PresetsInv
<1> QED BY <1>1, <1>7 DEF PresetsInv, Written, StillReviewed, Idle

LEMMA RollbackStarts ==
    ASSUME PresetsInv, TypedInv', StartRollback
    PROVE  PresetsInv'
<1> DEFINE job == Head(waiting)
           begun == [pc |-> "undoing", batch |-> job.batch, left |-> batches[job.batch].rollback]
<1>1. TypedInv /\ Written /\ StillReviewed /\ UNCHANGED <<items, wrote, batches>> /\ Takes("rollback")
  BY DEF PresetsInv, StartRollback, Provider, Stored
<1>2. job.batch \in DOMAIN batches
  BY <1>1, JobTaken DEF Known
<1>3. run' = Idle \/ run' = begun
  BY DEF StartRollback
<1>4. CASE run' = Idle
  BY <1>1, <1>4, NothingWritten DEF Idle
<1>5. CASE run' = begun
  <2>1. run'.pc = "undoing" /\ run'.batch = job.batch /\ run'.left = batches[job.batch].rollback
    BY <1>5
  <2> HIDE DEF begun, job
  <2>2. AllEntered(wrote', run'.left, run'.batch)
    BY <1>1, <1>2, <2>1 DEF PresetsInv
  <2> QED BY <1>1, <2>1, <2>2 DEF PresetsInv, Written, StillReviewed
<1> QED BY <1>3, <1>4, <1>5

LEMMA ItemUndone ==
    ASSUME PresetsInv, TypedInv', UndoItem
    PROVE  PresetsInv'
<1> DEFINE e == run.left[Len(run.left)]
<1>1. TypedInv /\ Written /\ StillReviewed /\ UNCHANGED batches
  BY DEF PresetsInv, UndoItem, Stored
<1>2. /\ run.pc = "undoing" /\ run' \in Undoing /\ run'.pc = "undoing" /\ run'.batch = run.batch
      /\ DOMAIN run'.left \subseteq DOMAIN run.left /\ \A k \in DOMAIN run'.left : run'.left[k] = run.left[k]
      /\ e \in Entries /\ (UNCHANGED <<items, wrote>> \/ (Undoable(e) /\ Undoes(e)))
  BY <1>1, UndoSteps
<1> HIDE DEF e
<1>3. AllEntered(wrote, run'.left, run.batch)
  BY <1>2 DEF PresetsInv, AllEntered
<1>4. CASE UNCHANGED <<items, wrote>>
  BY <1>1, <1>2, <1>3, <1>4 DEF PresetsInv, Written, StillReviewed
<1>5. CASE Undoable(e) /\ Undoes(e)
  <2>1. Writes(e.item, items'[e.item], 0) /\ items'[e.item] \in Maybe(Item) /\ e.item \in Items
    BY <1>1, <1>2, <1>5, Undone, EntryKinds
  <2> QED BY <1>1, <1>2, <1>3, <2>1, OthersWrite
<1> QED BY <1>2, <1>4, <1>5

LEMMA PresetsKept ==
    ASSUME PresetsInv, ~LateEdits, [Next]_vars
    PROVE  PresetsInv'
<1>0. TypedInv /\ TypedInv' /\ batches \in Seq(Batch)
  BY TypedKept DEF PresetsInv, TypedInv, Typed
<1>1. CASE UNCHANGED vars
  BY <1>0, <1>1, NothingWritten DEF vars
<1>2. CASE \/ \E sel \in SUBSET Items \ {{}} : SubmitApply(sel)
           \/ \E b \in DOMAIN batches : SubmitRollback(b)
           \/ \E a \in Addresses, d \in Durations : SubmitMitigation(a, d)
           \/ \E a \in Addresses : SubmitRemoval(a) \/ ExpireIncidents(a) \/ DeleteShield(a)
           \/ Tick
  <2>1. UNCHANGED <<items, wrote, batches, run>>
    BY <1>2 DEF SubmitApply, SubmitRollback, SubmitMitigation, SubmitRemoval, Submits, ExpireIncidents,
       DeleteShield, Tick, Provider, Stored
  <2> QED BY <1>0, <2>1, NothingWritten
<1>3. CASE Cancel \/ RecordMitigation \/ RecordRemoval
  <2>1. UNCHANGED <<items, wrote, batches>> /\ run' = Idle
    BY <1>3 DEF Cancel, RecordMitigation, RecordRemoval, Ends, Provider, Stored
  <2> QED BY <1>0, <2>1, NothingWritten DEF Idle
<1>4. CASE StartMitigation \/ StartRemoval \/ DeleteRule
  <2>1. UNCHANGED <<items, wrote, batches>>
    BY <1>4 DEF StartMitigation, StartRemoval, DeleteRule, Provider, Stored
  <2>2. run' = run \/ run'.pc \notin {"applying", "undoing"}
    <3>1. CASE StartMitigation
      BY <3>1 DEF StartMitigation
    <3>2. CASE StartRemoval
      BY <3>2 DEF StartRemoval, Idle
    <3>3. CASE DeleteRule
      <4>1. run \in Removing /\ run' \in {Idle, [run EXCEPT !.pc = "removed"]}
        BY <1>0, <3>3, RunKinds DEF DeleteRule, Gone, TypedInv
      <4> QED BY <4>1 DEF Removing, Idle
    <3> QED BY <1>4, <3>1, <3>2, <3>3
  <2> QED BY <1>0, <2>1, <2>2, NothingWritten
<1>5. CASE FinishRollback
  <2>1. /\ run.pc = "undoing" /\ run' = Idle /\ UNCHANGED <<items, wrote>>
        /\ batches' = [batches EXCEPT ![run.batch].undone = TRUE]
    BY <1>5 DEF FinishRollback, Ends, Provider
  <2>2. run.batch \in DOMAIN batches /\ batches[run.batch] \in Batch /\ <<>> \in Seq(Entries)
    BY <1>0, <2>1 DEF TypedInv, Sound
  <2>3. [batches[run.batch] EXCEPT !.undone = TRUE].rollback = batches[run.batch].rollback
    BY <2>2, BatchChanged
  <2>4. /\ DOMAIN batches' = DOMAIN batches
        /\ \A b \in DOMAIN batches : batches'[b].rollback = batches[b].rollback
    BY <2>1, <2>2, <2>3
  <2> QED BY <1>0, <2>1, <2>4, NothingWritten DEF Idle
<1>6. CASE Crash
  <2>1. /\ run' = Idle /\ UNCHANGED <<items, wrote>>
        /\ batches' = [b \in DOMAIN batches |-> IF batches[b].status = "running"
                                                THEN [batches[b] EXCEPT !.status = "interrupted"]
                                                ELSE batches[b]]
    BY <1>6 DEF Crash, Ends, Provider
  <2>2. \A b \in DOMAIN batches : batches'[b].rollback = batches[b].rollback
    <3> TAKE b \in DOMAIN batches
    <3>1. batches[b] \in Batch /\ <<>> \in Seq(Entries)
      BY <1>0
    <3>2. [batches[b] EXCEPT !.status = "interrupted"].rollback = batches[b].rollback
      BY <3>1, BatchChanged
    <3> QED BY <2>1, <3>2
  <2>3. DOMAIN batches' = DOMAIN batches
    BY <2>1
  <2> QED BY <1>0, <2>1, <2>2, <2>3, NothingWritten DEF Idle
<1>7. ASSUME NEW i \in Items, EditItem(i) \/ ProvisioningDefault(i)
      PROVE  PresetsInv'
  <2>1. UNCHANGED <<batches, run>> /\ ~(run.pc = "applying" /\ i \in run.left)
    BY <1>7 DEF EditItem, ProvisioningDefault, Early, Stored
  <2>2. PICK new \in Maybe(Item) : Writes(i, new, 0)
    BY <1>0, <1>7, HandsWrite DEF TypedInv
  <2> QED BY <1>0, <2>1, <2>2, OthersWrite
<1> QED BY <1>0, <1>1, <1>2, <1>3, <1>4, <1>5, <1>6, <1>7,
        ApplyStarts, ItemApplied, ApplyEnds, RollbackStarts, ItemUndone DEF Next, Works

LEMMA PresetsHold == ASSUME ~LateEdits PROVE Spec => []PresetsInv
<1>1. Init => PresetsInv
  BY InitTyped DEF Init, Idle, PresetsInv, Written, StillReviewed
<1>2. PresetsInv /\ [Next]_vars => PresetsInv'
  BY PresetsKept
<1> QED BY <1>1, <1>2, PTL DEF Spec

(* Only a step of a rollback and hands write items during a rollback.      *)
LEMMA UndoRestores ==
    ASSUME PresetsInv, [Next]_vars, NEW i \in Items,
           run.pc = "undoing", edits' = edits, items'[i] # items[i], wrote[i].by = run.batch
    PROVE  items'[i] = wrote[i].over
<1>1. TypedInv /\ Typed /\ Sound /\ Written /\ edits \in Nat
  BY DEF PresetsInv, TypedInv, Typed
<1>2. UndoItem
  <2>1. edits' # edits + 1
    BY <1>1
  <2>2. ~(\E j \in Items : ApplyItem(j) \/ EditItem(j) \/ ProvisioningDefault(j))
    BY <2>1 DEF ApplyItem, EditItem, ProvisioningDefault, Edits
  <2>3. ~(StartMitigation \/ DeleteRule)
    BY DEF StartMitigation, DeleteRule
  <2> QED BY <2>2, <2>3 DEF Next, Works, vars, SubmitApply, SubmitRollback, SubmitMitigation, SubmitRemoval,
         Submits, ExpireIncidents, DeleteShield, StartApply, FinishApply, StartRollback, FinishRollback,
         RecordMitigation, StartRemoval, RecordRemoval, Cancel, Tick, Crash, Provider, Stored
<1> DEFINE e == run.left[Len(run.left)]
<1>3. /\ e \in Entries /\ run \in Undoing /\ Len(run.left) \in DOMAIN run.left
      /\ UNCHANGED <<items, wrote>> \/ (Undoable(e) /\ Undoes(e))
  BY <1>1, <1>2, UndoSteps
<1>4. Entered(wrote, e, run.batch)
  BY <1>3 DEF PresetsInv, AllEntered
<1>5. run.batch # 0
  BY <1>1 DEF Sound, Typed
<1> HIDE DEF e
<1>6. Undoable(e) /\ Undoes(e)
  BY <1>3
<1>7. /\ Writes(e.item, items'[e.item], 0) /\ items'[e.item] \in Maybe(Item) /\ e.item \in Items
      /\ e.mode = "delete" => items'[e.item] = None
      /\ e.mode # "delete" => /\ items[e.item] \in Item /\ e.previous \in Values
                              /\ items'[e.item] = [id |-> items[e.item].id, value |-> e.previous]
  BY <1>1, <1>3, <1>6, Undone, EntryKinds
<1>8. e.item = i
  BY <1>1, <1>7, WritesTyped
<1>9. CASE e.mode = "delete"
  BY <1>4, <1>7, <1>8, <1>9 DEF Entered
<1>10. CASE e.mode # "delete"
  <2>1. wrote[i].over # None /\ e.previous \in {None, wrote[i].over.value}
    BY <1>4, <1>8, <1>10 DEF Entered
  <2>2. wrote[i].over \in Item /\ e.previous = wrote[i].over.value
    BY <1>1, <1>7, <1>10, <2>1, CloudflareAutomationAssumption DEF Typed, Maybe
  <2>3. items[i] = [id |-> wrote[i].over.id, value |-> Wanted]
    BY <1>1, <1>5, <2>1 DEF Written
  <2>4. items'[i] = [id |-> wrote[i].over.id, value |-> wrote[i].over.value]
    BY <1>7, <1>8, <1>10, <2>2, <2>3
  <2> QED BY <2>2, <2>4 DEF Item
<1> QED BY <1>9, <1>10

(* A rollback gives back exactly what its batch wrote over, as long as no  *)
(* hand edits between the dry run of an apply job and its turn.            *)
THEOREM RollbacksRestore == ~LateEdits /\ Spec => RollbackRestores
<1> SUFFICES ASSUME ~LateEdits PROVE Spec => RollbackRestores
  OBVIOUS
<1>1. PresetsInv /\ [Next]_vars =>
        [\A i \in Items :
           run.pc = "undoing" /\ edits' = edits /\ items'[i] # items[i] /\ wrote[i].by = run.batch =>
               items'[i] = wrote[i].over]_vars
  BY UndoRestores
<1> QED BY PresetsHold, <1>1, PTL DEF Spec, RollbackRestores

(* So does an apply job write nothing but what was reviewed.               *)
LEMMA WritesReviewed ==
    ASSUME PresetsInv, [Next]_vars, NEW i \in Items,
           run.pc = "applying", items'[i] # items[i], wrote'[i].by = run.batch
    PROVE  i \in DOMAIN run.reviewed /\ run.reviewed[i] = Value(i)
<1>1. TypedInv /\ Typed /\ Sound /\ StillReviewed /\ run.batch # 0
  BY DEF PresetsInv, TypedInv, Typed, Sound
<1>2. ~(\E j \in Items : EditItem(j) \/ ProvisioningDefault(j))
  <2> SUFFICES ASSUME NEW j \in Items, EditItem(j) \/ ProvisioningDefault(j) PROVE FALSE
    OBVIOUS
  <2>1. PICK new \in Maybe(Item) : Writes(j, new, 0)
    BY <1>1, HandsWrite
  <2>2. /\ wrote'[j] = [by |-> 0, over |-> items[j]]
        /\ i # j => items'[i] = items[i]
    BY <1>1, <2>1, WritesTyped
  <2> QED BY <1>1, <2>2
<1>3. PICK j \in Items : ApplyItem(j)
  <2>1. ~(UndoItem \/ StartMitigation \/ DeleteRule)
    BY DEF UndoItem, StartMitigation, DeleteRule
  <2> QED BY <1>2, <2>1 DEF Next, Works, vars, SubmitApply, SubmitRollback, SubmitMitigation, SubmitRemoval,
         Submits, ExpireIncidents, DeleteShield, StartApply, FinishApply, StartRollback, FinishRollback,
         RecordMitigation, StartRemoval, RecordRemoval, Cancel, Tick, Crash, Provider, Stored
<1>4. j \in run.left /\ run.batch \in Nat
      /\ (UNCHANGED <<items, wrote>> \/ Writes(j, Applied(j), run.batch))
  BY <1>1, <1>3, Steps DEF Applying
<1>5. i = j
  <2>1. Applied(j) \in Maybe(Item)
    BY <1>1, AppliedTyped DEF Maybe
  <2> QED BY <1>1, <1>4, <2>1, WritesTyped
<1> QED BY <1>1, <1>4, <1>5 DEF StillReviewed, Sound

THEOREM PresetsReviewed == ~LateEdits /\ Spec => ReviewedOnly
<1> SUFFICES ASSUME ~LateEdits PROVE Spec => ReviewedOnly
  OBVIOUS
<1>1. PresetsInv /\ [Next]_vars =>
        [\A i \in Items :
           run.pc = "applying" /\ items'[i] # items[i] /\ wrote'[i].by = run.batch =>
               i \in DOMAIN run.reviewed /\ run.reviewed[i] = Value(i)]_vars
  BY WritesReviewed
<1> QED BY PresetsHold, <1>1, PTL DEF Spec, ReviewedOnly
===============================================================================
