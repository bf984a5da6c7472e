--------------------------- MODULE JobManagerProofs ---------------------------
(***************************************************************************)
(* Proofs about JobManager for any number of jobs, any submissions, any    *)
(* history limit and any number of crashes and failed writes.              *)
(***************************************************************************)
EXTENDS JobManager, TLAPS

Ended == Terminal \cup {"absent"}

(* A job not created yet has left no trace.                                *)
Fresh ==
    \A j \in Jobs : IF j <= created THEN input[j] \in Inputs ELSE
        /\ status[j] = "absent" /\ disk[j] = "absent" /\ phase[j] = "idle"
        /\ starts[j] = 0 /\ j \notin owed /\ j \notin suppressed

(* The promise chain of a job and its status agree, and only a live        *)
(* process has promise chains.                                             *)
PhaseMatches ==
    /\ \A j \in Jobs : phase[j] \in {"launched", "handling"} => status[j] \in {"running", "cancelling"}
    /\ \A j \in Jobs : phase[j] = "settled" => status[j] \in Ended
    /\ server \in {"down", "loaded"} =>
         ~scheduled /\ ~rejected /\ \A j \in Jobs : phase[j] = "idle"
    /\ server = "down" => \A j \in Jobs : status[j] = "absent"

(* What is still queued, in memory or on disk, has never been called; what *)
(* is launched has not been called yet.                                    *)
NotStarted ==
    /\ \A j \in Jobs : status[j] = "queued" => starts[j] = 0 /\ phase[j] = "idle"
    /\ \A j \in Jobs : disk[j] = "queued" => starts[j] = 0 /\ phase[j] = "idle"
    /\ \A j \in Jobs : phase[j] = "launched" => starts[j] = 0

(* What a standby suppressed is over in memory and on disk.                *)
SuppressedEnded ==
    \A j \in suppressed :
        status[j] \in Ended /\ disk[j] \in Ended /\ phase[j] = "idle" /\ starts[j] = 0

IInv == TypeOK /\ Fresh /\ PhaseMatches /\ NotStarted /\ SuppressedEnded
          /\ AtMostOnce /\ ConflictExclusion

-----------------------------------------------------------------------------
(* prune() only drops jobs, and never an active one.                       *)
LEMMA PruneFacts ==
    ASSUME NEW st \in [Jobs -> Statuses]
    PROVE  /\ Prune(st) \in [Jobs -> Statuses]
           /\ \A j \in Jobs : Prune(st)[j] \in {st[j], "absent"}
           /\ \A j \in Jobs : st[j] \in Active => Prune(st)[j] = st[j]
BY DEF Prune, Fits, Statuses

(* The statuses finish() can choose are terminal.                          *)
LEMMA VerdictsTerminal ==
    ASSUME NEW c \in BOOLEAN PROVE Verdicts[c] \subseteq Terminal
BY DEF Verdicts, Verdict, Results, Terminal

(* A retried submission is one of the inputs, even one that was retried.   *)
LEMMA UnkeyedInputs ==
    ASSUME NEW i \in Inputs PROVE Unkeyed(i) \in Inputs
BY DEF Inputs, Unkeyed

(* What a restart makes of a stored status.                                *)
LEMMA RecoveredType ==
    ASSUME NEW s \in Statuses
    PROVE  /\ Recovered(s) \in Ended \cup {"queued"}
           /\ Recovered(s) = "queued" <=> s = "queued"
           /\ Recovered(s) = "absent" <=> s = "absent"
           /\ s \in Ended => Recovered(s) = s
BY DEF Recovered, Statuses, Active, Terminal, Ended

-----------------------------------------------------------------------------
LEMMA InitIInv == Init => IInv

<1> SUFFICES ASSUME Init PROVE IInv
    OBVIOUS
<1>1. TypeOK
  <2>1. rejected \in BOOLEAN /\ scheduled \in BOOLEAN
    BY DEF Init
  <2>2. created \in 0 .. MaxJobs
    BY JobManagerAssumption DEF Init
  <2>3. input \in [Jobs -> Inputs \cup {NoInput}]
    BY DEF Init
  <2>4. starts \in [Jobs -> Nat] /\ crashes \in Nat /\ faults \in Nat
    BY DEF Init
  <2> QED
    BY <2>1, <2>2, <2>3, <2>4 DEF Init, TypeOK, Statuses
<1>2. Fresh /\ PhaseMatches /\ NotStarted /\ SuppressedEnded
    BY JobManagerAssumption DEF Init, Fresh, PhaseMatches, NotStarted, SuppressedEnded, Ended, Jobs
<1>3. AtMostOnce /\ ConflictExclusion
    BY DEF Init, AtMostOnce, ConflictExclusion, Running
<1> QED
    BY <1>1, <1>2, <1>3 DEF IInv
-----------------------------------------------------------------------------
(* What persist() leaves behind, in the terms the steps below use.         *)
Persisted(st, ok) ==
    /\ status' \in [Jobs -> Statuses] /\ disk' \in [Jobs -> Statuses] /\ faults' \in Nat
    /\ \A i \in Jobs : status'[i] = st[i] \/ (status'[i] = "absent" /\ st[i] \notin Active)
    /\ \A i \in Jobs : disk'[i] = status'[i] \/ (~ok /\ disk'[i] = disk[i])

LEMMA PersistFacts ==
    ASSUME TypeOK, NEW st \in [Jobs -> Statuses], NEW ok \in BOOLEAN, Persist(st, ok)
    PROVE  Persisted(st, ok)
BY PruneFacts DEF Persist, Persisted, TypeOK

LEMMA BootStep == IInv /\ Boot => IInv'
<1> SUFFICES ASSUME IInv, Boot PROVE IInv'
    OBVIOUS
<1> USE DEF IInv
<1> DEFINE st == [j \in Jobs |-> Recovered(disk[j])]
<1>1. st \in [Jobs -> Statuses]
    BY RecoveredType DEF TypeOK, Statuses, Ended, Active
<1>2. Persisted(st, TRUE)
    BY <1>1, PersistFacts DEF Boot
<1>3. \A j \in Jobs : /\ status'[j] \in Ended \cup {"queued"} /\ disk'[j] = status'[j]
                      /\ status'[j] = "queued" => disk[j] = "queued"
                      /\ disk[j] \in Ended => status'[j] \in Ended
                      /\ disk[j] = "absent" => status'[j] = "absent"
    BY <1>2, RecoveredType DEF Persisted, TypeOK, Ended, Active
<1>4. TypeOK'
    BY <1>2 DEF Boot, Persisted, TypeOK, history
<1>5. Fresh' /\ NotStarted' /\ SuppressedEnded' /\ AtMostOnce'
    BY <1>3 DEF Boot, Fresh, NotStarted, SuppressedEnded, AtMostOnce, PhaseMatches, history, TypeOK, Ended
<1>6. PhaseMatches' /\ ConflictExclusion'
    BY <1>3 DEF Boot, PhaseMatches, ConflictExclusion, Running, Conflict, history
<1> QED
    BY <1>4, <1>5, <1>6

LEMMA StartStep == IInv /\ (StartPrimary \/ StartStandby) => IInv'
<1> SUFFICES ASSUME IInv, StartPrimary \/ StartStandby PROVE IInv'
    OBVIOUS
<1> USE DEF IInv
<1>1. CASE StartPrimary
    BY <1>1 DEF StartPrimary, TypeOK, Fresh, PhaseMatches, NotStarted, SuppressedEnded,
                AtMostOnce, ConflictExclusion, Running, Conflict, history
<1>2. CASE StartStandby
  <2> DEFINE st == [j \in Jobs |-> IF j \in Disallowed THEN "cancelled" ELSE status[j]]
  <2>1. st \in [Jobs -> Statuses]
      BY DEF TypeOK, Statuses, Terminal
  <2>2. Disallowed # {} => Persisted(st, TRUE)
      BY <1>2, <2>1, PersistFacts DEF StartStandby
  <2>3. /\ status' \in [Jobs -> Statuses] /\ disk' \in [Jobs -> Statuses] /\ faults' \in Nat
      BY <1>2, <2>2 DEF StartStandby, Persisted, TypeOK
  <2>4. \A j \in Jobs : /\ status'[j] \in {status[j], "cancelled", "absent"}
                        /\ disk'[j] \in {disk[j], status'[j]}
                        /\ j \in Disallowed => status'[j] \in Ended /\ disk'[j] \in Ended
                        /\ status[j] = "absent" => status'[j] = "absent"
      BY <1>2, <2>2 DEF StartStandby, Persisted, Disallowed, Ended, Terminal
  <2>5. TypeOK'
      BY <1>2, <2>3 DEF StartStandby, TypeOK, Disallowed
  <2>6. Fresh' /\ NotStarted' /\ AtMostOnce'
      BY <1>2, <2>4 DEF StartStandby, Fresh, NotStarted, AtMostOnce, TypeOK, Disallowed
  <2>7. SuppressedEnded'
      BY <1>2, <2>4 DEF StartStandby, SuppressedEnded, NotStarted, PhaseMatches, TypeOK, Disallowed, Ended, Terminal
  <2>8. PhaseMatches' /\ ConflictExclusion'
      BY <1>2, <2>4 DEF StartStandby, PhaseMatches, ConflictExclusion, Running, Conflict, Ended
  <2> QED
      BY <2>5, <2>6, <2>7, <2>8
<1> QED
    BY <1>1, <1>2

(* A process that goes down leaves nothing but the disk and the history;   *)
(* the disk may hold what the launching microtask wrote last.              *)
DiskAfter(j) ==
    \/ disk'[j] \in {disk[j], status[j], "absent"}
    \/ disk'[j] = "running" /\ status[j] = "queued"

LEMMA DownStep ==
    ASSUME IInv, Down, UNCHANGED <<created, input, starts, suppressed, owed>>,
           crashes' \in Nat, faults' \in Nat, disk' \in [Jobs -> Statuses],
           \A j \in Jobs : DiskAfter(j)
    PROVE  IInv'
<1> USE DEF IInv, Down, DiskAfter
<1>1. TypeOK'
    BY DEF TypeOK, Statuses
<1>2. Fresh' /\ NotStarted' /\ AtMostOnce'
    BY DEF Fresh, NotStarted, AtMostOnce, TypeOK
<1>3. SuppressedEnded'
    BY DEF SuppressedEnded, Ended, TypeOK, Terminal
<1>4. PhaseMatches' /\ ConflictExclusion'
    BY DEF PhaseMatches, ConflictExclusion, Running, Conflict
<1> QED
    BY <1>1, <1>2, <1>3, <1>4

LEMMA CrashStep == IInv /\ (Crash \/ Exit) => IInv'
<1> SUFFICES ASSUME IInv, Crash \/ Exit PROVE IInv'
    OBVIOUS
<1>1. Down /\ disk' = disk /\ UNCHANGED <<created, input, starts, suppressed, owed>>
    BY DEF Crash, Exit, history
<1>2. crashes' \in Nat /\ faults' \in Nat
    BY DEF IInv, TypeOK, Crash, Exit
<1>3. disk' \in [Jobs -> Statuses] /\ \A j \in Jobs : DiskAfter(j)
    BY <1>1 DEF IInv, TypeOK, DiskAfter
<1> QED
    BY <1>1, <1>2, <1>3, DownStep

(* A submission that gets a job of its own.                                *)
LEMMA EnqueueStep ==
    ASSUME IInv, Serving, NEW in \in Inputs, Enqueue(in) PROVE IInv'
<1> USE DEF IInv
<1> DEFINE n == created + 1
           st == [status EXCEPT ![n] = "queued"]
<1>1. n \in Jobs /\ created' = n /\ created' \in 0 .. MaxJobs
    BY JobManagerAssumption DEF Enqueue, TypeOK, Jobs
<1>2. PICK ok \in BOOLEAN : /\ input' = [input EXCEPT ![n] = in]
                            /\ Persist(st, ok)
                            /\ scheduled' = (scheduled \/ ok)
                            /\ owed' = IF ok THEN owed \cup {n} ELSE owed
    BY Zenon DEF Enqueue, Writes
<1>3. st \in [Jobs -> Statuses]
    BY DEF TypeOK, Statuses, Active
<1>4. Persisted(st, ok)
    BY <1>2, <1>3, PersistFacts
<1>5. UNCHANGED <<server, rejected, phase, waiting, crashes, starts, suppressed>>
    BY DEF Enqueue, history
<1>6. scheduled' \in BOOLEAN
    BY <1>2
<1>7. TypeOK'
  <2>1. input' \in [Jobs -> Inputs \cup {NoInput}]
      BY <1>1, <1>2 DEF TypeOK
  <2> QED
      BY <1>1, <1>2, <1>4, <1>5, <1>6, <2>1 DEF TypeOK, Persisted
<1>8. /\ status[n] = "absent" /\ disk[n] = "absent" /\ phase[n] = "idle"
      /\ starts[n] = 0 /\ n \notin suppressed
    BY <1>1 DEF Fresh, TypeOK
<1>9. \A j \in Jobs : j # n => /\ status'[j] = status[j] \/ (status'[j] = "absent" /\ status[j] \notin Active)
                               /\ disk'[j] \in {disk[j], status'[j]}
    BY <1>4, <1>1 DEF Persisted, TypeOK
<1>10. status'[n] = "queued"
    BY <1>4, <1>1 DEF Persisted, TypeOK, Active
<1>11. Fresh'
    BY <1>1, <1>2, <1>5, <1>9 DEF Fresh, TypeOK, Jobs
<1>12. NotStarted' /\ AtMostOnce'
    BY <1>1, <1>5, <1>8, <1>9 DEF NotStarted, AtMostOnce
<1>13. SuppressedEnded'
    BY <1>1, <1>5, <1>8, <1>9 DEF SuppressedEnded, TypeOK, Ended
<1>14. PhaseMatches'
  <2>1. server \notin {"down", "loaded"}
      BY DEF Serving
  <2> QED
      BY <2>1, <1>1, <1>5, <1>8, <1>9 DEF PhaseMatches, Ended, Active
<1>15. ConflictExclusion'
    BY <1>1, <1>2, <1>5, <1>8 DEF ConflictExclusion, Running, Conflict, TypeOK
<1> QED
    BY <1>7, <1>11, <1>12, <1>13, <1>14, <1>15

(* A step that gives one listed job another status and writes the list.    *)
LEMMA RestatusStep ==
    ASSUME IInv, NEW j \in Jobs, NEW v \in Statuses, NEW ok \in BOOLEAN,
           Persist([status EXCEPT ![j] = v], ok),
           UNCHANGED <<server, rejected, created, input, phase, scheduled, crashes,
                       starts, suppressed>>,
           waiting' \subseteq Jobs, owed' \subseteq owed,
           status[j] # "absent", v = "queued" => status[j] = "queued",
           phase[j] \in {"launched", "handling"} => v \in {"running", "cancelling"},
           phase[j] = "settled" \/ j \in suppressed => v \in Ended
    PROVE  IInv'
<1> USE DEF IInv
<1> DEFINE st == [status EXCEPT ![j] = v]
<1>1. st \in [Jobs -> Statuses]
    BY DEF TypeOK
<1>2. Persisted(st, ok)
    BY <1>1, PersistFacts
<1>3. TypeOK'
    BY <1>2 DEF TypeOK, Persisted
<1>4. \A i \in Jobs : /\ status'[i] = st[i] \/ (status'[i] = "absent" /\ st[i] \notin Active)
                      /\ disk'[i] \in {disk[i], status'[i]}
                      /\ i # j => st[i] = status[i]
                      /\ st[j] = v
    BY <1>2 DEF Persisted, TypeOK
<1>5. Fresh' /\ AtMostOnce' /\ ConflictExclusion'
    BY <1>4 DEF Fresh, AtMostOnce, ConflictExclusion, Running, Conflict
<1>6. NotStarted' /\ SuppressedEnded'
    BY <1>4 DEF NotStarted, SuppressedEnded, TypeOK, Ended
<1>7. PhaseMatches'
    BY <1>4 DEF PhaseMatches, Ended, Active
<1> QED
    BY <1>3, <1>5, <1>6, <1>7

LEMMA CancelStep ==
    ASSUME IInv, NEW j \in Jobs, CancelQueued(j) \/ CancelRunning(j) PROVE IInv'
<1>1. CASE CancelQueued(j)
  <2>1. PICK ok \in BOOLEAN : /\ Persist([status EXCEPT ![j] = "cancelled"], ok)
                              /\ waiting' = IF ok THEN Emitted(j, status') ELSE waiting
      BY <1>1, Zenon DEF CancelQueued, Writes
  <2>2. waiting' \subseteq Jobs /\ owed' \subseteq owed
      BY <1>1, <2>1 DEF CancelQueued, Emitted, IInv, TypeOK
  <2>3. UNCHANGED <<server, rejected, created, input, phase, scheduled, crashes, starts, suppressed>>
      BY <1>1 DEF CancelQueued, history
  <2>4. status[j] = "queued" /\ phase[j] = "idle"
      BY <1>1 DEF CancelQueued, IInv, NotStarted
  <2>5. "cancelled" \in Statuses /\ "cancelled" \in Ended
      BY DEF Statuses, Ended, Terminal
  <2> QED
      BY <2>1, <2>2, <2>3, <2>4, <2>5, RestatusStep
<1>2. CASE CancelRunning(j)
  <2>1. PICK ok \in BOOLEAN : Persist([status EXCEPT ![j] = "cancelling"], ok)
      BY <1>2 DEF CancelRunning, Writes
  <2>2. waiting' \subseteq Jobs /\ owed' \subseteq owed
      BY <1>2 DEF CancelRunning, IInv, TypeOK
  <2>3. UNCHANGED <<server, rejected, created, input, phase, scheduled, crashes, starts, suppressed>>
      BY <1>2 DEF CancelRunning, history
  <2>4. status[j] \in {"running", "cancelling"} /\ phase[j] # "settled" /\ j \notin suppressed
      BY <1>2 DEF CancelRunning, IInv, PhaseMatches, SuppressedEnded, Ended, Terminal
  <2>5. "cancelling" \in Statuses
      BY DEF Statuses, Active
  <2> QED
      BY <2>1, <2>2, <2>3, <2>4, <2>5, RestatusStep
<1> QED
    BY <1>1, <1>2

LEMMA RewriteStep ==
    ASSUME IInv, NEW j \in Jobs, Rewrite(j) PROVE IInv'
<1>1. [status EXCEPT ![j] = status[j]] = status
    BY DEF IInv, TypeOK
<1>2. PICK ok \in BOOLEAN : Persist(status, ok)
    BY DEF Rewrite, Writes
<1>3. waiting' \subseteq Jobs /\ owed' \subseteq owed
    BY DEF Rewrite, IInv, TypeOK
<1>4. UNCHANGED <<server, rejected, created, input, phase, scheduled, crashes, starts, suppressed>>
    BY DEF Rewrite, history
<1>5. /\ status[j] \in Statuses /\ status[j] # "absent"
      /\ phase[j] \in {"launched", "handling"} => status[j] \in {"running", "cancelling"}
      /\ phase[j] = "settled" \/ j \in suppressed => status[j] \in Ended
    BY DEF Rewrite, IInv, TypeOK, PhaseMatches, SuppressedEnded, Terminal
<1> QED
    BY <1>1, <1>2, <1>3, <1>4, <1>5, RestatusStep

(* Steps that write nothing: a duplicate submission, a waiting scheduler,  *)
(* the call of a handler and the end of a promise chain.                   *)
LEMMA UnwrittenStep ==
    ASSUME IInv, NEW j \in Jobs, NEW r,
           CreateDuplicate(r) \/ Wait(j) \/ CallHandler(j) \/ Finally(j)
    PROVE  IInv'
<1> USE DEF IInv, history, memory
<1>1. CASE CreateDuplicate(r)
  <2>1. \A i \in owed' : i \in owed \/ (i \in Jobs /\ status[i] \in Active)
      BY <1>1 DEF CreateDuplicate, Existing
  <2>2. TypeOK' /\ Fresh'
      BY <1>1, <2>1 DEF CreateDuplicate, TypeOK, Fresh, Active
  <2> QED
      BY <1>1, <2>2 DEF CreateDuplicate, PhaseMatches, NotStarted, SuppressedEnded, AtMostOnce,
                        ConflictExclusion, Running, Conflict
<1>2. CASE Wait(j)
    BY <1>2 DEF Wait, TypeOK, Fresh, PhaseMatches, NotStarted, SuppressedEnded, AtMostOnce,
                ConflictExclusion, Running, Conflict
<1>3. CASE CallHandler(j)
  <2>1. TypeOK' /\ Fresh'
      BY <1>3 DEF CallHandler, TypeOK, Fresh
  <2>2. PhaseMatches' /\ ConflictExclusion'
      BY <1>3 DEF CallHandler, TypeOK, PhaseMatches, ConflictExclusion, Running, Conflict
  <2>3. NotStarted' /\ SuppressedEnded' /\ AtMostOnce'
      BY <1>3 DEF CallHandler, TypeOK, NotStarted, SuppressedEnded, AtMostOnce
  <2> QED
      BY <2>1, <2>2, <2>3
<1>4. CASE Finally(j)
  <2>1. waiting' \subseteq Jobs
      BY <1>4 DEF Finally, Emitted, TypeOK
  <2>2. TypeOK' /\ Fresh'
      BY <1>4, <2>1 DEF Finally, TypeOK, Fresh
  <2>3. PhaseMatches' /\ ConflictExclusion'
      BY <1>4 DEF Finally, TypeOK, PhaseMatches, ConflictExclusion, Running, Conflict
  <2>4. NotStarted' /\ SuppressedEnded' /\ AtMostOnce'
      BY <1>4 DEF Finally, TypeOK, NotStarted, SuppressedEnded, AtMostOnce
  <2> QED
      BY <2>2, <2>3, <2>4
<1> QED
    BY <1>1, <1>2, <1>3, <1>4

(* The end of a handler, with a verdict that is terminal.  The disk gets   *)
(* the new list, or keeps what it had.                                     *)
LEMMA EndStep ==
    ASSUME IInv, NEW j \in Jobs, NEW v \in Terminal, phase[j] = "handling",
           status' = Prune(Settled(j, v)), disk' = Prune(Settled(j, v)) \/ disk' = disk,
           phase' = [phase EXCEPT ![j] = "settled"],
           rejected' \in BOOLEAN, faults' \in Nat, owed' \subseteq owed,
           UNCHANGED <<server, created, input, scheduled, waiting, crashes, starts, suppressed>>
    PROVE  IInv'
<1> USE DEF IInv
<1>1. Settled(j, v) \in [Jobs -> Statuses]
    BY DEF TypeOK, Settled, Statuses
<1>2. TypeOK'
    BY <1>1, PruneFacts DEF TypeOK
<1>3. \A i \in Jobs : /\ disk'[i] \in {disk[i], status'[i]}
                      /\ i # j => status'[i] = status[i] \/ (status'[i] = "absent" /\ status[i] \notin Active)
                      /\ status'[j] \in Ended
  <2>1. \A i \in Jobs : Settled(j, v)[i] = IF i = j THEN v ELSE status[i]
      BY DEF TypeOK, Settled
  <2>2. \A i \in Jobs : \/ status'[i] = Settled(j, v)[i]
                        \/ status'[i] = "absent" /\ Settled(j, v)[i] \notin Active
      BY <1>1, PruneFacts
  <2>3. \A i \in Jobs : disk'[i] \in {disk[i], status'[i]}
      OBVIOUS
  <2> QED
      BY <2>1, <2>2, <2>3 DEF Ended
<1>4. Fresh' /\ AtMostOnce'
    BY <1>3 DEF Fresh, AtMostOnce, TypeOK
<1>5. NotStarted' /\ SuppressedEnded'
    BY <1>3 DEF NotStarted, SuppressedEnded, TypeOK, Ended, Terminal
<1>6. PhaseMatches'
    BY <1>3 DEF PhaseMatches, TypeOK, Ended, Active
<1>7. ConflictExclusion'
    BY DEF ConflictExclusion, Running, Conflict, TypeOK
<1> QED
    BY <1>2, <1>4, <1>5, <1>6, <1>7

LEMMA SettleStep ==
    ASSUME IInv, NEW j \in Jobs, NEW v \in Terminal, NEW ok \in BOOLEAN,
           phase[j] = "handling", Settle(j, v, ok)
    PROVE  IInv'
<1>1. /\ status' = Prune(Settled(j, v)) /\ (disk' = Prune(Settled(j, v)) \/ disk' = disk)
      /\ phase' = [phase EXCEPT ![j] = "settled"]
    BY DEF Settle, Persist
<1>2. faults' \in Nat /\ owed' \subseteq owed
    BY DEF Settle, Persist, IInv, TypeOK
<1>3. rejected' \in BOOLEAN
    BY DEF Settle
<1>4. UNCHANGED <<server, created, input, scheduled, waiting, crashes, starts, suppressed>>
    BY DEF Settle, history
<1> QED
    BY <1>1, <1>2, <1>3, <1>4, EndStep

LEMMA HandlerStep ==
    ASSUME IInv, NEW j \in Jobs, HandlerReturns(j) \/ HandlerThrows(j) \/ FinishUnsaved(j)
    PROVE  IInv'
<1>1. CASE HandlerReturns(j)
  <2>1. PICK v \in Verdicts[status[j] = "cancelling"] : Settle(j, v, TRUE)
      BY <1>1 DEF HandlerReturns
  <2>2. v \in Terminal
      BY VerdictsTerminal
  <2> QED
      BY <1>1, <2>1, <2>2, SettleStep DEF HandlerReturns
<1>2. CASE HandlerThrows(j)
  <2>1. PICK v \in {"failed", "cancelled"}, ok \in BOOLEAN : Settle(j, v, ok)
      BY <1>2 DEF HandlerThrows, Writes
  <2> QED
      BY <1>2, <2>1, SettleStep DEF HandlerThrows, Terminal
<1>3. CASE FinishUnsaved(j)
  <2>1. PICK again \in BOOLEAN :
          /\ status' = Prune(Settled(j, "failed"))
          /\ disk' = IF again THEN disk ELSE status'
          /\ faults' = faults + (IF again THEN 2 ELSE 1)
          /\ rejected' = (rejected \/ again)
      BY <1>3, Zenon DEF FinishUnsaved
  <2>2. rejected' \in BOOLEAN
      BY <2>1
  <2>3. /\ faults' \in Nat /\ owed' \subseteq owed /\ phase[j] = "handling"
        /\ phase' = [phase EXCEPT ![j] = "settled"]
      BY <1>3, <2>1 DEF FinishUnsaved, IInv, TypeOK
  <2>4. UNCHANGED <<server, created, input, scheduled, waiting, crashes, starts, suppressed>>
      BY <1>3 DEF FinishUnsaved, history
  <2>5. disk' = Prune(Settled(j, "failed")) \/ disk' = disk
      BY <2>1
  <2> QED
      BY <2>1, <2>2, <2>3, <2>4, <2>5, EndStep DEF Terminal
<1> QED
    BY <1>1, <1>2, <1>3

(* The launching microtask: no job of S conflicts with a running one or    *)
(* with an earlier one of S.                                               *)
LEMMA LaunchableFacts ==
    ASSUME IInv, NEW S \in SUBSET Queued, Launchable(S)
    PROVE  /\ Launched(S) \in [Jobs -> Statuses]
           /\ \A j \in S : j \in Jobs /\ status[j] = "queued" /\ phase[j] = "idle"
           /\ \A j \in S, k \in Running : ~Conflict(j, k)
           /\ \A j, k \in S : j # k => ~Conflict(j, k)
<1>1. Launched(S) \in [Jobs -> Statuses]
    BY DEF Launched, IInv, TypeOK, Statuses, Active
<1>2. \A j \in S : j \in Jobs /\ status[j] = "queued" /\ phase[j] = "idle"
    BY DEF Queued, IInv, NotStarted
<1>3. \A j \in S, k \in Running : ~Conflict(j, k)
    BY DEF Launchable
<1>4. \A j, k \in S : k < j => ~Conflict(j, k)
    BY DEF Launchable
<1>5. \A j, k \in S : j # k => j < k \/ k < j
    BY <1>2, JobManagerAssumption DEF Jobs
<1> QED
    BY <1>1, <1>2, <1>3, <1>4, <1>5 DEF Conflict

LEMMA ScheduleStep == IInv /\ Schedule => IInv'
<1> SUFFICES ASSUME IInv, Schedule PROVE IInv'
    OBVIOUS
<1> USE DEF IInv
<1>1. PICK S \in SUBSET Queued :
        /\ Launchable(S)
        /\ phase' = [j \in Jobs |-> IF j \in S THEN "launched" ELSE phase[j]]
        /\ IF S = {} THEN UNCHANGED <<status, disk, faults>> ELSE Persist(Launched(S), TRUE)
    BY DEF Schedule
<1>2. /\ scheduled' = FALSE
      /\ UNCHANGED <<server, rejected, created, input, waiting, crashes, owed, starts, suppressed>>
    BY DEF Schedule, history
<1>3. /\ Launched(S) \in [Jobs -> Statuses]
      /\ \A j \in S : j \in Jobs /\ status[j] = "queued" /\ phase[j] = "idle"
      /\ \A j \in S, k \in Running : ~Conflict(j, k)
      /\ \A j, k \in S : j # k => ~Conflict(j, k)
    BY <1>1, LaunchableFacts
<1>4. S # {} => Persisted(Launched(S), TRUE)
    BY <1>1, <1>3, PersistFacts
<1>5. /\ status' \in [Jobs -> Statuses] /\ disk' \in [Jobs -> Statuses] /\ faults' \in Nat
      /\ \A j \in Jobs : /\ j \in S => status'[j] = "running" /\ disk'[j] = "running"
                         /\ j \notin S => /\ \/ status'[j] = status[j]
                                             \/ status'[j] = "absent" /\ status[j] \notin Active
                                          /\ disk'[j] \in {disk[j], status'[j]}
  <2>1. CASE S = {}
      BY <1>1, <2>1 DEF TypeOK
  <2>2. CASE S # {}
    <3>1. \A j \in Jobs : Launched(S)[j] = IF j \in S THEN "running" ELSE status[j]
        BY DEF Launched
    <3> QED
        BY <1>4, <2>2, <3>1 DEF Persisted, Active
  <2> QED
      BY <2>1, <2>2
<1>6. TypeOK'
  <2>1. phase' \in [Jobs -> {"idle", "launched", "handling", "settled"}]
      BY <1>1 DEF TypeOK
  <2>2. scheduled' \in BOOLEAN
      BY <1>2
  <2> QED
      BY <1>2, <1>5, <2>1, <2>2 DEF TypeOK
<1>7. Fresh' /\ AtMostOnce'
    BY <1>1, <1>2, <1>3, <1>5 DEF Fresh, AtMostOnce
<1>8. NotStarted' /\ SuppressedEnded'
    BY <1>1, <1>2, <1>3, <1>5 DEF NotStarted, SuppressedEnded, TypeOK, Ended, Terminal
<1>9. PhaseMatches'
  <2>1. S # {} => server \notin {"down", "loaded"}
      BY DEF Schedule, PhaseMatches
  <2> QED
      BY <1>1, <1>2, <1>3, <1>5, <2>1 DEF PhaseMatches, Ended, Active
<1>10. ConflictExclusion'
  <2>1. \A j \in Running' : j \in Running \/ j \in S
      BY <1>1 DEF Running
  <2>2. \A j, k \in Jobs : Conflict(j, k)' <=> Conflict(j, k)
      BY <1>2 DEF Conflict
  <2>3. \A j, k \in Jobs : Conflict(j, k) <=> Conflict(k, j)
      BY DEF Conflict
  <2>4. Running \subseteq Jobs /\ Running' \subseteq Jobs
      BY DEF Running
  <2> QED
      BY <1>3, <2>1, <2>2, <2>3, <2>4 DEF ConflictExclusion
<1> QED
    BY <1>6, <1>7, <1>8, <1>9, <1>10

LEMMA ScheduleFailsStep == IInv /\ ScheduleFails => IInv'
<1> SUFFICES ASSUME IInv, ScheduleFails PROVE IInv'
    OBVIOUS
<1>1. PICK S \in SUBSET Queued : \E j \in S :
        disk' = IF {i \in S : i < j} = {} THEN disk ELSE Prune(Launched({i \in S : i < j}))
    BY DEF ScheduleFails
<1>9. PICK j \in S :
        disk' = IF {i \in S : i < j} = {} THEN disk ELSE Prune(Launched({i \in S : i < j}))
    BY <1>1
<1> DEFINE before == {i \in S : i < j}
<1>2. Launched(before) \in [Jobs -> Statuses]
    BY DEF Launched, IInv, TypeOK, Statuses, Active
<1>3. \A i \in Jobs : Launched(before)[i] = IF i \in before THEN "running" ELSE status[i]
    BY DEF Launched
<1>4. /\ disk' \in [Jobs -> Statuses]
      /\ \A i \in Jobs : disk'[i] = disk[i] \/ disk'[i] \in {Launched(before)[i], "absent"}
    BY <1>9, <1>2, PruneFacts DEF IInv, TypeOK
<1>5. \A i \in Jobs : DiskAfter(i)
    BY <1>3, <1>4 DEF DiskAfter, Queued
<1>6. Down /\ UNCHANGED <<created, input, starts, suppressed, owed>>
    BY DEF ScheduleFails, history
<1>7. crashes' \in Nat /\ faults' \in Nat
    BY DEF ScheduleFails, IInv, TypeOK
<1> QED
    BY <1>4, <1>5, <1>6, <1>7, DownStep

-----------------------------------------------------------------------------
LEMMA NextIInv == IInv /\ [Next]_vars => IInv'
<1> SUFFICES ASSUME IInv, [Next]_vars PROVE IInv'
    OBVIOUS
<1>1. CASE Boot
    BY <1>1, BootStep
<1>2. CASE StartPrimary \/ StartStandby
    BY <1>2, StartStep
<1>3. CASE Crash \/ Exit
    BY <1>3, CrashStep
<1>4. ASSUME NEW r \in Requests, Create(r) PROVE IInv'
    BY <1>4, EnqueueStep DEF Create, Inputs
<1>5. ASSUME NEW j \in Jobs, Retry(j) PROVE IInv'
  <2>1. input[j] \in Inputs
      BY <1>5 DEF Retry, IInv, TypeOK, Fresh, Jobs, Terminal
  <2>2. Unkeyed(input[j]) \in Inputs
      BY <2>1, UnkeyedInputs
  <2> QED
      BY <1>5, <2>2, EnqueueStep DEF Retry
<1>6. ASSUME NEW j \in Jobs, CancelQueued(j) \/ CancelRunning(j) PROVE IInv'
    BY <1>6, CancelStep
<1>7. ASSUME NEW j \in Jobs, Rewrite(j) PROVE IInv'
    BY <1>7, RewriteStep
<1>8. ASSUME NEW r \in Requests, CreateDuplicate(r) PROVE IInv'
  <2>1. \E j \in Jobs : TRUE
      BY <1>8 DEF CreateDuplicate, Existing
  <2> QED
      BY <1>8, <2>1, UnwrittenStep
<1>9. ASSUME NEW j \in Jobs, Wait(j) \/ CallHandler(j) \/ Finally(j) PROVE IInv'
    BY <1>9, UnwrittenStep
<1>10. ASSUME NEW j \in Jobs, HandlerReturns(j) \/ HandlerThrows(j) \/ FinishUnsaved(j) PROVE IInv'
    BY <1>10, HandlerStep
<1>11. CASE Schedule
    BY <1>11, ScheduleStep
<1>12. CASE ScheduleFails
    BY <1>12, ScheduleFailsStep
<1>13. CASE UNCHANGED vars
    BY <1>13 DEF IInv, vars, TypeOK, Fresh, PhaseMatches, NotStarted, SuppressedEnded, AtMostOnce,
                 ConflictExclusion, Running, Conflict
<1> QED
    BY <1>1, <1>2, <1>3, <1>4, <1>5, <1>6, <1>7, <1>8, <1>9, <1>10, <1>11, <1>12, <1>13 DEF Next

LEMMA AlwaysIInv == Spec => []IInv
BY InitIInv, NextIInv, PTL DEF Spec

-----------------------------------------------------------------------------
(* Until a write fails, jobs.json holds the list of a live process, and    *)
(* what callers were told about is in it as active work, whoever is alive. *)
Written ==
    faults = 0 => /\ server # "down" => disk = status
                  /\ \A j \in owed : disk[j] \in Active

(* A write that nothing failed before or with: the disk gets the list.     *)
LEMMA CleanWrite ==
    ASSUME TypeOK, NEW st \in [Jobs -> Statuses], NEW ok \in BOOLEAN,
           Persist(st, ok), faults' = 0
    PROVE  /\ faults = 0 /\ ok /\ disk' = status'
           /\ \A j \in Jobs : st[j] \in Active => disk'[j] \in Active
<1>1. faults = 0 /\ ok
    BY DEF Persist, TypeOK
<1> QED
    BY <1>1, PruneFacts DEF Persist

(* Steps of a process that is going down, and of one that comes up.        *)
LEMMA WrittenBoot ==
    ASSUME IInv, Written, Boot \/ StartPrimary \/ StartStandby \/ Crash \/ Exit \/ ScheduleFails
    PROVE  Written'
<1> SUFFICES ASSUME faults' = 0
             PROVE  /\ server' # "down" => disk' = status'
                    /\ \A j \in owed' : disk'[j] \in Active
    BY DEF Written
<1> USE DEF IInv
<1>1. CASE Boot
  <2> DEFINE st == [j \in Jobs |-> Recovered(disk[j])]
  <2>1. st \in [Jobs -> Statuses]
      BY RecoveredType DEF TypeOK, Statuses, Ended, Active
  <2>2. Persist(st, TRUE) /\ owed' = {j \in owed : st[j] \notin Terminal}
      BY <1>1 DEF Boot
  <2>3. faults = 0 /\ disk' = status' /\ \A j \in Jobs : st[j] \in Active => disk'[j] \in Active
      BY <2>1, <2>2, CleanWrite
  <2>4. \A j \in owed : st[j] \notin Terminal => st[j] \in Active
      BY <2>3 DEF Written, TypeOK, Recovered, Active, Terminal
  <2> QED
      BY <2>2, <2>3, <2>4 DEF TypeOK
<1>2. CASE StartPrimary
    BY <1>2 DEF StartPrimary, Written
<1>3. CASE StartStandby
  <2> DEFINE st == [j \in Jobs |-> IF j \in Disallowed THEN "cancelled" ELSE status[j]]
  <2>1. st \in [Jobs -> Statuses]
      BY DEF TypeOK, Statuses, Terminal
  <2>2. owed' = owed \ Disallowed
      BY <1>3 DEF StartStandby
  <2>3. CASE Disallowed = {}
      BY <1>3, <2>2, <2>3 DEF StartStandby, Written
  <2>4. CASE Disallowed # {}
    <3>1. Persist(st, TRUE)
        BY <1>3, <2>4 DEF StartStandby
    <3>2. faults = 0 /\ disk' = status' /\ \A j \in Jobs : st[j] \in Active => disk'[j] \in Active
        BY <2>1, <3>1, CleanWrite
    <3>3. \A j \in owed' : st[j] \in Active
        BY <1>3, <2>2, <3>2 DEF StartStandby, Written, TypeOK
    <3> QED
        BY <2>2, <3>2, <3>3 DEF TypeOK
  <2> QED
      BY <2>3, <2>4
<1>4. CASE Crash \/ Exit
    BY <1>4 DEF Crash, Exit, Down, Written
<1>5. CASE ScheduleFails
    BY <1>5 DEF ScheduleFails, TypeOK
<1> QED
    BY <1>1, <1>2, <1>3, <1>4, <1>5

(* A job of one's own, acknowledged once it is written.                    *)
LEMMA WrittenEnqueue ==
    ASSUME IInv, Written, Serving, NEW in \in Inputs, Enqueue(in) PROVE Written'
<1> SUFFICES ASSUME faults' = 0
             PROVE  /\ server' # "down" => disk' = status'
                    /\ \A j \in owed' : disk'[j] \in Active
    BY DEF Written
<1> USE DEF IInv
<1> DEFINE n == created + 1
           st == [status EXCEPT ![n] = "queued"]
<1>1. n \in Jobs /\ server # "down"
    BY JobManagerAssumption DEF Enqueue, TypeOK, Jobs, Serving
<1>2. PICK ok \in BOOLEAN : Persist(st, ok) /\ owed' = IF ok THEN owed \cup {n} ELSE owed
    BY Zenon DEF Enqueue, Writes
<1>3. st \in [Jobs -> Statuses]
    BY DEF TypeOK, Statuses, Active
<1>4. faults = 0 /\ disk' = status' /\ \A j \in Jobs : st[j] \in Active => disk'[j] \in Active
    BY <1>2, <1>3, CleanWrite
<1>5. \A j \in owed' : j \in Jobs /\ st[j] \in Active
    BY <1>1, <1>2, <1>4 DEF Written, TypeOK, Active
<1> QED
    BY <1>4, <1>5

(* A step that gives one listed job another status and writes the list.    *)
LEMMA WrittenRestatus ==
    ASSUME IInv, Written, server # "down", NEW j \in Jobs, NEW v \in Statuses, NEW ok \in BOOLEAN,
           Persist([status EXCEPT ![j] = v], ok), owed' \subseteq owed,
           v \in Active \/ v = status[j] \/ j \notin owed'
    PROVE  Written'
<1> SUFFICES ASSUME faults' = 0 PROVE disk' = status' /\ \A i \in owed' : disk'[i] \in Active
    BY DEF Written
<1> USE DEF IInv
<1> DEFINE st == [status EXCEPT ![j] = v]
<1>1. st \in [Jobs -> Statuses]
    BY DEF TypeOK
<1>2. faults = 0 /\ disk' = status' /\ \A i \in Jobs : st[i] \in Active => disk'[i] \in Active
    BY <1>1, CleanWrite
<1>3. \A i \in owed' : i \in Jobs /\ st[i] \in Active
    BY <1>2 DEF Written, TypeOK
<1> QED
    BY <1>2, <1>3

(* The microtask of a walk over the queue, and the steps that write        *)
(* nothing: a duplicate submission is answered with a job that is active   *)
(* in memory, and therefore on disk.                                       *)
LEMMA WrittenWalk ==
    ASSUME IInv, Written, Schedule PROVE Written'
<1> SUFFICES ASSUME faults' = 0
             PROVE  /\ server' # "down" => disk' = status'
                    /\ \A i \in owed' : disk'[i] \in Active
    BY DEF Written
<1>1. PICK S \in SUBSET Queued :
        /\ Launchable(S)
        /\ IF S = {} THEN UNCHANGED <<status, disk, faults>> ELSE Persist(Launched(S), TRUE)
    BY DEF Schedule
<1>2. /\ Launched(S) \in [Jobs -> Statuses] /\ server # "down"
      /\ \A j \in Jobs : Launched(S)[j] = IF j \in S THEN "running" ELSE status[j]
    BY <1>1, LaunchableFacts DEF Launched, Schedule, IInv, PhaseMatches
<1>3. owed' = owed /\ server' = server
    BY DEF Schedule
<1>4. CASE S = {}
    BY <1>1, <1>3, <1>4 DEF Written
<1>5. CASE S # {}
  <2>1. /\ faults = 0 /\ disk' = status'
        /\ \A j \in Jobs : Launched(S)[j] \in Active => disk'[j] \in Active
      BY <1>1, <1>2, <1>5, CleanWrite DEF IInv
  <2>2. \A j \in owed : j \in Jobs /\ Launched(S)[j] \in Active
      BY <1>2, <2>1 DEF Written, IInv, TypeOK, Active
  <2> QED
      BY <1>3, <2>1, <2>2
<1> QED
    BY <1>4, <1>5

LEMMA WrittenUnwritten ==
    ASSUME IInv, Written, NEW j \in Jobs, NEW r,
           CreateDuplicate(r) \/ Wait(j) \/ CallHandler(j) \/ Finally(j)
    PROVE  Written'
<1>1. CASE CreateDuplicate(r)
    BY <1>1 DEF CreateDuplicate, Existing, Serving, Written, memory
<1>2. CASE Wait(j) \/ CallHandler(j) \/ Finally(j)
    BY <1>2 DEF Wait, CallHandler, Finally, Written
<1> QED
    BY <1>1, <1>2

(* The steps that give one job another status.                             *)
LEMMA WrittenChange ==
    ASSUME IInv, Written, NEW j \in Jobs,
           \/ CancelQueued(j) \/ CancelRunning(j) \/ Rewrite(j)
           \/ HandlerReturns(j) \/ HandlerThrows(j) \/ FinishUnsaved(j)
    PROVE  Written'
<1>1. CASE CancelQueued(j)
  <2>1. PICK ok \in BOOLEAN : Persist([status EXCEPT ![j] = "cancelled"], ok)
      BY <1>1, Zenon DEF CancelQueued, Writes
  <2>2. owed' \subseteq owed /\ j \notin owed' /\ server # "down" /\ "cancelled" \in Statuses
      BY <1>1 DEF CancelQueued, Serving, Statuses, Terminal
  <2> QED
      BY <2>1, <2>2, WrittenRestatus
<1>2. CASE CancelRunning(j)
  <2>1. PICK ok \in BOOLEAN : Persist([status EXCEPT ![j] = "cancelling"], ok)
      BY <1>2 DEF CancelRunning, Writes
  <2>2. /\ owed' \subseteq owed /\ server # "down"
        /\ "cancelling" \in Statuses /\ "cancelling" \in Active
      BY <1>2 DEF CancelRunning, Serving, Statuses, Active
  <2> QED
      BY <2>1, <2>2, WrittenRestatus
<1>3. CASE Rewrite(j)
  <2>1. PICK ok \in BOOLEAN : Persist(status, ok)
      BY <1>3 DEF Rewrite, Writes
  <2>2. [status EXCEPT ![j] = status[j]] = status /\ status[j] \in Statuses
      BY DEF IInv, TypeOK
  <2>3. owed' \subseteq owed /\ server # "down"
      BY <1>3 DEF Rewrite, IInv, PhaseMatches, Terminal
  <2> QED
      BY <2>1, <2>2, <2>3, WrittenRestatus
<1>4. ASSUME NEW v \in Terminal, NEW ok \in BOOLEAN, phase[j] = "handling", Settle(j, v, ok)
      PROVE  Written'
  <2>1. Persist([status EXCEPT ![j] = v], ok) /\ owed' \subseteq owed /\ j \notin owed'
      BY <1>4 DEF Settle, Settled
  <2>2. server # "down" /\ v \in Statuses
      BY <1>4 DEF IInv, PhaseMatches, Statuses
  <2> QED
      BY <2>1, <2>2, WrittenRestatus
<1>5. CASE HandlerReturns(j)
  <2>1. PICK v \in Verdicts[status[j] = "cancelling"] : Settle(j, v, TRUE)
      BY <1>5 DEF HandlerReturns
  <2>2. v \in Terminal
      BY VerdictsTerminal
  <2> QED
      BY <1>4, <1>5, <2>1, <2>2 DEF HandlerReturns
<1>6. CASE HandlerThrows(j)
  <2>1. PICK v \in {"failed", "cancelled"}, ok \in BOOLEAN : Settle(j, v, ok)
      BY <1>6 DEF HandlerThrows, Writes
  <2> QED
      BY <1>4, <1>6, <2>1 DEF HandlerThrows, Terminal
<1>7. CASE FinishUnsaved(j)
  <2>1. PICK again \in BOOLEAN : faults' = faults + (IF again THEN 2 ELSE 1)
      BY <1>7 DEF FinishUnsaved
  <2>2. faults' # 0
      BY <2>1 DEF IInv, TypeOK
  <2> QED
      BY <2>2 DEF Written
<1> QED
    BY <1>1, <1>2, <1>3, <1>5, <1>6, <1>7

LEMMA NextWritten == IInv /\ Written /\ [Next]_vars => Written'
<1> SUFFICES ASSUME IInv, Written, [Next]_vars PROVE Written'
    OBVIOUS
<1>1. CASE Boot \/ StartPrimary \/ StartStandby \/ Crash \/ Exit \/ ScheduleFails
    BY <1>1, WrittenBoot
<1>2. ASSUME NEW r \in Requests, Create(r) PROVE Written'
    BY <1>2, WrittenEnqueue DEF Create, Inputs
<1>3. ASSUME NEW j \in Jobs, Retry(j) PROVE Written'
  <2>1. input[j] \in Inputs
      BY <1>3 DEF Retry, IInv, TypeOK, Fresh, Jobs, Terminal
  <2>2. Unkeyed(input[j]) \in Inputs
      BY <2>1, UnkeyedInputs
  <2> QED
      BY <1>3, <2>2, WrittenEnqueue DEF Retry
<1>4. ASSUME NEW r \in Requests, CreateDuplicate(r) PROVE Written'
  <2>1. \E j \in Jobs : TRUE
      BY <1>4 DEF CreateDuplicate, Existing
  <2> QED
      BY <1>4, <2>1, WrittenUnwritten
<1>5. ASSUME NEW j \in Jobs, Wait(j) \/ CallHandler(j) \/ Finally(j) PROVE Written'
    BY <1>5, WrittenUnwritten
<1>6. ASSUME NEW j \in Jobs,
             \/ CancelQueued(j) \/ CancelRunning(j) \/ Rewrite(j)
             \/ HandlerReturns(j) \/ HandlerThrows(j) \/ FinishUnsaved(j)
      PROVE  Written'
    BY <1>6, WrittenChange
<1>7. CASE Schedule
    BY <1>7, WrittenWalk
<1>8. CASE UNCHANGED vars
    BY <1>8 DEF Written, vars
<1> QED
    BY <1>1, <1>2, <1>3, <1>4, <1>5, <1>6, <1>7, <1>8 DEF Next

-----------------------------------------------------------------------------
(* Every variable of the queue keeps its shape.                            *)
THEOREM TypeCorrect == Spec => []TypeOK
BY AlwaysIInv, PTL DEF IInv

(* Two jobs that share a conflict key never run at the same time           *)
(* (blockers and launch in job-manager.js), for every set of submissions.  *)
THEOREM ConflictsExcluded == Spec => []ConflictExclusion
BY AlwaysIInv, PTL DEF IInv

(* No job's handler is called twice, whatever restarts and failed writes   *)
(* come between (recoverInterrupted and the write in launch).              *)
THEOREM HandlerCalledAtMostOnce == Spec => []AtMostOnce
BY AlwaysIInv, PTL DEF IInv

(* What a standby suppressed at its start is never called, by it or by a   *)
(* later boot as primary (start with suppressDisallowed).                  *)
THEOREM SuppressedStaysHistory == Spec => []SuppressedNeverRuns
<1>1. IInv => SuppressedNeverRuns
    BY DEF IInv, SuppressedEnded, SuppressedNeverRuns
<1> QED
    BY AlwaysIInv, <1>1, PTL

(* A job a caller was told about is on disk as active work until it ends,  *)
(* as long as no write of jobs.json has failed (persist before answering   *)
(* in create, recoverInterrupted at boot), for any number of restarts.     *)
THEOREM WrittenWorkKept == Spec => []WrittenWorkSurvives
<1>1. Init => Written
    BY DEF Init, Written
<1>2. Written => WrittenWorkSurvives
    BY DEF Written, WrittenWorkSurvives, AcknowledgedSurvives
<1> QED
    BY AlwaysIInv, <1>1, <1>2, NextWritten, PTL DEF Spec
=============================================================================
