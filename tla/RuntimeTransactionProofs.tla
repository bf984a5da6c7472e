----------------------- MODULE RuntimeTransactionProofs -----------------------
(***************************************************************************)
(* The runtime files under their lock directory, for any number of panel   *)
(* callers and sites and of failing steps, as long as only a container     *)
(* that is alone may die (LoneCli): one caller at a time, both files as    *)
(* the reported changes left them, and the servers as reported.            *)
(***************************************************************************)
EXTENDS RuntimeTransaction, FiniteSetTheorems, TLAPS

USE DEF Callers, Lock

LEMMA TargetType ==
    ASSUME TypeOK, NEW p \in Callers
    PROVE  After(p) \in Config /\ Target(p) \in Config
  BY DEF TypeOK, After, Adds, Target, Config

LEMMA EndsType ==
    ASSUME TypeOK, NEW p \in Callers,
           NEW outcome \in {"applied", "restored", "unwritten", "undone", "failed"},
           Ends(p, outcome)
    PROVE  /\ txn' \in [Callers -> [pc : {"idle", "queued", "done", "dead"} \cup Inside,
                            mode : {"commit", "unwrite", "rollback", "undo"},
                            site : Sites, before : Config,
                            outcome : {"none", "rejected", "applied", "restored", "unwritten",
                                       "undone", "failed"}]]
           /\ lock' = {} /\ last' = outcome /\ spoiled' \subseteq Sites
  BY DEF TypeOK, Ends

LEMMA FaultType ==
    ASSUME TypeOK, NEW p \in Callers, Fault(p)
    PROVE  faults' \in 0 .. MaxFaults /\ signals' \subseteq {"map", "pools"}
<1>1. faults' \in 0 .. MaxFaults
  <2>1. CASE UNCHANGED faults
    BY <2>1 DEF TypeOK
  <2>2. CASE faults < MaxFaults /\ faults' = faults + 1
    BY <2>2, RuntimeTransactionAssumption DEF TypeOK
  <2> QED
    BY <2>1, <2>2 DEF Fault
<1>2. signals' \subseteq {"map", "pools"}
  <2>1. signals' = signals \/ signals' = signals \cup {"pools"} \/ signals' = signals \cup {"map"}
    BY DEF Fault
  <2> QED
    BY <2>1 DEF TypeOK
<1> QED
  BY <1>1, <1>2

LEMMA TypeInit == Init => TypeOK
  BY RuntimeTransactionAssumption DEF Init, TypeOK, Config

LEMMA TypeStep == TypeOK /\ [Next]_vars => TypeOK'
<1> SUFFICES ASSUME TypeOK, [Next]_vars
             PROVE  TypeOK'
  OBVIOUS
<1> USE RuntimeTransactionAssumption DEF TypeOK
<1>1. ASSUME NEW p \in Callers, Locking(p)
      PROVE  TypeOK'
  <2>1. CASE Reads(p)
    BY <2>1 DEF Reads, NoFiles
  <2>2. CASE Undoes(p)
    BY <2>2 DEF Undoes, NoFiles
  <2>3. CASE Acquires(p)
    <3>1. lock' = Lock(p, FALSE)
      BY <2>3 DEF Acquires
    <3> QED
      BY <2>3, <3>1 DEF Acquires, Goes, NoFiles, Inside, Critical, Turn
  <2>4. CASE SeesStale(p)
    BY <2>4 DEF SeesStale, Goes, NoFiles, Inside
  <2>5. CASE Breaks(p)
    BY <2>5 DEF Breaks, Goes, NoFiles
  <2>6. CASE Busy(p)
    BY <2>6 DEF Busy, NoFiles
  <2> QED
    BY <1>1, <2>1, <2>2, <2>3, <2>4, <2>5, <2>6 DEF Locking
<1>2. ASSUME NEW p \in Callers, Holding(p)
      PROVE  TypeOK'
  <2> USE DEF Inside, Critical, Steps
  <2>1. CASE Checks(p)
    BY <2>1 DEF Checks, Goes, NoFiles
  <2>2. CASE Refused(p)
    BY <2>2 DEF Refused, NoFiles
  <2>3. CASE WritesMap(p)
    BY <2>3, TargetType DEF WritesMap, Goes, Config
  <2>4. CASE WritesPools(p)
    <3>1. files' \in Config
      BY <2>4, TargetType DEF WritesPools, Config
    <3>2. CASE txn[p].mode = "unwrite"
      BY <2>4, <3>1, <3>2, EndsType DEF WritesPools
    <3>3. CASE txn[p].mode # "unwrite"
      BY <2>4, <3>1, <3>3 DEF WritesPools, Goes
    <3> QED
      BY <3>2, <3>3
  <2>5. CASE ReloadsPhp(p)
    BY <2>5 DEF ReloadsPhp, Signals, Goes
  <2>6. CASE ReloadsNginx(p)
    BY <2>6 DEF ReloadsNginx, Signals, Goes
  <2>7. CASE Verifies(p)
    <3>1. Outcome(p) \in {"applied", "restored", "undone"}
      BY DEF Outcome
    <3> QED
      BY <2>7, <3>1, EndsType DEF Verifies, NoFiles
  <2>8. CASE TurnsBack(p)
    BY <2>8, FaultType DEF TurnsBack, Recovery
  <2>9. CASE Strands(p)
    BY <2>9, FaultType, EndsType DEF Strands
  <2> QED
    BY <1>2, <2>1, <2>2, <2>3, <2>4, <2>5, <2>6, <2>7, <2>8, <2>9 DEF Holding
<1>3. ASSUME NEW p \in Callers, Dies(p)
      PROVE  TypeOK'
  BY <1>3 DEF Dies, NoFiles
<1>4. CASE Reloads
  BY <1>4 DEF Reloads, Config
<1>5. CASE Ages
  <2>1. \E q \in Callers : lock' = Lock(q, TRUE)
    <3>1. PICK held \in lock : lock' = Lock(held.by, TRUE)
      BY <1>5 DEF Ages
    <3>2. held.by \in Callers
      BY <3>1
    <3> QED
      BY <3>1, <3>2
  <2> QED
    BY <1>5, <2>1 DEF Ages, NoFiles
<1>6. CASE UNCHANGED vars
  BY <1>6 DEF vars
<1> QED
  BY <1>1, <1>2, <1>3, <1>4, <1>5, <1>6 DEF Next

(* The files, the lock and every transaction keep their types, for any     *)
(* number of callers, sites and faults.                                    *)
THEOREM RuntimeTypeCorrect == Spec => []TypeOK
  BY TypeInit, TypeStep, PTL DEF Spec

-----------------------------------------------------------------------------
(* Exclusive is not inductive: it has to be known whose the lock is, that  *)
(* only a lock of a dead holder is ever stale, and that one caller at a    *)
(* time is about to remove it.                                             *)

OnePerProcess ==
    \A p, q \in Callers :
        Together(p, q) /\ txn[p].pc \in Inside /\ txn[q].pc \in Inside => p = q

HolderOwns == \A p \in Callers : txn[p].pc \in Critical => lock = Lock(p, FALSE)

StaleIsDead == \A held \in lock : held.stale => txn[held.by].pc = "dead"

BreaksStale ==
    \A p \in Callers : txn[p].pc = "break" => \E c \in Callers : lock = Lock(c, TRUE)

DeadIsMortal == \A p \in Callers : txn[p].pc = "dead" => p \in Mortal

LockInv ==
    /\ TypeOK
    /\ OnePerProcess /\ HolderOwns /\ StaleIsDead /\ BreaksStale /\ DeadIsMortal

LEMMA LockEqual ==
    ASSUME NEW p, NEW q, NEW a \in BOOLEAN, NEW b \in BOOLEAN, Lock(p, a) = Lock(q, b)
    PROVE  p = q /\ a = b
<1>1. [by |-> p, stale |-> a] = [by |-> q, stale |-> b]
  OBVIOUS
<1>2. [by |-> p, stale |-> a].by = [by |-> q, stale |-> b].by
  BY <1>1
<1>3. [by |-> p, stale |-> a].stale = [by |-> q, stale |-> b].stale
  BY <1>1
<1> QED
  BY <1>2, <1>3

LEMMA LockFree == \A p, a : Lock(p, a) # {}
  OBVIOUS

(* Whoever is about to remove a stale lock is of the panel, and alone.     *)
LEMMA BreakerAlone ==
    ASSUME LoneCli, LockInv, NEW p \in Callers, txn[p].pc = "break"
    PROVE  /\ p \in Panel
           /\ \A q \in Callers : txn[q].pc \in {"break"} \cup Critical => q = p
<1>1. PICK c \in Callers : lock = Lock(c, TRUE)
  BY DEF LockInv, BreaksStale
<1>2. txn[c].pc = "dead"
  BY <1>1 DEF LockInv, StaleIsDead
<1>3. c \in Cli /\ \A d \in Cli : d = c
  BY <1>2 DEF LockInv, DeadIsMortal, LoneCli
<1>4. p \in Panel
  BY <1>2, <1>3
<1>5. ASSUME NEW q \in Callers, txn[q].pc = "break"
      PROVE  q = p
  <2>1. q \in Panel
    BY <1>2, <1>3, <1>5
  <2> QED
    BY <1>4, <1>5, <2>1 DEF LockInv, OnePerProcess, Together, Inside
<1>6. ASSUME NEW q \in Callers, txn[q].pc \in Critical
      PROVE  FALSE
  BY <1>1, <1>6, LockEqual DEF LockInv, HolderOwns
<1> QED
  BY <1>4, <1>5, <1>6

(* Steps that leave the lock alone and bring nobody nearer to it.          *)
LEMMA Away ==
    ASSUME LockInv, TypeOK', lock' = lock,
           \A q \in Callers : \/ txn'[q].pc = txn[q].pc
                              \/ txn'[q].pc \in {"queued", "done"} /\ txn[q].pc # "dead"
                              \/ txn[q].pc \in Critical /\ txn'[q].pc \in Critical
    PROVE  LockInv'
<1> USE DEF LockInv
<1>1. \A q \in Callers : /\ txn'[q].pc \in Inside => txn[q].pc \in Inside
                         /\ txn'[q].pc \in Critical => txn[q].pc \in Critical
                         /\ txn'[q].pc = "break" => txn[q].pc = "break"
                         /\ txn'[q].pc = "dead" <=> txn[q].pc = "dead"
  BY DEF Inside, Critical, Steps
<1>2. OnePerProcess'
  BY <1>1 DEF OnePerProcess, Together
<1>3. HolderOwns'
  BY <1>1 DEF HolderOwns
<1>4. StaleIsDead'
  BY <1>1 DEF StaleIsDead, TypeOK
<1>5. BreaksStale'
  BY <1>1 DEF BreaksStale
<1>6. DeadIsMortal'
  BY <1>1 DEF DeadIsMortal
<1> QED
  BY <1>2, <1>3, <1>4, <1>5, <1>6

(* The holder releases the lock.                                           *)
LEMMA Releases ==
    ASSUME LoneCli, LockInv, TypeOK', NEW p \in Callers, txn[p].pc \in {"break"} \cup Critical,
           lock' = {}, txn'[p].pc \in {"queued", "done"},
           \A q \in Callers \ {p} : txn'[q].pc = txn[q].pc
    PROVE  LockInv'
<1> USE DEF LockInv
<1>1. \A q \in Callers \ {p} : txn[q].pc \notin {"break"} \cup Critical
  <2>1. CASE txn[p].pc = "break"
    BY <2>1, BreakerAlone
  <2>2. CASE txn[p].pc \in Critical
    BY <2>2, BreakerAlone, LockEqual DEF HolderOwns, Critical, Steps
  <2> QED
    BY <2>1, <2>2
<1>2. \A q \in Callers : txn'[q].pc \notin Inside
  BY <1>1 DEF Inside, Critical, Steps
<1>3. OnePerProcess'
  BY <1>2 DEF OnePerProcess
<1>4. HolderOwns' /\ BreaksStale'
  BY <1>2 DEF HolderOwns, BreaksStale, Inside
<1>5. StaleIsDead'
  BY DEF StaleIsDead
<1>6. DeadIsMortal'
  BY DEF DeadIsMortal
<1> QED
  BY <1>3, <1>4, <1>5, <1>6

LEMMA LockInit == Init => LockInv
<1> SUFFICES ASSUME Init PROVE LockInv
  OBVIOUS
<1>1. TypeOK
  BY TypeInit
<1>2. \A p \in Callers : txn[p].pc = "idle"
  BY DEF Init
<1> QED
  BY <1>1, <1>2 DEF LockInv, OnePerProcess, HolderOwns, StaleIsDead, BreaksStale,
     DeadIsMortal, Inside, Critical, Steps, Init

LEMMA LockStep == LoneCli /\ LockInv /\ [Next]_vars => LockInv'
<1> SUFFICES ASSUME LoneCli, LockInv, [Next]_vars
             PROVE  LockInv'
  OBVIOUS
<1>0. TypeOK /\ TypeOK'
  BY TypeStep DEF LockInv
<1>1. ASSUME NEW p \in Callers, Locking(p)
      PROVE  LockInv'
  <2>1. CASE Reads(p)
    BY <2>1, <1>0, Away DEF Reads, TypeOK
  <2>2. CASE Undoes(p)
    BY <2>2, <1>0, Away DEF Undoes, TypeOK
  <2>3. CASE Acquires(p)
    <3>1. /\ lock = {} /\ lock' = Lock(p, FALSE) /\ Turn(p) /\ txn'[p].pc = "check"
          /\ \A q \in Callers \ {p} : txn'[q].pc = txn[q].pc
      BY <2>3, <1>0 DEF Acquires, Goes, TypeOK
    <3>2. \A q \in Callers : txn[q].pc \notin {"break"} \cup Critical
      BY <3>1, LockFree DEF LockInv, HolderOwns, BreaksStale
    <3>3. OnePerProcess'
      BY <3>1, <3>2 DEF OnePerProcess, Inside
    <3>4. HolderOwns'
      BY <3>1, <3>2 DEF HolderOwns
    <3>5. StaleIsDead'
      BY <3>1 DEF StaleIsDead
    <3>6. BreaksStale'
      BY <3>1, <3>2 DEF BreaksStale
    <3>7. DeadIsMortal'
      BY <3>1 DEF DeadIsMortal, LockInv
    <3> QED
      BY <1>0, <3>3, <3>4, <3>5, <3>6, <3>7 DEF LockInv
  <2>4. CASE SeesStale(p)
    <3>1. /\ lock' = lock /\ Turn(p) /\ Stale /\ txn'[p].pc = "break"
          /\ \A q \in Callers \ {p} : txn'[q].pc = txn[q].pc
      BY <2>4, <1>0 DEF SeesStale, Goes, TypeOK
    <3>2. PICK c \in Callers : lock = Lock(c, TRUE)
      <4>1. PICK held \in lock : held.stale
        BY <3>1 DEF Stale
      <4>2. PICK c \in Callers, old \in BOOLEAN : lock = {[by |-> c, stale |-> old]}
        BY <1>0, <4>1 DEF TypeOK
      <4>3. held = [by |-> c, stale |-> old]
        BY <4>1, <4>2
      <4>4. held.stale = old
        BY <4>3
      <4> QED
        BY <4>1, <4>2, <4>4
    <3>3. OnePerProcess'
      BY <3>1 DEF OnePerProcess, LockInv, Turn, Together
    <3>4. HolderOwns'
      BY <3>1 DEF HolderOwns, LockInv, Critical, Steps
    <3>5. StaleIsDead'
      BY <3>1, <3>2 DEF StaleIsDead, LockInv, Turn
    <3>6. BreaksStale'
      BY <3>1, <3>2 DEF BreaksStale
    <3>7. DeadIsMortal'
      BY <3>1 DEF DeadIsMortal, LockInv
    <3> QED
      BY <1>0, <3>3, <3>4, <3>5, <3>6, <3>7 DEF LockInv
  <2>5. CASE Breaks(p)
    <3>1. /\ lock' = {} /\ txn[p].pc = "break" /\ txn'[p].pc = "queued"
          /\ \A q \in Callers \ {p} : txn'[q].pc = txn[q].pc
      BY <2>5, <1>0 DEF Breaks, Goes, TypeOK
    <3> QED
      BY <1>0, <3>1, Releases
  <2>6. CASE Busy(p)
    BY <2>6, <1>0, Away DEF Busy, Turn, TypeOK
  <2> QED
    BY <1>1, <2>1, <2>2, <2>3, <2>4, <2>5, <2>6 DEF Locking
<1>2. ASSUME NEW p \in Callers, Holding(p)
      PROVE  LockInv'
  <2>1. txn[p].pc \in Critical
    BY <1>2 DEF Holding, Checks, Refused, WritesMap, WritesPools, ReloadsPhp, ReloadsNginx,
       Verifies, TurnsBack, Strands, Fault, Critical, Steps
  <2>2. \A q \in Callers \ {p} : txn'[q].pc = txn[q].pc
    BY <1>2, <1>0 DEF Holding, Checks, Refused, WritesMap, WritesPools, ReloadsPhp,
       ReloadsNginx, Verifies, TurnsBack, Strands, Goes, Ends, TypeOK
  <2>3. \/ lock' = lock /\ txn'[p].pc \in Critical
        \/ lock' = {} /\ txn'[p].pc = "done"
    BY <1>2, <1>0 DEF Holding, Checks, Refused, WritesMap, WritesPools, ReloadsPhp,
       ReloadsNginx, Verifies, TurnsBack, Strands, Goes, Ends, TypeOK, Critical, Steps
  <2> QED
    BY <1>0, <2>1, <2>2, <2>3, Away, Releases
<1>3. ASSUME NEW p \in Callers, Dies(p)
      PROVE  LockInv'
  <2>1. /\ lock' = lock /\ p \in Mortal
        /\ \A q \in Callers : txn'[q].pc = txn[q].pc \/ (txn'[q].pc = "dead" /\ Together(p, q))
    <3> DEFINE lost == {q \in Callers : Together(p, q) /\ txn[q].pc \notin {"idle", "done"}}
    <3>1. /\ lock' = lock /\ p \in Mortal
          /\ txn' = [q \in Callers |-> IF q \in lost THEN [txn[q] EXCEPT !.pc = "dead"] ELSE txn[q]]
      BY <1>3 DEF Dies
    <3>2. ASSUME NEW q \in Callers
          PROVE  txn'[q].pc = txn[q].pc \/ (txn'[q].pc = "dead" /\ Together(p, q))
      <4>1. CASE q \in lost
        <5>1. txn'[q] = [txn[q] EXCEPT !.pc = "dead"]
          BY <3>1, <4>1
        <5>2. txn'[q].pc = "dead"
          BY <5>1, <1>0 DEF TypeOK
        <5> QED
          BY <4>1, <5>2
      <4>2. CASE q \notin lost
        <5>1. txn'[q] = txn[q]
          BY <3>1, <4>2
        <5> QED
          BY <5>1
      <4> QED
        BY <4>1, <4>2
    <3> QED
      BY <3>1, <3>2
  <2>2. \A q \in Callers : Together(p, q) => q = p
    BY <2>1, RuntimeTransactionAssumption DEF LoneCli, Together
  <2>3. \A q \in Callers : /\ txn'[q].pc \in Inside => txn[q].pc \in Inside
                           /\ txn'[q].pc \in Critical => txn[q].pc \in Critical
                           /\ txn'[q].pc = "break" => txn[q].pc = "break"
                           /\ txn[q].pc = "dead" => txn'[q].pc = "dead"
    BY <2>1 DEF Inside, Critical, Steps
  <2>4. OnePerProcess'
    BY <2>3 DEF OnePerProcess, LockInv, Together
  <2>5. HolderOwns' /\ BreaksStale'
    BY <2>1, <2>3 DEF HolderOwns, BreaksStale, LockInv
  <2>6. StaleIsDead'
    BY <1>0, <2>1, <2>3 DEF StaleIsDead, LockInv, TypeOK
  <2>7. DeadIsMortal'
    BY <2>1, <2>2 DEF DeadIsMortal, LockInv
  <2> QED
    BY <1>0, <2>4, <2>5, <2>6, <2>7 DEF LockInv
<1>4. CASE Reloads
  BY <1>4, <1>0, Away DEF Reloads
<1>5. CASE Ages
  <2>1. PICK held \in lock : /\ ~held.stale /\ txn[held.by].pc = "dead"
                             /\ lock' = Lock(held.by, TRUE)
    BY <1>5 DEF Ages
  <2>2. held.by \in Callers /\ txn' = txn
    BY <1>5, <1>0, <2>1 DEF Ages, TypeOK
  <2>3. HolderOwns'
    <3>1. \A p \in Callers : txn[p].pc \notin Critical
      BY <2>1, <2>2 DEF LockInv, HolderOwns, Critical, Steps
    <3> QED
      BY <2>2, <3>1 DEF HolderOwns
  <2>4. StaleIsDead' /\ BreaksStale'
    BY <2>1, <2>2 DEF StaleIsDead, BreaksStale
  <2>5. OnePerProcess' /\ DeadIsMortal'
    BY <2>2 DEF OnePerProcess, DeadIsMortal, LockInv
  <2> QED
    BY <1>0, <2>3, <2>4, <2>5 DEF LockInv
<1>6. CASE UNCHANGED vars
  BY <1>6, <1>0, Away DEF vars
<1> QED
  BY <1>1, <1>2, <1>3, <1>4, <1>5, <1>6 DEF Next

LEMMA LockSafe == LockInv => Exclusive
  BY LockEqual DEF LockInv, HolderOwns, Exclusive

(* The directory excludes: one caller at a time is inside a transaction,   *)
(* for any callers, as long as the panel lives and a container that may    *)
(* die is the only one.  The two conditions are needed: run                *)
(* runtime_transaction has exactly them.                                   *)
THEOREM RuntimeExclusive ==
    ASSUME LoneCli
    PROVE  Spec => []Exclusive
  BY LockInit, LockStep, LockSafe, PTL DEF Spec
-----------------------------------------------------------------------------
(* What the files say.  AppliedExactly and Settled speak of moments when   *)
(* nobody holds the lock; in between, the holder is between the            *)
(* configuration it found and its target.                                  *)

Toggles(s) == {p \in Callers : txn[p].outcome = "applied" /\ txn[p].site = s}
Odd(s) == Cardinality(Toggles(s)) % 2 = 1
Told(s) == ~(s \in initial <=> Odd(s))
Agrees(c, s) == (s \in c.map <=> Told(s)) /\ (s \in c.pools <=> Told(s))

AtWork(p) == txn[p].pc \in Steps
NoneAtWork == \A p \in Callers : ~AtWork(p)

(* The configuration a holder found.                                       *)
Found(p) == IF txn[p].mode = "undo" THEN After(p) ELSE txn[p].before

(* A transaction is not reported before it ends, but for one that is being *)
(* undone; what it goes to was checked.                                    *)
ModeFits(p) ==
    /\ txn[p].pc = "idle" => txn[p].mode = "commit"
    /\ txn[p].pc \in {"queued", "break", "check"} => txn[p].mode \in {"commit", "undo"}
    /\ txn[p].pc \notin {"done", "dead"} =>
          txn[p].outcome = IF txn[p].mode = "undo" THEN "applied" ELSE "none"
    /\ AtWork(p) \/ txn[p].outcome = "applied" => Proposable(p)
    /\ AtWork(p) /\ txn[p].mode \in {"rollback", "undo"} => Valid(txn[p].before)
    /\ AtWork(p) /\ txn[p].mode = "unwrite" => txn[p].pc \in {"map", "pools"}

(* Its files differ from what it found in its site only, and hold its      *)
(* target as far as it has got.                                            *)
FilesFit(p) ==
    AtWork(p) =>
        /\ \A s \in Sites \ {txn[p].site} : /\ s \in files.map <=> s \in txn[p].before.map
                                            /\ s \in files.pools <=> s \in txn[p].before.pools
        /\ txn[p].pc # "map" => files.map = Target(p).map
        /\ txn[p].pc \notin {"map", "pools"} => files.pools = Target(p).pools

LedgerFits ==
    \A s \in Sites \ spoiled : /\ NoneAtWork => Agrees(files, s)
                               /\ \A p \in Callers : AtWork(p) => Agrees(Found(p), s)

(* A server runs its file, or was told to read it again.                   *)
NginxRuns == running.map = files.map \/ "map" \in signals
PhpRuns == running.pools = files.pools \/ "pools" \in signals

ServersFit ==
    /\ \A p \in Callers : /\ txn[p].pc \in {"nginx", "verify"} => PhpRuns
                          /\ txn[p].pc = "verify" => NginxRuns
    /\ NoneAtWork /\ last \in {"none", "applied", "restored", "undone"} =>
          NginxRuns /\ PhpRuns /\ Valid(files)

FilesInv ==
    /\ LockInv
    /\ \A p \in Callers : ModeFits(p) /\ FilesFit(p)
    /\ LedgerFits /\ ServersFit
(* After and before differ in the caller's own site only.                  *)
LEMMA Differ ==
    ASSUME TypeOK, NEW p \in Callers
    PROVE  /\ txn[p].site \in Sites /\ txn[p].before \in Config
           /\ \A s \in Sites \ {txn[p].site} : /\ s \in After(p).map <=> s \in txn[p].before.map
                                               /\ s \in After(p).pools <=> s \in txn[p].before.pools
           /\ txn[p].site \in After(p).map <=> txn[p].site \notin txn[p].before.map
           /\ txn[p].site \in After(p).pools <=> txn[p].site \notin txn[p].before.map
  BY DEF TypeOK, After, Adds, Config

LEMMA TogglesSame ==
    ASSUME \A q \in Callers : /\ txn'[q].outcome = "applied" <=> txn[q].outcome = "applied"
                              /\ txn'[q].site = txn[q].site,
           initial' = initial, NEW s \in Sites
    PROVE  Told(s)' <=> Told(s)
<1>1. Toggles(s)' = Toggles(s)
  BY DEF Toggles
<1>2. Odd(s)' <=> Odd(s)
  BY <1>1 DEF Odd
<1> QED
  BY <1>2 DEF Told

(* One caller's change is reported, or no longer reported.                 *)
LEMMA TogglesFlip ==
    ASSUME NEW p \in Callers,
           \A q \in Callers \ {p} : txn'[q].outcome = txn[q].outcome,
           \A q \in Callers : txn'[q].site = txn[q].site,
           ~(txn'[p].outcome = "applied" <=> txn[p].outcome = "applied"),
           initial' = initial, NEW s \in Sites
    PROVE  Told(s)' <=> IF s = txn[p].site THEN ~Told(s) ELSE Told(s)
<1>1. CASE s # txn[p].site
  <2>1. Toggles(s)' = Toggles(s)
    BY <1>1 DEF Toggles
  <2>2. Odd(s)' <=> Odd(s)
    BY <2>1 DEF Odd
  <2> QED
    BY <1>1, <2>2 DEF Told
<1>2. CASE s = txn[p].site
  <2>1. IsFiniteSet(Toggles(s)) /\ Cardinality(Toggles(s)) \in Nat
    <3>1. Toggles(s) \subseteq Callers
      BY DEF Toggles
    <3>2. IsFiniteSet(Toggles(s))
      BY <3>1, FS_Subset, RuntimeTransactionAssumption
    <3> QED
      BY <3>2, FS_CardinalityType
  <2>2. \/ Cardinality(Toggles(s)') = Cardinality(Toggles(s)) + 1
        \/ Cardinality(Toggles(s)') = Cardinality(Toggles(s)) - 1 /\ Cardinality(Toggles(s)') \in Nat
    <3>1. CASE txn'[p].outcome = "applied"
      <4>1. Toggles(s)' = Toggles(s) \cup {p} /\ p \notin Toggles(s)
        BY <1>2, <3>1 DEF Toggles
      <4>2. Cardinality(Toggles(s) \cup {p}) = Cardinality(Toggles(s)) + 1
        BY <2>1, <4>1, FS_AddElement
      <4> QED
        BY <4>1, <4>2
    <3>2. CASE txn[p].outcome = "applied"
      <4>1. Toggles(s)' = Toggles(s) \ {p} /\ p \in Toggles(s)
        BY <1>2, <3>2 DEF Toggles
      <4>2. IsFiniteSet(Toggles(s) \ {p})
        BY <2>1, FS_RemoveElement
      <4> QED
        BY <2>1, <4>1, <4>2, FS_RemoveElement, FS_CardinalityType
    <3> QED
      BY <3>1, <3>2
  <2>3. Odd(s)' <=> ~Odd(s)
    <3> DEFINE n == Cardinality(Toggles(s))  m == Cardinality(Toggles(s)')
    <3>1. n \in Nat /\ m \in Nat /\ (m = n + 1 \/ m = n - 1)
      BY <2>1, <2>2
    <3> HIDE DEF n, m
    <3>2. (m % 2 = 1) <=> ~(n % 2 = 1)
      BY <3>1
    <3> QED
      BY <3>2 DEF n, m, Odd
  <2> QED
    BY <1>2, <2>3 DEF Told
<1> QED
  BY <1>1, <1>2

(* Steps of the lock: nobody comes to work or leaves it.                   *)
LEMMA WaitsKeep ==
    ASSUME FilesInv, UNCHANGED <<files, running, signals, initial, last, spoiled>>,
           \A q \in Callers : txn'[q].pc \in Steps \/ txn[q].pc \in Steps => txn'[q] = txn[q],
           \A q \in Callers : /\ txn'[q].outcome = "applied" <=> txn[q].outcome = "applied"
                              /\ txn'[q].site = txn[q].site
    PROVE  (\A q \in Callers : FilesFit(q)') /\ LedgerFits' /\ ServersFit'
<1>1. \A q \in Callers : AtWork(q)' <=> AtWork(q)
  BY DEF AtWork
<1>2. NoneAtWork' <=> NoneAtWork
  BY <1>1 DEF NoneAtWork
<1>3. \A q \in Callers : FilesFit(q)'
  BY <1>1 DEF FilesFit, FilesInv, AtWork, Target, After, Adds
<1>4. \A q \in Callers : AtWork(q) => Found(q)' = Found(q)
  BY <1>1 DEF AtWork, Found, After, Adds
<1>5. \A s \in Sites : Told(s)' <=> Told(s)
  BY TogglesSame
<1>6. LedgerFits'
  BY <1>1, <1>2, <1>4, <1>5 DEF FilesInv, LedgerFits, Agrees
<1>7. ServersFit'
  <2>1. \A q \in Callers : /\ txn'[q].pc \in {"nginx", "verify"} => txn[q].pc \in {"nginx", "verify"}
                           /\ txn'[q].pc = "verify" => txn[q].pc = "verify"
    BY DEF Steps
  <2>2. (PhpRuns' <=> PhpRuns) /\ (NginxRuns' <=> NginxRuns)
    BY DEF NginxRuns, PhpRuns
  <2>3. Valid(files)' <=> Valid(files)
    BY DEF Valid
  <2>4. last' = last /\ ServersFit
    BY DEF FilesInv
  <2>5. \A q \in Callers : /\ txn'[q].pc \in {"nginx", "verify"} => PhpRuns'
                           /\ txn'[q].pc = "verify" => NginxRuns'
    BY <2>1, <2>2, <2>4 DEF ServersFit
  <2>6. NoneAtWork' /\ last' \in {"none", "applied", "restored", "undone"} =>
          NginxRuns' /\ PhpRuns' /\ Valid(files)'
    BY <1>2, <2>2, <2>3, <2>4 DEF ServersFit
  <2> QED
    BY <2>5, <2>6 DEF ServersFit
<1> QED
  BY <1>3, <1>6, <1>7

LEMMA Alone ==
    ASSUME LockInv, NEW p \in Callers, txn[p].pc \in Critical
    PROVE  \A q \in Callers \ {p} : txn[q].pc \notin Critical /\ ~AtWork(q)
  BY LockSafe DEF Exclusive, AtWork, Critical

LEMMA SameModeFits ==
    ASSUME NEW q \in Callers, ModeFits(q), txn'[q] = txn[q]
    PROVE  ModeFits(q)'
  BY DEF ModeFits, AtWork, Proposable, After, Adds, Valid

(* The holder takes a step between its first write and its end.            *)
LEMMA WorkGoesOn ==
    ASSUME FilesInv, TypeOK', NEW p \in Callers, AtWork(p), AtWork(p)',
           \A q \in Callers \ {p} : txn'[q] = txn[q],
           txn'[p].site = txn[p].site, txn'[p].before = txn[p].before,
           txn'[p].outcome = txn[p].outcome, Found(p)' = Found(p),
           initial' = initial, spoiled' = spoiled,
           FilesFit(p)', ModeFits(p)',
           txn'[p].pc \in {"nginx", "verify"} => PhpRuns', txn'[p].pc = "verify" => NginxRuns'
    PROVE  (\A q \in Callers : ModeFits(q)' /\ FilesFit(q)') /\ LedgerFits' /\ ServersFit'
<1>1. \A q \in Callers \ {p} : ~AtWork(q) /\ ~AtWork(q)'
  BY Alone DEF FilesInv, AtWork, Critical
<1>2. ~NoneAtWork'
  BY DEF NoneAtWork
<1>3. \A q \in Callers : ModeFits(q)'
  BY SameModeFits DEF FilesInv
<1>4. \A q \in Callers : FilesFit(q)'
  BY <1>1 DEF FilesFit
<1>5. \A s \in Sites : Told(s)' <=> Told(s)
  BY TogglesSame
<1>6. LedgerFits'
  BY <1>1, <1>2, <1>5 DEF FilesInv, LedgerFits, Agrees
<1>7. \A q \in Callers \ {p} : txn'[q].pc \notin {"nginx", "verify"}
  BY <1>1 DEF AtWork, Steps
<1>8. ServersFit'
  BY <1>2, <1>7 DEF ServersFit
<1> QED
  BY <1>3, <1>4, <1>6, <1>8

(* The holder ends, and the files are as it says.                          *)
LEMMA WorkEnds ==
    ASSUME FilesInv, TypeOK', NEW p \in Callers, AtWork(p),
           NEW outcome \in {"applied", "restored", "unwritten", "undone", "failed"},
           Ends(p, outcome), initial' = initial,
           outcome = "applied" => Proposable(p),
           \A s \in Sites \ spoiled' : Agrees(files, s)',
           outcome \in {"applied", "restored", "undone"} =>
               NginxRuns' /\ PhpRuns' /\ Valid(files')
    PROVE  (\A q \in Callers : ModeFits(q)' /\ FilesFit(q)') /\ LedgerFits' /\ ServersFit'
<1>1. /\ txn' = [txn EXCEPT ![p].pc = "done", ![p].outcome = outcome] /\ last' = outcome
      /\ txn \in [Callers -> [pc : {"idle", "queued", "done", "dead"} \cup Inside,
                            mode : {"commit", "unwrite", "rollback", "undo"},
                            site : Sites, before : Config,
                            outcome : {"none", "rejected", "applied", "restored", "unwritten",
                                       "undone", "failed"}]]
  BY DEF Ends, FilesInv, LockInv, TypeOK
<1>2. \A q \in Callers \ {p} : ~AtWork(q) /\ txn'[q] = txn[q]
  BY <1>1, Alone DEF FilesInv, AtWork, Critical
<1>3. /\ txn'[p].pc = "done" /\ txn'[p].outcome = outcome
      /\ txn'[p].site = txn[p].site /\ txn'[p].before = txn[p].before
  BY <1>1
<1>4. \A q \in Callers : ~AtWork(q)'
  BY <1>2, <1>3 DEF AtWork, Steps
<1>5. NoneAtWork'
  BY <1>4 DEF NoneAtWork
<1>6. ModeFits(p)'
  BY <1>3, <1>4 DEF ModeFits, Proposable, After, Adds, Valid
<1>7. \A q \in Callers : ModeFits(q)'
  BY <1>2, <1>6, SameModeFits DEF FilesInv
<1>8. \A q \in Callers : FilesFit(q)'
  BY <1>4 DEF FilesFit
<1>9. LedgerFits'
  BY <1>4 DEF LedgerFits
<1>10. ServersFit'
  <2>1. \A q \in Callers : txn'[q].pc \notin {"nginx", "verify"}
    BY <1>4 DEF AtWork, Steps
  <2>2. last' \in {"none", "applied", "restored", "undone"} => NginxRuns' /\ PhpRuns' /\ Valid(files)'
    BY <1>1 DEF Valid
  <2> QED
    BY <2>1, <2>2 DEF ServersFit
<1> QED
  BY <1>7, <1>8, <1>9, <1>10

FilesKept == (\A q \in Callers : ModeFits(q)' /\ FilesFit(q)') /\ LedgerFits' /\ ServersFit'

LEMMA FilesInit == Init => FilesInv
<1> SUFFICES ASSUME Init PROVE FilesInv
  OBVIOUS
<1>1. LockInv
  BY LockInit
<1>2. \A p \in Callers : /\ txn[p].pc = "idle" /\ txn[p].mode = "commit" /\ txn[p].outcome = "none"
  BY DEF Init
<1>3. \A p \in Callers : ModeFits(p) /\ FilesFit(p)
  BY <1>2 DEF ModeFits, FilesFit, AtWork, Steps
<1>4. LedgerFits
  <2>1. ASSUME NEW s \in Sites PROVE Agrees(files, s)
    <3>1. Toggles(s) = {}
      BY <1>2 DEF Toggles
    <3>2. ~Odd(s)
      BY <3>1, FS_EmptySet DEF Odd
    <3> QED
      BY <3>2 DEF Agrees, Told, Init
  <2> QED
    BY <1>2, <2>1 DEF LedgerFits, AtWork, Steps
<1>5. ServersFit
  BY <1>2 DEF ServersFit, NginxRuns, PhpRuns, Valid, Init
<1> QED
  BY <1>1, <1>3, <1>4, <1>5 DEF FilesInv

LEMMA LockingKeeps ==
    ASSUME FilesInv, NEW p \in Callers, Locking(p)
    PROVE  FilesKept
<1>1. TypeOK /\ ModeFits(p)
  BY DEF FilesInv, LockInv
<1>2. /\ UNCHANGED <<files, running, signals, initial, last, spoiled>>
      /\ \A q \in Callers \ {p} : txn'[q] = txn[q]
      /\ txn[p].pc \notin Steps /\ txn'[p].pc \notin Steps
      /\ txn'[p].site = txn[p].site
  BY <1>1 DEF TypeOK, Locking, Reads, Undoes, Acquires, SeesStale, Breaks, Busy, Turn, Goes,
          NoFiles, Steps
<1>3. ModeFits(p)' /\ (txn'[p].outcome = "applied" <=> txn[p].outcome = "applied")
  <2> USE <1>1 DEF TypeOK, ModeFits, AtWork, Steps, Proposable, After, Adds, Valid
  <2>1. CASE Reads(p)
    <3>1. /\ txn[p].pc = "idle" /\ txn'[p].pc = "queued" /\ txn'[p].mode = txn[p].mode
          /\ txn'[p].outcome = txn[p].outcome
      BY <2>1 DEF Reads
    <3> QED
      BY <3>1
  <2>2. CASE Undoes(p)
    BY <2>2 DEF Undoes
  <2>3. CASE Acquires(p)
    BY <2>3 DEF Acquires, Goes, Turn
  <2>4. CASE SeesStale(p)
    BY <2>4 DEF SeesStale, Goes, Turn
  <2>5. CASE Breaks(p)
    BY <2>5 DEF Breaks, Goes
  <2>6. CASE Busy(p)
    BY <2>6 DEF Busy, Turn
  <2> QED
    BY <2>1, <2>2, <2>3, <2>4, <2>5, <2>6 DEF Locking
<1>4. \A q \in Callers : ModeFits(q)'
  BY <1>2, <1>3, SameModeFits DEF FilesInv
<1> QED
  BY <1>2, <1>3, <1>4, WaitsKeep DEF FilesKept

LEMMA RefusedKeeps ==
    ASSUME FilesInv, NEW p \in Callers, Refused(p)
    PROVE  FilesKept
<1>1. TypeOK /\ ModeFits(p)
  BY DEF FilesInv, LockInv
<1>2. /\ UNCHANGED <<files, running, signals, initial, last, spoiled>>
      /\ \A q \in Callers \ {p} : txn'[q] = txn[q]
      /\ txn[p].pc = "check" /\ txn'[p].pc = "done" /\ txn'[p].mode = txn[p].mode
      /\ txn'[p].site = txn[p].site /\ txn'[p].before = txn[p].before
      /\ txn'[p].outcome = IF txn[p].mode = "undo" THEN txn[p].outcome ELSE "rejected"
  BY <1>1 DEF TypeOK, Refused, NoFiles
<1>3. ModeFits(p)' /\ (txn'[p].outcome = "applied" <=> txn[p].outcome = "applied")
  BY <1>1, <1>2 DEF ModeFits, AtWork, Steps, Proposable, After, Adds, Valid
<1>4. \A q \in Callers : ModeFits(q)'
  BY <1>2, <1>3, SameModeFits DEF FilesInv
<1>5. txn[p].pc \notin Steps /\ txn'[p].pc \notin Steps
  BY <1>2 DEF Steps
<1> QED
  BY <1>2, <1>3, <1>4, <1>5, WaitsKeep DEF FilesKept

(* The holder has checked that the files are those it found.               *)
LEMMA ChecksKeeps ==
    ASSUME FilesInv, NEW p \in Callers, Checks(p)
    PROVE  FilesKept
<1>1. TypeOK /\ ModeFits(p)
  BY DEF FilesInv, LockInv
<1>2. /\ UNCHANGED <<files, running, signals, initial, last, spoiled>>
      /\ \A q \in Callers \ {p} : txn'[q] = txn[q]
      /\ txn[p].pc = "check" /\ txn'[p].pc = "map" /\ txn'[p].mode = txn[p].mode
      /\ txn'[p].site = txn[p].site /\ txn'[p].before = txn[p].before
      /\ txn'[p].outcome = txn[p].outcome /\ Current(p) /\ Sound(p)
  BY <1>1 DEF TypeOK, Checks, Goes, NoFiles
<1>3. \A q \in Callers : ~AtWork(q)
  <2>1. txn[p].pc \in Critical /\ ~AtWork(p)
    BY <1>2 DEF Critical, AtWork, Steps
  <2> QED
    BY <2>1, Alone DEF FilesInv
<1>4. \A q \in Callers \ {p} : ~AtWork(q)'
  BY <1>2, <1>3 DEF AtWork
<1>5. AtWork(p)' /\ ~NoneAtWork'
  BY <1>2 DEF AtWork, NoneAtWork, Steps
<1>6. ModeFits(p)'
  <2>1. CASE txn[p].mode = "undo"
    BY <1>1, <1>2, <2>1 DEF ModeFits, AtWork, Steps, Sound, Proposable, After, Adds, Valid
  <2>2. CASE txn[p].mode # "undo"
    BY <1>1, <1>2, <2>2 DEF ModeFits, AtWork, Steps, Sound, Proposable, After, Adds, Valid
  <2> QED
    BY <2>1, <2>2
<1>7. \A q \in Callers : ModeFits(q)'
  BY <1>2, <1>6, SameModeFits DEF FilesInv
<1>8. files = Found(p) /\ Found(p)' = Found(p)
  BY <1>2 DEF Current, Found, After, Adds
<1>9. FilesFit(p)'
  <2>1. \A s \in Sites \ {txn[p].site} : /\ s \in files.map <=> s \in txn[p].before.map
                                         /\ s \in files.pools <=> s \in txn[p].before.pools
    BY <1>1, <1>8, Differ DEF Found
  <2> QED
    BY <1>2, <2>1 DEF FilesFit, AtWork
<1>10. \A q \in Callers : FilesFit(q)'
  BY <1>4, <1>9 DEF FilesFit
<1>11. \A s \in Sites : Told(s)' <=> Told(s)
  <2>1. \A q \in Callers : txn'[q].outcome = txn[q].outcome /\ txn'[q].site = txn[q].site
    BY <1>2
  <2> QED
    BY <1>2, <2>1, TogglesSame
<1>12. LedgerFits'
  <2>1. \A s \in Sites \ spoiled : Agrees(files, s)
    BY <1>3 DEF FilesInv, LedgerFits, NoneAtWork
  <2>2. \A s \in Sites \ spoiled : Agrees(Found(p), s)'
    BY <1>2, <1>8, <1>11, <2>1 DEF Agrees
  <2> QED
    BY <1>2, <1>4, <1>5, <2>2 DEF LedgerFits
<1>13. ServersFit'
  <2>1. \A q \in Callers : txn'[q].pc \notin {"nginx", "verify"}
    BY <1>2, <1>4 DEF AtWork, Steps
  <2> QED
    BY <1>5, <2>1 DEF ServersFit
<1> QED
  BY <1>7, <1>10, <1>12, <1>13 DEF FilesKept

LEMMA WritesMapKeeps ==
    ASSUME FilesInv, TypeOK', NEW p \in Callers, WritesMap(p)
    PROVE  FilesKept
<1>1. TypeOK /\ ModeFits(p) /\ FilesFit(p)
  BY DEF FilesInv, LockInv
<1>2. /\ UNCHANGED <<running, signals, initial, last, spoiled>>
      /\ \A q \in Callers \ {p} : txn'[q] = txn[q]
      /\ txn[p].pc = "map" /\ txn'[p].pc = "pools" /\ txn'[p].mode = txn[p].mode
      /\ txn'[p].site = txn[p].site /\ txn'[p].before = txn[p].before
      /\ txn'[p].outcome = txn[p].outcome
      /\ files'.map = Target(p).map /\ files'.pools = files.pools
  BY <1>1 DEF TypeOK, WritesMap, Goes, Config
<1>3. AtWork(p) /\ AtWork(p)'
  BY <1>2 DEF AtWork, Steps
<1>4. Found(p)' = Found(p) /\ Target(p)' = Target(p)
  BY <1>2 DEF Found, Target, After, Adds
<1>5. ModeFits(p)'
  BY <1>1, <1>2, <1>3 DEF ModeFits, Proposable, After, Adds, Valid
<1>6. FilesFit(p)'
  <2>1. \A s \in Sites \ {txn[p].site} : s \in Target(p).map <=> s \in txn[p].before.map
    BY <1>1, Differ DEF Target
  <2> QED
    BY <1>1, <1>2, <1>3, <1>4, <2>1 DEF FilesFit
<1> QED
  BY <1>2, <1>3, <1>4, <1>5, <1>6, WorkGoesOn DEF FilesKept

LEMMA WritesPoolsKeeps ==
    ASSUME FilesInv, TypeOK', NEW p \in Callers, WritesPools(p)
    PROVE  FilesKept
<1>1. TypeOK /\ ModeFits(p) /\ FilesFit(p)
  BY DEF FilesInv, LockInv
<1>2. /\ UNCHANGED <<running, signals, initial>> /\ txn[p].pc = "pools"
      /\ files'.map = files.map /\ files'.pools = Target(p).pools
  BY <1>1 DEF TypeOK, WritesPools, Config
<1>3. AtWork(p)
  BY <1>2 DEF AtWork, Steps
<1>4. files'.map = Target(p).map
  BY <1>1, <1>2, <1>3 DEF FilesFit
<1>5. CASE txn[p].mode = "unwrite"
  <2>1. Ends(p, "unwritten")
    BY <1>5 DEF WritesPools
  <2>2. txn'[p].outcome = "unwritten" /\ txn[p].outcome = "none" /\ spoiled' = spoiled
    BY <1>1, <1>2, <1>5, <2>1 DEF Ends, ModeFits, TypeOK
  <2>3. \A q \in Callers : /\ txn'[q].outcome = "applied" <=> txn[q].outcome = "applied"
                           /\ txn'[q].site = txn[q].site
    BY <1>1, <2>1, <2>2 DEF Ends, TypeOK
  <2>4. \A s \in Sites : Told(s)' <=> Told(s)
    BY <1>2, <2>3, TogglesSame
  <2>5. \A s \in Sites \ spoiled : Agrees(txn[p].before, s)
    BY <1>3, <1>5 DEF FilesInv, LedgerFits, Found
  <2>6. files'.map = txn[p].before.map /\ files'.pools = txn[p].before.pools
    BY <1>2, <1>4, <1>5 DEF Target
  <2>7. \A s \in Sites \ spoiled : Agrees(files, s)'
    BY <2>4, <2>5, <2>6 DEF Agrees
  <2> QED
    BY <1>2, <1>3, <2>1, <2>2, <2>7, WorkEnds DEF FilesKept
<1>6. CASE txn[p].mode # "unwrite"
  <2>1. /\ \A q \in Callers \ {p} : txn'[q] = txn[q]
        /\ txn'[p].pc = "php" /\ txn'[p].mode = txn[p].mode /\ spoiled' = spoiled
        /\ txn'[p].site = txn[p].site /\ txn'[p].before = txn[p].before
        /\ txn'[p].outcome = txn[p].outcome
    BY <1>1, <1>6 DEF TypeOK, WritesPools, Goes
  <2>2. AtWork(p)'
    BY <2>1 DEF AtWork, Steps
  <2>3. Found(p)' = Found(p) /\ Target(p)' = Target(p)
    BY <2>1 DEF Found, Target, After, Adds
  <2>4. ModeFits(p)'
    BY <1>1, <1>2, <1>3, <1>6, <2>1, <2>2 DEF ModeFits, Proposable, After, Adds, Valid
  <2>5. FilesFit(p)'
    <3>1. \A s \in Sites \ {txn[p].site} : /\ s \in Target(p).map <=> s \in txn[p].before.map
                                           /\ s \in Target(p).pools <=> s \in txn[p].before.pools
      BY <1>1, Differ DEF Target
    <3> QED
      BY <1>2, <1>4, <2>1, <2>3, <3>1 DEF FilesFit
  <2> QED
    BY <1>2, <1>3, <2>1, <2>2, <2>3, <2>4, <2>5, WorkGoesOn DEF FilesKept
<1> QED
  BY <1>5, <1>6

LEMMA ReloadsPhpKeeps ==
    ASSUME FilesInv, TypeOK', NEW p \in Callers, ReloadsPhp(p)
    PROVE  FilesKept
<1>1. TypeOK /\ ModeFits(p) /\ FilesFit(p)
  BY DEF FilesInv, LockInv
<1>2. /\ UNCHANGED <<files, running, initial, last, spoiled>>
      /\ \A q \in Callers \ {p} : txn'[q] = txn[q]
      /\ txn[p].pc = "php" /\ txn'[p].pc = "nginx" /\ txn'[p].mode = txn[p].mode
      /\ txn'[p].site = txn[p].site /\ txn'[p].before = txn[p].before
      /\ txn'[p].outcome = txn[p].outcome
      /\ "pools" \in signals'
  BY <1>1 DEF TypeOK, ReloadsPhp, Goes, Signals
<1>3. AtWork(p) /\ AtWork(p)'
  BY <1>2 DEF AtWork, Steps
<1>4. Found(p)' = Found(p) /\ Target(p)' = Target(p)
  BY <1>2 DEF Found, Target, After, Adds
<1>5. ModeFits(p)'
  BY <1>1, <1>2, <1>3 DEF ModeFits, Proposable, After, Adds, Valid
<1>6. FilesFit(p)'
  BY <1>1, <1>2, <1>3, <1>4 DEF FilesFit
<1>7. PhpRuns'
  BY <1>2 DEF PhpRuns
<1> QED
  BY <1>2, <1>3, <1>4, <1>5, <1>6, <1>7, WorkGoesOn DEF FilesKept

LEMMA ReloadsNginxKeeps ==
    ASSUME FilesInv, TypeOK', NEW p \in Callers, ReloadsNginx(p)
    PROVE  FilesKept
<1>1. TypeOK /\ ModeFits(p) /\ FilesFit(p) /\ ServersFit
  BY DEF FilesInv, LockInv
<1>2. /\ UNCHANGED <<files, running, initial, last, spoiled>>
      /\ \A q \in Callers \ {p} : txn'[q] = txn[q]
      /\ txn[p].pc = "nginx" /\ txn'[p].pc = "verify" /\ txn'[p].mode = txn[p].mode
      /\ txn'[p].site = txn[p].site /\ txn'[p].before = txn[p].before
      /\ txn'[p].outcome = txn[p].outcome
      /\ signals' = signals \cup {"map"}
  BY <1>1 DEF TypeOK, ReloadsNginx, Goes, Signals
<1>3. AtWork(p) /\ AtWork(p)'
  BY <1>2 DEF AtWork, Steps
<1>4. Found(p)' = Found(p) /\ Target(p)' = Target(p)
  BY <1>2 DEF Found, Target, After, Adds
<1>5. ModeFits(p)'
  BY <1>1, <1>2, <1>3 DEF ModeFits, Proposable, After, Adds, Valid
<1>6. FilesFit(p)'
  BY <1>1, <1>2, <1>3, <1>4 DEF FilesFit
<1>7. PhpRuns' /\ NginxRuns'
  <2>1. PhpRuns
    BY <1>1, <1>2 DEF ServersFit
  <2> QED
    BY <1>2, <2>1 DEF PhpRuns, NginxRuns
<1> QED
  BY <1>2, <1>3, <1>4, <1>5, <1>6, <1>7, WorkGoesOn DEF FilesKept

(* The end of an activation: what was gone to is what is reported.         *)
LEMMA VerifiesKeeps ==
    ASSUME FilesInv, TypeOK', NEW p \in Callers, Verifies(p)
    PROVE  FilesKept
<1>1. TypeOK /\ ModeFits(p) /\ FilesFit(p) /\ ServersFit /\ txn[p].before \in Config
  BY Differ DEF FilesInv, LockInv
<1>2. /\ UNCHANGED <<files, running, signals, initial>> /\ txn[p].pc = "verify"
      /\ Ends(p, Outcome(p))
  BY DEF Verifies, NoFiles
<1>3. AtWork(p)
  BY <1>2 DEF AtWork, Steps
<1>4. Outcome(p) \in {"applied", "restored", "undone"}
  BY DEF Outcome
<1>5. /\ spoiled' = spoiled /\ txn'[p].outcome = Outcome(p)
      /\ \A q \in Callers \ {p} : txn'[q].outcome = txn[q].outcome
      /\ \A q \in Callers : txn'[q].site = txn[q].site
  BY <1>1, <1>2, <1>4 DEF Ends, TypeOK
<1>6. PhpRuns' /\ NginxRuns'
  <2>1. PhpRuns /\ NginxRuns
    BY <1>1, <1>2 DEF ServersFit
  <2> QED
    BY <1>2, <2>1 DEF PhpRuns, NginxRuns
<1>7. files.map = Target(p).map /\ files.pools = Target(p).pools
  BY <1>1, <1>2, <1>3 DEF FilesFit
<1>8. Proposable(p)
  BY <1>1, <1>3 DEF ModeFits
<1>9. txn[p].mode \in {"commit", "rollback", "undo"}
  BY <1>1, <1>2, <1>3 DEF ModeFits, TypeOK
<1>10. \A s \in Sites \ spoiled : Agrees(Found(p), s)
  BY <1>3 DEF FilesInv, LedgerFits
<1>11. Valid(files') /\ \A s \in Sites \ spoiled : Agrees(files, s)'
  <2>1. CASE txn[p].mode = "commit"
    <3>1. txn[p].outcome = "none" /\ Outcome(p) = "applied"
      BY <1>1, <1>2, <2>1 DEF ModeFits, Outcome
    <3>2. \A s \in Sites : Told(s)' <=> IF s = txn[p].site THEN ~Told(s) ELSE Told(s)
      BY <1>2, <1>5, <3>1, TogglesFlip
    <3>3. Found(p) = txn[p].before /\ Target(p) = After(p)
      BY <2>1 DEF Found, Target
    <3>4. Valid(files')
      BY <1>2, <1>7, <1>8, <3>3 DEF Valid, Proposable
    <3>5. \A s \in Sites \ spoiled : Agrees(files, s)'
      BY <1>1, <1>2, <1>7, <1>10, <3>2, <3>3, Differ DEF Agrees
    <3> QED
      BY <3>4, <3>5
  <2>2. CASE txn[p].mode = "rollback"
    <3>1. txn[p].outcome = "none" /\ Outcome(p) = "restored" /\ Valid(txn[p].before)
      BY <1>1, <1>2, <1>3, <2>2 DEF ModeFits, Outcome
    <3>2. \A q \in Callers : /\ txn'[q].outcome = "applied" <=> txn[q].outcome = "applied"
                             /\ txn'[q].site = txn[q].site
      BY <1>5, <3>1
    <3>3. \A s \in Sites : Told(s)' <=> Told(s)
      BY <1>2, <3>2, TogglesSame
    <3>4. Found(p) = txn[p].before /\ Target(p) = txn[p].before
      BY <2>2 DEF Found, Target
    <3> QED
      BY <1>2, <1>7, <1>10, <3>1, <3>3, <3>4 DEF Agrees, Valid
  <2>3. CASE txn[p].mode = "undo"
    <3>1. txn[p].outcome = "applied" /\ Outcome(p) = "undone" /\ Valid(txn[p].before)
      BY <1>1, <1>2, <1>3, <2>3 DEF ModeFits, Outcome
    <3>2. \A s \in Sites : Told(s)' <=> IF s = txn[p].site THEN ~Told(s) ELSE Told(s)
      BY <1>2, <1>5, <3>1, TogglesFlip
    <3>3. Found(p) = After(p) /\ Target(p) = txn[p].before
      BY <2>3 DEF Found, Target
    <3>4. Valid(files')
      BY <1>2, <1>7, <3>1, <3>3 DEF Valid
    <3>5. txn[p].site \in txn[p].before.map <=> txn[p].site \in txn[p].before.pools
      BY <1>1, <1>8, <3>1, Differ DEF Valid, Proposable, Adds
    <3>6. \A s \in Sites \ spoiled : Agrees(files, s)'
      BY <1>1, <1>2, <1>7, <1>10, <3>2, <3>3, <3>5, Differ DEF Agrees
    <3> QED
      BY <3>4, <3>6
  <2> QED
    BY <1>9, <2>1, <2>2, <2>3
<1> QED
  BY <1>2, <1>3, <1>4, <1>5, <1>6, <1>8, <1>11, WorkEnds DEF FilesKept

LEMMA TurnsBackKeeps ==
    ASSUME FilesInv, TypeOK', NEW p \in Callers, TurnsBack(p)
    PROVE  FilesKept
<1>1. TypeOK /\ ModeFits(p) /\ FilesFit(p)
  BY DEF FilesInv, LockInv
<1>2. /\ UNCHANGED <<files, running, initial, last, spoiled>>
      /\ \A q \in Callers \ {p} : txn'[q] = txn[q]
      /\ txn[p].pc \in Steps /\ txn[p].mode = "commit"
      /\ txn'[p].pc = "map" /\ txn'[p].mode = Recovery(p)
      /\ txn'[p].site = txn[p].site /\ txn'[p].before = txn[p].before
      /\ txn'[p].outcome = txn[p].outcome
      /\ Recovery(p) = "rollback" => Valid(txn[p].before)
  BY <1>1 DEF TypeOK, TurnsBack, Fault
<1>3. AtWork(p) /\ AtWork(p)'
  BY <1>2 DEF AtWork, Steps
<1>4. Recovery(p) \in {"unwrite", "rollback"}
  BY DEF Recovery
<1>5. Found(p)' = Found(p)
  BY <1>2, <1>4 DEF Found
<1>6. ModeFits(p)'
  <2>1. txn[p].outcome = "none" /\ Proposable(p)
    BY <1>1, <1>2, <1>3 DEF ModeFits, Steps
  <2>2. Proposable(p)'
    BY <1>2, <2>1 DEF Proposable, After, Adds, Valid
  <2> QED
    BY <1>2, <1>4, <2>1, <2>2 DEF ModeFits, Valid
<1>7. FilesFit(p)'
  BY <1>1, <1>2, <1>3 DEF FilesFit
<1> QED
  BY <1>2, <1>3, <1>5, <1>6, <1>7, WorkGoesOn DEF FilesKept

(* Between the first write and the end, sites other than the holder's are  *)
(* in the files exactly if they should be.                                 *)
LEMMA OtherSites ==
    ASSUME FilesInv, NEW p \in Callers, AtWork(p), NEW s \in Sites \ spoiled, s # txn[p].site
    PROVE  Agrees(files, s)
<1>1. Agrees(Found(p), s)
  BY DEF FilesInv, LedgerFits
<1>2. /\ s \in Found(p).map <=> s \in txn[p].before.map
      /\ s \in Found(p).pools <=> s \in txn[p].before.pools
  BY Differ DEF Found, FilesInv, LockInv
<1>3. /\ s \in files.map <=> s \in txn[p].before.map
      /\ s \in files.pools <=> s \in txn[p].before.pools
  BY DEF FilesInv, FilesFit
<1> QED
  BY <1>1, <1>2, <1>3 DEF Agrees

LEMMA StrandsKeeps ==
    ASSUME FilesInv, TypeOK', NEW p \in Callers, Strands(p)
    PROVE  FilesKept
<1>1. TypeOK /\ ModeFits(p) /\ FilesFit(p)
  BY DEF FilesInv, LockInv
<1>2. /\ UNCHANGED <<files, initial>> /\ txn[p].pc \in Steps /\ Ends(p, "failed")
  BY DEF Strands, Fault
<1>3. AtWork(p)
  BY <1>2 DEF AtWork
<1>4. /\ spoiled' = spoiled \cup {txn[p].site} /\ txn'[p].outcome = "failed"
      /\ \A q \in Callers \ {p} : txn'[q].outcome = txn[q].outcome
      /\ \A q \in Callers : txn'[q].site = txn[q].site
  BY <1>1, <1>2 DEF Ends, TypeOK
<1>5. \A s \in Sites \ {txn[p].site} : Told(s)' <=> Told(s)
  <2>1. CASE txn[p].outcome = "applied"
    BY <1>2, <1>4, <2>1, TogglesFlip
  <2>2. CASE txn[p].outcome # "applied"
    <3>1. \A q \in Callers : /\ txn'[q].outcome = "applied" <=> txn[q].outcome = "applied"
                             /\ txn'[q].site = txn[q].site
      BY <1>4, <2>2
    <3> QED
      BY <1>2, <3>1, TogglesSame
  <2> QED
    BY <2>1, <2>2
<1>6. \A s \in Sites \ spoiled' : Agrees(files, s)'
  <2>1. \A s \in Sites \ spoiled' : Agrees(files, s)
    BY <1>3, <1>4, OtherSites
  <2> QED
    BY <1>2, <1>4, <1>5, <2>1 DEF Agrees
<1> QED
  BY <1>2, <1>3, <1>6, WorkEnds DEF FilesKept

LEMMA DiesKeeps ==
    ASSUME LoneCli, FilesInv, TypeOK', NEW p \in Callers, Dies(p)
    PROVE  FilesKept
<1>1. TypeOK /\ ModeFits(p) /\ FilesFit(p)
  BY DEF FilesInv, LockInv
<1> DEFINE lost == {q \in Callers : Together(p, q) /\ txn[q].pc \notin {"idle", "done"}}
           cut  == {q \in lost : txn[q].pc \in Critical}
<1>2. /\ UNCHANGED <<files, running, signals, initial>> /\ p \in Mortal /\ txn[p].pc \in Inside
      /\ txn' = [q \in Callers |-> IF q \in lost THEN [txn[q] EXCEPT !.pc = "dead"] ELSE txn[q]]
      /\ last' = IF cut = {} THEN last ELSE "died"
      /\ spoiled' = spoiled \cup {txn[q].site : q \in cut}
  BY DEF Dies, NoFiles
<1>3. lost = {p}
  <2>1. \A q \in Callers : Together(p, q) <=> q = p
    BY <1>2, RuntimeTransactionAssumption DEF LoneCli, Together
  <2>2. txn[p].pc \notin {"idle", "done"}
    BY <1>2 DEF Inside, Critical, Steps
  <2> QED
    BY <2>1, <2>2
<1>4. /\ \A q \in Callers \ {p} : txn'[q] = txn[q]
      /\ txn'[p] = [txn[p] EXCEPT !.pc = "dead"]
  BY <1>2, <1>3
<1>5. /\ txn'[p].pc = "dead" /\ txn'[p].outcome = txn[p].outcome /\ txn'[p].mode = txn[p].mode
      /\ txn'[p].site = txn[p].site /\ txn'[p].before = txn[p].before
  BY <1>1, <1>4 DEF TypeOK
<1>6. ModeFits(p)'
  BY <1>1, <1>5 DEF ModeFits, AtWork, Steps, Proposable, After, Adds, Valid
<1>7. \A q \in Callers : ModeFits(q)'
  BY <1>4, <1>6, SameModeFits DEF FilesInv
<1>8. CASE txn[p].pc \in Critical
  <2>1. last' = "died" /\ spoiled' = spoiled \cup {txn[p].site}
    BY <1>2, <1>3, <1>8
  <2>2. \A q \in Callers : ~AtWork(q)'
    BY <1>4, <1>5, <1>8, Alone DEF FilesInv, AtWork, Steps
  <2>3. \A q \in Callers : FilesFit(q)'
    BY <2>2 DEF FilesFit
  <2>4. \A s \in Sites : Told(s)' <=> Told(s)
    BY <1>2, <1>4, <1>5, TogglesSame
  <2>5. \A s \in Sites \ spoiled' : Agrees(files, s)
    <3>1. CASE AtWork(p)
      BY <2>1, <3>1, OtherSites
    <3>2. CASE ~AtWork(p)
      <4>1. NoneAtWork
        BY <1>8, <3>2, Alone DEF FilesInv, NoneAtWork
      <4> QED
        BY <2>1, <4>1 DEF FilesInv, LedgerFits
    <3> QED
      BY <3>1, <3>2
  <2>6. \A s \in Sites \ spoiled' : Agrees(files, s)'
    BY <1>2, <2>4, <2>5 DEF Agrees
  <2>7. LedgerFits'
    BY <2>2, <2>6 DEF LedgerFits
  <2>8. ServersFit'
    BY <2>1, <2>2 DEF ServersFit, AtWork, Steps
  <2> QED
    BY <1>7, <2>3, <2>7, <2>8 DEF FilesKept
<1>9. CASE txn[p].pc \notin Critical
  <2>1. last' = last /\ spoiled' = spoiled
    BY <1>2, <1>3, <1>9
  <2>2. txn[p].pc \notin Steps /\ txn'[p].pc \notin Steps
    BY <1>5, <1>9 DEF Critical, Steps
  <2> HIDE DEF lost, cut
  <2> QED
    BY <1>2, <1>4, <1>5, <1>7, <2>1, <2>2, WaitsKeep DEF FilesKept
<1> QED
  BY <1>8, <1>9

LEMMA ReloadsKeeps ==
    ASSUME FilesInv, Reloads
    PROVE  FilesKept
<1>1. TypeOK /\ ServersFit
  BY DEF FilesInv, LockInv
<1>2. PICK which \in signals : /\ running' = [running EXCEPT ![which] = files[which]]
                               /\ signals' = signals \ {which}
                               /\ UNCHANGED <<files, txn, last, spoiled, initial>>
  BY DEF Reloads
<1>3. (PhpRuns => PhpRuns') /\ (NginxRuns => NginxRuns')
  <2>1. CASE which = "map"
    BY <1>1, <1>2, <2>1 DEF PhpRuns, NginxRuns, TypeOK, Config
  <2>2. CASE which = "pools"
    BY <1>1, <1>2, <2>2 DEF PhpRuns, NginxRuns, TypeOK, Config
  <2> QED
    BY <1>1, <1>2, <2>1, <2>2 DEF TypeOK
<1>4. \A q \in Callers : ModeFits(q)' /\ FilesFit(q)'
  BY <1>2 DEF FilesInv, ModeFits, FilesFit, AtWork, Proposable, Valid, Target, After, Adds
<1>5. \A s \in Sites : Told(s)' <=> Told(s)
  BY <1>2, TogglesSame
<1>6. (NoneAtWork' <=> NoneAtWork) /\ \A q \in Callers : AtWork(q)' <=> AtWork(q)
  BY <1>2 DEF NoneAtWork, AtWork
<1>7. \A q \in Callers : Found(q)' = Found(q)
  BY <1>2 DEF Found, After, Adds
<1>8. LedgerFits'
  BY <1>2, <1>5, <1>6, <1>7 DEF FilesInv, LedgerFits, Agrees
<1>9. ServersFit'
  BY <1>1, <1>2, <1>3, <1>6 DEF ServersFit, Valid
<1> QED
  BY <1>4, <1>8, <1>9 DEF FilesKept

LEMMA FilesStep == LoneCli /\ FilesInv /\ [Next]_vars => FilesInv'
<1> SUFFICES ASSUME LoneCli, FilesInv, [Next]_vars
             PROVE  FilesInv'
  OBVIOUS
<1>1. LockInv' /\ TypeOK'
  BY LockStep DEF FilesInv, LockInv
<1>2. FilesKept
  <2>1. ASSUME NEW p \in Callers, Locking(p) \/ Holding(p) \/ Dies(p)
        PROVE  FilesKept
    BY <1>1, <2>1, LockingKeeps, RefusedKeeps, ChecksKeeps, WritesMapKeeps, WritesPoolsKeeps,
       ReloadsPhpKeeps, ReloadsNginxKeeps, VerifiesKeeps, TurnsBackKeeps, StrandsKeeps, DiesKeeps
       DEF Holding
  <2>2. CASE Reloads
    BY <2>2, ReloadsKeeps
  <2>3. CASE Ages \/ UNCHANGED vars
    <3>1. UNCHANGED <<files, running, signals, initial, last, spoiled, txn>>
      BY <2>3 DEF Ages, NoFiles, vars
    <3>2. \A q \in Callers : ModeFits(q)'
      BY <3>1, SameModeFits DEF FilesInv
    <3> QED
      BY <3>1, <3>2, WaitsKeep DEF FilesKept
  <2> QED
    BY <2>1, <2>2, <2>3 DEF Next
<1> QED
  BY <1>1, <1>2 DEF FilesInv, FilesKept

LEMMA FilesInvariant ==
    ASSUME LoneCli
    PROVE  Spec => []FilesInv
  BY FilesInit, FilesStep, PTL DEF Spec

LEMMA FreeIsIdle == FilesInv /\ lock = {} => NoneAtWork
  BY LockFree DEF FilesInv, LockInv, HolderOwns, NoneAtWork, AtWork, Critical

(* No update is lost and none comes back: for any callers and sites, what  *)
(* both files hold is what the reported changes, not undone, make of the   *)
(* start, but for the sites of transactions that failed or died.           *)
THEOREM RuntimeLedger ==
    ASSUME LoneCli
    PROVE  Spec => []AppliedExactly
<1>1. ASSUME FilesInv PROVE AppliedExactly
  <2>1. ASSUME lock = {}, NEW s \in Sites \ spoiled
        PROVE  /\ s \in files.map <=> (s \in initial) # Odd(s)
               /\ s \in files.pools <=> s \in files.map
    <3>1. Agrees(files, s)
      BY <1>1, <2>1, FreeIsIdle DEF FilesInv, LedgerFits
    <3>2. Odd(s) \in BOOLEAN /\ (s \in initial) \in BOOLEAN
      BY DEF Odd
    <3>3. (s \in initial) # Odd(s) <=> Told(s)
      BY <3>2 DEF Told
    <3> QED
      BY <3>1, <3>3 DEF Agrees
  <2> QED
    BY <2>1 DEF AppliedExactly, Odd, Toggles
<1> QED
  BY <1>1, FilesInvariant, PTL

(* After a reported change, rollback or undo, once both servers have read  *)
(* their files, they run them, and every routed site has its pool.         *)
THEOREM RuntimeSettles ==
    ASSUME LoneCli
    PROVE  Spec => []Settled
<1>1. ASSUME FilesInv PROVE Settled
  <2>1. ASSUME lock = {}, last \in {"none", "applied", "restored", "undone"}, signals = {}
        PROVE  running = files /\ Valid(files)
    <3>1. NginxRuns /\ PhpRuns /\ Valid(files)
      BY <1>1, <2>1, FreeIsIdle DEF FilesInv, ServersFit
    <3>2. running.map = files.map /\ running.pools = files.pools
      BY <2>1, <3>1 DEF NginxRuns, PhpRuns
    <3> QED
      BY <1>1, <3>1, <3>2 DEF FilesInv, LockInv, TypeOK, Config
  <2> QED
    BY <2>1 DEF Settled
<1> QED
  BY <1>1, FilesInvariant, PTL
=============================================================================
