-------------------------------- MODULE Witness --------------------------------
(***************************************************************************)
(* The fencing witness, witness-worker/src/worker.js: one Durable Object   *)
(* that serialises lease renewals of the writable primary, fence requests  *)
(* of the standby and resets by an operator.                               *)
(*                                                                         *)
(* Time is a counter of ticks, 0 standing for a time that was never set; a *)
(* recovery identifier is a number, later ones being larger, and 0 is no   *)
(* identifier.  Receipts are taken as authentic: tokens and signatures are *)
(* left out.                                                               *)
(***************************************************************************)
EXTENDS Naturals

CONSTANTS
    Servers,      \* the primary identities a caller may name
    NoServer,     \* the witness has not bound an identity yet
    LeaseTTL,     \* LEASE_TTL_SECONDS in ticks
    ReceiptTTL,   \* RECEIPT_TTL_SECONDS in ticks
    MaxTime,      \* bound: the clock stops here
    MaxRecovery   \* bound: number of recovery points

Recoveries == 1 .. MaxRecovery

ASSUME WitnessAssumption ==
    /\ LeaseTTL \in Nat \ {0} /\ ReceiptTTL \in Nat \ {0}
    /\ MaxTime \in Nat /\ MaxRecovery \in Nat
    /\ NoServer \notin Servers

VARIABLES
    now,       \* the clock
    witness,   \* the stored state: [owner, lease, fenced, last]
    promised,  \* history: the latest expiry of a lease the witness ever answered with
    receipts   \* history: the receipts answered, each [recovery, fencedAt]

witnessVars == <<now, witness, promised, receipts>>

-----------------------------------------------------------------------------
MayName(s) == witness.owner \in {NoServer, s}

(* Mutant: a fenced primary may renew.                                     *)
MayLeaseAnyway(s) == MayName(s)

(* /lease: refused to another identity and to a fenced primary.            *)
MayLease(s) == MayName(s) /\ ~witness.fenced

(* Mutant: the stored record lacks a field.                                *)
LeasedBare(s) == [owner |-> s, lease |-> now + LeaseTTL, fenced |-> FALSE]

(* The state /lease stores: a new record, without the last recovery point. *)
Leased(s) == [owner |-> s, lease |-> now + LeaseTTL, fenced |-> FALSE, last |-> 0]

(* Mutant: the lease is not looked at.                                     *)
MayFenceLeased(s, r) == MayName(s) /\ r > witness.last

(* /fence: refused while the lease is active, and to a recovery point that *)
(* is not newer than the last one granted.                                 *)
MayFence(s, r) == MayName(s) /\ witness.lease <= now /\ r > witness.last

Fenced(s, r) == [witness EXCEPT !.owner = s, !.fenced = TRUE, !.last = r]

(* /reset keeps the last recovery point and drops the lease.               *)
Cleared(s) == [owner |-> s, lease |-> 0, fenced |-> FALSE, last |-> witness.last]

-----------------------------------------------------------------------------
Lease(s) ==
    /\ MayLease(s)
    /\ witness' = Leased(s)
    /\ promised' = now + LeaseTTL
    /\ UNCHANGED <<now, receipts>>

(* The receipt is signed and the state stored before the answer leaves, so *)
(* an answer that gets lost was still granted.                             *)
Fence(s, r) ==
    /\ MayFence(s, r)
    /\ witness' = Fenced(s, r)
    /\ receipts' = receipts \cup {[recovery |-> r, fencedAt |-> now]}
    /\ UNCHANGED <<now, promised>>

(* The code resets in any state; the operator does it "after controlled    *)
(* rebuild/failback" (docs/OPERATIONS.md), that is to a fenced witness.    *)
Reset(s) ==
    /\ witness.fenced
    /\ witness' = Cleared(s)
    /\ UNCHANGED <<now, promised, receipts>>

Tick ==
    /\ now < MaxTime
    /\ now' = now + 1
    /\ UNCHANGED <<witness, promised, receipts>>

WitnessInit ==
    /\ now = 1
    /\ witness = [owner |-> NoServer, lease |-> 0, fenced |-> FALSE, last |-> 0]
    /\ promised = 0
    /\ receipts = {}

WitnessNext ==
    \/ \E s \in Servers : Lease(s) \/ Reset(s) \/ \E r \in Recoveries : Fence(s, r)
    \/ Tick

WitnessSpec == WitnessInit /\ [][WitnessNext]_witnessVars

-----------------------------------------------------------------------------
WitnessTypeOK ==
    /\ now \in Nat /\ promised \in Nat
    /\ witness \in [owner : Servers \cup {NoServer}, lease : Nat, fenced : BOOLEAN,
                    last : {0} \cup Recoveries]
    /\ receipts \subseteq [recovery : Recoveries, fencedAt : Nat]

(* "HP cannot obtain a receipt while the primary lease remains active"     *)
(* (docs/OPERATIONS.md): no lease the witness ever answered with, whether  *)
(* or not the answer arrived, outlives the fencing, until it is reset.     *)
FencedOutlivesLease ==
    witness.fenced => \E c \in receipts : c.recovery = witness.last /\ promised <= c.fencedAt

(* The receipt is returned "exactly once" (docs/HIGH_AVAILABILITY.md) and  *)
(* is "bound to a newer recovery point" (witness-worker/README.md): two    *)
(* receipts never name the same recovery point.                            *)
ReceiptOnce == \A a, b \in receipts : a.recovery = b.recovery => a = b
=============================================================================
