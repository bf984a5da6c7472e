---------------------------- MODULE MCJobManager ----------------------------
(***************************************************************************)
(* Small instances of JobManager: a submission that conflicts with each of *)
(* two others that do not conflict with one another; one of those two is   *)
(* the only type a standby executes, the other may carry an idempotency    *)
(* key longer than 200 characters, as maintenance of many sites does.      *)
(***************************************************************************)
EXTENDS JobManager

CONSTANTS transfer, maintenance, verify,   \* job types
          heavy, storage,                  \* conflict keys
          manySites, verifyKey             \* idempotency keys

Transfer == [type |-> transfer, conflicts |-> {heavy, storage}, key |-> NoKey,
             cancellable |-> FALSE, retryable |-> FALSE]
Maintenance == [type |-> maintenance, conflicts |-> {heavy}, key |-> manySites,
                cancellable |-> TRUE, retryable |-> TRUE]
Verify == [type |-> verify, conflicts |-> {storage}, key |-> verifyKey,
           cancellable |-> TRUE, retryable |-> TRUE]

MCRequests == {Transfer, Maintenance, Verify}
MCAwaited == {maintenance}
MCAllowlist == {verify}
MCLongKeys == {manySites}
=============================================================================
