----------------------------- MODULE TunnelCutover -----------------------------
(***************************************************************************)
(* The public cutover of a promoted standby,                               *)
(* ui-manager/app/lib/tunnel-cutover.js, run by scripts/tunnel-cutover.sh: *)
(* apply and rollback as sequences of Cloudflare calls and of writes of    *)
(* tunnel-cutover.json and promotion-state.json, any of which may fail,    *)
(* with a process that may die between any two of them.                    *)
(*                                                                         *)
(* Hosts are numbered in the order of the sorted host list.  The tunnel    *)
(* configuration is replaced as a whole and is told apart by where it      *)
(* routes each host, "old" or "hp"; a host has one DNS record, to "old" or *)
(* "hp", or "none".  A record that was deleted and created again counts as *)
(* the same one, and reading the whole plan is one step.  Blocked          *)
(* hostnames only make planning fail.                                      *)
(***************************************************************************)
EXTENDS Naturals

CONSTANTS
    NumHosts,        \* how many hostnames are cut over
    Cli,             \* processes that may run tunnel-cutover.sh
    MaxRuns,         \* bound: commands given, all processes together
    MaxApiFaults,    \* bound: Cloudflare calls that fail
    MaxWriteFaults,  \* bound: file writes that fail
    MaxDeaths       \* bound: processes that die

Hosts == 1 .. NumHosts

ASSUME TunnelCutoverAssumption ==
    /\ NumHosts \in Nat \ {0} /\ MaxRuns \in Nat
    /\ MaxApiFaults \in Nat /\ MaxWriteFaults \in Nat /\ MaxDeaths \in Nat

VARIABLES
    public,  \* Cloudflare: [routes, dns], each a function of the host
    file,    \* tunnel-cutover.json: [status, previous], status "none" without the file
    flag,    \* public_ingress_cutover of promotion-state.json
    run,     \* run[p]: [pc, command, previous, next, failed], next the host at hand,
             \* failed that the undoing of an apply failed
    runs, apiFaults, writeFaults, deaths,
    before,  \* history: the public state before the first cutover
    undone   \* history: an undoing began since the last active state was written

counters == <<runs, apiFaults, writeFaults, deaths>>
tunnelVars == <<public, file, flag, run, counters, before, undone>>

Public == [routes : [Hosts -> {"old", "hp"}], dns : [Hosts -> {"none", "old", "hp"}]]

(* Mutant: hosts counted from zero.                                        *)
IdleAtZero == [pc |-> "idle", command |-> "none", previous |-> before, next |-> 0,
               failed |-> FALSE]

Idle == [pc |-> "idle", command |-> "none", previous |-> before, next |-> 1, failed |-> FALSE]

-----------------------------------------------------------------------------
Go(p, step) == run' = [run EXCEPT ![p].pc = step]
Ends(p) == run' = [run EXCEPT ![p] = Idle]

ApiFault ==
    /\ apiFaults < MaxApiFaults /\ apiFaults' = apiFaults + 1
    /\ UNCHANGED <<runs, writeFaults, deaths>>
WriteFault ==
    /\ writeFaults < MaxWriteFaults /\ writeFaults' = writeFaults + 1
    /\ UNCHANGED <<runs, apiFaults, deaths>>

NoCall == UNCHANGED <<public, undone, before>>
NoWrite == UNCHANGED <<file, flag>>
Quiet == NoCall /\ NoWrite /\ UNCHANGED counters

(* The step the host at hand leads to once it is done.                     *)
Onward(p, again, done) ==
    run' = IF run[p].next < NumHosts
           THEN [run EXCEPT ![p].pc = again, ![p].next = @ + 1]
           ELSE [run EXCEPT ![p].pc = done, ![p].next = 1]

AllHp == [routes |-> [h \in Hosts |-> "hp"], dns |-> [h \in Hosts |-> "hp"]]
Routed(config) == public' = [public EXCEPT !.routes = config] /\ UNCHANGED before
Named(h, target) == public' = [public EXCEPT !.dns[h] = target] /\ UNCHANGED before

-----------------------------------------------------------------------------
(* apply                                                                   *)

(* Mutant: a failed rollback counts as a finished one.                     *)
ArchivableFailed == {"none", "rolled-back", "rollback-failed"}

Archivable == {"none", "rolled-back"}

(* Refused over a state that is not rolled back.                           *)
ApplyBegins(p) ==
    /\ run[p].pc = "idle" /\ runs < MaxRuns /\ file.status \in Archivable
    /\ runs' = runs + 1
    /\ run' = [run EXCEPT ![p] = [Idle EXCEPT !.command = "apply",
                 !.pc = IF file.status = "none" THEN "planning" ELSE "archiving"]]
    /\ UNCHANGED <<apiFaults, writeFaults, deaths>> /\ NoCall /\ NoWrite

Archives(p) ==
    /\ run[p].pc = "archiving" /\ file.status # "none"
    /\ file' = [status |-> "none", previous |-> before]
    /\ Go(p, "planning")
    /\ NoCall /\ UNCHANGED <<flag, counters>>

(* The plan holds the tunnel configuration and the records as they are.    *)
Plans(p) ==
    /\ run[p].pc = "planning"
    /\ run' = [run EXCEPT ![p].pc = "recording", ![p].previous = public]
    /\ Quiet

Records(p) ==
    /\ run[p].pc = "recording"
    /\ file' = [status |-> "applying", previous |-> run[p].previous]
    /\ Go(p, "routing")
    /\ NoCall /\ UNCHANGED <<flag, counters>>

(* What fails before the state is recorded changes nothing.                *)
ApplyRefused(p) ==
    /\ \/ run[p].pc = "archiving" /\ file.status = "none" /\ UNCHANGED counters
       \/ run[p].pc = "planning" /\ ApiFault
       \/ run[p].pc = "recording" /\ WriteFault
    /\ Ends(p)
    /\ NoCall /\ NoWrite

Routes(p) ==
    /\ run[p].pc = "routing"
    /\ Routed(AllHp.routes)
    /\ Go(p, "deleting")
    /\ NoWrite /\ UNCHANGED <<counters, undone>>

(* replaceDns: the records of the plan are deleted,                        *)
Deletes(p) ==
    LET h == run[p].next IN
    /\ run[p].pc = "deleting"
    /\ run[p].previous.dns[h] \in {"none", public.dns[h]}
    /\ IF run[p].previous.dns[h] = "none" THEN UNCHANGED <<public, before>> ELSE Named(h, "none")
    /\ Go(p, "creating")
    /\ NoWrite /\ UNCHANGED <<counters, undone>>

(* and one to the tunnel is created, unless there is a record.             *)
Creates(p) ==
    LET h == run[p].next IN
    /\ run[p].pc = "creating" /\ public.dns[h] = "none"
    /\ Named(h, "hp")
    /\ Onward(p, "deleting", "verifying")
    /\ NoWrite /\ UNCHANGED <<counters, undone>>

Verifies(p) ==
    /\ run[p].pc = "verifying" /\ public = AllHp
    /\ Go(p, "activating")
    /\ Quiet

(* Mutant: the two files are written in the other order.                   *)
FlagFirst(p) ==
    \/ /\ run[p].pc = "activating" /\ flag' = TRUE
       /\ Go(p, "flagging")
       /\ UNCHANGED <<public, file, counters, before, undone>>
    \/ /\ run[p].pc = "flagging" /\ file' = [file EXCEPT !.status = "active"] /\ undone' = FALSE
       /\ Ends(p)
       /\ UNCHANGED <<public, flag, counters, before>>

(* The state is written as active, then the flag of the promotion.         *)
Completes(p) ==
    \/ /\ run[p].pc = "activating"
       /\ file' = [status |-> "active", previous |-> run[p].previous] /\ undone' = FALSE
       /\ Go(p, "flagging")
       /\ UNCHANGED <<public, flag, counters, before>>
    \/ /\ run[p].pc = "flagging" /\ flag' = TRUE
       /\ Ends(p)
       /\ UNCHANGED <<public, file, counters, before, undone>>

(* Another process changed what this one planned for: a record is gone or  *)
(* in the way, or the verification does not match.                         *)
Disturbed(p) ==
    LET h == run[p].next IN
    \/ run[p].pc = "deleting" /\ run[p].previous.dns[h] \notin {"none", public.dns[h]}
    \/ run[p].pc \in {"creating", "restoring"} /\ public.dns[h] # "none"
    \/ run[p].pc = "verifying" /\ public # AllHp

(* Mutant: a failure is only logged.                                       *)
CaughtSoft(p) ==
    /\ run' = [run EXCEPT ![p].pc = "activating", ![p].next = 1]
    /\ UNCHANGED undone

Caught(p) ==
    /\ run' = [run EXCEPT ![p].pc = "unrouting", ![p].next = 1]
    /\ undone' = TRUE

(* A call that fails, whether or not it took effect, and a write that      *)
(* fails lead to the undoing.                                              *)
ApplyFails(p) ==
    LET h == run[p].next IN
    /\ \/ run[p].pc = "routing" /\ (Routed(AllHp.routes) \/ UNCHANGED <<public, before>>) /\ ApiFault
       \/ run[p].pc = "deleting" /\ run[p].previous.dns[h] # "none"
          /\ (Named(h, "none") \/ UNCHANGED <<public, before>>) /\ ApiFault
       \/ run[p].pc = "creating" /\ public.dns[h] = "none"
          /\ (Named(h, "hp") \/ UNCHANGED <<public, before>>) /\ ApiFault
       \/ run[p].pc = "verifying" /\ UNCHANGED <<public, before>> /\ ApiFault
       \/ run[p].pc \in {"activating", "flagging"} /\ UNCHANGED <<public, before>> /\ WriteFault
       \/ run[p].command = "apply" /\ run[p].pc # "restoring" /\ Disturbed(p)
          /\ UNCHANGED <<public, before, counters>>
    /\ Caught(p)
    /\ NoWrite

-----------------------------------------------------------------------------
(* Undoing, of a failed apply and of the rollback command.                 *)

RollbackBegins(p) ==
    /\ run[p].pc = "idle" /\ runs < MaxRuns
    /\ file.status \in {"active", "rollback-failed"}
    /\ runs' = runs + 1
    /\ run' = [run EXCEPT ![p] = [Idle EXCEPT !.pc = "unrouting", !.command = "rollback",
                                              !.previous = file.previous]]
    /\ undone' = TRUE
    /\ UNCHANGED <<public, before, apiFaults, writeFaults, deaths>> /\ NoWrite

Unroutes(p) ==
    /\ run[p].pc = "unrouting"
    /\ Routed(run[p].previous.routes)
    /\ Go(p, "clearing")
    /\ NoWrite /\ UNCHANGED <<counters, undone>>

(* restoreDns: whatever record there is is deleted,                        *)
Clears(p) ==
    /\ run[p].pc = "clearing"
    /\ Named(run[p].next, "none")
    /\ Go(p, "restoring")
    /\ NoWrite /\ UNCHANGED <<counters, undone>>

(* Mutant: the records are created from what is there now.                 *)
TargetNow(p, h) == public.dns[h]

Target(p, h) == run[p].previous.dns[h]

(* and the recorded one is created.                                        *)
Restores(p) ==
    LET h == run[p].next IN
    /\ run[p].pc = "restoring" /\ public.dns[h] = "none"
    /\ Named(h, Target(p, h))
    /\ Onward(p, "clearing", "closing")
    /\ NoWrite /\ UNCHANGED <<counters, undone>>

(* A failed undoing of an apply is noted, and ends a rollback.             *)
Gives(p) ==
    IF run[p].command = "apply"
    THEN run' = [run EXCEPT ![p].pc = "closing", ![p].failed = TRUE]
    ELSE Ends(p)

UndoFails(p) ==
    LET h == run[p].next IN
    /\ \/ run[p].pc = "unrouting" /\ ApiFault
          /\ (Routed(run[p].previous.routes) \/ UNCHANGED <<public, before>>)
       \/ run[p].pc = "clearing" /\ ApiFault
          /\ (Named(h, "none") \/ UNCHANGED <<public, before>>)
       \/ run[p].pc = "restoring" /\ public.dns[h] = "none" /\ Target(p, h) # "none" /\ ApiFault
          /\ (Named(h, Target(p, h)) \/ UNCHANGED <<public, before>>)
       \/ run[p].pc = "restoring" /\ Disturbed(p) /\ UNCHANGED <<public, before, counters>>
    /\ Gives(p)
    /\ UNCHANGED undone /\ NoWrite

(* The outcome is written; a rollback goes on to the flag.                 *)
Closes(p) ==
    /\ run[p].pc = "closing"
    /\ file' = [status |-> IF run[p].failed THEN "rollback-failed" ELSE "rolled-back",
                previous |-> run[p].previous]
    /\ IF run[p].command = "apply" THEN Ends(p) ELSE Go(p, "unflagging")
    /\ NoCall /\ UNCHANGED <<flag, counters>>

Unflags(p) ==
    /\ run[p].pc = "unflagging"
    /\ flag' = FALSE
    /\ Ends(p)
    /\ NoCall /\ UNCHANGED <<file, counters>>

CloseFails(p) ==
    /\ run[p].pc \in {"closing", "unflagging"}
    /\ WriteFault
    /\ Ends(p)
    /\ NoCall /\ NoWrite

-----------------------------------------------------------------------------
Dies(p) ==
    /\ run[p].pc # "idle" /\ deaths < MaxDeaths
    /\ deaths' = deaths + 1
    /\ Ends(p)
    /\ NoCall /\ NoWrite /\ UNCHANGED <<runs, apiFaults, writeFaults>>

(* automatic-failover.sh: an active state repairs the flag.                *)
Repairs ==
    /\ file.status = "active" /\ ~flag
    /\ flag' = TRUE
    /\ UNCHANGED <<public, file, run, counters, before, undone>>

TunnelInit ==
    /\ before \in [routes : {[h \in Hosts |-> "old"]}, dns : [Hosts -> {"none", "old"}]]
    /\ public = before
    /\ file = [status |-> "none", previous |-> before]
    /\ flag = FALSE /\ undone = FALSE
    /\ run = [p \in Cli |-> Idle]
    /\ runs = 0 /\ apiFaults = 0 /\ writeFaults = 0 /\ deaths = 0

Apply(p) ==
    \/ ApplyBegins(p) \/ Archives(p) \/ Plans(p) \/ Records(p) \/ ApplyRefused(p)
    \/ Routes(p) \/ Deletes(p) \/ Creates(p) \/ Verifies(p) \/ Completes(p)
    \/ ApplyFails(p)

Undo(p) ==
    \/ RollbackBegins(p) \/ Unroutes(p) \/ Clears(p) \/ Restores(p) \/ UndoFails(p)
    \/ Closes(p) \/ Unflags(p) \/ CloseFails(p)

TunnelNext == (\E p \in Cli : Apply(p) \/ Undo(p) \/ Dies(p)) \/ Repairs

TunnelSpec == TunnelInit /\ [][TunnelNext]_tunnelVars

-----------------------------------------------------------------------------
TunnelTypeOK ==
    /\ public \in Public /\ before \in Public
    /\ file \in [status : {"none", "applying", "active", "rolled-back", "rollback-failed"},
                 previous : Public]
    /\ flag \in BOOLEAN /\ undone \in BOOLEAN
    /\ run \in [Cli -> [pc : {"idle", "archiving", "planning", "recording", "routing", "deleting",
                              "creating", "verifying", "activating", "flagging", "unrouting",
                              "clearing", "restoring", "closing", "unflagging"},
                        command : {"none", "apply", "rollback"}, previous : Public,
                        next : Hosts, failed : BOOLEAN]]
    /\ runs \in 0 .. MaxRuns /\ apiFaults \in 0 .. MaxApiFaults
    /\ writeFaults \in 0 .. MaxWriteFaults /\ deaths \in 0 .. MaxDeaths

(* "It preserves the exact previous tunnel configuration and DNS payloads  *)
(* in the root-only machine-local tunnel-cutover.json receipt"             *)
(* (docs/HIGH_AVAILABILITY.md): whatever failed and whoever died, a public *)
(* state other than the original one can be restored from the receipt, and *)
(* a receipt that is not rolled back records the original.                 *)
RecordedOriginal ==
    /\ public # before => file.status \in {"applying", "active", "rollback-failed"}
    /\ file.status \in {"applying", "active", "rollback-failed"} => file.previous = before

(* An active receipt, from which a promotion is reported as complete,      *)
(* means that every host is routed and named to HP, until an undoing of it *)
(* has begun.                                                              *)
ActiveIsPublic == file.status = "active" /\ ~undone => public = AllHp

(* The flag of the promotion never runs ahead of the receipt: a crash or a *)
(* failed write between the two files leaves the repairable one behind.    *)
FlagAfterActive == flag /\ ~undone => file.status = "active"
=============================================================================
