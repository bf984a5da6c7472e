------------------------------- MODULE Notices -------------------------------
(***************************************************************************)
(* What the system tells its operators, and what they tell it: the queue   *)
(* of notices (ui-manager/app/lib/notification-manager.js), the watchers   *)
(* that fill it - ends of jobs, health-monitor.js, the status of automatic *)
(* failover and of replication, the reminders of the billing service       *)
(* (billing-service/app/lib/reminders.js) - and the commands of Telegram   *)
(* (telegram-command-manager.js), whose confirmed operations are jobs.     *)
(*                                                                         *)
(* The panel and billing are two processes that crash and restart on their *)
(* own.  Files are written by synchronous code: nothing of the same        *)
(* process comes in between, but a crash may.                              *)
(*                                                                         *)
(* An event is [about, says, id]; its dedupe key is the event itself.  ID  *)
(* is a fresh number where the code takes a fresh UUID or a time.          *)
(***************************************************************************)
EXTENDS Naturals, Sequences, FiniteSets, SequencesExt

CONSTANTS
    Checked,     \* what the health monitor checks
    Watched,     \* files with a status: automatic failover, replication
    Bills,       \* reminder keys: a service, its paid-through date and its state
    Job,         \* what the end of a job is about
    Chats,       \* how many Telegram chats the settings name
    Retries,     \* the length of retryDelaysMs
    MaxHistory,  \* NOTIFICATION_HISTORY_LIMIT
    MaxInputs,   \* bound: what operators and the outside world do
    MaxFaults,   \* bound: calls that fail, with or without effect
    MaxCrashes   \* bound: restarts of either process

ASSUME NoticesAssumption ==
    /\ IsFiniteSet(Checked) /\ IsFiniteSet(Bills)
    /\ Chats \in Nat \ {0} /\ Retries \in Nat /\ MaxHistory \in Nat \ {0}
    /\ MaxInputs \in Nat /\ MaxFaults \in Nat /\ MaxCrashes \in Nat

VARIABLES
    queue,      \* deliveries in memory, the newest first: events
    box,        \* the delivery of each event that ever had one
    saved,      \* notification-deliveries.json: [queue, box]
    sender,     \* the pass of process() that runs
    world,      \* how what is checked or watched is
    active,     \* health-state.json, and what the watchers wrote: what each holds
    findings,   \* None, or what the health check that runs has found
    last,       \* history: what the last event about each said
    hit,        \* history: of which a crash separated the event from the file
    outbox,     \* reminder_outbox
    reminding,  \* the reminder run
    made,       \* history: deliveries ever made for each reminder
    jobs,       \* status of each job
    chat,       \* the updates at Telegram: what the operator said
    bot,        \* memory of the command manager: [offset, code, batch, reply]
    cursor,     \* telegram-command-state.json
    codes,      \* codes issued, and those the operator has seen
    done,       \* history: codes whose operation was executed, in order
    stamp,      \* fresh IDs
    inputs, faults, crashes

Queue == <<queue, box, saved>>
Health == <<world, active, findings, last, hit>>
Reminders == <<outbox, reminding, made>>
Telegram == <<chat, bot, cursor, codes, done>>
Bounds == <<inputs, faults, crashes>>
noticesVars == <<Queue, sender, Health, Reminders, Telegram, jobs, stamp, Bounds>>

Subjects == Checked \cup Watched
Levels == {"ok", "warning", "critical"}
Event(about, says, id) == [about |-> about, says |-> says, id |-> id]
NoPass == [pc |-> "idle"]
Channels == <<"telegram", "smtp">>

Input == inputs < MaxInputs /\ inputs' = inputs + 1 /\ UNCHANGED <<faults, crashes>>
Right == UNCHANGED Bounds
Fault == faults < MaxFaults /\ faults' = faults + 1 /\ UNCHANGED <<inputs, crashes>>
Dies == crashes < MaxCrashes /\ crashes' = crashes + 1 /\ UNCHANGED <<inputs, faults>>

-----------------------------------------------------------------------------
(* The queue.                                                              *)

New == [status |-> "queued", waits |-> FALSE,
        channels |-> [c \in {"telegram", "smtp"} |-> [status |-> "queued", attempts |-> 0]]]

(* Mutant: an event that is in the history is queued again.                *)
KnownNot(e) == FALSE
Known(e) == Contains(queue, e)

Trimmed(q) == IF Len(q) > MaxHistory THEN SubSeq(q, 1, MaxHistory) ELSE q

(* enqueueEvent and captureJob: of new events in their order, and of one   *)
(* that may be known, which changes nothing then.                          *)
Adds(es) ==
    /\ queue' = Trimmed(Reverse(es) \o queue)
    /\ box' = [e \in DOMAIN box \cup ToSet(es) |-> IF e \in ToSet(es) THEN New ELSE box[e]]
    /\ saved' = [queue |-> queue', box |-> box']
Enqueues(e) == IF Known(e) THEN UNCHANGED Queue ELSE Adds(<<e>>)

(* Mutant: a delivery that waits for its retry is forgotten.               *)
PendingFirst(e) == box[e].status = "queued"
Pending(e) == box[e].status \in {"queued", "retrying"} /\ ~box[e].waits

(* Mutant: every channel is tried again.                                   *)
UnsentAll(e) == Channels
Unsent(e) == SelectSeq(Channels, LAMBDA c : box[e].channels[c].status # "sent")

Delivery(es) ==
    IF es = <<>> THEN NoPass
    ELSE [pc |-> "on", left |-> es, channels |-> Unsent(Head(es)), to |-> Chats]

Process ==
    /\ sender = NoPass
    /\ \E e \in ToSet(queue) : Pending(e)
    /\ sender' = Delivery(SelectSeq(queue, Pending))
    /\ UNCHANGED <<Queue, Health, Reminders, Telegram, jobs, stamp, Bounds>>

Current == Head(sender.left)
Channel == Head(sender.channels)
LastTo == Channel = "smtp" \/ sender.to = 1
FirstTo == Channel = "smtp" \/ sender.to = Chats

(* One message to one chat, or to all the recipients of a mail.            *)
Tried(status) ==
    box' = [box EXCEPT ![Current].channels[Channel] =
               [attempts |-> IF FirstTo THEN @.attempts + 1 ELSE @.attempts,
                status |-> IF status = "" THEN @.status
                           ELSE IF status = "sent" THEN "sent"
                           ELSE IF @.attempts + (IF FirstTo THEN 1 ELSE 0) > Retries THEN "failed" ELSE "retrying"]]
NextChannel == sender' = [sender EXCEPT !.channels = Tail(@), !.to = Chats]

Send ==
    /\ sender # NoPass /\ sender.channels # <<>>
    /\ \/ /\ Right
          /\ IF LastTo THEN Tried("sent") /\ NextChannel
             ELSE Tried("") /\ sender' = [sender EXCEPT !.to = @ - 1]
       \/ Fault /\ Tried("failed") /\ NextChannel
    /\ UNCHANGED <<queue, saved, Health, Reminders, Telegram, jobs, stamp>>

Outcome(statuses) ==
    IF statuses = {"sent"} THEN "delivered" ELSE IF "retrying" \in statuses THEN "retrying" ELSE "failed"

Settle ==
    LET status == Outcome({box[Current].channels[c].status : c \in {"telegram", "smtp"}}) IN
    /\ sender # NoPass /\ sender.channels = <<>>
    /\ box' = [box EXCEPT ![Current].status = status, ![Current].waits = (status = "retrying")]
    /\ saved' = [queue |-> queue, box |-> box']
    /\ sender' = LET rest == Tail(sender.left) IN
                 IF rest = <<>> THEN NoPass
                 ELSE [pc |-> "on", left |-> rest, channels |-> Unsent(Head(rest)), to |-> Chats]
    /\ UNCHANGED <<queue, Health, Reminders, Telegram, jobs, stamp, Bounds>>

(* nextAttemptAt comes; it is in the file too.                             *)
RetryDue(e) ==
    /\ box[e].waits
    /\ box' = [box EXCEPT ![e].waits = FALSE]
    /\ saved' = [saved EXCEPT !.box[e].waits = FALSE]
    /\ UNCHANGED <<queue, sender, Health, Reminders, Telegram, jobs, stamp, Bounds>>

-----------------------------------------------------------------------------
(* Health, and files with a status.                                        *)

Shifts(s) ==
    /\ Input
    /\ \E l \in Levels \ {world[s]} : world' = [world EXCEPT ![s] = l]
    /\ UNCHANGED <<Queue, sender, active, findings, last, hit, Reminders, Telegram, jobs, stamp>>

Collect ==
    /\ findings = <<>>
    /\ \E s \in Checked : world[s] # active[s]
    /\ findings' = <<[s \in Checked |-> world[s]]>>
    /\ UNCHANGED <<Queue, sender, world, active, last, hit, Reminders, Telegram, jobs, stamp, Bounds>>

(* Mutant: only what opens and what ends is told, not what gets worse.     *)
TransitionEnds(s, found) == (found = "ok") # (active[s] = "ok")
Transition(s, found) == found # active[s]

Told(found, turned) ==
    LET told == SetToSeq(turned) IN
    /\ Adds([n \in DOMAIN told |-> Event(told[n], found[told[n]], stamp + n)])
    /\ stamp' = stamp + Len(told)
    /\ last' = [s \in Subjects |-> IF s \in turned THEN found[s] ELSE last[s]]

(* The file is written after all notices.                                  *)
Reconcile ==
    /\ findings # <<>>
    /\ LET found == findings[1]
           turned == {s \in Checked : Transition(s, found[s])} IN
       /\ Told(found, turned)
       /\ active' = [s \in Subjects |-> IF s \in Checked THEN found[s] ELSE active[s]]
       /\ hit' = hit \ turned
    /\ findings' = <<>>
    /\ UNCHANGED <<sender, world, Reminders, Telegram, jobs, Bounds>>

(* The watchers write what they saw before they tell it.                   *)
Watch(s) ==
    /\ world[s] # active[s]
    /\ Told(world, {s})
    /\ active' = [active EXCEPT ![s] = world[s]] /\ hit' = hit \ {s}
    /\ UNCHANGED <<sender, world, findings, Reminders, Telegram, jobs, Bounds>>

-----------------------------------------------------------------------------
(* Reminders.                                                              *)

FallsDue(b) ==
    /\ Input
    /\ outbox[b] = "none" /\ outbox' = [outbox EXCEPT ![b] = "pending"]
    /\ UNCHANGED <<Queue, sender, Health, reminding, made, Telegram, jobs, stamp>>

(* A run by hand or by the clock takes all that are due and not sent.      *)
RunReminders ==
    /\ reminding = <<>>
    /\ \E b \in Bills : outbox[b] \in {"pending", "failed"}
    /\ reminding' = SetToSeq({b \in Bills : outbox[b] \in {"pending", "failed"}})
    /\ UNCHANGED <<Queue, sender, Health, outbox, made, Telegram, jobs, stamp, Bounds>>

Marks(b, status) == outbox' = [outbox EXCEPT ![b] = status] /\ reminding' = Tail(reminding)
Accepts(b) ==
    LET e == Event(b, "due", 0) IN
    Enqueues(e) /\ made' = [made EXCEPT ![b] = IF Known(e) THEN @ ELSE @ + 1]

SendReminder ==
    /\ reminding # <<>>
    /\ LET b == Head(reminding) IN
       \/ Right /\ Accepts(b) /\ Marks(b, "sent")
       \/ Fault /\ Accepts(b) /\ Marks(b, "failed")
       \/ Fault /\ Marks(b, "failed") /\ UNCHANGED <<Queue, made>>
    /\ UNCHANGED <<sender, Health, Telegram, jobs, stamp>>

(* Before, or after the panel has accepted what is not yet marked.         *)
BillingCrash ==
    /\ reminding # <<>> /\ Dies
    /\ reminding' = <<>>
    /\ \/ UNCHANGED <<Queue, made>>
       \/ Accepts(Head(reminding))
    /\ UNCHANGED <<sender, Health, outbox, Telegram, jobs, stamp>>

-----------------------------------------------------------------------------
(* Commands of Telegram, and jobs.                                         *)

Says(update) ==
    /\ Input
    /\ chat' = Append(chat, update)
    /\ UNCHANGED <<Queue, sender, Health, Reminders, bot, cursor, codes, done, jobs, stamp>>

Seen == codes.seen

Poll ==
    /\ bot.batch = 0 /\ bot.offset < Len(chat)
    /\ bot' = [bot EXCEPT !.batch = Len(chat)]
    /\ UNCHANGED <<Queue, sender, Health, Reminders, chat, cursor, codes, done, jobs, stamp, Bounds>>

Update == chat[bot.offset + 1]
Handles(kind) == bot.offset < bot.batch /\ bot.reply = "none" /\ Update.kind = kind

(* requestMutation: one pending operation per chat and user.               *)
Ask ==
    /\ Handles("ask")
    /\ codes' = [codes EXCEPT !.issued = @ + 1]
    /\ bot' = [bot EXCEPT !.code = codes.issued + 1, !.reply = "code"]
    /\ UNCHANGED <<Queue, sender, Health, Reminders, chat, cursor, done, jobs, stamp, Bounds>>

(* Mutant: any confirmation will do.                                       *)
MatchesAny(code) == bot.code # 0
Matches(code) == bot.code # 0 /\ bot.code = code

(* The code is used up before the operation, which becomes a job, or fails.*)
Confirm ==
    /\ Handles("confirm")
    /\ \/ /\ Matches(Update.code)
          /\ bot' = [bot EXCEPT !.code = 0, !.reply = "text"]
          /\ done' = Append(done, bot.code)
          /\ jobs' = Append(jobs, "running") /\ Right
       \/ /\ Matches(Update.code)
          /\ bot' = [bot EXCEPT !.code = 0, !.reply = "text"]
          /\ UNCHANGED <<done, jobs>> /\ Fault
       \/ /\ ~Matches(Update.code)
          /\ bot' = [bot EXCEPT !.reply = "text"]
          /\ UNCHANGED <<done, jobs>> /\ Right
    /\ UNCHANGED <<Queue, sender, Health, Reminders, chat, cursor, codes, stamp>>

CancelMutation ==
    /\ Handles("cancel")
    /\ bot' = [bot EXCEPT !.code = 0, !.reply = "text"]
    /\ UNCHANGED <<Queue, sender, Health, Reminders, chat, cursor, codes, done, jobs, stamp, Bounds>>

(* A reply that fails leaves the update to be handled again.               *)
Replied == codes' = [codes EXCEPT !.seen = IF bot.reply = "code" THEN @ \cup {codes.issued} ELSE @]
Reply ==
    /\ bot.reply # "none"
    /\ \/ Right /\ Replied /\ bot' = [bot EXCEPT !.offset = @ + 1, !.reply = "none"] /\ UNCHANGED cursor
       \/ /\ Fault /\ (Replied \/ UNCHANGED codes)
          /\ bot' = [bot EXCEPT !.batch = 0, !.reply = "none"] /\ cursor' = bot.offset
    /\ UNCHANGED <<Queue, sender, Health, Reminders, chat, done, jobs, stamp>>

EndBatch ==
    /\ bot.batch # 0 /\ bot.offset = bot.batch
    /\ bot' = [bot EXCEPT !.batch = 0] /\ cursor' = bot.offset
    /\ UNCHANGED <<Queue, sender, Health, Reminders, chat, codes, done, jobs, stamp, Bounds>>

(* confirmationTtlMs has passed.                                           *)
Expire ==
    /\ bot.code # 0 /\ bot' = [bot EXCEPT !.code = 0]
    /\ UNCHANGED <<Queue, sender, Health, Reminders, chat, cursor, codes, done, jobs, stamp, Bounds>>

JobEnds(j) ==
    /\ jobs[j] = "running" /\ jobs' = [jobs EXCEPT ![j] = "ended"]
    /\ Enqueues(Event(Job, "ended", j))
    /\ UNCHANGED <<sender, Health, Reminders, Telegram, stamp, Bounds>>

-----------------------------------------------------------------------------
(* The panel restarts: jobs that ran have failed, and nobody is told; the  *)
(* others were still in the queue.                                         *)

PanelRestarts ==
    /\ Dies
    /\ sender' = NoPass /\ findings' = <<>>
    /\ bot' = [offset |-> cursor, code |-> 0, batch |-> 0, reply |-> "none"]
    /\ \E ran \in SUBSET DOMAIN jobs : jobs' = [j \in DOMAIN jobs |-> IF j \in ran THEN "ended" ELSE jobs[j]]
    /\ UNCHANGED <<world, chat, cursor, codes, done>>

PanelCrash ==
    /\ PanelRestarts
    /\ queue' = saved.queue /\ box' = saved.box
    /\ UNCHANGED <<saved, active, last, hit, Reminders, stamp>>

(* Notices of a check are written, all or some, and its state is not.      *)
CrashOfCheck ==
    /\ findings # <<>> /\ PanelRestarts
    /\ \E turned \in SUBSET {s \in Checked : Transition(s, findings[1][s])} :
          turned # {} /\ Told(findings[1], turned) /\ hit' = hit \cup turned
    /\ UNCHANGED <<active, Reminders>>

(* A watcher's state is written, its notice is not.                        *)
CrashOfWatch(s) ==
    /\ world[s] # active[s] /\ PanelRestarts
    /\ active' = [active EXCEPT ![s] = world[s]] /\ hit' = hit \cup {s}
    /\ queue' = saved.queue /\ box' = saved.box
    /\ UNCHANGED <<saved, last, Reminders, stamp>>

-----------------------------------------------------------------------------
NoticesInit ==
    /\ queue = <<>> /\ box = <<>> /\ saved = [queue |-> <<>>, box |-> <<>>]
    /\ sender = NoPass
    /\ world = [s \in Subjects |-> "ok"] /\ active = world /\ findings = <<>>
    /\ last = world /\ hit = {}
    /\ outbox = [b \in Bills |-> "none"] /\ reminding = <<>> /\ made = [b \in Bills |-> 0]
    /\ jobs = <<>> /\ chat = <<>>
    /\ bot = [offset |-> 0, code |-> 0, batch |-> 0, reply |-> "none"] /\ cursor = 0
    /\ codes = [issued |-> 0, seen |-> {}] /\ done = <<>>
    /\ stamp = 0 /\ inputs = 0 /\ faults = 0 /\ crashes = 0

Sends == Process \/ Send \/ Settle
Polls == Poll \/ Ask \/ Confirm \/ CancelMutation \/ Reply \/ EndBatch
Checks == Collect \/ Reconcile \/ \E s \in Watched : Watch(s)
Reminds == RunReminders \/ SendReminder

NoticesNext ==
    \/ Sends \/ Polls \/ Checks \/ Reminds \/ Expire
    \/ \E e \in DOMAIN box : RetryDue(e)
    \/ \E s \in Subjects : Shifts(s)
    \/ \E s \in Watched : CrashOfWatch(s)
    \/ \E b \in Bills : FallsDue(b)
    \/ \E j \in DOMAIN jobs : JobEnds(j)
    \/ Says([kind |-> "ask"]) \/ Says([kind |-> "cancel"]) \/ (\E c \in Seen : Says([kind |-> "confirm", code |-> c]))
    \/ PanelCrash \/ CrashOfCheck \/ BillingCrash

NoticesSpec == NoticesInit /\ [][NoticesNext]_noticesVars
NoticesFairSpec == NoticesSpec /\ WF_noticesVars(Sends) /\ WF_noticesVars(\E e \in DOMAIN box : RetryDue(e))

-----------------------------------------------------------------------------
(* A channel that has taken a notice is not used again for it as long as   *)
(* the file knows: whatever fails on the other channel, and across         *)
(* restarts.                                                               *)
NeverResent ==
    [][\A e \in ToSet(saved.queue), c \in {"telegram", "smtp"} :
         box'[e].channels[c].attempts > box[e].channels[c].attempts =>
             saved.box[e].channels[c].status # "sent"]_noticesVars

(* The last notice about a check or a watched file says what the panel     *)
(* holds to be so, unless a crash came between the two.                    *)
NoticedTrue == \A s \in Subjects \ hit : last[s] = active[s]

(* However often billing asks, with answers lost and either side dying, a  *)
(* reminder becomes one notice, and one that billing counts as sent has    *)
(* become one.                                                             *)
ReminderOnce == \A b \in Bills : made[b] <= 1 /\ (outbox[b] = "sent" => made[b] = 1)

(* Every queued notice is delivered, has failed, or left the history.      *)
Unsettled == {e \in ToSet(queue) : box[e].status \in {"queued", "retrying"}}
NoticesSettle == Unsettled # {} ~> Unsettled = {}

(* An operation runs at most once per code, and only for a code that its   *)
(* operator sent back, however often an update is handled again.           *)
ConfirmedOnce ==
    /\ Cardinality(ToSet(done)) = Len(done)
    /\ \A n \in DOMAIN done : \E m \in DOMAIN chat : chat[m].kind = "confirm" /\ chat[m].code = done[n]

(* Every job outcome has a delivery record.  One that a restart interrupts *)
(* has none: it fails in the constructor, before anybody listens.          *)
JobNoticed == \A j \in DOMAIN jobs : jobs[j] = "ended" => Event(Job, "ended", j) \in DOMAIN box
=============================================================================
