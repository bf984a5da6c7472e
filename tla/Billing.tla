-------------------------------- MODULE Billing --------------------------------
(***************************************************************************)
(* Payment links of one hosting service: billing-service/app/lib/          *)
(* payments.js, payment-reconciler.js and the parts of database.js they    *)
(* use, with the requests of server.js that reach them and with the        *)
(* WooCommerce store they talk to.                                         *)
(*                                                                         *)
(* JavaScript between two awaits is one action; every database transaction *)
(* lies within one.  The awaits are the calls of WooCommerce: such a call  *)
(* may fail, or take effect while its answer is lost.  Dates and the clock *)
(* are numbers of one unit and a renewal extends by one.                   *)
(***************************************************************************)
EXTENDS Naturals, Sequences, FiniteSets

CONSTANTS
    Selections,   \* the selections an operator asks for
    MaxOrders,    \* bound: orders created at WooCommerce
    MaxTime,      \* bound: the clock
    DomainDate,   \* the paid date of the domain to begin with, 0 without one
    LinkLife,     \* how long a payment link is valid
    MaxEvents     \* bound: moves of the store and its customers, changes of the row
                  \* by an operator, failing calls and restarts, all together

ASSUME BillingAssumption ==
    /\ Selections \subseteq {"hosting", "domain", "both"}
    /\ MaxOrders \in Nat /\ MaxTime \in Nat /\ DomainDate \in Nat
    /\ LinkLife \in Nat \ {0}
    /\ MaxEvents \in Nat

VARIABLES
    now,      \* the clock
    service,  \* the row: [paid, manual, archived], paid[line] a date
    links,    \* the payments table, in the order of created_at
    orders,   \* WooCommerce: [status, had], had the statuses an order has had
    caller,   \* a request for a payment link, and the reconciler's
    todo,     \* the candidates the reconciler's run has left
    events,   \* counts what MaxEvents bounds
    heard,    \* history: orders whose completion was accepted for a link
    closed    \* history: orders whose review was ended and not opened again

vars == <<now, service, links, orders, caller, todo, events, heard, closed>>

Line == {"hosting", "domain"}
Callers == {"operator", "reconciler"}
Dates == 0 .. MaxTime + MaxOrders + 1
Orders == 1 .. MaxOrders

LinesOf(selection) == IF selection = "both" THEN Line ELSE {selection}

(* addMonths: from the paid date or today, whichever is later.             *)
Extended(date) == (IF date > now THEN date ELSE now) + 1

Counts == events < MaxEvents /\ events' = events + 1

NoOrder == [status |-> "none", had |-> {}]
Idle == [pc |-> "idle", selection |-> "both", link |-> 0, goal |-> [l \in Line |-> 0],
         order |-> 0, again |-> FALSE]

-----------------------------------------------------------------------------
(* The payments table                                                      *)

ExpiredRows(table) ==
    [i \in DOMAIN table |->
        IF table[i].status = "pending" /\ table[i].expires <= now
        THEN [table[i] EXCEPT !.status = "expired"] ELSE table[i]]

RowsOf(table, selection) == {i \in DOMAIN table : table[i].selection = selection}

(* activePayment, after it has expired what is due; 0 without one.         *)
ActivePayment(table, selection) ==
    LET live == {i \in RowsOf(table, selection) : table[i].status = "pending"}
    IN  IF live = {} THEN 0 ELSE CHOOSE i \in live : \A j \in live : j <= i

(* latestPayment; the empty set without one.                               *)
LatestPayment(table, selection) ==
    {i \in RowsOf(table, selection) : \A j \in RowsOf(table, selection) : j <= i}

-----------------------------------------------------------------------------
(* The reconciler's preview                                                *)

Due(line) ==
    /\ service.paid[line] # 0 /\ service.manual # "exempt"
    /\ \/ service.paid[line] <= now
       \/ line = "hosting" /\ service.manual = "suspended"

Overlaps(a, b) == a = b \/ "both" \in {a, b}

(* The selections preview proposes over an expired table.                  *)
Proposed(table) ==
    LET live(selection) == ActivePayment(table, selection) # 0
        due == {l \in Line : Due(l)}
    IN  IF service.archived \/ live("both") THEN {}
        ELSE IF due = Line /\ ~live("hosting") /\ ~live("domain") THEN {"both"}
        ELSE {l \in due : ~live(l)}

Expired(table, selection) == \E i \in LatestPayment(table, selection) : table[i].status = "expired"

(* An expired link that overlaps blocks a candidate; one of the same       *)
(* selection is refreshed.  Both are decided here, before any call.        *)
Candidates(table) ==
    {[selection |-> s, refresh |-> Expired(table, s)] :
        s \in {s \in Proposed(table) : \A other \in {"hosting", "domain", "both"} \ {s} :
                                          ~(Overlaps(other, s) /\ Expired(table, other))}}

-----------------------------------------------------------------------------
(* Payment links: create, cancel and refreshExpired of payments.js         *)

Becomes(c, record) == caller' = [caller EXCEPT ![c] = record]
Quiet == UNCHANGED <<now, service, heard, closed>>

(* What create refuses at its beginning, over a table that has been        *)
(* expired; replace is the link to be replaced, or 0.                      *)
Admitted(table, selection, replace) ==
    ~service.archived /\ replace = ActivePayment(table, selection)

(* Mutant: every new link is taken for a replacement.                      *)
PlannedReplacing(table, selection, replace) ==
    IF ~Admitted(table, selection, replace) THEN Idle
    ELSE [Idle EXCEPT !.pc = "cancelling", !.selection = selection, !.link = replace]

(* The dates are worked out at the beginning, from the row as it is.       *)
Planned(table, selection, replace) ==
    IF ~Admitted(table, selection, replace) THEN Idle
    ELSE [Idle EXCEPT !.pc = IF replace = 0 THEN "ordering" ELSE "cancelling",
                      !.selection = selection, !.link = replace, !.again = TRUE,
                      !.goal = [l \in Line |-> IF l \in LinesOf(selection)
                                               THEN Extended(service.paid[l]) ELSE 0]]

(* A candidate begins with create, or with refreshExpired.                 *)
Begun(table, candidate) ==
    IF ~candidate.refresh THEN Planned(table, candidate.selection, 0)
    ELSE IF ~Expired(table, candidate.selection) THEN Idle
    ELSE [Idle EXCEPT !.pc = "retiring", !.selection = candidate.selection,
                      !.link = CHOOSE i \in LatestPayment(table, candidate.selection) : TRUE]

(* A request ends with this table; the reconciler goes on to what it has   *)
(* left in the same turn.                                                  *)
Ends(c, table) ==
    IF c = "reconciler" /\ todo # {}
    THEN /\ links' = ExpiredRows(table) /\ todo' = {}
         /\ \E candidate \in todo : Becomes(c, Begun(links', candidate))
    ELSE links' = table /\ Becomes(c, Idle) /\ UNCHANGED todo

Goes(c, pc) == Becomes(c, [caller[c] EXCEPT !.pc = pc]) /\ UNCHANGED todo

Asks(selection, replace) ==
    /\ caller["operator"].pc = "idle"
    /\ links' = ExpiredRows(links)
    /\ Becomes("operator", Planned(links', selection, replace))
    /\ Quiet /\ UNCHANGED <<todo, orders, events>>

(* Cancel on the page: only a pending link.                                *)
AsksCancel(i) ==
    /\ caller["operator"].pc = "idle" /\ links[i].status = "pending"
    /\ Becomes("operator", [Idle EXCEPT !.pc = "cancelling", !.link = i,
                                        !.selection = links[i].selection])
    /\ Quiet /\ UNCHANGED <<links, todo, orders, events>>

(* A run takes its first candidate in the turn of its preview; with one    *)
(* service there are two at most, hosting before domain.                   *)
RunStarts ==
    LET table == ExpiredRows(links)
        found == Candidates(table)
    IN
    /\ caller["reconciler"].pc = "idle"
    /\ links' = table
    /\ \E first \in found :
          /\ first.selection = "domain" => found = {first}
          /\ Becomes("reconciler", Begun(table, first))
          /\ todo' = found \ {first}
    /\ Quiet /\ UNCHANGED <<orders, events>>

(* Mutant: the answer of a cancellation is not looked at.                  *)
CallUnchecked(c) ==
    /\ caller[c].pc \in {"cancelling", "retiring", "ordering"}
    /\ Counts
    /\ IF caller[c].pc = "cancelling" THEN Goes(c, "cancelled") /\ UNCHANGED links
       ELSE Ends(c, links)
    /\ Quiet /\ UNCHANGED orders

(* A call of WooCommerce does nothing and throws.                          *)
CallFails(c) ==
    /\ caller[c].pc \in {"cancelling", "retiring", "ordering"} 
    /\ Counts
    /\ Ends(c, links)
    /\ Quiet /\ UNCHANGED orders

Turns(o, status) ==
    orders' = [orders EXCEPT ![o] = [status |-> status, had |-> @.had \cup {status}]]

(* It has taken effect, and its answer arrives or is lost.                 *)
Answered(c, lost, pc) ==
    IF lost THEN Counts /\ Ends(c, links)
    ELSE Goes(c, pc) /\ UNCHANGED <<links, events>>

(* PUT status=cancelled, whatever the order's status is.                   *)
WooCancels(c, lost) ==
    /\ caller[c].pc \in {"cancelling", "retiring"}
    /\ Turns(links[caller[c].link].order, "cancelled")
    /\ Answered(c, lost, IF caller[c].pc = "cancelling" THEN "cancelled" ELSE "retired")
    /\ Quiet

(* cancelPayment, and for a replacement the new order after it.            *)
Cancels(c) ==
    LET table == [links EXCEPT ![caller[c].link].status = "cancelled"] IN
    /\ caller[c].pc = "cancelled"
    /\ IF links[caller[c].link].status # "pending" THEN Ends(c, links)
       ELSE IF caller[c].again THEN Goes(c, "ordering") /\ links' = table
       ELSE Ends(c, table)
    /\ Quiet /\ UNCHANGED <<orders, events>>

(* cancelExpiredPayment, and the beginning of create in the same turn.     *)
Retires(c) ==
    LET table == ExpiredRows([links EXCEPT ![caller[c].link].status = "cancelled"])
        planned == Planned(table, caller[c].selection, 0)
    IN
    /\ caller[c].pc = "retired"
    /\ IF links[caller[c].link].status # "expired" THEN Ends(c, links)
       ELSE IF planned = Idle THEN Ends(c, table)
       ELSE Becomes(c, planned) /\ links' = table /\ UNCHANGED todo
    /\ Quiet /\ UNCHANGED <<orders, events>>

Used == Cardinality({o \in Orders : orders[o] # NoOrder})

WooCreates(c, lost) ==
    /\ caller[c].pc = "ordering" /\ Used < MaxOrders
    /\ Turns(Used + 1, "pending")
    /\ IF lost THEN Counts /\ Ends(c, links)
       ELSE /\ Becomes(c, [caller[c] EXCEPT !.pc = "recording", !.order = Used + 1])
            /\ UNCHANGED <<links, todo, events>>
    /\ Quiet

(* createPayment.                                                          *)
Records(c) ==
    /\ caller[c].pc = "recording"
    /\ Ends(c, Append(links, [order |-> caller[c].order, selection |-> caller[c].selection,
                              goal |-> caller[c].goal, status |-> "pending",
                              expires |-> now + LinkLife, review |-> FALSE]))
    /\ Quiet /\ UNCHANGED <<orders, events>>

-----------------------------------------------------------------------------
(* Callbacks: processWebhook.  A delivery may come at any time after its   *)
(* event, again under a new delivery ID, and out of order; a second        *)
(* delivery with the same ID changes nothing.                              *)

LinksOf(o) == {i \in DOMAIN links : links[i].order = o}

(* requireReview: a pending link is withdrawn if disable is set.           *)
Reviewed(i, disable) ==
    [links EXCEPT ![i].review = TRUE,
                  ![i].status = IF disable /\ @ = "pending" THEN "review" ELSE @]

Extends(i) ==
    service' = [service EXCEPT
        !.paid = [l \in Line |-> IF l \in LinesOf(links[i].selection)
                                 THEN links[i].goal[l] ELSE @[l]]]

(* Mutant: a completion after the link expired or was cancelled is ignored.*)
PaidDeliveredLate(i, right) ==
    /\ heard' = heard \cup {links[i].order}
    /\ IF links[i].status # "pending" THEN UNCHANGED <<links, service>>
       ELSE IF ~right THEN links' = Reviewed(i, TRUE) /\ UNCHANGED service
       ELSE /\ links' = [links EXCEPT ![i].status = "paid"]
            /\ Extends(i)

(* Mutant: the amount is not compared.                                     *)
PaidDeliveredAny(i, right) ==
    /\ heard' = heard \cup {links[i].order}
    /\ IF links[i].status = "paid" THEN UNCHANGED <<links, service>>
       ELSE IF links[i].status # "pending" THEN links' = Reviewed(i, FALSE) /\ UNCHANGED service
       ELSE /\ links' = [links EXCEPT ![i].status = "paid"]
            /\ Extends(i)

PaidDelivered(i, right) ==
    /\ heard' = heard \cup {links[i].order}
    /\ IF ~right THEN links' = Reviewed(i, TRUE) /\ UNCHANGED service
       ELSE IF links[i].status = "paid" THEN UNCHANGED <<links, service>>
       ELSE IF links[i].status # "pending" THEN links' = Reviewed(i, FALSE) /\ UNCHANGED service
       ELSE /\ links' = [links EXCEPT ![i].status = "paid"]
            /\ Extends(i)

UndoneDelivered(i, status) ==
    /\ links' = IF status = "cancelled" /\ links[i].status = "cancelled" THEN links
                ELSE Reviewed(i, TRUE)
    /\ UNCHANGED <<service, heard>>

Delivered(o, status) ==
    /\ status \in orders[o].had
    /\ \E i \in LinksOf(o) :
          /\ \/ status \in {"completed", "mispaid"} /\ PaidDelivered(i, status = "completed")
             \/ status \in {"cancelled", "failed"} /\ UndoneDelivered(i, status)
          /\ closed' = IF links'[i].review THEN closed \ {o} ELSE closed
    /\ UNCHANGED <<now, orders, caller, todo, events>>

-----------------------------------------------------------------------------
(* The store and its customers.  "completed" stands for processing too,    *)
(* "mispaid" for a completion of another amount or currency, "failed" for  *)
(* failed and refunded, which the service treats alike.                    *)

(* A payment under way can complete on an order that was cancelled.        *)
CustomerPays(o, status) ==
    /\ orders[o].status \in {"pending", "failed", "cancelled"}
    /\ orders[o].had \cap {"completed", "mispaid"} = {}
    /\ Counts
    /\ Turns(o, status)
    /\ UNCHANGED <<now, service, links, caller, todo, heard, closed>>

ShopTurns(o, status) ==
    /\ \/ orders[o].status = "pending" /\ status = "failed"
       \/ orders[o].status = "completed" /\ status \in {"failed", "cancelled"}
    /\ Counts
    /\ Turns(o, status)
    /\ UNCHANGED <<now, service, links, caller, todo, heard, closed>>

-----------------------------------------------------------------------------
(* The operator's changes of the row.  Each carries the updated_at of its  *)
(* page and is refused unless the row still has it, so it is made of the   *)
(* row as it is; updateService writes every field, the others one.         *)
Changes ==
    /\ \/ \E l \in Line, date \in {0, now + 1} : service' = [service EXCEPT !.paid[l] = date]
       \/ service' = [service EXCEPT !.archived = ~@]
       \/ \E state \in {"", "exempt", "suspended"} :
             ~service.archived /\ service' = [service EXCEPT !.manual = state]
    /\ service' # service
    /\ Counts
    /\ UNCHANGED <<now, links, orders, caller, todo, heard, closed>>

(* importServices writes every field, whatever the row has become since    *)
(* the CSV was previewed; one CSV stands for all.                          *)
Imports ==
    /\ service' = [paid |-> [l \in Line |-> IF service.paid[l] = 0 THEN 0 ELSE now],
                   manual |-> "", archived |-> FALSE]
    /\ service' # service
    /\ Counts
    /\ UNCHANGED <<now, links, orders, caller, todo, heard, closed>>

(* resolvePaymentReview.                                                   *)
Resolves(i) ==
    /\ links[i].review
    /\ links' = [links EXCEPT ![i].review = FALSE]
    /\ closed' = closed \cup {links[i].order}
    /\ UNCHANGED <<now, service, orders, caller, todo, events, heard>>

(* The renewal page, publicPayments, and the links themselves,             *)
(* resolvePayment and resolvePublicPayment, expire what is due.            *)
Visits ==
    /\ links # ExpiredRows(links) /\ links' = ExpiredRows(links)
    /\ UNCHANGED <<now, service, orders, caller, todo, events, heard, closed>>

Tick ==
    /\ now < MaxTime /\ now' = now + 1
    /\ UNCHANGED <<service, links, orders, caller, todo, events, heard, closed>>

(* The process restarts: calls under way and the run are lost.             *)
Restarts ==
    /\ Counts
    /\ caller' = [c \in Callers |-> Idle] /\ todo' = {}
    /\ \E c \in Callers : caller[c] # Idle
    /\ UNCHANGED <<now, service, links, orders, heard, closed>>

-----------------------------------------------------------------------------
Init ==
    /\ now = 1
    /\ service = [paid |-> [l \in Line |-> IF l = "domain" THEN DomainDate ELSE 1],
                 manual |-> "", archived |-> FALSE]
    /\ links = <<>> /\ orders = [o \in Orders |-> NoOrder]
    /\ caller = [c \in Callers |-> Idle] /\ todo = {}
    /\ events = 0
    /\ heard = {} /\ closed = {}

Calls(c) ==
    \/ CallFails(c) \/ Cancels(c) \/ Retires(c) \/ Records(c)
    \/ \E lost \in BOOLEAN : WooCancels(c, lost) \/ WooCreates(c, lost)

Store ==
    \E o \in Orders, status \in {"completed", "mispaid", "cancelled", "failed"} :
        \/ Delivered(o, status)
        \/ status \in {"completed", "mispaid"} /\ CustomerPays(o, status)
        \/ ShopTurns(o, status)

Requests ==
    \/ \E s \in Selections : Asks(s, 0)
    \/ \E i \in DOMAIN links : Asks(links[i].selection, i) \/ AsksCancel(i) \/ Resolves(i)
    \/ Changes \/ Imports

Next == Requests \/ RunStarts \/ Store \/ Visits \/ Tick \/ Restarts \/ \E c \in Callers : Calls(c)

Spec == Init /\ [][Next]_vars

-----------------------------------------------------------------------------
(* Properties                                                              *)

Statuses == {"none", "pending", "completed", "mispaid", "cancelled", "failed"}
Link == [order : Orders, selection : {"hosting", "domain", "both"}, goal : [Line -> Dates],
         status : {"pending", "expired", "cancelled", "review", "paid"},
         expires : Nat, review : BOOLEAN]

(* The variables have their types.                                         *)
BillingTypeOK ==
    /\ now \in 1 .. MaxTime /\ events \in 0 .. MaxEvents
    /\ service \in [paid : [Line -> Nat], manual : {"", "exempt", "suspended"},
                    archived : BOOLEAN]
    /\ links \in Seq(Link) /\ orders \in [Orders -> [status : Statuses, had : SUBSET Statuses]]
    /\ \A c \in Callers :
          /\ caller[c].pc \in {"idle", "cancelling", "cancelled", "retiring", "retired",
                             "ordering", "recording"}
          /\ caller[c].pc \in {"cancelling", "cancelled", "retiring", "retired"}
                => caller[c].link \in DOMAIN links
          /\ caller[c].pc = "recording" => caller[c].order \in Orders
    /\ heard \subseteq Orders /\ closed \subseteq Orders

(* processWebhook: an order whose completion was delivered has extended    *)
(* the service, or its link is marked for review until an operator ends    *)
(* the review, whatever became of the link before or since.                *)
MoneyAccounted ==
    \A i \in DOMAIN links : links[i].order \in heard =>
        links[i].status = "paid" \/ links[i].review \/ links[i].order \in closed

(* cancel, replace and refresh: a link is cancelled only after WooCommerce *)
(* has cancelled its order, with answers lost, requests at once and        *)
(* restarts between the two.                                               *)
CancelledAtStore ==
    \A i \in DOMAIN links : links[i].status = "cancelled" => "cancelled" \in orders[links[i].order].had

(* The service keeps the promise of PaymentLedger.                         *)
Ledger == INSTANCE PaymentLedger WITH
    earned <- {o \in Orders : "completed" \in orders[o].had},
    settled <- {o \in Orders : \E i \in LinksOf(o) : links[i].status = "paid"},
    open <- {o \in Orders : \E i \in LinksOf(o) : links[i].review},
    closed <- closed
LedgerSpec == Ledger!Spec

(* docs/BILLING.md: one unexpired pending link per service and selection.  *)
OneActiveLink ==
    \A i, j \in DOMAIN links :
        /\ links[i].status = "pending" /\ links[i].expires > now
        /\ links[j].status = "pending" /\ links[j].expires > now
        /\ links[i].selection = links[j].selection
        => i = j

(* docs/BILLING.md: callbacks do not silently shorten service.             *)
PaymentNeverShortens ==
    [][heard' # heard => \A l \in Line : service.paid[l] <= service'.paid[l]]_vars
================================================================================
