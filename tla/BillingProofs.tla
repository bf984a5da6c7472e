----------------------------- MODULE BillingProofs -----------------------------
(***************************************************************************)
(* The billing service keeps the promise of PaymentLedger, for any number  *)
(* of orders and of failing calls, any dates and any length of links.      *)
(*                                                                         *)
(* A link pays once because its order is recorded in one link only         *)
(* (OneLink); that in turn rests on what a request has between the         *)
(* creation of an order and its recording (Unrecorded), and on orders      *)
(* being numbered without gaps, as WooCommerce does.                       *)
(*                                                                         *)
(* The second part is about notices, which the service's reminders become. *)
(***************************************************************************)
EXTENDS Billing, Notices, TLAPS, FiniteSetTheorems, SequenceTheorems

Picks == {"hosting", "domain", "both"}
LinkStatuses == {"pending", "expired", "cancelled", "review", "paid"}
Row == [order : Orders, selection : Picks, goal : [Line -> Nat], status : LinkStatuses,
        expires : Nat, review : BOOLEAN]
Pcs == {"idle", "cancelling", "cancelled", "retiring", "retired", "ordering", "recording"}
Linked == {"cancelling", "cancelled", "retiring", "retired"}
Request == [pc : Pcs, selection : Picks, link : Nat, goal : [Line -> Nat], order : Nat,
            again : BOOLEAN]
Candidate == [selection : Picks, refresh : BOOLEAN]

(* What a request of this table may be, before it has an order.            *)
NoOrderYet(request, table) ==
    /\ request \in Request /\ request.pc # "recording"
    /\ request.pc \in Linked => request.link \in DOMAIN table

Typed ==
    /\ now \in Nat
    /\ service \in [paid : [Line -> Nat], manual : {"", "exempt", "suspended"}, archived : BOOLEAN]
    /\ links \in Seq(Row)
    /\ orders \in [Orders -> [status : Statuses, had : SUBSET Statuses]]
    /\ caller \in [Callers -> Request] /\ todo \subseteq Candidate

LinksValid ==
    \A c \in Callers : caller[c].pc \in Linked => caller[c].link \in DOMAIN links

(* Orders are created in their order.                                      *)
Exists(o) == orders[o] # NoOrder
Numbered == \A o \in Orders : Exists(o) => \A p \in 1 .. o : Exists(p)

OneLink ==
    /\ \A i \in DOMAIN links : Exists(links[i].order)
    /\ \A i, j \in DOMAIN links : links[i].order = links[j].order => i = j

(* An order that is about to be recorded has no link, and no other request.*)
Unrecorded ==
    \A c \in Callers : caller[c].pc = "recording" =>
        /\ caller[c].order \in Orders /\ Exists(caller[c].order)
        /\ \A i \in DOMAIN links : links[i].order # caller[c].order
        /\ \A d \in Callers \ {c} :
              caller[d].pc = "recording" => caller[d].order # caller[c].order

(* What was reviewed once is never pending again.                          *)
Withdrawn ==
    /\ \A i \in DOMAIN links : links[i].review => links[i].status # "pending"
    /\ \A o \in closed : \E i \in DOMAIN links : links[i].order = o /\ links[i].status # "pending"

HeardLinked == \A o \in heard : \E i \in DOMAIN links : links[i].order = o

IInv ==
    /\ Typed /\ LinksValid /\ Numbered /\ OneLink /\ Unrecorded
    /\ Withdrawn /\ HeardLinked /\ MoneyAccounted

(* The table still has the same orders, reviews and payments, and nothing  *)
(* in it has become pending again.                                         *)
Kept(old, new) ==
    /\ new \in Seq(Row) /\ DOMAIN new = DOMAIN old
    /\ \A i \in DOMAIN old :
          /\ new[i].order = old[i].order /\ new[i].review = old[i].review
          /\ new[i].status = "paid" <=> old[i].status = "paid"
          /\ new[i].status = "pending" => old[i].status = "pending"

-----------------------------------------------------------------------------
(* The payments table                                                      *)

LEMMA KeptTransitive ==
    ASSUME NEW a \in Seq(Row), NEW b, NEW c, Kept(a, b), Kept(b, c)
    PROVE  Kept(a, c)
  BY DEF Kept

LEMMA KeptSame ==
    ASSUME NEW a \in Seq(Row)
    PROVE  Kept(a, a)
  BY DEF Kept

LEMMA ExpiringKeeps ==
    ASSUME NEW table \in Seq(Row)
    PROVE  Kept(table, ExpiredRows(table))
<1> DEFINE new == ExpiredRows(table)
<1>1. DOMAIN table = 1 .. Len(table) /\ Len(table) \in Nat
      /\ \A i \in DOMAIN table : table[i] \in Row
  BY LenProperties, ElementOfSeq
<1>2. DOMAIN new = DOMAIN table
  BY DEF ExpiredRows
<1>3. ASSUME NEW i \in DOMAIN table
      PROVE  /\ new[i] \in Row
             /\ new[i].order = table[i].order /\ new[i].review = table[i].review
             /\ new[i].status = "paid" <=> table[i].status = "paid"
             /\ new[i].status = "pending" => table[i].status = "pending"
  <2>1. new[i] = IF table[i].status = "pending" /\ table[i].expires <= now
                 THEN [table[i] EXCEPT !.status = "expired"] ELSE table[i]
    BY DEF ExpiredRows
  <2> QED BY <1>1, <2>1 DEF Row, LinkStatuses
<1>4. new \in [1 .. Len(table) -> Row]
  BY <1>1, <1>2, <1>3 DEF ExpiredRows
<1>5. new \in Seq(Row)
  BY <1>1, <1>4, SeqDef
<1> QED BY <1>2, <1>3, <1>5 DEF Kept

LEMMA StatusKeeps ==
    ASSUME NEW table \in Seq(Row), NEW i \in DOMAIN table, NEW status \in {"expired", "cancelled"},
           table[i].status # "paid"
    PROVE  Kept(table, [table EXCEPT ![i].status = status])
<1> DEFINE row == [table[i] EXCEPT !.status = status]
           new == [table EXCEPT ![i] = row]
<1>1. i \in 1 .. Len(table) /\ table[i] \in Row /\ DOMAIN table = 1 .. Len(table)
  BY LenProperties, ElementOfSeq
<1>2. row \in Row /\ row.order = table[i].order /\ row.review = table[i].review /\ row.status = status
  BY <1>1 DEF Row, LinkStatuses
<1>3. /\ new \in Seq(Row) /\ DOMAIN new = DOMAIN table
      /\ \A j \in 1 .. Len(table) : new[j] = IF j = i THEN row ELSE table[j]
  <2> HIDE DEF row
  <2> QED BY <1>1, <1>2, ExceptSeq, LenProperties
<1>4. [table EXCEPT ![i].status = status] = new
  OBVIOUS
<1> HIDE DEF row, new
<1>5. Kept(table, new)
  BY <1>1, <1>2, <1>3 DEF Kept
<1> QED BY <1>4, <1>5

-----------------------------------------------------------------------------
(* Requests                                                                *)

LEMMA IdleIsRequest == Idle \in Request /\ Idle.pc = "idle"
  BY DEF Idle, Request, Pcs, Picks

LEMMA GoalTyped ==
    ASSUME Typed, NEW date \in Nat
    PROVE  Extended(date) \in Nat
<1>1. now \in Nat
  BY DEF Typed
<1> QED BY <1>1 DEF Extended

LEMMA PlannedTyped ==
    ASSUME Typed, NEW table \in Seq(Row), NEW selection \in Picks,
           NEW replace \in {0} \cup DOMAIN table
    PROVE  NoOrderYet(Planned(table, selection, replace), table)
<1> DEFINE goal == [l \in Line |-> IF l \in LinesOf(selection) THEN Extended(service.paid[l]) ELSE 0]
           pc == IF replace = 0 THEN "ordering" ELSE "cancelling"
<1>1. goal \in [Line -> Nat]
  <2>1. \A l \in Line : service.paid[l] \in Nat
    BY DEF Typed
  <2> QED BY <2>1, GoalTyped
<1>2. replace \in Nat
  BY LenProperties
<1>3. pc \in Pcs /\ pc # "recording" /\ (pc \in Linked => replace \in DOMAIN table)
  BY DEF Pcs, Linked
<1>4. CASE ~Admitted(table, selection, replace)
  BY <1>4, IdleIsRequest DEF Planned, NoOrderYet, Linked
<1>5. CASE Admitted(table, selection, replace)
  <2> DEFINE r == [Idle EXCEPT !.pc = pc, !.selection = selection, !.link = replace,
                               !.again = TRUE, !.goal = goal]
  <2>1. Planned(table, selection, replace) = r
    BY <1>5 DEF Planned
  <2> HIDE DEF pc, goal
  <2>2. r \in Request /\ r.pc = pc /\ r.link = replace
    BY <1>1, <1>2, <1>3 DEF Idle, Request
  <2> HIDE DEF r
  <2> QED BY <1>3, <2>1, <2>2 DEF NoOrderYet
<1> QED BY <1>4, <1>5

LEMMA BegunTyped ==
    ASSUME Typed, NEW table \in Seq(Row), NEW candidate \in Candidate
    PROVE  NoOrderYet(Begun(table, candidate), table)
<1>1. candidate.selection \in Picks
  BY DEF Candidate
<1>2. CASE ~candidate.refresh
  BY <1>1, <1>2, PlannedTyped DEF Begun
<1>3. CASE candidate.refresh /\ ~Expired(table, candidate.selection)
  BY <1>3, IdleIsRequest DEF Begun, NoOrderYet, Linked
<1>4. CASE candidate.refresh /\ Expired(table, candidate.selection)
  <2> DEFINE link == CHOOSE i \in LatestPayment(table, candidate.selection) : TRUE
             r == [Idle EXCEPT !.pc = "retiring", !.selection = candidate.selection, !.link = link]
  <2>1. link \in DOMAIN table
    BY <1>4 DEF Expired, LatestPayment, RowsOf
  <2>2. link \in Nat
    BY <2>1, LenProperties
  <2> HIDE DEF link
  <2>3. r \in Request /\ r.pc = "retiring" /\ r.link = link
    BY <1>1, <2>2 DEF Idle, Request, Pcs
  <2>4. Begun(table, candidate) = r
    BY <1>4 DEF Begun, link
  <2> HIDE DEF r
  <2> QED BY <2>1, <2>3, <2>4 DEF NoOrderYet
<1> QED BY <1>2, <1>3, <1>4

(* One request moves, and has no order.                                    *)
Moves(c) == caller' = [caller EXCEPT ![c] = caller'[c]] /\ NoOrderYet(caller'[c], links')

LEMMA EndsMoves ==
    ASSUME Typed, NEW c \in Callers, NEW table \in Seq(Row), Ends(c, table)
    PROVE  Kept(table, links') /\ Moves(c) /\ todo' \subseteq Candidate
<1>1. CASE c = "reconciler" /\ todo # {}
  <2>1. links' = ExpiredRows(table) /\ todo' = {}
    BY <1>1 DEF Ends
  <2>2. PICK candidate \in todo : caller' = [caller EXCEPT ![c] = Begun(links', candidate)]
    BY <1>1 DEF Ends, Becomes
  <2>3. Kept(table, links') /\ links' \in Seq(Row)
    BY <2>1, ExpiringKeeps DEF Kept
  <2>4. caller'[c] = Begun(links', candidate)
    BY <2>2 DEF Typed
  <2>5. NoOrderYet(Begun(links', candidate), links')
    BY <2>3, BegunTyped DEF Typed
  <2> QED BY <2>1, <2>2, <2>3, <2>4, <2>5 DEF Moves
<1>2. CASE ~(c = "reconciler" /\ todo # {})
  <2>1. links' = table /\ caller' = [caller EXCEPT ![c] = Idle] /\ todo' = todo
    BY <1>2 DEF Ends, Becomes
  <2>2. caller'[c] = Idle
    BY <2>1 DEF Typed
  <2>3. NoOrderYet(Idle, links')
    BY IdleIsRequest DEF NoOrderYet, Linked
  <2> QED BY <2>1, <2>2, <2>3, KeptSame DEF Moves, Typed
<1> QED BY <1>1, <1>2

-----------------------------------------------------------------------------
(* Steps that record, pay and review nothing                               *)

Earned == {o \in Orders : "completed" \in orders[o].had}
Settled == {o \in Orders : \E i \in LinksOf(o) : links[i].status = "paid"}
Open == {o \in Orders : \E i \in LinksOf(o) : links[i].review}
ledgerVars == <<Earned, Settled, Open, closed>>

Stutters == UNCHANGED ledgerVars

NoneVanish == \A o \in Orders : orders[o] # NoOrder => orders'[o] # NoOrder

LEMMA KeptStutters ==
    ASSUME Typed, Kept(links, links')
    PROVE  Settled' = Settled /\ Open' = Open
  BY DEF Kept, Settled, Open, LinksOf

LEMMA RowsTyped ==
    ASSUME Typed
    PROVE  /\ DOMAIN links = 1 .. Len(links) /\ Len(links) \in Nat
           /\ \A i \in DOMAIN links : links[i] \in Row /\ links[i].order \in Orders
<1>1. links \in Seq(Row)
  BY DEF Typed
<1>2. DOMAIN links = 1 .. Len(links) /\ Len(links) \in Nat
  BY <1>1, LenProperties
<1>3. \A i \in DOMAIN links : links[i] \in Row
  BY <1>1, <1>2, ElementOfSeq
<1> QED BY <1>2, <1>3 DEF Row

LEMMA KeptOneLink ==
    ASSUME OneLink, Kept(links, links'), \A i \in DOMAIN links : links[i].order \in Orders,
           NoneVanish
    PROVE  OneLink'
<1>1. \A i \in DOMAIN links' : i \in DOMAIN links /\ links'[i].order = links[i].order
  BY DEF Kept
<1>2. \A i \in DOMAIN links' : orders'[links'[i].order] # NoOrder
  BY <1>1 DEF OneLink, Exists, NoneVanish
<1>3. \A i, j \in DOMAIN links' : links'[i].order = links'[j].order => i = j
  BY <1>1 DEF OneLink
<1> QED BY <1>2, <1>3 DEF OneLink, Exists

LEMMA KeptUnrecorded ==
    ASSUME Unrecorded, Kept(links, links'), NoneVanish,
           \A c \in Callers : caller'[c].pc = "recording" => caller'[c] = caller[c]
    PROVE  Unrecorded'
<1>1. \A i \in DOMAIN links' : i \in DOMAIN links /\ links'[i].order = links[i].order
  BY DEF Kept
<1>2. ASSUME NEW c \in Callers, caller'[c].pc = "recording"
      PROVE  /\ caller'[c].order \in Orders /\ orders'[caller'[c].order] # NoOrder
             /\ \A i \in DOMAIN links' : links'[i].order # caller'[c].order
             /\ \A d \in Callers \ {c} :
                   caller'[d].pc = "recording" => caller'[d].order # caller'[c].order
  <2>1. caller'[c] = caller[c] /\ caller[c].pc = "recording"
    BY <1>2
  <2> QED BY <1>1, <2>1 DEF Unrecorded, Exists, NoneVanish
<1> QED BY <1>2 DEF Unrecorded, Exists

LEMMA KeptWithdrawn ==
    ASSUME Withdrawn, Kept(links, links'), closed' = closed
    PROVE  Withdrawn'
<1>1. \A i \in DOMAIN links' : links'[i].review => links'[i].status # "pending"
  BY DEF Withdrawn, Kept
<1>2. ASSUME NEW o \in closed'
      PROVE  \E i \in DOMAIN links' : links'[i].order = o /\ links'[i].status # "pending"
  <2>1. PICK i \in DOMAIN links : links[i].order = o /\ links[i].status # "pending"
    BY <1>2 DEF Withdrawn
  <2> QED BY <2>1 DEF Kept
<1> QED BY <1>1, <1>2 DEF Withdrawn

LEMMA KeptAccounted ==
    ASSUME HeardLinked, MoneyAccounted, Kept(links, links'), UNCHANGED <<heard, closed>>
    PROVE  HeardLinked' /\ MoneyAccounted'
<1>1. HeardLinked'
  <2>1. ASSUME NEW o \in heard
        PROVE  \E i \in DOMAIN links' : links'[i].order = o
    BY DEF HeardLinked, Kept
  <2> QED BY <2>1 DEF HeardLinked
<1>2. ASSUME NEW i \in DOMAIN links', links'[i].order \in heard
      PROVE  links'[i].status = "paid" \/ links'[i].review \/ links'[i].order \in closed
  <2>1. i \in DOMAIN links /\ links'[i].order = links[i].order
    BY DEF Kept
  <2>2. links[i].status = "paid" \/ links[i].review \/ links[i].order \in closed
    BY <1>2, <2>1 DEF MoneyAccounted
  <2> QED BY <2>1, <2>2 DEF Kept
<1> QED BY <1>1, <1>2 DEF MoneyAccounted

(* Requests that move without an order, and orders that turn.              *)
LEMMA QuietKeeps ==
    ASSUME IInv, Kept(links, links'), UNCHANGED <<heard, closed>>,
           now' \in Nat, todo' \subseteq Candidate, caller' \in [Callers -> Request],
           service' \in [paid : [Line -> Nat], manual : {"", "exempt", "suspended"}, archived : BOOLEAN],
           orders' \in [Orders -> [status : Statuses, had : SUBSET Statuses]], Numbered',
           NoneVanish,
           \A c \in Callers : caller'[c].pc \in Linked => caller'[c].link \in DOMAIN links',
           \A c \in Callers : caller'[c].pc = "recording" => caller'[c] = caller[c]
    PROVE  IInv'
<1>1. Typed'
  BY DEF Typed, Kept
<1>2. LinksValid'
  BY DEF LinksValid
<1>3. OneLink'
  <2>1. \A i \in DOMAIN links : links[i].order \in Orders
    BY RowsTyped DEF IInv
  <2> QED BY <2>1, KeptOneLink DEF IInv
<1>4. Unrecorded'
  BY KeptUnrecorded DEF IInv
<1>5. Withdrawn'
  BY KeptWithdrawn DEF IInv
<1>6. HeardLinked' /\ MoneyAccounted'
  BY KeptAccounted DEF IInv
<1> QED BY <1>1, <1>2, <1>3, <1>4, <1>5, <1>6 DEF IInv

LEMMA MovesKeeps ==
    ASSUME IInv, NEW c \in Callers, Moves(c), Kept(links, links')
    PROVE  /\ caller' \in [Callers -> Request]
           /\ \A d \in Callers : caller'[d].pc \in Linked => caller'[d].link \in DOMAIN links'
           /\ \A d \in Callers : caller'[d].pc = "recording" => caller'[d] = caller[d]
<1>1. caller'[c] \in Request /\ caller'[c].pc # "recording"
      /\ (caller'[c].pc \in Linked => caller'[c].link \in DOMAIN links')
  BY DEF Moves, NoOrderYet
<1>2. caller \in [Callers -> Request]
  BY DEF IInv, Typed
<1>3. \A d \in Callers \ {c} : caller'[d] = caller[d]
  BY <1>2 DEF Moves
<1>4. caller' \in [Callers -> Request]
  BY <1>1, <1>2 DEF Moves
<1> QED BY <1>1, <1>3, <1>4 DEF IInv, LinksValid, Kept

OrdersKept ==
    /\ orders' \in [Orders -> [status : Statuses, had : SUBSET Statuses]]
    /\ Numbered' /\ NoneVanish /\ Earned' = Earned

LEMMA SameOrders ==
    ASSUME IInv, orders' = orders
    PROVE  OrdersKept
  BY DEF OrdersKept, IInv, Typed, Numbered, Exists, NoneVanish, Earned

(* One request moves, and with it perhaps the links and the store.         *)
LEMMA RequestKeeps ==
    ASSUME IInv, NEW c \in Callers, Moves(c), Kept(links, links'), todo' \subseteq Candidate,
           OrdersKept, UNCHANGED <<now, service, heard, closed>>
    PROVE  IInv' /\ Stutters
<1>1. IInv'
  BY MovesKeeps, QuietKeeps DEF IInv, Typed, OrdersKept
<1>2. Stutters
  BY KeptStutters DEF IInv, Stutters, ledgerVars, OrdersKept
<1> QED BY <1>1, <1>2

-----------------------------------------------------------------------------
(* Orders of the store                                                     *)

LEMMA TurnsTyped ==
    ASSUME Typed, NEW o \in Orders, NEW status \in Statuses \ {"none"}, Turns(o, status)
    PROVE  /\ orders' \in [Orders -> [status : Statuses, had : SUBSET Statuses]]
           /\ NoneVanish /\ orders'[o] # NoOrder
           /\ \A p \in Orders \ {o} : orders'[p] = orders[p]
           /\ Earned' = IF status = "completed" THEN Earned \cup {o} ELSE Earned
<1> DEFINE turned == [status |-> status, had |-> orders[o].had \cup {status}]
<1>1. orders \in [Orders -> [status : Statuses, had : SUBSET Statuses]]
  BY DEF Typed
<1>2. turned \in [status : Statuses, had : SUBSET Statuses] /\ turned # NoOrder
      /\ turned.had = orders[o].had \cup {status}
  BY <1>1 DEF NoOrder
<1>3. orders' = [orders EXCEPT ![o] = turned]
  BY DEF Turns
<1> HIDE DEF turned
<1>4. /\ orders' \in [Orders -> [status : Statuses, had : SUBSET Statuses]]
      /\ orders'[o] = turned /\ \A p \in Orders \ {o} : orders'[p] = orders[p]
  BY <1>1, <1>2, <1>3
<1>5. Earned' = IF status = "completed" THEN Earned \cup {o} ELSE Earned
  BY <1>2, <1>4 DEF Earned
<1> QED BY <1>2, <1>4, <1>5 DEF NoneVanish

LEMMA TurnsNumbered ==
    ASSUME Typed, Numbered, NEW o \in Orders, orders[o] # NoOrder,
           NEW status \in Statuses \ {"none"}, Turns(o, status)
    PROVE  Numbered'
<1>1. \A p \in Orders : orders'[p] # NoOrder <=> orders[p] # NoOrder
  BY TurnsTyped
<1>2. \A p \in Orders : 1 .. p \subseteq Orders
  BY BillingAssumption DEF Orders
<1> QED BY <1>1, <1>2 DEF Numbered, Exists

(* The number of orders is that of the last one.                           *)
LEMMA NextOrder ==
    ASSUME Numbered, Used < MaxOrders
    PROVE  /\ Used \in Nat /\ Used + 1 \in Orders /\ orders[Used + 1] = NoOrder
           /\ \A p \in 1 .. Used : orders[p] # NoOrder
<1> DEFINE U == {o \in Orders : orders[o] # NoOrder}
<1>1. MaxOrders \in Nat /\ IsFiniteSet(Orders)
  BY BillingAssumption, FS_Interval DEF Orders
<1>2. IsFiniteSet(U) /\ Used = Cardinality(U) /\ Used \in Nat
  BY <1>1, FS_Subset, FS_CardinalityType DEF Used
<1>3. Used + 1 \in Orders
  BY <1>1, <1>2 DEF Orders
<1>4. orders[Used + 1] = NoOrder
  <2> SUFFICES ASSUME orders[Used + 1] # NoOrder PROVE FALSE
    OBVIOUS
  <2>1. 1 .. Used + 1 \subseteq U
    <3>1. Exists(Used + 1)
      BY DEF Exists
    <3>2. \A p \in 1 .. Used + 1 : orders[p] # NoOrder
      BY <1>3, <3>1 DEF Numbered, Exists
    <3>3. Used + 1 \in Int /\ Used + 1 <= MaxOrders /\ MaxOrders \in Int
      BY <1>1, <1>2, <1>3 DEF Orders
    <3>4. ASSUME NEW p \in 1 .. Used + 1 PROVE p \in 1 .. MaxOrders
      BY <3>3
    <3> QED BY <3>2, <3>4 DEF Orders
  <2>2. Cardinality(1 .. Used + 1) = Used + 1
    <3>1. 1 \in Int /\ Used + 1 \in Int /\ ~(1 > Used + 1)
      BY <1>2
    <3> QED BY <1>2, <3>1, FS_Interval
  <2>3. Cardinality(1 .. Used + 1) <= Cardinality(U)
    BY <1>2, <2>1, FS_Subset
  <2> QED BY <1>2, <2>2, <2>3
<1>5. ASSUME NEW p \in 1 .. Used, orders[p] = NoOrder
      PROVE  FALSE
  <2>1. \A o \in U : o <= p - 1
    BY <1>1, <1>2, <1>5 DEF Numbered, Exists, Orders
  <2>2. U \subseteq 1 .. p - 1 /\ p - 1 \in Nat
    BY <1>2, <2>1 DEF Orders
  <2>3. IsFiniteSet(1 .. p - 1) /\ Cardinality(1 .. p - 1) = p - 1
    BY <2>2, FS_Interval
  <2>4. Cardinality(U) <= p - 1
    BY <2>2, <2>3, FS_Subset
  <2> QED BY <1>2, <2>4
<1> QED BY <1>2, <1>3, <1>4, <1>5

LEMMA CreatedNumbered ==
    ASSUME Typed, Numbered, Used < MaxOrders, Turns(Used + 1, "pending")
    PROVE  Numbered'
<1> DEFINE n == Used + 1
<1>1. /\ Used \in Nat /\ n \in Orders /\ orders[n] = NoOrder
      /\ \A p \in 1 .. Used : orders[p] # NoOrder
  BY NextOrder
<1>2. "pending" \in Statuses \ {"none"}
  BY DEF Statuses
<1>3. orders'[n] # NoOrder /\ \A p \in Orders \ {n} : orders'[p] = orders[p]
  BY <1>1, <1>2, TurnsTyped
<1>4. MaxOrders \in Nat
  BY BillingAssumption
<1>5. ASSUME NEW o \in Orders, orders'[o] # NoOrder, NEW p \in 1 .. o
      PROVE  orders'[p] # NoOrder
  <2>1. p \in Orders /\ o \in Nat /\ p \in Nat
    BY <1>4, <1>5 DEF Orders
  <2>2. CASE o = n
    <3>1. p = n \/ p \in 1 .. Used
      BY <1>1, <2>2
    <3> QED BY <1>1, <1>3, <2>1, <3>1
  <2>3. CASE o # n
    <3>1. orders[o] # NoOrder
      BY <1>3, <1>5, <2>3
    <3>2. orders[p] # NoOrder
      BY <3>1 DEF Numbered, Exists
    <3> QED BY <1>3, <2>1, <3>2
  <2> QED BY <2>2, <2>3
<1> QED BY <1>5 DEF Numbered, Exists

-----------------------------------------------------------------------------
(* Steps of requests                                                       *)

LEMMA GoesMoves ==
    ASSUME IInv, NEW c \in Callers, NEW pc \in Pcs \ {"recording"}, Goes(c, pc),
           caller[c].pc \in Linked, DOMAIN links' = DOMAIN links
    PROVE  Moves(c) /\ todo' \subseteq Candidate
<1> DEFINE r == [caller[c] EXCEPT !.pc = pc]
<1>1. caller[c] \in Request /\ caller[c].link \in DOMAIN links /\ caller \in [Callers -> Request]
  BY DEF IInv, Typed, LinksValid
<1>2. r \in Request /\ r.pc = pc /\ r.link = caller[c].link
  BY <1>1 DEF Request
<1>3. caller' = [caller EXCEPT ![c] = r] /\ todo' = todo
  BY DEF Goes, Becomes
<1> HIDE DEF r
<1>4. caller'[c] = r
  BY <1>1, <1>3
<1>5. NoOrderYet(r, links')
  BY <1>1, <1>2 DEF NoOrderYet
<1> QED BY <1>3, <1>4, <1>5 DEF Moves, IInv, Typed

LEMMA AsksKeeps ==
    ASSUME IInv, NEW selection \in Picks, NEW replace \in {0} \cup DOMAIN links,
           Asks(selection, replace)
    PROVE  IInv' /\ Stutters
<1>1. /\ links' = ExpiredRows(links) /\ orders' = orders /\ todo' = todo
      /\ UNCHANGED <<now, service, heard, closed>>
      /\ caller' = [caller EXCEPT !["operator"] = Planned(links', selection, replace)]
  BY DEF Asks, Quiet, Becomes
<1>2. "operator" \in Callers
  BY DEF Callers
<1>3. Kept(links, links') /\ links' \in Seq(Row) /\ DOMAIN links' = DOMAIN links
  BY <1>1, ExpiringKeeps DEF IInv, Typed, Kept
<1>4. caller'["operator"] = Planned(links', selection, replace)
  BY <1>1, <1>2 DEF IInv, Typed
<1>5. NoOrderYet(Planned(links', selection, replace), links')
  BY <1>3, PlannedTyped DEF IInv
<1>6. Moves("operator") /\ todo' \subseteq Candidate
  BY <1>1, <1>4, <1>5 DEF Moves, IInv, Typed
<1> QED BY <1>1, <1>2, <1>3, <1>6, SameOrders, RequestKeeps

LEMMA AsksCancelKeeps ==
    ASSUME IInv, NEW i \in DOMAIN links, AsksCancel(i)
    PROVE  IInv' /\ Stutters
<1> DEFINE r == [Idle EXCEPT !.pc = "cancelling", !.link = i, !.selection = links[i].selection]
<1>1. /\ links' = links /\ orders' = orders /\ todo' = todo
      /\ UNCHANGED <<now, service, heard, closed>>
      /\ caller' = [caller EXCEPT !["operator"] = r]
  BY DEF AsksCancel, Quiet, Becomes
<1>2. "operator" \in Callers /\ Kept(links, links')
  BY <1>1, KeptSame DEF Callers, IInv, Typed
<1>3. links[i].selection \in Picks /\ i \in Nat
  BY RowsTyped DEF IInv, Row
<1>4. r \in Request /\ r.pc = "cancelling" /\ r.link = i
  BY <1>3 DEF Idle, Request, Pcs
<1> HIDE DEF r
<1>5. NoOrderYet(r, links')
  BY <1>1, <1>4 DEF NoOrderYet
<1>6. Moves("operator") /\ todo' \subseteq Candidate
  BY <1>1, <1>2, <1>5 DEF Moves, IInv, Typed
<1> QED BY <1>1, <1>2, <1>6, SameOrders, RequestKeeps

LEMMA RunStartsKeeps ==
    ASSUME IInv, RunStarts
    PROVE  IInv' /\ Stutters
<1> DEFINE table == ExpiredRows(links)
<1>1. PICK first \in Candidates(table) :
        /\ caller' = [caller EXCEPT !["reconciler"] = Begun(table, first)]
        /\ todo' = Candidates(table) \ {first}
  BY DEF RunStarts, Becomes
<1>2. links' = table /\ orders' = orders /\ UNCHANGED <<now, service, heard, closed>>
  BY DEF RunStarts, Quiet
<1>3. Candidates(table) \subseteq Candidate
  <2>1. Proposed(table) \subseteq Picks
    BY DEF Proposed, Picks, Line
  <2>2. \A s \in Picks : Expired(table, s) \in BOOLEAN
    BY DEF Expired
  <2> QED BY <2>1, <2>2 DEF Candidates, Candidate
<1>4. "reconciler" \in Callers /\ Kept(links, links') /\ links' \in Seq(Row)
  BY <1>2, ExpiringKeeps DEF Callers, IInv, Typed, Kept
<1>5. NoOrderYet(Begun(links', first), links')
  BY <1>3, <1>4, BegunTyped DEF IInv
<1>6. caller'["reconciler"] = Begun(links', first)
  BY <1>1, <1>2, <1>4 DEF IInv, Typed
<1>7. Moves("reconciler") /\ todo' \subseteq Candidate
  BY <1>1, <1>2, <1>3, <1>5, <1>6 DEF Moves
<1> QED BY <1>2, <1>4, <1>7, SameOrders, RequestKeeps

LEMMA CallFailsKeeps ==
    ASSUME IInv, NEW c \in Callers, CallFails(c)
    PROVE  IInv' /\ Stutters
<1>1. Ends(c, links) /\ orders' = orders /\ UNCHANGED <<now, service, heard, closed>>
  BY DEF CallFails, Quiet
<1>2. Kept(links, links') /\ Moves(c) /\ todo' \subseteq Candidate
  BY <1>1, EndsMoves DEF IInv, Typed
<1> QED BY <1>1, <1>2, SameOrders, RequestKeeps

LEMMA WooCancelsKeeps ==
    ASSUME IInv, NEW c \in Callers, NEW lost \in BOOLEAN, WooCancels(c, lost)
    PROVE  IInv' /\ Stutters
<1> DEFINE o == links[caller[c].link].order
           pc == IF caller[c].pc = "cancelling" THEN "cancelled" ELSE "retired"
<1>1. /\ caller[c].pc \in {"cancelling", "retiring"}
      /\ Turns(o, "cancelled") /\ Answered(c, lost, pc)
      /\ UNCHANGED <<now, service, heard, closed>>
  BY DEF WooCancels, Quiet
<1>2. o \in Orders /\ orders[o] # NoOrder
  BY <1>1, RowsTyped DEF IInv, LinksValid, Linked, OneLink, Exists
<1>3. OrdersKept
  <2>1. "cancelled" \in Statuses \ {"none"}
    BY DEF Statuses
  <2> HIDE DEF o
  <2> QED BY <1>1, <1>2, <2>1, TurnsTyped, TurnsNumbered DEF OrdersKept, IInv
<1>4. Kept(links, links') /\ Moves(c) /\ todo' \subseteq Candidate
  <2>1. CASE lost
    BY <1>1, <2>1, EndsMoves DEF Answered, IInv, Typed
  <2>2. CASE ~lost
    <3>1. Goes(c, pc) /\ links' = links
      BY <1>1, <2>2 DEF Answered
    <3>2. pc \in Pcs \ {"recording"} /\ caller[c].pc \in Linked
      BY <1>1 DEF Pcs, Linked
    <3> HIDE DEF pc
    <3> QED BY <3>1, <3>2, GoesMoves, KeptSame DEF IInv, Typed
  <2> QED BY <2>1, <2>2
<1> QED BY <1>1, <1>3, <1>4, RequestKeeps

LEMMA CancelsKeeps ==
    ASSUME IInv, NEW c \in Callers, Cancels(c)
    PROVE  IInv' /\ Stutters
<1> DEFINE i == caller[c].link
           table == [links EXCEPT ![i].status = "cancelled"]
<1>1. caller[c].pc = "cancelled" /\ orders' = orders /\ UNCHANGED <<now, service, heard, closed>>
  BY DEF Cancels, Quiet
<1>2. i \in DOMAIN links /\ links \in Seq(Row) /\ caller[c].pc \in Linked
  BY <1>1 DEF IInv, Typed, LinksValid, Linked
<1>3. Kept(links, links') /\ Moves(c) /\ todo' \subseteq Candidate
  <2>1. CASE links[i].status # "pending"
    <3>1. Ends(c, links)
      BY <2>1 DEF Cancels
    <3> QED BY <1>2, <3>1, EndsMoves DEF IInv
  <2>2. CASE links[i].status = "pending"
    <3>1. Kept(links, table)
      <4>1. links[i].status # "paid" /\ "cancelled" \in {"expired", "cancelled"}
        BY <2>2
      <4> QED BY <1>2, <4>1, StatusKeeps
    <3>2. table \in Seq(Row) /\ DOMAIN table = DOMAIN links
      BY <3>1 DEF Kept
    <3>3. CASE caller[c].again
      <4>1. Goes(c, "ordering") /\ links' = table
        BY <2>2, <3>3 DEF Cancels
      <4>2. "ordering" \in Pcs \ {"recording"}
        BY DEF Pcs
      <4> QED BY <1>2, <3>1, <3>2, <4>1, <4>2, GoesMoves
    <3>4. CASE ~caller[c].again
      <4>1. Ends(c, table)
        BY <2>2, <3>4 DEF Cancels
      <4>2. Kept(table, links') /\ Moves(c) /\ todo' \subseteq Candidate
        BY <3>2, <4>1, EndsMoves DEF IInv
      <4> QED BY <1>2, <3>1, <4>2, KeptTransitive
    <3> QED BY <3>3, <3>4
  <2> QED BY <2>1, <2>2
<1> QED BY <1>1, <1>3, SameOrders, RequestKeeps

LEMMA RetiresKeeps ==
    ASSUME IInv, NEW c \in Callers, Retires(c)
    PROVE  IInv' /\ Stutters
<1> DEFINE i == caller[c].link
           cut == [links EXCEPT ![i].status = "cancelled"]
           table == ExpiredRows(cut)
           planned == Planned(table, caller[c].selection, 0)
<1>1. caller[c].pc = "retired" /\ orders' = orders /\ UNCHANGED <<now, service, heard, closed>>
  BY DEF Retires, Quiet
<1>2. i \in DOMAIN links /\ links \in Seq(Row) /\ caller[c].selection \in Picks
  BY <1>1 DEF IInv, Typed, LinksValid, Linked, Request
<1>3. Kept(links, links') /\ Moves(c) /\ todo' \subseteq Candidate
  <2>1. CASE links[i].status # "expired"
    <3>1. Ends(c, links)
      BY <2>1 DEF Retires
    <3> QED BY <1>2, <3>1, EndsMoves DEF IInv
  <2>2. CASE links[i].status = "expired"
    <3>1. Kept(links, cut) /\ cut \in Seq(Row)
      <4>1. links[i].status # "paid" /\ "cancelled" \in {"expired", "cancelled"}
        BY <2>2
      <4>2. Kept(links, cut)
        BY <1>2, <4>1, StatusKeeps
      <4> QED BY <4>2 DEF Kept
    <3>2. Kept(cut, table) /\ table \in Seq(Row)
      BY <3>1, ExpiringKeeps DEF Kept
    <3>3. Kept(links, table)
      BY <1>2, <3>1, <3>2, KeptTransitive
    <3>4. CASE planned = Idle
      <4>1. Ends(c, table)
        BY <2>2, <3>4 DEF Retires
      <4>2. Kept(table, links') /\ Moves(c) /\ todo' \subseteq Candidate
        BY <3>2, <4>1, EndsMoves DEF IInv
      <4> QED BY <1>2, <3>3, <4>2, KeptTransitive
    <3>5. CASE planned # Idle
      <4>1. caller' = [caller EXCEPT ![c] = planned] /\ links' = table /\ todo' = todo
        BY <2>2, <3>5 DEF Retires, Becomes
      <4>2. NoOrderYet(planned, table)
        BY <1>2, <3>2, PlannedTyped DEF IInv
      <4>3. caller'[c] = planned
        BY <4>1 DEF IInv, Typed
      <4> HIDE DEF planned, table
      <4> QED BY <3>3, <4>1, <4>2, <4>3 DEF Moves, IInv, Typed
    <3> QED BY <3>4, <3>5
  <2> QED BY <2>1, <2>2
<1> QED BY <1>1, <1>3, SameOrders, RequestKeeps

LEMMA WooCreatesKeeps ==
    ASSUME IInv, NEW c \in Callers, NEW lost \in BOOLEAN, WooCreates(c, lost)
    PROVE  IInv' /\ Stutters
<1> DEFINE n == Used + 1
           r == [caller[c] EXCEPT !.pc = "recording", !.order = n]
<1>1. /\ Used < MaxOrders /\ Turns(n, "pending") /\ UNCHANGED <<now, service, heard, closed>>
  BY DEF WooCreates, Quiet
<1>2. Used \in Nat /\ n \in Orders /\ n \in Nat /\ orders[n] = NoOrder
  BY <1>1, NextOrder DEF IInv
<1>3. OrdersKept /\ orders'[n] # NoOrder
  <2>1. "pending" \in Statuses \ {"none"} /\ "pending" # "completed"
    BY DEF Statuses
  <2>2. Numbered'
    BY <1>1, CreatedNumbered DEF IInv
  <2> HIDE DEF n
  <2> QED BY <1>1, <1>2, <2>1, <2>2, TurnsTyped DEF OrdersKept, IInv
<1>4. CASE lost
  <2>1. Kept(links, links') /\ Moves(c) /\ todo' \subseteq Candidate
    <3>1. Ends(c, links)
      BY <1>4 DEF WooCreates
    <3> QED BY <3>1, EndsMoves DEF IInv, Typed
  <2> QED BY <1>1, <1>3, <2>1, RequestKeeps
<1>5. CASE ~lost
  <2>1. caller' = [caller EXCEPT ![c] = r] /\ links' = links /\ todo' = todo
    BY <1>5 DEF WooCreates, Becomes
  <2>2. caller \in [Callers -> Request] /\ Kept(links, links')
    BY <2>1, KeptSame DEF IInv, Typed
  <2>3. r \in Request /\ r.pc = "recording" /\ r.order = n
    BY <1>2, <2>2 DEF Request, Pcs
  <2> HIDE DEF n, r
  <2>4. /\ caller' \in [Callers -> Request] /\ caller'[c] = r
        /\ \A d \in Callers \ {c} : caller'[d] = caller[d]
    BY <2>1, <2>2, <2>3
  <2>5. Typed'
    BY <1>1, <1>3, <2>1, <2>4 DEF IInv, Typed, OrdersKept
  <2>6. LinksValid'
    BY <2>1, <2>3, <2>4 DEF IInv, LinksValid, Linked
  <2>7. OneLink'
    BY <1>3, <2>2, KeptOneLink, RowsTyped DEF IInv, OrdersKept
  <2>8. Unrecorded'
    <3>1. /\ \A i \in DOMAIN links : links[i].order # n
          /\ \A d \in Callers : caller[d].pc = "recording" => caller[d].order # n
      BY <1>2 DEF IInv, OneLink, Unrecorded, Exists
    <3>2. \A d \in Callers \ {c} : caller'[d].pc = "recording" =>
            /\ caller'[d].order \in Orders /\ orders'[caller'[d].order] # NoOrder
            /\ caller'[d].order # n
            /\ \A i \in DOMAIN links : links[i].order # caller'[d].order
            /\ \A e \in Callers \ {c, d} :
                  caller'[e].pc = "recording" => caller'[e].order # caller'[d].order
      BY <1>3, <2>4, <3>1 DEF IInv, Unrecorded, Exists, OrdersKept, NoneVanish
    <3>3. caller'[c].order = n
      BY <2>3, <2>4
    <3> QED BY <1>2, <1>3, <2>1, <3>1, <3>2, <3>3 DEF Unrecorded, Exists
  <2>9. Withdrawn' /\ HeardLinked' /\ MoneyAccounted'
    BY <1>1, <2>2, KeptWithdrawn, KeptAccounted DEF IInv
  <2>10. Stutters
    BY <1>1, <1>3, <2>2, KeptStutters DEF IInv, Stutters, ledgerVars, OrdersKept
  <2> QED BY <1>3, <2>5, <2>6, <2>7, <2>8, <2>9, <2>10 DEF IInv, OrdersKept
<1> QED BY <1>4, <1>5

LEMMA RecordsKeeps ==
    ASSUME IInv, NEW c \in Callers, Records(c)
    PROVE  IInv' /\ Stutters
<1> DEFINE o == caller[c].order
           n == Len(links) + 1
           row == [order |-> o, selection |-> caller[c].selection, goal |-> caller[c].goal,
                   status |-> "pending", expires |-> now + LinkLife, review |-> FALSE]
           table == Append(links, row)
<1>1. /\ caller[c].pc = "recording" /\ Ends(c, table)
      /\ UNCHANGED <<now, service, heard, closed, orders>>
  BY DEF Records, Quiet
<1>2. /\ o \in Orders /\ Exists(o) /\ \A i \in DOMAIN links : links[i].order # o
      /\ \A d \in Callers \ {c} : caller[d].pc = "recording" => caller[d].order # o
  BY <1>1 DEF IInv, Unrecorded
<1>3. row \in Row /\ row.order = o /\ row.status = "pending" /\ row.review = FALSE
  <2>1. caller[c] \in Request /\ now \in Nat /\ LinkLife \in Nat
    BY BillingAssumption DEF IInv, Typed
  <2>2. caller[c].selection \in Picks /\ caller[c].goal \in [Line -> Nat] /\ now + LinkLife \in Nat
    BY <2>1 DEF Request
  <2> QED BY <1>2, <2>2 DEF Row, LinkStatuses
<1>4. /\ table \in Seq(Row) /\ DOMAIN table = DOMAIN links \cup {n} /\ n \notin DOMAIN links
      /\ table[n] = row /\ \A i \in DOMAIN links : table[i] = links[i]
  <2> HIDE DEF row
  <2>1. links \in Seq(Row) /\ DOMAIN links = 1 .. Len(links) /\ Len(links) \in Nat
    BY RowsTyped DEF IInv, Typed
  <2>2. table \in Seq(Row) /\ Len(table) = n /\ \A i \in 1 .. Len(links) : table[i] = links[i]
        /\ table[n] = row
    BY <1>3, <2>1, AppendProperties
  <2>3. DOMAIN table = 1 .. n
    BY <2>2, LenProperties
  <2> QED BY <2>1, <2>2, <2>3
<1> HIDE DEF o, n, row, table
<1>5. Kept(table, links') /\ Moves(c) /\ todo' \subseteq Candidate
  BY <1>1, <1>4, EndsMoves DEF IInv
<1>6. /\ links' \in Seq(Row) /\ DOMAIN links' = DOMAIN links \cup {n}
      /\ links'[n].order = o /\ ~links'[n].review /\ links'[n].status # "paid"
      /\ \A i \in DOMAIN links :
            /\ links'[i].order = links[i].order /\ links'[i].review = links[i].review
            /\ links'[i].status = "paid" <=> links[i].status = "paid"
            /\ links'[i].status = "pending" => links[i].status = "pending"
  BY <1>3, <1>4, <1>5 DEF Kept
<1>7. /\ caller' \in [Callers -> Request]
      /\ caller'[c].pc # "recording" /\ \A d \in Callers \ {c} : caller'[d] = caller[d]
      /\ caller'[c].pc \in Linked => caller'[c].link \in DOMAIN links'
  <2>1. caller'[c] \in Request /\ caller' = [caller EXCEPT ![c] = caller'[c]]
    BY <1>5 DEF Moves, NoOrderYet
  <2> QED BY <1>5, <2>1 DEF Moves, NoOrderYet, IInv, Typed
<1>8. Typed' /\ LinksValid'
  BY <1>1, <1>5, <1>6, <1>7 DEF IInv, Typed, LinksValid
<1>9. Numbered'
  BY <1>1 DEF IInv, Numbered, Exists
<1>10. OneLink'
  <2>1. \A i \in DOMAIN links' : orders[links'[i].order] # NoOrder
    BY <1>2, <1>6 DEF IInv, OneLink, Exists
  <2>2. \A i, j \in DOMAIN links' : links'[i].order = links'[j].order => i = j
    BY <1>2, <1>6 DEF IInv, OneLink
  <2> QED BY <1>1, <2>1, <2>2 DEF OneLink, Exists
<1>11. Unrecorded'
  <2>1. ASSUME NEW d \in Callers, caller'[d].pc = "recording"
        PROVE  /\ caller'[d].order \in Orders /\ orders'[caller'[d].order] # NoOrder
               /\ \A i \in DOMAIN links' : links'[i].order # caller'[d].order
               /\ \A e \in Callers \ {d} :
                     caller'[e].pc = "recording" => caller'[e].order # caller'[d].order
    <3>1. d # c /\ caller'[d] = caller[d]
      BY <1>7, <2>1
    <3>2. /\ caller[d].order \in Orders /\ orders[caller[d].order] # NoOrder
          /\ \A i \in DOMAIN links : links[i].order # caller[d].order
          /\ \A e \in Callers \ {d} :
                caller[e].pc = "recording" => caller[e].order # caller[d].order
      BY <2>1, <3>1 DEF IInv, Unrecorded, Exists
    <3>3. caller[d].order # o
      BY <1>2, <2>1, <3>1
    <3> QED BY <1>1, <1>6, <1>7, <3>1, <3>2, <3>3
  <2> QED BY <2>1 DEF Unrecorded, Exists
<1>12. Withdrawn'
  <2>1. \A i \in DOMAIN links' : links'[i].review => links'[i].status # "pending"
    BY <1>6 DEF IInv, Withdrawn
  <2>2. \A p \in closed : \E i \in DOMAIN links' : links'[i].order = p /\ links'[i].status # "pending"
    BY <1>6 DEF IInv, Withdrawn
  <2> QED BY <1>1, <2>1, <2>2 DEF Withdrawn
<1>13. HeardLinked'
  BY <1>1, <1>6 DEF IInv, HeardLinked
<1>14. MoneyAccounted'
  <2>1. o \notin heard
    BY <1>2 DEF IInv, HeardLinked
  <2> QED BY <1>1, <1>6, <2>1 DEF IInv, MoneyAccounted
<1>15. Stutters
  BY <1>1, <1>6 DEF Stutters, ledgerVars, Earned, Settled, Open, LinksOf
<1> QED BY <1>8, <1>9, <1>10, <1>11, <1>12, <1>13, <1>14, <1>15 DEF IInv

-----------------------------------------------------------------------------
(* Callbacks and reviews                                                   *)

ServiceRow == [paid : [Line -> Nat], manual : {"", "exempt", "suspended"}, archived : BOOLEAN]

(* One row turns into another of the same order.                           *)
RowTurns(i) ==
    /\ links' \in Seq(Row) /\ DOMAIN links' = DOMAIN links /\ links'[i].order = links[i].order
    /\ \A j \in DOMAIN links \ {i} : links'[j] = links[j]

LEMMA RowChanged ==
    ASSUME IInv, NEW i \in DOMAIN links, NEW row \in Row, row.order = links[i].order,
           links' = [links EXCEPT ![i] = row]
    PROVE  RowTurns(i) /\ links'[i] = row
<1>1. links \in Seq(Row) /\ i \in 1 .. Len(links)
  BY RowsTyped DEF IInv, Typed
<1>2. /\ links' \in Seq(Row) /\ DOMAIN links' = DOMAIN links
      /\ \A j \in DOMAIN links : links'[j] = IF j = i THEN row ELSE links[j]
  BY <1>1, ExceptSeq, LenProperties
<1> QED BY <1>2 DEF RowTurns

LEMMA RowTurnKeeps ==
    ASSUME IInv, NEW i \in DOMAIN links, RowTurns(i), service' \in ServiceRow,
           UNCHANGED <<now, orders, caller, todo>>
    PROVE  Typed' /\ LinksValid' /\ Numbered' /\ OneLink' /\ Unrecorded'
<1>1. \A j \in DOMAIN links : links'[j].order = links[j].order
  BY DEF RowTurns
<1>2. Typed' /\ LinksValid'
  BY DEF IInv, Typed, LinksValid, RowTurns, ServiceRow
<1>3. Numbered'
  BY DEF IInv, Numbered, Exists
<1>4. OneLink'
  <2>1. \A j \in DOMAIN links' : orders[links'[j].order] # NoOrder
    BY <1>1 DEF IInv, OneLink, Exists, RowTurns
  <2>2. \A j, k \in DOMAIN links' : links'[j].order = links'[k].order => j = k
    BY <1>1 DEF IInv, OneLink, RowTurns
  <2> QED BY <2>1, <2>2 DEF OneLink, Exists
<1>5. Unrecorded'
  <2>1. ASSUME NEW c \in Callers, caller[c].pc = "recording"
        PROVE  /\ caller[c].order \in Orders /\ orders[caller[c].order] # NoOrder
               /\ \A j \in DOMAIN links' : links'[j].order # caller[c].order
               /\ \A d \in Callers \ {c} :
                     caller[d].pc = "recording" => caller[d].order # caller[c].order
    BY <1>1, <2>1 DEF IInv, Unrecorded, Exists, RowTurns
  <2> QED BY <2>1 DEF Unrecorded, Exists
<1> QED BY <1>2, <1>3, <1>4, <1>5

(* A delivery marks a link, or finds it marked.                            *)
LEMMA LaysKeeps ==
    ASSUME IInv, NEW o \in Orders, NEW i \in DOMAIN links, links[i].order = o,
           RowTurns(i), links'[i].review, links'[i].status # "pending",
           links'[i].status = "paid" <=> links[i].status = "paid",
           closed' = closed \ {o}, heard' \in {heard, heard \cup {o}},
           UNCHANGED <<now, service, orders, caller, todo>>
    PROVE  IInv' /\ Ledger!Lay(o)
<1>1. Typed' /\ LinksValid' /\ Numbered' /\ OneLink' /\ Unrecorded'
  <2>1. service' \in ServiceRow
    BY DEF IInv, Typed, ServiceRow
  <2> QED BY <2>1, RowTurnKeeps
<1>2. /\ DOMAIN links' = DOMAIN links /\ links'[i].order = o
      /\ \A j \in DOMAIN links \ {i} : links'[j] = links[j] /\ links[j].order # o
  BY DEF RowTurns, IInv, OneLink
<1>3. Withdrawn'
  <2>1. \A j \in DOMAIN links' : links'[j].review => links'[j].status # "pending"
    BY <1>2 DEF IInv, Withdrawn
  <2>2. ASSUME NEW p \in closed'
        PROVE  \E j \in DOMAIN links' : links'[j].order = p /\ links'[j].status # "pending"
    <3>1. PICK j \in DOMAIN links : links[j].order = p /\ links[j].status # "pending"
      BY <2>2 DEF IInv, Withdrawn
    <3>2. j # i
      BY <2>2, <3>1
    <3> QED BY <1>2, <3>1, <3>2
  <2> QED BY <2>1, <2>2 DEF Withdrawn
<1>4. HeardLinked'
  <2>1. ASSUME NEW p \in heard'
        PROVE  \E j \in DOMAIN links' : links'[j].order = p
    BY <1>2, <2>1 DEF IInv, HeardLinked
  <2> QED BY <2>1 DEF HeardLinked
<1>5. MoneyAccounted'
  <2>1. ASSUME NEW j \in DOMAIN links', links'[j].order \in heard'
        PROVE  links'[j].status = "paid" \/ links'[j].review \/ links'[j].order \in closed'
    <3>1. CASE j = i
      BY <3>1
    <3>2. CASE j # i
      BY <1>2, <2>1, <3>2 DEF IInv, MoneyAccounted
    <3> QED BY <3>1, <3>2
  <2> QED BY <2>1 DEF MoneyAccounted
<1>6. Earned' = Earned /\ Settled' = Settled /\ Open' = Open \cup {o}
  <2>1. Earned' = Earned
    BY DEF Earned
  <2>2. Settled' = Settled
    BY <1>2 DEF Settled, LinksOf
  <2>3. Open' = Open \cup {o}
    BY <1>2 DEF Open, LinksOf
  <2> QED BY <2>1, <2>2, <2>3
<1> QED BY <1>1, <1>3, <1>4, <1>5, <1>6 DEF IInv, Ledger!Lay, Earned, Settled, Open

(* A completion of a pending link pays: it is of no other link, and no     *)
(* review of its order was ever begun.                                     *)
LEMMA SettlesKeeps ==
    ASSUME IInv, NEW o \in Orders, NEW i \in DOMAIN links, links[i].order = o,
           links[i].status = "pending", links' = [links EXCEPT ![i].status = "paid"],
           service' \in ServiceRow, "completed" \in orders[o].had,
           closed' = closed, heard' = heard \cup {o}, UNCHANGED <<now, orders, caller, todo>>
    PROVE  IInv' /\ Ledger!Settle(o)
<1> DEFINE row == [links[i] EXCEPT !.status = "paid"]
<1>1. links[i] \in Row
  BY RowsTyped DEF IInv
<1>2. row \in Row /\ row.order = o /\ row.status = "paid" /\ row.review = links[i].review
  BY <1>1 DEF Row, LinkStatuses
<1>3. links' = [links EXCEPT ![i] = row]
  OBVIOUS
<1> HIDE DEF row
<1>4. RowTurns(i) /\ links'[i] = row
  BY <1>2, <1>3, RowChanged
<1>5. Typed' /\ LinksValid' /\ Numbered' /\ OneLink' /\ Unrecorded'
  BY <1>4, RowTurnKeeps
<1>6. /\ DOMAIN links' = DOMAIN links
      /\ \A j \in DOMAIN links \ {i} : links'[j] = links[j] /\ links[j].order # o
  BY <1>4 DEF RowTurns, IInv, OneLink
<1>7. ~links[i].review /\ o \notin closed
  BY <1>6 DEF IInv, Withdrawn
<1>8. Withdrawn'
  <2>1. \A j \in DOMAIN links' : links'[j].review => links'[j].status # "pending"
    BY <1>2, <1>4, <1>6, <1>7 DEF IInv, Withdrawn
  <2>2. ASSUME NEW p \in closed
        PROVE  \E j \in DOMAIN links' : links'[j].order = p /\ links'[j].status # "pending"
    <3>1. PICK j \in DOMAIN links : links[j].order = p /\ links[j].status # "pending"
      BY DEF IInv, Withdrawn
    <3> QED BY <1>6, <3>1
  <2> QED BY <2>1, <2>2 DEF Withdrawn
<1>9. HeardLinked'
  <2>1. ASSUME NEW p \in heard'
        PROVE  \E j \in DOMAIN links' : links'[j].order = p
    BY <1>2, <1>4, <1>6, <2>1 DEF IInv, HeardLinked
  <2> QED BY <2>1 DEF HeardLinked
<1>10. MoneyAccounted'
  <2>1. ASSUME NEW j \in DOMAIN links', links'[j].order \in heard'
        PROVE  links'[j].status = "paid" \/ links'[j].review \/ links'[j].order \in closed'
    <3>1. CASE j = i
      BY <1>2, <1>4, <3>1
    <3>2. CASE j # i
      BY <1>6, <2>1, <3>2 DEF IInv, MoneyAccounted
    <3> QED BY <3>1, <3>2
  <2> QED BY <2>1 DEF MoneyAccounted
<1>11. Earned' = Earned /\ o \in Earned
  BY <1>1 DEF Earned
<1>12. Settled' = Settled \cup {o} /\ o \notin Settled
  BY <1>1, <1>2, <1>4, <1>6 DEF Settled, LinksOf
<1>13. Open' = Open /\ o \notin Open
  BY <1>2, <1>4, <1>6, <1>7 DEF Open, LinksOf
<1> QED BY <1>5, <1>7, <1>8, <1>9, <1>10, <1>11, <1>12, <1>13
        DEF IInv, Ledger!Settle, Earned, Settled, Open

LEMMA ReviewedMarks ==
    ASSUME IInv, NEW i \in DOMAIN links, NEW disable \in BOOLEAN,
           disable \/ links[i].status # "pending", links' = Reviewed(i, disable)
    PROVE  /\ RowTurns(i) /\ links'[i].review /\ links'[i].status # "pending"
           /\ links'[i].status = "paid" <=> links[i].status = "paid"
<1> DEFINE status == IF disable /\ links[i].status = "pending" THEN "review" ELSE links[i].status
           row == [links[i] EXCEPT !.review = TRUE, !.status = status]
<1>1. links[i] \in Row /\ status \in LinkStatuses
  BY RowsTyped DEF IInv, Row, LinkStatuses
<1>2. status # "pending" /\ (status = "paid" <=> links[i].status = "paid")
  OBVIOUS
<1>3. links' = [links EXCEPT ![i] = row]
  BY DEF Reviewed
<1> HIDE DEF status
<1>4. row \in Row /\ row.order = links[i].order /\ row.review /\ row.status = status
  BY <1>1 DEF Row
<1> HIDE DEF row
<1>5. RowTurns(i) /\ links'[i] = row
  BY <1>3, <1>4, RowChanged
<1> QED BY <1>2, <1>4, <1>5

(* A delivery that changes nothing of its link.                            *)
LEMMA RepeatKeeps ==
    ASSUME IInv, NEW o \in Orders, NEW i \in DOMAIN links, links[i].order = o,
           UNCHANGED <<now, service, links, orders, caller, todo>>,
           closed' = IF links[i].review THEN closed \ {o} ELSE closed,
           \/ heard' = heard
           \/ heard' = heard \cup {o} /\ links[i].status = "paid"
    PROVE  IInv' /\ (Ledger!Lay(o) \/ Stutters)
<1>1. CASE links[i].review
  <2>1. RowTurns(i)
    BY DEF RowTurns, IInv, Typed
  <2>2. links[i].status # "pending"
    BY <1>1 DEF IInv, Withdrawn
  <2> QED BY <1>1, <2>1, <2>2, LaysKeeps
<1>2. CASE ~links[i].review
  <2>1. Typed' /\ LinksValid' /\ Numbered' /\ OneLink' /\ Unrecorded'
    <3>1. RowTurns(i) /\ service' \in ServiceRow
      BY DEF RowTurns, IInv, Typed, ServiceRow
    <3> QED BY <3>1, RowTurnKeeps
  <2>2. Withdrawn' /\ HeardLinked'
    BY <1>2 DEF IInv, Withdrawn, HeardLinked
  <2>3. MoneyAccounted'
    BY <1>2 DEF IInv, MoneyAccounted, OneLink
  <2>4. Stutters
    BY <1>2 DEF Stutters, ledgerVars, Earned, Settled, Open, LinksOf
  <2> QED BY <2>1, <2>2, <2>3, <2>4 DEF IInv
<1> QED BY <1>1, <1>2

LedgerStep == (\E o \in Orders : Ledger!Settle(o) \/ Ledger!Lay(o) \/ Ledger!Resolve(o) \/ Ledger!Earn(o))
              \/ Stutters

LEMMA DeliveredKeeps ==
    ASSUME IInv, NEW o \in Orders,
           NEW status \in {"completed", "mispaid", "cancelled", "failed"}, Delivered(o, status)
    PROVE  IInv' /\ LedgerStep
<1>1. status \in orders[o].had /\ UNCHANGED <<now, orders, caller, todo>>
  BY DEF Delivered
<1>2. PICK i \in LinksOf(o) :
        /\ \/ status \in {"completed", "mispaid"} /\ PaidDelivered(i, status = "completed")
           \/ status \in {"cancelled", "failed"} /\ UndoneDelivered(i, status)
        /\ closed' = IF links'[i].review THEN closed \ {o} ELSE closed
  BY DEF Delivered
<1>3. i \in DOMAIN links /\ links[i].order = o
  BY DEF LinksOf
<1>4. ASSUME NEW disable \in BOOLEAN, disable \/ links[i].status # "pending",
             links' = Reviewed(i, disable), service' = service, heard' \in {heard, heard \cup {o}}
      PROVE  IInv' /\ Ledger!Lay(o)
  <2>1. /\ RowTurns(i) /\ links'[i].review /\ links'[i].status # "pending"
        /\ links'[i].status = "paid" <=> links[i].status = "paid"
    BY <1>3, <1>4, ReviewedMarks
  <2>2. closed' = closed \ {o}
    BY <1>2, <2>1
  <2> QED BY <1>1, <1>3, <1>4, <2>1, <2>2, LaysKeeps
<1>5. CASE status \in {"completed", "mispaid"}
  <2>1. PaidDelivered(i, status = "completed") /\ heard' = heard \cup {o}
    BY <1>2, <1>3, <1>5 DEF PaidDelivered
  <2>2. CASE status # "completed"
    <3>1. links' = Reviewed(i, TRUE) /\ service' = service
      BY <2>1, <2>2 DEF PaidDelivered
    <3> QED BY <1>4, <2>1, <3>1 DEF LedgerStep
  <2>3. CASE status = "completed" /\ links[i].status = "paid"
    <3>1. links' = links /\ service' = service
      BY <2>1, <2>3 DEF PaidDelivered
    <3>2. closed' = IF links[i].review THEN closed \ {o} ELSE closed
      BY <1>2, <1>3, <3>1
    <3>3. IInv' /\ (Ledger!Lay(o) \/ Stutters)
      BY <1>1, <1>3, <2>1, <2>3, <3>1, <3>2, RepeatKeeps
    <3> QED BY <3>3 DEF LedgerStep
  <2>4. CASE status = "completed" /\ links[i].status \notin {"paid", "pending"}
    <3>1. links' = Reviewed(i, FALSE) /\ service' = service
      BY <2>1, <2>4 DEF PaidDelivered
    <3>2. FALSE \in BOOLEAN /\ links[i].status # "pending"
      BY <2>4
    <3> QED BY <1>4, <2>1, <3>1, <3>2 DEF LedgerStep
  <2>5. CASE status = "completed" /\ links[i].status = "pending"
    <3>1. links' = [links EXCEPT ![i].status = "paid"] /\ Extends(i)
      BY <2>1, <2>5 DEF PaidDelivered
    <3>2. service' \in ServiceRow
      <4>1. service \in ServiceRow /\ links[i] \in Row
        BY <1>3, RowsTyped DEF IInv, Typed, ServiceRow
      <4>2. links[i].goal \in [Line -> Nat] /\ service.paid \in [Line -> Nat]
        BY <4>1 DEF Row, ServiceRow
      <4> DEFINE paid == [l \in Line |-> IF l \in LinesOf(links[i].selection)
                                         THEN links[i].goal[l] ELSE service.paid[l]]
      <4>3. paid \in [Line -> Nat] /\ service' = [service EXCEPT !.paid = paid]
        BY <3>1, <4>2 DEF Extends
      <4> HIDE DEF paid
      <4> QED BY <4>1, <4>3 DEF ServiceRow
    <3>3. ~links'[i].review
      <4>1. ~links[i].review
        BY <1>3, <2>5 DEF IInv, Withdrawn
      <4>2. links[i] \in Row /\ links \in Seq(Row)
        BY <1>3, RowsTyped DEF IInv, Typed
      <4> QED BY <1>3, <3>1, <4>1, <4>2 DEF Row
    <3>4. closed' = closed
      BY <1>2, <3>3
    <3>5. IInv' /\ Ledger!Settle(o)
      BY <1>1, <1>3, <2>1, <2>5, <3>1, <3>2, <3>4, SettlesKeeps
    <3> QED BY <3>5 DEF LedgerStep
  <2> QED BY <2>2, <2>3, <2>4, <2>5
<1>6. CASE status \in {"cancelled", "failed"}
  <2>1. UndoneDelivered(i, status) /\ service' = service /\ heard' = heard
    BY <1>2, <1>6 DEF UndoneDelivered
  <2>2. CASE links' = links
    <3>1. closed' = IF links[i].review THEN closed \ {o} ELSE closed
      BY <1>2, <1>3, <2>2
    <3>2. IInv' /\ (Ledger!Lay(o) \/ Stutters)
      BY <1>1, <1>3, <2>1, <2>2, <3>1, RepeatKeeps
    <3> QED BY <3>2 DEF LedgerStep
  <2>3. CASE links' # links
    <3>1. links' = Reviewed(i, TRUE)
      BY <2>1, <2>3 DEF UndoneDelivered
    <3> QED BY <1>4, <2>1, <3>1 DEF LedgerStep
  <2> QED BY <2>2, <2>3
<1> QED BY <1>5, <1>6

LEMMA ResolvesKeeps ==
    ASSUME IInv, NEW i \in DOMAIN links, Resolves(i)
    PROVE  IInv' /\ LedgerStep
<1>0. PICK o \in Orders : links[i].order = o
  BY RowsTyped DEF IInv
<1> DEFINE row == [links[i] EXCEPT !.review = FALSE]
<1>1. /\ links[i].review /\ links' = [links EXCEPT ![i] = row] /\ closed' = closed \cup {o}
      /\ UNCHANGED <<now, service, orders, caller, todo, heard>>
  BY <1>0 DEF Resolves
<1>2. links[i] \in Row
  BY RowsTyped DEF IInv
<1>3. row \in Row /\ row.order = o /\ row.status = links[i].status /\ ~row.review
  BY <1>0, <1>2 DEF Row
<1> HIDE DEF row
<1>4. RowTurns(i) /\ links'[i] = row
  BY <1>0, <1>1, <1>3, RowChanged
<1>5. Typed' /\ LinksValid' /\ Numbered' /\ OneLink' /\ Unrecorded'
  <2>1. service' \in ServiceRow
    BY <1>1 DEF IInv, Typed, ServiceRow
  <2> QED BY <1>1, <1>4, <2>1, RowTurnKeeps
<1>6. /\ DOMAIN links' = DOMAIN links /\ links[i].status # "pending"
      /\ \A j \in DOMAIN links \ {i} : links'[j] = links[j] /\ links[j].order # o
  BY <1>0, <1>1, <1>4 DEF RowTurns, IInv, OneLink, Withdrawn
<1>7. Withdrawn'
  <2>1. \A j \in DOMAIN links' : links'[j].review => links'[j].status # "pending"
    BY <1>3, <1>4, <1>6 DEF IInv, Withdrawn
  <2>2. ASSUME NEW p \in closed'
        PROVE  \E j \in DOMAIN links' : links'[j].order = p /\ links'[j].status # "pending"
    <3>1. PICK j \in DOMAIN links : links[j].order = p /\ links[j].status # "pending"
      BY <1>0, <1>1, <1>6, <2>2 DEF IInv, Withdrawn
    <3> QED BY <1>0, <1>3, <1>4, <1>6, <3>1
  <2> QED BY <2>1, <2>2 DEF Withdrawn
<1>8. HeardLinked'
  <2>1. ASSUME NEW p \in heard
        PROVE  \E j \in DOMAIN links' : links'[j].order = p
    BY <1>0, <1>3, <1>4, <1>6 DEF IInv, HeardLinked
  <2> QED BY <1>1, <2>1 DEF HeardLinked
<1>9. MoneyAccounted'
  <2>1. ASSUME NEW j \in DOMAIN links', links'[j].order \in heard
        PROVE  links'[j].status = "paid" \/ links'[j].review \/ links'[j].order \in closed'
    <3>1. CASE j = i
      BY <1>1, <1>3, <1>4, <3>1
    <3>2. CASE j # i
      BY <1>1, <1>6, <2>1, <3>2 DEF IInv, MoneyAccounted
    <3> QED BY <3>1, <3>2
  <2> QED BY <1>1, <2>1 DEF MoneyAccounted
<1>10. Earned' = Earned /\ Settled' = Settled
  BY <1>0, <1>1, <1>3, <1>4, <1>6 DEF Earned, Settled, LinksOf
<1>11. o \in Open /\ Open' = Open \ {o}
  BY <1>0, <1>1, <1>3, <1>4, <1>6 DEF Open, LinksOf
<1>12. Ledger!Resolve(o)
  BY <1>1, <1>10, <1>11 DEF Ledger!Resolve, Earned, Settled, Open
<1> QED BY <1>2, <1>5, <1>7, <1>8, <1>9, <1>12 DEF IInv, LedgerStep

-----------------------------------------------------------------------------
(* Steps that leave the links alone, or expire some of them                *)

LEMMA StoreTurnsKeeps ==
    ASSUME IInv, NEW o \in Orders, orders[o] # NoOrder, NEW status \in Statuses \ {"none"},
           Turns(o, status), UNCHANGED <<now, service, links, caller, todo, heard, closed>>
    PROVE  IInv' /\ LedgerStep
<1>1. /\ orders' \in [Orders -> [status : Statuses, had : SUBSET Statuses]]
      /\ NoneVanish /\ Numbered'
      /\ Earned' = IF status = "completed" THEN Earned \cup {o} ELSE Earned
  BY TurnsTyped, TurnsNumbered DEF IInv
<1>2. Kept(links, links')
  BY KeptSame DEF IInv, Typed
<1>3. IInv'
  BY <1>1, <1>2, QuietKeeps DEF IInv, Typed, LinksValid
<1>4. Settled' = Settled /\ Open' = Open
  BY <1>2, KeptStutters DEF IInv
<1>5. Ledger!Earn(o) \/ Stutters
  <2>1. CASE status = "completed"
    BY <1>1, <1>4, <2>1 DEF Ledger!Earn, Earned, Settled, Open
  <2>2. CASE status # "completed"
    BY <1>1, <1>4, <2>2 DEF Stutters, ledgerVars
  <2> QED BY <2>1, <2>2
<1> QED BY <1>3, <1>5 DEF LedgerStep

LEMMA StoreKeeps ==
    ASSUME IInv, Store
    PROVE  IInv' /\ LedgerStep
<1>1. PICK o \in Orders, status \in {"completed", "mispaid", "cancelled", "failed"} :
        \/ Delivered(o, status)
        \/ status \in {"completed", "mispaid"} /\ CustomerPays(o, status)
        \/ ShopTurns(o, status)
  BY DEF Store
<1>2. CASE Delivered(o, status)
  BY <1>2, DeliveredKeeps
<1>3. CASE CustomerPays(o, status) \/ ShopTurns(o, status)
  <2>1. orders[o] # NoOrder
    BY <1>3 DEF CustomerPays, ShopTurns, NoOrder
  <2>2. Turns(o, status) /\ UNCHANGED <<now, service, links, caller, todo, heard, closed>>
    BY <1>3 DEF CustomerPays, ShopTurns
  <2>3. status \in Statuses \ {"none"}
    BY DEF Statuses
  <2> QED BY <2>1, <2>2, <2>3, StoreTurnsKeeps
<1> QED BY <1>1, <1>2, <1>3

(* Nothing happens but to the row, the clock, and links that expire.       *)
LEMMA OthersKeep ==
    ASSUME IInv, Kept(links, links'), service' \in ServiceRow, now' \in Nat,
           todo' \subseteq Candidate, caller' \in [Callers -> Request],
           \A c \in Callers : caller'[c] = caller[c] \/ caller'[c].pc = "idle",
           UNCHANGED <<orders, heard, closed>>
    PROVE  IInv' /\ Stutters
<1>1. OrdersKept
  BY SameOrders
<1>2. \A c \in Callers : caller'[c].pc \in Linked => caller'[c].link \in DOMAIN links'
  BY DEF IInv, LinksValid, Linked, Kept
<1>3. \A c \in Callers : caller'[c].pc = "recording" => caller'[c] = caller[c]
  OBVIOUS
<1>4. IInv'
  BY <1>1, <1>2, <1>3, QuietKeeps DEF OrdersKept, ServiceRow
<1>5. Stutters
  BY <1>1, KeptStutters DEF IInv, Stutters, ledgerVars, OrdersKept
<1> QED BY <1>4, <1>5

LEMMA RowKeeps ==
    ASSUME IInv, Changes \/ Imports
    PROVE  IInv' /\ Stutters
<1>1. UNCHANGED <<now, links, orders, caller, todo, heard, closed>>
  BY DEF Changes, Imports
<1>2. service \in ServiceRow /\ now \in Nat
  BY DEF IInv, Typed, ServiceRow
<1>3. service' \in ServiceRow
  <2>1. CASE Imports
    <3> DEFINE paid == [l \in Line |-> IF service.paid[l] = 0 THEN 0 ELSE now]
    <3>1. paid \in [Line -> Nat] /\ service' = [paid |-> paid, manual |-> "", archived |-> FALSE]
      BY <1>2, <2>1 DEF Imports
    <3> HIDE DEF paid
    <3> QED BY <3>1 DEF ServiceRow
  <2>2. CASE Changes
    <3>1. CASE \E l \in Line, date \in {0, now + 1} : service' = [service EXCEPT !.paid[l] = date]
      <4>1. PICK l \in Line, date \in {0, now + 1} : service' = [service EXCEPT !.paid[l] = date]
        BY <3>1
      <4> DEFINE paid == [service.paid EXCEPT ![l] = date]
      <4>2. service.paid \in [Line -> Nat]
        BY <1>2 DEF ServiceRow
      <4>3. date \in Nat
        BY <1>2
      <4>4. paid \in [Line -> Nat] /\ service' = [service EXCEPT !.paid = paid]
        BY <4>1, <4>2, <4>3
      <4> HIDE DEF paid
      <4> QED BY <1>2, <4>4 DEF ServiceRow
    <3>2. CASE service' = [service EXCEPT !.archived = ~@]
      <4>1. (~service.archived) \in BOOLEAN
        OBVIOUS
      <4> QED BY <1>2, <3>2, <4>1 DEF ServiceRow
    <3>3. CASE \E state \in {"", "exempt", "suspended"} :
                  ~service.archived /\ service' = [service EXCEPT !.manual = state]
      BY <1>2, <3>3 DEF ServiceRow
    <3> QED BY <2>2, <3>1, <3>2, <3>3 DEF Changes
  <2> QED BY <2>1, <2>2
<1>4. Kept(links, links')
  BY <1>1, KeptSame DEF IInv, Typed
<1> QED BY <1>1, <1>3, <1>4, OthersKeep DEF IInv, Typed

LEMMA TickKeeps ==
    ASSUME IInv, Tick \/ Visits \/ UNCHANGED vars
    PROVE  IInv' /\ Stutters
<1>1. UNCHANGED <<service, orders, caller, todo, heard, closed>> /\ now' \in Nat
  <2>1. now \in Nat
    BY DEF IInv, Typed
  <2>2. CASE Tick
    BY <2>1, <2>2 DEF Tick
  <2>3. CASE Visits \/ UNCHANGED vars
    BY <2>1, <2>3 DEF Visits, vars
  <2> QED BY <2>2, <2>3
<1>2. Kept(links, links')
  <2>1. links' = links \/ links' = ExpiredRows(links)
    BY DEF Tick, Visits, vars
  <2> QED BY <2>1, KeptSame, ExpiringKeeps DEF IInv, Typed
<1> QED BY <1>1, <1>2, OthersKeep DEF IInv, Typed, ServiceRow

LEMMA RestartsKeeps ==
    ASSUME IInv, Restarts
    PROVE  IInv' /\ Stutters
<1>1. UNCHANGED <<now, service, links, orders, heard, closed>>
      /\ caller' = [c \in Callers |-> Idle] /\ todo' = {}
  BY DEF Restarts
<1>2. caller' \in [Callers -> Request] /\ \A c \in Callers : caller'[c].pc = "idle"
  BY <1>1, IdleIsRequest
<1>3. Kept(links, links')
  BY <1>1, KeptSame DEF IInv, Typed
<1> QED BY <1>1, <1>2, <1>3, OthersKeep DEF IInv, Typed, ServiceRow

-----------------------------------------------------------------------------
(* The specification                                                       *)

LEMMA InitKeeps ==
    ASSUME Init
    PROVE  IInv /\ Ledger!Init
<1>1. Typed
  <2>1. DomainDate \in Nat /\ Idle \in Request
    BY BillingAssumption, IdleIsRequest
  <2>2. service \in ServiceRow
    <3> DEFINE paid == [l \in Line |-> IF l = "domain" THEN DomainDate ELSE 1]
    <3>1. paid \in [Line -> Nat] /\ service = [paid |-> paid, manual |-> "", archived |-> FALSE]
      BY <2>1 DEF Init, Line
    <3> HIDE DEF paid
    <3> QED BY <3>1 DEF ServiceRow
  <2>3. NoOrder \in [status : Statuses, had : SUBSET Statuses]
    BY DEF NoOrder, Statuses
  <2>4. links \in Seq(Row) /\ todo \subseteq Candidate /\ now \in Nat
    BY EmptySeq DEF Init
  <2> QED BY <2>1, <2>2, <2>3, <2>4 DEF Init, Typed, ServiceRow
<1>2. DOMAIN links = {} /\ heard = {} /\ closed = {} /\ \A c \in Callers : caller[c].pc = "idle"
  <2>1. links = <<>> /\ heard = {} /\ closed = {} /\ caller = [c \in Callers |-> Idle]
    BY DEF Init
  <2>2. DOMAIN links = {}
    BY <2>1
  <2> QED BY <2>1, <2>2, IdleIsRequest
<1>3. \A o \in Orders : orders[o] = NoOrder /\ orders[o].had = {}
  BY DEF Init, NoOrder
<1>4. LinksValid /\ OneLink /\ Unrecorded /\ Withdrawn /\ HeardLinked /\ MoneyAccounted
  BY <1>2 DEF LinksValid, Linked, OneLink, Unrecorded, Withdrawn, HeardLinked, MoneyAccounted
<1>5. Numbered
  BY <1>3 DEF Numbered, Exists
<1>6. Ledger!Init
  BY <1>2, <1>3 DEF Ledger!Init, LinksOf
<1> QED BY <1>1, <1>4, <1>5, <1>6 DEF IInv

LEMMA NextKeeps ==
    ASSUME IInv, [Next]_vars
    PROVE  IInv' /\ LedgerStep
<1>1. CASE Requests
  <2>1. ASSUME NEW s \in Selections, Asks(s, 0)
        PROVE  IInv' /\ Stutters
    <3>1. s \in Picks
      BY BillingAssumption DEF Picks
    <3> QED BY <2>1, <3>1, AsksKeeps
  <2>2. ASSUME NEW i \in DOMAIN links, Asks(links[i].selection, i)
        PROVE  IInv' /\ Stutters
    <3>1. PICK s \in Picks : s = links[i].selection
      BY RowsTyped DEF IInv, Row
    <3>2. Asks(s, i)
      BY <2>2, <3>1 DEF Asks
    <3> QED BY <3>2, AsksKeeps
  <2>3. ASSUME NEW i \in DOMAIN links, AsksCancel(i)
        PROVE  IInv' /\ Stutters
    BY <2>3, AsksCancelKeeps
  <2>4. ASSUME NEW i \in DOMAIN links, Resolves(i)
        PROVE  IInv' /\ LedgerStep
    BY <2>4, ResolvesKeeps
  <2>5. CASE Changes \/ Imports
    BY <2>5, RowKeeps DEF LedgerStep
  <2> QED BY <1>1, <2>1, <2>2, <2>3, <2>4, <2>5 DEF Requests, LedgerStep
<1>2. CASE RunStarts
  BY <1>2, RunStartsKeeps DEF LedgerStep
<1>3. CASE Store
  BY <1>3, StoreKeeps
<1>4. CASE Visits \/ Tick \/ UNCHANGED vars
  BY <1>4, TickKeeps DEF LedgerStep
<1>5. CASE Restarts
  BY <1>5, RestartsKeeps DEF LedgerStep
<1>6. ASSUME NEW c \in Callers, Calls(c)
      PROVE  IInv' /\ LedgerStep
  <2>1. ASSUME NEW lost \in BOOLEAN, WooCancels(c, lost) \/ WooCreates(c, lost)
        PROVE  IInv' /\ Stutters
    BY <2>1, WooCancelsKeeps, WooCreatesKeeps
  <2>2. CASE CallFails(c) \/ Cancels(c) \/ Retires(c) \/ Records(c)
    BY <2>2, CallFailsKeeps, CancelsKeeps, RetiresKeeps, RecordsKeeps DEF LedgerStep
  <2> QED BY <1>6, <2>1, <2>2 DEF Calls, LedgerStep
<1> QED BY <1>1, <1>2, <1>3, <1>4, <1>5, <1>6 DEF Next

(* Every step is one of the ledger's, or none: an order settles once, only *)
(* if it was completed for its amount, and never after a review was begun. *)
THEOREM LedgerImplemented == Spec => LedgerSpec
<1>1. Init => IInv /\ Ledger!Init
  BY InitKeeps
<1>2. IInv /\ [Next]_vars => IInv' /\ [Ledger!Next]_ledgerVars
  BY NextKeeps DEF LedgerStep, Ledger!Next, Stutters
<1> QED BY <1>1, <1>2, PTL DEF Spec, LedgerSpec, Ledger!Spec, Ledger!vars, ledgerVars,
                              Earned, Settled, Open

(* An order whose completion was heard has extended the service, or waits  *)
(* for an operator, or did.                                                *)
THEOREM Accounted == Spec => []MoneyAccounted
<1>1. Init => IInv
  BY InitKeeps
<1>2. IInv /\ [Next]_vars => IInv'
  BY NextKeeps
<1>3. IInv => MoneyAccounted
  BY DEF IInv
<1> QED BY <1>1, <1>2, <1>3, PTL DEF Spec

-----------------------------------------------------------------------------
(* Notices (Notices.tla): what the service asks the panel to say, what the *)
(* panel says of itself, and the commands it takes, for any subjects,      *)
(* reminders, chats and retries, and any number of crashes.                *)
(*                                                                         *)
(* A reminder becomes one notice because the history and its file both     *)
(* have it once either does (MadeKnown), as long as nothing has been       *)
(* dropped from them (Roomy).  An operation runs once per code because the *)
(* code that waits was issued and has not been used (CodesTrue).           *)

(* What checks found and watchers hold are levels.                         *)
LevelsTyped ==
    /\ world \in [Subjects -> Levels] /\ active \in [Subjects -> Levels]
    /\ findings # <<>> => findings[1] \in [Checked -> Levels]

NoticedInv == LevelsTyped /\ NoticedTrue

(* The operator's messages, and how far the bot has got with them.         *)
Bots(n) == [offset : Nat, code : Nat, batch : 0 .. n, reply : {"none", "code", "text"}]
Messages == [kind : {"ask", "cancel"}] \cup [kind : {"confirm"}, code : Nat]
ChatTyped ==
    /\ chat \in Seq(Messages) /\ cursor \in Nat
    /\ codes \in [issued : Nat, seen : SUBSET Nat]
    /\ bot \in Bots(Len(chat))

(* The code that waits for its confirmation was issued, and not used.      *)
CodesTrue ==
    /\ done \in Seq(Nat)
    /\ \A c \in ToSet(done) : c <= codes.issued
    /\ bot.code <= codes.issued /\ (bot.code # 0 => bot.code \notin ToSet(done))

CommandsInv == ChatTyped /\ CodesTrue /\ ConfirmedOnce

(* A reminder that became a notice is in the history and in its file.      *)
Events == [about : Subjects \cup Bills \cup {Job}, says : Levels \cup {"due", "ended"}, id : Nat]
QueueTyped ==
    /\ queue \in Seq(Events) /\ stamp \in Nat
    /\ saved = [queue |-> saved.queue, box |-> saved.box] /\ saved.queue \in Seq(Events)

Reminder(b) == Event(b, "due", 0)
MadeKnown ==
    /\ made \in [Bills -> {0, 1}] /\ outbox \in [Bills -> {"none", "pending", "failed", "sent"}]
    /\ \A b \in Bills :
          /\ made[b] = 1 => Reminder(b) \in ToSet(queue) \cap ToSet(saved.queue)
          /\ Reminder(b) \in ToSet(queue) \cup ToSet(saved.queue) => made[b] = 1
          /\ outbox[b] = "sent" => made[b] = 1

RemindersInv ==
    /\ NoticedInv /\ QueueTyped /\ MadeKnown
    /\ reminding \in Seq(Bills) /\ jobs \in Seq({"running", "ended"})

(* The history has not yet dropped anything.                               *)
Roomy == Len(queue) < MaxHistory

-----------------------------------------------------------------------------
(* The members of what is appended, turned round and joined.               *)
LEMMA MembersAppended ==
    ASSUME NEW S, NEW q \in Seq(S), NEW e \in S
    PROVE  ToSet(Append(q, e)) = ToSet(q) \cup {e}
<1>1. /\ Append(q, e) \in Seq(S) /\ DOMAIN Append(q, e) = 1 .. Len(q) + 1
      /\ Append(q, e)[Len(q) + 1] = e /\ \A n \in 1 .. Len(q) : Append(q, e)[n] = q[n]
      /\ DOMAIN q = 1 .. Len(q) /\ Len(q) \in Nat
  OBVIOUS
<1> QED BY <1>1 DEF ToSet

LEMMA MembersJoined ==
    ASSUME NEW S, NEW q \in Seq(S), NEW r \in Seq(S)
    PROVE  r \o q \in Seq(S) /\ ToSet(r \o q) = ToSet(r) \cup ToSet(q)
<1> DEFINE both == r \o q
<1>1. /\ both \in Seq(S) /\ Len(both) = Len(r) + Len(q) /\ DOMAIN both = 1 .. Len(r) + Len(q)
      /\ \A n \in 1 .. Len(r) : both[n] = r[n]
      /\ \A n \in 1 .. Len(q) : both[Len(r) + n] = q[n]
      /\ DOMAIN q = 1 .. Len(q) /\ DOMAIN r = 1 .. Len(r) /\ Len(q) \in Nat /\ Len(r) \in Nat
  OBVIOUS
<1> HIDE DEF both
<1>2. ToSet(both) \subseteq ToSet(r) \cup ToSet(q)
  <2> SUFFICES ASSUME NEW n \in 1 .. Len(r) + Len(q) PROVE both[n] \in ToSet(r) \cup ToSet(q)
    BY <1>1 DEF ToSet
  <2>1. CASE n \in 1 .. Len(r)
    BY <1>1, <2>1 DEF ToSet
  <2>2. CASE n \notin 1 .. Len(r)
    <3>1. n - Len(r) \in 1 .. Len(q) /\ n = Len(r) + (n - Len(r))
      BY <1>1, <2>2
    <3>2. both[n] = q[n - Len(r)]
      BY <1>1, <3>1
    <3> QED BY <1>1, <3>1, <3>2 DEF ToSet
  <2> QED BY <2>1, <2>2
<1>3. ToSet(r) \subseteq ToSet(both)
  <2> SUFFICES ASSUME NEW n \in 1 .. Len(r) PROVE r[n] \in ToSet(both)
    BY <1>1 DEF ToSet
  <2>1. n \in DOMAIN both /\ both[n] = r[n]
    BY <1>1
  <2> QED BY <2>1 DEF ToSet
<1>4. ToSet(q) \subseteq ToSet(both)
  <2> SUFFICES ASSUME NEW n \in 1 .. Len(q) PROVE q[n] \in ToSet(both)
    BY <1>1 DEF ToSet
  <2>1. Len(r) + n \in DOMAIN both /\ both[Len(r) + n] = q[n]
    BY <1>1
  <2> QED BY <2>1 DEF ToSet
<1>5. ToSet(both) = ToSet(r) \cup ToSet(q)
  BY <1>2, <1>3, <1>4
<1> QED BY <1>1, <1>5 DEF both

LEMMA MembersReversed ==
    ASSUME NEW S, NEW q \in Seq(S)
    PROVE  Reverse(q) \in Seq(S) /\ ToSet(Reverse(q)) = ToSet(q)
<1>1. Len(q) \in Nat /\ DOMAIN q = 1 .. Len(q) /\ \A n \in 1 .. Len(q) : q[n] \in S
  OBVIOUS
<1>2. \A n \in 1 .. Len(q) : Len(q) - n + 1 \in 1 .. Len(q) /\ Len(q) - (Len(q) - n + 1) + 1 = n
  BY <1>1
<1>3. DOMAIN Reverse(q) = 1 .. Len(q) /\ \A n \in 1 .. Len(q) : Reverse(q)[n] = q[Len(q) - n + 1]
  BY DEF Reverse
<1>4. Reverse(q) \in [1 .. Len(q) -> S]
  BY <1>1, <1>2 DEF Reverse
<1>5. Reverse(q) \in Seq(S)
  BY <1>1, <1>4
<1>6. ToSet(Reverse(q)) \subseteq ToSet(q)
  BY <1>1, <1>2, <1>3 DEF ToSet
<1>7. ToSet(q) \subseteq ToSet(Reverse(q))
  <2> SUFFICES ASSUME NEW n \in 1 .. Len(q) PROVE q[n] \in ToSet(Reverse(q))
    BY <1>1 DEF ToSet
  <2>1. Reverse(q)[Len(q) - n + 1] = q[n] /\ Len(q) - n + 1 \in DOMAIN Reverse(q)
    BY <1>2, <1>3
  <2> QED BY <2>1 DEF ToSet
<1> QED BY <1>5, <1>6, <1>7

(* The subjects that turned, in some order.                                *)
LEMMA OrderedTyped ==
    ASSUME NEW S, IsFiniteSet(S)
    PROVE  SetToSeq(S) \in Seq(S)
<1>1. Cardinality(S) \in Nat /\ ExistsBijection(1 .. Cardinality(S), S)
  BY FS_CardinalityType
<1>2. \E f \in [1 .. Cardinality(S) -> S] : IsInjective(f)
  <2>1. PICK f \in Bijection(1 .. Cardinality(S), S) : TRUE
    BY <1>1 DEF ExistsBijection
  <2>2. f \in [1 .. Cardinality(S) -> S]
        /\ \A m, n \in 1 .. Cardinality(S) : f[m] = f[n] => m = n
    BY <2>1 DEF Bijection, Injection, IsInjective
  <2> QED BY <2>2 DEF IsInjective
<1>3. SetToSeq(S) \in [1 .. Cardinality(S) -> S]
  BY <1>2 DEF SetToSeq
<1> QED BY <1>1, <1>3

-----------------------------------------------------------------------------
(* Most steps leave alone what is held and what was told of it.            *)
LEMMA HealthLeft ==
    ASSUME \/ Sends \/ Polls \/ Reminds \/ Expire \/ BillingCrash
           \/ \E e \in DOMAIN box : RetryDue(e)
           \/ \E b \in Bills : FallsDue(b)
           \/ \E j \in DOMAIN jobs : JobEnds(j)
           \/ \E update : Says(update)
           \/ UNCHANGED noticesVars
    PROVE  UNCHANGED Health
<1>1. CASE Sends
  BY <1>1 DEF Sends, Process, Send, Settle
<1>2. CASE Polls
  BY <1>2 DEF Polls, Poll, Ask, Confirm, CancelMutation, Reply, EndBatch
<1>3. CASE Reminds \/ Expire \/ BillingCrash
  BY <1>3 DEF Reminds, RunReminders, SendReminder, Expire, BillingCrash
<1>4. CASE \/ \E e \in DOMAIN box : RetryDue(e)
           \/ \E b \in Bills : FallsDue(b)
           \/ \E j \in DOMAIN jobs : JobEnds(j)
           \/ \E update : Says(update)
  BY <1>4 DEF RetryDue, FallsDue, JobEnds, Says
<1>5. CASE UNCHANGED noticesVars
  BY <1>5 DEF noticesVars
<1> QED BY <1>1, <1>2, <1>3, <1>4, <1>5

LEMMA NoticedKept ==
    ASSUME NoticedInv, [NoticesNext]_noticesVars
    PROVE  NoticedInv'
<1> USE DEF NoticedInv, LevelsTyped, NoticedTrue
<1>0. CASE UNCHANGED Health
  BY <1>0 DEF Health
<1>1. CASE Collect
  BY <1>1 DEF Collect, Subjects
<1>2. CASE Reconcile
  <2>1. PICK turned \in SUBSET Checked :
          /\ turned = {s \in Checked : Transition(s, findings[1][s])}
          /\ Told(findings[1], turned) /\ hit' = hit \ turned
          /\ active' = [s \in Subjects |-> IF s \in Checked THEN findings[1][s] ELSE active[s]]
    BY <1>2 DEF Reconcile
  <2>2. active' \in [Subjects -> Levels] /\ world' = world /\ findings' = <<>>
    BY <1>2, <2>1 DEF Reconcile, Subjects
  <2>3. ASSUME NEW s \in Subjects, s \notin hit'
        PROVE  last'[s] = active'[s]
    BY <2>1, <2>3 DEF Told, Transition
  <2> QED BY <2>2, <2>3
<1>3. ASSUME NEW s \in Watched, Watch(s)
      PROVE  NoticedInv'
  <2>1. s \in Subjects
    BY DEF Subjects
  <2> QED BY <1>3, <2>1 DEF Watch, Told
<1>4. ASSUME NEW s \in Subjects, Shifts(s)
      PROVE  NoticedInv'
  BY <1>4 DEF Shifts
<1>5. ASSUME NEW s \in Watched, CrashOfWatch(s)
      PROVE  NoticedInv'
  <2>1. s \in Subjects
    BY DEF Subjects
  <2> QED BY <1>5, <2>1 DEF CrashOfWatch, PanelRestarts
<1>6. CASE PanelCrash
  BY <1>6 DEF PanelCrash, PanelRestarts
<1>7. CASE CrashOfCheck
  BY <1>7 DEF CrashOfCheck, PanelRestarts, Told
<1>8. CASE Checks
  BY <1>1, <1>2, <1>3, <1>8 DEF Checks
<1> QED
  <2> USE <1>0, <1>4, <1>5, <1>6, <1>7, <1>8, HealthLeft
  <2> HIDE DEF NoticedInv
  <2> QED BY DEF NoticesNext

(* The last notice about what is checked or watched says what the panel    *)
(* holds, for any number of checks, changes and crashes: but for what a    *)
(* crash has separated from its notice.                                    *)
THEOREM NoticesAgree == NoticesSpec => []NoticedTrue
<1>1. NoticesInit => NoticedInv
  BY DEF NoticesInit, NoticedInv, LevelsTyped, NoticedTrue, Levels
<1>2. NoticedInv /\ [NoticesNext]_noticesVars => NoticedInv'
  BY NoticedKept
<1>3. NoticedInv => NoticedTrue
  BY DEF NoticedInv
<1> QED BY <1>1, <1>2, <1>3, PTL DEF NoticesSpec

-----------------------------------------------------------------------------
(* What the bot handles is a message of the chat.                          *)
LEMMA HandledIsSaid ==
    ASSUME ChatTyped, NEW kind, Handles(kind)
    PROVE  /\ bot.offset + 1 \in DOMAIN chat /\ Update \in Messages /\ Update.kind = kind
  BY DEF ChatTyped, Bots, Handles, Update

(* A code that was never used joins those that were.                       *)
LEMMA UsedOnce ==
    ASSUME CommandsInv, bot.code # 0
    PROVE  Append(done, bot.code) \in Seq(Nat)
           /\ Cardinality(ToSet(Append(done, bot.code))) = Len(Append(done, bot.code))
           /\ ToSet(Append(done, bot.code)) = ToSet(done) \cup {bot.code}
<1>1. done \in Seq(Nat) /\ bot.code \in Nat /\ bot.code \notin ToSet(done)
      /\ Cardinality(ToSet(done)) = Len(done)
  BY DEF CommandsInv, ChatTyped, Bots, CodesTrue, ConfirmedOnce
<1>2. ToSet(Append(done, bot.code)) = ToSet(done) \cup {bot.code}
  BY <1>1, MembersAppended
<1>3. IsFiniteSet(ToSet(done))
  <2>1. /\ Len(done) \in Nat /\ DOMAIN done = 1 .. Len(done)
        /\ done = [n \in 1 .. Len(done) |-> done[n]]
    BY <1>1
  <2>3. IsFiniteSet(1 .. Len(done))
    <3>1. 1 \in Int /\ Len(done) \in Int
      BY <2>1
    <3> QED BY <3>1, FS_Interval
  <2>2. done \in Surjection(1 .. Len(done), ToSet(done))
    BY <2>1 DEF ToSet, Surjection
  <2> QED BY <2>2, <2>3, FS_Surjection
<1>4. Cardinality(ToSet(done) \cup {bot.code}) = Cardinality(ToSet(done)) + 1
  BY <1>1, <1>3, FS_AddElement
<1> QED BY <1>1, <1>2, <1>4

(* What steps have to keep that use no code and hear no message.           *)
LEMMA CommandsStay ==
    ASSUME CommandsInv, UNCHANGED <<chat, done>>, cursor' \in Nat,
           codes' \in [issued : Nat, seen : SUBSET Nat], codes.issued <= codes'.issued,
           bot' \in Bots(Len(chat)),
           bot'.code <= codes'.issued, bot'.code # 0 => bot'.code \notin ToSet(done)
    PROVE  CommandsInv'
<1>1. ChatTyped'
  BY DEF CommandsInv, ChatTyped
<1>2. \A c \in ToSet(done) : c \in Nat /\ c <= codes.issued
  BY DEF CommandsInv, CodesTrue, ToSet
<1>3. codes.issued \in Nat /\ codes'.issued \in Nat
  BY DEF CommandsInv, ChatTyped
<1>4. \A c \in ToSet(done) : c <= codes'.issued
  BY <1>2, <1>3
<1>5. CodesTrue'
  BY <1>4 DEF CommandsInv, CodesTrue
<1> QED BY <1>1, <1>5 DEF CommandsInv, ConfirmedOnce

LEMMA CommandsKept ==
    ASSUME CommandsInv, [NoticesNext]_noticesVars
    PROVE  CommandsInv'
<1>a. /\ chat \in Seq(Messages) /\ cursor \in Nat /\ codes \in [issued : Nat, seen : SUBSET Nat]
      /\ bot \in Bots(Len(chat)) /\ Len(chat) \in Nat
      /\ bot.code <= codes.issued /\ (bot.code # 0 => bot.code \notin ToSet(done))
  BY DEF CommandsInv, ChatTyped, CodesTrue
<1>b. \A c \in ToSet(done) : c <= codes.issued
  BY DEF CommandsInv, CodesTrue
<1>c. bot \in Bots(Len(chat)) /\ bot.offset \in Nat /\ bot.offset + 1 \in Nat /\ 0 \in 0 .. Len(chat)
      /\ Len(chat) \in 0 .. Len(chat)
  BY <1>a DEF Bots
<1>0. CASE UNCHANGED Telegram
  BY <1>0, <1>a, CommandsStay DEF Telegram
<1>1. ASSUME NEW update \in Messages, Says(update)
      PROVE  CommandsInv'
  <2>1. /\ chat' = Append(chat, update) /\ UNCHANGED <<bot, cursor, codes, done>>
    BY <1>1 DEF Says
  <2>2. /\ chat' \in Seq(Messages) /\ Len(chat') = Len(chat) + 1 /\ Len(chat) \in Nat
        /\ DOMAIN chat \subseteq DOMAIN chat' /\ \A n \in DOMAIN chat : chat'[n] = chat[n]
    BY <1>a, <2>1
  <2>3. bot' \in Bots(Len(chat'))
    BY <1>a, <2>1, <2>2 DEF Bots
  <2>4. ChatTyped'
    BY <1>a, <2>1, <2>2, <2>3 DEF ChatTyped
  <2>5. ASSUME NEW n \in DOMAIN done
        PROVE  \E m \in DOMAIN chat' : chat'[m].kind = "confirm" /\ chat'[m].code = done[n]
    <3>1. PICK m \in DOMAIN chat : chat[m].kind = "confirm" /\ chat[m].code = done[n]
      BY DEF CommandsInv, ConfirmedOnce
    <3> QED BY <2>2, <3>1
  <2>6. CodesTrue' /\ Cardinality(ToSet(done)) = Len(done)
    BY <2>1 DEF CommandsInv, CodesTrue, ConfirmedOnce
  <2>7. ConfirmedOnce'
    BY <2>1, <2>5, <2>6 DEF ConfirmedOnce
  <2> QED BY <2>4, <2>6, <2>7 DEF CommandsInv
<1>2. CASE Poll
  <2>1. bot' \in Bots(Len(chat)) /\ bot'.code = bot.code
    <3>1. bot' = [bot EXCEPT !.batch = Len(chat)]
      BY <1>2 DEF Poll
    <3> QED BY <1>c, <3>1 DEF Bots
  <2> QED BY <1>2, <1>a, <2>1, CommandsStay DEF Poll
<1>3. CASE Ask
  <2>1. codes.issued + 1 \notin ToSet(done)
    BY <1>a, <1>b
  <2>4. codes.issued \in Nat /\ codes.issued + 1 \in Nat
    BY <1>a
  <2>5. bot' \in Bots(Len(chat)) /\ bot'.code = codes.issued + 1
    <3>1. bot' = [bot EXCEPT !.code = codes.issued + 1, !.reply = "code"]
      BY <1>3 DEF Ask
    <3> QED BY <1>c, <2>4, <3>1 DEF Bots
  <2>2. /\ bot' \in Bots(Len(chat)) /\ bot'.code = codes.issued + 1
        /\ codes' \in [issued : Nat, seen : SUBSET Nat] /\ codes'.issued = codes.issued + 1
    BY <1>3, <1>a, <2>4, <2>5 DEF Ask
  <2>3. codes.issued <= codes'.issued /\ bot'.code <= codes'.issued
    BY <2>2, <1>a
  <2> QED BY <1>3, <1>a, <2>1, <2>2, <2>3, CommandsStay DEF Ask
<1>4. CASE Confirm
  <2>0. /\ bot' \in Bots(Len(chat)) /\ bot'.code \in {0, bot.code} /\ UNCHANGED <<chat, cursor, codes>>
    <3>1. bot' \in {[bot EXCEPT !.code = 0, !.reply = "text"], [bot EXCEPT !.reply = "text"]}
      BY <1>4 DEF Confirm
    <3>2. bot' \in Bots(Len(chat)) /\ bot'.code \in {0, bot.code}
      <4>1. CASE bot' = [bot EXCEPT !.code = 0, !.reply = "text"]
        BY <1>c, <4>1 DEF Bots
      <4>2. CASE bot' = [bot EXCEPT !.reply = "text"]
        BY <1>c, <4>2 DEF Bots
      <4> QED BY <3>1, <4>1, <4>2
    <3> QED BY <1>4, <3>2 DEF Confirm
  <2>1. CASE UNCHANGED done
    <3>1. bot'.code <= codes.issued /\ (bot'.code # 0 => bot'.code \notin ToSet(done))
      BY <2>0, <1>a
    <3> QED BY <1>a, <2>0, <2>1, <3>1, CommandsStay
  <2>2. CASE Matches(Update.code) /\ bot' = [bot EXCEPT !.code = 0, !.reply = "text"]
             /\ done' = Append(done, bot.code)
    <3>1. bot.code # 0 /\ bot.code = Update.code /\ Update.kind = "confirm"
          /\ bot.offset + 1 \in DOMAIN chat
      BY <1>4, <2>2, HandledIsSaid DEF Confirm, Matches, CommandsInv
    <3>2. /\ done' \in Seq(Nat) /\ Cardinality(ToSet(done')) = Len(done')
          /\ ToSet(done') = ToSet(done) \cup {bot.code}
      BY <2>2, <3>1, UsedOnce
    <3>3. ASSUME NEW n \in DOMAIN done'
          PROVE  \E m \in DOMAIN chat : chat[m].kind = "confirm" /\ chat[m].code = done'[n]
      <4>0. done \in Seq(Nat) /\ DOMAIN done' = 1 .. Len(done) + 1 /\ DOMAIN done = 1 .. Len(done)
            /\ done'[Len(done) + 1] = bot.code /\ \A k \in DOMAIN done : done'[k] = done[k]
        BY <2>2 DEF CommandsInv, CodesTrue
      <4>1. CASE n \in DOMAIN done
        <5>1. done'[n] = done[n]
          BY <4>0, <4>1
        <5> QED BY <4>1, <5>1 DEF CommandsInv, ConfirmedOnce
      <4>2. CASE n \notin DOMAIN done
        <5>1. done'[n] = bot.code
          BY <4>0, <4>2, <3>3
        <5> QED BY <3>1, <5>1 DEF Update
      <4> QED BY <4>1, <4>2
    <3>4. bot'.code = 0
      BY <2>2, <1>a
    <3>5. ChatTyped'
      BY <1>a, <2>0 DEF ChatTyped
    <3>6. \A c \in ToSet(done') : c <= codes'.issued
      BY <2>0, <3>2, <1>a, <1>b
    <3>7. CodesTrue'
      BY <2>0, <3>2, <3>4, <3>6, <1>a DEF CodesTrue
    <3>8. ConfirmedOnce'
      BY <2>0, <3>2, <3>3 DEF ConfirmedOnce
    <3> QED BY <3>5, <3>7, <3>8 DEF CommandsInv
  <2> QED BY <1>4, <2>1, <2>2 DEF Confirm
<1>5. CASE CancelMutation \/ Expire
  <2>1. /\ bot' \in Bots(Len(chat)) /\ bot'.code = 0 /\ UNCHANGED <<chat, cursor, codes, done>>
    <3>1. bot' \in {[bot EXCEPT !.code = 0, !.reply = "text"], [bot EXCEPT !.code = 0]}
      BY <1>5 DEF CancelMutation, Expire
    <3>2. bot' \in Bots(Len(chat)) /\ bot'.code = 0
      <4>1. CASE bot' = [bot EXCEPT !.code = 0, !.reply = "text"]
        BY <1>c, <4>1 DEF Bots
      <4>2. CASE bot' = [bot EXCEPT !.code = 0]
        BY <1>c, <4>2 DEF Bots
      <4> QED BY <3>1, <4>1, <4>2
    <3> QED BY <1>5, <3>2 DEF CancelMutation, Expire
  <2> QED BY <1>a, <2>1, CommandsStay
<1>6. CASE Reply
  <2>0. UNCHANGED codes \/ codes' = [codes EXCEPT !.seen = @ \cup {codes.issued}]
    BY <1>6, <1>a DEF Reply, Replied
  <2>1. /\ UNCHANGED <<chat, done>> /\ codes' \in [issued : Nat, seen : SUBSET Nat]
        /\ codes'.issued = codes.issued /\ cursor' \in Nat
    BY <1>6, <1>a, <2>0 DEF Reply, Bots
  <2>2. bot' \in Bots(Len(chat)) /\ bot'.code = bot.code
    <3>1. bot' \in {[bot EXCEPT !.offset = bot.offset + 1, !.reply = "none"],
                    [bot EXCEPT !.batch = 0, !.reply = "none"]}
      BY <1>6 DEF Reply
    <3> QED BY <1>c, <3>1 DEF Bots
  <2> QED BY <1>a, <2>1, <2>2, CommandsStay
<1>7. CASE EndBatch
  <2>0. bot.offset \in Nat
    BY <1>a DEF Bots
  <2>1. /\ bot' \in Bots(Len(chat)) /\ bot'.code = bot.code /\ cursor' \in Nat
        /\ UNCHANGED <<chat, codes, done>>
    <3>1. bot' = [bot EXCEPT !.batch = 0]
      BY <1>7 DEF EndBatch
    <3>2. bot' \in Bots(Len(chat)) /\ bot'.code = bot.code
      BY <1>c, <3>1 DEF Bots
    <3> QED BY <1>7, <2>0, <3>2 DEF EndBatch
  <2> QED BY <1>a, <2>1, CommandsStay
<1>8. CASE PanelRestarts
  <2>1. /\ bot' \in Bots(Len(chat)) /\ bot'.code = 0 /\ UNCHANGED <<chat, cursor, codes, done>>
    <3>1. bot' = [offset |-> cursor, code |-> 0, batch |-> 0, reply |-> "none"]
      BY <1>8 DEF PanelRestarts
    <3>2. bot' \in Bots(Len(chat)) /\ bot'.code = 0
      BY <1>a, <1>c, <3>1 DEF Bots
    <3> QED BY <1>8, <3>2 DEF PanelRestarts
  <2> QED BY <1>a, <2>1, CommandsStay
<1>9. CASE Polls
  BY <1>2, <1>3, <1>4, <1>5, <1>6, <1>7, <1>9 DEF Polls
<1> QED
  <2>1. CASE Sends \/ Checks \/ Reminds \/ UNCHANGED noticesVars
    BY <1>0, <2>1 DEF Sends, Process, Send, Settle, Checks, Collect, Reconcile, Watch, Reminds,
                      RunReminders, SendReminder, noticesVars
  <2>2. CASE \/ \E e \in DOMAIN box : RetryDue(e)
             \/ \E s \in Subjects : Shifts(s)
             \/ \E b \in Bills : FallsDue(b)
             \/ \E j \in DOMAIN jobs : JobEnds(j)
             \/ BillingCrash
    BY <1>0, <2>2 DEF RetryDue, Shifts, FallsDue, JobEnds, BillingCrash
  <2>3. CASE PanelCrash \/ CrashOfCheck \/ \E s \in Watched : CrashOfWatch(s)
    BY <1>8, <2>3 DEF PanelCrash, CrashOfCheck, CrashOfWatch
  <2>4. /\ [kind |-> "ask"] \in Messages /\ [kind |-> "cancel"] \in Messages
        /\ \A c \in Seen : [kind |-> "confirm", code |-> c] \in Messages
    BY <1>a DEF Messages, Seen
  <2>5. CASE \/ Says([kind |-> "ask"]) \/ Says([kind |-> "cancel"])
             \/ \E c \in Seen : Says([kind |-> "confirm", code |-> c])
    BY <1>1, <2>4, <2>5
  <2> QED BY <1>5, <1>9, <2>1, <2>2, <2>3, <2>5 DEF NoticesNext

(* However often Telegram delivers an update again, and wherever a reply   *)
(* fails or the panel restarts, a code runs one operation, and only after  *)
(* it was sent back.                                                       *)
THEOREM CommandsOnce == NoticesSpec => []ConfirmedOnce
<1>1. NoticesInit => CommandsInv
  <2> SUFFICES ASSUME NoticesInit PROVE CommandsInv
    OBVIOUS
  <2>1. ToSet(done) = {} /\ Len(done) = 0 /\ Cardinality({}) = 0
    BY FS_EmptySet DEF NoticesInit, ToSet
  <2>2. ChatTyped
    BY DEF NoticesInit, ChatTyped, Bots
  <2>3. CodesTrue
    BY <2>1 DEF NoticesInit, CodesTrue
  <2>4. ConfirmedOnce
    <3>1. DOMAIN done = {}
      BY DEF NoticesInit
    <3> QED BY <2>1, <3>1 DEF ConfirmedOnce
  <2> QED BY <2>2, <2>3, <2>4 DEF CommandsInv
<1>2. CommandsInv /\ [NoticesNext]_noticesVars => CommandsInv'
  BY CommandsKept
<1>3. CommandsInv => ConfirmedOnce
  BY DEF CommandsInv
<1> QED BY <1>1, <1>2, <1>3, PTL DEF NoticesSpec

-----------------------------------------------------------------------------
(* What a step does to the history and its file: it keeps what both have,  *)
(* and adds what is new to both.                                           *)
Gains(new) ==
    /\ QueueTyped'
    /\ (ToSet(queue) \cap ToSet(saved.queue)) \cup new \subseteq ToSet(queue') \cap ToSet(saved'.queue)
    /\ ToSet(queue') \cup ToSet(saved'.queue) \subseteq ToSet(queue) \cup ToSet(saved.queue) \cup new

LEMMA AddsMoves ==
    ASSUME QueueTyped, NEW es \in Seq(Events), Adds(es), Roomy', stamp' \in Nat
    PROVE  Gains(ToSet(es))
<1>1. Reverse(es) \in Seq(Events) /\ ToSet(Reverse(es)) = ToSet(es) /\ queue \in Seq(Events)
  BY MembersReversed DEF QueueTyped
<1> DEFINE all == Reverse(es) \o queue
<1>2. all \in Seq(Events) /\ ToSet(all) = ToSet(es) \cup ToSet(queue)
  BY <1>1, MembersJoined
<1> HIDE DEF all
<1>3. queue' = all
  <2>1. queue' = Trimmed(all) /\ Len(queue') < MaxHistory /\ MaxHistory \in Nat
    BY NoticesAssumption DEF Adds, Roomy, all
  <2>2. CASE Len(all) > MaxHistory
    <3>1. Len(SubSeq(all, 1, MaxHistory)) = MaxHistory
      BY <1>2, <2>1, <2>2
    <3> QED BY <2>1, <2>2, <3>1 DEF Trimmed
  <2> QED BY <2>1, <2>2 DEF Trimmed
<1>4. saved' = [queue |-> queue', box |-> box'] /\ saved'.queue = all
  BY <1>3 DEF Adds
<1> QED BY <1>2, <1>3, <1>4 DEF Gains, QueueTyped

LEMMA EnqueuesMoves ==
    ASSUME QueueTyped, NEW e \in Events, Enqueues(e), Roomy', stamp' \in Nat
    PROVE  \/ e \notin ToSet(queue) /\ Gains({e})
           \/ e \in ToSet(queue) /\ Gains({})
<1>1. Known(e) <=> e \in ToSet(queue)
  BY DEF Known, Contains, ToSet, QueueTyped
<1>2. CASE Known(e)
  BY <1>1, <1>2 DEF Enqueues, Queue, Gains, QueueTyped
<1>3. CASE ~Known(e)
  <2>1. <<e>> \in Seq(Events) /\ ToSet(<<e>>) = {e}
    BY DEF ToSet
  <2> QED BY <1>1, <1>3, <2>1, AddsMoves DEF Enqueues
<1> QED BY <1>2, <1>3

(* What is told of checked and watched things is no reminder.              *)
LEMMA ToldMoves ==
    ASSUME QueueTyped, NEW turned \in SUBSET Subjects, IsFiniteSet(turned),
           NEW found, \A s \in turned : found[s] \in Levels, Told(found, turned), Roomy'
    PROVE  \E new : Gains(new) /\ \A e \in new : e.says # "due"
<1> DEFINE told == SetToSeq(turned)
           es == [n \in DOMAIN told |-> Event(told[n], found[told[n]], stamp + n)]
<1>1. told \in Seq(turned)
  BY OrderedTyped
<1>2. Len(told) \in Nat /\ DOMAIN told = 1 .. Len(told) /\ \A n \in 1 .. Len(told) : told[n] \in turned
  BY <1>1
<1>3. Adds(es) /\ stamp' = stamp + Len(told) /\ stamp \in Nat
  BY DEF Told, QueueTyped
<1> HIDE DEF told
<1>4. \A n \in DOMAIN told : es[n] \in Events /\ es[n].says # "due"
  BY <1>2, <1>3 DEF Events, Event, Levels
<1>5. es \in Seq(Events)
  BY <1>2, <1>4
<1>6. \A e \in ToSet(es) : e.says # "due"
  BY <1>4 DEF ToSet
<1>7. stamp' \in Nat
  BY <1>2, <1>3
<1> HIDE DEF es
<1> QED BY <1>3, <1>5, <1>6, <1>7, AddsMoves

(* Reminders are as before when none is added and none is marked.          *)
LEMMA OthersKeepReminders ==
    ASSUME MadeKnown, UNCHANGED <<made, outbox>>,
           NEW new, Gains(new), \A e \in new : e.says # "due"
    PROVE  MadeKnown'
<1>1. \A b \in Bills : Reminder(b) \notin new
  BY DEF Reminder, Event
<1> QED BY <1>1 DEF MadeKnown, Gains

(* Once accepted, now or before, a reminder is in the history for good.    *)
LEMMA AcceptsMakes ==
    ASSUME QueueTyped, MadeKnown, NEW b \in Bills, Accepts(b), Roomy', UNCHANGED stamp
    PROVE  /\ QueueTyped' /\ made' \in [Bills -> {0, 1}] /\ made'[b] = 1
           /\ \A c \in Bills : made[c] = 1 => made'[c] = 1
           /\ \A c \in Bills :
                 /\ made'[c] = 1 => Reminder(c) \in ToSet(queue') \cap ToSet(saved'.queue)
                 /\ Reminder(c) \in ToSet(queue') \cup ToSet(saved'.queue) => made'[c] = 1
<1>1. Reminder(b) \in Events /\ \A c \in Bills : c # b => Reminder(c) # Reminder(b)
  BY DEF Reminder, Event, Events
<1>2. /\ Enqueues(Reminder(b))
      /\ made' = [made EXCEPT ![b] = IF Known(Reminder(b)) THEN @ ELSE @ + 1]
      /\ stamp' \in Nat /\ (Known(Reminder(b)) <=> Reminder(b) \in ToSet(queue))
  BY DEF Accepts, Reminder, QueueTyped, Known, Contains, ToSet
<1>3. CASE Reminder(b) \in ToSet(queue)
  <2>1. Gains({})
    BY <1>1, <1>2, <1>3, EnqueuesMoves
  <2>2. made' = made /\ made[b] = 1
    BY <1>2, <1>3 DEF MadeKnown
  <2> QED BY <2>1, <2>2 DEF Gains, MadeKnown
<1>4. CASE Reminder(b) \notin ToSet(queue)
  <2>1. Gains({Reminder(b)})
    BY <1>1, <1>2, <1>4, EnqueuesMoves
  <2>2. made[b] = 0
    BY <1>4 DEF MadeKnown
  <2>3. made' = [made EXCEPT ![b] = 1]
    <3>1. ~Known(Reminder(b))
      BY <1>2, <1>4
    <3>2. made' = [made EXCEPT ![b] = made[b] + 1]
      BY <1>2, <3>1
    <3>3. made[b] + 1 = 1
      BY <2>2
    <3> QED BY <3>2, <3>3
  <2>4. made' \in [Bills -> {0, 1}] /\ made'[b] = 1 /\ \A c \in Bills : c # b => made'[c] = made[c]
    BY <2>3 DEF MadeKnown
  <2> QED BY <1>1, <2>1, <2>4 DEF Gains, MadeKnown
<1> QED BY <1>3, <1>4

(* A panel that restarts takes what its file has.                          *)
LEMMA RestartMoves ==
    ASSUME QueueTyped, queue' = saved.queue, UNCHANGED <<saved, stamp>>
    PROVE  Gains({})
  BY DEF QueueTyped, Gains

LEMMA RestartedJobs ==
    ASSUME NEW S, jobs \in Seq({"running", "ended"}),
           jobs' = [j \in DOMAIN jobs |-> IF j \in S THEN "ended" ELSE jobs[j]]
    PROVE  jobs' \in Seq({"running", "ended"})
<1>1. Len(jobs) \in Nat /\ DOMAIN jobs = 1 .. Len(jobs)
      /\ \A j \in DOMAIN jobs : jobs[j] \in {"running", "ended"}
  OBVIOUS
<1>2. jobs' \in [1 .. Len(jobs) -> {"running", "ended"}]
  BY <1>1
<1> QED BY <1>1, <1>2

(* What the panel tells of checks, watchers and jobs, and restarts.        *)
LEMMA OthersMove ==
    ASSUME RemindersInv, Roomy',
           \/ Reconcile \/ CrashOfCheck \/ PanelCrash \/ Settle
           \/ \E s \in Watched : Watch(s) \/ CrashOfWatch(s)
           \/ \E j \in DOMAIN jobs : JobEnds(j)
           \/ \E e \in DOMAIN box : RetryDue(e)
    PROVE  \E new : Gains(new) /\ \A e \in new : e.says # "due"
<1>0. QueueTyped /\ LevelsTyped /\ jobs \in Seq({"running", "ended"})
  BY DEF RemindersInv, NoticedInv
<1> SUFFICES (\E new : Gains(new) /\ \A e \in new : e.says # "due") \/ Gains({})
  OBVIOUS
<1>1. ASSUME NEW turned \in SUBSET Checked, Told(findings[1], turned), findings # <<>>
      PROVE  \E new : Gains(new) /\ \A e \in new : e.says # "due"
  <2>1. IsFiniteSet(turned) /\ turned \in SUBSET Subjects
    BY FS_Subset, NoticesAssumption DEF Subjects
  <2>2. \A s \in turned : findings[1][s] \in Levels
    BY <1>0, <1>1 DEF LevelsTyped
  <2> QED BY <1>0, <1>1, <2>1, <2>2, ToldMoves
<1>2. CASE Reconcile
  <2>1. PICK turned \in SUBSET Checked : Told(findings[1], turned)
    BY <1>2 DEF Reconcile
  <2> QED BY <1>1, <1>2, <2>1 DEF Reconcile
<1>3. CASE CrashOfCheck
  <2>1. PICK turned \in SUBSET Checked : Told(findings[1], turned)
    BY <1>3 DEF CrashOfCheck
  <2> QED BY <1>1, <1>3, <2>1 DEF CrashOfCheck
<1>4. ASSUME NEW s \in Watched, Watch(s)
      PROVE  \E new : Gains(new) /\ \A e \in new : e.says # "due"
  <2>1. IsFiniteSet({s}) /\ {s} \in SUBSET Subjects /\ \A x \in {s} : world[x] \in Levels
    BY <1>0, FS_Singleton DEF Subjects, LevelsTyped
  <2>2. Told(world, {s})
    BY <1>4 DEF Watch
  <2> QED BY <1>0, <2>1, <2>2, ToldMoves
<1>5. CASE PanelCrash \/ \E s \in Watched : CrashOfWatch(s)
  BY <1>0, <1>5, RestartMoves DEF PanelCrash, CrashOfWatch
<1>6. CASE Settle
  <2>1. saved' = [queue |-> queue, box |-> box'] /\ UNCHANGED <<queue, stamp>>
    BY <1>6 DEF Settle
  <2> QED BY <1>0, <2>1 DEF QueueTyped, Gains
<1>7. ASSUME NEW j \in DOMAIN jobs, JobEnds(j)
      PROVE  \E new : Gains(new) /\ \A e \in new : e.says # "due"
  <2>1. j \in Nat /\ Event(Job, "ended", j) \in Events /\ Event(Job, "ended", j).says # "due"
    BY <1>0 DEF Event, Events
  <2>2. Enqueues(Event(Job, "ended", j)) /\ stamp' \in Nat
    BY <1>0, <1>7 DEF JobEnds, QueueTyped
  <2> DEFINE e == Event(Job, "ended", j)
  <2>3. Gains({e}) \/ Gains({})
    BY <1>0, <2>1, <2>2, EnqueuesMoves
  <2>4. \A x \in {e} : x.says # "due"
    BY <2>1
  <2> HIDE DEF e
  <2>5. CASE Gains({e})
    BY <2>4, <2>5
  <2>6. CASE Gains({})
    BY <2>6
  <2> QED BY <2>3, <2>5, <2>6
<1>8. ASSUME NEW e \in DOMAIN box, RetryDue(e)
      PROVE  Gains({})
  <2>1. saved' = [saved EXCEPT !.box = [saved.box EXCEPT ![e].waits = FALSE]] /\ UNCHANGED <<queue, stamp>>
    BY <1>8 DEF RetryDue
  <2>2. saved'.queue = saved.queue /\ saved' = [queue |-> saved'.queue, box |-> saved'.box]
    BY <1>0, <2>1 DEF QueueTyped
  <2> QED BY <1>0, <2>1, <2>2 DEF QueueTyped, Gains
<1> QED BY <1>2, <1>3, <1>4, <1>5, <1>6, <1>7, <1>8

(* Steps of billing.                                                       *)
LEMMA BillingMoves ==
    ASSUME RemindersInv, Roomy',
           Reminds \/ BillingCrash \/ \E b \in Bills : FallsDue(b)
    PROVE  QueueTyped' /\ MadeKnown' /\ reminding' \in Seq(Bills)
<1>0. QueueTyped /\ MadeKnown /\ reminding \in Seq(Bills)
      /\ outbox \in [Bills -> {"none", "pending", "failed", "sent"}]
  BY DEF RemindersInv, MadeKnown
<1>1. ASSUME NEW b \in Bills, FallsDue(b)
      PROVE  QueueTyped' /\ MadeKnown' /\ reminding' \in Seq(Bills)
  <2>1. UNCHANGED <<queue, saved, made, reminding, stamp>> /\ outbox' = [outbox EXCEPT ![b] = "pending"]
    BY <1>1 DEF FallsDue, Queue
  <2> QED BY <1>0, <2>1 DEF QueueTyped, MadeKnown
<1>2. CASE RunReminders
  <2> DEFINE due == {b \in Bills : outbox[b] \in {"pending", "failed"}}
  <2>1. UNCHANGED <<queue, saved, made, outbox, stamp>> /\ reminding' = SetToSeq(due)
    BY <1>2 DEF RunReminders, Queue
  <2>2. IsFiniteSet(due)
    BY FS_Subset, NoticesAssumption
  <2>3. SetToSeq(due) \in Seq(due)
    BY <2>2, OrderedTyped
  <2>4. SetToSeq(due) \in Seq(Bills)
    BY <2>3
  <2> QED BY <1>0, <2>1, <2>4 DEF QueueTyped, MadeKnown
<1>3. CASE SendReminder \/ BillingCrash
  <2>1. reminding # <<>> /\ Head(reminding) \in Bills /\ Tail(reminding) \in Seq(Bills) /\ UNCHANGED stamp
    BY <1>0, <1>3 DEF SendReminder, BillingCrash
  <2>2. PICK b \in Bills : b = Head(reminding)
    BY <2>1
  <2>3. reminding' \in Seq(Bills)
    <3>1. CASE SendReminder
      <4>1. reminding' = Tail(reminding)
        BY <3>1 DEF SendReminder, Marks
      <4> QED BY <2>1, <4>1
    <3>2. CASE BillingCrash
      BY <3>2 DEF BillingCrash
    <3> QED BY <1>3, <3>1, <3>2
  <2>4. CASE /\ Accepts(b)
             /\ \/ UNCHANGED outbox
                \/ \E status \in {"sent", "failed"} : outbox' = [outbox EXCEPT ![b] = status]
    <3>1. /\ QueueTyped' /\ made' \in [Bills -> {0, 1}] /\ made'[b] = 1
          /\ \A c \in Bills : made[c] = 1 => made'[c] = 1
          /\ \A c \in Bills :
                /\ made'[c] = 1 => Reminder(c) \in ToSet(queue') \cap ToSet(saved'.queue)
                /\ Reminder(c) \in ToSet(queue') \cup ToSet(saved'.queue) => made'[c] = 1
      BY <1>0, <2>1, <2>4, AcceptsMakes
    <3>2. /\ outbox' \in [Bills -> {"none", "pending", "failed", "sent"}]
          /\ \A c \in Bills : c # b => outbox'[c] = outbox[c]
      BY <1>0, <2>4
    <3>3. \A c \in Bills : outbox'[c] = "sent" => made'[c] = 1
      BY <1>0, <3>1, <3>2 DEF MadeKnown
    <3> QED BY <2>3, <3>1, <3>2, <3>3 DEF MadeKnown
  <2>5. CASE /\ UNCHANGED <<queue, saved, made>>
             /\ UNCHANGED outbox \/ outbox' = [outbox EXCEPT ![b] = "failed"]
    BY <1>0, <2>1, <2>3, <2>5 DEF QueueTyped, MadeKnown
  <2> QED BY <1>3, <2>2, <2>4, <2>5 DEF SendReminder, BillingCrash, Marks, Queue
<1> QED BY <1>1, <1>2, <1>3 DEF Reminds

LEMMA RemindersKept ==
    ASSUME RemindersInv, Roomy', [NoticesNext]_noticesVars
    PROVE  RemindersInv'
<1>0. QueueTyped /\ MadeKnown /\ reminding \in Seq(Bills) /\ jobs \in Seq({"running", "ended"})
  BY DEF RemindersInv
<1>1. NoticedInv'
  BY NoticedKept DEF RemindersInv
<1>2. jobs' \in Seq({"running", "ended"})
  <2>1. CASE UNCHANGED jobs
    BY <1>0, <2>1
  <2>2. CASE jobs' = Append(jobs, "running")
    BY <1>0, <2>2
  <2>3. CASE PanelRestarts
    BY <1>0, <2>3, RestartedJobs DEF PanelRestarts
  <2>4. ASSUME NEW j \in DOMAIN jobs, JobEnds(j)
        PROVE  jobs' \in Seq({"running", "ended"})
    <3>1. jobs' = [jobs EXCEPT ![j] = "ended"]
      BY <2>4 DEF JobEnds
    <3> QED BY <1>0, <3>1
  <2>5. CASE Sends \/ Polls \/ Checks \/ Reminds \/ Expire
    BY <2>1, <2>2, <2>5 DEF Sends, Process, Send, Settle, Polls, Poll, Ask, Confirm, CancelMutation, Reply,
         EndBatch, Checks, Collect, Reconcile, Watch, Reminds, RunReminders, SendReminder, Expire
  <2>6. CASE \/ \E e \in DOMAIN box : RetryDue(e)
             \/ \E s \in Subjects : Shifts(s)
             \/ \E b \in Bills : FallsDue(b)
             \/ \E update : Says(update)
             \/ BillingCrash \/ UNCHANGED noticesVars
    BY <2>1, <2>6 DEF RetryDue, Shifts, FallsDue, Says, BillingCrash, noticesVars
  <2>7. CASE PanelCrash \/ CrashOfCheck \/ \E s \in Watched : CrashOfWatch(s)
    BY <2>3, <2>7 DEF PanelCrash, CrashOfCheck, CrashOfWatch
  <2> QED BY <2>4, <2>5, <2>6, <2>7 DEF NoticesNext
<1>3. CASE Reminds \/ BillingCrash \/ \E b \in Bills : FallsDue(b)
  BY <1>1, <1>2, <1>3, BillingMoves DEF RemindersInv
<1>4. CASE \/ Reconcile \/ CrashOfCheck \/ PanelCrash \/ Settle
           \/ \E s \in Watched : Watch(s) \/ CrashOfWatch(s)
           \/ \E j \in DOMAIN jobs : JobEnds(j)
           \/ \E e \in DOMAIN box : RetryDue(e)
  <2>1. UNCHANGED <<made, outbox, reminding>>
    BY <1>4 DEF Reconcile, CrashOfCheck, PanelCrash, Settle, Watch, CrashOfWatch, JobEnds, RetryDue, Reminders
  <2>2. PICK new : Gains(new) /\ \A e \in new : e.says # "due"
    BY <1>4, OthersMove
  <2>3. QueueTyped' /\ MadeKnown'
    BY <1>0, <2>1, <2>2, OthersKeepReminders DEF Gains
  <2> QED BY <1>0, <1>1, <1>2, <2>1, <2>3 DEF RemindersInv
<1>5. CASE \/ Process \/ Send \/ Polls \/ Collect \/ Expire \/ UNCHANGED noticesVars
           \/ \E s \in Subjects : Shifts(s)
           \/ \E update : Says(update)
  <2>1. UNCHANGED <<queue, saved, stamp, made, outbox, reminding>>
    BY <1>5 DEF Process, Send, Polls, Poll, Ask, Confirm, CancelMutation, Reply, EndBatch, Collect, Expire,
         noticesVars, Shifts, Says, Queue, Reminders
  <2>2. QueueTyped' /\ MadeKnown'
    BY <1>0, <2>1 DEF QueueTyped, MadeKnown
  <2> QED BY <1>0, <1>1, <1>2, <2>1, <2>2 DEF RemindersInv
<1> QED BY <1>3, <1>4, <1>5 DEF NoticesNext, Sends, Checks

(* As long as the history has not dropped a record, a reminder becomes one *)
(* notice however often billing asks, with answers lost and either side    *)
(* dying, and what billing counts as sent has become one.                  *)
THEOREM RemindersOnce == NoticesSpec /\ []Roomy => []ReminderOnce
<1>1. NoticesInit => RemindersInv
  <2> SUFFICES ASSUME NoticesInit PROVE RemindersInv
    OBVIOUS
  <2>1. NoticedInv
    BY DEF NoticesInit, NoticedInv, LevelsTyped, NoticedTrue, Levels
  <2>2. QueueTyped /\ ToSet(queue) = {} /\ ToSet(saved.queue) = {}
    BY DEF NoticesInit, QueueTyped, ToSet
  <2>3. MadeKnown
    BY <2>2 DEF NoticesInit, MadeKnown
  <2> QED BY <2>1, <2>2, <2>3 DEF NoticesInit, RemindersInv
<1>2. RemindersInv /\ Roomy' /\ [NoticesNext]_noticesVars => RemindersInv'
  BY RemindersKept
<1>3. RemindersInv => ReminderOnce
  BY DEF RemindersInv, MadeKnown, ReminderOnce
<1> QED BY <1>1, <1>2, <1>3, PTL DEF NoticesSpec
=============================================================================
