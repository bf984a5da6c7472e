----------------------------- MODULE PaymentLedger -----------------------------
(***************************************************************************)
(* What the billing service promises about money, without links, calls and *)
(* callbacks: an order that WooCommerce reports as completed is either     *)
(* settled, once and for ever, by extending a service, or laid before an   *)
(* operator; nothing else is ever settled.                                 *)
(***************************************************************************)
CONSTANT Orders

VARIABLES
    earned,   \* orders completed for the recorded amount at some time
    settled,  \* orders that extended a service
    open,     \* orders that wait for an operator
    closed    \* orders whose review an operator has ended

vars == <<earned, settled, open, closed>>

Init == earned = {} /\ settled = {} /\ open = {} /\ closed = {}

Earn(o) == earned' = earned \cup {o} /\ UNCHANGED <<settled, open, closed>>

(* An order that is being reviewed, or was, extends nothing by itself.     *)
Settle(o) ==
    /\ o \in earned \ (settled \cup open \cup closed)
    /\ settled' = settled \cup {o}
    /\ UNCHANGED <<earned, open, closed>>

Lay(o) == open' = open \cup {o} /\ closed' = closed \ {o} /\ UNCHANGED <<earned, settled>>

Resolve(o) ==
    /\ o \in open
    /\ open' = open \ {o} /\ closed' = closed \cup {o}
    /\ UNCHANGED <<earned, settled>>

Next == \E o \in Orders : Earn(o) \/ Settle(o) \/ Lay(o) \/ Resolve(o)

Spec == Init /\ [][Next]_vars
================================================================================
