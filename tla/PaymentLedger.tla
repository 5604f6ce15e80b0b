---------------------------- MODULE PaymentLedger ----------------------------
(***************************************************************************)
(* What the payment subsystem promises, with no mention of how: money the  *)
(* customer paid in full may turn into one delivery of the purchase (a     *)
(* balance top-up or a subscription period) and, after it, into at most    *)
(* one affiliate rebate.  Nothing is delivered twice or unpaid.            *)
(***************************************************************************)
EXTENDS Naturals

CONSTANT Order

VARIABLES
    received,   \* orders whose price the provider holds
    delivered,  \* how many times the purchase of an order was delivered
    rebates     \* how many times an order was rewarded to the inviter

vars == <<received, delivered, rebates>>

Init ==
    /\ received = {}
    /\ delivered = [o \in Order |-> 0]
    /\ rebates = [o \in Order |-> 0]

Receive(o) ==
    /\ received' = received \union {o}
    /\ UNCHANGED <<delivered, rebates>>

Deliver(o) ==
    /\ o \in received
    /\ delivered[o] = 0
    /\ delivered' = [delivered EXCEPT ![o] = 1]
    /\ UNCHANGED <<received, rebates>>

Rebate(o) ==
    /\ delivered[o] = 1
    /\ rebates[o] = 0
    /\ rebates' = [rebates EXCEPT ![o] = 1]
    /\ UNCHANGED <<received, delivered>>

Next == \E o \in Order : Receive(o) \/ Deliver(o) \/ Rebate(o)

Spec == Init /\ [][Next]_vars
=============================================================================
