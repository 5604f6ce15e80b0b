----------------------------- MODULE BalanceHold -----------------------------
(***************************************************************************)
(* What the balance hold of one batch image job promises to its customer:   *)
(* the estimated amount is frozen once, and then either the cost is charged *)
(* and the rest returned, or all of it is returned, once and for good.      *)
(* Money frozen for the customer's other jobs is never touched.             *)
(***************************************************************************)
EXTENDS Integers

CONSTANTS
    Hold,         \* the amount held for the job
    OtherFrozen   \* what is frozen for the customer's other jobs

VARIABLES
    hold,         \* the state of the job's hold
    cost,         \* what the job will cost
    balance,      \* users.balance
    frozen        \* users.frozen_balance

vars == <<hold, cost, balance, frozen>>

HoldState == {"none", "held", "captured", "released"}

Init ==
    /\ hold = "none"
    /\ cost \in Nat
    /\ balance \in Nat
    /\ frozen = OtherFrozen

Reserve ==
    /\ hold = "none"
    /\ balance >= Hold
    /\ hold' = "held"
    /\ balance' = balance - Hold
    /\ frozen' = OtherFrozen + Hold
    /\ UNCHANGED cost

Capture ==
    /\ hold = "held"
    /\ cost <= Hold
    /\ hold' = "captured"
    /\ balance' = balance + (Hold - cost)
    /\ frozen' = OtherFrozen
    /\ UNCHANGED cost

Release ==
    /\ hold = "held"
    /\ hold' = "released"
    /\ balance' = balance + Hold
    /\ frozen' = OtherFrozen
    /\ UNCHANGED cost

Next == Reserve \/ Capture \/ Release

Spec == Init /\ [][Next]_vars
=============================================================================
