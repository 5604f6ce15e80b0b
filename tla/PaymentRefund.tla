---------------------------- MODULE PaymentRefund ----------------------------
(***************************************************************************)
(* The refund of a completed balance order:                                *)
(* backend/internal/service/payment_refund.go and ProcessRefund of         *)
(* handler/admin/payment_handler.go.                                       *)
(*                                                                         *)
(* A refund takes the credited amount back from the customer's balance and    *)
(* has the payment gateway return the money.  The gateway may answer success, *)
(* failure or "pending"; in the last case the deduction is held until an      *)
(* admin queries the outcome.  A worker is a goroutine that serves one admin  *)
(* request; the customer spends the balance all the while.                    *)
(***************************************************************************)
EXTENDS Integers, Sequences

CONSTANTS
    Worker,          \* concurrent admin requests
    Amount,          \* what the order credited, in units
    InitialBalance,  \* the customer's balance when the order is completed
    MaxDebt,         \* bound on the overdraft that usage billing may cause
    MaxRequests,     \* bound on the refund requests sent to the gateway
    MaxFaults,       \* bound on crashes and database errors in a behaviour
    AmbiguousErrors, \* whether a call of the gateway may succeed and report an error
    AuditFaults      \* whether accesses to the audit log whose errors are ignored fail

ASSUME RefundAssumption ==
    /\ Amount \in Nat \ {0}
    /\ InitialBalance \in Int
    /\ MaxDebt \in Nat
    /\ -MaxDebt <= InitialBalance
    /\ MaxRequests \in Nat
    /\ MaxFaults \in Nat
    /\ AmbiguousErrors \in BOOLEAN
    /\ AuditFaults \in BOOLEAN

Status == {"COMPLETED", "REFUND_REQUESTED", "REFUNDING", "REFUND_PENDING",
           "REFUNDED", "PARTIALLY_REFUNDED", "REFUND_FAILED"}

\* The statuses PrepareRefund and the claim of ExecuteRefund accept.
Refundable == {"COMPLETED", "REFUND_REQUESTED", "REFUND_FAILED"}

\* The audit actions the code reads back, or writes in a transaction.
AuditAction == {"REFUND_PENDING", "REFUND_SUCCESS", "REFUND_FAILED",
                "REFUND_ROLLBACK_FAILED"}

RefundAmounts == 1 .. Amount

Plan == [amount : RefundAmounts,  \* RefundAmount
         take : 0 .. Amount,      \* BalanceToDeduct
         requested : BOOLEAN,     \* the order was REFUND_REQUESTED when it was read
         request : Nat]           \* the gateway's id of the refund, 0 when none

NoPlan == [amount |-> 1, take |-> 0, requested |-> FALSE, request |-> 0]

Location == {"idle", "claim", "deduct", "gateway", "markOk", "markPending",
             "rollback", "restore", "markFailed", "finalizeOk", "finalizeFailed",
             "finalizeUnreturned"}

VARIABLES
    status,    \* payment_orders.status
    amount,    \* payment_orders.refund_amount, 0 when none
    audit,     \* the actions in payment_audit_logs: unique per order and action
    held,      \* the detail of the REFUND_PENDING audit row: what was deducted and
               \* the gateway's request, 0 when there is no row
    balance,   \* users.balance
    requests,  \* the refund requests the gateway has: amount and state
    pc, plan,  \* per worker
    taken,     \* history: deducted for refunds and not returned
    faults     \* history: crashes and database errors so far

vars == <<status, amount, audit, held, balance, requests, pc, plan, taken, faults>>

Init ==
    /\ status = "COMPLETED"
    /\ amount = 0
    /\ audit = {}
    /\ held = [take |-> 0, request |-> 0]
    /\ balance = InitialBalance
    /\ requests = <<>>
    /\ pc = [w \in Worker |-> "idle"]
    /\ plan = [w \in Worker |-> NoPlan]
    /\ taken = 0
    /\ faults = 0

------------------------------------------------------------------------------
At(w, l) == pc[w] = l

Goto(w, l) == pc' = [pc EXCEPT ![w] = l] /\ UNCHANGED plan

Return(w) ==
    /\ pc' = [pc EXCEPT ![w] = "idle"]
    /\ plan' = [plan EXCEPT ![w] = NoPlan]

Fault == faults < MaxFaults /\ faults' = faults + 1

Least(a, b) == IF a <= b THEN a ELSE b
Greatest(a, b) == IF a >= b THEN a ELSE b

\* Mutant: the balance may have gone below zero.
Available_Negative(n) == Least(n, balance)

\* Mutant: what the plan says is taken, whatever is left.
Available_Unchecked(n) == n

\* What can be taken from a balance without overdrawing it.
Available(n) == Greatest(0, Least(n, balance))

\* writeAuditLog is best effort: its error is ignored.
Log(action) ==
    \/ audit' = audit \union {action}
    \/ AuditFaults /\ UNCHANGED audit

\* hasAuditLog: an error of the query counts as "no such row".
AuditLogMissed(action) == action \notin audit \/ AuditFaults

\* An audit row inserted in a transaction: a second row of the same action breaks
\* the unique index of migration 131 and the transaction is rolled back.
Insertable(actions) == audit \cap actions = {}

------------------------------------------------------------------------------
(* The request of a refund.                                                 *)

\* RequestRefund by the customer, whose balance must cover the order.
RequestRefund ==
    /\ status = "COMPLETED"
    /\ balance >= Amount
    /\ status' = "REFUND_REQUESTED"
    /\ amount' = Amount
    /\ UNCHANGED <<audit, held, balance, requests, pc, plan, taken, faults>>

\* PrepareRefund: the plan is made from what is read now.  Without force the
\* balance must cover the refund.
PrepareRefund(w) ==
    /\ At(w, "idle")
    /\ status \in Refundable
    /\ Len(requests) < MaxRequests
    /\ \E a \in RefundAmounts, deduct, force \in BOOLEAN :
         /\ deduct /\ ~force => balance >= a
         /\ plan' = [plan EXCEPT ![w] =
                [amount |-> a, take |-> IF deduct THEN Available(a) ELSE 0,
                 requested |-> status = "REFUND_REQUESTED", request |-> 0]]
    /\ pc' = [pc EXCEPT ![w] = "claim"]
    /\ UNCHANGED <<status, amount, audit, held, balance, requests, taken, faults>>

\* ExecuteRefund, the claim: a conditional update.
ClaimRefund(w) ==
    /\ At(w, "claim")
    /\ \/ /\ status \in Refundable
          /\ status' = "REFUNDING"
          /\ Goto(w, "deduct")
       \/ /\ status \notin Refundable
          /\ UNCHANGED status
          /\ Return(w)
    /\ UNCHANGED <<amount, audit, held, balance, requests, taken, faults>>

\* Mutant: the marker of a failed return is not looked for.
MayDeduct_Always(w) == plan[w].take > 0

MayDeduct(w) == plan[w].take > 0 /\ AuditLogMissed("REFUND_ROLLBACK_FAILED")
MaySkip(w) == plan[w].take = 0 \/ "REFUND_ROLLBACK_FAILED" \in audit

\* DeductAvailableBalance: at most what the balance holds now.  It is skipped when
\* an earlier attempt deducted and could not return.
DeductBalance(w) ==
    /\ At(w, "deduct")
    /\ \/ /\ MayDeduct(w)
          /\ LET n == Available(plan[w].take) IN
               /\ balance' = balance - n
               /\ taken' = taken + n
               /\ plan' = [plan EXCEPT ![w].take = n]
       \/ /\ MaySkip(w)
          /\ plan' = [plan EXCEPT ![w].take = 0]
          /\ UNCHANGED <<balance, taken>>
    /\ pc' = [pc EXCEPT ![w] = "gateway"]
    /\ UNCHANGED <<status, amount, audit, held, requests, faults>>

\* The deduction fails: the status is restored and the refund ends.
DeductError(w) ==
    /\ At(w, "deduct")
    /\ MayDeduct(w)
    /\ Fault
    /\ plan' = [plan EXCEPT ![w].take = 0]
    /\ pc' = [pc EXCEPT ![w] = "restore"]
    /\ UNCHANGED <<status, amount, audit, held, balance, requests, taken>>

------------------------------------------------------------------------------
(* The gateway.                                                             *)

\* The money of the requests in these states.
Total(states) ==
    LET sum[i \in 0 .. Len(requests)] ==
            IF i = 0 THEN 0
            ELSE sum[i - 1] + IF requests[i].state \in states THEN requests[i].amount ELSE 0
    IN sum[Len(requests)]

\* What the gateway has returned, or may still return, of the payment.
Outstanding == Total({"pending", "success"})

Returned == Total({"success"})

\* gwRefund: a call may be a request of its own, as it is when the amount has
\* changed; with an equal amount Stripe and WeChat take it for a repetition of
\* the earlier one, which the model does not rely on.  The gateway refuses to
\* return more than was paid.
GatewayRefund(w) ==
    /\ At(w, "gateway")
    /\ LET Answer(s, l) ==
              /\ requests' = Append(requests, [amount |-> plan[w].amount, state |-> s])
              /\ plan' = [plan EXCEPT ![w].request = Len(requests) + 1]
              /\ pc' = [pc EXCEPT ![w] = l]
           accepts == Outstanding + plan[w].amount <= Amount
       IN \/ accepts /\ Answer("success", "markOk")
          \/ accepts /\ Answer("pending", "markPending")
          \/ Answer("failed", "rollback")
          \/ AmbiguousErrors /\ accepts /\ Answer("success", "rollback")
    /\ UNCHANGED <<status, amount, audit, held, balance, taken, faults>>

GatewaySettles ==
    /\ \E i \in DOMAIN requests, s \in {"success", "failed"} :
         /\ requests[i].state = "pending"
         /\ requests' = [requests EXCEPT ![i].state = s]
    /\ UNCHANGED <<status, amount, audit, held, balance, pc, plan, taken, faults>>

------------------------------------------------------------------------------
(* The end of ExecuteRefund.                                                *)

SuccessStatus(n) == IF n < Amount THEN "PARTIALLY_REFUNDED" ELSE "REFUNDED"

\* markRefundOk.
MarkRefundOk(w) ==
    /\ At(w, "markOk")
    /\ status' = SuccessStatus(plan[w].amount)
    /\ amount' = plan[w].amount
    /\ Log("REFUND_SUCCESS")
    /\ Return(w)
    /\ UNCHANGED <<held, balance, requests, taken, faults>>

\* markRefundPending: one transaction, all of it or nothing.
MarkRefundPending(w) ==
    /\ At(w, "markPending")
    /\ \/ /\ Insertable({"REFUND_PENDING"})
          /\ status' = "REFUND_PENDING"
          /\ amount' = plan[w].amount
          /\ audit' = audit \union {"REFUND_PENDING"}
          /\ held' = [take |-> plan[w].take, request |-> plan[w].request]
       \/ /\ ~Insertable({"REFUND_PENDING"})
          /\ UNCHANGED <<status, amount, audit, held>>
    /\ Return(w)
    /\ UNCHANGED <<balance, requests, taken, faults>>

\* RollbackRefund: the deduction of this attempt goes back to the balance.
RollbackRefund(w) ==
    /\ At(w, "rollback")
    /\ balance' = balance + plan[w].take
    /\ taken' = taken - plan[w].take
    /\ Goto(w, "restore")
    /\ UNCHANGED <<status, amount, audit, held, requests, faults>>

\* Mutant: the marker is not written.
RollbackError_NoMarker(w) ==
    /\ At(w, "rollback")
    /\ plan[w].take > 0
    /\ Fault
    /\ Goto(w, "markFailed")
    /\ UNCHANGED <<status, amount, audit, held, balance, requests, taken>>

\* The database refuses the return: the marker for later attempts is written.
RollbackError(w) ==
    /\ At(w, "rollback")
    /\ plan[w].take > 0
    /\ Fault
    /\ Log("REFUND_ROLLBACK_FAILED")
    /\ Goto(w, "markFailed")
    /\ UNCHANGED <<status, amount, held, balance, requests, taken>>

\* restoreStatus: unconditional, to what the plan remembers.
RestoreStatus(w) ==
    /\ At(w, "restore")
    /\ status' = IF plan[w].requested THEN "REFUND_REQUESTED" ELSE "COMPLETED"
    /\ Return(w)
    /\ UNCHANGED <<amount, audit, held, balance, requests, taken, faults>>

\* handleGwFail after a failed rollback.
MarkRefundFailed(w) ==
    /\ At(w, "markFailed")
    /\ status' = "REFUND_FAILED"
    /\ Log("REFUND_FAILED")
    /\ Return(w)
    /\ UNCHANGED <<amount, held, balance, requests, taken, faults>>

------------------------------------------------------------------------------
(* QueryAndFinalizeRefund.                                                  *)

\* Mutant: a refund that is still pending counts as failed.
QueryRefund_PendingFails(w) ==
    /\ At(w, "idle")
    /\ status = "REFUND_PENDING"
    /\ pc' = [pc EXCEPT ![w] = IF requests[held.request].state = "success"
                               THEN "finalizeOk" ELSE "finalizeFailed"]
    /\ plan' = [plan EXCEPT ![w] = [NoPlan EXCEPT !.amount = amount, !.take = held.take]]
    /\ UNCHANGED <<status, amount, audit, held, balance, requests, taken, faults>>

\* Mutant: a failed outcome is not applied.
QueryRefund_SuccessOnly(w) ==
    /\ At(w, "idle")
    /\ status = "REFUND_PENDING"
    /\ requests[held.request].state = "success"
    /\ pc' = [pc EXCEPT ![w] = "finalizeOk"]
    /\ plan' = [plan EXCEPT ![w] = [NoPlan EXCEPT !.amount = amount, !.take = held.take]]
    /\ UNCHANGED <<status, amount, audit, held, balance, requests, taken, faults>>

\* The order, the audit detail and the gateway are read; the outcome is applied
\* in a later transaction.
QueryRefund(w) ==
    /\ At(w, "idle")
    /\ status = "REFUND_PENDING"
    /\ LET s == requests[held.request].state IN
         /\ s # "pending"
         /\ pc' = [pc EXCEPT ![w] = IF s = "success" THEN "finalizeOk" ELSE "finalizeFailed"]
    /\ plan' = [plan EXCEPT ![w] = [NoPlan EXCEPT !.amount = amount, !.take = held.take]]
    /\ UNCHANGED <<status, amount, audit, held, balance, requests, taken, faults>>

\* finalizePendingRefundSuccess: the deduction was held, nothing is deducted now.
FinalizeSuccess(w) ==
    /\ At(w, "finalizeOk")
    /\ IF status = "REFUND_PENDING" /\ Insertable({"REFUND_SUCCESS"})
       THEN /\ status' = SuccessStatus(plan[w].amount)
            /\ audit' = audit \union {"REFUND_SUCCESS"}
       ELSE UNCHANGED <<status, audit>>
    /\ Return(w)
    /\ UNCHANGED <<amount, held, balance, requests, taken, faults>>

\* finalizeRefundFailedTx: the held deduction goes back in the same transaction.
FinalizeFailed(w) ==
    /\ At(w, "finalizeFailed")
    /\ IF status = "REFUND_PENDING" /\ Insertable({"REFUND_FAILED"})
       THEN /\ status' = "REFUND_FAILED"
            /\ balance' = balance + plan[w].take
            /\ taken' = taken - plan[w].take
            /\ audit' = audit \union {"REFUND_FAILED"}
       ELSE UNCHANGED <<status, balance, taken, audit>>
    /\ Return(w)
    /\ UNCHANGED <<amount, held, requests, faults>>

\* The return fails, the transaction is rolled back ...
FinalizeReturnError(w) ==
    /\ At(w, "finalizeFailed")
    /\ status = "REFUND_PENDING"
    /\ plan[w].take > 0
    /\ Fault
    /\ Goto(w, "finalizeUnreturned")
    /\ UNCHANGED <<status, amount, audit, held, balance, requests, taken>>

\* ... and a second one only records that.
FinalizeUnreturned(w) ==
    /\ At(w, "finalizeUnreturned")
    /\ IF status = "REFUND_PENDING" /\ Insertable({"REFUND_ROLLBACK_FAILED", "REFUND_FAILED"})
       THEN /\ status' = "REFUND_FAILED"
            /\ audit' = audit \union {"REFUND_ROLLBACK_FAILED", "REFUND_FAILED"}
       ELSE UNCHANGED <<status, audit>>
    /\ Return(w)
    /\ UNCHANGED <<amount, held, balance, requests, taken, faults>>

------------------------------------------------------------------------------
(* The rest of the world.                                                   *)

\* API usage is billed; it may overdraw the balance.
Spend ==
    /\ balance > -MaxDebt
    /\ balance' = balance - 1
    /\ UNCHANGED <<status, amount, audit, held, requests, pc, plan, taken, faults>>

\* The process dies, or a write fails and its error is returned.
Crash(w) ==
    /\ ~At(w, "idle")
    /\ Fault
    /\ Return(w)
    /\ UNCHANGED <<status, amount, audit, held, balance, requests, taken>>

------------------------------------------------------------------------------
Step(w) ==
    \/ ClaimRefund(w) \/ DeductBalance(w) \/ GatewayRefund(w)
    \/ MarkRefundOk(w) \/ MarkRefundPending(w)
    \/ RollbackRefund(w) \/ RestoreStatus(w) \/ MarkRefundFailed(w)
    \/ FinalizeSuccess(w) \/ FinalizeFailed(w) \/ FinalizeUnreturned(w)

Next ==
    \/ \E w \in Worker :
         \/ PrepareRefund(w) \/ QueryRefund(w)
         \/ Step(w)
         \/ DeductError(w) \/ RollbackError(w) \/ FinalizeReturnError(w) \/ Crash(w)
    \/ RequestRefund \/ GatewaySettles \/ Spend

Spec == Init /\ [][Next]_vars

\* Every request runs to its end, the gateway settles what it left pending, and
\* an admin queries pending refunds now and then.
Fairness ==
    /\ \A w \in Worker : WF_vars(Step(w))
    /\ WF_vars(GatewaySettles)
    /\ SF_vars(\E w \in Worker : QueryRefund(w))

FairSpec == Spec /\ Fairness

------------------------------------------------------------------------------
(* Properties.                                                              *)

\* Every variable has its type.
TypeOK ==
    /\ status \in Status
    /\ amount \in 0 .. Amount
    /\ audit \subseteq AuditAction
    /\ held \in [take : 0 .. Amount, request : Nat]
    /\ balance \in Int
    /\ requests \in Seq([amount : RefundAmounts, state : {"pending", "success", "failed"}])
    /\ pc \in [Worker -> Location]
    /\ plan \in [Worker -> Plan]
    /\ taken \in Int
    /\ faults \in 0 .. MaxFaults

\* A refund never takes more from the balance than it holds, although the plan was
\* made from an older balance.
RefundNeverOverdraws == [][taken' > taken => balance' >= 0]_vars

\* Attempts may fail, be rolled back, fail to be rolled back and be repeated: the
\* customer is never charged more than the order's amount for its refund.  (Unless
\* the marker of a failed rollback is lost or not found: the run `refund_marker`.)
DeductedAtMostOnce == taken \in 0 .. Amount

\* An order that may be refunded (again) holds no deduction of an earlier attempt,
\* unless the marker says so that makes the next attempt skip its deduction.
DeductionAccounted ==
    status \in Refundable /\ "REFUND_ROLLBACK_FAILED" \notin audit => taken = 0

\* An order that may be refunded (again) has no refund under way or made at the
\* gateway, and a refunded order states what the gateway returned.
GatewayMatchesOrder ==
    /\ status \in Refundable => Outstanding = 0
    /\ status \in {"REFUNDED", "PARTIALLY_REFUNDED"} => Returned = amount

\* From its claim to its end an attempt is alone: the conditional update lets one
\* worker in, and every way out leaves REFUNDING first or for good.
Claimed == {"deduct", "gateway", "markOk", "markPending", "rollback", "restore",
            "markFailed"}

ClaimExcludes ==
    /\ \A w \in Worker : pc[w] \in Claimed => status = "REFUNDING"
    /\ \A v, w \in Worker : pc[v] \in Claimed /\ pc[w] \in Claimed => v = w

Finalizing == {"finalizeOk", "finalizeFailed", "finalizeUnreturned"}

\* An order is left pending once in its life, so that what a query has read of it
\* is still true when its outcome is applied.
PendingOnce ==
    /\ status = "REFUND_PENDING" => "REFUND_PENDING" \in audit /\ amount \in RefundAmounts
    /\ \A w \in Worker : pc[w] \in Finalizing =>
         /\ "REFUND_PENDING" \in audit
         /\ plan[w].take = held.take
         /\ status = "REFUND_PENDING" => plan[w].amount = amount

\* What is taken is known to the attempt that has to return it, or marked as taken
\* for all later ones.
Marked == "REFUND_ROLLBACK_FAILED" \in audit

Accounted(take) == take = IF Marked THEN 0 ELSE taken

DeductionsTracked ==
    /\ taken \in 0 .. Amount
    /\ status \in Refundable => Accounted(0)
    /\ status = "REFUND_PENDING" => Accounted(held.take)
    /\ \A w \in Worker :
         /\ pc[w] \in {"deduct", "restore"} => Accounted(0)
         /\ pc[w] \in {"gateway", "markOk", "markPending", "rollback"}
              => Accounted(plan[w].take)
         /\ pc[w] = "markFailed" => Marked

AllFailed == \A i \in DOMAIN requests : requests[i].state = "failed"

\* All requests but the k-th have failed, and that one is about this amount.
OnlyRequest(k, n) ==
    /\ k \in DOMAIN requests
    /\ requests[k].amount = n
    /\ \A i \in DOMAIN requests \ {k} : requests[i].state = "failed"

\* At most one request has been accepted, and the order, its attempt and the queries
\* of its outcome agree on which one and how it ended.
RequestsTracked ==
    /\ status \in Refundable => AllFailed
    /\ status = "REFUND_PENDING" => OnlyRequest(held.request, amount)
    /\ status \in {"REFUNDED", "PARTIALLY_REFUNDED"} =>
         \E k \in DOMAIN requests : OnlyRequest(k, amount) /\ requests[k].state = "success"
    /\ \A w \in Worker :
         /\ pc[w] \in {"deduct", "gateway", "rollback", "restore", "markFailed"} => AllFailed
         /\ pc[w] \in {"markOk", "markPending"} => OnlyRequest(plan[w].request, plan[w].amount)
         /\ pc[w] = "markOk" => requests[plan[w].request].state = "success"
         /\ pc[w] \in Finalizing => held.request \in DOMAIN requests
         /\ pc[w] = "finalizeOk" => requests[held.request].state = "success"
         /\ pc[w] \in {"finalizeFailed", "finalizeUnreturned"}
              => requests[held.request].state = "failed"

\* The refund of an order as prepDeduct, ExecuteRefund, RollbackRefund and the queries
\* of a pending one keep it together: one attempt at a time, pending once, every
\* deduction owned by somebody as long as the audit log works, and one request of the
\* gateway as long as its answers can be trusted.
RefundInvariant ==
    /\ ClaimExcludes
    /\ PendingOnce
    /\ ~AuditFaults => DeductionsTracked
    /\ ~AmbiguousErrors => RequestsTracked

\* A refund left pending by the gateway converges, in spite of crashes, once the
\* gateway settles it and as long as an admin keeps querying: the first time the
\* refund of an order fails.
PendingConverges ==
    status = "REFUND_PENDING" /\ "REFUND_FAILED" \notin audit ~> status # "REFUND_PENDING"

(* What a comment says, and the code does not do.                           *)

\* payment_refund.go, finalizeRefundFailed: a REFUND_PENDING order converges to
\* REFUND_FAILED, even if the deduction cannot be returned.
PendingAlwaysConverges == status = "REFUND_PENDING" ~> status # "REFUND_PENDING"
=============================================================================
