----------------------------- MODULE PaymentOrder -----------------------------
(***************************************************************************)
(* The life of a payment order from its creation to the delivery of the    *)
(* purchase: backend/internal/service/payment_order.go,                    *)
(* payment_order_lifecycle.go and payment_fulfillment.go.                  *)
(*                                                                         *)
(* A worker is a goroutine that runs one call of PaymentService: CreateOrder, *)
(* a provider's webhook, CancelOrder, the expiry job, an active query of the  *)
(* provider or an admin's retry.  A step of a worker is one statement or      *)
(* transaction on the database or one call of the provider, so the steps of   *)
(* concurrent calls interleave exactly where the code can be preempted.       *)
(***************************************************************************)
EXTENDS Naturals, FiniteSets

CONSTANTS
    Order,       \* orders one user may create
    Worker,      \* concurrent calls
    NoOrder,     \* "this worker has no order yet"
    OrderTypes,  \* the types of orders there are
    MaxPending,  \* the MaxPendingOrders setting
    MaxFaults,   \* bound on crashes and internal errors in a behaviour
    SwallowFaults   \* whether the statements whose errors are answered with success fail

ASSUME OrderAssumption ==
    /\ NoOrder \notin Order
    /\ OrderTypes \subseteq {"balance", "subscription", "other"}
    /\ MaxPending \in Nat
    /\ MaxFaults \in Nat
    /\ SwallowFaults \in BOOLEAN

Status == {"ABSENT", "PENDING", "PAID", "RECHARGING", "COMPLETED",
           "EXPIRED", "CANCELLED", "FAILED"}

\* The audit actions the code reads back, or that a property is about.
AuditAction == {"SUBSCRIPTION_ASSIGNED", "SUBSCRIPTION_SUCCESS", "RECHARGE_SUCCESS",
                "AFFILIATE_REBATE_APPLIED", "AFFILIATE_REBATE_SKIPPED", "FULFILLMENT_FAILED"}

Call == {"none", "create", "webhook", "verify", "retry", "CANCELLED", "EXPIRED"}

\* The points between two statements of a call where a worker can be.
Delivering == {"lookup", "createCode", "redeem", "assign", "rebate", "complete"}
Location == Delivering \union
    {"idle", "insert", "createPayment", "recordPayment", "createFailed",
     "query", "cancelUpstream", "cancel", "persistTrade",
     "confirm", "alreadyProcessed", "acquire", "reload", "markFailed"}

VARIABLES
    row,       \* the payment_orders table
    audit,     \* the payment_audit_logs actions the code reads back, per order
    code,      \* the redeem code of the order: "none", "unused", "used"
    delivered, \* how many times the purchase was credited or assigned
    rebates,   \* how many times the affiliate rebate was decided
    upstream,  \* the provider's view of the payment
    acked,     \* the provider got a 2xx for its webhook and stops retrying
    pc, call, job,  \* per worker: location, call, order
    faults     \* history: crashes and errors so far

orderVars == <<row, audit, code, delivered, rebates>>
workerVars == <<pc, call, job>>
vars == <<row, audit, code, delivered, rebates, upstream, acked,
          pc, call, job, faults>>

------------------------------------------------------------------------------
(* The row.  updated_at is a timestamp that every write replaces (ent's     *)
(* UpdateDefault).  The code asks two things of it: is it five minutes old   *)
(* (`old`: the lease of a RECHARGING order is stale, the grace period of an  *)
(* EXPIRED one is over), and is it the version a worker read back after its  *)
(* claim (`holders`: the workers for which it is).  `due` is expires_at<=now. *)

Row == [status : Status, type : OrderTypes \union {"none"}, paidAt : BOOLEAN,
        due : BOOLEAN, old : BOOLEAN, holders : SUBSET Worker]

AbsentRow == [status |-> "ABSENT", type |-> "none", paidAt |-> FALSE,
              due |-> FALSE, old |-> FALSE, holders |-> {}]

Write(o, r) == row' = [row EXCEPT ![o] = [r EXCEPT !.old = FALSE, !.holders = {}]]

SetStatus(o, s) == Write(o, [row[o] EXCEPT !.status = s])

OrderType(o) == row[o].type

\* writeAuditLog outside of a transaction is best effort: its error is ignored.
Log(o, action) ==
    \/ audit' = [audit EXCEPT ![o] = @ \union {action}]
    \/ UNCHANGED audit

Pending == {o \in Order : row[o].status = "PENDING"}
Absent == {o \in Order : row[o].status = "ABSENT"}

Init ==
    /\ row = [o \in Order |-> AbsentRow]
    /\ audit = [o \in Order |-> {}]
    /\ code = [o \in Order |-> "none"]
    /\ delivered = [o \in Order |-> 0]
    /\ rebates = [o \in Order |-> 0]
    /\ upstream = [o \in Order |-> "none"]
    /\ acked = [o \in Order |-> FALSE]
    /\ pc = [w \in Worker |-> "idle"]
    /\ call = [w \in Worker |-> "none"]
    /\ job = [w \in Worker |-> NoOrder]
    /\ faults = 0

------------------------------------------------------------------------------
(* Moving a worker.                                                         *)

At(w, l) == pc[w] = l

Goto(w, l) ==
    /\ pc' = [pc EXCEPT ![w] = l]
    /\ UNCHANGED <<call, job, acked>>

Begin(w, c, o, l) ==
    /\ At(w, "idle")
    /\ pc' = [pc EXCEPT ![w] = l]
    /\ call' = [call EXCEPT ![w] = c]
    /\ job' = [job EXCEPT ![w] = o]
    /\ UNCHANGED acked

Idle(w) ==
    /\ pc' = [pc EXCEPT ![w] = "idle"]
    /\ call' = [call EXCEPT ![w] = "none"]
    /\ job' = [job EXCEPT ![w] = NoOrder]

\* The call returns nil; a webhook is answered 2xx.
Return(w) ==
    /\ Idle(w)
    /\ acked' = IF call[w] = "webhook" THEN [acked EXCEPT ![job[w]] = TRUE] ELSE acked

\* The call returns an error; a webhook is answered 500 and sent again.
ReturnError(w) == Idle(w) /\ UNCHANGED acked

Fault == faults < MaxFaults /\ faults' = faults + 1

------------------------------------------------------------------------------
(* CreateOrder.                                                             *)

\* checkPendingLimit counts inside the transaction that will insert; the
\* count locks nothing, so two calls may both see room.  (That an order is left
\* to insert is a bound of the model.)
CheckPendingLimit(w) ==
    /\ Cardinality(Pending) < MaxPending
    /\ Cardinality({v \in Worker : At(v, "insert")}) < Cardinality(Absent)
    /\ Begin(w, "create", NoOrder, "insert")
    /\ UNCHANGED <<row, audit, code, delivered, rebates, upstream, faults>>

\* createOrderInTx.  (validateOrderInput refuses types other than balance and
\* subscription, releases without that check did not: there are such orders.)
InsertOrder(w, o) ==
    /\ At(w, "insert")
    /\ row[o].status = "ABSENT"
    /\ \E t \in OrderTypes : Write(o, [AbsentRow EXCEPT !.status = "PENDING", !.type = t])
    /\ pc' = [pc EXCEPT ![w] = "createPayment"]
    /\ job' = [job EXCEPT ![w] = o]
    /\ UNCHANGED <<audit, code, delivered, rebates, upstream, acked, call, faults>>

\* CreatePayment at the provider.  An error may hide a success: the request
\* timed out after the provider had opened the payment.
CreatePayment(w) ==
    /\ At(w, "createPayment")
    /\ \/ /\ upstream' = [upstream EXCEPT ![job[w]] = "open"]
          /\ Goto(w, "recordPayment") \/ Goto(w, "createFailed")
       \/ UNCHANGED upstream /\ Goto(w, "createFailed")
    /\ UNCHANGED <<row, audit, code, delivered, rebates, faults>>

\* The details of the payment are stored, whatever the status of the order now
\* is: of the modelled columns the write changes updated_at.
RecordPayment(w) ==
    /\ At(w, "recordPayment")
    /\ \/ Write(job[w], row[job[w]]) /\ Return(w)
       \/ UNCHANGED row /\ Goto(w, "createFailed")
    /\ UNCHANGED <<audit, code, delivered, rebates, upstream, faults>>

\* The error path of CreateOrder: FAILED, whatever the status of the order.
CreateFailed(w) ==
    /\ At(w, "createFailed")
    /\ SetStatus(job[w], "FAILED")
    /\ ReturnError(w)
    /\ UNCHANGED <<audit, code, delivered, rebates, upstream, faults>>

------------------------------------------------------------------------------
(* Cancellation, expiry and active queries: cancelCore and checkPaid.       *)

\* CancelOrder and AdminCancelOrder.
CancelOrder(w, o) ==
    /\ row[o].status = "PENDING"
    /\ Begin(w, "CANCELLED", o, "query")
    /\ UNCHANGED <<row, audit, code, delivered, rebates, upstream, faults>>

\* One order of ExpireTimedOutOrders.
ExpireOrder(w, o) ==
    /\ row[o].status = "PENDING"
    /\ row[o].due
    /\ Begin(w, "EXPIRED", o, "query")
    /\ UNCHANGED <<row, audit, code, delivered, rebates, upstream, faults>>

\* VerifyOrderByOutTradeNo, the signed resume token's lookup and, for orders
\* not yet due, ReconcilePendingPaymentOrders.
VerifyOrder(w, o) ==
    /\ row[o].status \in {"PENDING", "EXPIRED"}
    /\ Begin(w, "verify", o, "query")
    /\ UNCHANGED <<row, audit, code, delivered, rebates, upstream, faults>>

\* Mutant: the reconciling callers share the path of the cancelling ones.
AfterUnpaid_Cancels(w) == Goto(w, "cancel")

\* Mutant: an order whose payment cannot be queried is left alone.
AfterUnpaid_Returns(w) == Return(w)

\* Where a query that learned of no payment leads.
AfterUnpaid(w) == IF call[w] = "verify" THEN Return(w) ELSE Goto(w, "cancel")

\* QueryOrder at the provider.  It may fail; a cancellation then goes on.
QueryOrder(w) ==
    /\ At(w, "query")
    /\ \/ AfterUnpaid(w)
       \/ /\ upstream[job[w]] \in {"paid", "underpaid"}
          /\ Goto(w, "persistTrade") \/ Goto(w, "confirm")
       \/ /\ upstream[job[w]] \notin {"paid", "underpaid"}
          /\ call[w] # "verify"
          /\ Goto(w, "cancelUpstream")
    /\ UNCHANGED <<row, audit, code, delivered, rebates, upstream, faults>>

\* The provider's trade number differs from the one read with the order: it is
\* stored, whatever the status of the order now is.  Of the modelled columns the
\* write changes updated_at.  A database error is ignored.
PersistTradeNo(w) ==
    /\ At(w, "persistTrade")
    /\ Write(job[w], row[job[w]]) \/ UNCHANGED row
    /\ Goto(w, "confirm")
    /\ UNCHANGED <<audit, code, delivered, rebates, upstream, faults>>

\* CancelPayment at the provider, best effort.
CancelUpstream(w) ==
    /\ At(w, "cancelUpstream")
    /\ \/ /\ upstream[job[w]] = "open"
          /\ upstream' = [upstream EXCEPT ![job[w]] = "closed"]
       \/ UNCHANGED upstream
    /\ Goto(w, "cancel")
    /\ UNCHANGED <<row, audit, code, delivered, rebates, faults>>

\* Mutant: the update is not conditional on PENDING.
CancelPending_Unconditional(w) ==
    /\ At(w, "cancel")
    /\ SetStatus(job[w], call[w])
    /\ Return(w)
    /\ UNCHANGED <<audit, code, delivered, rebates, upstream, faults>>

\* The conditional update at the end of cancelCore.
CancelPending(w) ==
    /\ At(w, "cancel")
    /\ IF row[job[w]].status = "PENDING"
       THEN SetStatus(job[w], call[w])
       ELSE UNCHANGED row
    /\ Return(w)
    /\ UNCHANGED <<audit, code, delivered, rebates, upstream, faults>>

------------------------------------------------------------------------------
(* Payment confirmation.                                                    *)

\* The provider calls the webhook of a payment it holds, as often as it likes.
Webhook(w, o) ==
    /\ upstream[o] \in {"paid", "underpaid"}
    /\ Begin(w, "webhook", o, "confirm")
    /\ UNCHANGED <<row, audit, code, delivered, rebates, upstream, faults>>

\* A failed read of the order, and a failed update of rejectUnsupportedOrderType,
\* are answered with success: the webhook is not sent again.
SwallowError(w) ==
    /\ \/ pc[w] \in {"confirm", "alreadyProcessed"}
       \/ At(w, "acquire") /\ OrderType(job[w]) = "other"
    /\ SwallowFaults
    /\ Fault
    /\ Return(w)
    /\ UNCHANGED <<row, audit, code, delivered, rebates, upstream>>

\* Mutant: the amount is not compared.
AmountMatches_Ignored(o) == upstream[o] \in {"paid", "underpaid"}

\* confirmPayment compares the amount paid with the price.
AmountMatches(o) == upstream[o] = "paid"

\* What toPaid accepts; an EXPIRED order, within a grace period.
Payable(r) == r.status \in {"PENDING", "CANCELLED"} \/ (r.status = "EXPIRED" /\ ~r.old)

\* confirmPayment rejects the wrong amount; toPaid is one conditional update.
ConfirmPayment(w) ==
    /\ At(w, "confirm")
    /\ LET o == job[w] IN
         \/ /\ ~AmountMatches(o)
            /\ UNCHANGED row
            /\ ReturnError(w)
         \/ /\ AmountMatches(o)
            /\ Payable(row[o])
            /\ Write(o, [row[o] EXCEPT !.status = "PAID", !.paidAt = TRUE])
            /\ Goto(w, "acquire")
         \/ /\ AmountMatches(o)
            /\ ~Payable(row[o])
            /\ UNCHANGED row
            /\ Goto(w, "alreadyProcessed")
    /\ UNCHANGED <<audit, code, delivered, rebates, upstream, faults>>

\* The status is read again; only an order that may lack its delivery goes on.
\* An EXPIRED one (grace period over) is acknowledged and nothing is credited.
AlreadyProcessed(w) ==
    /\ At(w, "alreadyProcessed")
    /\ IF row[job[w]].status \in {"FAILED", "PAID", "RECHARGING"}
       THEN Goto(w, "acquire")
       ELSE Return(w)
    /\ UNCHANGED <<row, audit, code, delivered, rebates, upstream, faults>>

\* RetryFulfillment by an admin.
RetryFulfillment(w, o) ==
    /\ row[o].paidAt
    /\ row[o].status \in {"FAILED", "PAID", "RECHARGING"}
    /\ OrderType(o) # "other"
    /\ Begin(w, "retry", o, "acquire")
    /\ UNCHANGED <<row, audit, code, delivered, rebates, upstream, faults>>

------------------------------------------------------------------------------
(* Fulfilment.                                                              *)

\* Mutant: the unsupported order keeps its status.
RejectUnsupported_Silent(w) ==
    /\ At(w, "acquire")
    /\ OrderType(job[w]) = "other"
    /\ Return(w)
    /\ UNCHANGED <<row, audit, code, delivered, rebates, upstream, faults>>

\* An unsupported order type is answered with success so that the provider
\* stops retrying.
RejectUnsupported(w) ==
    /\ At(w, "acquire")
    /\ OrderType(job[w]) = "other"
    /\ IF row[job[w]].status \in {"PAID", "RECHARGING"}
       THEN SetStatus(job[w], "FAILED") /\ Log(job[w], "FULFILLMENT_FAILED")
       ELSE UNCHANGED <<row, audit>>
    /\ Return(w)
    /\ UNCHANGED <<code, delivered, rebates, upstream, faults>>

\* Mutant: the lease of a dead worker is never taken over.
Claimable_NoTakeover(r) == r.status \in {"PAID", "FAILED"}

Claimable(r) == r.status \in {"PAID", "FAILED"} \/ (r.status = "RECHARGING" /\ r.old)

\* acquirePaymentFulfillmentLease, the claim.
AcquireLease(w) ==
    /\ At(w, "acquire")
    /\ OrderType(job[w]) # "other"
    /\ LET o == job[w] IN
         \/ /\ Claimable(row[o])
            /\ SetStatus(o, "RECHARGING")
            /\ Goto(w, "reload")
         \/ /\ ~Claimable(row[o])
            /\ UNCHANGED row
            /\ IF row[o].status = "COMPLETED" THEN Return(w) ELSE ReturnError(w)
    /\ UNCHANGED <<audit, code, delivered, rebates, upstream, faults>>

\* acquirePaymentFulfillmentLease, the separate read of the version.
ReloadLease(w) ==
    /\ At(w, "reload")
    /\ IF row[job[w]].status = "RECHARGING"
       THEN /\ row' = [row EXCEPT ![job[w]].holders = @ \union {w}]
            /\ Goto(w, IF OrderType(job[w]) = "balance" THEN "lookup" ELSE "assign")
       ELSE /\ UNCHANGED row
            /\ ReturnError(w)
    /\ UNCHANGED <<audit, code, delivered, rebates, upstream, faults>>

\* Mutant: an existing code counts as a used one.
LookupRedeemCode_ExistsIsUsed(w) ==
    /\ At(w, "lookup")
    /\ Goto(w, IF code[job[w]] = "none" THEN "createCode" ELSE "rebate")
    /\ UNCHANGED <<row, audit, code, delivered, rebates, upstream, faults>>

\* doBalance: resolveRedeemAction on the state of the order's redeem code.
LookupRedeemCode(w) ==
    /\ At(w, "lookup")
    /\ Goto(w, CASE code[job[w]] = "none" -> "createCode"
                 [] code[job[w]] = "unused" -> "redeem"
                 [] code[job[w]] = "used" -> "rebate")
    /\ UNCHANGED <<row, audit, code, delivered, rebates, upstream, faults>>

\* Codes are unique: the loser of a race gets an error.
CreateRedeemCode(w) ==
    /\ At(w, "createCode")
    /\ \/ /\ code[job[w]] = "none"
          /\ code' = [code EXCEPT ![job[w]] = "unused"]
          /\ Goto(w, "redeem")
       \/ /\ code[job[w]] # "none"
          /\ UNCHANGED code
          /\ Goto(w, "markFailed")
    /\ UNCHANGED <<row, audit, delivered, rebates, upstream, faults>>

\* Mutant: the status read before the transaction is trusted in it.
CodeUsable_Existing(o) == code[o] # "none"

\* redeemRepo.Use: WHERE status = 'unused'.
CodeUsable(o) == code[o] = "unused"

\* acquireRedeemLock: another call is redeeming the code.  Without Redis there is no
\* lock, so nothing may depend on it.
CodeLocked(w) == \E v \in Worker \ {w} : pc[v] = "redeem" /\ job[v] = job[w]

\* redeem: one transaction uses the code (WHERE status = 'unused') and credits
\* the balance.  What follows the commit may still fail.
Redeem(w) ==
    /\ At(w, "redeem")
    /\ LET o == job[w] IN
         \/ /\ CodeUsable(o)
            /\ code' = [code EXCEPT ![o] = "used"]
            /\ delivered' = [delivered EXCEPT ![o] = @ + 1]
            /\ \/ Goto(w, "rebate") /\ UNCHANGED faults
               \/ Goto(w, "markFailed") /\ Fault
         \/ /\ ~CodeUsable(o) \/ CodeLocked(w)
            /\ UNCHANGED <<code, delivered, faults>>
            /\ Goto(w, "markFailed")
    /\ UNCHANGED <<row, audit, rebates, upstream>>

\* Mutant: only the audit row of the completion is looked for.
SubscriptionAssigned_IfCompleted(o) == "SUBSCRIPTION_SUCCESS" \in audit[o]

\* hasPaymentSubscriptionAssignmentAudit.
SubscriptionAssigned(o) ==
    audit[o] \cap {"SUBSCRIPTION_ASSIGNED", "SUBSCRIPTION_SUCCESS"} # {}

\* ensurePaymentSubscriptionAssigned: one transaction whose audit row is unique
\* per order.  The cache invalidation after the commit may fail.
AssignSubscription(w) ==
    /\ At(w, "assign")
    /\ LET o == job[w] IN
         \/ /\ ~SubscriptionAssigned(o)
            /\ audit' = [audit EXCEPT ![o] = @ \union {"SUBSCRIPTION_ASSIGNED"}]
            /\ delivered' = [delivered EXCEPT ![o] = @ + 1]
         \/ /\ SubscriptionAssigned(o)
            /\ UNCHANGED <<audit, delivered>>
    /\ \/ Goto(w, "rebate") /\ UNCHANGED faults
       \/ Goto(w, "markFailed") /\ Fault
    /\ UNCHANGED <<row, code, rebates, upstream>>

\* Mutant: the completion, not the claim, is what makes the rebate unique.
RebateDecided_IfCompleted(o) == row[o].status = "COMPLETED"

\* tryClaimAffiliateRebateAudit finds a row of an earlier attempt.
RebateDecided(o) ==
    audit[o] \cap {"AFFILIATE_REBATE_APPLIED", "AFFILIATE_REBATE_SKIPPED"} # {}

\* applyAffiliateRebateForOrder: one transaction that claims the audit row,
\* accrues the rebate if there is one and renames the row if there is none.  (The
\* affiliate service is configured and the amount of the order is positive.)
ApplyRebate(w) ==
    /\ At(w, "rebate")
    /\ LET o == job[w] IN
         IF ~RebateDecided(o)
         THEN \/ /\ rebates' = [rebates EXCEPT ![o] = @ + 1]
                 /\ audit' = [audit EXCEPT ![o] = @ \union {"AFFILIATE_REBATE_APPLIED"}]
              \/ /\ audit' = [audit EXCEPT ![o] = @ \union {"AFFILIATE_REBATE_SKIPPED"}]
                 /\ UNCHANGED rebates
         ELSE UNCHANGED <<audit, rebates>>
    /\ Goto(w, "complete")
    /\ UNCHANGED <<row, code, delivered, upstream, faults>>

SuccessAction(o) == IF OrderType(o) = "balance" THEN "RECHARGE_SUCCESS" ELSE "SUBSCRIPTION_SUCCESS"

HoldsLease(w) == row[job[w]].status = "RECHARGING" /\ w \in row[job[w]].holders

\* markCompleted: a conditional update on the version of the lease.
MarkCompleted(w) ==
    /\ At(w, "complete")
    /\ LET o == job[w] IN
         \/ /\ HoldsLease(w)
            /\ SetStatus(o, "COMPLETED")
            /\ Log(o, SuccessAction(o))
            /\ Return(w)
         \/ /\ ~HoldsLease(w)
            /\ UNCHANGED <<row, audit>>
            /\ IF row[o].status = "COMPLETED" THEN Return(w) ELSE Goto(w, "markFailed")
    /\ UNCHANGED <<code, delivered, rebates, upstream, faults>>

\* markFailed: a conditional update on the version of the lease.
MarkFailed(w) ==
    /\ At(w, "markFailed")
    /\ IF HoldsLease(w)
       THEN SetStatus(job[w], "FAILED") /\ Log(job[w], "FULFILLMENT_FAILED")
       ELSE UNCHANGED <<row, audit>>
    /\ ReturnError(w)
    /\ UNCHANGED <<code, delivered, rebates, upstream, faults>>

\* A database, Redis or validation error before the step had any effect.
FulfillmentError(w) ==
    /\ pc[w] \in Delivering
    /\ Fault
    /\ Goto(w, "markFailed")
    /\ UNCHANGED <<row, audit, code, delivered, rebates, upstream>>

\* The process dies, or the call returns at once on an error of a read.
Crash(w) ==
    /\ pc[w] # "idle"
    /\ Fault
    /\ ReturnError(w)
    /\ UNCHANGED <<row, audit, code, delivered, rebates, upstream>>

------------------------------------------------------------------------------
(* The customer and the clock.                                              *)

\* The customer pays the right amount, or not.
Pay(o) ==
    /\ upstream[o] = "open"
    /\ \E p \in {"paid", "underpaid"} : upstream' = [upstream EXCEPT ![o] = p]
    /\ UNCHANGED <<orderVars, workerVars, acked, faults>>

\* expires_at passes.
PassDeadline(o) ==
    /\ row[o].status = "PENDING"
    /\ ~row[o].due
    /\ row' = [row EXCEPT ![o].due = TRUE]
    /\ UNCHANGED <<audit, code, delivered, rebates, upstream, acked, workerVars, faults>>

\* Some worker is between the claim of the order and its result.
BeingDelivered(o) ==
    \E w \in Worker : job[w] = o /\ pc[w] \in Delivering \union {"reload", "markFailed"}

\* Five minutes pass since the last write of the row.  A worker that takes so long
\* for a delivery is one of the bounded faults.
Age(o) ==
    /\ row[o].status \in {"RECHARGING", "EXPIRED"}
    /\ ~row[o].old
    /\ row' = [row EXCEPT ![o].old = TRUE]
    /\ IF BeingDelivered(o) THEN Fault ELSE UNCHANGED faults
    /\ UNCHANGED <<audit, code, delivered, rebates, upstream, acked, workerVars>>

------------------------------------------------------------------------------
\* What a running call does next.
Step(w) ==
    \/ \E o \in Order : InsertOrder(w, o)
    \/ CreatePayment(w) \/ RecordPayment(w) \/ CreateFailed(w)
    \/ QueryOrder(w) \/ PersistTradeNo(w) \/ CancelUpstream(w) \/ CancelPending(w)
    \/ ConfirmPayment(w) \/ AlreadyProcessed(w)
    \/ RejectUnsupported(w) \/ AcquireLease(w) \/ ReloadLease(w)
    \/ LookupRedeemCode(w) \/ CreateRedeemCode(w) \/ Redeem(w)
    \/ AssignSubscription(w) \/ ApplyRebate(w)
    \/ MarkCompleted(w) \/ MarkFailed(w)

Start(w, o) ==
    \/ CancelOrder(w, o) \/ ExpireOrder(w, o) \/ VerifyOrder(w, o)
    \/ Webhook(w, o) \/ RetryFulfillment(w, o)

Environment(o) == Pay(o) \/ PassDeadline(o) \/ Age(o)

Next ==
    \/ \E w \in Worker :
         \/ CheckPendingLimit(w)
         \/ \E o \in Order : Start(w, o)
         \/ Step(w)
         \/ SwallowError(w)
         \/ FulfillmentError(w)
         \/ Crash(w)
    \/ \E o \in Order : Environment(o)

Spec == Init /\ [][Next]_vars

(* Fairness.  The Go scheduler runs every call to its end and the clock moves. *)
(* A provider repeats a webhook until it is answered 2xx, and the server       *)
(* accepts it: a bounded number of workers is a bound of the model.            *)
RedeliverWebhook(o) == ~acked[o] /\ \E w \in Worker : Webhook(w, o)

Progress == \A w \in Worker : WF_vars(Step(w))
Clock == \A o \in Order : WF_vars(PassDeadline(o)) /\ WF_vars(Age(o))
Redelivery == \A o \in Order : SF_vars(RedeliverWebhook(o))

\* The expiry job scans the due orders every minute.
ExpiryJob == \A o \in Order : SF_vars(\E w \in Worker : ExpireOrder(w, o))

FairSpec == Spec /\ Progress /\ Clock /\ Redelivery /\ ExpiryJob

------------------------------------------------------------------------------
(* Properties.                                                              *)

\* Every variable has its type.
TypeOK ==
    /\ row \in [Order -> Row]
    /\ audit \in [Order -> SUBSET AuditAction]
    /\ code \in [Order -> {"none", "unused", "used"}]
    /\ delivered \in [Order -> Nat]
    /\ rebates \in [Order -> Nat]
    /\ upstream \in [Order -> {"none", "open", "closed", "paid", "underpaid"}]
    /\ acked \in [Order -> BOOLEAN]
    /\ pc \in [Worker -> Location]
    /\ call \in [Worker -> Call]
    /\ job \in [Worker -> Order \union {NoOrder}]
    /\ \A w \in Worker : pc[w] \notin {"idle", "insert"} => job[w] \in Order
    /\ faults \in 0 .. MaxFaults

\* However many webhooks, queries, retries and crashed attempts an order sees,
\* the purchase is delivered once, and the inviter is rewarded once and only for
\* a delivered purchase.  Concurrent attempts do happen: a lease goes stale, and
\* the status of an order can be overwritten under the worker that delivers it.
DeliveredAtMostOnce ==
    \A o \in Order : delivered[o] <= 1 /\ rebates[o] <= delivered[o]

\* Nothing is delivered unless the provider holds the full price, even when the
\* order has been FAILED, CANCELLED or EXPIRED before it was confirmed.
DeliveredOnlyIfPaid ==
    \A o \in Order : delivered[o] > 0 => upstream[o] = "paid"

\* A COMPLETED order has been delivered and its rebate decided, whichever of
\* several attempts did what.
CompletedIsDelivered ==
    \A o \in Order : row[o].status = "COMPLETED" => delivered[o] = 1 /\ RebateDecided(o)

\* An order that was confirmed as paid is never cancelled, expired or reopened:
\* a cancellation or the expiry job that read it as PENDING must lose.
PaidNeverWithdrawn ==
    [][\A o \in Order :
          row[o].paidAt => /\ row'[o].paidAt
                           /\ row'[o].status \in {"PAID", "RECHARGING", "COMPLETED", "FAILED"}]_vars

\* Deliveries and rebates refine the ledger.
Ledger == INSTANCE PaymentLedger WITH
    received <- {o \in Order : upstream[o] = "paid"},
    delivered <- delivered,
    rebates <- rebates

ImplementsLedger == Ledger!Spec

\* While the provider repeats its webhook, a confirmed payment that is not
\* delivered is on its way to COMPLETED, in spite of crashes, errors, lost leases
\* and overwritten statuses.  (Once a webhook was answered with success only an
\* admin's retry is left.)
PaidIsCompleted ==
    \A o \in Order :
        row[o].paidAt /\ OrderType(o) # "other" /\ delivered[o] = 0 /\ ~acked[o]
            ~> row[o].status = "COMPLETED"

\* No order stays PENDING forever: when the deadline has passed the expiry job
\* resolves it even if the provider cannot be queried.  Except one that was paid
\* with another amount: every query answers already_paid, no confirmation succeeds.
PendingIsResolved ==
    \A o \in Order :
        row[o].status = "PENDING" ~> row[o].status # "PENDING" \/ upstream[o] = "underpaid"

\* An order of a type the service does not fulfil ends FAILED once it is paid, and
\* the provider's webhook is answered.
UnsupportedIsRejected ==
    \A o \in Order :
        row[o].paidAt /\ OrderType(o) = "other" /\ ~acked[o]
            ~> row[o].status = "FAILED" /\ acked[o]

(* The inductive invariant behind the safety properties, in named parts.    *)

\* A call keeps its purpose: only a cancellation or the expiry job gets to the
\* conditional update of cancelCore.
CallsKeepPurpose ==
    \A w \in Worker :
        /\ pc[w] = "query" => call[w] \in {"CANCELLED", "EXPIRED", "verify"}
        /\ pc[w] \in {"cancelUpstream", "cancel"} => call[w] \in {"CANCELLED", "EXPIRED"}

\* A payment is opened once, by the call that inserted the order.
OpenedOnce ==
    /\ \A o \in Order :
           row[o].status = "ABSENT" => upstream[o] = "none" /\ code[o] = "none" /\ audit[o] = {}
    /\ \A w \in Worker : pc[w] \notin {"idle", "insert"} => row[job[w]].status # "ABSENT"
    /\ \A w \in Worker : pc[w] = "createPayment" => upstream[job[w]] = "none"
    /\ \A v, w \in Worker :
           pc[v] = "createPayment" /\ pc[w] = "createPayment" /\ job[v] = job[w] => v = w

\* Whoever is past the comparison of the amounts, and every order that was
\* confirmed, has the full price at the provider.
ConfirmedIsPaid ==
    /\ \A w \in Worker :
           pc[w] \in Delivering \union {"alreadyProcessed", "acquire", "reload", "markFailed"}
               => upstream[job[w]] = "paid"
    /\ \A o \in Order :
           row[o].status \in {"PAID", "RECHARGING", "COMPLETED"} \/ row[o].paidAt
               => upstream[o] = "paid"
    /\ \A o \in Order :
           row[o].paidAt => row[o].status \in {"PAID", "RECHARGING", "COMPLETED", "FAILED"}

\* Each worker delivers what the order's type asks for.
DeliversItsType ==
    /\ \A o \in Order : OrderType(o) = "none" => row[o].status = "ABSENT"
    /\ \A w \in Worker :
           /\ pc[w] \in Delivering \union {"reload", "markFailed"} => OrderType(job[w]) # "other"
           /\ pc[w] \in {"lookup", "createCode", "redeem"} => OrderType(job[w]) = "balance"
           /\ pc[w] = "assign" => OrderType(job[w]) = "subscription"

\* The evidence of a delivery that the code looks for, the used code or the audit
\* row of the assignment, is there exactly when the purchase was delivered.
DeliveryHasEvidence ==
    \A o \in Order :
        /\ OrderType(o) = "balance" => delivered[o] = IF code[o] = "used" THEN 1 ELSE 0
        /\ OrderType(o) = "subscription" =>
               delivered[o] = IF "SUBSCRIPTION_ASSIGNED" \in audit[o] THEN 1 ELSE 0
        /\ OrderType(o) \in {"other", "none"} => delivered[o] = 0
        /\ "SUBSCRIPTION_SUCCESS" \in audit[o] => delivered[o] = 1
        /\ delivered[o] > 0 => upstream[o] = "paid"

\* The rebate comes after the delivery and its audit row with it; the completion
\* comes after both.
RebateFollowsDelivery ==
    /\ \A o \in Order : rebates[o] > 0 => rebates[o] = 1 /\ RebateDecided(o) /\ delivered[o] = 1
    /\ \A w \in Worker :
           /\ pc[w] \in {"rebate", "complete"} => delivered[job[w]] = 1
           /\ pc[w] = "complete" => RebateDecided(job[w])
    /\ \A o \in Order : row[o].status = "COMPLETED" => delivered[o] = 1 /\ RebateDecided(o)

\* All of it holds whatever the interleaving of the calls: the code's own evidence
\* and the provider's state agree with what was delivered.
DeliveryInvariant ==
    /\ CallsKeepPurpose
    /\ OpenedOnce
    /\ ConfirmedIsPaid
    /\ DeliversItsType
    /\ DeliveryHasEvidence
    /\ RebateFollowsDelivery

(* What the documentation and the comments say, and the code does not do.   *)

\* docs/PAYMENT.md, FAILED: "Balance credit failed, admin can retry".
FailedCanBeRetried ==
    \A o \in Order :
        /\ row[o].status = "FAILED"
        /\ "FULFILLMENT_FAILED" \in audit[o]
        => row[o].paidAt

\* docs/PAYMENT.md: "If the user has actually paid but the callback was delayed,
\* the system will reconcile automatically".
PaidIsDelivered ==
    \A o \in Order : upstream[o] = "paid" ~> delivered[o] > 0
=============================================================================
