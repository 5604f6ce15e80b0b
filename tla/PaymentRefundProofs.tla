-------------------------- MODULE PaymentRefundProofs --------------------------
(* What PaymentRefund guarantees for any number of workers, any amounts,    *)
(* balances, faults and requests.                                           *)
EXTENDS PaymentRefund, SequenceTheorems, FiniteSetTheorems, TLAPS

(* The inductive invariant. *)
IInv == TypeOK /\ RefundInvariant

-----------------------------------------------------------------------------
(* What the helpers of the actions do *)

(* Never more than asked for, nor below zero. *)
LEMMA AvailableBounds ==
    ASSUME NEW n \in Nat, balance \in Int
    PROVE  /\ Available(n) \in 0 .. n
           /\ Available(n) > 0 => balance - Available(n) >= 0
BY DEF Available, Greatest, Least

(* A worker that moves leaves the others where they are. *)
LEMMA GotoEffect ==
    ASSUME TypeOK, NEW w \in Worker, NEW l \in Location, Goto(w, l)
    PROVE  /\ pc' \in [Worker -> Location]
           /\ pc'[w] = l
           /\ \A v \in Worker \ {w} : pc'[v] = pc[v]
           /\ plan' = plan
BY DEF Goto, TypeOK

(* So does one whose request ends. *)
LEMMA ReturnEffect ==
    ASSUME TypeOK, NEW w \in Worker, Return(w)
    PROVE  /\ pc' \in [Worker -> Location]
           /\ pc'[w] = "idle"
           /\ \A v \in Worker \ {w} : pc'[v] = pc[v] /\ plan'[v] = plan[v]
           /\ plan' \in [Worker -> Plan]
<1>1. NoPlan \in Plan
  BY RefundAssumption DEF NoPlan, Plan, RefundAmounts
<1>2. QED
  BY <1>1 DEF Return, TypeOK, Location

(* A worker's deduction is replaced in its plan ... *)
LEMMA TakeReplaced ==
    ASSUME TypeOK, NEW w \in Worker, NEW n \in 0 .. Amount,
           plan' = [plan EXCEPT ![w].take = n]
    PROVE  /\ plan' \in [Worker -> Plan]
           /\ plan'[w].take = n
           /\ plan'[w].amount = plan[w].amount
           /\ \A v \in Worker \ {w} : plan'[v] = plan[v]
<1>1. plan \in [Worker -> Plan] /\ plan[w] \in Plan
  BY DEF TypeOK
<1>2. [plan[w] EXCEPT !.take = n] \in Plan
  BY <1>1 DEF Plan
<1>3. plan' = [plan EXCEPT ![w] = [plan[w] EXCEPT !.take = n]]
  OBVIOUS
<1>4. plan'[w] = [plan[w] EXCEPT !.take = n]
  BY <1>1, <1>3
<1>5. plan'[w].take = n /\ plan'[w].amount = plan[w].amount
  BY <1>1, <1>4 DEF Plan
<1>6. QED
  BY <1>1, <1>2, <1>3, <1>5

(* ... or the request it stands for. *)
LEMMA RequestReplaced ==
    ASSUME TypeOK, NEW w \in Worker, NEW r \in Nat,
           plan' = [plan EXCEPT ![w].request = r]
    PROVE  /\ plan' \in [Worker -> Plan]
           /\ plan'[w].request = r
           /\ plan'[w].take = plan[w].take
           /\ plan'[w].amount = plan[w].amount
           /\ \A v \in Worker \ {w} : plan'[v] = plan[v]
<1>1. plan \in [Worker -> Plan] /\ plan[w] \in Plan
  BY DEF TypeOK
<1>2. [plan[w] EXCEPT !.request = r] \in Plan
  BY <1>1 DEF Plan
<1>3. plan' = [plan EXCEPT ![w] = [plan[w] EXCEPT !.request = r]]
  OBVIOUS
<1>4. plan'[w] = [plan[w] EXCEPT !.request = r]
  BY <1>1, <1>3
<1>5. /\ plan'[w].request = r
      /\ plan'[w].take = plan[w].take
      /\ plan'[w].amount = plan[w].amount
  BY <1>1, <1>4 DEF Plan
<1>6. QED
  BY <1>1, <1>2, <1>3, <1>5

(* What DeductBalance takes and writes to the plan. *)
LEMMA DeductEffect ==
    ASSUME TypeOK, NEW w \in Worker, DeductBalance(w)
    PROVE  \E n \in 0 .. Amount :
             /\ plan' = [plan EXCEPT ![w].take = n]
             /\ taken' = taken + n
             /\ balance' = balance - n
             /\ n > 0 => balance' >= 0
             /\ \/ MayDeduct(w)
                \/ MaySkip(w) /\ n = 0
<1>1. CASE MaySkip(w) /\ plan' = [plan EXCEPT ![w].take = 0] /\ UNCHANGED <<balance, taken>>
  <2> 0 \in 0 .. Amount
    BY RefundAssumption
  <2>1. balance \in Int /\ taken \in Int
    BY DEF TypeOK
  <2>2. taken' = taken + 0 /\ balance' = balance - 0
    BY <1>1, <2>1
  <2>3. ~(0 > 0)
    OBVIOUS
  <2> WITNESS 0 \in 0 .. Amount
  <2>4. QED
    BY <1>1, <2>2, <2>3
<1>2. CASE /\ MayDeduct(w)
           /\ LET n == Available(plan[w].take) IN
                /\ balance' = balance - n
                /\ taken' = taken + n
                /\ plan' = [plan EXCEPT ![w].take = n]
  <2>1. plan[w].take \in 0 .. Amount /\ plan[w].take \in Nat /\ balance \in Int
    BY RefundAssumption DEF TypeOK, Plan
  <2>2. PICK n : n = Available(plan[w].take)
    OBVIOUS
  <2>3. n \in 0 .. plan[w].take /\ (n > 0 => balance - n >= 0)
    BY <2>1, <2>2, AvailableBounds
  <2>4. n \in 0 .. Amount
    BY <2>1, <2>3, RefundAssumption
  <2>5. /\ balance' = balance - n
        /\ taken' = taken + n
        /\ plan' = [plan EXCEPT ![w].take = n]
    BY <1>2, <2>2
  <2>6. n > 0 => balance' >= 0
    BY <2>3, <2>5
  <2>7. QED
    BY <1>2, <2>4, <2>5, <2>6
<1>3. QED
  BY <1>1, <1>2 DEF DeductBalance

-----------------------------------------------------------------------------
(* Types *)

(* The types hold at the start. *)
LEMMA TypeInit == Init => TypeOK
<1> SUFFICES ASSUME Init
             PROVE  TypeOK
  OBVIOUS
<1>1. NoPlan \in Plan
  BY RefundAssumption DEF NoPlan, Plan, RefundAmounts
<1>2. requests \in Seq([amount : RefundAmounts, state : {"pending", "success", "failed"}])
  BY DEF Init
<1>3. QED
  BY <1>1, <1>2, RefundAssumption DEF Init, TypeOK, Status, Location

(* Every step keeps the types; a query types its plan by PendingOnce. *)
LEMMA TypeStep == TypeOK /\ PendingOnce /\ [Next]_vars => TypeOK'
<1> SUFFICES ASSUME TypeOK, PendingOnce, [Next]_vars
             PROVE  TypeOK'
  OBVIOUS
<1> USE RefundAssumption
<1>1. ASSUME NEW w \in Worker, PrepareRefund(w)
      PROVE  TypeOK'
  <2> PICK a \in RefundAmounts, deduct \in BOOLEAN :
         plan' = [plan EXCEPT ![w] =
                [amount |-> a, take |-> IF deduct THEN Available(a) ELSE 0,
                 requested |-> status = "REFUND_REQUESTED", request |-> 0]]
    BY <1>1 DEF PrepareRefund
  <2>1. (IF deduct THEN Available(a) ELSE 0) \in 0 .. Amount
    BY AvailableBounds DEF TypeOK, RefundAmounts
  <2>2. plan' \in [Worker -> Plan]
    BY <2>1 DEF TypeOK, Plan
  <2>3. QED
    BY <1>1, <2>2 DEF PrepareRefund, TypeOK, Location
<1>2. ASSUME NEW w \in Worker, ClaimRefund(w)
      PROVE  TypeOK'
  BY <1>2, GotoEffect, ReturnEffect DEF ClaimRefund, TypeOK, Location, Status
<1>3. ASSUME NEW w \in Worker, DeductBalance(w)
      PROVE  TypeOK'
  <2> PICK n \in 0 .. Amount :
         /\ plan' = [plan EXCEPT ![w].take = n]
         /\ taken' = taken + n
         /\ balance' = balance - n
    BY <1>3, DeductEffect
  <2>1. plan' \in [Worker -> Plan]
    BY TakeReplaced
  <2>2. balance' \in Int /\ taken' \in Int
    <3>1. balance \in Int /\ taken \in Int
      BY DEF TypeOK
    <3>2. QED
      BY <3>1
  <2>3. QED
    BY <1>3, <2>1, <2>2 DEF DeductBalance, TypeOK, Location
<1>4. ASSUME NEW w \in Worker, DeductError(w)
      PROVE  TypeOK'
  <2>1. faults' \in 0 .. MaxFaults
    <3>1. faults \in 0 .. MaxFaults /\ faults < MaxFaults /\ faults' = faults + 1
      BY <1>4 DEF DeductError, Fault, TypeOK
    <3>2. QED
      BY <3>1
  <2>2. plan' \in [Worker -> Plan]
    <3>1. plan' = [plan EXCEPT ![w].take = 0] /\ 0 \in 0 .. Amount
      BY <1>4 DEF DeductError
    <3>2. QED
      BY <3>1, TakeReplaced
  <2>3. QED
    BY <1>4, <2>1, <2>2 DEF DeductError, TypeOK, Location
<1>5. ASSUME NEW w \in Worker, GatewayRefund(w)
      PROVE  TypeOK'
  <2>1. PICK s \in {"success", "pending", "failed"}, l \in {"markOk", "markPending", "rollback"} :
          /\ requests' = Append(requests, [amount |-> plan[w].amount, state |-> s])
          /\ plan' = [plan EXCEPT ![w].request = Len(requests) + 1]
          /\ pc' = [pc EXCEPT ![w] = l]
    BY <1>5 DEF GatewayRefund
  <2>2. requests' \in Seq([amount : RefundAmounts, state : {"pending", "success", "failed"}])
    BY <2>1, AppendProperties DEF TypeOK, Plan
  <2>3. plan' \in [Worker -> Plan]
    <3>1. Len(requests) + 1 \in Nat
      BY LenProperties DEF TypeOK
    <3>2. QED
      BY <2>1, <3>1, RequestReplaced
  <2>4. QED
    BY <1>5, <2>1, <2>2, <2>3 DEF GatewayRefund, TypeOK, Location
<1>6. ASSUME NEW w \in Worker, MarkRefundOk(w)
      PROVE  TypeOK'
  <2>1. plan[w].amount \in 0 .. Amount
    BY DEF TypeOK, Plan, RefundAmounts
  <2>2. SuccessStatus(plan[w].amount) \in Status
    BY DEF SuccessStatus, Status
  <2>3. audit' \subseteq AuditAction
    BY <1>6 DEF MarkRefundOk, Log, TypeOK, AuditAction
  <2>4. QED
    BY <1>6, <2>1, <2>2, <2>3, ReturnEffect DEF MarkRefundOk, TypeOK
<1>7. ASSUME NEW w \in Worker, MarkRefundPending(w)
      PROVE  TypeOK'
  <2>1. /\ plan[w].amount \in 0 .. Amount
        /\ plan[w].take \in 0 .. Amount
        /\ plan[w].request \in Nat
    BY DEF TypeOK, Plan, RefundAmounts
  <2>2. QED
    <3>1. /\ status' \in Status /\ amount' \in 0 .. Amount /\ audit' \subseteq AuditAction
          /\ held' \in [take : 0 .. Amount, request : Nat]
      BY <1>7, <2>1 DEF MarkRefundPending, TypeOK, Status, AuditAction
    <3>2. QED
      BY <1>7, <3>1, ReturnEffect DEF MarkRefundPending, TypeOK
<1>8. ASSUME NEW w \in Worker, RollbackRefund(w)
      PROVE  TypeOK'
  <2>1. plan[w].take \in 0 .. Amount
    BY DEF TypeOK, Plan
  <2>2. QED
    <3>1. balance' \in Int /\ taken' \in Int
      <4>1. /\ balance \in Int /\ taken \in Int
            /\ balance' = balance + plan[w].take /\ taken' = taken - plan[w].take
        BY <1>8 DEF RollbackRefund, TypeOK
      <4>2. QED
        BY <2>1, <4>1
    <3>2. QED
      BY <1>8, <3>1, GotoEffect DEF RollbackRefund, TypeOK, Location
<1>9. ASSUME NEW w \in Worker, RollbackError(w)
      PROVE  TypeOK'
  <2>1. faults' \in 0 .. MaxFaults
    BY <1>9 DEF RollbackError, Fault, TypeOK
  <2>2. QED
    BY <1>9, <2>1, GotoEffect DEF RollbackError, Log, TypeOK, Location, AuditAction
<1>10. ASSUME NEW w \in Worker, RestoreStatus(w)
       PROVE  TypeOK'
  BY <1>10, ReturnEffect DEF RestoreStatus, TypeOK, Status
<1>11. ASSUME NEW w \in Worker, MarkRefundFailed(w)
       PROVE  TypeOK'
  BY <1>11, ReturnEffect DEF MarkRefundFailed, Log, TypeOK, Status, AuditAction
<1>12. ASSUME NEW w \in Worker, QueryRefund(w)
       PROVE  TypeOK'
  <2>1. [NoPlan EXCEPT !.amount = amount, !.take = held.take] \in Plan
    BY <1>12 DEF QueryRefund, PendingOnce, TypeOK, NoPlan, Plan, RefundAmounts
  <2>2. QED
    BY <1>12, <2>1 DEF QueryRefund, TypeOK, Location
<1>13. ASSUME NEW w \in Worker, FinalizeSuccess(w)
       PROVE  TypeOK'
  BY <1>13, ReturnEffect DEF FinalizeSuccess, SuccessStatus, TypeOK, Status, AuditAction
<1>14. ASSUME NEW w \in Worker, FinalizeFailed(w)
       PROVE  TypeOK'
  <2>1. plan[w].take \in 0 .. Amount
    BY DEF TypeOK, Plan
  <2>2. QED
    <3>1. balance' \in Int /\ taken' \in Int
      BY <1>14, <2>1 DEF FinalizeFailed, TypeOK
    <3>2. status' \in Status /\ audit' \subseteq AuditAction
      BY <1>14 DEF FinalizeFailed, TypeOK, Status, AuditAction
    <3>3. QED
      BY <1>14, <3>1, <3>2, ReturnEffect DEF FinalizeFailed, TypeOK
<1>15. ASSUME NEW w \in Worker, FinalizeReturnError(w)
       PROVE  TypeOK'
  <2>1. faults' \in 0 .. MaxFaults
    BY <1>15 DEF FinalizeReturnError, Fault, TypeOK
  <2>2. QED
    BY <1>15, <2>1, GotoEffect DEF FinalizeReturnError, TypeOK, Location
<1>16. ASSUME NEW w \in Worker, FinalizeUnreturned(w)
       PROVE  TypeOK'
  BY <1>16, ReturnEffect DEF FinalizeUnreturned, TypeOK, Status, AuditAction
<1>17. ASSUME NEW w \in Worker, Crash(w)
       PROVE  TypeOK'
  <2>1. faults' \in 0 .. MaxFaults
    BY <1>17 DEF Crash, Fault, TypeOK
  <2>2. QED
    BY <1>17, <2>1, ReturnEffect DEF Crash, TypeOK
<1>18. CASE RequestRefund
  BY <1>18 DEF RequestRefund, TypeOK, Status
<1>19. CASE GatewaySettles
  <2> PICK i \in DOMAIN requests, s \in {"success", "failed"} :
         requests' = [requests EXCEPT ![i].state = s]
    BY <1>19 DEF GatewaySettles
  <2>1. requests' \in Seq([amount : RefundAmounts, state : {"pending", "success", "failed"}])
    <3> DEFINE R == [amount : RefundAmounts, state : {"pending", "success", "failed"}]
    <3>1. requests \in Seq(R) /\ i \in 1 .. Len(requests)
      BY DEF TypeOK
    <3>2. requests[i] \in R
      BY <3>1, ElementOfSeq
    <3>3. [requests[i] EXCEPT !.state = s] \in R
      BY <3>2
    <3>4. [requests EXCEPT ![i] = [requests[i] EXCEPT !.state = s]] \in Seq(R)
      BY <3>1, <3>3, ExceptSeq
    <3>5. QED
      BY <3>4
  <2>2. QED
    BY <1>19, <2>1 DEF GatewaySettles, TypeOK
<1>20. CASE Spend
  BY <1>20 DEF Spend, TypeOK
<1>21. CASE UNCHANGED vars
  BY <1>21 DEF vars, TypeOK
<1>22. QED
  BY <1>1, <1>2, <1>3, <1>4, <1>5, <1>6, <1>7, <1>8, <1>9, <1>10, <1>11, <1>12, <1>13,
     <1>14, <1>15, <1>16, <1>17, <1>18, <1>19, <1>20, <1>21 DEF Next, Step

-----------------------------------------------------------------------------
(* An attempt is alone *)

(* Nothing is claimed that was not, and the status stays. *)
LEMMA ClaimKept ==
    ASSUME ClaimExcludes, status' = status,
           \A v \in Worker : pc'[v] \in Claimed => pc[v] \in Claimed
    PROVE  ClaimExcludes'
BY DEF ClaimExcludes

(* The one attempt that holds the claim leaves it. *)
LEMMA ClaimReleased ==
    ASSUME ClaimExcludes, NEW w \in Worker, pc[w] \in Claimed,
           pc'[w] \notin Claimed, \A v \in Worker \ {w} : pc'[v] = pc[v]
    PROVE  ClaimExcludes'
BY DEF ClaimExcludes

(* Every step keeps an attempt alone. *)
LEMMA ClaimStep == TypeOK /\ ClaimExcludes /\ [Next]_vars => ClaimExcludes'
<1> SUFFICES ASSUME TypeOK, ClaimExcludes, [Next]_vars
             PROVE  ClaimExcludes'
  OBVIOUS
<1> USE DEF Claimed, At
<1>1. ASSUME NEW w \in Worker, PrepareRefund(w)
      PROVE  ClaimExcludes'
  BY <1>1, ClaimKept DEF PrepareRefund, TypeOK
<1>2. ASSUME NEW w \in Worker, ClaimRefund(w)
      PROVE  ClaimExcludes'
  <2>1. CASE status \notin Refundable /\ UNCHANGED status /\ Return(w)
    BY <2>1, ClaimKept, ReturnEffect
  <2>2. CASE status \in Refundable /\ status' = "REFUNDING" /\ Goto(w, "deduct")
    <3>1. \A v \in Worker : pc[v] \notin Claimed
      BY <2>2 DEF ClaimExcludes, Refundable
    <3>2. \A v \in Worker \ {w} : pc'[v] = pc[v]
      BY <2>2, GotoEffect DEF Location
    <3>3. QED
      BY <2>2, <3>1, <3>2 DEF ClaimExcludes
  <2>3. QED
    BY <1>2, <2>1, <2>2 DEF ClaimRefund
<1>3. ASSUME NEW w \in Worker, DeductBalance(w)
      PROVE  ClaimExcludes'
  BY <1>3, ClaimKept DEF DeductBalance, TypeOK
<1>4. ASSUME NEW w \in Worker, DeductError(w)
      PROVE  ClaimExcludes'
  BY <1>4, ClaimKept DEF DeductError, TypeOK
<1>5. ASSUME NEW w \in Worker, GatewayRefund(w)
      PROVE  ClaimExcludes'
  BY <1>5, ClaimKept DEF GatewayRefund, TypeOK
<1>6. ASSUME NEW w \in Worker,
             \/ MarkRefundOk(w) \/ MarkRefundPending(w)
             \/ RestoreStatus(w) \/ MarkRefundFailed(w)
      PROVE  ClaimExcludes'
  <2>1. pc[w] \in Claimed /\ Return(w)
    BY <1>6 DEF MarkRefundOk, MarkRefundPending, RestoreStatus, MarkRefundFailed
  <2>2. QED
    BY <2>1, ReturnEffect, ClaimReleased
<1>7. ASSUME NEW w \in Worker, RollbackRefund(w) \/ RollbackError(w)
      PROVE  ClaimExcludes'
  BY <1>7, ClaimKept DEF RollbackRefund, RollbackError, Goto, TypeOK
<1>8. ASSUME NEW w \in Worker, QueryRefund(w)
      PROVE  ClaimExcludes'
  BY <1>8, ClaimKept DEF QueryRefund, TypeOK
<1>9. ASSUME NEW w \in Worker,
             FinalizeSuccess(w) \/ FinalizeFailed(w) \/ FinalizeUnreturned(w)
      PROVE  ClaimExcludes'
  <2>1. Return(w) /\ (status' # status => status = "REFUND_PENDING")
    BY <1>9 DEF FinalizeSuccess, FinalizeFailed, FinalizeUnreturned
  <2>2. \A v \in Worker : pc'[v] \in Claimed => pc[v] \in Claimed
    BY <2>1, ReturnEffect
  <2>3. CASE status' = status
    BY <2>2, <2>3, ClaimKept
  <2>4. CASE status = "REFUND_PENDING"
    BY <2>2, <2>4 DEF ClaimExcludes
  <2>5. QED
    BY <2>1, <2>3, <2>4
<1>10. ASSUME NEW w \in Worker, FinalizeReturnError(w)
       PROVE  ClaimExcludes'
  BY <1>10, ClaimKept DEF FinalizeReturnError, Goto, TypeOK
<1>11. ASSUME NEW w \in Worker, Crash(w)
       PROVE  ClaimExcludes'
  BY <1>11, ClaimKept, ReturnEffect DEF Crash
<1>12. CASE RequestRefund
  BY <1>12 DEF RequestRefund, ClaimExcludes
<1>13. CASE GatewaySettles \/ Spend \/ UNCHANGED vars
  BY <1>13, ClaimKept DEF GatewaySettles, Spend, vars
<1>14. QED
  BY <1>1, <1>2, <1>3, <1>4, <1>5, <1>6, <1>7, <1>8, <1>9, <1>10, <1>11, <1>12, <1>13
  DEF Next, Step

-----------------------------------------------------------------------------
(* An order is pending once *)

(* What a query has read stays true while the order and its pending row do. *)
LEMMA PendingKept ==
    ASSUME PendingOnce, audit \subseteq audit',
           \/ UNCHANGED <<status, amount, held>>
           \/ status' # "REFUND_PENDING" /\ held' = held,
           \A v \in Worker : pc'[v] \in Finalizing =>
             /\ pc[v] \in Finalizing
             /\ plan'[v] = plan[v]
    PROVE  PendingOnce'
BY DEF PendingOnce

(* Every step keeps the one pending refund and what was read of it. *)
LEMMA PendingStep == TypeOK /\ ClaimExcludes /\ PendingOnce /\ [Next]_vars => PendingOnce'
<1> SUFFICES ASSUME TypeOK, ClaimExcludes, PendingOnce, [Next]_vars
             PROVE  PendingOnce'
  OBVIOUS
<1> USE DEF At, Finalizing
<1>1. ASSUME NEW w \in Worker, PrepareRefund(w)
      PROVE  PendingOnce'
  BY <1>1, PendingKept DEF PrepareRefund, TypeOK
<1>2. ASSUME NEW w \in Worker, ClaimRefund(w)
      PROVE  PendingOnce'
  BY <1>2, PendingKept, GotoEffect, ReturnEffect DEF ClaimRefund, Location
<1>3. ASSUME NEW w \in Worker, DeductBalance(w)
      PROVE  PendingOnce'
  BY <1>3, PendingKept DEF DeductBalance, TypeOK
<1>4. ASSUME NEW w \in Worker, DeductError(w)
      PROVE  PendingOnce'
  BY <1>4, PendingKept DEF DeductError, TypeOK
<1>5. ASSUME NEW w \in Worker, GatewayRefund(w)
      PROVE  PendingOnce'
  BY <1>5, PendingKept DEF GatewayRefund, TypeOK
<1>6. ASSUME NEW w \in Worker, MarkRefundOk(w)
      PROVE  PendingOnce'
  <2>1. status' # "REFUND_PENDING" /\ audit \subseteq audit'
    BY <1>6 DEF MarkRefundOk, SuccessStatus, Log
  <2>2. QED
    BY <1>6, <2>1, PendingKept, ReturnEffect DEF MarkRefundOk
<1>7. ASSUME NEW w \in Worker, MarkRefundPending(w)
      PROVE  PendingOnce'
  <2>1. CASE Insertable({"REFUND_PENDING"})
    <3>1. \A v \in Worker : pc'[v] \notin Finalizing
      BY <1>7, <2>1, ReturnEffect DEF MarkRefundPending, PendingOnce, Insertable
    <3>2. plan[w].amount \in RefundAmounts
      BY DEF TypeOK, Plan
    <3>3. QED
      BY <1>7, <2>1, <3>1, <3>2 DEF MarkRefundPending, PendingOnce
  <2>2. CASE ~Insertable({"REFUND_PENDING"})
    BY <1>7, <2>2, PendingKept, ReturnEffect DEF MarkRefundPending
  <2>3. QED
    BY <2>1, <2>2
<1>8. ASSUME NEW w \in Worker, RollbackRefund(w)
      PROVE  PendingOnce'
  BY <1>8, PendingKept, GotoEffect DEF RollbackRefund, Location
<1>9. ASSUME NEW w \in Worker, RollbackError(w)
      PROVE  PendingOnce'
  BY <1>9, PendingKept, GotoEffect DEF RollbackError, Log, Location
<1>10. ASSUME NEW w \in Worker, RestoreStatus(w)
       PROVE  PendingOnce'
  BY <1>10, PendingKept, ReturnEffect DEF RestoreStatus
<1>11. ASSUME NEW w \in Worker, MarkRefundFailed(w)
       PROVE  PendingOnce'
  BY <1>11, PendingKept, ReturnEffect DEF MarkRefundFailed, Log
<1>12. ASSUME NEW w \in Worker, QueryRefund(w)
       PROVE  PendingOnce'
  <2>1. /\ plan'[w].take = held.take /\ plan'[w].amount = amount
        /\ \A v \in Worker \ {w} : pc'[v] = pc[v] /\ plan'[v] = plan[v]
    BY <1>12 DEF QueryRefund, TypeOK, NoPlan
  <2>2. QED
    BY <1>12, <2>1 DEF QueryRefund, PendingOnce
<1>13. ASSUME NEW w \in Worker,
              FinalizeSuccess(w) \/ FinalizeFailed(w) \/ FinalizeUnreturned(w)
       PROVE  PendingOnce'
  <2>1. /\ audit \subseteq audit'
        /\ UNCHANGED <<amount, held>>
        /\ status' # status => status' # "REFUND_PENDING"
        /\ Return(w)
    BY <1>13 DEF FinalizeSuccess, FinalizeFailed, FinalizeUnreturned, SuccessStatus
  <2>2. QED
    BY <2>1, PendingKept, ReturnEffect
<1>14. ASSUME NEW w \in Worker, FinalizeReturnError(w)
       PROVE  PendingOnce'
  BY <1>14, PendingKept, GotoEffect DEF FinalizeReturnError, Location
<1>15. ASSUME NEW w \in Worker, Crash(w)
       PROVE  PendingOnce'
  BY <1>15, PendingKept, ReturnEffect DEF Crash
<1>16. CASE RequestRefund
  BY <1>16, PendingKept DEF RequestRefund
<1>17. CASE GatewaySettles \/ Spend \/ UNCHANGED vars
  BY <1>17, PendingKept DEF GatewaySettles, Spend, vars
<1>18. QED
  BY <1>1, <1>2, <1>3, <1>4, <1>5, <1>6, <1>7, <1>8, <1>9, <1>10, <1>11, <1>12, <1>13,
     <1>14, <1>15, <1>16, <1>17 DEF Next, Step

-----------------------------------------------------------------------------
(* What is taken is accounted for *)

(* A step that takes and marks nothing, and moves no attempt that holds the claim. *)
LEMMA DeductionsKept ==
    ASSUME DeductionsTracked, UNCHANGED <<taken, held>>,
           "REFUND_ROLLBACK_FAILED" \in audit' <=> "REFUND_ROLLBACK_FAILED" \in audit,
           status' \in Refundable => status \in Refundable,
           status' = "REFUND_PENDING" => status = "REFUND_PENDING",
           \A v \in Worker : pc'[v] \in Claimed => pc'[v] = pc[v] /\ plan'[v] = plan[v]
    PROVE  DeductionsTracked'
BY DEF DeductionsTracked, Accounted, Marked, Claimed

(* A step of the attempt w that holds the claim: only w and the order matter. *)
LEMMA DeductionsMoved ==
    ASSUME TypeOK, ClaimExcludes, NEW w \in Worker, pc[w] \in Claimed,
           \A v \in Worker \ {w} : pc'[v] = pc[v],
           taken' \in 0 .. Amount,
           status' \in Refundable => Accounted(0)',
           status' = "REFUND_PENDING" => Accounted(held.take)',
           pc'[w] \in {"deduct", "restore"} => Accounted(0)',
           pc'[w] \in {"gateway", "markOk", "markPending", "rollback"}
             => Accounted(plan[w].take)',
           pc'[w] = "markFailed" => Marked'
    PROVE  DeductionsTracked'
BY DEF DeductionsTracked, ClaimExcludes, Claimed

(* Every step keeps the account of the deductions, while the audit log works. *)
LEMMA DeductionsStep ==
    ~AuditFaults /\ TypeOK /\ ClaimExcludes /\ PendingOnce /\ DeductionsTracked
      /\ [Next]_vars => DeductionsTracked'
<1> SUFFICES ASSUME ~AuditFaults, TypeOK, ClaimExcludes, PendingOnce,
                    DeductionsTracked, [Next]_vars
             PROVE  DeductionsTracked'
  OBVIOUS
<1> USE DEF At
<1>1. ASSUME NEW w \in Worker, PrepareRefund(w)
      PROVE  DeductionsTracked'
  BY <1>1, DeductionsKept DEF PrepareRefund, TypeOK, Claimed
<1>2. ASSUME NEW w \in Worker, ClaimRefund(w)
      PROVE  DeductionsTracked'
  <2>1. CASE status \in Refundable /\ status' = "REFUNDING" /\ Goto(w, "deduct")
    <3>1. Accounted(0)' /\ taken' \in 0 .. Amount
      BY <1>2, <2>1 DEF ClaimRefund, DeductionsTracked, Accounted, Marked
    <3>2. \A v \in Worker \ {w} : pc'[v] = pc[v] /\ pc[v] \notin Claimed
      BY <2>1, GotoEffect DEF ClaimExcludes, Location, Refundable
    <3>3. pc'[w] = "deduct"
      BY <2>1, GotoEffect DEF Location
    <3>4. QED
      BY <2>1, <3>1, <3>2, <3>3 DEF DeductionsTracked, Claimed, Refundable
  <2>2. CASE status \notin Refundable /\ UNCHANGED status /\ Return(w)
    BY <1>2, <2>2, DeductionsKept, ReturnEffect DEF ClaimRefund, Claimed
  <2>3. QED
    BY <1>2, <2>1, <2>2 DEF ClaimRefund
<1>3. ASSUME NEW w \in Worker, DeductBalance(w)
      PROVE  DeductionsTracked'
  <2> PICK n \in 0 .. Amount :
         /\ plan' = [plan EXCEPT ![w].take = n]
         /\ taken' = taken + n
         /\ \/ MayDeduct(w)
            \/ MaySkip(w) /\ n = 0
    BY <1>3, DeductEffect
  <2>1. Accounted(0)
    BY <1>3 DEF DeductBalance, DeductionsTracked
  <2>2. CASE Marked
    <3>1. n = 0
      BY <2>2 DEF MayDeduct, AuditLogMissed, Marked
    <3>2. QED
      BY <1>3, <2>2, <3>1, TakeReplaced, DeductionsMoved
      DEF DeductBalance, TypeOK, Claimed, Accounted, Marked, DeductionsTracked,
          ClaimExcludes, Refundable
  <2>3. CASE ~Marked
    <3>1. taken' = n
      BY <2>1, <2>3 DEF Accounted, DeductionsTracked
    <3>2. QED
      BY <1>3, <2>3, <3>1, TakeReplaced, DeductionsMoved
      DEF DeductBalance, TypeOK, Claimed, Accounted, Marked, ClaimExcludes, Refundable
  <2>4. QED
    BY <2>2, <2>3
<1>4. ASSUME NEW w \in Worker, DeductError(w)
      PROVE  DeductionsTracked'
  BY <1>4, DeductionsMoved DEF DeductError, TypeOK, Claimed, ClaimExcludes, Refundable,
     DeductionsTracked, Accounted, Marked
<1>5. ASSUME NEW w \in Worker, GatewayRefund(w)
      PROVE  DeductionsTracked'
  <2>1. /\ pc'[w] \in {"markOk", "markPending", "rollback"}
        /\ \A v \in Worker \ {w} : pc'[v] = pc[v]
        /\ plan' = [plan EXCEPT ![w].request = Len(requests) + 1]
        /\ pc[w] = "gateway"
    BY <1>5 DEF GatewayRefund, TypeOK
  <2>2. plan'[w].take = plan[w].take
    BY <2>1, RequestReplaced, LenProperties DEF TypeOK
  <2>3. QED
    BY <1>5, <2>1, <2>2, DeductionsMoved DEF GatewayRefund, Claimed, ClaimExcludes, Refundable,
       DeductionsTracked, Accounted, Marked
<1>6. ASSUME NEW w \in Worker, MarkRefundOk(w)
      PROVE  DeductionsTracked'
  BY <1>6, DeductionsKept, ReturnEffect
  DEF MarkRefundOk, Log, SuccessStatus, Claimed, Refundable
<1>7. ASSUME NEW w \in Worker, MarkRefundPending(w)
      PROVE  DeductionsTracked'
  <2>1. CASE Insertable({"REFUND_PENDING"})
    <3>1. /\ held'.take = plan[w].take
          /\ status' = "REFUND_PENDING"
          /\ "REFUND_ROLLBACK_FAILED" \in audit' <=> "REFUND_ROLLBACK_FAILED" \in audit
      BY <1>7, <2>1 DEF MarkRefundPending
    <3>2. QED
      BY <1>7, <3>1, DeductionsMoved, ReturnEffect DEF MarkRefundPending, Claimed,
         Refundable, DeductionsTracked, Accounted, Marked
  <2>2. CASE ~Insertable({"REFUND_PENDING"})
    BY <1>7, <2>2, DeductionsKept, ReturnEffect DEF MarkRefundPending, Claimed
  <2>3. QED
    BY <2>1, <2>2
<1>8. ASSUME NEW w \in Worker, RollbackRefund(w)
      PROVE  DeductionsTracked'
  <2>1. /\ plan[w].take \in 0 .. Amount
        /\ taken' = taken - plan[w].take
        /\ taken \in 0 .. Amount
        /\ Accounted(plan[w].take)
    BY <1>8 DEF RollbackRefund, TypeOK, Plan, DeductionsTracked
  <2>2. Accounted(0)' /\ taken' \in 0 .. Amount
    <3>1. Marked' <=> Marked
      BY <1>8 DEF RollbackRefund, Marked
    <3>2. CASE Marked
      BY <2>1, <3>1, <3>2, RefundAssumption DEF Accounted
    <3>3. CASE ~Marked
      BY <2>1, <3>1, <3>3, RefundAssumption DEF Accounted
    <3>4. QED
      BY <3>2, <3>3
  <2>3. QED
    BY <1>8, <2>2, DeductionsMoved, GotoEffect
    DEF RollbackRefund, Claimed, ClaimExcludes, Refundable, Location
<1>9. ASSUME NEW w \in Worker, RollbackError(w)
      PROVE  DeductionsTracked'
  <2>1. Marked'
    BY <1>9 DEF RollbackError, Log, Marked
  <2>2. QED
    BY <1>9, <2>1, DeductionsMoved, GotoEffect
    DEF RollbackError, Claimed, ClaimExcludes, Refundable, Location, DeductionsTracked
<1>10. ASSUME NEW w \in Worker, RestoreStatus(w)
       PROVE  DeductionsTracked'
  BY <1>10, DeductionsMoved, ReturnEffect
  DEF RestoreStatus, Claimed, DeductionsTracked, Accounted, Marked
<1>11. ASSUME NEW w \in Worker, MarkRefundFailed(w)
       PROVE  DeductionsTracked'
  <2>1. Marked' /\ taken' \in 0 .. Amount
    BY <1>11 DEF MarkRefundFailed, Log, DeductionsTracked, Marked
  <2>2. QED
    BY <1>11, <2>1, DeductionsMoved, ReturnEffect DEF MarkRefundFailed, Claimed, Accounted
<1>12. ASSUME NEW w \in Worker, QueryRefund(w)
       PROVE  DeductionsTracked'
  BY <1>12, DeductionsKept DEF QueryRefund, TypeOK, Claimed
<1>13. ASSUME NEW w \in Worker, FinalizeSuccess(w)
       PROVE  DeductionsTracked'
  BY <1>13, DeductionsKept, ReturnEffect DEF FinalizeSuccess, SuccessStatus, Claimed, Refundable
<1>14. ASSUME NEW w \in Worker, FinalizeFailed(w)
       PROVE  DeductionsTracked'
  <2>1. CASE status = "REFUND_PENDING" /\ Insertable({"REFUND_FAILED"})
    <3>1. /\ plan[w].take = held.take
          /\ held.take \in 0 .. Amount
          /\ taken' = taken - plan[w].take
          /\ taken \in 0 .. Amount
          /\ Accounted(held.take)
      BY <1>14, <2>1 DEF FinalizeFailed, PendingOnce, Finalizing, DeductionsTracked, TypeOK
    <3>2. Marked' <=> Marked
      BY <1>14, <2>1 DEF FinalizeFailed, Marked
    <3>3. Accounted(0)' /\ taken' \in 0 .. Amount
      <4>1. CASE Marked
        BY <3>1, <3>2, <4>1, RefundAssumption DEF Accounted
      <4>2. CASE ~Marked
        BY <3>1, <3>2, <4>2, RefundAssumption DEF Accounted
      <4>3. QED
        BY <4>1, <4>2
    <3>4. \A v \in Worker : pc'[v] \notin Claimed
      BY <1>14, <2>1, ReturnEffect DEF FinalizeFailed, ClaimExcludes, Claimed
    <3>5. QED
      BY <1>14, <2>1, <3>3, <3>4 DEF FinalizeFailed, DeductionsTracked, Claimed
  <2>2. CASE ~(status = "REFUND_PENDING" /\ Insertable({"REFUND_FAILED"}))
    BY <1>14, <2>2, DeductionsKept, ReturnEffect DEF FinalizeFailed, Claimed
  <2>3. QED
    BY <2>1, <2>2
<1>15. ASSUME NEW w \in Worker, FinalizeReturnError(w)
       PROVE  DeductionsTracked'
  BY <1>15, DeductionsKept, GotoEffect DEF FinalizeReturnError, Claimed, Location
<1>16. ASSUME NEW w \in Worker, FinalizeUnreturned(w)
       PROVE  DeductionsTracked'
  <2>1. CASE /\ status = "REFUND_PENDING"
             /\ Insertable({"REFUND_ROLLBACK_FAILED", "REFUND_FAILED"})
    <3>1. Marked' /\ taken' = taken /\ status' = "REFUND_FAILED"
      BY <1>16, <2>1 DEF FinalizeUnreturned, Marked
    <3>2. \A v \in Worker : pc'[v] \notin Claimed
      BY <1>16, <2>1, ReturnEffect DEF FinalizeUnreturned, ClaimExcludes, Claimed
    <3>3. QED
      BY <3>1, <3>2 DEF DeductionsTracked, Accounted, Claimed
  <2>2. CASE ~(/\ status = "REFUND_PENDING"
               /\ Insertable({"REFUND_ROLLBACK_FAILED", "REFUND_FAILED"}))
    BY <1>16, <2>2, DeductionsKept, ReturnEffect DEF FinalizeUnreturned, Claimed
  <2>3. QED
    BY <2>1, <2>2
<1>17. ASSUME NEW w \in Worker, Crash(w)
       PROVE  DeductionsTracked'
  BY <1>17, DeductionsKept, ReturnEffect DEF Crash, Claimed
<1>18. CASE RequestRefund
  BY <1>18, DeductionsKept DEF RequestRefund, Refundable
<1>19. CASE GatewaySettles \/ Spend \/ UNCHANGED vars
  BY <1>19, DeductionsKept DEF GatewaySettles, Spend, vars
<1>20. QED
  BY <1>1, <1>2, <1>3, <1>4, <1>5, <1>6, <1>7, <1>8, <1>9, <1>10, <1>11, <1>12, <1>13,
     <1>14, <1>15, <1>16, <1>17, <1>18, <1>19 DEF Next, Step

-----------------------------------------------------------------------------
(* The requests at the gateway are accounted for *)

(* The statuses of a refund that has succeeded. *)
Ended == {"REFUNDED", "PARTIALLY_REFUNDED"}

(* A step that leaves the requests alone and moves no attempt that knows of one. *)
LEMMA RequestsKept ==
    ASSUME RequestsTracked, UNCHANGED <<requests, held>>,
           status' \in Refundable => status \in Refundable,
           status' \in Ended \cup {"REFUND_PENDING"} => UNCHANGED <<status, amount>>,
           \A v \in Worker : pc'[v] \in Claimed \cup Finalizing =>
             pc'[v] = pc[v] /\ plan'[v] = plan[v]
    PROVE  RequestsTracked'
BY DEF RequestsTracked, AllFailed, OnlyRequest, Claimed, Finalizing, Ended

(* A step of the attempt w that holds the claim: the queries of the outcome keep *)
(* what they have read, and otherwise only w and the order matter.               *)
LEMMA RequestsMoved ==
    ASSUME RequestsTracked, ClaimExcludes, NEW w \in Worker, pc[w] \in Claimed,
           \A v \in Worker \ {w} : pc'[v] = pc[v],
           pc'[w] \notin Finalizing,
           \A v \in Worker \ {w} : pc[v] \in Finalizing =>
             held' = held /\ held.request \in DOMAIN requests'
               /\ requests'[held.request] = requests[held.request],
           status' \in Refundable => AllFailed',
           status' = "REFUND_PENDING" => OnlyRequest(held.request, amount)',
           status' \in Ended =>
             \E k \in DOMAIN requests' :
               OnlyRequest(k, amount)' /\ requests'[k].state = "success",
           pc'[w] \in {"deduct", "gateway", "rollback", "restore", "markFailed"} => AllFailed',
           pc'[w] \in {"markOk", "markPending"}
             => OnlyRequest(plan[w].request, plan[w].amount)',
           pc'[w] = "markOk" => requests'[plan'[w].request].state = "success"
    PROVE  RequestsTracked'
BY DEF RequestsTracked, ClaimExcludes, Claimed, Finalizing, Ended

(* A request added to failed ones is the only one that may not have failed. *)
LEMMA RequestAdded ==
    ASSUME TypeOK, AllFailed,
           NEW r \in [amount : RefundAmounts, state : {"pending", "success", "failed"}],
           requests' = Append(requests, r)
    PROVE  /\ DOMAIN requests' = DOMAIN requests \cup {Len(requests) + 1}
           /\ \A i \in DOMAIN requests : requests'[i] = requests[i]
           /\ requests'[Len(requests) + 1] = r
           /\ r.state = "failed" => AllFailed'
           /\ \A i \in DOMAIN requests' \ {Len(requests) + 1} : requests'[i].state = "failed"
<1>1. requests \in Seq([amount : RefundAmounts, state : {"pending", "success", "failed"}])
  BY DEF TypeOK
<1>2. /\ DOMAIN requests' = DOMAIN requests \cup {Len(requests) + 1}
      /\ \A i \in DOMAIN requests : requests'[i] = requests[i]
      /\ requests'[Len(requests) + 1] = r
  BY <1>1, AppendProperties, LenProperties
<1>3. QED
  BY <1>2 DEF AllFailed

(* What the gateway settles was pending: what had ended stays as it was. *)
LEMMA SettlesEffect ==
    ASSUME TypeOK, GatewaySettles
    PROVE  /\ DOMAIN requests' = DOMAIN requests
           /\ \A j \in DOMAIN requests :
                /\ requests'[j].amount = requests[j].amount
                /\ requests[j].state # "pending" => requests'[j] = requests[j]
<1> PICK i \in DOMAIN requests, s \in {"success", "failed"} :
      /\ requests[i].state = "pending"
      /\ requests' = [requests EXCEPT ![i].state = s]
  BY DEF GatewaySettles
<1>1. requests \in Seq([amount : RefundAmounts, state : {"pending", "success", "failed"}])
  BY DEF TypeOK
<1>2. requests[i] \in [amount : RefundAmounts, state : {"pending", "success", "failed"}]
  BY <1>1, ElementOfSeq, LenProperties
<1>3. [requests[i] EXCEPT !.state = s].amount = requests[i].amount
  BY <1>2
<1>4. QED
  BY <1>1, <1>3

(* Every step keeps the account of the requests, while answers are unambiguous. *)
LEMMA RequestsStep ==
    ~AmbiguousErrors /\ TypeOK /\ ClaimExcludes /\ PendingOnce /\ RequestsTracked
      /\ [Next]_vars => RequestsTracked'
<1> SUFFICES ASSUME ~AmbiguousErrors, TypeOK, ClaimExcludes, PendingOnce,
                    RequestsTracked, [Next]_vars
             PROVE  RequestsTracked'
  OBVIOUS
<1> USE DEF At, Claimed, Finalizing, Ended
<1>1. ASSUME NEW w \in Worker, PrepareRefund(w)
      PROVE  RequestsTracked'
  BY <1>1, RequestsKept DEF PrepareRefund, TypeOK
<1>2. ASSUME NEW w \in Worker, ClaimRefund(w)
      PROVE  RequestsTracked'
  <2>1. CASE status \in Refundable /\ status' = "REFUNDING" /\ Goto(w, "deduct")
    <3>1. /\ \A v \in Worker \ {w} : pc'[v] = pc[v]
          /\ pc'[w] = "deduct"
          /\ plan' = plan
      BY <2>1, GotoEffect DEF Location
    <3>2. UNCHANGED <<requests, held>> /\ AllFailed /\ AllFailed'
      BY <1>2, <2>1 DEF ClaimRefund, RequestsTracked, AllFailed
    <3>3. QED
      BY <2>1, <3>1, <3>2 DEF RequestsTracked, OnlyRequest, Refundable
  <2>2. CASE status \notin Refundable /\ UNCHANGED status /\ Return(w)
    BY <1>2, <2>2, RequestsKept, ReturnEffect DEF ClaimRefund
  <2>3. QED
    BY <1>2, <2>1, <2>2 DEF ClaimRefund
<1>3. ASSUME NEW w \in Worker, DeductBalance(w) \/ DeductError(w)
      PROVE  RequestsTracked'
  <2>1. /\ pc[w] = "deduct" /\ pc'[w] \in {"gateway", "restore"}
        /\ \A v \in Worker \ {w} : pc'[v] = pc[v]
        /\ UNCHANGED <<status, amount, held, requests>>
    BY <1>3 DEF DeductBalance, DeductError, TypeOK
  <2>2. status = "REFUNDING" /\ AllFailed'
    BY <2>1 DEF ClaimExcludes, RequestsTracked, AllFailed
  <2>3. QED
    BY <2>1, <2>2, RequestsMoved DEF RequestsTracked, Refundable
<1>4. ASSUME NEW w \in Worker, GatewayRefund(w)
      PROVE  RequestsTracked'
  <2> PICK s \in {"success", "pending", "failed"}, l \in {"markOk", "markPending", "rollback"} :
        /\ requests' = Append(requests, [amount |-> plan[w].amount, state |-> s])
        /\ plan' = [plan EXCEPT ![w].request = Len(requests) + 1]
        /\ pc' = [pc EXCEPT ![w] = l]
        /\ l = "markOk" => s = "success"
        /\ l = "rollback" => s = "failed"
    BY <1>4 DEF GatewayRefund
  <2>1. /\ pc[w] = "gateway" /\ pc'[w] = l
        /\ \A v \in Worker \ {w} : pc'[v] = pc[v]
        /\ UNCHANGED <<status, amount, held>>
        /\ status = "REFUNDING"
        /\ AllFailed
    BY <1>4 DEF GatewayRefund, TypeOK, ClaimExcludes, RequestsTracked
  <2>2. [amount |-> plan[w].amount, state |-> s]
          \in [amount : RefundAmounts, state : {"pending", "success", "failed"}]
    BY DEF TypeOK, Plan
  <2>3. /\ DOMAIN requests' = DOMAIN requests \cup {Len(requests) + 1}
        /\ \A i \in DOMAIN requests : requests'[i] = requests[i]
        /\ requests'[Len(requests) + 1] = [amount |-> plan[w].amount, state |-> s]
        /\ s = "failed" => AllFailed'
        /\ \A i \in DOMAIN requests' \ {Len(requests) + 1} : requests'[i].state = "failed"
    BY <2>1, <2>2, RequestAdded
  <2>4. plan'[w].request = Len(requests) + 1 /\ plan'[w].amount = plan[w].amount
    BY RequestReplaced, LenProperties DEF TypeOK
  <2>5. OnlyRequest(plan[w].request, plan[w].amount)'
    BY <2>3, <2>4 DEF OnlyRequest
  <2>6. \A v \in Worker \ {w} : pc[v] \in Finalizing =>
             held' = held /\ held.request \in DOMAIN requests'
               /\ requests'[held.request] = requests[held.request]
    BY <2>1, <2>3 DEF RequestsTracked
  <2>7. l = "markOk" => requests'[plan'[w].request].state = "success"
    BY <2>3, <2>4
  <2>8. QED
    BY <2>1, <2>3, <2>5, <2>6, <2>7, RequestsMoved DEF Refundable
<1>5. ASSUME NEW w \in Worker, MarkRefundOk(w)
      PROVE  RequestsTracked'
  <2>1. /\ pc[w] = "markOk"
        /\ status' \in Ended
        /\ amount' = plan[w].amount
        /\ UNCHANGED <<requests, held>>
    BY <1>5 DEF MarkRefundOk, SuccessStatus
  <2>2. \E k \in DOMAIN requests' :
               OnlyRequest(k, amount)' /\ requests'[k].state = "success"
    BY <2>1 DEF RequestsTracked, OnlyRequest
  <2>3. QED
    BY <1>5, <2>1, <2>2, RequestsMoved, ReturnEffect DEF MarkRefundOk, RequestsTracked, Refundable
<1>6. ASSUME NEW w \in Worker, MarkRefundPending(w)
      PROVE  RequestsTracked'
  <2>1. CASE Insertable({"REFUND_PENDING"})
    <3>1. /\ pc[w] = "markPending"
          /\ status' = "REFUND_PENDING"
          /\ amount' = plan[w].amount
          /\ held'.request = plan[w].request
          /\ UNCHANGED requests
      BY <1>6, <2>1 DEF MarkRefundPending
    <3>2. OnlyRequest(held.request, amount)'
      BY <3>1 DEF RequestsTracked, OnlyRequest
    <3>3. \A v \in Worker : pc[v] \notin Finalizing
      BY <2>1 DEF PendingOnce, Insertable
    <3>4. QED
      BY <1>6, <3>1, <3>2, <3>3, RequestsMoved, ReturnEffect DEF MarkRefundPending, Refundable
  <2>2. CASE ~Insertable({"REFUND_PENDING"})
    BY <1>6, <2>2, RequestsKept, ReturnEffect DEF MarkRefundPending
  <2>3. QED
    BY <2>1, <2>2
<1>7. ASSUME NEW w \in Worker, RollbackRefund(w) \/ RollbackError(w)
      PROVE  RequestsTracked'
  <2>1. /\ pc[w] = "rollback" /\ pc'[w] \in {"restore", "markFailed"}
        /\ \A v \in Worker \ {w} : pc'[v] = pc[v]
        /\ UNCHANGED <<status, amount, held, requests>>
    BY <1>7, GotoEffect DEF RollbackRefund, RollbackError, Location
  <2>2. status = "REFUNDING" /\ AllFailed'
    BY <2>1 DEF ClaimExcludes, RequestsTracked, AllFailed
  <2>3. QED
    BY <2>1, <2>2, RequestsMoved DEF RequestsTracked, Refundable
<1>8. ASSUME NEW w \in Worker, RestoreStatus(w) \/ MarkRefundFailed(w)
      PROVE  RequestsTracked'
  <2>1. /\ pc[w] \in {"restore", "markFailed"}
        /\ status' \in Refundable
        /\ UNCHANGED <<held, requests>>
        /\ Return(w)
    BY <1>8 DEF RestoreStatus, MarkRefundFailed, Refundable
  <2>2. AllFailed'
    BY <2>1 DEF RequestsTracked, AllFailed
  <2>3. QED
    BY <2>1, <2>2, RequestsMoved, ReturnEffect DEF RequestsTracked, Refundable
<1>9. ASSUME NEW w \in Worker, QueryRefund(w)
      PROVE  RequestsTracked'
  <2>1. /\ status = "REFUND_PENDING"
        /\ UNCHANGED <<status, amount, held, requests>>
        /\ \A v \in Worker \ {w} : pc'[v] = pc[v] /\ plan'[v] = plan[v]
        /\ requests[held.request].state # "pending"
        /\ pc'[w] = IF requests[held.request].state = "success"
                    THEN "finalizeOk" ELSE "finalizeFailed"
    BY <1>9 DEF QueryRefund, TypeOK
  <2>2. held.request \in DOMAIN requests
    BY <2>1 DEF RequestsTracked, OnlyRequest
  <2>3. requests[held.request].state \in {"pending", "success", "failed"}
    <3> DEFINE R == [amount : RefundAmounts, state : {"pending", "success", "failed"}]
    <3>1. requests \in Seq(R)
      BY DEF TypeOK
    <3>2. held.request \in 1 .. Len(requests)
      BY <2>2, <3>1, LenProperties
    <3>3. requests[held.request] \in R
      BY <3>1, <3>2, ElementOfSeq
    <3>4. QED
      BY <3>3
  <2>4. QED
    BY <2>1, <2>2, <2>3 DEF RequestsTracked, AllFailed, OnlyRequest
<1>10. ASSUME NEW w \in Worker, FinalizeSuccess(w)
       PROVE  RequestsTracked'
  <2>1. CASE status = "REFUND_PENDING" /\ Insertable({"REFUND_SUCCESS"})
    <3>1. /\ status' \in Ended
          /\ UNCHANGED <<amount, requests, held>>
      BY <1>10, <2>1 DEF FinalizeSuccess, SuccessStatus
    <3>2. \E k \in DOMAIN requests' :
               OnlyRequest(k, amount)' /\ requests'[k].state = "success"
      BY <1>10, <2>1, <3>1 DEF FinalizeSuccess, RequestsTracked, OnlyRequest
    <3>3. \A v \in Worker : pc'[v] # "idle" => pc'[v] = pc[v] /\ plan'[v] = plan[v]
      BY <1>10, ReturnEffect DEF FinalizeSuccess
    <3>4. QED
      BY <3>1, <3>2, <3>3 DEF RequestsTracked, AllFailed, OnlyRequest, Refundable
  <2>2. CASE ~(status = "REFUND_PENDING" /\ Insertable({"REFUND_SUCCESS"}))
    BY <1>10, <2>2, RequestsKept, ReturnEffect DEF FinalizeSuccess
  <2>3. QED
    BY <2>1, <2>2
<1>11. ASSUME NEW w \in Worker, FinalizeFailed(w) \/ FinalizeUnreturned(w)
       PROVE  RequestsTracked'
  <2>1. /\ pc[w] \in {"finalizeFailed", "finalizeUnreturned"}
        /\ Return(w)
        /\ UNCHANGED <<amount, held, requests>>
        /\ status' # status => status = "REFUND_PENDING" /\ status' = "REFUND_FAILED"
    BY <1>11 DEF FinalizeFailed, FinalizeUnreturned
  <2>2. CASE status' = status
    BY <2>1, <2>2, RequestsKept, ReturnEffect
  <2>3. CASE status = "REFUND_PENDING" /\ status' = "REFUND_FAILED"
    <3>1. AllFailed'
      BY <2>1, <2>3 DEF RequestsTracked, OnlyRequest, AllFailed
    <3>2. \A v \in Worker : pc'[v] # "idle" => pc'[v] = pc[v] /\ plan'[v] = plan[v]
      BY <2>1, ReturnEffect
    <3>3. QED
      BY <2>1, <2>3, <3>1, <3>2 DEF RequestsTracked, AllFailed, OnlyRequest
  <2>4. QED
    BY <2>1, <2>2, <2>3
<1>12. ASSUME NEW w \in Worker, FinalizeReturnError(w)
       PROVE  RequestsTracked'
  <2>1. /\ pc[w] = "finalizeFailed" /\ pc'[w] = "finalizeUnreturned"
        /\ \A v \in Worker \ {w} : pc'[v] = pc[v]
        /\ UNCHANGED <<status, amount, held, requests, plan>>
    BY <1>12, GotoEffect DEF FinalizeReturnError, Location
  <2>2. QED
    BY <2>1 DEF RequestsTracked, AllFailed, OnlyRequest
<1>13. ASSUME NEW w \in Worker, Crash(w)
       PROVE  RequestsTracked'
  BY <1>13, RequestsKept, ReturnEffect DEF Crash
<1>14. CASE RequestRefund
  BY <1>14, RequestsKept DEF RequestRefund, Refundable
<1>15. CASE GatewaySettles
  <2>1. /\ DOMAIN requests' = DOMAIN requests
        /\ \A j \in DOMAIN requests :
             /\ requests'[j].amount = requests[j].amount
             /\ requests[j].state # "pending" => requests'[j] = requests[j]
    BY <1>15, SettlesEffect
  <2>2. UNCHANGED <<status, amount, held, pc, plan>>
    BY <1>15 DEF GatewaySettles
  <2>3. AllFailed => AllFailed'
    BY <2>1 DEF AllFailed
  <2>4. \A k, n : OnlyRequest(k, n) =>
          /\ k \in DOMAIN requests'
          /\ requests'[k].amount = n
          /\ \A i \in DOMAIN requests' \ {k} : requests'[i].state = "failed"
    BY <2>1 DEF OnlyRequest
  <2>5. \A k \in DOMAIN requests :
          /\ requests[k].state = "success" => requests'[k].state = "success"
          /\ requests[k].state = "failed" => requests'[k].state = "failed"
    BY <2>1
  <2>6. QED
    BY <2>1, <2>2, <2>3, <2>4, <2>5 DEF RequestsTracked, OnlyRequest
<1>16. CASE Spend \/ UNCHANGED vars
  BY <1>16, RequestsKept DEF Spend, vars
<1>17. QED
  BY <1>1, <1>2, <1>3, <1>4, <1>5, <1>6, <1>7, <1>8, <1>9, <1>10, <1>11, <1>12, <1>13,
     <1>14, <1>15, <1>16 DEF Next, Step

-----------------------------------------------------------------------------
(* Sums *)

(* A set of numbers that are bounded has a least one. *)
LEMMA LeastOf ==
    ASSUME NEW n \in Nat, NEW T \in SUBSET (0 .. n), T # {}
    PROVE  \E x \in T : \A y \in T : x <= y
<1> DEFINE S == 0 .. n
           F == {0 .. x : x \in T}
<1>1. IsFiniteSet(S)
  BY FS_Interval
<1>2. F \in SUBSET (SUBSET S) /\ F # {}
  <2>1. \A x \in T : 0 .. x \subseteq S
    OBVIOUS
  <2> HIDE DEF S
  <2>2. QED
    BY <2>1
<1>3. F \subseteq FiniteSubsetsOf(S)
  BY <1>1, <1>2, FS_FiniteSubsetsOfFinite
<1> HIDE DEF F, S
<1>4. PICK X \in F : \A Y \in F : <<Y, X>> \notin StrictSubsetOrdering(S)
  BY <1>2, <1>3, FS_StrictSubsetOrderingWellFounded, WFMin
<1>5. PICK x \in T : X = 0 .. x
  BY <1>4 DEF F
<1>6. ASSUME NEW y \in T, y < x
      PROVE  FALSE
  <2>1. 0 .. y \in F
    BY DEF F
  <2>2. <<0 .. y, X>> \in (SUBSET S) \X (SUBSET S)
    BY <1>2, <1>4, <2>1
  <2>3. 0 .. y \subseteq X /\ 0 .. y # X
    <3>1. x \in X /\ x \notin 0 .. y
      BY <1>5, <1>6 DEF S
    <3>2. 0 .. y \subseteq X
      BY <1>5, <1>6 DEF S
    <3>3. QED
      BY <3>1, <3>2
  <2>4. QED
    BY <1>4, <2>1, <2>2, <2>3 DEF StrictSubsetOrdering
<1>7. QED
  BY <1>6 DEF S

(* f[i] is the sum of the first i terms, for all i up to n. *)
IsSum(f, term, n) == \A i \in 0 .. n : f[i] = IF i = 0 THEN 0 ELSE f[i - 1] + term[i]

(* All terms up to the n-th are 0, except the k-th. *)
OneTerm(term, k, v, n) == \A i \in 1 .. n : term[i] = IF i = k THEN v ELSE 0

(* There is only one sum of the same terms. *)
LEMMA SumIsUnique ==
    ASSUME NEW n \in Nat, NEW term, NEW f, NEW g, IsSum(f, term, n), IsSum(g, term, n)
    PROVE  f[n] = g[n]
<1> DEFINE T == {i \in 0 .. n : f[i] # g[i]}
<1> SUFFICES ASSUME T # {}
             PROVE  FALSE
  OBVIOUS
<1>1. T \in SUBSET (0 .. n)
  OBVIOUS
<1>2. PICK x \in T : \A y \in T : x <= y
  BY <1>1, LeastOf
<1>3. x # 0 /\ x - 1 \in 0 .. n /\ x - 1 \notin T
  BY <1>2 DEF IsSum
<1>4. QED
  BY <1>2, <1>3 DEF IsSum

(* The sum of one term that is not 0. *)
LEMMA SumOfOne ==
    ASSUME NEW n \in Nat, NEW term, NEW f, NEW k \in Nat \ {0}, NEW v \in Nat,
           OneTerm(term, k, v, n), IsSum(f, term, n)
    PROVE  f[n] = IF n < k THEN 0 ELSE v
<1> DEFINE g == [i \in 0 .. n |-> IF i < k THEN 0 ELSE v]
<1>1. IsSum(g, term, n)
  BY DEF IsSum, OneTerm
<1>2. g[n] = IF n < k THEN 0 ELSE v
  OBVIOUS
<1> HIDE DEF g
<1>3. f[n] = g[n]
  BY <1>1, SumIsUnique
<1>4. QED
  BY <1>2, <1>3

(* Of the requests in these states only the k-th counts, and it is about n. *)
OneCounts(states, k, n) ==
    \A i \in DOMAIN requests :
      (IF requests[i].state \in states THEN requests[i].amount ELSE 0)
        = IF i = k THEN n ELSE 0

(* So it is with the requests, when at most the k-th counts. *)
LEMMA TotalOfOne ==
    ASSUME TypeOK, NEW states, NEW k \in Nat \ {0}, NEW n \in Nat,
           OneCounts(states, k, n)
    PROVE  Total(states) = IF Len(requests) < k THEN 0 ELSE n
<1>1. Len(requests) \in Nat /\ DOMAIN requests = 1 .. Len(requests)
  BY LenProperties DEF TypeOK
<1> DEFINE g == [i \in 0 .. Len(requests) |-> IF i < k THEN 0 ELSE n]
<1>2. g = [i \in 0 .. Len(requests) |-> IF i = 0 THEN 0
            ELSE g[i - 1] + IF requests[i].state \in states THEN requests[i].amount ELSE 0]
  BY <1>1 DEF OneCounts
<1>3. PICK f :
        /\ f = [i \in 0 .. Len(requests) |-> IF i = 0 THEN 0
             ELSE f[i - 1] + IF requests[i].state \in states THEN requests[i].amount ELSE 0]
        /\ Total(states) = f[Len(requests)]
  <2> HIDE DEF g
  <2> DEFINE f == CHOOSE f : f = [i \in 0 .. Len(requests) |-> IF i = 0 THEN 0
            ELSE f[i - 1] + IF requests[i].state \in states THEN requests[i].amount ELSE 0]
  <2>1. f = [i \in 0 .. Len(requests) |-> IF i = 0 THEN 0
            ELSE f[i - 1] + IF requests[i].state \in states THEN requests[i].amount ELSE 0]
    BY <1>2, Zenon
  <2>2. Total(states) = f[Len(requests)]
    BY Zenon DEF Total
  <2>3. QED
    BY <2>1, <2>2, Zenon
<1> HIDE DEF g
<1> DEFINE term == [i \in 1 .. Len(requests) |->
                      IF requests[i].state \in states THEN requests[i].amount ELSE 0]
<1>4. OneTerm(term, k, n, Len(requests))
  BY <1>1 DEF OneTerm, OneCounts
<1>5. IsSum(f, term, Len(requests))
  <2>1. ASSUME NEW i \in 0 .. Len(requests)
        PROVE  f[i] = IF i = 0 THEN 0
             ELSE f[i - 1] + IF requests[i].state \in states THEN requests[i].amount ELSE 0
    BY <1>3
  <2>2. ASSUME NEW i \in 0 .. Len(requests), i # 0
        PROVE  term[i] = IF requests[i].state \in states THEN requests[i].amount ELSE 0
    <3>1. i \in 1 .. Len(requests)
      <4> HIDE DEF term
      <4>1. QED
        BY <1>1, <2>2
    <3>2. QED
      BY <3>1
  <2> HIDE DEF term
  <2>3. QED
    BY <2>1, <2>2 DEF IsSum
<1> HIDE DEF term
<1>6. f[Len(requests)] = IF Len(requests) < k THEN 0 ELSE n
  BY <1>1, <1>4, <1>5, SumOfOne
<1>7. QED
  BY <1>3, <1>6

(* Nothing is outstanding when all requests have failed. *)
LEMMA NothingOutstanding ==
    ASSUME TypeOK, AllFailed
    PROVE  Outstanding = 0
<1>1. Len(requests) \in Nat /\ DOMAIN requests = 1 .. Len(requests)
  BY LenProperties DEF TypeOK
<1>2. OneCounts({"pending", "success"}, Len(requests) + 1, 0)
  BY <1>1 DEF AllFailed, OneCounts
<1>3. Total({"pending", "success"}) = IF Len(requests) < Len(requests) + 1 THEN 0 ELSE 0
  BY <1>1, <1>2, TotalOfOne
<1>4. QED
  BY <1>3 DEF Outstanding

(* When one request has succeeded and the others have failed, its amount is *)
(* what has been returned.                                                  *)
LEMMA OneReturned ==
    ASSUME TypeOK, NEW k, NEW n, OnlyRequest(k, n), requests[k].state = "success"
    PROVE  Returned = n
<1>1. /\ Len(requests) \in Nat /\ DOMAIN requests = 1 .. Len(requests)
      /\ k \in 1 .. Len(requests)
  BY LenProperties DEF TypeOK, OnlyRequest
<1>2. n \in Nat
  <2>1. requests[k] \in [amount : RefundAmounts, state : {"pending", "success", "failed"}]
    BY <1>1, ElementOfSeq DEF TypeOK
  <2>2. QED
    BY <2>1, RefundAssumption DEF OnlyRequest, RefundAmounts
<1>3. OneCounts({"success"}, k, n)
  BY DEF OnlyRequest, OneCounts
<1>4. Total({"success"}) = IF Len(requests) < k THEN 0 ELSE n
  BY <1>1, <1>2, <1>3, TotalOfOne
<1>5. QED
  BY <1>1, <1>4 DEF Returned

-----------------------------------------------------------------------------
(* The theorems *)

(* The invariant holds at the start. *)
LEMMA InvariantInit == Init => IInv
<1> SUFFICES ASSUME Init
             PROVE  IInv
  OBVIOUS
<1>1. TypeOK
  BY TypeInit
<1>2. ClaimExcludes /\ PendingOnce
  BY DEF Init, ClaimExcludes, PendingOnce, Claimed, Finalizing
<1>3. DeductionsTracked
  BY RefundAssumption DEF Init, DeductionsTracked, Accounted, Marked
<1>4. requests = <<>> /\ DOMAIN requests = {}
  BY DEF Init
<1>5. RequestsTracked
  BY <1>4 DEF Init, RequestsTracked, AllFailed, OnlyRequest, Finalizing
<1>6. QED
  BY <1>1, <1>2, <1>3, <1>5 DEF IInv, RefundInvariant

(* The invariant is inductive. *)
LEMMA InvariantStep == IInv /\ [Next]_vars => IInv'
<1> SUFFICES ASSUME IInv, [Next]_vars
             PROVE  IInv'
  OBVIOUS
<1>1. TypeOK' /\ ClaimExcludes' /\ PendingOnce'
  BY TypeStep, ClaimStep, PendingStep DEF IInv, RefundInvariant
<1>2. ~AuditFaults => DeductionsTracked'
  BY DeductionsStep DEF IInv, RefundInvariant
<1>3. ~AmbiguousErrors => RequestsTracked'
  BY RequestsStep DEF IInv, RefundInvariant
<1>4. QED
  BY <1>1, <1>2, <1>3 DEF IInv, RefundInvariant

(* So it holds always. *)
LEMMA Invariance == Spec => []IInv
<1>1. Init => IInv
  BY InvariantInit
<1>2. IInv /\ [Next]_vars => IInv'
  BY InvariantStep
<1>3. QED
  BY <1>1, <1>2, PTL DEF Spec

(* Every variable keeps its type. *)
THEOREM TypeCorrect == Spec => []TypeOK
<1>1. IInv => TypeOK
  BY DEF IInv
<1>2. QED
  BY <1>1, Invariance, PTL

(* The claim of a refund excludes other attempts until it ends, an order is left *)
(* pending once, and deductions and gateway requests are accounted for at every  *)
(* step in between.                                                              *)
THEOREM RefundIsSound == Spec => []RefundInvariant
<1>1. IInv => RefundInvariant
  BY DEF IInv
<1>2. QED
  BY <1>1, Invariance, PTL

(* However often a refund is attempted, fails, cannot be rolled back and is *)
(* repeated, by however many admins and with however many crashes, it never *)
(* takes more from the customer than the order credited, as long as the     *)
(* audit log is read and written.                                           *)
THEOREM NeverDeductedTwice ==
    ASSUME ~AuditFaults
    PROVE  Spec => []DeductedAtMostOnce
<1>1. IInv => DeductedAtMostOnce
  BY DEF IInv, RefundInvariant, DeductionsTracked, DeductedAtMostOnce
<1>2. QED
  BY <1>1, Invariance, PTL

(* An order that may be refunded again holds no deduction that the next *)
(* attempt does not know of.                                            *)
THEOREM NoDeductionLost ==
    ASSUME ~AuditFaults
    PROVE  Spec => []DeductionAccounted
<1>1. IInv => DeductionAccounted
  BY DEF IInv, RefundInvariant, DeductionsTracked, DeductionAccounted, Accounted, Marked
<1>2. QED
  BY <1>1, Invariance, PTL

(* An order that may be refunded again has nothing under way at the gateway, and *)
(* a refunded order says what the gateway returned, as long as a call that       *)
(* reports an error has not succeeded.                                           *)
THEOREM OrderMatchesGateway ==
    ASSUME ~AmbiguousErrors
    PROVE  Spec => []GatewayMatchesOrder
<1>1. IInv => GatewayMatchesOrder
  <2> SUFFICES ASSUME IInv
               PROVE  GatewayMatchesOrder
    OBVIOUS
  <2>1. TypeOK /\ RequestsTracked
    BY DEF IInv, RefundInvariant
  <2>2. status \in Refundable => Outstanding = 0
    BY <2>1, NothingOutstanding DEF RequestsTracked
  <2>3. status \in {"REFUNDED", "PARTIALLY_REFUNDED"} => Returned = amount
    BY <2>1, OneReturned DEF RequestsTracked
  <2>4. QED
    BY <2>2, <2>3 DEF GatewayMatchesOrder
<1>2. QED
  BY <1>1, Invariance, PTL

(* What a refund takes is there: the deduction that a plan made from an older *)
(* balance asks for is cut down to the balance at that moment.                *)
THEOREM NeverOverdraws == Spec => RefundNeverOverdraws
<1>1. TypeOK /\ [Next]_vars => [taken' > taken => balance' >= 0]_vars
  <2> SUFFICES ASSUME TypeOK, Next, taken' > taken
               PROVE  balance' >= 0
    BY Zenon
  <2>1. taken \in Int
    BY DEF TypeOK
  <2>2. ASSUME taken' = taken
        PROVE  FALSE
    BY <2>1, <2>2
  <2>3. ASSUME NEW w \in Worker, DeductBalance(w)
        PROVE  balance' >= 0
    <3> PICK n \in 0 .. Amount :
           /\ taken' = taken + n
           /\ n > 0 => balance' >= 0
      BY <2>3, DeductEffect
    <3>1. QED
      BY <2>1
  <2>4. ASSUME NEW w \in Worker, RollbackRefund(w) \/ FinalizeFailed(w)
        PROVE  FALSE
    <3>1. plan[w].take \in 0 .. Amount
      BY DEF TypeOK, Plan
    <3>2. taken' = taken \/ taken' = taken - plan[w].take
      BY <2>4 DEF RollbackRefund, FinalizeFailed
    <3>3. QED
      BY <2>1, <3>1, <3>2
  <2>5. QED
    BY <2>2, <2>3, <2>4 DEF Next, Step, PrepareRefund, QueryRefund, ClaimRefund, DeductError,
       GatewayRefund, MarkRefundOk, MarkRefundPending, RollbackError, RestoreStatus,
       MarkRefundFailed, FinalizeSuccess, FinalizeReturnError, FinalizeUnreturned, Crash,
       RequestRefund, GatewaySettles, Spend
<1>2. QED
  BY <1>1, TypeCorrect, PTL DEF Spec, RefundNeverOverdraws
=============================================================================
