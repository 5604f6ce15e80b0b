-------------------------- MODULE PaymentOrderProofs --------------------------
(* What PaymentOrder guarantees for any number of orders and workers.       *)
EXTENDS PaymentOrder, TLAPS

USE DEF OrderType

------------------------------------------------------------------------------
(* What the helpers of the actions do.                                      *)

\* A written row is the given one, no longer old and with no holder of its version;
\* the other rows are not touched.
LEMMA WriteEffect ==
    ASSUME row \in [Order -> Row], NEW o \in Order, NEW r \in Row, Write(o, r)
    PROVE  /\ row' \in [Order -> Row]
           /\ row'[o].status = r.status
           /\ row'[o].paidAt = r.paidAt
           /\ row'[o].type = r.type
           /\ row'[o].due = r.due
           /\ \A p \in Order \ {o} : row'[p] = row[p]
BY DEF Write, Row

\* Setting a status keeps paid_at and the other rows.
LEMMA SetStatusEffect ==
    ASSUME row \in [Order -> Row], NEW o \in Order, NEW s \in Status, SetStatus(o, s)
    PROVE  /\ row' \in [Order -> Row]
           /\ row'[o].status = s
           /\ row'[o].paidAt = row[o].paidAt
           /\ row'[o].type = row[o].type
           /\ \A p \in Order \ {o} : row'[p] = row[p]
<1>1. [row[o] EXCEPT !.status = s] \in Row
  BY DEF Row
<1>2. Write(o, [row[o] EXCEPT !.status = s])
  BY DEF SetStatus
<1>3. /\ [row[o] EXCEPT !.status = s].status = s
      /\ [row[o] EXCEPT !.status = s].paidAt = row[o].paidAt
      /\ [row[o] EXCEPT !.status = s].type = row[o].type
  BY DEF Row
<1>4. QED
  BY <1>1, <1>2, <1>3, WriteEffect

\* A worker that moves keeps its call and its order.
LEMMA GotoEffect ==
    ASSUME TypeOK, NEW w \in Worker, NEW l \in Location, Goto(w, l)
    PROVE  /\ pc' \in [Worker -> Location]
           /\ pc'[w] = l
           /\ \A v \in Worker \ {w} : pc'[v] = pc[v]
           /\ call' = call /\ job' = job /\ acked' = acked
BY DEF Goto, TypeOK

\* A call that starts takes an idle worker.
LEMMA BeginEffect ==
    ASSUME TypeOK, NEW w \in Worker, NEW c \in Call, NEW o \in Order \union {NoOrder},
           NEW l \in Location, Begin(w, c, o, l)
    PROVE  /\ pc' \in [Worker -> Location]
           /\ call' \in [Worker -> Call]
           /\ job' \in [Worker -> Order \union {NoOrder}]
           /\ pc[w] = "idle"
           /\ pc'[w] = l /\ call'[w] = c /\ job'[w] = o
           /\ \A v \in Worker \ {w} : pc'[v] = pc[v] /\ call'[v] = call[v] /\ job'[v] = job[v]
           /\ acked' = acked
BY DEF Begin, At, TypeOK

\* A call that ends, with or without an error, leaves its worker idle.
LEMMA EndEffect ==
    ASSUME TypeOK, NEW w \in Worker, Return(w) \/ ReturnError(w)
    PROVE  /\ pc' \in [Worker -> Location]
           /\ call' \in [Worker -> Call]
           /\ job' \in [Worker -> Order \union {NoOrder}]
           /\ pc'[w] = "idle"
           /\ \A v \in Worker \ {w} : pc'[v] = pc[v] /\ call'[v] = call[v] /\ job'[v] = job[v]
           /\ acked' \in [Order -> BOOLEAN]
<1>1. /\ pc \in [Worker -> Location] /\ call \in [Worker -> Call]
      /\ job \in [Worker -> Order \union {NoOrder}] /\ acked \in [Order -> BOOLEAN]
  BY DEF TypeOK
<1>2. QED
  BY <1>1 DEF Return, ReturnError, Idle, Call, Location, Delivering

\* A fault is one of the bounded number.
LEMMA FaultEffect ==
    ASSUME TypeOK, Fault
    PROVE  faults' \in 0 .. MaxFaults
BY OrderAssumption DEF Fault, TypeOK

------------------------------------------------------------------------------
(* Type correctness.  A worker that is neither idle nor inserting has an order; *)
(* the status that cancelCore writes is the one its caller asked for.           *)

WorkersTyped ==
    /\ pc \in [Worker -> Location]
    /\ call \in [Worker -> Call]
    /\ job \in [Worker -> Order \union {NoOrder}]
    /\ \A w \in Worker : pc[w] \notin {"idle", "insert"} => job[w] \in Order
    /\ acked \in [Order -> BOOLEAN]
    /\ CallsKeepPurpose

TypeInvariant == TypeOK /\ CallsKeepPurpose

\* A move inside a call keeps the workers typed.
LEMMA GotoTyped ==
    ASSUME TypeInvariant, NEW w \in Worker, NEW l \in Location \ {"query"}, Goto(w, l),
           pc[w] \notin {"idle", "insert"},
           l \in {"cancelUpstream", "cancel"} => call[w] \in {"CANCELLED", "EXPIRED"}
    PROVE  WorkersTyped'
<1>1. /\ pc' \in [Worker -> Location] /\ pc'[w] = l
      /\ \A v \in Worker \ {w} : pc'[v] = pc[v]
      /\ call' = call /\ job' = job /\ acked' = acked
  BY GotoEffect DEF TypeInvariant
<1>2. QED
  BY <1>1 DEF TypeInvariant, TypeOK, WorkersTyped, CallsKeepPurpose

\* A call that starts on an order, or before it has one, keeps the workers typed.
LEMMA BeginTyped ==
    ASSUME TypeInvariant, NEW w \in Worker, NEW c \in Call, NEW o \in Order \union {NoOrder},
           NEW l \in Location \ {"cancelUpstream", "cancel"}, Begin(w, c, o, l),
           o \in Order \/ l = "insert",
           l = "query" => c \in {"CANCELLED", "EXPIRED", "verify"}
    PROVE  WorkersTyped'
<1>1. /\ pc' \in [Worker -> Location] /\ call' \in [Worker -> Call]
      /\ job' \in [Worker -> Order \union {NoOrder}]
      /\ pc'[w] = l /\ call'[w] = c /\ job'[w] = o
      /\ \A v \in Worker \ {w} : pc'[v] = pc[v] /\ call'[v] = call[v] /\ job'[v] = job[v]
      /\ acked' = acked
  BY BeginEffect DEF TypeInvariant
<1>2. QED
  BY <1>1 DEF TypeInvariant, TypeOK, WorkersTyped, CallsKeepPurpose

\* A call that ends keeps the workers typed.
LEMMA EndTyped ==
    ASSUME TypeInvariant, NEW w \in Worker, Return(w) \/ ReturnError(w)
    PROVE  WorkersTyped'
<1>1. /\ pc' \in [Worker -> Location] /\ call' \in [Worker -> Call]
      /\ job' \in [Worker -> Order \union {NoOrder}]
      /\ pc'[w] = "idle"
      /\ \A v \in Worker \ {w} : pc'[v] = pc[v] /\ call'[v] = call[v] /\ job'[v] = job[v]
      /\ acked' \in [Order -> BOOLEAN]
  BY EndEffect DEF TypeInvariant
<1>2. QED
  BY <1>1 DEF TypeInvariant, TypeOK, WorkersTyped, CallsKeepPurpose

\* A worker inside a call has an order, whose row is typed.
LEMMA JobTyped ==
    ASSUME TypeInvariant, NEW w \in Worker, pc[w] \notin {"idle", "insert"}
    PROVE  job[w] \in Order /\ row[job[w]] \in Row
BY DEF TypeInvariant, TypeOK

\* The empty tables and the idle workers are well typed.
LEMMA TypeInit == Init => TypeInvariant
BY OrderAssumption
   DEF Init, TypeInvariant, TypeOK, CallsKeepPurpose, Row, AbsentRow, Status, AuditAction, Call,
       Location, Delivering

\* The statements of CreateOrder keep every variable in its type.
LEMMA TypeCreate ==
    ASSUME TypeInvariant, NEW w \in Worker,
           CheckPendingLimit(w) \/ (\E o \in Order : InsertOrder(w, o)) \/ CreatePayment(w)
             \/ RecordPayment(w) \/ CreateFailed(w)
    PROVE  TypeInvariant'
<1> USE DEF TypeInvariant, At
<1>1. CASE CheckPendingLimit(w)
  <2>1. /\ Begin(w, "create", NoOrder, "insert")
        /\ UNCHANGED <<row, audit, code, delivered, rebates, upstream, faults>>
    BY <1>1 DEF CheckPendingLimit
  <2>2. "create" \in Call /\ "insert" \in Location
    BY DEF Call, Location
  <2>3. WorkersTyped'
    BY <2>1, <2>2, BeginTyped
  <2>4. QED
    BY <2>1, <2>3 DEF TypeOK, WorkersTyped
<1>2. ASSUME NEW o \in Order, InsertOrder(w, o)
      PROVE  TypeInvariant'
  <2>1. PICK t \in OrderTypes : Write(o, [AbsentRow EXCEPT !.status = "PENDING", !.type = t])
    BY <1>2 DEF InsertOrder
  <2>2. row' \in [Order -> Row]
    <3>1. [AbsentRow EXCEPT !.status = "PENDING", !.type = t] \in Row
      BY DEF AbsentRow, Row, Status
    <3>2. QED
      BY <2>1, <3>1, WriteEffect DEF TypeOK
  <2>3. WorkersTyped'
    BY <1>2 DEF InsertOrder, TypeOK, WorkersTyped, CallsKeepPurpose, Location
  <2>4. QED
    BY <1>2, <2>2, <2>3 DEF InsertOrder, TypeOK, WorkersTyped
<1>3. CASE CreatePayment(w)
  <2>1. upstream' \in [Order -> {"none", "open", "closed", "paid", "underpaid"}]
    BY <1>3 DEF CreatePayment, TypeOK
  <2>2. WorkersTyped'
    BY <1>3, GotoTyped DEF CreatePayment, Location
  <2>3. QED
    BY <1>3, <2>1, <2>2 DEF CreatePayment, TypeOK, WorkersTyped
<1>4. CASE RecordPayment(w)
  <2>1. row' \in [Order -> Row]
    BY <1>4, JobTyped, WriteEffect DEF RecordPayment, TypeOK
  <2>2. WorkersTyped'
    BY <1>4, GotoTyped, EndTyped DEF RecordPayment, Location
  <2>3. QED
    BY <1>4, <2>1, <2>2 DEF RecordPayment, TypeOK, WorkersTyped
<1>5. CASE CreateFailed(w)
  <2>1. row' \in [Order -> Row]
    BY <1>5, JobTyped, SetStatusEffect DEF CreateFailed, TypeOK, Status
  <2>2. WorkersTyped'
    BY <1>5, EndTyped DEF CreateFailed
  <2>3. QED
    BY <1>5, <2>1, <2>2 DEF CreateFailed, TypeOK, WorkersTyped
<1>6. QED
  BY <1>1, <1>2, <1>3, <1>4, <1>5

\* The statements of checkPaid and cancelCore keep every variable in its type.
LEMMA TypeCancel ==
    ASSUME TypeInvariant, NEW w \in Worker,
           QueryOrder(w) \/ PersistTradeNo(w) \/ CancelUpstream(w) \/ CancelPending(w)
    PROVE  TypeInvariant'
<1> USE DEF TypeInvariant, At
<1>1. CASE QueryOrder(w)
  <2>1. call[w] \in {"CANCELLED", "EXPIRED", "verify"}
    BY <1>1 DEF QueryOrder, CallsKeepPurpose
  <2>2. WorkersTyped'
    BY <1>1, <2>1, GotoTyped, EndTyped DEF QueryOrder, AfterUnpaid, Location
  <2>3. QED
    BY <1>1, <2>2 DEF QueryOrder, TypeOK, WorkersTyped
<1>2. CASE PersistTradeNo(w)
  <2>1. row' \in [Order -> Row]
    BY <1>2, JobTyped, WriteEffect DEF PersistTradeNo, TypeOK
  <2>2. WorkersTyped'
    BY <1>2, GotoTyped DEF PersistTradeNo, Location
  <2>3. QED
    BY <1>2, <2>1, <2>2 DEF PersistTradeNo, TypeOK, WorkersTyped
<1>3. CASE CancelUpstream(w)
  <2>1. upstream' \in [Order -> {"none", "open", "closed", "paid", "underpaid"}]
    BY <1>3 DEF CancelUpstream, TypeOK
  <2>2. call[w] \in {"CANCELLED", "EXPIRED"}
    BY <1>3 DEF CancelUpstream, CallsKeepPurpose
  <2>3. WorkersTyped'
    BY <1>3, <2>2, GotoTyped DEF CancelUpstream, Location
  <2>4. QED
    BY <1>3, <2>1, <2>3 DEF CancelUpstream, TypeOK, WorkersTyped
<1>4. CASE CancelPending(w)
  <2>1. call[w] \in Status
    BY <1>4 DEF CancelPending, CallsKeepPurpose, Status
  <2>2. row' \in [Order -> Row]
    BY <1>4, <2>1, JobTyped, SetStatusEffect DEF CancelPending, TypeOK
  <2>3. WorkersTyped'
    BY <1>4, EndTyped DEF CancelPending
  <2>4. QED
    BY <1>4, <2>2, <2>3 DEF CancelPending, TypeOK, WorkersTyped
<1>5. QED
  BY <1>1, <1>2, <1>3, <1>4

\* Starting a call on an existing order keeps every variable in its type.
LEMMA TypeStart ==
    ASSUME TypeInvariant, NEW w \in Worker, NEW o \in Order, Start(w, o)
    PROVE  TypeInvariant'
<1> USE DEF TypeInvariant
<1>1. WorkersTyped'
  BY BeginTyped
  DEF Start, CancelOrder, ExpireOrder, VerifyOrder, Webhook, RetryFulfillment, Location, Call
<1>2. UNCHANGED <<row, audit, code, delivered, rebates, upstream, faults>>
  BY DEF Start, CancelOrder, ExpireOrder, VerifyOrder, Webhook, RetryFulfillment
<1>3. QED
  BY <1>1, <1>2 DEF TypeOK, WorkersTyped

\* Confirming a payment keeps every variable in its type.
LEMMA TypeConfirm ==
    ASSUME TypeInvariant, NEW w \in Worker,
           ConfirmPayment(w) \/ AlreadyProcessed(w) \/ SwallowError(w)
    PROVE  TypeInvariant'
<1> USE DEF TypeInvariant, At
<1>1. CASE ConfirmPayment(w)
  <2>1. row' \in [Order -> Row]
    <3>1. job[w] \in Order /\ row[job[w]] \in Row
      BY <1>1, JobTyped DEF ConfirmPayment
    <3>2. [row[job[w]] EXCEPT !.status = "PAID", !.paidAt = TRUE] \in Row
      BY <3>1 DEF Row, Status
    <3>3. QED
      BY <1>1, <3>1, <3>2, WriteEffect DEF ConfirmPayment, TypeOK
  <2>2. WorkersTyped'
    BY <1>1, GotoTyped, EndTyped DEF ConfirmPayment, Location
  <2>3. QED
    BY <1>1, <2>1, <2>2 DEF ConfirmPayment, TypeOK, WorkersTyped
<1>2. CASE AlreadyProcessed(w)
  <2>1. WorkersTyped'
    BY <1>2, GotoTyped, EndTyped DEF AlreadyProcessed, Location
  <2>2. QED
    BY <1>2, <2>1 DEF AlreadyProcessed, TypeOK, WorkersTyped
<1>3. CASE SwallowError(w)
  <2>1. WorkersTyped'
    BY <1>3, EndTyped DEF SwallowError
  <2>2. QED
    BY <1>3, <2>1, FaultEffect DEF SwallowError, TypeOK, WorkersTyped
<1>4. QED
  BY <1>1, <1>2, <1>3

\* The claim of an order, its reload and the updates that end a fulfilment keep every
\* variable in its type.
LEMMA TypeLease ==
    ASSUME TypeInvariant, NEW w \in Worker,
           RejectUnsupported(w) \/ AcquireLease(w) \/ ReloadLease(w)
             \/ MarkCompleted(w) \/ MarkFailed(w)
    PROVE  TypeInvariant'
<1> USE DEF TypeInvariant, At
<1>1. CASE RejectUnsupported(w)
  <2>1. row' \in [Order -> Row]
    BY <1>1, JobTyped, SetStatusEffect DEF RejectUnsupported, TypeOK, Status
  <2>2. audit' \in [Order -> SUBSET AuditAction]
    BY <1>1 DEF RejectUnsupported, Log, TypeOK, AuditAction
  <2>3. WorkersTyped'
    BY <1>1, EndTyped DEF RejectUnsupported
  <2>4. QED
    BY <1>1, <2>1, <2>2, <2>3 DEF RejectUnsupported, TypeOK, WorkersTyped
<1>2. CASE AcquireLease(w)
  <2>1. row' \in [Order -> Row]
    BY <1>2, JobTyped, SetStatusEffect DEF AcquireLease, TypeOK, Status
  <2>2. WorkersTyped'
    BY <1>2, GotoTyped, EndTyped DEF AcquireLease, Location
  <2>3. QED
    BY <1>2, <2>1, <2>2 DEF AcquireLease, TypeOK, WorkersTyped
<1>3. CASE ReloadLease(w)
  <2>1. row' \in [Order -> Row]
    <3>1. job[w] \in Order /\ row \in [Order -> Row]
      BY <1>3, JobTyped DEF ReloadLease, At, TypeInvariant, TypeOK
    <3>2. ASSUME NEW r \in Row
          PROVE  [r EXCEPT !.holders = @ \union {w}] \in Row
      BY DEF Row
    <3>3. row[job[w]] \in Row
      BY <3>1
    <3>4. QED
      BY <1>3, <3>1, <3>2, <3>3 DEF ReloadLease
  <2>2. WorkersTyped'
    BY <1>3, GotoTyped, EndTyped DEF ReloadLease, Location, Delivering
  <2>3. QED
    BY <1>3, <2>1, <2>2 DEF ReloadLease, TypeOK, WorkersTyped
<1>4. CASE MarkCompleted(w)
  <2>1. row' \in [Order -> Row]
    BY <1>4, JobTyped, SetStatusEffect DEF MarkCompleted, TypeOK, Status
  <2>2. audit' \in [Order -> SUBSET AuditAction]
    BY <1>4 DEF MarkCompleted, Log, TypeOK, AuditAction, SuccessAction
  <2>3. WorkersTyped'
    BY <1>4, GotoTyped, EndTyped DEF MarkCompleted, Location
  <2>4. QED
    BY <1>4, <2>1, <2>2, <2>3 DEF MarkCompleted, TypeOK, WorkersTyped
<1>5. CASE MarkFailed(w)
  <2>1. row' \in [Order -> Row]
    BY <1>5, JobTyped, SetStatusEffect DEF MarkFailed, TypeOK, Status
  <2>2. audit' \in [Order -> SUBSET AuditAction]
    BY <1>5 DEF MarkFailed, Log, TypeOK, AuditAction
  <2>3. WorkersTyped'
    BY <1>5, EndTyped DEF MarkFailed
  <2>4. QED
    BY <1>5, <2>1, <2>2, <2>3 DEF MarkFailed, TypeOK, WorkersTyped
<1>6. QED
  BY <1>1, <1>2, <1>3, <1>4, <1>5

\* The deliveries and the rebate keep every variable in its type.
LEMMA TypeDeliver ==
    ASSUME TypeInvariant, NEW w \in Worker,
           LookupRedeemCode(w) \/ CreateRedeemCode(w) \/ Redeem(w) \/ AssignSubscription(w)
             \/ ApplyRebate(w)
    PROVE  TypeInvariant'
<1> USE DEF TypeInvariant, At
<1> /\ "createCode" \in Location /\ "redeem" \in Location /\ "rebate" \in Location
    /\ "complete" \in Location /\ "markFailed" \in Location
  BY DEF Location, Delivering
<1>1. CASE LookupRedeemCode(w)
  <2>1. Goto(w, "createCode") \/ Goto(w, "redeem") \/ Goto(w, "rebate")
    <3>1. job[w] \in Order /\ code[job[w]] \in {"none", "unused", "used"}
      BY <1>1, JobTyped DEF LookupRedeemCode, TypeOK
    <3>2. QED
      BY <1>1, <3>1 DEF LookupRedeemCode
  <2>2. WorkersTyped'
    BY <1>1, <2>1, GotoTyped DEF LookupRedeemCode
  <2>3. QED
    BY <1>1, <2>2 DEF LookupRedeemCode, TypeOK, WorkersTyped
<1>2. CASE CreateRedeemCode(w)
  <2>1. code' \in [Order -> {"none", "unused", "used"}]
    BY <1>2 DEF CreateRedeemCode, TypeOK
  <2>2. WorkersTyped'
    BY <1>2, GotoTyped DEF CreateRedeemCode
  <2>3. QED
    BY <1>2, <2>1, <2>2 DEF CreateRedeemCode, TypeOK, WorkersTyped
<1>3. CASE Redeem(w)
  <2>1. /\ code' \in [Order -> {"none", "unused", "used"}]
        /\ delivered' \in [Order -> Nat]
    BY <1>3 DEF Redeem, TypeOK
  <2>2. WorkersTyped'
    BY <1>3, GotoTyped DEF Redeem
  <2>3. faults' \in 0 .. MaxFaults
    BY <1>3, FaultEffect DEF Redeem, TypeOK
  <2>4. QED
    BY <1>3, <2>1, <2>2, <2>3 DEF Redeem, TypeOK, WorkersTyped
<1>4. CASE AssignSubscription(w)
  <2>1. /\ audit' \in [Order -> SUBSET AuditAction]
        /\ delivered' \in [Order -> Nat]
    BY <1>4 DEF AssignSubscription, TypeOK, AuditAction
  <2>2. WorkersTyped'
    BY <1>4, GotoTyped DEF AssignSubscription
  <2>3. faults' \in 0 .. MaxFaults
    BY <1>4, FaultEffect DEF AssignSubscription, TypeOK
  <2>4. QED
    BY <1>4, <2>1, <2>2, <2>3 DEF AssignSubscription, TypeOK, WorkersTyped
<1>5. CASE ApplyRebate(w)
  <2>1. /\ audit' \in [Order -> SUBSET AuditAction]
        /\ rebates' \in [Order -> Nat]
    BY <1>5 DEF ApplyRebate, TypeOK, AuditAction
  <2>2. WorkersTyped'
    BY <1>5, GotoTyped DEF ApplyRebate
  <2>3. QED
    BY <1>5, <2>1, <2>2 DEF ApplyRebate, TypeOK, WorkersTyped
<1>6. QED
  BY <1>1, <1>2, <1>3, <1>4, <1>5

\* Errors and crashes keep every variable in its type.
LEMMA TypeFault ==
    ASSUME TypeInvariant, NEW w \in Worker, FulfillmentError(w) \/ Crash(w)
    PROVE  TypeInvariant'
<1> USE DEF TypeInvariant, At
<1>1. WorkersTyped'
  BY GotoTyped, EndTyped DEF FulfillmentError, Crash, Location, Delivering
<1>2. faults' \in 0 .. MaxFaults
  BY FaultEffect DEF FulfillmentError, Crash
<1>3. QED
  BY <1>1, <1>2 DEF FulfillmentError, Crash, TypeOK, WorkersTyped

\* The customer and the clock keep every variable in its type.
LEMMA TypeEnvironment ==
    ASSUME TypeInvariant, NEW o \in Order, Environment(o)
    PROVE  TypeInvariant'
<1> USE DEF TypeInvariant
<1>1. row' \in [Order -> Row]
  <2>1. CASE Pay(o)
    BY <2>1 DEF Pay, orderVars, TypeOK
  <2>2. CASE PassDeadline(o)
    <3>1. row' = [row EXCEPT ![o].due = TRUE]
      BY <2>2 DEF PassDeadline
    <3>2. row \in [Order -> Row]
      BY DEF TypeOK
    <3>3. \A r \in Row : [r EXCEPT !.due = TRUE] \in Row
      BY DEF Row
    <3>4. QED
      BY <3>1, <3>2, <3>3
  <2>3. CASE Age(o)
    <3>1. row' = [row EXCEPT ![o].old = TRUE]
      BY <2>3 DEF Age
    <3>2. row \in [Order -> Row]
      BY DEF TypeOK
    <3>3. \A r \in Row : [r EXCEPT !.old = TRUE] \in Row
      BY DEF Row
    <3>4. QED
      BY <3>1, <3>2, <3>3
  <2>4. QED
    BY <2>1, <2>2, <2>3 DEF Environment
<1>2. upstream' \in [Order -> {"none", "open", "closed", "paid", "underpaid"}]
  BY DEF Environment, Pay, PassDeadline, Age, TypeOK
<1>3. faults' \in 0 .. MaxFaults
  BY FaultEffect DEF Environment, Pay, PassDeadline, Age, TypeOK
<1>4. UNCHANGED <<audit, code, delivered, rebates, acked, pc, call, job>>
  BY DEF Environment, Pay, PassDeadline, Age, orderVars, workerVars
<1>5. QED
  BY <1>1, <1>2, <1>3, <1>4 DEF TypeOK, CallsKeepPurpose

\* Every step of the specification keeps every variable in its type.
LEMMA TypeStep == TypeInvariant /\ [Next]_vars => TypeInvariant'
<1> SUFFICES ASSUME TypeInvariant, [Next]_vars
             PROVE  TypeInvariant'
  OBVIOUS
<1>1. CASE UNCHANGED vars
  BY <1>1 DEF vars, TypeInvariant, TypeOK, CallsKeepPurpose
<1>2. ASSUME NEW w \in Worker, Step(w)
      PROVE  TypeInvariant'
  BY <1>2, TypeCreate, TypeCancel, TypeConfirm, TypeLease, TypeDeliver DEF Step
<1>3. ASSUME NEW w \in Worker,
             CheckPendingLimit(w) \/ SwallowError(w) \/ FulfillmentError(w) \/ Crash(w)
      PROVE  TypeInvariant'
  BY <1>3, TypeCreate, TypeConfirm, TypeFault
<1>4. ASSUME NEW w \in Worker, NEW o \in Order, Start(w, o)
      PROVE  TypeInvariant'
  BY <1>4, TypeStart
<1>5. ASSUME NEW o \in Order, Environment(o)
      PROVE  TypeInvariant'
  BY <1>5, TypeEnvironment
<1>6. QED
  BY <1>1, <1>2, <1>3, <1>4, <1>5 DEF Next

\* Every variable has its type, in every state of every instance.
THEOREM TypeCorrect == Spec => []TypeOK
<1>1. TypeInvariant => TypeOK
  BY DEF TypeInvariant
<1>2. QED
  BY <1>1, TypeInit, TypeStep, PTL DEF Spec

------------------------------------------------------------------------------
(* The inductive invariant.  Its parts are regrouped by what they speak of, an  *)
(* order or a worker, because a step touches one order and moves one worker.    *)

OrderOK(o) ==
    /\ row[o].status = "ABSENT" => upstream[o] = "none" /\ code[o] = "none" /\ audit[o] = {}
    /\ row[o].status \in {"PAID", "RECHARGING", "COMPLETED"} \/ row[o].paidAt
           => upstream[o] = "paid"
    /\ row[o].paidAt => row[o].status \in {"PAID", "RECHARGING", "COMPLETED", "FAILED"}
    /\ OrderType(o) = "balance" => delivered[o] = IF code[o] = "used" THEN 1 ELSE 0
    /\ OrderType(o) = "subscription" =>
           delivered[o] = IF "SUBSCRIPTION_ASSIGNED" \in audit[o] THEN 1 ELSE 0
    /\ OrderType(o) = "none" => row[o].status = "ABSENT"
    /\ OrderType(o) \in {"other", "none"} => delivered[o] = 0
    /\ "SUBSCRIPTION_SUCCESS" \in audit[o] => delivered[o] = 1
    /\ delivered[o] > 0 => upstream[o] = "paid"
    /\ rebates[o] > 0 => rebates[o] = 1 /\ RebateDecided(o) /\ delivered[o] = 1
    /\ row[o].status = "COMPLETED" => delivered[o] = 1 /\ RebateDecided(o)

WorkerOK(w) ==
    /\ pc[w] \notin {"idle", "insert"} => row[job[w]].status # "ABSENT"
    /\ pc[w] = "createPayment" => upstream[job[w]] = "none"
    /\ pc[w] \in Delivering \union {"alreadyProcessed", "acquire", "reload", "markFailed"}
           => upstream[job[w]] = "paid"
    /\ pc[w] \in Delivering \union {"reload", "markFailed"} => OrderType(job[w]) # "other"
    /\ pc[w] \in {"lookup", "createCode", "redeem"} => OrderType(job[w]) = "balance"
    /\ pc[w] = "assign" => OrderType(job[w]) = "subscription"
    /\ pc[w] \in {"rebate", "complete"} => delivered[job[w]] = 1
    /\ pc[w] = "complete" => RebateDecided(job[w])

OneOpener ==
    \A v, w \in Worker :
        pc[v] = "createPayment" /\ pc[w] = "createPayment" /\ job[v] = job[w] => v = w

IInv ==
    /\ TypeInvariant
    /\ OneOpener
    /\ \A o \in Order : OrderOK(o)
    /\ \A w \in Worker : WorkerOK(w)

\* The inductive invariant, stated per order and per worker for the proof, is the
\* conjunction of the type invariant and DeliveryInvariant that TLC checks.
LEMMA Regrouped == IInv <=> TypeOK /\ DeliveryInvariant
<1>1. ASSUME IInv PROVE DeliveryInvariant
  BY <1>1 DEF IInv, TypeInvariant, OneOpener, OrderOK, WorkerOK, DeliveryInvariant, CallsKeepPurpose,
      OpenedOnce, ConfirmedIsPaid, DeliversItsType, DeliveryHasEvidence, RebateFollowsDelivery
<1>2. ASSUME TypeOK, DeliveryInvariant PROVE IInv
  <2>1. TypeInvariant /\ OneOpener
    BY <1>2 DEF TypeInvariant, DeliveryInvariant, OpenedOnce, OneOpener
  <2>2. ASSUME NEW o \in Order PROVE OrderOK(o)
    BY <1>2 DEF OrderOK, DeliveryInvariant, OpenedOnce, ConfirmedIsPaid, DeliversItsType,
        DeliveryHasEvidence, RebateFollowsDelivery
  <2>3. ASSUME NEW w \in Worker PROVE WorkerOK(w)
    BY <1>2 DEF WorkerOK, DeliveryInvariant, OpenedOnce, ConfirmedIsPaid, DeliversItsType,
        RebateFollowsDelivery
  <2>4. QED
    BY <2>1, <2>2, <2>3 DEF IInv
<1>3. QED
  BY <1>1, <1>2 DEF IInv, TypeInvariant

\* Nothing was ordered, paid or delivered at the start.
LEMMA InvariantInit == Init => IInv
<1> SUFFICES ASSUME Init PROVE IInv
  OBVIOUS
<1>1. TypeInvariant
  BY TypeInit
<1>2. OneOpener /\ \A w \in Worker : WorkerOK(w)
  BY DEF Init, OneOpener, WorkerOK, Delivering
<1>3. ASSUME NEW o \in Order PROVE OrderOK(o)
  BY OrderAssumption DEF Init, OrderOK, AbsentRow
<1>4. QED
  BY <1>1, <1>2, <1>3 DEF IInv

------------------------------------------------------------------------------
(* What no step takes back.                                                 *)

Kept(o) ==
    /\ row[o].status # "ABSENT" =>
           row'[o].status # "ABSENT" /\ row'[o].type = row[o].type
    /\ upstream[o] = "paid" => upstream'[o] = "paid"
    /\ delivered[o] = 1 => delivered'[o] = 1
    /\ RebateDecided(o) => RebateDecided(o)'

\* A worker that does not move keeps its part of the invariant.
LEMMA IdleWorkerKept ==
    ASSUME IInv, NEW v \in Worker, pc'[v] = pc[v], job'[v] = job[v],
           \A o \in Order : Kept(o),
           pc[v] = "createPayment" => upstream'[job[v]] = upstream[job[v]]
    PROVE  WorkerOK(v)'
<1>1. pc[v] \notin {"idle", "insert"} => job[v] \in Order
  BY DEF IInv, TypeInvariant, TypeOK
<1>2. WorkerOK(v)
  BY DEF IInv
<1>3. QED
  BY <1>1, <1>2 DEF WorkerOK, Kept, RebateDecided, Delivering

\* An order whose columns, evidence and payment stay the same keeps its part.
LEMMA UntouchedOrderKept ==
    ASSUME IInv, NEW o \in Order,
           row'[o].status = row[o].status, row'[o].paidAt = row[o].paidAt,
           row'[o].type = row[o].type,
           audit'[o] = audit[o], code'[o] = code[o], delivered'[o] = delivered[o],
           rebates'[o] = rebates[o], upstream'[o] = upstream[o]
    PROVE  OrderOK(o)' /\ Kept(o)
<1>1. OrderOK(o)
  BY DEF IInv
<1>2. QED
  BY <1>1 DEF OrderOK, Kept, RebateDecided

\* What is left to show for a step of one worker on its order.
LEMMA StepOfWorker ==
    ASSUME IInv, TypeInvariant', NEW w \in Worker,
           \A v \in Worker \ {w} : pc'[v] = pc[v] /\ job'[v] = job[v],
           \A v \in Worker \ {w} :
               pc[v] = "createPayment" => upstream'[job[v]] = upstream[job[v]],
           pc'[w] # "createPayment",
           \A o \in Order : OrderOK(o)' /\ Kept(o),
           WorkerOK(w)'
    PROVE  IInv'
<1>1. OneOpener'
  BY DEF IInv, OneOpener
<1>2. ASSUME NEW v \in Worker PROVE WorkerOK(v)'
  BY IdleWorkerKept, <1>2
<1>3. QED
  BY <1>1, <1>2 DEF IInv

\* A step that moves one worker and leaves the tables and the provider alone.
LEMMA QuietMove ==
    ASSUME IInv, TypeInvariant', NEW w \in Worker,
           \A v \in Worker \ {w} : pc'[v] = pc[v] /\ job'[v] = job[v],
           UNCHANGED <<row, audit, code, delivered, rebates, upstream>>,
           pc'[w] # "createPayment", WorkerOK(w)'
    PROVE  IInv'
<1>1. \A o \in Order : OrderOK(o)' /\ Kept(o)
  BY UntouchedOrderKept
<1>2. QED
  BY <1>1, StepOfWorker

\* A worker that ends its call owes nothing.
LEMMA EndedWorkerOK ==
    ASSUME TypeInvariant, NEW w \in Worker, Return(w) \/ ReturnError(w)
    PROVE  /\ WorkerOK(w)' /\ pc'[w] = "idle"
           /\ \A v \in Worker \ {w} : pc'[v] = pc[v] /\ job'[v] = job[v]
<1>1. /\ pc'[w] = "idle"
      /\ \A v \in Worker \ {w} : pc'[v] = pc[v] /\ job'[v] = job[v]
  BY EndEffect DEF TypeInvariant
<1>2. QED
  BY <1>1 DEF WorkerOK, Delivering

\* The steps that start a call and those that only read.
LEMMA StartKeeps ==
    ASSUME IInv, TypeInvariant', NEW w \in Worker,
           CheckPendingLimit(w) \/ (\E o \in Order : Start(w, o))
    PROVE  IInv'
<1>1. CASE CheckPendingLimit(w)
  <2>1. /\ Begin(w, "create", NoOrder, "insert")
        /\ UNCHANGED <<row, audit, code, delivered, rebates, upstream>>
    BY <1>1 DEF CheckPendingLimit
  <2>2. /\ pc'[w] = "insert"
        /\ \A v \in Worker \ {w} : pc'[v] = pc[v] /\ job'[v] = job[v]
    BY <2>1, BeginEffect DEF IInv, TypeInvariant, Call, Location
  <2>3. WorkerOK(w)'
    BY <2>2 DEF WorkerOK, Delivering
  <2>4. QED
    BY <2>1, <2>2, <2>3, QuietMove
<1>2. ASSUME NEW o \in Order, Start(w, o)
      PROVE  IInv'
  <2>1. PICK c \in Call, l \in {"query", "confirm", "acquire"} :
            /\ Begin(w, c, o, l)
            /\ row[o].status # "ABSENT"
            /\ l = "acquire" => upstream[o] = "paid"
    <3>1. OrderOK(o)
      BY DEF IInv
    <3>2. QED
      BY <1>2, <3>1 DEF Start, CancelOrder, ExpireOrder, VerifyOrder, Webhook, RetryFulfillment,
          OrderOK, Call
  <2>2. UNCHANGED <<row, audit, code, delivered, rebates, upstream>>
    BY <1>2 DEF Start, CancelOrder, ExpireOrder, VerifyOrder, Webhook, RetryFulfillment
  <2>3. /\ pc'[w] = l /\ job'[w] = o
        /\ \A v \in Worker \ {w} : pc'[v] = pc[v] /\ job'[v] = job[v]
    BY <2>1, BeginEffect DEF IInv, TypeInvariant, Location
  <2>4. WorkerOK(w)'
    BY <2>1, <2>2, <2>3 DEF WorkerOK, Delivering
  <2>5. QED
    BY <2>2, <2>3, <2>4, QuietMove
<1>3. QED
  BY <1>1, <1>2

\* A statement that only reads or asks the provider moves its own worker and
\* nothing else.
LEMMA ReadKeeps ==
    ASSUME IInv, TypeInvariant', NEW w \in Worker,
           QueryOrder(w) \/ AlreadyProcessed(w) \/ SwallowError(w) \/ LookupRedeemCode(w)
             \/ FulfillmentError(w) \/ Crash(w)
    PROVE  IInv'
<1> USE DEF At
<1>1. UNCHANGED <<row, audit, code, delivered, rebates, upstream>>
  BY DEF QueryOrder, AlreadyProcessed, SwallowError, LookupRedeemCode, FulfillmentError, Crash
<1>2. WorkerOK(w) /\ (pc[w] \notin {"idle", "insert"} => OrderOK(job[w]))
  BY JobTyped DEF IInv
<1>3. CASE Return(w) \/ ReturnError(w)
  BY <1>1, <1>3, EndedWorkerOK, QuietMove DEF IInv
<1>4. ASSUME NEW l \in Location \ {"createPayment"}, Goto(w, l),
             pc[w] \notin {"idle", "insert"},
             \/ l \in {"persistTrade", "confirm", "cancelUpstream", "cancel"}
             \/ l \in {"acquire", "markFailed", "createCode", "redeem", "rebate"}
                  /\ upstream[job[w]] = "paid",
             l \in {"markFailed", "createCode", "redeem"} => OrderType(job[w]) # "other",
             l \in {"createCode", "redeem", "rebate"} => OrderType(job[w]) = "balance",
             l = "rebate" => delivered[job[w]] = 1
      PROVE  IInv'
  <2>1. /\ pc'[w] = l /\ job' = job
        /\ \A v \in Worker \ {w} : pc'[v] = pc[v] /\ job'[v] = job[v]
    BY <1>4, GotoEffect DEF IInv, TypeInvariant
  <2>2. WorkerOK(w)'
    BY <1>1, <1>2, <1>4, <2>1 DEF WorkerOK, Delivering, RebateDecided
  <2>3. QED
    BY <1>1, <1>4, <2>1, <2>2, QuietMove
<1>5. CASE QueryOrder(w)
  BY <1>3, <1>4, <1>5 DEF QueryOrder, AfterUnpaid, Location
<1>6. CASE AlreadyProcessed(w)
  BY <1>2, <1>3, <1>4, <1>6 DEF AlreadyProcessed, WorkerOK, Location
<1>7. CASE SwallowError(w) \/ Crash(w)
  BY <1>3, <1>7 DEF SwallowError, Crash
<1>8. CASE FulfillmentError(w)
  BY <1>2, <1>4, <1>8 DEF FulfillmentError, WorkerOK, Location, Delivering
<1>9. CASE LookupRedeemCode(w)
  <2>1. /\ pc[w] = "lookup" /\ job[w] \in Order
        /\ code[job[w]] \in {"none", "unused", "used"}
    BY <1>9, JobTyped DEF LookupRedeemCode, IInv, TypeInvariant, TypeOK
  <2>2. OrderType(job[w]) = "balance" /\ upstream[job[w]] = "paid"
    BY <1>2, <2>1 DEF WorkerOK, Delivering
  <2>3. \/ Goto(w, "createCode") \/ Goto(w, "redeem")
        \/ Goto(w, "rebate") /\ delivered[job[w]] = 1
    BY <1>2, <1>9, <2>1, <2>2 DEF LookupRedeemCode, OrderOK
  <2>4. QED
    BY <1>4, <2>1, <2>2, <2>3 DEF Location, Delivering
<1>10. QED
  BY <1>5, <1>6, <1>7, <1>8, <1>9

\* A step on one order, the others stay as they are.
LEMMA StepOnOrder ==
    ASSUME IInv, TypeInvariant', NEW w \in Worker, NEW o \in Order,
           \A v \in Worker \ {w} : pc'[v] = pc[v] /\ job'[v] = job[v],
           upstream' = upstream,
           pc'[w] # "createPayment",
           \A p \in Order \ {o} :
               /\ row'[p] = row[p] /\ audit'[p] = audit[p] /\ code'[p] = code[p]
               /\ delivered'[p] = delivered[p] /\ rebates'[p] = rebates[p],
           OrderOK(o)', Kept(o), WorkerOK(w)'
    PROVE  IInv'
<1>1. \A p \in Order : OrderOK(p)' /\ Kept(p)
  BY UntouchedOrderKept
<1>2. QED
  BY <1>1, StepOfWorker

\* A step that writes the row of the worker's order, and adds to its audit at most a
\* completion.
LEMMA RowStep ==
    ASSUME IInv, TypeInvariant', NEW w \in Worker, NEW o \in Order, NEW l \in Location,
           row[o].status # "ABSENT", row'[o].status # "ABSENT", row'[o].type = row[o].type,
           row'[o].status \in {"PAID", "RECHARGING", "COMPLETED"} \/ row'[o].paidAt
               => upstream[o] = "paid",
           row'[o].paidAt => row'[o].status \in {"PAID", "RECHARGING", "COMPLETED", "FAILED"},
           row'[o].status = "COMPLETED" => delivered[o] = 1 /\ RebateDecided(o),
           \A p \in Order \ {o} : row'[p] = row[p] /\ audit'[p] = audit[p],
           audit[o] \subseteq audit'[o],
           "SUBSCRIPTION_ASSIGNED" \in audit'[o] => "SUBSCRIPTION_ASSIGNED" \in audit[o],
           "SUBSCRIPTION_SUCCESS" \in audit'[o] =>
               "SUBSCRIPTION_SUCCESS" \in audit[o] \/ delivered[o] = 1,
           UNCHANGED <<code, delivered, rebates, upstream>>,
           \A v \in Worker \ {w} : pc'[v] = pc[v] /\ job'[v] = job[v],
           pc'[w] = l, l # "idle" => job'[w] = o,
           \/ l \in {"idle", "createFailed", "confirm"}
           \/ l \in {"acquire", "alreadyProcessed"} /\ upstream[o] = "paid"
           \/ l \in {"reload", "markFailed"} /\ upstream[o] = "paid" /\ OrderType(o) # "other"
           \/ l = "lookup" /\ upstream[o] = "paid" /\ OrderType(o) = "balance"
           \/ l = "assign" /\ upstream[o] = "paid" /\ OrderType(o) = "subscription"
    PROVE  IInv'
<1>1. OrderOK(o)
  BY DEF IInv
<1>2. RebateDecided(o) => RebateDecided(o)'
  BY DEF RebateDecided
<1>3. OrderOK(o)'
  BY <1>1, <1>2 DEF OrderOK
<1>4. Kept(o)
  BY <1>2 DEF Kept
<1>5. WorkerOK(w)'
  <2>1. CASE l = "idle"
    BY <2>1 DEF WorkerOK, Delivering
  <2>2. CASE l # "idle"
    <3>1. job'[w] = o /\ row'[job'[w]].type = row[o].type
      BY <2>2
    <3>2. QED
      BY <2>2, <3>1 DEF WorkerOK, Delivering
  <2>3. QED
    BY <2>1, <2>2
<1>6. QED
  BY <1>3, <1>4, <1>5, StepOnOrder

\* What the invariant says of a worker inside a call and its order.
LEMMA JobOK ==
    ASSUME IInv, NEW w \in Worker, pc[w] \notin {"idle", "insert"}
    PROVE  /\ TypeInvariant /\ row \in [Order -> Row] /\ audit \in [Order -> SUBSET AuditAction]
           /\ job[w] \in Order /\ row[job[w]] \in Row
           /\ row[job[w]].status # "ABSENT"
           /\ WorkerOK(w) /\ OrderOK(job[w])
BY JobTyped DEF IInv, WorkerOK, TypeInvariant, TypeOK

\* The writes of the row that are not conditional on a lease: the stored trade number
\* and payment details, FAILED of CreateOrder, the end of cancelCore, PAID.
LEMMA WriteKeeps ==
    ASSUME IInv, TypeInvariant', NEW w \in Worker,
           RecordPayment(w) \/ CreateFailed(w) \/ PersistTradeNo(w) \/ CancelPending(w)
             \/ ConfirmPayment(w)
    PROVE  IInv'
<1> USE DEF At
<1>1. pc[w] \notin {"idle", "insert"}
  BY DEF RecordPayment, CreateFailed, PersistTradeNo, CancelPending, ConfirmPayment
<1>2. PICK o \in Order : job[w] = o
  BY <1>1, JobOK
<1> /\ TypeInvariant /\ row \in [Order -> Row] /\ audit \in [Order -> SUBSET AuditAction]
    /\ row[o] \in Row /\ row[o].status # "ABSENT" /\ WorkerOK(w) /\ OrderOK(o)
  BY <1>1, <1>2, JobOK
<1>3. UNCHANGED <<audit, code, delivered, rebates, upstream>>
  BY DEF RecordPayment, CreateFailed, PersistTradeNo, CancelPending, ConfirmPayment
<1>4. PICK l \in {"idle", "createFailed", "confirm", "acquire", "alreadyProcessed"} :
          /\ pc'[w] = l /\ (l # "idle" => job'[w] = o)
          /\ \A v \in Worker \ {w} : pc'[v] = pc[v] /\ job'[v] = job[v]
          /\ l \in {"acquire", "alreadyProcessed"} => upstream[o] = "paid"
  BY <1>2, GotoEffect, EndEffect
  DEF RecordPayment, CreateFailed, PersistTradeNo, CancelPending, ConfirmPayment, AmountMatches,
      Location, TypeInvariant
<1>5. /\ row'[o].status # "ABSENT" /\ row'[o].type = row[o].type
      /\ row'[o].status \in {"PAID", "RECHARGING", "COMPLETED"} \/ row'[o].paidAt
             => upstream[o] = "paid"
      /\ row'[o].paidAt => row'[o].status \in {"PAID", "RECHARGING", "COMPLETED", "FAILED"}
      /\ row'[o].status = "COMPLETED" => delivered[o] = 1 /\ RebateDecided(o)
      /\ \A p \in Order \ {o} : row'[p] = row[p]
  <2>1. CASE row' = row \/ Write(o, row[o])
    BY <2>1, WriteEffect DEF OrderOK
  <2>2. CASE CreateFailed(w)
    BY <1>2, <2>2, SetStatusEffect DEF CreateFailed, OrderOK, Status
  <2>3. CASE CancelPending(w)
    BY <1>2, <2>1, <2>3, SetStatusEffect DEF CancelPending, OrderOK, Status, CallsKeepPurpose, TypeInvariant
  <2>4. CASE ConfirmPayment(w)
    <3>1. CASE Write(o, [row[o] EXCEPT !.status = "PAID", !.paidAt = TRUE]) /\ upstream[o] = "paid"
      <4>1. /\ [row[o] EXCEPT !.status = "PAID", !.paidAt = TRUE] \in Row
            /\ [row[o] EXCEPT !.status = "PAID", !.paidAt = TRUE].status = "PAID"
            /\ [row[o] EXCEPT !.status = "PAID", !.paidAt = TRUE].type = row[o].type
        BY DEF Row, Status
      <4>2. QED
        BY <3>1, <4>1, WriteEffect
    <3>2. QED
      BY <1>2, <2>1, <2>4, <3>1 DEF ConfirmPayment, AmountMatches
  <2>5. QED
    BY <1>2, <2>1, <2>2, <2>3, <2>4
    DEF RecordPayment, CreateFailed, PersistTradeNo, CancelPending, ConfirmPayment
<1>6. QED
  <2>1. l \in Location
    BY DEF Location
  <2>2. QED
    BY <1>3, <1>4, <1>5, <2>1, RowStep DEF OrderOK

\* The claim, the reload of the version and the updates conditional on it.
LEMMA LeaseKeeps ==
    ASSUME IInv, TypeInvariant', NEW w \in Worker,
           RejectUnsupported(w) \/ AcquireLease(w) \/ ReloadLease(w)
             \/ MarkCompleted(w) \/ MarkFailed(w)
    PROVE  IInv'
<1> USE DEF At
<1>1. pc[w] \notin {"idle", "insert"}
  BY DEF RejectUnsupported, AcquireLease, ReloadLease, MarkCompleted, MarkFailed
<1>2. PICK o \in Order : job[w] = o
  BY <1>1, JobOK
<1> /\ TypeInvariant /\ row \in [Order -> Row] /\ audit \in [Order -> SUBSET AuditAction]
    /\ row[o] \in Row /\ row[o].status # "ABSENT" /\ WorkerOK(w) /\ OrderOK(o)
    /\ OrderType(o) \in {"balance", "subscription", "other"}
  BY <1>1, <1>2, JobOK, OrderAssumption DEF Row, OrderOK
<1>3. UNCHANGED <<code, delivered, rebates, upstream>>
  BY DEF RejectUnsupported, AcquireLease, ReloadLease, MarkCompleted, MarkFailed
<1>4. upstream[o] = "paid"
  BY <1>2 DEF RejectUnsupported, AcquireLease, ReloadLease, MarkCompleted, MarkFailed,
      WorkerOK, Delivering
<1>5. PICK l \in {"idle", "reload", "lookup", "assign", "markFailed"} :
          /\ pc'[w] = l /\ (l # "idle" => job'[w] = o)
          /\ \A v \in Worker \ {w} : pc'[v] = pc[v] /\ job'[v] = job[v]
          /\ l \in {"reload", "markFailed"} => OrderType(o) # "other"
          /\ l = "lookup" => OrderType(o) = "balance"
          /\ l = "assign" => OrderType(o) = "subscription"
  <2>1. \/ Return(w) \/ ReturnError(w)
        \/ (Goto(w, "reload") \/ Goto(w, "markFailed")) /\ OrderType(o) # "other"
        \/ Goto(w, "lookup") /\ OrderType(o) = "balance"
        \/ Goto(w, "assign") /\ OrderType(o) = "subscription"
    BY <1>2 DEF RejectUnsupported, AcquireLease, ReloadLease, MarkCompleted, MarkFailed,
        WorkerOK, Delivering
  <2>2. {"reload", "lookup", "assign", "markFailed"} \subseteq Location
    BY DEF Location, Delivering
  <2>3. QED
    BY <1>2, <2>1, <2>2, GotoEffect, EndEffect DEF TypeInvariant
<1>6. /\ row'[o].status # "ABSENT" /\ row'[o].type = row[o].type
      /\ row'[o].paidAt => row'[o].status \in {"PAID", "RECHARGING", "COMPLETED", "FAILED"}
      /\ row'[o].status = "COMPLETED" => delivered[o] = 1 /\ RebateDecided(o)
      /\ \A p \in Order \ {o} : row'[p] = row[p]
  <2>1. CASE row' = row
    BY <2>1 DEF OrderOK
  <2>2. CASE SetStatus(o, "FAILED") \/ SetStatus(o, "RECHARGING")
    BY <2>2, SetStatusEffect DEF Status
  <2>3. CASE MarkCompleted(w)
    BY <1>2, <2>1, <2>3, SetStatusEffect DEF MarkCompleted, WorkerOK, Delivering, Status
  <2>4. CASE ReloadLease(w)
    BY <1>2, <2>1, <2>4 DEF ReloadLease, Row, OrderOK
  <2>5. QED
    BY <1>2, <2>1, <2>2, <2>3, <2>4 DEF RejectUnsupported, AcquireLease, MarkFailed
<1>7. /\ \A p \in Order \ {o} : audit'[p] = audit[p]
      /\ audit[o] \subseteq audit'[o]
      /\ "SUBSCRIPTION_ASSIGNED" \in audit'[o] => "SUBSCRIPTION_ASSIGNED" \in audit[o]
      /\ "SUBSCRIPTION_SUCCESS" \in audit'[o] =>
             "SUBSCRIPTION_SUCCESS" \in audit[o] \/ delivered[o] = 1
  <2>1. CASE audit' = audit
    BY <2>1
  <2>2. CASE MarkCompleted(w)
    BY <1>2, <2>1, <2>2 DEF MarkCompleted, Log, WorkerOK, Delivering, SuccessAction
  <2>3. CASE MarkFailed(w) \/ RejectUnsupported(w)
    BY <1>2, <2>1, <2>3 DEF MarkFailed, RejectUnsupported, Log
  <2>4. QED
    BY <2>1, <2>2, <2>3 DEF AcquireLease, ReloadLease
<1>8. QED
  <2>1. l \in Location
    BY DEF Location, Delivering
  <2>2. QED
    BY <1>3, <1>4, <1>5, <1>6, <1>7, <2>1, RowStep

\* The code, the redemption, the assignment and the rebate: each changes the
\* evidence and the count it stands for together.
LEMMA DeliverKeeps ==
    ASSUME IInv, TypeInvariant', NEW w \in Worker,
           CreateRedeemCode(w) \/ Redeem(w) \/ AssignSubscription(w) \/ ApplyRebate(w)
    PROVE  IInv'
<1> USE DEF At
<1>1. pc[w] \in {"createCode", "redeem", "assign", "rebate"}
  BY DEF CreateRedeemCode, Redeem, AssignSubscription, ApplyRebate
<1>2. PICK o \in Order : job[w] = o
  BY <1>1, JobOK
<1>3. /\ TypeInvariant /\ WorkerOK(w) /\ OrderOK(o)
      /\ row[o].status # "ABSENT"
      /\ code \in [Order -> {"none", "unused", "used"}]
      /\ delivered \in [Order -> Nat] /\ rebates \in [Order -> Nat]
      /\ audit \in [Order -> SUBSET AuditAction]
  BY <1>1, <1>2, JobOK DEF TypeInvariant, TypeOK
<1>4. UNCHANGED <<row, upstream>>
  BY DEF CreateRedeemCode, Redeem, AssignSubscription, ApplyRebate
<1>5. upstream[o] = "paid" /\ OrderType(o) # "other"
  BY <1>1, <1>2, <1>3 DEF WorkerOK, Delivering
<1>6. PICK l \in {"redeem", "rebate", "complete", "markFailed"} :
          /\ pc'[w] = l /\ job'[w] = o
          /\ \A v \in Worker \ {w} : pc'[v] = pc[v] /\ job'[v] = job[v]
          /\ l = "redeem" => CreateRedeemCode(w)
          /\ l = "rebate" => (Redeem(w) /\ CodeUsable(o)) \/ AssignSubscription(w)
          /\ l = "complete" => ApplyRebate(w)
  <2>1. \/ Goto(w, "redeem") /\ CreateRedeemCode(w)
        \/ Goto(w, "rebate") /\ ((Redeem(w) /\ CodeUsable(o)) \/ AssignSubscription(w))
        \/ Goto(w, "complete") /\ ApplyRebate(w)
        \/ Goto(w, "markFailed")
    BY <1>2 DEF CreateRedeemCode, Redeem, AssignSubscription, ApplyRebate
  <2>2. {"redeem", "rebate", "complete", "markFailed"} \subseteq Location
    BY DEF Location, Delivering
  <2>3. QED
    BY <1>2, <1>3, <2>1, <2>2, GotoEffect DEF TypeInvariant
<1>7. /\ OrderOK(o)' /\ Kept(o)
      /\ l = "rebate" => delivered'[o] = 1
      /\ l = "complete" => delivered'[o] = 1 /\ RebateDecided(o)'
      /\ l = "redeem" => OrderType(o) = "balance"
      /\ \A p \in Order \ {o} :
             /\ audit'[p] = audit[p] /\ code'[p] = code[p]
             /\ delivered'[p] = delivered[p] /\ rebates'[p] = rebates[p]
  <2>1. CASE CreateRedeemCode(w)
    BY <1>2, <1>3, <1>4, <1>6, <2>1
    DEF CreateRedeemCode, OrderOK, Kept, RebateDecided, WorkerOK, Redeem, AssignSubscription, ApplyRebate
  <2>2. CASE Redeem(w)
    <3>1. OrderType(o) = "balance" /\ pc[w] = "redeem"
      BY <1>2, <1>3, <2>2 DEF Redeem, WorkerOK
    <3>2. CASE UNCHANGED <<code, delivered>> /\ Goto(w, "markFailed")
      <4>1. l = "markFailed"
        BY <1>3, <1>6, <3>2 DEF TypeInvariant, TypeOK, Goto
      <4>2. QED
        BY <4>1, <1>2, <1>3, <1>4, <1>6, <2>2, <3>1, <3>2
        DEF Redeem, OrderOK, Kept, RebateDecided, CreateRedeemCode, AssignSubscription, ApplyRebate
    <3>3. CASE /\ CodeUsable(o)
               /\ code' = [code EXCEPT ![o] = "used"]
               /\ delivered' = [delivered EXCEPT ![o] = @ + 1]
      BY <1>2, <1>3, <1>4, <1>5, <1>6, <2>2, <3>1, <3>3
      DEF Redeem, CodeUsable, OrderOK, Kept, RebateDecided, CreateRedeemCode, ApplyRebate
    <3>4. QED
      BY <1>2, <2>2, <3>2, <3>3 DEF Redeem
  <2>3. CASE AssignSubscription(w)
    <3>1. OrderType(o) = "subscription" /\ pc[w] = "assign"
      BY <1>2, <1>3, <2>3 DEF AssignSubscription, WorkerOK
    <3>2. QED
      BY <1>2, <1>3, <1>4, <1>5, <1>6, <2>3, <3>1
      DEF AssignSubscription, SubscriptionAssigned, OrderOK, Kept, RebateDecided,
          CreateRedeemCode, ApplyRebate
  <2>4. CASE ApplyRebate(w)
    <3>1. delivered[o] = 1 /\ pc[w] = "rebate"
      BY <1>2, <1>3, <2>4 DEF ApplyRebate, WorkerOK
    <3>2. RebateDecided(o)'
      BY <1>2, <1>3, <2>4 DEF ApplyRebate, RebateDecided
    <3>3. rebates'[o] > 0 => rebates'[o] = 1
      BY <1>2, <1>3, <2>4 DEF ApplyRebate, OrderOK
    <3>4. /\ "SUBSCRIPTION_ASSIGNED" \in audit'[o] <=> "SUBSCRIPTION_ASSIGNED" \in audit[o]
          /\ \A p \in Order \ {o} : audit'[p] = audit[p] /\ rebates'[p] = rebates[p]
          /\ UNCHANGED <<row, code, delivered, upstream>>
      BY <1>2, <1>3, <2>4 DEF ApplyRebate
    <3>5. OrderOK(o)'
      BY <1>3, <1>4, <3>1, <3>2, <3>3, <3>4 DEF OrderOK
    <3>6. QED
      BY <1>6, <3>1, <3>2, <3>4, <3>5 DEF Kept, CreateRedeemCode
  <2>5. QED
    BY <2>1, <2>2, <2>3, <2>4
<1>8. WorkerOK(w)'
  BY <1>3, <1>4, <1>5, <1>6, <1>7 DEF WorkerOK, Delivering
<1>9. QED
  BY <1>4, <1>6, <1>7, <1>8, StepOnOrder

\* The inserted order is new: nobody else has it, so its payment has one opener.
LEMMA InsertKeeps ==
    ASSUME IInv, TypeInvariant', NEW w \in Worker, NEW o \in Order, InsertOrder(w, o)
    PROVE  IInv'
<1>1. /\ row \in [Order -> Row] /\ row[o].status = "ABSENT" /\ OrderOK(o)
      /\ UNCHANGED <<audit, code, delivered, rebates, upstream>>
  BY DEF InsertOrder, IInv, TypeInvariant, TypeOK
<1>2. /\ pc'[w] = "createPayment" /\ job'[w] = o
      /\ \A v \in Worker \ {w} : pc'[v] = pc[v] /\ job'[v] = job[v]
  BY DEF InsertOrder, IInv, TypeInvariant, TypeOK
<1> PICK t \in OrderTypes : Write(o, [AbsentRow EXCEPT !.status = "PENDING", !.type = t])
  BY DEF InsertOrder
<1>3. /\ row'[o].status = "PENDING" /\ row'[o].paidAt = FALSE /\ row'[o].type = t
      /\ \A p \in Order \ {o} : row'[p] = row[p]
  <2>1. /\ [AbsentRow EXCEPT !.status = "PENDING", !.type = t] \in Row
        /\ [AbsentRow EXCEPT !.status = "PENDING", !.type = t].status = "PENDING"
        /\ [AbsentRow EXCEPT !.status = "PENDING", !.type = t].paidAt = FALSE
        /\ [AbsentRow EXCEPT !.status = "PENDING", !.type = t].type = t
    BY DEF AbsentRow, Row, Status
  <2>2. QED
    BY <1>1, <2>1, WriteEffect
<1>4. \A v \in Worker : pc[v] \notin {"idle", "insert"} => job[v] # o
  BY <1>1 DEF IInv, WorkerOK
<1>5. \A p \in Order : OrderOK(p)' /\ Kept(p)
  <2>1. OrderOK(o)' /\ Kept(o)
    <3>1. delivered[o] = 0 /\ t \in {"balance", "subscription", "other"}
      BY <1>1, OrderAssumption DEF OrderOK, IInv, TypeInvariant, TypeOK
    <3>2. QED
      BY <1>1, <1>3, <3>1 DEF OrderOK, Kept, RebateDecided
  <2>2. QED
    BY <1>1, <1>3, <2>1, UntouchedOrderKept
<1>6. OneOpener'
  BY <1>2, <1>4 DEF IInv, OneOpener
<1>7. \A v \in Worker : WorkerOK(v)'
  <2>1. WorkerOK(w)'
    BY <1>1, <1>2, <1>3 DEF WorkerOK, OrderOK, Delivering
  <2>2. QED
    BY <1>1, <1>2, <1>5, <2>1, IdleWorkerKept
<1>8. QED
  BY <1>5, <1>6, <1>7 DEF IInv

\* What the provider does to a payment never takes one back that was made.
LEMMA UpstreamKeeps ==
    ASSUME IInv, TypeInvariant', NEW w \in Worker, CreatePayment(w) \/ CancelUpstream(w)
    PROVE  IInv'
<1> USE DEF At
<1>1. PICK o \in Order : job[w] = o
  BY JobOK DEF CreatePayment, CancelUpstream
<1>2. /\ TypeInvariant /\ OrderOK(o) /\ WorkerOK(w) /\ row[o].status # "ABSENT"
      /\ upstream \in [Order -> {"none", "open", "closed", "paid", "underpaid"}]
      /\ UNCHANGED <<row, audit, code, delivered, rebates>>
  BY <1>1, JobOK DEF CreatePayment, CancelUpstream, TypeInvariant, TypeOK
<1>3. PICK l \in {"recordPayment", "createFailed", "cancel"} :
          /\ pc'[w] = l /\ job'[w] = o
          /\ \A v \in Worker \ {w} : pc'[v] = pc[v] /\ job'[v] = job[v]
  BY <1>1, <1>2, GotoEffect DEF CreatePayment, CancelUpstream, Location, TypeInvariant
<1>4. /\ \A p \in Order \ {o} : upstream'[p] = upstream[p]
      /\ upstream[o] = "paid" => upstream'[o] = "paid"
  BY <1>1, <1>2 DEF CreatePayment, CancelUpstream, WorkerOK
<1>5. \A v \in Worker \ {w} : pc[v] = "createPayment" => upstream'[job[v]] = upstream[job[v]]
  <2>1. SUFFICES ASSUME NEW v \in Worker \ {w}, pc[v] = "createPayment"
                 PROVE  upstream'[job[v]] = upstream[job[v]]
    OBVIOUS
  <2>2. job[v] \in Order /\ upstream[job[v]] = "none"
    BY <2>1, JobOK DEF WorkerOK
  <2>3. CASE CreatePayment(w)
    BY <1>1, <1>4, <2>1, <2>2, <2>3 DEF CreatePayment, IInv, OneOpener
  <2>4. CASE CancelUpstream(w)
    BY <1>1, <1>2, <1>4, <2>2, <2>4 DEF CancelUpstream
  <2>5. QED
    BY <2>3, <2>4
<1>6. \A p \in Order : OrderOK(p)' /\ Kept(p)
  <2>1. OrderOK(o)' /\ Kept(o)
    BY <1>2, <1>4 DEF OrderOK, Kept, RebateDecided
  <2>2. QED
    BY <1>2, <1>4, <2>1, UntouchedOrderKept
<1>7. WorkerOK(w)'
  BY <1>2, <1>3 DEF WorkerOK, Delivering
<1>8. QED
  BY <1>3, <1>5, <1>6, <1>7, StepOfWorker

\* The customer pays, the deadline passes, five minutes pass.
LEMMA EnvironmentKeeps ==
    ASSUME IInv, TypeInvariant', NEW o \in Order, Environment(o)
    PROVE  IInv'
<1>1. UNCHANGED <<audit, code, delivered, rebates, pc, job>>
  BY DEF Environment, Pay, PassDeadline, Age, orderVars, workerVars
<1>2. /\ row \in [Order -> Row]
      /\ upstream \in [Order -> {"none", "open", "closed", "paid", "underpaid"}]
  BY DEF IInv, TypeInvariant, TypeOK
<1>3. /\ \A p \in Order : /\ row'[p].status = row[p].status /\ row'[p].type = row[p].type
                          /\ row'[p].paidAt = row[p].paidAt
      /\ \A p \in Order \ {o} : upstream'[p] = upstream[p]
      /\ upstream'[o] = upstream[o] \/ upstream[o] = "open"
  <2>1. CASE Pay(o)
    BY <1>2, <2>1 DEF Pay, orderVars
  <2>2. CASE PassDeadline(o)
    BY <1>2, <2>2 DEF PassDeadline, Row
  <2>3. CASE Age(o)
    BY <1>2, <2>3 DEF Age, Row
  <2>4. QED
    BY <2>1, <2>2, <2>3 DEF Environment
<1>4. \A p \in Order : OrderOK(p)' /\ Kept(p)
  <2>1. OrderOK(o)' /\ Kept(o)
    BY <1>1, <1>3 DEF IInv, OrderOK, Kept, RebateDecided
  <2>2. QED
    BY <1>1, <1>3, <2>1, UntouchedOrderKept
<1>5. \A v \in Worker : pc[v] = "createPayment" => upstream'[job[v]] = upstream[job[v]]
  BY <1>3, JobOK DEF WorkerOK
<1>6. \A v \in Worker : WorkerOK(v)'
  BY <1>1, <1>4, <1>5, IdleWorkerKept
<1>7. OneOpener'
  BY <1>1 DEF IInv, OneOpener
<1>8. QED
  BY <1>4, <1>6, <1>7 DEF IInv

\* Every step keeps the inductive invariant.
LEMMA InvariantStep == IInv /\ [Next]_vars => IInv'
<1> SUFFICES ASSUME IInv, [Next]_vars
             PROVE  IInv'
  OBVIOUS
<1>1. TypeInvariant'
  BY TypeStep DEF IInv
<1>2. CASE UNCHANGED vars
  <2>1. OneOpener' /\ (\A o \in Order : OrderOK(o)')
    BY <1>2 DEF vars, IInv, OneOpener, OrderOK, RebateDecided
  <2>2. \A w \in Worker : WorkerOK(w)'
    BY <1>2 DEF vars, IInv, WorkerOK, RebateDecided
  <2>3. QED
    BY <1>1, <2>1, <2>2 DEF IInv
<1>3. ASSUME NEW w \in Worker, Step(w)
      PROVE  IInv'
  BY <1>1, <1>3, InsertKeeps, UpstreamKeeps, WriteKeeps, ReadKeeps, LeaseKeeps, DeliverKeeps DEF Step
<1>4. ASSUME NEW w \in Worker,
             CheckPendingLimit(w) \/ SwallowError(w) \/ FulfillmentError(w) \/ Crash(w)
      PROVE  IInv'
  BY <1>1, <1>4, StartKeeps, ReadKeeps
<1>5. ASSUME NEW w \in Worker, NEW o \in Order, Start(w, o)
      PROVE  IInv'
  BY <1>1, <1>5, StartKeeps
<1>6. ASSUME NEW o \in Order, Environment(o)
      PROVE  IInv'
  BY <1>1, <1>6, EnvironmentKeeps
<1>7. QED
  BY <1>2, <1>3, <1>4, <1>5, <1>6 DEF Next

\* So it holds in every state the calls can reach.
LEMMA Invariance == Spec => []IInv
BY InvariantInit, InvariantStep, PTL DEF Spec

\* The inductive invariant as the module of the specification states it.
THEOREM EvidenceMatchesDelivery == Spec => []DeliveryInvariant
<1>1. IInv => DeliveryInvariant
  BY Regrouped
<1>2. QED
  BY <1>1, Invariance, PTL

\* No order is delivered or rewarded twice, and none is rewarded undelivered, for any
\* number of concurrent webhooks, queries, retries and crashes.
THEOREM AtMostOnce == Spec => []DeliveredAtMostOnce
<1>1. IInv => DeliveredAtMostOnce
  <2>1. SUFFICES ASSUME IInv, NEW o \in Order
                 PROVE  delivered[o] <= 1 /\ rebates[o] <= delivered[o]
    BY DEF DeliveredAtMostOnce
  <2>2. OrderOK(o)
    BY <2>1 DEF IInv
  <2>3. rebates[o] \in Nat
    BY <2>1 DEF IInv, TypeInvariant, TypeOK
  <2>4. OrderType(o) \in {"balance", "subscription", "other", "none"}
    BY <2>1, OrderAssumption DEF IInv, TypeInvariant, TypeOK, Row
  <2>5. delivered[o] \in {0, 1}
    BY <2>2, <2>4 DEF OrderOK
  <2>6. QED
    BY <2>2, <2>3, <2>5 DEF OrderOK
<1>2. QED
  BY <1>1, Invariance, PTL

\* Nothing is delivered that the provider does not hold the full price of.
THEOREM OnlyIfPaid == Spec => []DeliveredOnlyIfPaid
<1>1. IInv => DeliveredOnlyIfPaid
  BY DEF IInv, OrderOK, DeliveredOnlyIfPaid
<1>2. QED
  BY <1>1, Invariance, PTL

\* A COMPLETED order was delivered, whoever completed it.
THEOREM CompletedMeansDelivered == Spec => []CompletedIsDelivered
<1>1. IInv => CompletedIsDelivered
  BY DEF IInv, OrderOK, CompletedIsDelivered
<1>2. QED
  BY <1>1, Invariance, PTL

------------------------------------------------------------------------------
(* The action property.                                                     *)

\* One step never takes back a confirmation: the conditional updates of cancelCore
\* and toPaid do not match an order that has its paid_at, and the unconditional
\* FAILED of CreateOrder keeps paid_at.
LEMMA PaidAtKept ==
    ASSUME IInv, [Next]_vars, NEW o \in Order, row[o].paidAt
    PROVE  row'[o].paidAt
<1>1. /\ row \in [Order -> Row] /\ row[o].status # "ABSENT" /\ row[o].status # "PENDING"
      /\ OrderOK(o)
  BY DEF IInv, TypeInvariant, TypeOK, OrderOK
<1>2. CASE UNCHANGED row
  BY <1>2
<1>3. ASSUME NEW w \in Worker, NEW p \in Order, InsertOrder(w, p)
      PROVE  row'[o].paidAt
  <2>1. PICK t \in OrderTypes : Write(p, [AbsentRow EXCEPT !.status = "PENDING", !.type = t])
    BY <1>3 DEF InsertOrder
  <2>2. [AbsentRow EXCEPT !.status = "PENDING", !.type = t] \in Row /\ o # p
    BY <1>1, <1>3 DEF InsertOrder, AbsentRow, Row, Status
  <2>3. QED
    BY <1>1, <2>1, <2>2, WriteEffect
<1>4. ASSUME NEW w \in Worker,
             \/ RecordPayment(w) \/ CreateFailed(w) \/ PersistTradeNo(w) \/ CancelPending(w)
             \/ ConfirmPayment(w) \/ RejectUnsupported(w) \/ AcquireLease(w) \/ ReloadLease(w)
             \/ MarkCompleted(w) \/ MarkFailed(w)
      PROVE  row'[o].paidAt
  <2>1. pc[w] \notin {"idle", "insert"}
    BY <1>4 DEF RecordPayment, CreateFailed, PersistTradeNo, CancelPending, ConfirmPayment,
        RejectUnsupported, AcquireLease, ReloadLease, MarkCompleted, MarkFailed, At
  <2>2. PICK p \in Order : job[w] = p
    BY <2>1, JobOK
  <2>3. row[p] \in Row
    BY <1>1
  <2>4. CASE \E s \in Status : SetStatus(p, s)
    BY <1>1, <2>4, SetStatusEffect
  <2>5. CASE Write(p, row[p])
    BY <1>1, <2>3, <2>5, WriteEffect
  <2>6. CASE Write(p, [row[p] EXCEPT !.status = "PAID", !.paidAt = TRUE])
    <3>1. /\ [row[p] EXCEPT !.status = "PAID", !.paidAt = TRUE] \in Row
          /\ [row[p] EXCEPT !.status = "PAID", !.paidAt = TRUE].paidAt = TRUE
      BY <2>3 DEF Row, Status
    <3>2. QED
      BY <1>1, <2>6, <3>1, WriteEffect
  <2>7. CASE ReloadLease(w)
    BY <1>1, <1>2, <2>2, <2>7 DEF ReloadLease, Row
  <2>8. CASE CancelPending(w)
    <3>1. call[w] \in Status
      BY <2>8 DEF CancelPending, IInv, TypeInvariant, CallsKeepPurpose, At, Status
    <3>2. QED
      BY <1>2, <2>2, <2>4, <2>8, <3>1 DEF CancelPending
  <2>9. {"FAILED", "RECHARGING", "COMPLETED"} \subseteq Status
    BY DEF Status
  <2>10. QED
    BY <1>2, <1>4, <2>2, <2>4, <2>5, <2>6, <2>7, <2>8, <2>9
    DEF RecordPayment, CreateFailed, PersistTradeNo, ConfirmPayment, RejectUnsupported,
        AcquireLease, MarkCompleted, MarkFailed
<1>5. ASSUME NEW p \in Order, Environment(p)
      PROVE  row'[o].paidAt
  <2>1. CASE Pay(p)
    BY <1>2, <2>1 DEF Pay, orderVars
  <2>2. CASE PassDeadline(p)
    BY <1>1, <2>2 DEF PassDeadline, Row
  <2>3. CASE Age(p)
    BY <1>1, <2>3 DEF Age, Row
  <2>4. QED
    BY <1>5, <2>1, <2>2, <2>3 DEF Environment
<1>6. QED
  <2>1. ASSUME NEW w \in Worker, Step(w) PROVE row'[o].paidAt
    BY <1>2, <1>3, <1>4, <2>1
    DEF Step, CreatePayment, QueryOrder, CancelUpstream, AlreadyProcessed, LookupRedeemCode,
        CreateRedeemCode, Redeem, AssignSubscription, ApplyRebate
  <2>2. ASSUME NEW w \in Worker,
               CheckPendingLimit(w) \/ SwallowError(w) \/ FulfillmentError(w) \/ Crash(w)
        PROVE  row'[o].paidAt
    BY <1>2, <2>2 DEF CheckPendingLimit, SwallowError, FulfillmentError, Crash
  <2>3. ASSUME NEW w \in Worker, NEW p \in Order, Start(w, p) PROVE row'[o].paidAt
    BY <1>2, <2>3 DEF Start, CancelOrder, ExpireOrder, VerifyOrder, Webhook, RetryFulfillment
  <2>4. QED
    BY <1>2, <1>5, <2>1, <2>2, <2>3 DEF Next, vars

\* A confirmed payment is never withdrawn by a cancellation, the expiry job, the error
\* path of the creation or a retry.
THEOREM NeverWithdrawn == Spec => PaidNeverWithdrawn
<1>1. IInv /\ IInv' /\ [Next]_vars =>
        [\A o \in Order :
            row[o].paidAt => /\ row'[o].paidAt
                             /\ row'[o].status \in {"PAID", "RECHARGING", "COMPLETED", "FAILED"}]_vars
  BY PaidAtKept DEF IInv, OrderOK
<1>2. QED
  BY <1>1, Invariance, PTL DEF Spec, PaidNeverWithdrawn

------------------------------------------------------------------------------
(* Refinement of the ledger.                                                *)

\* The initial state is one of the ledger.
LEMMA LedgerInit == Init => Ledger!Init
BY DEF Init, Ledger!Init

\* Only the customer's payment makes an order received.
LEMMA ReceivedStep ==
    ASSUME IInv, [Next]_vars,
           \A o \in Order : Environment(o) => UNCHANGED upstream
    PROVE  \A o \in Order : upstream'[o] = "paid" <=> upstream[o] = "paid"
<1>1. CASE UNCHANGED upstream
  BY <1>1
<1>2. ASSUME NEW w \in Worker, CreatePayment(w) \/ CancelUpstream(w)
      PROVE  \A o \in Order : upstream'[o] = "paid" <=> upstream[o] = "paid"
  <2>1. /\ job[w] \in Order /\ WorkerOK(w)
        /\ upstream \in [Order -> {"none", "open", "closed", "paid", "underpaid"}]
    BY <1>2, JobOK DEF CreatePayment, CancelUpstream, At, TypeInvariant, TypeOK
  <2>2. QED
    BY <1>2, <2>1 DEF CreatePayment, CancelUpstream, At, WorkerOK
<1>3. ASSUME NEW w \in Worker, Step(w)
      PROVE  \A o \in Order : upstream'[o] = "paid" <=> upstream[o] = "paid"
  BY <1>1, <1>2, <1>3
  DEF Step, InsertOrder, RecordPayment, CreateFailed, QueryOrder, PersistTradeNo, CancelPending,
      ConfirmPayment, AlreadyProcessed, RejectUnsupported, AcquireLease, ReloadLease,
      LookupRedeemCode, CreateRedeemCode, Redeem, AssignSubscription, ApplyRebate,
      MarkCompleted, MarkFailed
<1>4. ASSUME NEW w \in Worker,
             CheckPendingLimit(w) \/ SwallowError(w) \/ FulfillmentError(w) \/ Crash(w)
      PROVE  UNCHANGED upstream
  BY <1>4 DEF CheckPendingLimit, SwallowError, FulfillmentError, Crash
<1>5. ASSUME NEW w \in Worker, NEW o \in Order, Start(w, o)
      PROVE  UNCHANGED upstream
  BY <1>5 DEF Start, CancelOrder, ExpireOrder, VerifyOrder, Webhook, RetryFulfillment
<1>6. QED
  BY <1>1, <1>3, <1>4, <1>5 DEF Next, vars

Received == {o \in Order : upstream[o] = "paid"}

\* Every step of the calls is a step of the ledger or leaves it alone.
LEMMA LedgerStep == IInv /\ [Next]_vars => [Ledger!Next]_Ledger!vars
<1> SUFFICES ASSUME IInv, [Next]_vars
             PROVE  [Ledger!Next]_Ledger!vars
  OBVIOUS
<1>1. /\ upstream \in [Order -> {"none", "open", "closed", "paid", "underpaid"}]
      /\ delivered \in [Order -> Nat] /\ rebates \in [Order -> Nat]
  BY DEF IInv, TypeInvariant, TypeOK
<1>2. CASE Received' = Received /\ UNCHANGED <<delivered, rebates>>
  BY <1>2 DEF Received, Ledger!vars
<1>3. ASSUME NEW o \in Order, Environment(o)
      PROVE  [Ledger!Next]_Ledger!vars
  <2>1. CASE Pay(o)
    <3>1. PICK p \in {"paid", "underpaid"} : upstream' = [upstream EXCEPT ![o] = p]
      BY <2>1 DEF Pay
    <3>2. upstream[o] = "open" /\ UNCHANGED <<delivered, rebates>>
      BY <2>1 DEF Pay, orderVars
    <3>3. CASE p = "paid"
      <4>1. Received' = Received \union {o}
        BY <1>1, <3>1, <3>2, <3>3 DEF Received
      <4>2. Ledger!Receive(o)
        BY <3>2, <4>1 DEF Ledger!Receive, Received
      <4>3. QED
        BY <4>2 DEF Ledger!Next
    <3>4. CASE p = "underpaid"
      <4>1. Received' = Received
        BY <1>1, <3>1, <3>2, <3>4 DEF Received
      <4>2. QED
        BY <1>2, <3>2, <4>1
    <3>5. QED
      BY <3>1, <3>3, <3>4
  <2>2. CASE PassDeadline(o) \/ Age(o)
    BY <1>2, <2>2 DEF PassDeadline, Age, Received
  <2>3. QED
    BY <1>3, <2>1, <2>2 DEF Environment
<1>4. CASE \A o \in Order : Environment(o) => UNCHANGED upstream
  <2>1. Received' = Received
    BY <1>4, ReceivedStep DEF Received
  <2>2. CASE UNCHANGED <<delivered, rebates>>
    BY <1>2, <2>1, <2>2
  <2>3. ASSUME NEW w \in Worker, Redeem(w) \/ AssignSubscription(w)
        PROVE  [Ledger!Next]_Ledger!vars
    <3>1. pc[w] \in {"redeem", "assign"}
      BY <2>3 DEF Redeem, AssignSubscription, At
    <3>2. PICK o \in Order : job[w] = o
      BY <3>1, JobOK
    <3>3. OrderOK(o) /\ WorkerOK(w)
      BY <3>1, <3>2, JobOK
    <3>4. upstream[o] = "paid"
      BY <3>1, <3>2, <3>3 DEF WorkerOK, Delivering
    <3>5. CASE delivered' = [delivered EXCEPT ![o] = @ + 1] /\ delivered[o] = 0
      <4>1. UNCHANGED rebates /\ delivered' = [delivered EXCEPT ![o] = 1]
        BY <1>1, <2>3, <3>5 DEF Redeem, AssignSubscription
      <4>2. Ledger!Deliver(o)
        BY <2>1, <3>4, <3>5, <4>1 DEF Ledger!Deliver, Received
      <4>3. QED
        BY <4>2 DEF Ledger!Next
    <3>6. CASE Redeem(w) /\ CodeUsable(o) /\ delivered' = [delivered EXCEPT ![o] = @ + 1]
      BY <3>1, <3>2, <3>3, <3>5, <3>6 DEF Redeem, CodeUsable, At, WorkerOK, OrderOK
    <3>7. CASE AssignSubscription(w) /\ ~SubscriptionAssigned(o)
      BY <3>1, <3>2, <3>3, <3>5, <3>7
      DEF AssignSubscription, SubscriptionAssigned, At, WorkerOK, OrderOK
    <3>8. QED
      BY <2>2, <2>3, <3>2, <3>6, <3>7 DEF Redeem, AssignSubscription
  <2>4. ASSUME NEW w \in Worker, ApplyRebate(w)
        PROVE  [Ledger!Next]_Ledger!vars
    <3>1. PICK o \in Order : job[w] = o
      BY <2>4, JobOK DEF ApplyRebate, At
    <3>2. OrderOK(o) /\ delivered[o] = 1
      BY <2>4, <3>1, JobOK DEF ApplyRebate, At, WorkerOK
    <3>3. CASE UNCHANGED rebates
      BY <2>2, <2>4, <3>3 DEF ApplyRebate
    <3>4. CASE rebates' = [rebates EXCEPT ![o] = @ + 1] /\ ~RebateDecided(o)
      <4>1. rebates[o] = 0
        BY <1>1, <3>2, <3>4 DEF OrderOK
      <4>2. UNCHANGED delivered /\ rebates' = [rebates EXCEPT ![o] = 1]
        BY <1>1, <2>4, <3>4, <4>1 DEF ApplyRebate
      <4>3. Ledger!Rebate(o)
        BY <2>1, <3>2, <4>1, <4>2 DEF Ledger!Rebate, Received
      <4>4. QED
        BY <4>3 DEF Ledger!Next
    <3>5. QED
      BY <2>4, <3>1, <3>3, <3>4 DEF ApplyRebate
  <2>5. ASSUME NEW w \in Worker, Step(w), ~Redeem(w), ~AssignSubscription(w), ~ApplyRebate(w)
        PROVE  UNCHANGED <<delivered, rebates>>
    BY <2>5 DEF Step, InsertOrder, CreatePayment, RecordPayment, CreateFailed, QueryOrder,
        PersistTradeNo, CancelUpstream, CancelPending, ConfirmPayment, AlreadyProcessed,
        RejectUnsupported, AcquireLease, ReloadLease, LookupRedeemCode, CreateRedeemCode,
        MarkCompleted, MarkFailed
  <2>6. ASSUME NEW w \in Worker,
               CheckPendingLimit(w) \/ SwallowError(w) \/ FulfillmentError(w) \/ Crash(w)
        PROVE  UNCHANGED <<delivered, rebates>>
    BY <2>6 DEF CheckPendingLimit, SwallowError, FulfillmentError, Crash
  <2>7. ASSUME NEW w \in Worker, NEW o \in Order, Start(w, o)
        PROVE  UNCHANGED <<delivered, rebates>>
    BY <2>7 DEF Start, CancelOrder, ExpireOrder, VerifyOrder, Webhook, RetryFulfillment
  <2>8. ASSUME NEW w \in Worker, Step(w)
        PROVE  [Ledger!Next]_Ledger!vars
    BY <2>2, <2>3, <2>4, <2>5, <2>8
  <2>9. CASE UNCHANGED vars
    BY <2>2, <2>9 DEF vars
  <2>10. QED
    BY <1>3, <2>2, <2>6, <2>7, <2>8, <2>9 DEF Next
<1>5. QED
  BY <1>3, <1>4

\* The whole order life cycle implements the ledger: one delivery of a payment in
\* full, then at most one rebate.
THEOREM LedgerImplemented == Spec => ImplementsLedger
<1>1. Spec => Ledger!Init /\ [][Ledger!Next]_Ledger!vars
  BY LedgerInit, LedgerStep, Invariance, PTL DEF Spec
<1>2. QED
  BY <1>1 DEF ImplementsLedger, Ledger!Spec
=============================================================================
