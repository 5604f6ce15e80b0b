-------------------------- MODULE BatchImageProofs --------------------------
(* What BatchImage guarantees for any number of workers, callers, faults and *)
(* pauses, and what it guarantees as long as there are few of them.          *)
EXTENDS BatchImage, TLAPS

Processes == Worker \union Caller

Location == WorkerLocation \union CallerLocation

(* TypeOK, in the parts that a step changes as a whole. *)
DataTyped ==
    /\ status \in Status
    /\ named \in BOOLEAN /\ hidden \in BOOLEAN
    /\ retries \in 0 .. MaxRetries
    /\ claims \subseteq {"hold", "capture", "release"}
    /\ balance \in Nat /\ frozen \in Nat
    /\ ready \in 0 .. MaxReady
    /\ delayed \in BOOLEAN /\ active \in BOOLEAN /\ inflight \in BOOLEAN

(* And in the parts that stay apart. *)
RestTyped ==
    /\ lock \in Worker \union {None}
    /\ upstream \in {"none", "running", "succeeded", "failed", "cancelled"}
    /\ cost \in Nat
    /\ faults \in 0 .. MaxFaults
    /\ pauses \in 0 .. MaxPauses

(* Where the processes are. *)
Located == pc \in [Processes -> Location]

(* TypeOK in these parts. *)
LEMMA TypeParts == TypeOK <=> DataTyped /\ RestTyped /\ Located
BY DEF TypeOK, DataTyped, RestTyped, Located, Processes, Location

-----------------------------------------------------------------------------
(* What the helpers of the actions do *)

(* The places named by the sets above are places of the code. *)
LEMMA Locations ==
    \A l : l \in Location <=> l \in
        {"idle", "reserve", "items", "upload", "provider", "record", "releaseFail",
         "releaseInvalid", "markFailed", "markRetry", "abort", "enqueue", "cancelLocal",
         "cancelUpstream", "releaseEnd", "retry", "lock", "conflict", "ack", "requeue",
         "unlock", "read", "process", "get", "toRunning", "toIndexing", "toFailed",
         "toCancelled", "index", "toSettling", "settle", "capture", "markSettled",
         "recordFailure", "exhaust", "toExhausted", "recheck", "releaseTerminal"}
BY DEF Location, CallerLocation, WorkerLocation, Submitting, Processing

(* A process that moves leaves the others where they are. *)
Others(p) == \A q \in Processes \ {p} : pc'[q] = pc[q]

(* A step of one process moves no other. *)
LEMMA GotoEffect ==
    ASSUME Located, NEW p \in Processes, NEW l, Goto(p, l)
    PROVE  pc'[p] = l /\ Others(p)
BY DEF Goto, Located, Others

(* It leads to a place of the code. *)
LEMMA GotoLocated ==
    ASSUME Located, NEW p \in Processes, NEW l \in Location, Goto(p, l)
    PROVE  Located'
BY DEF Goto, Located

(* The transitions of a job's status, by where they lead. *)
LEMMA TransitionTable ==
    \A s :
        /\ CanTransition(s, "uploading") => s = "created"
        /\ CanTransition(s, "submitted") => s \in {"created", "uploading"}
        /\ CanTransition(s, "running") => s \in {"submitted", "running"}
        /\ CanTransition(s, "indexing") => s \in {"submitted", "running"}
        /\ CanTransition(s, "settling") => s = "indexing"
        /\ CanTransition(s, "cancelled") =>
              s \in {"created", "uploading", "submitted", "running"}
        /\ CanTransition(s, "failed") =>
              s \in {"created", "uploading", "submitted", "running", "indexing", "settling"}
BY DEF CanTransition, Transitions

(* Every statement and script keeps the types of the data. *)
LEMMA StatusTyped ==
    ASSUME DataTyped
    PROVE  /\ \A s \in Status : SetStatus(s) => DataTyped'
           /\ \A h \in BOOLEAN : SubmitFailure(h) => DataTyped'
           /\ SetSubmitted => DataTyped'
           /\ CountFailure => DataTyped'
           /\ UNCHANGED data => DataTyped'
<1>1. \A s \in Status : SetStatus(s) => DataTyped'
  BY DEF DataTyped, SetStatus, money, queue
<1>2. \A h \in BOOLEAN : SubmitFailure(h) => DataTyped'
  BY DEF DataTyped, SubmitFailure, money, queue, Status
<1>3. SetSubmitted => DataTyped'
  BY DEF DataTyped, SetSubmitted, money, queue, Status
<1>4. CountFailure => DataTyped'
  <2>1. CountFailure => retries' \in 0 .. MaxRetries
    BY BatchAssumption DEF DataTyped, CountFailure
  <2>2. QED
    BY <2>1 DEF DataTyped, CountFailure, money, queue
<1>5. UNCHANGED data => DataTyped'
  BY DEF DataTyped, data, job, money, queue
<1>6. QED
  BY <1>1, <1>2, <1>3, <1>4, <1>5

(* Every script of the queue keeps its types. *)
LEMMA QueueTyped ==
    ASSUME DataTyped
    PROVE  Enqueue \/ Reserve \/ RequeueAfter \/ Ack \/ Recovered
             \/ SetQueue(ready + 1, FALSE, active, inflight) => DataTyped'
<1>1. ASSUME NEW r \in Nat, NEW d \in BOOLEAN, NEW a \in BOOLEAN, NEW i \in BOOLEAN,
             SetQueue(r, d, a, i)
      PROVE  DataTyped'
  <2>1. ready' \in 0 .. MaxReady
    BY <1>1 DEF SetQueue
  <2>2. QED
    BY <1>1 DEF DataTyped, SetQueue, job, money
<1>2. ready \in Nat /\ ready + 1 \in Nat /\ (ready > 0 => ready - 1 \in Nat)
  BY DEF DataTyped
<1>3. delayed \in BOOLEAN /\ active \in BOOLEAN /\ inflight \in BOOLEAN
  BY DEF DataTyped
<1>4. Enqueue => DataTyped'
  <2>1. CASE inflight
    BY <1>1, <1>2, <1>3 DEF Enqueue
  <2>2. CASE ~inflight
    BY <1>1, <1>2, <1>3 DEF Enqueue
  <2>3. QED
    BY <2>1, <2>2
<1>5. Reserve \/ RequeueAfter \/ Ack \/ Recovered => DataTyped'
  BY <1>1, <1>2, <1>3 DEF Reserve, RequeueAfter, Ack, Recovered
<1>6. QED
  BY <1>1, <1>2, <1>3, <1>4, <1>5

(* Every transaction keeps the money natural. *)
LEMMA MoneyTyped ==
    ASSUME DataTyped, cost \in Nat
    PROVE  /\ ReserveHold => DataTyped'
           /\ CaptureHold /\ cost <= Hold => DataTyped'
           /\ ReleaseHold => DataTyped'
<1>1. ASSUME NEW id \in {"hold", "capture", "release"},
             NEW b \in Nat, NEW f \in Nat, Claim(id, b, f)
      PROVE  DataTyped'
  BY <1>1 DEF DataTyped, Claim, job, queue
<1>2. Hold \in Nat /\ balance \in Nat /\ frozen \in Nat
  BY BatchAssumption DEF DataTyped
<1>3. ASSUME NEW id, Claimed(id)
      PROVE  DataTyped'
  BY <1>3, StatusTyped DEF Claimed
<1>4. ReserveHold => DataTyped'
  <2>1. Affordable => balance - Hold \in Nat /\ frozen + Hold \in Nat
    BY <1>2 DEF Affordable
  <2>2. QED
    BY <1>1, <2>1 DEF ReserveHold
<1>5. CaptureHold /\ cost <= Hold => DataTyped'
  <2>1. cost <= Hold /\ frozen >= Hold => balance + Hold - cost \in Nat /\ frozen - Hold \in Nat
    BY <1>2
  <2>2. QED
    BY <1>1, <1>3, <2>1 DEF CaptureHold
<1>6. ReleaseHold => DataTyped'
  <2>1. frozen >= Hold => balance + Hold \in Nat /\ frozen - Hold \in Nat
    BY <1>2
  <2>2. QED
    BY <1>1, <1>2, <1>3 DEF ReleaseHold
<1>7. QED
  BY <1>4, <1>5, <1>6

-----------------------------------------------------------------------------
(* Types *)

(* A worker that is about to capture the hold has compared it with the cost. *)
CostWithinHold == \A w \in Worker : At(w, "capture") => cost <= Hold

(* Every step keeps the types: one step of the proof per action. *)
LEMMA TypesKept ==
    ASSUME TypeOK, CostWithinHold, [Next]_vars
    PROVE  TypeOK'
<1> USE TypeParts, BatchAssumption DEF Processes
<1>1. ASSUME NEW c \in Caller, CreateJob(c)
      PROVE  DataTyped' /\ RestTyped' /\ Located'
  BY <1>1, StatusTyped, GotoLocated, Locations DEF CreateJob, Try, Fault, Status, RestTyped
<1>2. ASSUME NEW c \in Caller, Resubmit(c)
      PROVE  DataTyped' /\ RestTyped' /\ Located'
  BY <1>2, StatusTyped, GotoLocated, Locations DEF Resubmit, Decide, RestTyped
<1>3. ASSUME NEW c \in Caller, Cancel(c)
      PROVE  DataTyped' /\ RestTyped' /\ Located'
  BY <1>3, StatusTyped, GotoLocated, Locations DEF Cancel, Decide, RestTyped
<1>4. ASSUME NEW c \in Caller, FailStale(c)
      PROVE  DataTyped' /\ RestTyped' /\ Located'
  BY <1>4, StatusTyped, GotoLocated, Locations
  DEF FailStale, Pause, Try, Fault, Status, RestTyped
<1>5. ASSUME NEW c \in Caller, DeleteRecord(c)
      PROVE  DataTyped' /\ RestTyped' /\ Located'
  <2>1. DataTyped'
    BY <1>5 DEF DeleteRecord, DataTyped, money, queue
  <2>2. RestTyped'
    BY <1>5 DEF DeleteRecord, RestTyped
  <2>3. Located'
    BY <1>5 DEF DeleteRecord, Located
  <2>4. QED
    BY <2>1, <2>2, <2>3
<1>6. ASSUME NEW c \in Caller, DeleteOutput(c)
      PROVE  DataTyped' /\ RestTyped' /\ Located'
  BY <1>6, StatusTyped DEF DeleteOutput, Status, RestTyped, Located
<1>7. ASSUME NEW c \in Caller, SubmitReserve(c)
      PROVE  DataTyped' /\ RestTyped' /\ Located'
  BY <1>7, StatusTyped, MoneyTyped, GotoLocated, Locations
  DEF SubmitReserve, Try, Fault, Decide, RestTyped
<1>8. ASSUME NEW c \in Caller, CreateItems(c)
      PROVE  DataTyped' /\ RestTyped' /\ Located'
  <2>1. DataTyped'
    BY <1>8, StatusTyped DEF CreateItems, Try
  <2>2. RestTyped'
    BY <1>8 DEF CreateItems, Try, Fault, RestTyped
  <2>3. Located'
    BY <1>8, GotoLocated, Locations DEF CreateItems, Try
  <2>4. QED
    BY <2>1, <2>2, <2>3
<1>9. ASSUME NEW c \in Caller, StartUpload(c)
      PROVE  DataTyped' /\ RestTyped' /\ Located'
  <2>1. DataTyped'
    BY <1>9, StatusTyped DEF StartUpload, Transition, Try, Decide, Status
  <2>2. RestTyped'
    BY <1>9 DEF StartUpload, Transition, Try, Fault, Decide, RestTyped
  <2>3. Located'
    BY <1>9, GotoLocated, Locations DEF StartUpload, Transition, Try, Decide
  <2>4. QED
    BY <2>1, <2>2, <2>3
<1>10. ASSUME NEW c \in Caller, ProviderSubmit(c)
       PROVE  DataTyped' /\ RestTyped' /\ Located'
  BY <1>10, StatusTyped, GotoLocated, Locations DEF ProviderSubmit, Decide, RestTyped
<1>11. ASSUME NEW c \in Caller, RecordSubmit(c)
       PROVE  DataTyped' /\ RestTyped' /\ Located'
  BY <1>11, StatusTyped, GotoLocated, Locations
  DEF RecordSubmit, Try, Fault, Decide, RestTyped
<1>12. ASSUME NEW c \in Caller, AbortOrphan(c)
       PROVE  DataTyped' /\ RestTyped' /\ Located'
  <2>1. DataTyped'
    BY <1>12, StatusTyped DEF AbortOrphan, Decide
  <2>2. RestTyped'
    BY <1>12 DEF AbortOrphan, MayCancel, Decide, RestTyped
  <2>3. Located'
    BY <1>12, GotoLocated, Locations DEF AbortOrphan, Decide
  <2>4. QED
    BY <2>1, <2>2, <2>3
<1>13. ASSUME NEW c \in Caller, EnqueueJob(c)
       PROVE  DataTyped' /\ RestTyped' /\ Located'
  <2>1. DataTyped'
    BY <1>13, StatusTyped, QueueTyped DEF EnqueueJob, Try
  <2>2. RestTyped'
    BY <1>13 DEF EnqueueJob, Try, Fault, RestTyped
  <2>3. Located'
    BY <1>13, GotoLocated, Locations DEF EnqueueJob, Try
  <2>4. QED
    BY <2>1, <2>2, <2>3
<1>14. ASSUME NEW c \in Caller, RecordSubmitFailure(c)
       PROVE  DataTyped' /\ RestTyped' /\ Located'
  <2>1. DataTyped'
    BY <1>14, StatusTyped DEF RecordSubmitFailure, Try
  <2>2. RestTyped'
    <3>1. Fault \/ UNCHANGED faults
      BY <1>14 DEF RecordSubmitFailure, Try
    <3>2. UNCHANGED <<lock, upstream, cost, pauses>>
      BY <1>14 DEF RecordSubmitFailure
    <3>3. QED
      BY <3>1, <3>2 DEF RestTyped, Fault
  <2>3. Located'
    BY <1>14, GotoLocated, Locations DEF RecordSubmitFailure, Try
  <2>4. QED
    BY <2>1, <2>2, <2>3
<1>15. ASSUME NEW c \in Caller, ReleaseFailedSubmit(c)
       PROVE  DataTyped' /\ RestTyped' /\ Located'
  <2>1. DataTyped'
    BY <1>15, StatusTyped, MoneyTyped
    DEF ReleaseFailedSubmit, Release, Try, Decide, RestTyped
  <2>2. RestTyped'
    BY <1>15 DEF ReleaseFailedSubmit, Release, Try, Fault, Decide, RestTyped
  <2>3. Located'
    BY <1>15, GotoLocated, Locations DEF ReleaseFailedSubmit, Release, Try, Decide
  <2>4. QED
    BY <2>1, <2>2, <2>3
<1>16. ASSUME NEW c \in Caller, BillingRetry(c)
       PROVE  DataTyped' /\ RestTyped' /\ Located'
  <2>1. DataTyped'
    BY <1>16, StatusTyped, QueueTyped DEF BillingRetry, Try
  <2>2. RestTyped'
    BY <1>16 DEF BillingRetry, Try, Fault, RestTyped
  <2>3. Located'
    BY <1>16, GotoLocated, Locations DEF BillingRetry, Try
  <2>4. QED
    BY <2>1, <2>2, <2>3
<1>17. ASSUME NEW c \in Caller, CancelUpstream(c)
       PROVE  DataTyped' /\ RestTyped' /\ Located'
  <2>1. DataTyped'
    BY <1>17, StatusTyped, QueueTyped DEF CancelUpstream, Decide, Try
  <2>2. RestTyped'
    BY <1>17 DEF CancelUpstream, Decide, MayCancel, Try, Fault, RestTyped
  <2>3. Located'
    BY <1>17, GotoLocated, Locations DEF CancelUpstream, Decide, Try
  <2>4. QED
    BY <2>1, <2>2, <2>3
<1>18. ASSUME NEW c \in Caller, CancelLocal(c)
       PROVE  DataTyped' /\ RestTyped' /\ Located'
  <2>1. DataTyped'
    BY <1>18, StatusTyped DEF CancelLocal, Transition, Try, Decide, Status
  <2>2. RestTyped'
    BY <1>18 DEF CancelLocal, Transition, Try, Fault, Decide, RestTyped
  <2>3. Located'
    BY <1>18, GotoLocated, Locations DEF CancelLocal, Transition, Try, Decide
  <2>4. QED
    BY <2>1, <2>2, <2>3
<1>19. ASSUME NEW c \in Caller, ReleaseEnd(c)
       PROVE  DataTyped' /\ RestTyped' /\ Located'
  <2>1. DataTyped'
    BY <1>19, StatusTyped, MoneyTyped DEF ReleaseEnd, Release, Try, Decide, RestTyped
  <2>2. RestTyped'
    BY <1>19 DEF ReleaseEnd, Release, Try, Fault, Decide, RestTyped
  <2>3. Located'
    BY <1>19, GotoLocated, Locations DEF ReleaseEnd, Release, Try, Decide
  <2>4. QED
    BY <2>1, <2>2, <2>3
<1>20. ASSUME NEW w \in Worker, ReserveJob(w)
       PROVE  DataTyped' /\ RestTyped' /\ Located'
  BY <1>20, QueueTyped, GotoLocated, Locations DEF ReserveJob, RestTyped
<1>21. ASSUME NEW w \in Worker, TryAcquireJobLock(w)
       PROVE  DataTyped' /\ RestTyped' /\ Located'
  BY <1>21, StatusTyped, GotoLocated, Locations DEF TryAcquireJobLock, Fault, RestTyped
<1>22. ASSUME NEW w \in Worker, RequeueConflict(w)
       PROVE  DataTyped' /\ RestTyped' /\ Located'
  <2>1. DataTyped'
    BY <1>22, StatusTyped, QueueTyped DEF RequeueConflict, Try
  <2>2. RestTyped'
    BY <1>22 DEF RequeueConflict, Try, Fault, RestTyped
  <2>3. Located'
    BY <1>22, GotoLocated, Locations DEF RequeueConflict, Try
  <2>4. QED
    BY <2>1, <2>2, <2>3
<1>23. ASSUME NEW w \in Worker, RequeueJob(w)
       PROVE  DataTyped' /\ RestTyped' /\ Located'
  <2>1. DataTyped'
    BY <1>23, StatusTyped, QueueTyped DEF RequeueJob, Try
  <2>2. RestTyped'
    BY <1>23 DEF RequeueJob, Try, Fault, RestTyped
  <2>3. Located'
    BY <1>23, GotoLocated, Locations DEF RequeueJob, Try
  <2>4. QED
    BY <2>1, <2>2, <2>3
<1>24. ASSUME NEW w \in Worker, AckJob(w)
       PROVE  DataTyped' /\ RestTyped' /\ Located'
  <2>1. DataTyped'
    BY <1>24, StatusTyped, QueueTyped DEF AckJob, Try
  <2>2. RestTyped'
    BY <1>24 DEF AckJob, Try, Fault, RestTyped
  <2>3. Located'
    BY <1>24, GotoLocated, Locations DEF AckJob, Try
  <2>4. QED
    BY <2>1, <2>2, <2>3
<1>25. ASSUME NEW w \in Worker, ReleaseLock(w)
       PROVE  DataTyped' /\ RestTyped' /\ Located'
  BY <1>25, StatusTyped, GotoLocated, Locations DEF ReleaseLock, Fault, RestTyped
<1>26. ASSUME NEW w \in Worker, PipelineProcess(w)
       PROVE  DataTyped' /\ RestTyped' /\ Located'
  BY <1>26, StatusTyped, GotoLocated, Locations
  DEF PipelineProcess, ReadJob, Decide, Fault, RestTyped
<1>27. ASSUME NEW w \in Worker, Process(w)
       PROVE  DataTyped' /\ RestTyped' /\ Located'
  BY <1>27, StatusTyped, GotoLocated, Locations
  DEF Process, ReadJob, Decide, Fault, RestTyped
<1>28. ASSUME NEW w \in Worker, GetProviderStatus(w)
       PROVE  DataTyped' /\ RestTyped' /\ Located'
  BY <1>28, StatusTyped, GotoLocated, Locations
  DEF GetProviderStatus, ReadJob, Decide, Fault, RestTyped
<1>29. ASSUME NEW w \in Worker, ApplyProviderStatus(w)
       PROVE  DataTyped' /\ RestTyped' /\ Located'
  BY <1>29, StatusTyped, GotoLocated, Locations
  DEF ApplyProviderStatus, Transition, Try, Fault, Decide, Status, RestTyped
<1>30. ASSUME NEW w \in Worker, IndexResult(w)
       PROVE  DataTyped' /\ RestTyped' /\ Located'
  BY <1>30, StatusTyped, GotoLocated, Locations
  DEF IndexResult, ReadJob, Decide, Fault, RestTyped
<1>31. ASSUME NEW w \in Worker, StartSettling(w)
       PROVE  DataTyped' /\ RestTyped' /\ Located'
  BY <1>31, StatusTyped, GotoLocated, Locations
  DEF StartSettling, Transition, Try, Fault, Decide, Status, RestTyped
<1>32. ASSUME NEW w \in Worker, ReleaseTerminal(w)
       PROVE  DataTyped' /\ RestTyped' /\ Located'
  BY <1>32, StatusTyped, MoneyTyped, GotoLocated, Locations
  DEF ReleaseTerminal, Release, Try, Fault, Decide, RestTyped
<1>33. ASSUME NEW w \in Worker, Settle(w)
       PROVE  DataTyped' /\ RestTyped' /\ Located'
  BY <1>33, StatusTyped, GotoLocated, Locations
  DEF Settle, ReadJob, Decide, Fault, RestTyped
<1>34. ASSUME NEW w \in Worker, Capture(w)
       PROVE  DataTyped' /\ RestTyped' /\ Located'
  BY <1>34, StatusTyped, MoneyTyped, GotoLocated, Locations
  DEF Capture, Try, Fault, CaptureFailed, Decide, CostWithinHold, RestTyped
<1>35. ASSUME NEW w \in Worker, MarkSettled(w)
       PROVE  DataTyped' /\ RestTyped' /\ Located'
  BY <1>35, StatusTyped, GotoLocated, Locations
  DEF MarkSettled, Try, Fault, Decide, Status, RestTyped
<1>36. ASSUME NEW w \in Worker, RecordSettlementFailure(w)
       PROVE  DataTyped' /\ RestTyped' /\ Located'
  BY <1>36, StatusTyped, GotoLocated, Locations
  DEF RecordSettlementFailure, Fault, RestTyped
<1>37. ASSUME NEW w \in Worker, ReleaseExhausted(w)
       PROVE  DataTyped' /\ RestTyped' /\ Located'
  BY <1>37, StatusTyped, MoneyTyped, GotoLocated, Locations
  DEF ReleaseExhausted, Release, Try, Fault, Decide, RestTyped
<1>38. ASSUME NEW w \in Worker, FailExhausted(w)
       PROVE  DataTyped' /\ RestTyped' /\ Located'
  BY <1>38, StatusTyped, GotoLocated, Locations
  DEF FailExhausted, Transition, Try, Fault, Decide, Status, RestTyped
<1>39. ASSUME NEW w \in Worker, Recheck(w)
       PROVE  DataTyped' /\ RestTyped' /\ Located'
  BY <1>39, StatusTyped, GotoLocated, Locations
  DEF Recheck, ReadJob, Decide, Fault, RestTyped
<1>40. ASSUME MoveDueDelayed
       PROVE  DataTyped' /\ RestTyped' /\ Located'
  BY <1>40, QueueTyped DEF MoveDueDelayed, RestTyped, Located
<1>41. ASSUME RecoverStaleActive
       PROVE  DataTyped' /\ RestTyped' /\ Located'
  BY <1>41, QueueTyped DEF RecoverStaleActive, Pause, RestTyped, Located
<1>42. ASSUME ExpireLock
       PROVE  DataTyped' /\ RestTyped' /\ Located'
  BY <1>42, StatusTyped DEF ExpireLock, Pause, RestTyped, Located
<1>43. ASSUME ProviderFinishes
       PROVE  DataTyped' /\ RestTyped' /\ Located'
  BY <1>43, StatusTyped DEF ProviderFinishes, RestTyped, Located
<1>44. ASSUME NEW p \in Processes, Crash(p)
       PROVE  DataTyped' /\ RestTyped' /\ Located'
  BY <1>44, StatusTyped, GotoLocated, Locations DEF Crash, Fault, RestTyped
<1>45. ASSUME UNCHANGED vars
       PROVE  DataTyped' /\ RestTyped' /\ Located'
  BY <1>45 DEF vars, data, job, money, queue, DataTyped, RestTyped, Located
<1>46. ASSUME NEW c \in Caller, CallerStart(c) \/ CallerStep(c)
       PROVE  DataTyped' /\ RestTyped' /\ Located'
  BY <1>46, <1>1, <1>2, <1>3, <1>4, <1>5, <1>6, <1>7, <1>8, <1>9, <1>10, <1>11, <1>12,
     <1>13, <1>14, <1>15, <1>16, <1>17, <1>18, <1>19
  DEF CallerStart, CallerStep
<1>47. ASSUME NEW w \in Worker, ReserveJob(w) \/ WorkerStep(w)
       PROVE  DataTyped' /\ RestTyped' /\ Located'
  BY <1>47, <1>20, <1>21, <1>22, <1>23, <1>24, <1>25, <1>26, <1>27, <1>28, <1>29, <1>30,
     <1>31, <1>32, <1>33, <1>34, <1>35, <1>36, <1>37, <1>38, <1>39
  DEF WorkerStep
<1>48. QED
  <2>1. DataTyped' /\ RestTyped' /\ Located'
    BY <1>40, <1>41, <1>42, <1>43, <1>44, <1>45, <1>46, <1>47 DEF Next
  <2>2. QED
    BY <2>1 DEF DataTyped, RestTyped, Located, TypeOK, Location

-----------------------------------------------------------------------------
(* What a step of one kind of process leaves to the other *)

(* The steps of nobody in particular. *)
BackgroundStep ==
    MoveDueDelayed \/ RecoverStaleActive \/ ExpireLock \/ ProviderFinishes \/ UNCHANGED vars

(* Where a status may go without a worker. *)
CallerStatus ==
    /\ status' = "settling" <=> status = "settling"
    /\ status \in Terminal => status' \in Terminal
    /\ status \in {"failed", "cancelled"} => status' \in {"failed", "cancelled"}
    /\ status' \in {"completed", "output_deleted"}
       <=> status \in {"completed", "output_deleted"}
    /\ status' \in {"running", "indexing"} => status' = status

(* What a caller may do to the money, and at which status. *)
CallerMoney ==
    \/ UNCHANGED money
    \/ ReserveHold /\ status \in {"created", "uploading", "failed", "cancelled"}
    \/ ReleaseHold /\ status \in {"created", "uploading", "failed", "cancelled"}

(* What the invariant needs to know of a step of a caller. *)
CallerFrame ==
    /\ \A w \in Worker : pc'[w] = pc[w]
    /\ \A d \in Caller : pc'[d] = "releaseEnd" =>
          pc[d] = "releaseEnd" \/ status' \in {"failed", "cancelled"}
    /\ UNCHANGED <<lock, cost, retries>>
    /\ pauses' \in {pauses, pauses + 1}
    /\ faults' \in {faults, faults + 1}
    /\ UNCHANGED queue \/ Enqueue
    /\ CallerMoney
    /\ CallerStatus

(* What a step of a caller may do to the job, the queue and the money. *)
LEMMA CallerFrames ==
    ASSUME TypeOK, SubmitAlone, StepsInOrder,
           NEW c \in Caller, CallerStart(c) \/ CallerStep(c)
    PROVE  CallerFrame
<1> USE BatchAssumption
<1>1. Located
  BY TypeParts
<1>2. ASSUME CreateJob(c)
      PROVE  CallerFrame
  BY <1>2, <1>1, GotoEffect
  DEF CreateJob, Try, Fault, data, job, SetStatus, CallerFrame, CallerStatus, CallerMoney,
      Others, Processes, Terminal
<1>3. ASSUME Resubmit(c)
      PROVE  CallerFrame
  BY <1>3, <1>1, GotoEffect
  DEF Resubmit, Decide, data, job, CallerFrame, CallerStatus, CallerMoney, Others, Processes
<1>4. ASSUME Cancel(c)
      PROVE  CallerFrame
  BY <1>4, <1>1, GotoEffect
  DEF Cancel, Decide, data, job, CallerFrame, CallerStatus, CallerMoney, Others, Processes
<1>5. ASSUME FailStale(c)
      PROVE  CallerFrame
  BY <1>5, <1>1, GotoEffect
  DEF FailStale, Pause, Try, Fault, data, job, SetStatus, CallerFrame, CallerStatus,
      CallerMoney, Others, Processes, Terminal
<1>6. ASSUME DeleteRecord(c)
      PROVE  CallerFrame
  BY <1>6 DEF DeleteRecord, CallerFrame, CallerStatus, CallerMoney
<1>7. ASSUME DeleteOutput(c)
      PROVE  CallerFrame
  BY <1>7 DEF DeleteOutput, SetStatus, CallerFrame, CallerStatus, CallerMoney, Terminal
<1>8. ASSUME SubmitReserve(c)
      PROVE  CallerFrame
  BY <1>8, <1>1, GotoEffect
  DEF SubmitReserve, At, Try, Fault, data, job, ReserveHold, Claim, Decide, CallerFrame,
      CallerStatus, CallerMoney, Others, Processes, SubmitAlone, Submitting
<1>9. ASSUME CreateItems(c)
      PROVE  CallerFrame
  BY <1>9, <1>1, GotoEffect
  DEF CreateItems, Try, Fault, data, job, CallerFrame, CallerStatus, CallerMoney, Others,
      Processes
<1>10. ASSUME StartUpload(c)
       PROVE  CallerFrame
  BY <1>10, <1>1, GotoEffect, TransitionTable
  DEF StartUpload, Transition, Try, Fault, data, job, SetStatus, Decide, CallerFrame,
      CallerStatus, CallerMoney, Others, Processes, Terminal
<1>11. ASSUME ProviderSubmit(c)
       PROVE  CallerFrame
  BY <1>11, <1>1, GotoEffect
  DEF ProviderSubmit, Decide, data, job, CallerFrame, CallerStatus, CallerMoney, Others,
      Processes
<1>12. ASSUME RecordSubmit(c)
       PROVE  CallerFrame
  BY <1>12, <1>1, GotoEffect, TransitionTable
  DEF RecordSubmit, Try, Fault, data, job, SetSubmitted, Decide, CallerFrame, CallerStatus,
      CallerMoney, Others, Processes, Terminal
<1>13. ASSUME AbortOrphan(c)
       PROVE  CallerFrame
  BY <1>13, <1>1, GotoEffect
  DEF AbortOrphan, Decide, data, job, CallerFrame, CallerStatus, CallerMoney, Others,
      Processes
<1>14. ASSUME EnqueueJob(c)
       PROVE  CallerFrame
  BY <1>14, <1>1, GotoEffect
  DEF EnqueueJob, Try, Fault, data, job, Enqueue, SetQueue, CallerFrame, CallerStatus,
      CallerMoney, Others, Processes
<1>15. ASSUME RecordSubmitFailure(c)
       PROVE  CallerFrame
  BY <1>15, <1>1, GotoEffect
  DEF RecordSubmitFailure, At, Try, Fault, data, job, SubmitFailure, CallerFrame,
      CallerStatus, CallerMoney, Others, Processes, Terminal, SubmitAlone, Submitting
<1>16. ASSUME ReleaseFailedSubmit(c)
       PROVE  CallerFrame
  BY <1>16, <1>1, GotoEffect
  DEF ReleaseFailedSubmit, At, Release, Try, Fault, data, job, ReleaseHold, Claimed, Claim,
      Decide, CallerFrame, CallerStatus, CallerMoney, Others, Processes, SubmitAlone,
      Submitting
<1>17. ASSUME BillingRetry(c)
       PROVE  CallerFrame
  BY <1>17, <1>1, GotoEffect
  DEF BillingRetry, Try, Fault, data, job, Enqueue, SetQueue, CallerFrame, CallerStatus,
      CallerMoney, Others, Processes
<1>18. ASSUME CancelUpstream(c)
       PROVE  CallerFrame
  BY <1>18, <1>1, GotoEffect
  DEF CancelUpstream, Decide, data, job, Try, Fault, Enqueue, SetQueue, CallerFrame,
      CallerStatus, CallerMoney, Others, Processes
<1>19. ASSUME CancelLocal(c)
       PROVE  CallerFrame
  BY <1>19, <1>1, GotoEffect, TransitionTable
  DEF CancelLocal, Transition, Try, Fault, data, job, SetStatus, Decide, CallerFrame,
      CallerStatus, CallerMoney, Others, Processes, Terminal
<1>20. ASSUME ReleaseEnd(c)
       PROVE  CallerFrame
  BY <1>20, <1>1, GotoEffect
  DEF ReleaseEnd, Release, Try, Fault, data, job, ReleaseHold, Claimed, Claim, Decide,
      CallerFrame, CallerStatus, CallerMoney, Others, Processes, StepsInOrder
<1>21. QED
  BY <1>2, <1>3, <1>4, <1>5, <1>6, <1>7, <1>8, <1>9, <1>10, <1>11, <1>12, <1>13, <1>14,
     <1>15, <1>16, <1>17, <1>18, <1>19, <1>20
  DEF CallerStart, CallerStep
(* What the workers may do to the status and the money. *)
WorkerStatus ==
    \/ status' = status
    \/ status \in {"created", "uploading", "submitted", "running"} /\ status' = "cancelled"
    \/ status \in {"created", "uploading", "submitted", "running", "indexing", "settling"}
       /\ status' = "failed"
    \/ status \in {"submitted", "running"} /\ status' \in {"running", "indexing"}
    \/ status = "indexing" /\ status' = "settling"
    \/ status = "settling" /\ status' = "completed"

(* What the invariant needs to know of a step of a worker. *)
WorkerFrame ==
    /\ \A c \in Caller : pc'[c] = pc[c]
    /\ \/ claims' = claims
       \/ /\ claims \subseteq claims'
          /\ status \in Terminal \union {"settling"} /\ status' = status
    /\ WorkerStatus

(* What a step of a worker may do to the job, the queue and the money. *)
LEMMA WorkerFrames ==
    ASSUME TypeOK, StepsInOrder,
           NEW w \in Worker, ReserveJob(w) \/ WorkerStep(w)
    PROVE  WorkerFrame
<1> USE BatchAssumption
    DEF At, Try, Fault, Pause, Decide, ReadJob, Transition, Release, data, job, money,
        queue, WorkerFrame, WorkerStatus, Others, Processes, Terminal
<1>1. Located
  BY TypeParts
<1>2. ASSUME ReserveJob(w)
      PROVE  WorkerFrame
  BY <1>2, <1>1, GotoEffect DEF ReserveJob, Reserve, SetQueue
<1>3. ASSUME TryAcquireJobLock(w)
      PROVE  WorkerFrame
  BY <1>3, <1>1, GotoEffect DEF TryAcquireJobLock
<1>4. ASSUME RequeueConflict(w)
      PROVE  WorkerFrame
  BY <1>4, <1>1, GotoEffect DEF RequeueConflict, RequeueAfter, SetQueue
<1>5. ASSUME RequeueJob(w)
      PROVE  WorkerFrame
  BY <1>5, <1>1, GotoEffect DEF RequeueJob, RequeueAfter, SetQueue
<1>6. ASSUME AckJob(w)
      PROVE  WorkerFrame
  BY <1>6, <1>1, GotoEffect DEF AckJob, Ack, SetQueue
<1>7. ASSUME ReleaseLock(w)
      PROVE  WorkerFrame
  BY <1>7, <1>1, GotoEffect DEF ReleaseLock
<1>8. ASSUME PipelineProcess(w)
      PROVE  WorkerFrame
  BY <1>8, <1>1, GotoEffect DEF PipelineProcess
<1>9. ASSUME Process(w)
      PROVE  WorkerFrame
  BY <1>9, <1>1, GotoEffect DEF Process
<1>10. ASSUME GetProviderStatus(w)
       PROVE  WorkerFrame
  BY <1>10, <1>1, GotoEffect DEF GetProviderStatus
<1>11. ASSUME ApplyProviderStatus(w)
       PROVE  WorkerFrame
  BY <1>11, <1>1, GotoEffect, TransitionTable DEF ApplyProviderStatus, SetStatus
<1>12. ASSUME IndexResult(w)
       PROVE  WorkerFrame
  BY <1>12, <1>1, GotoEffect DEF IndexResult
<1>13. ASSUME StartSettling(w)
       PROVE  WorkerFrame
  BY <1>13, <1>1, GotoEffect, TransitionTable DEF StartSettling, SetStatus
<1>14. ASSUME ReleaseTerminal(w)
       PROVE  WorkerFrame
  BY <1>14, <1>1, GotoEffect DEF ReleaseTerminal, ReleaseHold, Claimed, Claim, StepsInOrder
<1>15. ASSUME Settle(w)
       PROVE  WorkerFrame
  BY <1>15, <1>1, GotoEffect DEF Settle
<1>16. ASSUME Capture(w)
       PROVE  WorkerFrame
  BY <1>16, <1>1, GotoEffect
  DEF Capture, CaptureHold, Claimed, Claim, StepsInOrder, Charging
<1>17. ASSUME MarkSettled(w)
       PROVE  WorkerFrame
  BY <1>17, <1>1, GotoEffect DEF MarkSettled, SetStatus
<1>18. ASSUME RecordSettlementFailure(w)
       PROVE  WorkerFrame
  BY <1>18, <1>1, GotoEffect DEF RecordSettlementFailure, CountFailure
<1>19. ASSUME ReleaseExhausted(w)
       PROVE  WorkerFrame
  BY <1>19, <1>1, GotoEffect
  DEF ReleaseExhausted, ReleaseHold, Claimed, Claim, StepsInOrder, Charging
<1>20. ASSUME FailExhausted(w)
       PROVE  WorkerFrame
  BY <1>20, <1>1, GotoEffect, TransitionTable DEF FailExhausted, SetStatus
<1>21. ASSUME Recheck(w)
       PROVE  WorkerFrame
  BY <1>21, <1>1, GotoEffect DEF Recheck
<1>22. QED
  BY <1>2, <1>3, <1>4, <1>5, <1>6, <1>7, <1>8, <1>9, <1>10, <1>11, <1>12, <1>13, <1>14,
     <1>15, <1>16, <1>17, <1>18, <1>19, <1>20, <1>21
  DEF WorkerStep

-----------------------------------------------------------------------------
(* The submission and the hold *)

(* Every step keeps the submission alone and its hold reserved. *)
LEMMA SubmitStep ==
    ASSUME TypeOK, SubmitAlone, HoldKept, StepsInOrder, [Next]_vars
    PROVE  SubmitAlone' /\ HoldKept'
<1> USE BatchAssumption
    DEF At, Try, Fault, Pause, Decide, ReadJob, Transition, Release, data, job, money,
        queue, SubmitAlone, HoldKept, Others, Processes, Submitting, Reserving, Terminal,
        HoldClaimed
<1>1. Located
  BY TypeParts
<1>2. status \in {"created", "uploading"} /\ HoldClaimed /\ "release" \notin claims
      => claims = {"hold"}
  BY DEF TypeOK, StepsInOrder
<1>3. \A c \in Caller : pc[c] = "releaseEnd" => status \in {"failed", "cancelled"}
  BY DEF StepsInOrder
<1>4. ASSUME NEW c \in Caller, CreateJob(c)
      PROVE  SubmitAlone' /\ HoldKept'
  BY <1>4, <1>1, GotoEffect DEF CreateJob, SetStatus
<1>5. ASSUME NEW c \in Caller, Resubmit(c)
      PROVE  SubmitAlone' /\ HoldKept'
  BY <1>5, <1>1, GotoEffect DEF Resubmit
<1>6. ASSUME NEW c \in Caller, Cancel(c)
      PROVE  SubmitAlone' /\ HoldKept'
  BY <1>6, <1>1, GotoEffect DEF Cancel
<1>7. ASSUME NEW c \in Caller, FailStale(c)
      PROVE  SubmitAlone' /\ HoldKept'
  BY <1>7, <1>1, GotoEffect DEF FailStale, SetStatus
<1>8. ASSUME NEW c \in Caller, DeleteRecord(c)
      PROVE  SubmitAlone' /\ HoldKept'
  BY <1>8 DEF DeleteRecord
<1>9. ASSUME NEW c \in Caller, DeleteOutput(c)
      PROVE  SubmitAlone' /\ HoldKept'
  BY <1>9 DEF DeleteOutput, SetStatus
<1>10. ASSUME NEW c \in Caller, SubmitReserve(c)
       PROVE  SubmitAlone' /\ HoldKept'
  BY <1>10, <1>1, GotoEffect DEF SubmitReserve, ReserveHold, Claim
<1>11. ASSUME NEW c \in Caller, CreateItems(c)
       PROVE  SubmitAlone' /\ HoldKept'
  BY <1>11, <1>1, GotoEffect DEF CreateItems
<1>12. ASSUME NEW c \in Caller, StartUpload(c)
       PROVE  SubmitAlone' /\ HoldKept'
  BY <1>12, <1>1, GotoEffect, TransitionTable DEF StartUpload, SetStatus
<1>13. ASSUME NEW c \in Caller, ProviderSubmit(c)
       PROVE  SubmitAlone' /\ HoldKept'
  BY <1>13, <1>1, GotoEffect DEF ProviderSubmit
<1>14. ASSUME NEW c \in Caller, RecordSubmit(c)
       PROVE  SubmitAlone' /\ HoldKept'
  BY <1>14, <1>1, <1>2, GotoEffect, TransitionTable DEF RecordSubmit, SetSubmitted
<1>15. ASSUME NEW c \in Caller, AbortOrphan(c)
       PROVE  SubmitAlone' /\ HoldKept'
  BY <1>15, <1>1, GotoEffect DEF AbortOrphan
<1>16. ASSUME NEW c \in Caller, EnqueueJob(c)
       PROVE  SubmitAlone' /\ HoldKept'
  BY <1>16, <1>1, GotoEffect DEF EnqueueJob, Enqueue, SetQueue
<1>17. ASSUME NEW c \in Caller, RecordSubmitFailure(c)
       PROVE  SubmitAlone' /\ HoldKept'
  BY <1>17, <1>1, GotoEffect DEF RecordSubmitFailure, SubmitFailure
<1>18. ASSUME NEW c \in Caller, ReleaseFailedSubmit(c)
       PROVE  SubmitAlone' /\ HoldKept'
  BY <1>18, <1>1, GotoEffect DEF ReleaseFailedSubmit, ReleaseHold, Claimed, Claim
<1>19. ASSUME NEW c \in Caller, BillingRetry(c)
       PROVE  SubmitAlone' /\ HoldKept'
  BY <1>19, <1>1, GotoEffect DEF BillingRetry, Enqueue, SetQueue
<1>20. ASSUME NEW c \in Caller, CancelUpstream(c)
       PROVE  SubmitAlone' /\ HoldKept'
  BY <1>20, <1>1, GotoEffect DEF CancelUpstream, Enqueue, SetQueue
<1>21. ASSUME NEW c \in Caller, CancelLocal(c)
       PROVE  SubmitAlone' /\ HoldKept'
  BY <1>21, <1>1, GotoEffect DEF CancelLocal, SetStatus
<1>22. ASSUME NEW c \in Caller, ReleaseEnd(c)
       PROVE  SubmitAlone' /\ HoldKept'
  BY <1>22, <1>1, <1>3, GotoEffect DEF ReleaseEnd, ReleaseHold, Claimed, Claim
<1>23. ASSUME NEW w \in Worker, ReserveJob(w) \/ WorkerStep(w)
       PROVE  SubmitAlone' /\ HoldKept'
  BY <1>23, WorkerFrames DEF WorkerFrame, WorkerStatus
<1>24. ASSUME BackgroundStep
       PROVE  SubmitAlone' /\ HoldKept'
  BY <1>24
  DEF BackgroundStep, MoveDueDelayed, RecoverStaleActive, Recovered, SetQueue, ExpireLock,
      ProviderFinishes, vars
<1>25. ASSUME NEW p \in Processes, Crash(p)
       PROVE  SubmitAlone' /\ HoldKept'
  BY <1>25, <1>1, GotoEffect DEF Crash
<1>26. QED
  BY <1>4, <1>5, <1>6, <1>7, <1>8, <1>9, <1>10, <1>11, <1>12, <1>13, <1>14, <1>15, <1>16,
     <1>17, <1>18, <1>19, <1>20, <1>21, <1>22, <1>23, <1>24, <1>25
  DEF Next, BackgroundStep, CallerStart, CallerStep

(* What a process knows of the job *)
LEMMA OrderStep ==
    ASSUME TypeOK, SubmitAlone, HoldKept, StepsInOrder, [Next]_vars
    PROVE  StepsInOrder'
<1> USE BatchAssumption
    DEF At, Try, Fault, Pause, Decide, ReadJob, Transition, Release, data, job, money,
        queue, StepsInOrder, Charging, Others, Processes, Terminal, HoldClaimed
<1>1. Located
  BY TypeParts
<1>2. RestTyped
  BY TypeParts
<1>3. ASSUME NEW c \in Caller, CallerStart(c) \/ CallerStep(c)
      PROVE  StepsInOrder'
  BY <1>3, CallerFrames
  DEF CallerFrame, CallerStatus, CallerMoney, ReserveHold, ReleaseHold, Claim, Claimed
<1>4. ASSUME NEW w \in Worker, ReserveJob(w)
      PROVE  StepsInOrder'
  BY <1>4, <1>1, GotoEffect DEF ReserveJob, Reserve, SetQueue
<1>5. ASSUME NEW w \in Worker, TryAcquireJobLock(w)
      PROVE  StepsInOrder'
  BY <1>5, <1>1, GotoEffect DEF TryAcquireJobLock
<1>6. ASSUME NEW w \in Worker, RequeueConflict(w)
      PROVE  StepsInOrder'
  BY <1>6, <1>1, GotoEffect DEF RequeueConflict, RequeueAfter, SetQueue
<1>7. ASSUME NEW w \in Worker, RequeueJob(w)
      PROVE  StepsInOrder'
  BY <1>7, <1>1, GotoEffect DEF RequeueJob, RequeueAfter, SetQueue
<1>8. ASSUME NEW w \in Worker, AckJob(w)
      PROVE  StepsInOrder'
  BY <1>8, <1>1, GotoEffect DEF AckJob, Ack, SetQueue
<1>9. ASSUME NEW w \in Worker, ReleaseLock(w)
      PROVE  StepsInOrder'
  BY <1>9, <1>1, GotoEffect DEF ReleaseLock
<1>10. ASSUME NEW w \in Worker, PipelineProcess(w)
       PROVE  StepsInOrder'
  BY <1>10, <1>1, GotoEffect DEF PipelineProcess
<1>11. ASSUME NEW w \in Worker, Process(w)
       PROVE  StepsInOrder'
  BY <1>11, <1>1, GotoEffect DEF Process
<1>12. ASSUME NEW w \in Worker, GetProviderStatus(w)
       PROVE  StepsInOrder'
  BY <1>12, <1>1, GotoEffect DEF GetProviderStatus
<1>13. ASSUME NEW w \in Worker, ApplyProviderStatus(w)
       PROVE  StepsInOrder'
  BY <1>13, <1>1, GotoEffect, TransitionTable DEF ApplyProviderStatus, SetStatus
<1>14. ASSUME NEW w \in Worker, IndexResult(w)
       PROVE  StepsInOrder'
  BY <1>14, <1>1, GotoEffect DEF IndexResult
<1>15. ASSUME NEW w \in Worker, StartSettling(w)
       PROVE  StepsInOrder'
  BY <1>15, <1>1, GotoEffect, TransitionTable DEF StartSettling, SetStatus
<1>16. ASSUME NEW w \in Worker, ReleaseTerminal(w)
       PROVE  StepsInOrder'
  BY <1>16, <1>1, GotoEffect DEF ReleaseTerminal, ReleaseHold, Claimed, Claim
<1>17. ASSUME NEW w \in Worker, Settle(w)
       PROVE  StepsInOrder'
  BY <1>17, <1>1, <1>2, GotoEffect DEF Settle, HoldKept, RestTyped
<1>18. ASSUME NEW w \in Worker, Capture(w)
       PROVE  StepsInOrder'
  BY <1>18, <1>1, GotoEffect DEF Capture, CaptureHold, Claimed, Claim, CaptureFailed
<1>19. ASSUME NEW w \in Worker, MarkSettled(w)
       PROVE  StepsInOrder'
  BY <1>19, <1>1, GotoEffect DEF MarkSettled, SetStatus
<1>20. ASSUME NEW w \in Worker, RecordSettlementFailure(w)
       PROVE  StepsInOrder'
  BY <1>20, <1>1, GotoEffect DEF RecordSettlementFailure, CountFailure
<1>21. ASSUME NEW w \in Worker, ReleaseExhausted(w)
       PROVE  StepsInOrder'
  BY <1>21, <1>1, GotoEffect DEF ReleaseExhausted, ReleaseHold, Claimed, Claim
<1>22. ASSUME NEW w \in Worker, FailExhausted(w)
       PROVE  StepsInOrder'
  BY <1>22, <1>1, GotoEffect DEF FailExhausted, SetStatus
<1>23. ASSUME NEW w \in Worker, Recheck(w)
       PROVE  StepsInOrder'
  BY <1>23, <1>1, GotoEffect DEF Recheck
<1>24. ASSUME BackgroundStep
       PROVE  StepsInOrder'
  BY <1>24
  DEF BackgroundStep, MoveDueDelayed, RecoverStaleActive, Recovered, SetQueue, ExpireLock,
      ProviderFinishes, vars
<1>25. ASSUME NEW p \in Processes, Crash(p)
       PROVE  StepsInOrder'
  BY <1>25, <1>1, GotoEffect DEF Crash
<1>26. QED
  BY <1>3, <1>4, <1>5, <1>6, <1>7, <1>8, <1>9, <1>10, <1>11, <1>12, <1>13, <1>14, <1>15,
     <1>16, <1>17, <1>18, <1>19, <1>20, <1>21, <1>22, <1>23, <1>24, <1>25
  DEF Next, BackgroundStep, WorkerStep
-----------------------------------------------------------------------------
(* The queue and the lock *)

(* The steps of a worker between its lock and its acknowledgement. *)
ProcessingStep(w) ==
    \/ PipelineProcess(w) \/ Process(w) \/ GetProviderStatus(w) \/ ApplyProviderStatus(w)
    \/ IndexResult(w) \/ StartSettling(w) \/ ReleaseTerminal(w)
    \/ Settle(w) \/ Capture(w) \/ MarkSettled(w) \/ RecordSettlementFailure(w)
    \/ ReleaseExhausted(w) \/ FailExhausted(w) \/ Recheck(w)

(* They leave the queue and the lock alone, and move money in three places. *)
ProcessingFrame(w) ==
    /\ pc[w] \in Processing /\ pc'[w] \in Processing \union {"ack", "requeue"}
    /\ Others(w)
    /\ UNCHANGED <<ready, delayed, active, inflight, lock, pauses, cost>>
    /\ faults' \in {faults, faults + 1}
    /\ \/ UNCHANGED <<claims, balance, frozen>>
       \/ CaptureHold /\ At(w, "capture")
       \/ ReleaseHold /\ pc[w] \in {"releaseTerminal", "exhaust"}

(* What a step of the processing may do, and where it leads. *)
LEMMA ProcessingFrames ==
    ASSUME TypeOK, NEW w \in Worker, ProcessingStep(w)
    PROVE  ProcessingFrame(w)
<1> USE BatchAssumption
    DEF At, Try, Fault, Pause, Decide, ReadJob, Transition, Release, data, job, money,
        queue, ProcessingFrame, Processing, Processes
<1>1. Located
  BY TypeParts
<1>2. ASSUME PipelineProcess(w)
      PROVE  ProcessingFrame(w)
  BY <1>2, <1>1, GotoEffect DEF PipelineProcess
<1>3. ASSUME Process(w)
      PROVE  ProcessingFrame(w)
  BY <1>3, <1>1, GotoEffect DEF Process
<1>4. ASSUME GetProviderStatus(w)
      PROVE  ProcessingFrame(w)
  BY <1>4, <1>1, GotoEffect DEF GetProviderStatus
<1>5. ASSUME ApplyProviderStatus(w)
      PROVE  ProcessingFrame(w)
  BY <1>5, <1>1, GotoEffect DEF ApplyProviderStatus, SetStatus
<1>6. ASSUME IndexResult(w)
      PROVE  ProcessingFrame(w)
  BY <1>6, <1>1, GotoEffect DEF IndexResult
<1>7. ASSUME StartSettling(w)
      PROVE  ProcessingFrame(w)
  BY <1>7, <1>1, GotoEffect DEF StartSettling, SetStatus
<1>8. ASSUME ReleaseTerminal(w)
      PROVE  ProcessingFrame(w)
  BY <1>8, <1>1, GotoEffect DEF ReleaseTerminal, ReleaseHold, Claimed, Claim
<1>9. ASSUME Settle(w)
      PROVE  ProcessingFrame(w)
  BY <1>9, <1>1, GotoEffect DEF Settle
<1>10. ASSUME Capture(w)
       PROVE  ProcessingFrame(w)
  BY <1>10, <1>1, GotoEffect DEF Capture, CaptureHold, Claimed, Claim, CaptureFailed
<1>11. ASSUME MarkSettled(w)
       PROVE  ProcessingFrame(w)
  BY <1>11, <1>1, GotoEffect DEF MarkSettled, SetStatus
<1>12. ASSUME RecordSettlementFailure(w)
       PROVE  ProcessingFrame(w)
  BY <1>12, <1>1, GotoEffect DEF RecordSettlementFailure, CountFailure
<1>13. ASSUME ReleaseExhausted(w)
       PROVE  ProcessingFrame(w)
  BY <1>13, <1>1, GotoEffect DEF ReleaseExhausted, ReleaseHold, Claimed, Claim
<1>14. ASSUME FailExhausted(w)
       PROVE  ProcessingFrame(w)
  BY <1>14, <1>1, GotoEffect DEF FailExhausted, SetStatus
<1>15. ASSUME Recheck(w)
       PROVE  ProcessingFrame(w)
  BY <1>15, <1>1, GotoEffect DEF Recheck
<1>16. QED
  BY <1>2, <1>3, <1>4, <1>5, <1>6, <1>7, <1>8, <1>9, <1>10, <1>11, <1>12, <1>13, <1>14,
     <1>15
  DEF ProcessingStep

(* The steps of a worker on the queue and its lock leave the job and the money alone, and *)
(* only an acknowledgement takes away the key.                                             *)
QueueStep(w) ==
    \/ ReserveJob(w) \/ TryAcquireJobLock(w) \/ RequeueConflict(w) \/ RequeueJob(w)
    \/ AckJob(w) \/ ReleaseLock(w)

QueueFrame(w) ==
    /\ UNCHANGED <<status, named, retries, hidden, claims, balance, frozen, cost, pauses>>
    /\ faults' \in {faults, faults + 1}
    /\ pc'[w] \in {"lock", "conflict", "read", "idle", "unlock"}
    /\ Others(w)
    /\ inflight' = inflight \/ (At(w, "ack") /\ ~inflight')
    /\ ready' > 0 \/ delayed' \/ active' \/ pc'[w] \in Working =>
          ready > 0 \/ delayed \/ active \/ pc[w] \in Working
    /\ inflight' /\ (ready > 0 \/ delayed \/ active) => ready' > 0 \/ delayed' \/ active'

(* What a step may do to the queue, unless it overtakes a live worker. *)
LEMMA QueueFrames ==
    ASSUME TypeOK, NEW w \in Worker, QueueStep(w)
    PROVE  QueueFrame(w)
<1> USE BatchAssumption
    DEF At, Try, Fault, Pause, Decide, ReadJob, Transition, Release, data, job, money,
        queue, QueueFrame, Processes, Working
<1>1. Located /\ ready \in Nat
  BY TypeParts DEF DataTyped
<1>2. ASSUME ReserveJob(w)
      PROVE  QueueFrame(w)
  BY <1>2, <1>1, GotoEffect DEF ReserveJob, Reserve, SetQueue
<1>3. ASSUME TryAcquireJobLock(w)
      PROVE  QueueFrame(w)
  BY <1>3, <1>1, GotoEffect DEF TryAcquireJobLock
<1>4. ASSUME RequeueConflict(w)
      PROVE  QueueFrame(w)
  BY <1>4, <1>1, GotoEffect DEF RequeueConflict, RequeueAfter, SetQueue
<1>5. ASSUME RequeueJob(w)
      PROVE  QueueFrame(w)
  BY <1>5, <1>1, GotoEffect DEF RequeueJob, RequeueAfter, SetQueue
<1>6. ASSUME AckJob(w)
      PROVE  QueueFrame(w)
  BY <1>6, <1>1, GotoEffect DEF AckJob, Ack, SetQueue
<1>7. ASSUME ReleaseLock(w)
      PROVE  QueueFrame(w)
  BY <1>7, <1>1, GotoEffect DEF ReleaseLock, Processing
<1>8. QED
  BY <1>2, <1>3, <1>4, <1>5, <1>6, <1>7 DEF QueueStep

(* No step but a recovery that overtakes a live worker makes a second copy. *)
LEMMA CopyStep ==
    ASSUME TypeOK, SubmitAlone, StepsInOrder, OneCopy, [Next]_vars,
           ~(RecoverStaleActive /\ LiveWorker)
    PROVE  OneCopy'
<1> USE BatchAssumption
    DEF At, Try, Fault, Pause, Decide, ReadJob, Transition, Release, data, job, money,
        queue, OneCopy, Others, Processes, Working
<1>1. Located /\ ready \in Nat
  BY TypeParts DEF DataTyped
<1>2. ASSUME NEW c \in Caller, CallerStart(c) \/ CallerStep(c)
      PROVE  OneCopy'
  <2>1. (\A w \in Worker : pc'[w] = pc[w]) /\ (UNCHANGED queue \/ Enqueue)
    BY <1>2, CallerFrames DEF CallerFrame
  <2>2. CASE UNCHANGED queue
    BY <2>1, <2>2
  <2>3. CASE Enqueue
    BY <2>1, <1>1 DEF Enqueue, SetQueue
  <2>4. QED
    BY <2>1, <2>3
<1>3. ASSUME NEW w \in Worker, ProcessingStep(w)
      PROVE  OneCopy'
  BY <1>3, ProcessingFrames DEF ProcessingFrame
<1>4. ASSUME NEW w \in Worker, ReserveJob(w)
      PROVE  OneCopy'
  BY <1>4, <1>1, GotoEffect DEF ReserveJob, Reserve, SetQueue
<1>5. ASSUME NEW w \in Worker, TryAcquireJobLock(w)
      PROVE  OneCopy'
  BY <1>5, <1>1, GotoEffect DEF TryAcquireJobLock
<1>6. ASSUME NEW w \in Worker, RequeueConflict(w)
      PROVE  OneCopy'
  BY <1>6, <1>1, GotoEffect DEF RequeueConflict, RequeueAfter, SetQueue, Processing
<1>7. ASSUME NEW w \in Worker, RequeueJob(w)
      PROVE  OneCopy'
  BY <1>7, <1>1, GotoEffect DEF RequeueJob, RequeueAfter, SetQueue, Processing
<1>8. ASSUME NEW w \in Worker, AckJob(w)
      PROVE  OneCopy'
  BY <1>8, <1>1, GotoEffect DEF AckJob, Ack, SetQueue, Processing
<1>9. ASSUME NEW w \in Worker, ReleaseLock(w)
      PROVE  OneCopy'
  BY <1>9, <1>1, GotoEffect DEF ReleaseLock, Processing
<1>10. ASSUME MoveDueDelayed
       PROVE  OneCopy'
  BY <1>10, <1>1 DEF MoveDueDelayed, SetQueue
<1>11. ASSUME RecoverStaleActive
       PROVE  OneCopy'
  BY <1>11, <1>1 DEF RecoverStaleActive, Recovered, SetQueue, LiveWorker, Processing
<1>12. ASSUME ExpireLock \/ ProviderFinishes \/ UNCHANGED vars
       PROVE  OneCopy'
  BY <1>12 DEF ExpireLock, ProviderFinishes, vars
<1>13. ASSUME NEW p \in Processes, Crash(p)
       PROVE  OneCopy'
  BY <1>13, <1>1, GotoEffect DEF Crash, Processing
<1>14. QED
  BY <1>2, <1>3, <1>4, <1>5, <1>6, <1>7, <1>8, <1>9, <1>10, <1>11, <1>12, <1>13
  DEF Next, WorkerStep, ProcessingStep

(* No step but the expiry of a live worker's lock takes a lock away. *)
LEMMA LockStep ==
    ASSUME TypeOK, SubmitAlone, StepsInOrder, LockHeld, [Next]_vars, ~(ExpireLock /\ LiveHolder)
    PROVE  LockHeld'
<1> USE BatchAssumption
    DEF At, Try, Fault, Pause, Decide, ReadJob, Transition, Release, data, job, money,
        queue, LockHeld, Others, Processes, Locking
<1>1. Located /\ lock \in Worker \union {None}
  BY TypeParts DEF RestTyped
<1>2. ASSUME NEW c \in Caller, CallerStart(c) \/ CallerStep(c)
      PROVE  LockHeld'
  BY <1>2, CallerFrames DEF CallerFrame
<1>3. ASSUME NEW w \in Worker, ProcessingStep(w)
      PROVE  LockHeld'
  BY <1>3, ProcessingFrames DEF ProcessingFrame
<1>4. ASSUME NEW w \in Worker, ReserveJob(w)
      PROVE  LockHeld'
  BY <1>4, <1>1, GotoEffect DEF ReserveJob, Processing
<1>5. ASSUME NEW w \in Worker, TryAcquireJobLock(w)
      PROVE  LockHeld'
  BY <1>5, <1>1, GotoEffect DEF TryAcquireJobLock, Processing
<1>6. ASSUME NEW w \in Worker, RequeueConflict(w)
      PROVE  LockHeld'
  BY <1>6, <1>1, GotoEffect DEF RequeueConflict, Processing
<1>7. ASSUME NEW w \in Worker, RequeueJob(w)
      PROVE  LockHeld'
  BY <1>7, <1>1, GotoEffect DEF RequeueJob
<1>8. ASSUME NEW w \in Worker, AckJob(w)
      PROVE  LockHeld'
  BY <1>8, <1>1, GotoEffect DEF AckJob
<1>9. ASSUME NEW w \in Worker, ReleaseLock(w)
      PROVE  LockHeld'
  BY <1>9, <1>1, GotoEffect DEF ReleaseLock, Processing
<1>10. ASSUME ExpireLock
       PROVE  LockHeld'
  BY <1>10 DEF ExpireLock, LiveHolder
<1>11. ASSUME MoveDueDelayed \/ RecoverStaleActive \/ ProviderFinishes \/ UNCHANGED vars
       PROVE  LockHeld'
  BY <1>11 DEF MoveDueDelayed, RecoverStaleActive, ProviderFinishes, vars
<1>12. ASSUME NEW p \in Processes, Crash(p)
       PROVE  LockHeld'
  BY <1>12, <1>1, GotoEffect DEF Crash, Processing
<1>13. QED
  BY <1>2, <1>3, <1>4, <1>5, <1>6, <1>7, <1>8, <1>9, <1>10, <1>11, <1>12
  DEF Next, WorkerStep, ProcessingStep

(* Pauses and faults are counted one by one. *)
LEMMA LimitsGrow ==
    ASSUME TypeOK, SubmitAlone, StepsInOrder, [Next]_vars
    PROVE  /\ pauses \in Nat /\ pauses' \in {pauses, pauses + 1}
           /\ faults \in Nat /\ faults' \in {faults, faults + 1}
<1>1. ASSUME NEW c \in Caller, CallerStart(c) \/ CallerStep(c)
      PROVE  pauses' \in {pauses, pauses + 1} /\ faults' \in {faults, faults + 1}
  BY <1>1, CallerFrames DEF CallerFrame
<1>2. ASSUME NEW w \in Worker, ProcessingStep(w)
      PROVE  pauses' \in {pauses, pauses + 1} /\ faults' \in {faults, faults + 1}
  BY <1>2, ProcessingFrames DEF ProcessingFrame
<1>3. ASSUME NEW w \in Worker, QueueStep(w)
      PROVE  pauses' \in {pauses, pauses + 1} /\ faults' \in {faults, faults + 1}
  BY <1>3, QueueFrames DEF QueueFrame
<1>4. ASSUME BackgroundStep
      PROVE  pauses' \in {pauses, pauses + 1} /\ faults' \in {faults, faults + 1}
  BY <1>4
  DEF BackgroundStep, MoveDueDelayed, RecoverStaleActive, ExpireLock, ProviderFinishes,
      Pause, vars
<1>5. ASSUME NEW p \in Processes, Crash(p)
      PROVE  pauses' \in {pauses, pauses + 1} /\ faults' \in {faults, faults + 1}
  BY <1>5 DEF Crash, Fault
<1>6. pauses \in Nat /\ faults \in Nat
  BY DEF TypeOK
<1>7. QED
  BY <1>1, <1>2, <1>3, <1>4, <1>5, <1>6
  DEF Next, BackgroundStep, WorkerStep, ProcessingStep, QueueStep, Processes

(* A pause takes one of the two guards away, so that one of them is left. *)
LEMMA GuardsStep ==
    ASSUME TypeOK, SubmitAlone, StepsInOrder, GuardsHold, [Next]_vars
    PROVE  GuardsHold'
<1>1. (RecoverStaleActive /\ LiveWorker) \/ (ExpireLock /\ LiveHolder) => pauses' = pauses + 1
  BY DEF RecoverStaleActive, ExpireLock, Pause
<1>2. OneCopy /\ ~(RecoverStaleActive /\ LiveWorker) => OneCopy'
  BY CopyStep
<1>3. LockHeld /\ ~(ExpireLock /\ LiveHolder) => LockHeld'
  BY LockStep
<1>4. ~(RecoverStaleActive /\ ExpireLock)
  BY DEF RecoverStaleActive, ExpireLock
<1>5. QED
  BY <1>1, <1>2, <1>3, <1>4, LimitsGrow DEF GuardsHold

(* Either guard keeps a second worker off the job. *)
LEMMA WorkersExclude ==
    ASSUME GuardsHold, pauses <= 1, pauses \in Nat,
           NEW v \in Worker, NEW w \in Worker,
           pc[v] \in Processing \union {"ack", "requeue"},
           pc[w] \in Processing \union {"ack", "requeue"}
    PROVE  v = w
BY DEF GuardsHold, OneCopy, LockHeld, Working, Locking

(* So the job does not move under the worker that processes it. *)
LEMMA ProcessingAlone ==
    ASSUME TypeOK, GuardsHold, pauses <= 1, pauses \in Nat,
           NEW w \in Worker, ProcessingStep(w), NEW v \in Worker \ {w}
    PROVE  pc'[v] \notin Processing \union {"ack", "requeue"}
<1>1. ProcessingFrame(w)
  BY ProcessingFrames
<1>2. pc'[v] = pc[v]
  BY <1>1 DEF ProcessingFrame, Others, Processes
<1>3. QED
  BY <1>1, <1>2, WorkersExclude DEF ProcessingFrame

-----------------------------------------------------------------------------
(* What a worker knows as long as it is alone *)

(* What ReadsHold says of one worker. *)
Knows(w) ==
    /\ pc[w] \in Advancing => status # "settling"
    /\ At(w, "capture") => status = "settling"
    /\ At(w, "ack") => status \in Terminal

(* A step of the processing knows the status it finds. *)
LEMMA KnowsStep ==
    ASSUME TypeOK, StepsInOrder, NEW w \in Worker, Knows(w), ProcessingStep(w)
    PROVE  Knows(w)'
<1> USE BatchAssumption
    DEF At, Try, Fault, Pause, Decide, ReadJob, Transition, Release, data, job, money,
        queue, Knows, Advancing, Terminal
<1>1. Located /\ w \in Processes
  BY TypeParts DEF Processes
<1>2. ASSUME PipelineProcess(w)
      PROVE  Knows(w)'
  BY <1>2, <1>1, GotoEffect DEF PipelineProcess, Settling
<1>3. ASSUME Process(w)
      PROVE  Knows(w)'
  BY <1>3, <1>1, GotoEffect DEF Process
<1>4. ASSUME GetProviderStatus(w)
      PROVE  Knows(w)'
  BY <1>4, <1>1, GotoEffect DEF GetProviderStatus
<1>5. ASSUME ApplyProviderStatus(w)
      PROVE  Knows(w)'
  BY <1>5, <1>1, GotoEffect DEF ApplyProviderStatus, SetStatus
<1>6. ASSUME IndexResult(w)
      PROVE  Knows(w)'
  BY <1>6, <1>1, GotoEffect DEF IndexResult
<1>7. ASSUME StartSettling(w)
      PROVE  Knows(w)'
  BY <1>7, <1>1, GotoEffect DEF StartSettling
<1>8. ASSUME ReleaseTerminal(w)
      PROVE  Knows(w)'
  BY <1>8, <1>1, GotoEffect DEF ReleaseTerminal, ReleaseHold, Claimed, Claim, StepsInOrder
<1>9. ASSUME Settle(w)
      PROVE  Knows(w)'
  BY <1>9, <1>1, GotoEffect DEF Settle
<1>10. ASSUME Capture(w)
       PROVE  Knows(w)'
  BY <1>10, <1>1, GotoEffect DEF Capture, CaptureFailed
<1>11. ASSUME MarkSettled(w)
       PROVE  Knows(w)'
  BY <1>11, <1>1, GotoEffect DEF MarkSettled, SetStatus
<1>12. ASSUME RecordSettlementFailure(w)
       PROVE  Knows(w)'
  BY <1>12, <1>1, GotoEffect DEF RecordSettlementFailure
<1>13. ASSUME ReleaseExhausted(w)
       PROVE  Knows(w)'
  BY <1>13, <1>1, GotoEffect DEF ReleaseExhausted
<1>14. ASSUME FailExhausted(w)
       PROVE  Knows(w)'
  BY <1>14, <1>1, GotoEffect DEF FailExhausted
<1>15. ASSUME Recheck(w)
       PROVE  Knows(w)'
  BY <1>15, <1>1, GotoEffect DEF Recheck
<1>16. QED
  BY <1>2, <1>3, <1>4, <1>5, <1>6, <1>7, <1>8, <1>9, <1>10, <1>11, <1>12, <1>13, <1>14,
     <1>15
  DEF ProcessingStep

(* Every step keeps what a worker has read true, before the second pause. *)
LEMMA ReadsStep ==
    ASSUME TypeOK, SubmitAlone, StepsInOrder, GuardsHold, ReadsHold, [Next]_vars
    PROVE  ReadsHold'
<1> SUFFICES ASSUME pauses' <= 1
             PROVE  \A v \in Worker : Knows(v)'
  BY DEF ReadsHold, Knows
<1>1. pauses \in Nat /\ pauses <= 1
  BY LimitsGrow
<1>2. \A v \in Worker : Knows(v)
  BY <1>1 DEF ReadsHold, Knows
<1>3. ASSUME NEW c \in Caller, CallerStart(c) \/ CallerStep(c)
      PROVE  \A v \in Worker : Knows(v)'
  BY <1>2, <1>3, CallerFrames DEF Knows, At, CallerFrame, CallerStatus
<1>4. ASSUME NEW w \in Worker, ProcessingStep(w)
      PROVE  \A v \in Worker : Knows(v)'
  <2>1. Knows(w)'
    BY <1>2, <1>4, KnowsStep
  <2>2. ASSUME NEW v \in Worker \ {w}
        PROVE  Knows(v)'
    <3>1. pc'[v] \notin Processing \union {"ack", "requeue"}
      BY <1>1, <1>4, ProcessingAlone
    <3>2. QED
      BY <3>1 DEF Knows, At, Advancing, Processing
  <2>3. QED
    BY <2>1, <2>2
<1>5. ASSUME NEW w \in Worker, QueueStep(w)
      PROVE  \A v \in Worker : Knows(v)'
  BY <1>2, <1>5, QueueFrames DEF Knows, At, QueueFrame, Others, Processes, Advancing, job
<1>6. ASSUME BackgroundStep
      PROVE  \A v \in Worker : Knows(v)'
  BY <1>2, <1>6
  DEF Knows, At, BackgroundStep, MoveDueDelayed, RecoverStaleActive, Recovered, SetQueue,
      ExpireLock, ProviderFinishes, vars, data, job
<1>7. ASSUME NEW p \in Processes, Crash(p)
      PROVE  \A v \in Worker : Knows(v)'
  <2>1. Located
    BY TypeParts
  <2>2. QED
    BY <1>2, <1>7, <2>1, GotoEffect
    DEF Crash, Knows, At, Advancing, Others, Processes, data, job
<1>8. QED
  BY <1>3, <1>4, <1>5, <1>6, <1>7
  DEF Next, BackgroundStep, WorkerStep, ProcessingStep, QueueStep, Processes

(* The job stays in the queue until it is terminal *)
LEMMA KeyStep ==
    ASSUME TypeOK, SubmitAlone, StepsInOrder, GuardsHold, ReadsHold,
           KeyKept, InflightIsQueued, QueuedUntilDone, [Next]_vars
    PROVE  KeyKept' /\ InflightIsQueued' /\ QueuedUntilDone'
<1> USE DEF KeyKept, InflightIsQueued, QueuedUntilDone, Terminal
<1>1. pauses \in Nat /\ ready \in Nat /\ (pauses' <= 1 => pauses <= 1)
  BY LimitsGrow DEF TypeOK
<1>2. ASSUME NEW c \in Caller, CallerStart(c) \/ CallerStep(c)
      PROVE  KeyKept' /\ InflightIsQueued' /\ QueuedUntilDone'
  <2>1. CallerFrame
    BY <1>2, CallerFrames
  <2>2. CASE UNCHANGED queue
    BY <1>1, <2>1, <2>2 DEF CallerFrame, CallerStatus, queue
  <2>3. CASE Enqueue
    BY <1>1, <2>3 DEF Enqueue, SetQueue
  <2>4. QED
    BY <2>1, <2>2, <2>3 DEF CallerFrame
<1>3. ASSUME NEW w \in Worker, ProcessingStep(w)
      PROVE  KeyKept' /\ InflightIsQueued' /\ QueuedUntilDone'
  <2>1. WorkerFrame /\ ProcessingFrame(w)
    BY <1>3, WorkerFrames, ProcessingFrames DEF WorkerStep, ProcessingStep
  <2>2. pc[w] \in Working
    BY <2>1 DEF ProcessingFrame, Working
  <2>3. QED
    BY <2>1, <2>2 DEF WorkerFrame, WorkerStatus, ProcessingFrame
<1>4. ASSUME NEW w \in Worker, QueueStep(w)
      PROVE  KeyKept' /\ InflightIsQueued' /\ QueuedUntilDone'
  <2>1. QueueFrame(w)
    BY <1>4, QueueFrames
  <2>2. CASE inflight' = inflight
    BY <2>1, <2>2 DEF QueueFrame, job, Others, Processes
  <2>3. CASE At(w, "ack")
    BY <2>1, <2>3 DEF QueueFrame, ReadsHold, job
  <2>4. QED
    BY <2>1, <2>2, <2>3 DEF QueueFrame
<1>5. ASSUME BackgroundStep
      PROVE  KeyKept' /\ InflightIsQueued' /\ QueuedUntilDone'
  BY <1>1, <1>5
  DEF BackgroundStep, MoveDueDelayed, RecoverStaleActive, Recovered, SetQueue, ExpireLock,
      ProviderFinishes, vars, data, job, queue
<1>6. ASSUME NEW p \in Processes, Crash(p)
      PROVE  KeyKept' /\ InflightIsQueued' /\ QueuedUntilDone'
  <2>1. Located
    BY TypeParts
  <2>2. QED
    BY <1>6, <2>1, GotoEffect
    DEF Crash, Others, Processes, Working, Processing, data, job, queue
<1>7. QED
  BY <1>2, <1>3, <1>4, <1>5, <1>6
  DEF Next, BackgroundStep, WorkerStep, ProcessingStep, QueueStep, Processes

-----------------------------------------------------------------------------
(* The money, as long as there are few pauses and faults *)

Few == pauses <= 1 /\ faults < MaxRetries

(* What the money part of ChargedIffSettled says. *)
Charged == "capture" \in claims => status \in {"settling", "completed", "output_deleted"}

(* What RetriesTracked says of the counter. *)
Counted == cost <= Hold => retries <= faults

(* What RetriesTracked says of one worker. *)
CountedBy(w) ==
    /\ At(w, "recordFailure") /\ cost <= Hold => retries < faults
    /\ pc[w] \in {"exhaust", "toExhausted"} => cost > Hold

Money == HoldTracked /\ Charged /\ Counted

Numbers ==
    /\ OtherFrozen \in Nat /\ Hold \in Nat \ {0} /\ MaxRetries \in Nat \ {0}
    /\ balance \in Nat /\ frozen \in Nat /\ cost \in Nat
    /\ retries \in 0 .. MaxRetries /\ faults \in Nat /\ pauses \in Nat
    /\ claims \subseteq {"hold", "capture", "release"}

(* The numbers and claims of the money. *)
LEMMA NumbersTyped == TypeOK => Numbers
BY BatchAssumption DEF TypeOK, Numbers

(* A step that leaves the job and the money alone, or makes more faults. *)
LEMMA MoneyKept ==
    ASSUME Numbers, Money, UNCHANGED <<status, retries, claims, frozen, cost>>,
           faults' \in {faults, faults + 1}
    PROVE  Money'
BY DEF Numbers, Money, HoldTracked, Charged, Counted, HoldClaimed

(* The reservation and the release find the hold as its claims say. *)
LEMMA ReserveKeeps ==
    ASSUME Numbers, Money, StepsInOrder, ReserveHold,
           UNCHANGED <<cost, retries>>, faults' \in {faults, faults + 1}, status # "settling"
    PROVE  Money'
<1>1. "capture" \notin claims /\ frozen = OtherFrozen
  BY DEF StepsInOrder, ReserveHold, Money, HoldTracked, HoldClaimed
<1>2. /\ status' = status /\ frozen' = OtherFrozen + Hold /\ "capture" \notin claims'
      /\ "hold" \in claims'
  BY <1>1 DEF ReserveHold, Claim, job
<1>3. HoldTracked'
  BY <1>2 DEF HoldTracked, HoldClaimed
<1>4. Counted'
  BY DEF Numbers, Money, Counted
<1>5. QED
  BY <1>2, <1>3, <1>4 DEF Money, Charged

(* A release finds the hold frozen. *)
LEMMA ReleaseKeeps ==
    ASSUME Numbers, Money, ReleaseHold, "capture" \notin claims,
           UNCHANGED <<cost, retries>>, faults' \in {faults, faults + 1},
           status = "settling" => cost > Hold
    PROVE  Money'
<1>1. Counted'
  BY DEF Numbers, Money, Counted
<1>2. CASE Claimed("release")
  BY <1>2, MoneyKept DEF Claimed, data, job, money
<1>3. CASE "release" \notin claims
  <2>1. /\ claims' = claims \union {"release"} /\ status' = status
        /\ frozen' = IF HoldClaimed THEN frozen - Hold ELSE frozen
    BY <1>3 DEF ReleaseHold, Claimed, Claim, job
  <2>2. frozen = IF HoldClaimed THEN OtherFrozen + Hold ELSE OtherFrozen
    BY <1>3 DEF Numbers, Money, HoldTracked, HoldClaimed
  <2>3. frozen' = OtherFrozen
    BY <2>1, <2>2 DEF Numbers
  <2>4. HoldTracked'
    BY <2>1, <2>3 DEF HoldTracked, Numbers
  <2>5. QED
    BY <1>1, <2>1, <2>4 DEF Money, Charged
<1>4. QED
  BY <1>2, <1>3 DEF ReleaseHold

(* A capture finds the hold frozen. *)
LEMMA CaptureKeeps ==
    ASSUME Numbers, Money, CaptureHold, status = "settling", cost <= Hold, 
           UNCHANGED <<cost, retries>>, faults' \in {faults, faults + 1}
    PROVE  Money'
<1>1. Counted'
  BY DEF Numbers, Money, Counted
<1>2. CASE Claimed("capture")
  BY <1>2, MoneyKept DEF Claimed, data, job, money
<1>3. CASE "capture" \notin claims
  <2>1. claims' = claims \union {"capture"} /\ status' = status /\ frozen' = frozen - Hold
    BY <1>3 DEF CaptureHold, Claimed, Claim, job
  <2>2. frozen = OtherFrozen + Hold /\ "release" \notin claims /\ HoldClaimed
    BY <1>3 DEF Numbers, Money, HoldTracked, HoldClaimed
  <2>3. frozen' = OtherFrozen
    BY <2>1, <2>2 DEF Numbers
  <2>4. HoldTracked'
    BY <2>1, <2>2, <2>3 DEF HoldTracked, HoldClaimed
  <2>5. QED
    BY <1>1, <2>1, <2>4 DEF Money, Charged
<1>4. QED
  BY <1>2, <1>3 DEF CaptureHold

(* A step that changes the status only, but for the end of a settlement. *)
LEMMA StatusKeeps ==
    ASSUME Numbers, Money, HoldKept, UNCHANGED <<cost, retries, claims, frozen>>,
           faults' \in {faults, faults + 1},
           status' = "settling" => status \in {"indexing", "settling"},
           "capture" \in claims =>
              status' = status \/ status' \in {"settling", "completed", "output_deleted"}
    PROVE  Money'
<1>1. Counted'
  BY DEF Numbers, Money, Counted
<1>2. status' = "settling" /\ cost <= Hold => HoldClaimed /\ "release" \notin claims
  BY DEF HoldKept, Money, HoldTracked, HoldClaimed
<1>3. HoldTracked'
  BY <1>2 DEF Money, HoldTracked, HoldClaimed
<1>4. QED
  BY <1>1, <1>3 DEF Money, Charged

(* The callers keep the money accounted for. *)
LEMMA CallerMoneyStep ==
    ASSUME TypeOK, SubmitAlone, HoldKept, StepsInOrder, Money,
           NEW c \in Caller, CallerStart(c) \/ CallerStep(c)
    PROVE  Money'
<1>1. CallerFrame /\ Numbers
  BY CallerFrames, NumbersTyped
<1>2. UNCHANGED <<cost, retries>> /\ faults' \in {faults, faults + 1}
  BY <1>1 DEF CallerFrame
<1>3. CASE UNCHANGED money
  BY <1>1, <1>3, StatusKeeps DEF CallerFrame, CallerStatus, money, Money, Charged
<1>4. CASE ReserveHold /\ status \in {"created", "uploading", "failed", "cancelled"}
  BY <1>1, <1>2, <1>4, ReserveKeeps
<1>5. CASE ReleaseHold /\ status \in {"created", "uploading", "failed", "cancelled"}
  BY <1>1, <1>2, <1>5, ReleaseKeeps DEF Money, Charged
<1>6. QED
  BY <1>1, <1>3, <1>4, <1>5 DEF CallerFrame, CallerMoney

(* The workers keep it too: only faults fail a settlement within the hold. *)
LEMMA WorkerMoneyStep ==
    ASSUME TypeOK, HoldKept, StepsInOrder, Few, Few', Money,
           NEW w \in Worker, Knows(w), CountedBy(w), ProcessingStep(w)
    PROVE  Money' /\ CountedBy(w)'
<1> USE BatchAssumption
    DEF At, Try, Fault, Pause, Decide, ReadJob, Transition, Release, data, job, money,
        queue, CountedBy
<1>1. Located /\ w \in Processes /\ Numbers
  BY TypeParts, NumbersTyped DEF Processes
<1>2. ASSUME PipelineProcess(w)
      PROVE  Money' /\ CountedBy(w)'
  <2>1. Money'
    BY <1>2, <1>1, MoneyKept DEF PipelineProcess
  <2>2. CountedBy(w)'
    BY <1>2, <1>1, GotoEffect DEF PipelineProcess
  <2>3. QED
    BY <2>1, <2>2
<1>3. ASSUME Process(w)
      PROVE  Money' /\ CountedBy(w)'
  <2>1. Money'
    BY <1>3, <1>1, MoneyKept DEF Process
  <2>2. CountedBy(w)'
    BY <1>3, <1>1, GotoEffect DEF Process
  <2>3. QED
    BY <2>1, <2>2
<1>4. ASSUME GetProviderStatus(w)
      PROVE  Money' /\ CountedBy(w)'
  <2>1. Money'
    BY <1>4, <1>1, MoneyKept DEF GetProviderStatus
  <2>2. CountedBy(w)'
    BY <1>4, <1>1, GotoEffect DEF GetProviderStatus
  <2>3. QED
    BY <2>1, <2>2
<1>5. ASSUME ApplyProviderStatus(w)
      PROVE  Money' /\ CountedBy(w)'
  <2>1. Money'
    BY <1>5, <1>1, TransitionTable, StatusKeeps
    DEF ApplyProviderStatus, SetStatus, Knows, Advancing, Money, Charged
  <2>2. CountedBy(w)'
    BY <1>5, <1>1, GotoEffect DEF ApplyProviderStatus
  <2>3. QED
    BY <2>1, <2>2
<1>6. ASSUME IndexResult(w)
      PROVE  Money' /\ CountedBy(w)'
  <2>1. Money'
    BY <1>6, <1>1, MoneyKept DEF IndexResult
  <2>2. CountedBy(w)'
    BY <1>6, <1>1, GotoEffect DEF IndexResult
  <2>3. QED
    BY <2>1, <2>2
<1>7. ASSUME StartSettling(w)
      PROVE  Money' /\ CountedBy(w)'
  <2>1. Money'
    BY <1>7, <1>1, TransitionTable, StatusKeeps DEF StartSettling, SetStatus
  <2>2. CountedBy(w)'
    BY <1>7, <1>1, GotoEffect DEF StartSettling
  <2>3. QED
    BY <2>1, <2>2
<1>8. ASSUME ReleaseTerminal(w)
      PROVE  Money' /\ CountedBy(w)'
  <2>1. "capture" \notin claims /\ (status = "settling" => cost > Hold)
    BY <1>8 DEF ReleaseTerminal, StepsInOrder, Money, Charged
  <2>2. Money'
    <3>1. /\ ReleaseHold \/ UNCHANGED data
          /\ UNCHANGED cost /\ faults' \in {faults, faults + 1}
      BY <1>8 DEF ReleaseTerminal
    <3>2. CASE ReleaseHold
      <4>1. UNCHANGED retries
        BY <3>2 DEF ReleaseHold, Claimed, Claim
      <4>2. QED
        BY <1>1, <2>1, <3>1, <3>2, <4>1, ReleaseKeeps
    <3>3. CASE UNCHANGED data
      BY <1>1, <3>1, <3>3, MoneyKept
    <3>4. QED
      BY <3>1, <3>2, <3>3
  <2>3. CountedBy(w)'
    BY <1>8, <1>1, GotoEffect DEF ReleaseTerminal
  <2>4. QED
    BY <2>2, <2>3
<1>9. ASSUME Settle(w)
      PROVE  Money' /\ CountedBy(w)'
  <2>1. Money'
    BY <1>9, <1>1, MoneyKept DEF Settle
  <2>2. RetryExhausted => cost > Hold
    BY <1>1 DEF RetryExhausted, Money, Counted, Few, Numbers
  <2>3. CountedBy(w)'
    BY <1>9, <1>1, <2>2, GotoEffect DEF Settle, Numbers
  <2>4. QED
    BY <2>1, <2>3
<1>10. ASSUME Capture(w)
       PROVE  Money' /\ CountedBy(w)'
  <2>1. status = "settling" /\ cost <= Hold
    BY <1>10 DEF Capture, Knows, StepsInOrder
  <2>2. "capture" \notin claims => frozen >= Hold
    <3>1. "capture" \notin claims => claims = {"hold"}
      BY <1>1, <2>1 DEF Money, HoldTracked, HoldClaimed, Numbers
    <3>2. QED
      BY <3>1 DEF Money, HoldTracked
  <2>3. \/ CaptureHold /\ UNCHANGED faults /\ Goto(w, "markSettled")
        \/ (CaptureHold \/ UNCHANGED data) /\ faults' = faults + 1 /\ Goto(w, "recordFailure")
    BY <1>10, <1>1, <2>2 DEF Capture, CaptureFailed, Numbers
  <2>4. Money'
    BY <1>10, <1>1, <2>1, MoneyKept, CaptureKeeps DEF Capture, CaptureHold, Claimed, Claim
  <2>5. CountedBy(w)'
    BY <1>10, <1>1, <2>3, GotoEffect
    DEF Capture, CaptureHold, Claimed, Claim, Money, Counted, Numbers
  <2>6. QED
    BY <2>4, <2>5
<1>11. ASSUME MarkSettled(w)
       PROVE  Money' /\ CountedBy(w)'
  <2>1. Money'
    BY <1>11, <1>1, StatusKeeps DEF MarkSettled, SetStatus
  <2>2. CountedBy(w)'
    BY <1>11, <1>1, GotoEffect DEF MarkSettled
  <2>3. QED
    BY <2>1, <2>2
<1>12. ASSUME RecordSettlementFailure(w)
       PROVE  Money' /\ CountedBy(w)'
  <2>1. CASE CountFailure /\ UNCHANGED faults
             /\ Goto(w, IF retries' = MaxRetries THEN "exhaust"
                        ELSE IF cost > Hold THEN "requeue" ELSE "recheck")
    <3>1. Counted' /\ (retries' = MaxRetries => cost > Hold)
      BY <1>12, <1>1 DEF RecordSettlementFailure, CountFailure, Counted, Few, Numbers
    <3>2. Money'
      BY <1>12, <3>1
      DEF RecordSettlementFailure, CountFailure, Money, Charged, HoldTracked, HoldClaimed
    <3>3. CountedBy(w)'
      BY <1>12, <1>1, <3>1, GotoEffect DEF RecordSettlementFailure
    <3>4. QED
      BY <3>2, <3>3
  <2>2. CASE Fault /\ Goto(w, IF cost > Hold THEN "requeue" ELSE "recheck") /\ UNCHANGED data
    <3>1. Money'
      BY <1>12, <1>1, <2>2, MoneyKept DEF RecordSettlementFailure
    <3>2. CountedBy(w)'
      BY <1>1, <2>2, GotoEffect
    <3>3. QED
      BY <3>1, <3>2
  <2>3. CASE Fault /\ Goto(w, IF cost > Hold THEN "requeue" ELSE "recheck") /\ CountFailure
    <3>1. Counted'
      BY <1>12, <1>1, <2>3
      DEF RecordSettlementFailure, CountFailure, Fault, Counted, Few, Numbers
    <3>2. Money'
      BY <1>12, <2>3, <3>1
      DEF RecordSettlementFailure, CountFailure, Fault, Few, Money, Charged, HoldTracked,
          HoldClaimed
    <3>3. CountedBy(w)'
      BY <1>1, <2>3, GotoEffect
    <3>4. QED
      BY <3>2, <3>3
  <2>4. QED
    BY <1>12, <2>1, <2>2, <2>3 DEF RecordSettlementFailure
<1>13. ASSUME ReleaseExhausted(w)
       PROVE  Money' /\ CountedBy(w)'
  <2>1. "capture" \notin claims /\ (status = "settling" => cost > Hold)
    BY <1>13, <1>1 DEF ReleaseExhausted, StepsInOrder, Numbers
  <2>2. Money'
    <3>1. /\ ReleaseHold \/ UNCHANGED data
          /\ UNCHANGED cost /\ faults' \in {faults, faults + 1}
      BY <1>13 DEF ReleaseExhausted
    <3>2. CASE ReleaseHold
      <4>1. UNCHANGED retries
        BY <3>2 DEF ReleaseHold, Claimed, Claim
      <4>2. QED
        BY <1>1, <2>1, <3>1, <3>2, <4>1, ReleaseKeeps
    <3>3. CASE UNCHANGED data
      BY <1>1, <3>1, <3>3, MoneyKept
    <3>4. QED
      BY <3>1, <3>2, <3>3
  <2>3. CountedBy(w)'
    BY <1>13, <1>1, GotoEffect DEF ReleaseExhausted
  <2>4. QED
    BY <2>2, <2>3
<1>14. ASSUME FailExhausted(w)
       PROVE  Money' /\ CountedBy(w)'
  <2>1. "capture" \notin claims
    BY <1>14, <1>1 DEF FailExhausted, StepsInOrder, Numbers
  <2>2. /\ SetStatus("failed") \/ UNCHANGED data
        /\ UNCHANGED cost /\ faults' \in {faults, faults + 1}
    BY <1>14 DEF FailExhausted
  <2>3. Money'
    BY <1>1, <2>1, <2>2, StatusKeeps DEF SetStatus
  <2>4. CountedBy(w)'
    BY <1>14, <1>1, GotoEffect DEF FailExhausted
  <2>5. QED
    BY <2>3, <2>4
<1>15. ASSUME Recheck(w)
       PROVE  Money' /\ CountedBy(w)'
  <2>1. Money'
    BY <1>15, <1>1, MoneyKept DEF Recheck
  <2>2. CountedBy(w)'
    BY <1>15, <1>1, GotoEffect DEF Recheck
  <2>3. QED
    BY <2>1, <2>2
<1>16. QED
  BY <1>2, <1>3, <1>4, <1>5, <1>6, <1>7, <1>8, <1>9, <1>10, <1>11, <1>12, <1>13, <1>14,
     <1>15
  DEF ProcessingStep
(* Every step keeps the money accounted for. *)
LEMMA MoneyStep ==
    ASSUME TypeOK, SubmitAlone, HoldKept, StepsInOrder, StepsInOrder', GuardsHold, ReadsHold,
           MoneyTracked, ChargedIffSettled, [Next]_vars
    PROVE  MoneyTracked' /\ ChargedIffSettled'
<1> SUFFICES ASSUME Few'
             PROVE  Money' /\ \A v \in Worker : CountedBy(v)'
  BY DEF MoneyTracked, ChargedIffSettled, RetriesTracked, Money, Charged, Counted,
         CountedBy, Few, StepsInOrder
<1>1. Few /\ Numbers /\ Located /\ faults' \in {faults, faults + 1}
  BY LimitsGrow, NumbersTyped, TypeParts, BatchAssumption DEF Few
<1>2. Money /\ \A v \in Worker : CountedBy(v) /\ Knows(v)
  BY <1>1
  DEF MoneyTracked, ChargedIffSettled, RetriesTracked, Money, Charged, Counted, CountedBy,
      Few, ReadsHold, Knows
<1>3. ASSUME NEW v \in Worker, UNCHANGED <<pc[v], cost, retries>>
      PROVE  CountedBy(v)'
  BY <1>1, <1>2, <1>3 DEF CountedBy, At, Numbers
<1>4. ASSUME NEW c \in Caller, CallerStart(c) \/ CallerStep(c)
      PROVE  Money' /\ \A v \in Worker : CountedBy(v)'
  <2>1. Money'
    BY <1>2, <1>4, CallerMoneyStep
  <2>2. QED
    BY <1>3, <1>4, <2>1, CallerFrames DEF CallerFrame
<1>5. ASSUME NEW w \in Worker, ProcessingStep(w)
      PROVE  Money' /\ \A v \in Worker : CountedBy(v)'
  <2>1. Money' /\ CountedBy(w)'
    BY <1>1, <1>2, <1>5, WorkerMoneyStep
  <2>2. ASSUME NEW v \in Worker \ {w}
        PROVE  CountedBy(v)'
    <3>1. pc'[v] \notin Processing \union {"ack", "requeue"}
      BY <1>1, <1>5, ProcessingAlone DEF Few, Numbers
    <3>2. QED
      BY <3>1 DEF CountedBy, At, Processing
  <2>3. QED
    BY <2>1, <2>2
<1>6. ASSUME NEW w \in Worker, QueueStep(w)
      PROVE  Money' /\ \A v \in Worker : CountedBy(v)'
  <2>1. QueueFrame(w)
    BY <1>6, QueueFrames
  <2>2. Money'
    BY <1>1, <1>2, <2>1, MoneyKept DEF QueueFrame
  <2>3. CountedBy(w)'
    BY <2>1 DEF QueueFrame, CountedBy, At
  <2>4. QED
    BY <1>3, <2>1, <2>2, <2>3 DEF QueueFrame, Others, Processes
<1>7. ASSUME BackgroundStep
      PROVE  Money' /\ \A v \in Worker : CountedBy(v)'
  <2>1. UNCHANGED <<pc, cost, status, retries, claims, frozen>>
    BY <1>7
    DEF BackgroundStep, MoveDueDelayed, RecoverStaleActive, Recovered, SetQueue, ExpireLock,
        ProviderFinishes, vars, data, job, money
  <2>2. QED
    BY <1>1, <1>2, <1>3, <2>1, MoneyKept
<1>8. ASSUME NEW p \in Processes, Crash(p)
      PROVE  Money' /\ \A v \in Worker : CountedBy(v)'
  <2>1. UNCHANGED <<cost, status, retries, claims, frozen>>
    BY <1>8 DEF Crash, data, job, money
  <2>2. pc'[p] = "idle" /\ Others(p)
    BY <1>1, <1>8, GotoEffect DEF Crash
  <2>3. ASSUME NEW v \in Worker
        PROVE  CountedBy(v)'
    <3>1. CASE v = p
      BY <2>2, <3>1 DEF CountedBy, At
    <3>2. CASE v # p
      BY <1>3, <2>1, <2>2, <3>2 DEF Others, Processes
    <3>3. QED
      BY <3>1, <3>2
  <2>4. QED
    BY <1>1, <1>2, <2>1, <2>3, MoneyKept
<1>9. QED
  BY <1>4, <1>5, <1>6, <1>7, <1>8
  DEF Next, BackgroundStep, WorkerStep, ProcessingStep, QueueStep, Processes

-----------------------------------------------------------------------------
(* The theorems *)

(* The inductive invariant. *)
IInv == TypeOK /\ BatchInvariant

(* The invariant holds at the start. *)
LEMMA InitInvariant == Init => IInv
<1> SUFFICES ASSUME Init
             PROVE  IInv
  OBVIOUS
<1> USE BatchAssumption DEF Init
<1>1. TypeOK
  <2>1. Located
    BY Locations DEF Located, Processes
  <2>2. cost \in Nat /\ balance \in Nat /\ frozen \in Nat
    OBVIOUS
  <2>3. DataTyped
    <3>1. retries \in 0 .. MaxRetries /\ ready \in 0 .. MaxReady
      OBVIOUS
    <3>2. QED
      BY <2>2, <3>1 DEF DataTyped, Status
  <2>4. RestTyped
    <3>1. faults \in 0 .. MaxFaults /\ pauses \in 0 .. MaxPauses
      OBVIOUS
    <3>2. QED
      BY DEF RestTyped
  <2>5. QED
    BY <2>1, <2>3, <2>4, TypeParts
<1>2. \A p \in Worker \union Caller : pc[p] = "idle"
  OBVIOUS
<1>3. GuardsHold /\ KeyKept
  BY DEF GuardsHold, OneCopy, LockHeld, KeyKept, Working, Locking, Processing
<1>4. SubmitAlone /\ HoldKept
  BY DEF SubmitAlone, HoldKept, Submitting, Reserving
<1>5. StepsInOrder /\ ReadsHold
  BY DEF StepsInOrder, ReadsHold, At, Charging
<1>6. MoneyTracked
  BY DEF MoneyTracked, HoldTracked, RetriesTracked, At
<1>7. InflightIsQueued /\ QueuedUntilDone /\ ChargedIffSettled
  BY DEF InflightIsQueued, QueuedUntilDone, ChargedIffSettled
<1>8. QED
  BY <1>1, <1>3, <1>4, <1>5, <1>6, <1>7 DEF IInv, BatchInvariant

(* The invariant is inductive. *)
LEMMA StepInvariant == IInv /\ [Next]_vars => IInv'
<1> SUFFICES ASSUME IInv, [Next]_vars
             PROVE  IInv'
  OBVIOUS
<1> USE DEF IInv, BatchInvariant
<1>1. TypeOK'
  BY TypesKept DEF CostWithinHold, StepsInOrder
<1>2. SubmitAlone' /\ HoldKept'
  BY SubmitStep
<1>3. StepsInOrder'
  BY OrderStep
<1>4. GuardsHold'
  BY GuardsStep
<1>5. ReadsHold'
  BY ReadsStep
<1>6. KeyKept' /\ InflightIsQueued' /\ QueuedUntilDone'
  BY KeyStep
<1>7. MoneyTracked' /\ ChargedIffSettled'
  BY <1>3, MoneyStep
<1>8. QED
  BY <1>1, <1>2, <1>3, <1>4, <1>5, <1>6, <1>7

(* So it holds always. *)
LEMMA Invariance == Spec => []IInv
BY InitInvariant, StepInvariant, PTL DEF Spec

(* Every variable keeps its type, and neither part of the customer's money becomes *)
(* negative, however many processes, faults and pauses there are                   *)
(* (usage_billing_repo.go).                                                        *)
THEOREM TypeCorrect == Spec => []TypeOK
<1>1. IInv => TypeOK
  BY DEF IInv
<1>2. QED
  BY <1>1, Invariance, PTL

(* The inductive invariant of the jobs: one submission, one copy in the queue or one *)
(* holder of the lock, and a hold that is accounted for (batch_image_worker.go,       *)
(* batch_image_public.go, batch_image_settlement.go).                                 *)
THEOREM BatchIsSound == Spec => []BatchInvariant
<1>1. IInv => BatchInvariant
  BY DEF IInv
<1>2. QED
  BY <1>1, Invariance, PTL

(* A job whose inflight key keeps Enqueue out is in the queue                       *)
(* (batch_image_queue.go:73).                                                        *)
THEOREM KeyHasEntry == Spec => []InflightIsQueued
<1>1. IInv => InflightIsQueued
  BY DEF IInv, BatchInvariant
<1>2. QED
  BY <1>1, Invariance, PTL

(* A job that a worker has begun keeps its key until it is terminal, unless two     *)
(* leases of live processes expire (batch_image_worker.go).                         *)
THEOREM StaysQueued == Spec => []QueuedUntilDone
<1>1. IInv => QueuedUntilDone
  BY DEF IInv, BatchInvariant
<1>2. QED
  BY <1>1, Invariance, PTL

(* A completed job has been charged, and a charged one is not failed or cancelled   *)
(* (batch_image_settlement.go).                                                     *)
THEOREM ChargedAsSettled == Spec => []ChargedIffSettled
<1>1. IInv => ChargedIffSettled
  BY DEF IInv, BatchInvariant
<1>2. QED
  BY <1>1, Invariance, PTL

-----------------------------------------------------------------------------
(* The refinement *)

(* Initially there is no hold. *)
LEMMA HoldInit == Init => Ledger!Init
BY BatchAssumption DEF Init, Ledger!Init, HoldState

(* A step that leaves claims and money alone is a stutter. *)
LEMMA HoldUntouched ==
    ASSUME UNCHANGED <<claims, balance, frozen, cost>>
    PROVE  UNCHANGED Ledger!vars
BY DEF Ledger!vars, HoldState

(* The transactions are the steps of BalanceHold, or change nothing. *)
LEMMA HoldReserved ==
    ASSUME Numbers, Money, StepsInOrder, ReserveHold, UNCHANGED cost
    PROVE  Ledger!Reserve
<1>1. "capture" \notin claims /\ frozen = OtherFrozen
  BY DEF StepsInOrder, ReserveHold, Money, HoldTracked, HoldClaimed
<1>2. HoldState = "none"
  BY DEF HoldState, ReserveHold
<1>3. /\ claims' = claims \union {"hold"} /\ balance' = balance - Hold
      /\ frozen' = OtherFrozen + Hold /\ balance >= Hold
  BY <1>1 DEF ReserveHold, Claim, Affordable
<1>4. HoldState' = "held"
  BY <1>1, <1>3 DEF HoldState, Numbers
<1>5. QED
  BY <1>2, <1>3, <1>4 DEF Ledger!Reserve

(* A capture returns what the cost leaves of the hold. *)
LEMMA HoldCaptured ==
    ASSUME Numbers, Money, status = "settling", cost <= Hold, CaptureHold, UNCHANGED cost
    PROVE  Ledger!Capture \/ UNCHANGED Ledger!vars
<1>1. CASE Claimed("capture")
  BY <1>1, HoldUntouched DEF Claimed, data, money
<1>2. CASE "capture" \notin claims
  <2>1. HoldClaimed /\ frozen = OtherFrozen + Hold
    BY <1>2 DEF Numbers, Money, HoldTracked, HoldClaimed
  <2>2. HoldState = "held"
    BY <1>2, <2>1 DEF HoldState, HoldClaimed, Numbers
  <2>3. /\ claims' = claims \union {"capture"} /\ balance' = balance + Hold - cost
        /\ frozen' = frozen - Hold
    BY <1>2 DEF CaptureHold, Claimed, Claim
  <2>4. frozen' = OtherFrozen /\ balance' = balance + (Hold - cost)
    BY <2>1, <2>3 DEF Numbers
  <2>5. HoldState' = "captured"
    BY <2>1, <2>3 DEF HoldState, HoldClaimed
  <2>6. QED
    BY <2>2, <2>4, <2>5 DEF Ledger!Capture
<1>3. QED
  BY <1>1, <1>2 DEF CaptureHold

(* A release returns all of it. *)
LEMMA HoldReleased ==
    ASSUME Numbers, Money, "capture" \notin claims, ReleaseHold, UNCHANGED cost
    PROVE  Ledger!Release \/ UNCHANGED Ledger!vars
<1>1. CASE Claimed("release")
  BY <1>1, HoldUntouched DEF Claimed, data, money
<1>2. CASE "release" \notin claims /\ ~HoldClaimed
  <2>1. claims' = claims \union {"release"} /\ UNCHANGED <<balance, frozen>>
    BY <1>2 DEF ReleaseHold, Claimed, Claim
  <2>2. QED
    BY <2>1 DEF Ledger!vars, HoldState
<1>3. CASE "release" \notin claims /\ HoldClaimed
  <2>1. claims = {"hold"} /\ frozen = OtherFrozen + Hold
    BY <1>3 DEF Numbers, Money, HoldTracked, HoldClaimed
  <2>2. HoldState = "held"
    BY <2>1 DEF HoldState, Numbers
  <2>3. /\ claims' = claims \union {"release"} /\ balance' = balance + Hold
        /\ frozen' = OtherFrozen
    BY <1>3, <2>1 DEF ReleaseHold, Claimed, Claim, Numbers
  <2>4. HoldState' = "released"
    BY <2>1, <2>3 DEF HoldState
  <2>5. QED
    BY <2>2, <2>3, <2>4 DEF Ledger!Release
<1>4. QED
  BY <1>1, <1>2, <1>3 DEF ReleaseHold

(* Every step is one of them or a stutter. *)
LEMMA HoldStep ==
    ASSUME IInv, Few, [Next]_vars
    PROVE  [Ledger!Next]_Ledger!vars
<1> USE DEF IInv, BatchInvariant
<1>1. Numbers /\ Money
  BY NumbersTyped
  DEF MoneyTracked, RetriesTracked, ChargedIffSettled, Money, Charged, Counted, Few
<1>2. ASSUME NEW c \in Caller, CallerStart(c) \/ CallerStep(c)
      PROVE  [Ledger!Next]_Ledger!vars
  <2>1. CallerMoney /\ UNCHANGED cost
    BY <1>2, CallerFrames DEF CallerFrame
  <2>2. CASE UNCHANGED money
    BY <2>1, <2>2, HoldUntouched DEF money
  <2>3. CASE ReserveHold
    BY <1>1, <2>1, <2>3, HoldReserved DEF Ledger!Next
  <2>4. CASE ReleaseHold /\ status \in {"created", "uploading", "failed", "cancelled"}
    BY <1>1, <2>1, <2>4, HoldReleased DEF Ledger!Next, Money, Charged
  <2>5. QED
    BY <2>1, <2>2, <2>3, <2>4 DEF CallerMoney
<1>3. ASSUME NEW w \in Worker, ProcessingStep(w)
      PROVE  [Ledger!Next]_Ledger!vars
  <2>1. ProcessingFrame(w)
    BY <1>3, ProcessingFrames
  <2>2. UNCHANGED cost
    BY <2>1 DEF ProcessingFrame
  <2>3. CASE UNCHANGED <<claims, balance, frozen>>
    BY <2>2, <2>3, HoldUntouched
  <2>4. CASE CaptureHold /\ At(w, "capture")
    <3>1. status = "settling" /\ cost <= Hold
      BY <2>4 DEF StepsInOrder, ReadsHold, Few
    <3>2. QED
      BY <1>1, <2>2, <2>4, <3>1, HoldCaptured DEF Ledger!Next
  <2>5. CASE ReleaseHold /\ pc[w] \in {"releaseTerminal", "exhaust"}
    <3>1. "capture" \notin claims
      BY <1>1, <2>5
      DEF StepsInOrder, At, Money, Charged, MoneyTracked, RetriesTracked, Few, Numbers
    <3>2. QED
      BY <1>1, <2>2, <2>5, <3>1, HoldReleased DEF Ledger!Next
  <2>6. QED
    BY <2>1, <2>3, <2>4, <2>5 DEF ProcessingFrame
<1>4. ASSUME NEW w \in Worker, QueueStep(w)
      PROVE  [Ledger!Next]_Ledger!vars
  BY <1>4, QueueFrames, HoldUntouched DEF QueueFrame
<1>5. ASSUME BackgroundStep
      PROVE  [Ledger!Next]_Ledger!vars
  BY <1>5, HoldUntouched
  DEF BackgroundStep, MoveDueDelayed, RecoverStaleActive, Recovered, SetQueue, ExpireLock,
      ProviderFinishes, vars, data, money
<1>6. ASSUME NEW p \in Processes, Crash(p)
      PROVE  [Ledger!Next]_Ledger!vars
  BY <1>6, HoldUntouched DEF Crash, data, money
<1>7. QED
  BY <1>2, <1>3, <1>4, <1>5, <1>6
  DEF Next, BackgroundStep, WorkerStep, ProcessingStep, QueueStep, Processes

(* While fewer than two leases of live processes expire and there are fewer faults  *)
(* than retries, every step of every process reserves, captures or releases the     *)
(* hold as BalanceHold allows, or leaves it alone (usage_billing_repo.go).           *)
THEOREM HoldImplemented ==
    ASSUME MaxPauses <= 1, MaxFaults < MaxRetries
    PROVE  Spec => ImplementsHold
<1>1. IInv => Few
  BY BatchAssumption DEF IInv, TypeOK, Few
<1>2. IInv /\ [Next]_vars => [Ledger!Next]_Ledger!vars
  BY <1>1, HoldStep
<1>3. Spec => Ledger!Init /\ [][Ledger!Next]_Ledger!vars
  BY <1>2, HoldInit, Invariance, PTL DEF Spec
<1>4. QED
  BY <1>3 DEF ImplementsHold, Ledger!Spec
=============================================================================
