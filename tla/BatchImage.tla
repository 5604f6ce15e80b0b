------------------------------ MODULE BatchImage ------------------------------
(***************************************************************************)
(* One batch image job, from its submission to its settlement:              *)
(* backend/internal/service/batch_image_public.go, _worker.go,              *)
(* _processor.go, _settlement.go, _billing_recovery.go and the repositories *)
(* batch_image_queue.go (Redis), batch_image_repo.go and                    *)
(* usage_billing_repo.go (PostgreSQL).                                      *)
(*                                                                         *)
(* A caller is a goroutine that serves a request of the customer or runs    *)
(* the recovery sweep; a worker is one loop of BatchImageWorker.  The queue *)
(* holds the job's id in a list (ready), two sorted sets (delayed, active)  *)
(* and a key that keeps a second copy out (inflight); a worker works under  *)
(* a lock that expires.  Time is abstract: a lease of a live process, which *)
(* its heartbeat renews, expires only when the process pauses for too long. *)
(***************************************************************************)
EXTENDS Integers

CONSTANTS
    Worker,           \* the worker loops of all instances
    Caller,           \* concurrent requests and sweeps
    None,             \* nobody
    Hold,             \* the amount held for the job
    OtherFrozen,      \* frozen for the customer's other jobs
    MaxRetries,       \* batchImageSettlementMaxRetries
    MaxReady,         \* bound on the copies of the job in the ready list
    MaxFaults,        \* bound on crashes and errors of the stores in a behaviour
    MaxPauses,        \* bound on leases that a live process lets expire
    AmbiguousCommits  \* whether a write may be done and still report an error

ASSUME BatchAssumption ==
    /\ Worker \cap Caller = {}
    /\ None \notin Worker
    /\ Hold \in Nat \ {0}
    /\ OtherFrozen \in Nat
    /\ MaxRetries \in Nat \ {0}
    /\ MaxReady \in Nat \ {0}
    /\ MaxFaults \in Nat
    /\ MaxPauses \in Nat
    /\ AmbiguousCommits \in BOOLEAN

Status == {"none", "created", "uploading", "submitted", "running", "indexing",
           "settling", "completed", "failed", "cancelled", "output_deleted"}

Terminal == {"completed", "failed", "cancelled", "output_deleted"}

\* Where a caller is in Submit, its failure paths included.
Submitting == {"reserve", "items", "upload", "provider", "record", "releaseFail",
               "releaseInvalid", "markFailed", "markRetry"}

CallerLocation == Submitting \union
    {"idle", "abort", "enqueue", "cancelLocal", "cancelUpstream", "releaseEnd", "retry"}

\* Where a worker runs the heartbeat of the job and of its lock.
Processing == {"read", "process", "get", "toRunning", "toIndexing", "toFailed",
               "toCancelled", "index", "toSettling", "settle", "capture",
               "markSettled", "recordFailure", "exhaust", "toExhausted",
               "recheck", "releaseTerminal"}

WorkerLocation == Processing \union {"idle", "lock", "conflict", "ack", "requeue", "unlock"}

VARIABLES
    status,    \* batch_image_jobs.status, "none" before the insert
    named,     \* provider_job_name is set
    retries,   \* retry_count, capped at MaxRetries: only the limit is looked at
    hidden,    \* user_deleted_at is set
    claims,    \* the request ids of the job in usage_billing_dedup
    balance,   \* users.balance
    frozen,    \* users.frozen_balance
    ready,     \* copies of the job in the ready list
    delayed,   \* the job is in the delayed set
    active,    \* the job is in the active set
    inflight,  \* the job's inflight key is set
    lock,      \* the worker whose token is in the job's lock
    upstream,  \* the provider's batch
    cost,      \* what the images will cost
    pc,        \* per process
    faults,    \* history: crashes and errors so far
    pauses     \* history: leases that live processes let expire

job == <<status, named, retries, hidden>>
money == <<claims, balance, frozen>>
queue == <<ready, delayed, active, inflight>>
data == <<job, money, queue>>

vars == <<data, lock, upstream, cost, pc, faults, pauses>>

Init ==
    /\ status = "none"
    /\ named = FALSE
    /\ retries = 0
    /\ hidden = FALSE
    /\ claims = {}
    /\ balance \in {0, Hold}       \* too little for the hold, or enough
    /\ frozen = OtherFrozen
    /\ ready = 0
    /\ delayed = FALSE
    /\ active = FALSE
    /\ inflight = FALSE
    /\ lock = None
    /\ upstream = "none"
    /\ cost \in {Hold - 1, Hold + 1}  \* within the hold, or beyond it
    /\ pc = [p \in Worker \union Caller |-> "idle"]
    /\ faults = 0
    /\ pauses = 0

------------------------------------------------------------------------------
At(p, l) == pc[p] = l

Goto(p, l) == pc' = [pc EXCEPT ![p] = l]

Fault == faults < MaxFaults /\ faults' = faults + 1

Pause == pauses < MaxPauses /\ pauses' = pauses + 1

\* A call of a store: its effect on the data, or an error.
Try(p, Effect, ok, bad) ==
    \/ Effect /\ Goto(p, ok) /\ UNCHANGED faults
    \/ Fault /\ Goto(p, bad) /\ UNCHANGED data
    \/ AmbiguousCommits /\ Fault /\ Goto(p, bad) /\ Effect

\* A decision that touches no store, or only reads.
Decide(p, l) == Goto(p, l) /\ UNCHANGED <<data, faults>>

Transitions ==
    [created   |-> {"uploading", "submitted", "cancelled"},
     uploading |-> {"submitted", "cancelled"},
     submitted |-> {"running", "indexing", "cancelled"},
     running   |-> {"running", "indexing", "cancelled"},
     indexing  |-> {"settling"},
     settling  |-> {"completed"}]

\* CanTransitionBatchImageJob: a job that is not terminal may always fail.
CanTransition(from, to) ==
    from \in DOMAIN Transitions /\ to \in Transitions[from] \union {"failed"}

SetStatus(s) == status' = s /\ UNCHANGED <<named, retries, hidden, money, queue>>

\* TransitionBatchImageJobStatus, under the lock of the row.
Transition(p, to, ok, invalid, bad) ==
    \/ CanTransition(status, to) /\ Try(p, SetStatus(to), ok, bad)
    \/ ~CanTransition(status, to) /\ Decide(p, invalid)

------------------------------------------------------------------------------
(* The queue: each operation is one script or transaction of Redis.         *)

SetQueue(r, d, a, i) ==
    /\ r <= MaxReady
    /\ ready' = r
    /\ delayed' = d
    /\ active' = a
    /\ inflight' = i
    /\ UNCHANGED <<job, money>>

\* SET NX of the inflight key and LPUSH; a job in flight is already queued.
Enqueue == SetQueue(IF inflight THEN ready ELSE ready + 1, delayed, active, TRUE)

\* RPOP of the ready list and ZADD to the active set.
Reserve == ready > 0 /\ SetQueue(ready - 1, delayed, TRUE, inflight)

RequeueAfter == SetQueue(ready, TRUE, FALSE, inflight)

\* Mutant: the inflight key stays until it expires.
Ack_KeepsKey == SetQueue(ready, FALSE, FALSE, inflight)

Ack == SetQueue(ready, FALSE, FALSE, FALSE)

------------------------------------------------------------------------------
(* The customer's money: one transaction each, deduplicated by request id.  *)

Claim(id, b, f) ==
    /\ claims' = claims \union {id}
    /\ balance' = b
    /\ frozen' = f
    /\ UNCHANGED <<job, queue>>

Claimed(id) == id \in claims /\ UNCHANGED data

\* Mutant: the balance may be overdrawn.
Affordable_Always == TRUE

Affordable == balance >= Hold

\* Mutant: whatever was reserved.
HoldClaimed_Assumed == TRUE

\* batchImageHoldClaimExists
HoldClaimed == "hold" \in claims

\* ReserveBatchImageBalance
ReserveHold == "hold" \notin claims /\ Affordable
               /\ Claim("hold", balance - Hold, frozen + Hold)

\* CaptureBatchImageBalance: the rest of the hold goes back to the balance.
CaptureHold ==
    \/ Claimed("capture")
    \/ /\ "capture" \notin claims
       /\ frozen >= Hold
       /\ Claim("capture", balance + Hold - cost, frozen - Hold)

\* ReleaseBatchImageBalance: without a hold the claim is recorded all the same.
ReleaseHold ==
    \/ Claimed("release")
    \/ /\ "release" \notin claims
       /\ IF ~HoldClaimed THEN Claim("release", balance, frozen)
          ELSE frozen >= Hold /\ Claim("release", balance + Hold, frozen - Hold)

Releasable == "release" \in claims \/ ~HoldClaimed \/ frozen >= Hold

\* releaseBatchImageBalanceHold and its two outcomes.
Release(p, ok, bad) ==
    \/ Try(p, ReleaseHold, ok, bad)
    \/ ~Releasable /\ Decide(p, bad)

------------------------------------------------------------------------------
(* Submit.                                                                  *)

CreateJob(c) ==
    /\ At(c, "idle")
    /\ status = "none"
    /\ Try(c, SetStatus("created"), "reserve", "idle")
    /\ UNCHANGED <<lock, upstream, cost, pauses>>

\* Without a hold nothing is released, whether the balance is too small or the
\* call failed.
SubmitReserve(c) ==
    /\ At(c, "reserve")
    /\ \/ Try(c, ReserveHold, "items", "markFailed")
       \/ ~Affordable /\ Decide(c, "markFailed")
    /\ UNCHANGED <<lock, upstream, cost, pauses>>

CreateItems(c) ==
    /\ At(c, "items")
    /\ Try(c, UNCHANGED data, "upload", "releaseFail")
    /\ UNCHANGED <<lock, upstream, cost, pauses>>

StartUpload(c) ==
    /\ At(c, "upload")
    /\ Transition(c, "uploading", "provider", "releaseInvalid", "releaseFail")
    /\ UNCHANGED <<lock, upstream, cost, pauses>>

\* The provider may refuse, or accept and let the call fail.
ProviderSubmit(c) ==
    /\ At(c, "provider")
    /\ \/ upstream' = "running" /\ Decide(c, "record")
       \/ upstream' \in {"none", "running"} /\ Decide(c, "releaseFail")
    /\ UNCHANGED <<lock, cost, pauses>>

SetSubmitted ==
    /\ status' = "submitted"
    /\ named' = TRUE
    /\ UNCHANGED <<retries, hidden, money, queue>>

\* UpdateBatchImageJobProviderSubmit; the job may have been failed meanwhile.
RecordSubmit(c) ==
    /\ At(c, "record")
    /\ \/ CanTransition(status, "submitted") /\ Try(c, SetSubmitted, "enqueue", "abort")
       \/ ~CanTransition(status, "submitted") /\ Decide(c, "abort")
    /\ UNCHANGED <<lock, upstream, cost, pauses>>

\* provider.Cancel: a running batch is cancelled, or runs on.
MayCancel ==
    \/ UNCHANGED upstream
    \/ upstream = "running" /\ upstream' = "cancelled"

\* abortOrphanProviderJob, best effort.
AbortOrphan(c) ==
    /\ At(c, "abort")
    /\ MayCancel
    /\ Decide(c, "idle")
    /\ UNCHANGED <<lock, cost, pauses>>

EnqueueJob(c) ==
    /\ At(c, "enqueue")
    /\ Try(c, Enqueue, "idle", "idle")
    /\ UNCHANGED <<lock, upstream, cost, pauses>>

\* Submit with the idempotency key of a job whose status is submitted.
Resubmit(c) ==
    /\ At(c, "idle")
    /\ status = "submitted"
    /\ Decide(c, "enqueue")
    /\ UNCHANGED <<lock, upstream, cost, pauses>>

\* RecordBatchImageJobSubmitFailure whatever the status is now, and, unless the
\* release failed, hidePreUpstreamSubmitFailure; the errors of both are ignored.
SubmitFailure(hide) ==
    /\ status' = "failed"
    /\ hidden' = (hidden \/ hide)
    /\ UNCHANGED <<named, retries, money, queue>>

RecordSubmitFailure(c) ==
    /\ \/ At(c, "markFailed") /\ \E hide \in BOOLEAN : Try(c, SubmitFailure(hide), "idle", "idle")
       \/ At(c, "markRetry") /\ Try(c, SubmitFailure(FALSE), "retry", "retry")
    /\ UNCHANGED <<lock, upstream, cost, pauses>>

\* releaseFailedSubmitHold; a job that is terminal already keeps its status.
ReleaseFailedSubmit(c) ==
    /\ \/ At(c, "releaseFail") /\ Release(c, "markFailed", "markRetry")
       \/ At(c, "releaseInvalid") /\ Release(c, "idle", "markRetry")
    /\ UNCHANGED <<lock, upstream, cost, pauses>>

\* enqueueBillingRetry: its error is logged.
BillingRetry(c) ==
    /\ At(c, "retry")
    /\ Try(c, Enqueue, "idle", "idle")
    /\ UNCHANGED <<lock, upstream, cost, pauses>>

------------------------------------------------------------------------------
(* The other calls on a job.                                                *)

\* Cancel reads the job of its owner and decides.
Cancel(c) ==
    /\ At(c, "idle")
    /\ ~hidden
    /\ \/ status \in {"failed", "cancelled"} /\ Decide(c, "releaseEnd")
       \/ status \in DOMAIN Transitions \ {"settling"}
          /\ Decide(c, IF named THEN "cancelUpstream" ELSE "cancelLocal")
    /\ UNCHANGED <<lock, upstream, cost, pauses>>

\* When the provider has accepted, the job is queued for a look at the outcome.
CancelUpstream(c) ==
    /\ At(c, "cancelUpstream")
    /\ UNCHANGED <<lock, cost, pauses>>
    /\ \/ UNCHANGED upstream /\ Decide(c, "idle")   \* the provider refuses
       \/ MayCancel /\ Try(c, Enqueue, "idle", "idle")

CancelLocal(c) ==
    /\ At(c, "cancelLocal")
    /\ Transition(c, "cancelled", "releaseEnd", "idle", "idle")
    /\ UNCHANGED <<lock, upstream, cost, pauses>>

ReleaseEnd(c) ==
    /\ At(c, "releaseEnd")
    /\ Release(c, "idle", "retry")
    /\ UNCHANGED <<lock, upstream, cost, pauses>>

LiveSubmit == \E c \in Caller : pc[c] \in Submitting

\* ReleaseStaleUnsubmittedOnce: the update checks again that the job is stale,
\* which it is not while a live Submit renews it.
FailStale(c) ==
    /\ At(c, "idle")
    /\ status \in {"created", "uploading"}
    /\ ~named
    /\ IF LiveSubmit THEN Pause ELSE UNCHANGED pauses
    /\ Try(c, SetStatus("failed"), "releaseEnd", "idle")
    /\ UNCHANGED <<lock, upstream, cost>>

\* DeleteRecord
DeleteRecord(c) ==
    /\ At(c, "idle")
    /\ status \in Terminal
    /\ ~hidden
    /\ hidden' = TRUE
    /\ UNCHANGED <<status, named, retries, money, queue, lock, upstream, cost, pc, faults, pauses>>

\* MarkBatchImageOutputDeleted, by the customer or the cleanup of expired output.
DeleteOutput(c) ==
    /\ At(c, "idle")
    /\ status = "completed"
    /\ SetStatus("output_deleted")
    /\ UNCHANGED <<lock, upstream, cost, pc, faults, pauses>>

------------------------------------------------------------------------------
(* BatchImageWorker.RunOnce.                                                *)

ReserveJob(w) ==
    /\ At(w, "idle")
    /\ Reserve
    /\ Goto(w, "lock")
    /\ UNCHANGED <<lock, upstream, cost, faults, pauses>>

TryAcquireJobLock(w) ==
    /\ At(w, "lock")
    /\ UNCHANGED <<data, upstream, cost, pauses>>
    /\ \/ lock = None /\ lock' = w /\ Goto(w, "read") /\ UNCHANGED faults
       \/ lock # None /\ UNCHANGED lock /\ Goto(w, "conflict") /\ UNCHANGED faults
       \/ Fault /\ UNCHANGED lock /\ Goto(w, "conflict")

\* Another worker has the lock: the job is put off, whoever works on it.
RequeueConflict(w) ==
    /\ At(w, "conflict")
    /\ Try(w, RequeueAfter, "idle", "idle")
    /\ UNCHANGED <<lock, upstream, cost, pauses>>

RequeueJob(w) ==
    /\ At(w, "requeue")
    /\ Try(w, RequeueAfter, "unlock", "unlock")
    /\ UNCHANGED <<lock, upstream, cost, pauses>>

AckJob(w) ==
    /\ At(w, "ack")
    /\ Try(w, Ack, "unlock", "unlock")
    /\ UNCHANGED <<lock, upstream, cost, pauses>>

\* The deferred release deletes the lock if it still has the worker's token.
ReleaseLock(w) ==
    /\ At(w, "unlock")
    /\ UNCHANGED <<data, upstream, cost, pauses>>
    /\ Goto(w, "idle")
    /\ \/ lock' = (IF lock = w THEN None ELSE lock) /\ UNCHANGED faults
       \/ Fault /\ UNCHANGED lock

MoveDueDelayed ==
    /\ delayed
    /\ SetQueue(ready + 1, FALSE, active, inflight)
    /\ UNCHANGED <<lock, upstream, cost, pc, faults, pauses>>

LiveWorker == \E w \in Worker : pc[w] \notin {"idle", "unlock"}

\* Mutant: a job that was being processed is taken off the active set only.
Recovered_Dropped == SetQueue(ready, delayed, FALSE, inflight)

Recovered == SetQueue(ready + 1, delayed, FALSE, inflight)

\* The heartbeat of a live worker keeps its entry of the active set fresh.
RecoverStaleActive ==
    /\ active
    /\ Recovered
    /\ IF LiveWorker THEN Pause ELSE UNCHANGED pauses
    /\ UNCHANGED <<lock, upstream, cost, pc, faults>>

LiveHolder == pc[lock] \in Processing \union {"ack", "requeue", "unlock"}

ExpireLock ==
    /\ lock # None
    /\ lock' = None
    /\ IF LiveHolder THEN Pause ELSE UNCHANGED pauses
    /\ UNCHANGED <<data, upstream, cost, pc, faults>>

------------------------------------------------------------------------------
(* BatchImagePipelineProcessor.Process and BatchImageProviderProcessor.     *)

\* A step of a worker that only reads the job, or fails to.
ReadJob(w, l) ==
    /\ \/ Decide(w, l)
       \/ Fault /\ Goto(w, "requeue") /\ UNCHANGED data
    /\ UNCHANGED <<lock, upstream, cost, pauses>>

\* Mutant: the pipeline leaves a settling job to the processor of the provider.
Settling_Never == FALSE

Settling == status = "settling"

PipelineProcess(w) ==
    At(w, "read") /\ ReadJob(w, IF Settling THEN "settle" ELSE "process")

\* The processor reads the job once more; settling counts as done.
Process(w) ==
    /\ At(w, "process")
    /\ ReadJob(w, IF status \in {"failed", "cancelled"} THEN "releaseTerminal"
                  ELSE IF status \in Terminal \union {"settling"} THEN "ack"
                  ELSE IF ~named THEN "requeue"
                  ELSE IF status = "indexing" THEN "index"
                  ELSE "get")

\* provider.Get: what it answers is acted on in later steps.
GetProviderStatus(w) ==
    /\ At(w, "get")
    /\ \/ upstream = "running" /\ \E l \in {"toRunning", "requeue"} : ReadJob(w, l)
       \/ upstream = "succeeded" /\ ReadJob(w, "toIndexing")
       \/ upstream = "failed" /\ ReadJob(w, "toFailed")
       \/ upstream = "cancelled" /\ ReadJob(w, "toCancelled")

ApplyProviderStatus(w) ==
    /\ \/ At(w, "toRunning") /\ Transition(w, "running", "requeue", "requeue", "requeue")
       \/ At(w, "toIndexing") /\ Transition(w, "indexing", "index", "requeue", "requeue")
       \/ At(w, "toFailed") /\ Transition(w, "failed", "releaseTerminal", "requeue", "requeue")
       \/ At(w, "toCancelled") /\ Transition(w, "cancelled", "releaseTerminal", "requeue", "requeue")
    /\ UNCHANGED <<lock, upstream, cost, pauses>>

\* indexAndSettle: the output is missing for now, or conflicts with the job's
\* state, or cannot be parsed, or its items are stored.
IndexResult(w) ==
    /\ At(w, "index")
    /\ \/ status = "indexing" /\ ReadJob(w, "toSettling")
       \/ status # "indexing" /\ ReadJob(w, "requeue")
       \/ ReadJob(w, "toFailed")

StartSettling(w) ==
    /\ At(w, "toSettling")
    /\ Transition(w, "settling", "requeue", "requeue", "requeue")
    /\ UNCHANGED <<lock, upstream, cost, pauses>>

ReleaseTerminal(w) ==
    /\ At(w, "releaseTerminal")
    /\ Release(w, "ack", "requeue")
    /\ UNCHANGED <<lock, upstream, cost, pauses>>

------------------------------------------------------------------------------
(* BatchImageSettlementService.Settle.                                      *)

\* isBatchImageSettlementRetryExhausted
RetryExhausted == retries >= MaxRetries

\* Settle reads the job once more.
Settle(w) ==
    /\ At(w, "settle")
    /\ ReadJob(w, IF status = "completed" THEN "ack"
                  ELSE IF status # "settling" THEN "requeue"
                  ELSE IF RetryExhausted THEN "exhaust"
                  ELSE IF cost > Hold THEN "recordFailure"
                  ELSE "capture")

\* Mutant: the job is marked as settled whatever the charge returned.
CaptureFailed_Ignored == "markSettled"

CaptureFailed == "recordFailure"

Capture(w) ==
    /\ At(w, "capture")
    /\ \/ Try(w, CaptureHold, "markSettled", CaptureFailed)
       \/ "capture" \notin claims /\ frozen < Hold /\ Decide(w, CaptureFailed)
    /\ UNCHANGED <<lock, upstream, cost, pauses>>

\* MarkBatchImageJobSettled; an error of it is no settlement failure.
MarkSettled(w) ==
    /\ At(w, "markSettled")
    /\ \/ status = "settling" /\ Try(w, SetStatus("completed"), "ack", "requeue")
       \/ status # "settling" /\ Decide(w, "requeue")
    /\ UNCHANGED <<lock, upstream, cost, pauses>>

\* SetBatchImageJobSettlementFailed, whatever the status is now.
CountFailure ==
    /\ retries' = IF retries = MaxRetries THEN retries ELSE retries + 1
    /\ UNCHANGED <<status, named, hidden, money, queue>>

\* recordSettlementFailure; only a billing failure has the pipeline look again.
\* The event that follows the count is a statement of its own, which may fail.
RecordSettlementFailure(w) ==
    LET again == IF cost > Hold THEN "requeue" ELSE "recheck" IN
    /\ At(w, "recordFailure")
    /\ \/ CountFailure /\ UNCHANGED faults
          /\ Goto(w, IF retries' = MaxRetries THEN "exhaust" ELSE again)
       \/ Fault /\ Goto(w, again) /\ (CountFailure \/ UNCHANGED data)
    /\ UNCHANGED <<lock, upstream, cost, pauses>>

\* failExhaustedSettlement: the hold is given back before the job is failed.
ReleaseExhausted(w) ==
    /\ At(w, "exhaust")
    /\ Release(w, "toExhausted", "recheck")
    /\ UNCHANGED <<lock, upstream, cost, pauses>>

FailExhausted(w) ==
    /\ At(w, "toExhausted")
    /\ Transition(w, "failed", "recheck", "requeue", "requeue")
    /\ UNCHANGED <<lock, upstream, cost, pauses>>

\* After a billing failure the pipeline looks whether the job is terminal.
Recheck(w) ==
    At(w, "recheck") /\ ReadJob(w, IF status \in Terminal THEN "ack" ELSE "requeue")

------------------------------------------------------------------------------
(* The provider, and the death of a process.                                *)

ProviderFinishes ==
    /\ upstream = "running"
    /\ upstream' \in {"succeeded", "failed"}
    /\ UNCHANGED <<data, lock, cost, pc, faults, pauses>>

Crash(p) ==
    /\ pc[p] # "idle"
    /\ Fault
    /\ Goto(p, "idle")
    /\ UNCHANGED <<data, lock, upstream, cost, pauses>>

------------------------------------------------------------------------------
CallerStep(c) ==
    \/ SubmitReserve(c) \/ CreateItems(c) \/ StartUpload(c) \/ ProviderSubmit(c)
    \/ RecordSubmit(c) \/ AbortOrphan(c) \/ EnqueueJob(c) \/ RecordSubmitFailure(c)
    \/ ReleaseFailedSubmit(c) \/ BillingRetry(c)
    \/ CancelUpstream(c) \/ CancelLocal(c) \/ ReleaseEnd(c)

CallerStart(c) ==
    CreateJob(c) \/ Resubmit(c) \/ Cancel(c) \/ FailStale(c) \/ DeleteRecord(c) \/ DeleteOutput(c)

WorkerStep(w) ==
    \/ TryAcquireJobLock(w) \/ RequeueConflict(w) \/ RequeueJob(w) \/ AckJob(w) \/ ReleaseLock(w)
    \/ PipelineProcess(w) \/ Process(w) \/ GetProviderStatus(w) \/ ApplyProviderStatus(w)
    \/ IndexResult(w) \/ StartSettling(w) \/ ReleaseTerminal(w)
    \/ Settle(w) \/ Capture(w) \/ MarkSettled(w) \/ RecordSettlementFailure(w)
    \/ ReleaseExhausted(w) \/ FailExhausted(w) \/ Recheck(w)

Next ==
    \/ \E c \in Caller : CallerStart(c) \/ CallerStep(c)
    \/ \E w \in Worker : ReserveJob(w) \/ WorkerStep(w)
    \/ MoveDueDelayed \/ RecoverStaleActive \/ ExpireLock \/ ProviderFinishes
    \/ \E p \in Worker \union Caller : Crash(p)

Spec == Init /\ [][Next]_vars

\* The loops of the workers and the movers run, the provider's batch ends and a
\* lease that nobody renews expires.  Nothing is assumed of the callers.
FairSpec ==
    /\ Spec
    /\ \A w \in Worker : WF_vars(WorkerStep(w))
    /\ WF_vars(\E w \in Worker : ReserveJob(w))
    /\ WF_vars(MoveDueDelayed)
    /\ WF_vars(RecoverStaleActive)
    /\ WF_vars(ExpireLock)
    /\ WF_vars(ProviderFinishes)

------------------------------------------------------------------------------
(* Properties                                                               *)

\* Every variable has its type; neither part of the customer's money is ever
\* negative (the updates of ReserveBatchImageBalance and its siblings).
TypeOK ==
    /\ status \in Status
    /\ named \in BOOLEAN /\ hidden \in BOOLEAN
    /\ retries \in 0 .. MaxRetries
    /\ claims \subseteq {"hold", "capture", "release"}
    /\ balance \in Nat /\ frozen \in Nat
    /\ ready \in 0 .. MaxReady
    /\ delayed \in BOOLEAN /\ active \in BOOLEAN /\ inflight \in BOOLEAN
    /\ lock \in Worker \union {None}
    /\ upstream \in {"none", "running", "succeeded", "failed", "cancelled"}
    /\ cost \in Nat
    /\ pc \in [Worker \union Caller -> WorkerLocation \union CallerLocation]
    /\ faults \in 0 .. MaxFaults
    /\ pauses \in 0 .. MaxPauses

\* A job whose inflight key keeps Enqueue out is in the ready list, the delayed
\* set or the active set: otherwise nothing could process it until the key
\* expires after seven days (batch_image_queue.go:73).
InflightIsQueued == inflight => ready > 0 \/ delayed \/ active

\* Unless live processes let two leases expire, a job that a worker has begun
\* keeps its place in the queue until it is terminal: no acknowledgement of one
\* worker drops it between two steps of its processing.
QueuedUntilDone ==
    pauses <= 1 /\ status \in {"running", "indexing", "settling"} => inflight

\* A completed job has been charged.  A charged job is never failed or cancelled,
\* whatever errors and crashes there are, as long as they are fewer than the
\* retries that exhaust a settlement, and live processes do not let two leases
\* expire: then a worker that lost its lock may fail a job charged by another.
ChargedIffSettled ==
    /\ status \in {"completed", "output_deleted"} => "capture" \in claims
    /\ pauses <= 1 /\ faults < MaxRetries /\ "capture" \in claims
       => status \in {"settling", "completed", "output_deleted"}

\* The state of the hold, as the database shows it.
HoldState ==
    IF "hold" \notin claims THEN "none"
    ELSE IF "capture" \in claims THEN "captured"
    ELSE IF frozen = OtherFrozen THEN "released" ELSE "held"

Ledger == INSTANCE BalanceHold WITH hold <- HoldState

\* The job implements the promise of its hold: no interleaving of submission,
\* cancellation, recovery sweep and settlement charges or returns it twice, or
\* touches what is frozen for another job.
ImplementsHold == Ledger!Spec

\* A queued job that has reached the provider becomes terminal with its hold
\* resolved, in spite of crashes of the workers and errors of the stores, or a
\* live process lets a lease expire.
EnqueuedIsResolved ==
    (inflight /\ status \in {"submitted", "running", "indexing", "settling"})
        ~> ((status \in Terminal /\ HoldState # "held") \/ pauses > 0)

\* When no call runs and the job is in no queue, the hold of a failed or cancelled
\* job has been returned: every path that fails to release it leaves a retry, or
\* the money would be frozen forever (batch_image_billing_recovery.go:74).
FailedIsReleased ==
    /\ \A p \in Worker \union Caller : At(p, "idle")
    /\ ready = 0 /\ ~delayed /\ ~active
    /\ status \in {"failed", "cancelled"}
    => HoldState # "held"
------------------------------------------------------------------------------
(* Why they hold: the inductive invariant.                                  *)

\* Where a worker has taken the job off the ready list and not put it back.
Working == Processing \union {"lock", "conflict", "ack", "requeue"}

\* Where a worker believes that it has the lock.
Locking == Processing \union {"ack", "requeue", "unlock"}

\* Where a worker follows what the pipeline read, that the job is not settling.
Advancing == {"process", "get", "toRunning", "toIndexing", "toFailed", "toCancelled",
              "index", "toSettling"}

\* Where a worker follows what Settle read, that the job is settling.
Charging == {"capture", "markSettled", "recordFailure", "exhaust", "toExhausted"}

\* Where Submit counts on its hold, from before its reservation.
Reserving == {"reserve", "items", "upload", "provider", "record"}

\* The job is in one place of the queue at most, and then its key is set; at most
\* one worker has taken it, and then it is in the active set.
OneCopy ==
    /\ ready > 0 => ready = 1 /\ ~delayed /\ ~active
    /\ ~(delayed /\ active)
    /\ ready > 0 \/ delayed \/ active => inflight
    /\ \A w \in Worker : pc[w] \in Working => active
    /\ \A v, w \in Worker : pc[v] \in Working /\ pc[w] \in Working => v = w

LockHeld == \A w \in Worker : pc[w] \in Locking => lock = w

\* A lease that expires too early takes away one of the two guards, and each of
\* them alone keeps a second worker off the job.
GuardsHold ==
    /\ pauses = 0 => OneCopy /\ LockHeld
    /\ pauses <= 1 => OneCopy \/ LockHeld

\* There is one Submit, and while it runs nobody else takes the job further.
SubmitAlone ==
    /\ \A c \in Caller :
          pc[c] \in Submitting => status \in {"created", "uploading", "failed", "cancelled"}
    /\ \A c, d \in Caller : pc[c] \in Submitting /\ pc[d] \in Submitting => c = d

\* Until the job settles its hold is reserved and nothing else has happened to it.
HoldKept ==
    /\ status = "none" => claims = {}
    /\ \A c \in Caller :
          /\ pc[c] \in Reserving \ {"reserve"} => HoldClaimed
          /\ pc[c] \in Reserving /\ status \in {"created", "uploading"} => "release" \notin claims
    /\ status \in {"submitted", "running", "indexing"} => claims = {"hold"}
    /\ status = "settling" => HoldClaimed

\* What a process knows of the job and its money, however late it acts on it.
StepsInOrder ==
    /\ \A c \in Caller : At(c, "releaseEnd") => status \in {"failed", "cancelled"}
    /\ \A w \in Worker :
          /\ At(w, "releaseTerminal") => status \in {"failed", "cancelled"}
          /\ pc[w] \in Charging => status \in Terminal \union {"settling"}
          /\ At(w, "capture") => cost <= Hold /\ HoldClaimed
          /\ At(w, "markSettled") => "capture" \in claims
    /\ "capture" \in claims => cost <= Hold /\ HoldClaimed /\ status \in Terminal \union {"settling"}
    /\ status \in {"completed", "output_deleted"} => "capture" \in claims

\* What a worker knows of the job as long as no other worker has taken it too.
ReadsHold ==
    pauses <= 1 => \A w \in Worker :
        /\ pc[w] \in Advancing => status # "settling"
        /\ At(w, "capture") => status = "settling"
        /\ At(w, "ack") => status \in Terminal

\* Somebody still has to do with the job: then a second copy of it is kept out.
KeyKept ==
    /\ ready > 0 \/ delayed \/ active \/ \E w \in Worker : pc[w] \in Working
    /\ pauses <= 1
    /\ status \notin Terminal
    => inflight

\* The hold is frozen until it is captured or released, and while a job that it
\* can pay for is settling neither has happened, but for the capture.
HoldTracked ==
    /\ frozen \in {OtherFrozen, OtherFrozen + Hold}
    /\ ~HoldClaimed \/ "capture" \in claims => frozen = OtherFrozen
    /\ claims = {"hold"} => frozen = OtherFrozen + Hold
    /\ status = "settling" /\ cost <= Hold => HoldClaimed /\ "release" \notin claims

\* A settlement within the hold fails by a fault only, so that it takes as many
\* faults as retries to exhaust it.
RetriesTracked ==
    /\ cost <= Hold => retries <= faults
    /\ \A w \in Worker :
          /\ At(w, "recordFailure") /\ cost <= Hold => retries < faults
          /\ pc[w] \in {"exhaust", "toExhausted"} => cost > Hold

MoneyTracked == pauses <= 1 /\ faults < MaxRetries => HoldTracked /\ RetriesTracked

\* The queue, the lock, the job's row and the billing claims agree on how far the job
\* is, for all of Submit, Cancel, the sweep and the workers at once.
BatchInvariant ==
    /\ GuardsHold
    /\ SubmitAlone
    /\ HoldKept
    /\ StepsInOrder
    /\ ReadsHold
    /\ KeyKept
    /\ MoneyTracked
    /\ InflightIsQueued
    /\ QueuedUntilDone
    /\ ChargedIffSettled
=============================================================================
