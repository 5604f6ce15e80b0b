-------------------------- MODULE IdempotencyStore --------------------------
(***************************************************************************)
(* The idempotency_records table, one row per scope and key, as its SQL    *)
(* statements see it.  A deadline is abstracted to what the statements     *)
(* compare it with, the caller's clock: locked_until is NULL, ahead of the *)
(* clock ("live") or behind it ("lapsed"), and expires_at is ahead of it   *)
(* or behind it (expired).  A caller reads its clock once, before the row:  *)
(* a deadline written since then is ahead of its clock for good.           *)
(***************************************************************************)
CONSTANTS
    Operations,     \* request fingerprints, and ids of system operations
    NoOperation

ASSUME NoOperationAssumption == NoOperation \notin Operations

Statuses == {"none", "processing", "succeeded", "failed_retryable"}

Rows == [status : Statuses, fingerprint : Operations \cup {NoOperation},
         lock : {"null", "live", "lapsed"}, expired : BOOLEAN]

NoRow == [status |-> "none", fingerprint |-> NoOperation,
          lock |-> "null", expired |-> FALSE]

(* INSERT ... ON CONFLICT DO NOTHING, for a row that does not exist *)
CreateProcessing(fingerprint) ==
    [status |-> "processing", fingerprint |-> fingerprint,
     lock |-> "live", expired |-> FALSE]

(* mutant: the row is reclaimed without comparing its lock *)
Reclaimable_StatusOnly(row, from, older) == row.status = from

(* TryReclaim compares the status that was read, and the lock with a clock  *)
(* that may be older than it; it does not compare expires_at, and it keeps  *)
(* the fingerprint of whoever created the row.                              *)
Reclaimable(row, from, older) ==
    /\ row.status = from
    /\ row.lock = "null" \/ (row.lock = "lapsed" /\ ~older)

(* mutant: a reclaim renews the lock and forgets the status *)
Reclaimed_LockOnly(row) == [row EXCEPT !.lock = "live", !.expired = FALSE]

Reclaimed(row) ==
    [row EXCEPT !.status = "processing", !.lock = "live", !.expired = FALSE]

(* ExtendProcessingLock needs the creator's fingerprint *)
Extendable(row, fingerprint) ==
    /\ row.status = "processing"
    /\ row.fingerprint = fingerprint

Extended(row) == [row EXCEPT !.lock = "live", !.expired = FALSE]

(* Both marks find the row by its id alone: whoever holds it *)
MarkSucceeded(row) ==
    [row EXCEPT !.status = "succeeded", !.lock = "null", !.expired = FALSE]

MarkFailedRetryable(row, lock) ==
    [row EXCEPT !.status = "failed_retryable", !.lock = lock, !.expired = FALSE]

=============================================================================
