--------------------------- MODULE SystemOperation ---------------------------
(***************************************************************************)
(* The administrative operations on the program itself (update, roll back, *)
(* restart).  A handler runs each one inside the idempotency coordinator's *)
(* Execute, under the request's Idempotency-Key, and inside that under the *)
(* global system operation lock; the key and the lock are rows of one      *)
(* table.  Requests run in any process, and a process may die anywhere.    *)
(*                                                                         *)
(* The coordinator's row has no renewal here (ExecutionTimeout is zero);   *)
(* the lock's row is renewed in the background while its holder lives, but *)
(* only if the holder also created the row.                                *)
(***************************************************************************)
EXTENDS IdempotencyStore, Integers, FiniteSets

CONSTANTS
    Requests,       \* handlers that may run at once
    Keys,           \* Idempotency-Key values
    KeyOf,          \* the key an operation is requested under
    Lock,           \* the row of systemOperationLockKey
    MaxFaults       \* bound: crashes, failed writes and missed renewals

ASSUME KeyAssumption == KeyOf \in [Operations -> Keys] /\ Lock \notin Keys
ASSUME FaultsAssumption == MaxFaults \in Nat

VARIABLES
    rows,           \* the table
    at,             \* where each request's handler is
    op,             \* the operation it runs, NoOperation between requests
    seen,           \* the status it read before a TryReclaim
    older,          \* the requests whose clock is older than the row they read
    succeeded,      \* whether its operation succeeded
    renewing,       \* the requests whose renewLoop still runs
    applied,        \* how often a key's operation took effect in its row's life
    overtaken,      \* the keys whose expired row was reclaimed a second time
    exposed,        \* a lease has lapsed under a holder that is still running
    faults

vars == <<rows, at, op, seen, older, succeeded, renewing, applied, overtaken,
          exposed, faults>>

Locations == {"idle", "reclaim", "reclaim_expired", "owner", "relock",
              "running", "release", "mark"}

Key(r) == KeyOf[op[r]]

(* A request that owns its key's row, and one that holds the lock *)
Owners(k) == {r \in Requests : /\ at[r] \in {"owner", "relock", "running", "release", "mark"}
                               /\ Key(r) = k}
Holders == {r \in Requests : at[r] \in {"running", "release"}}

(* The requests between a reading of the row and their TryReclaim of it *)
Readers(x) ==
    {r \in Requests : IF x = Lock THEN at[r] = "relock"
                      ELSE at[r] \in {"reclaim", "reclaim_expired"} /\ Key(r) = x}

TypeOK ==
    /\ rows \in [Keys \cup {Lock} -> Rows]
    /\ at \in [Requests -> Locations]
    /\ op \in [Requests -> Operations \cup {NoOperation}]
    /\ \A r \in Requests : at[r] = "idle" <=> op[r] = NoOperation
    /\ seen \in [Requests -> Statuses \cup {"gone"}]
    /\ succeeded \in [Requests -> BOOLEAN]
    /\ older \subseteq UNION {Readers(x) : x \in Keys \cup {Lock}}
    /\ renewing \subseteq Holders
    /\ applied \in [Keys -> Nat]
    /\ overtaken \subseteq Keys
    /\ exposed \in BOOLEAN
    /\ faults \in 0..MaxFaults
    \* an owner's row says it is being processed
    /\ \A k \in Keys : Owners(k) # {} => rows[k].status = "processing"

Init ==
    /\ rows = [x \in Keys \cup {Lock} |-> NoRow]
    /\ at = [r \in Requests |-> "idle"]
    /\ op = [r \in Requests |-> NoOperation]
    /\ seen = [r \in Requests |-> "none"]
    /\ older = {}
    /\ succeeded = [r \in Requests |-> FALSE]
    /\ renewing = {}
    /\ applied = [k \in Keys |-> 0]
    /\ overtaken = {}
    /\ exposed = FALSE
    /\ faults = 0

Fault == faults < MaxFaults /\ faults' = faults + 1

Go(r, where) == at' = [at EXCEPT ![r] = where]

(* A statement of request r writes the row *)
Write(r, x, row) ==
    /\ rows' = [rows EXCEPT ![x] = row]
    /\ older' = (older \cup Readers(x)) \ {r}

NoWrite(r) == UNCHANGED rows /\ older' = older \ {r}

(* The handler answers and its goroutines end *)
Leave(r) ==
    /\ Go(r, "idle")
    /\ op' = [op EXCEPT ![r] = NoOperation]
    /\ seen' = [seen EXCEPT ![r] = "none"]
    /\ succeeded' = [succeeded EXCEPT ![r] = FALSE]

-----------------------------------------------------------------------------
(* IdempotencyCoordinator.Execute, up to the call of the executor *)

(* A row that is being processed is in conflict whatever its lock says *)
RetryDue(row) == row.status = "failed_retryable" /\ row.lock # "live"

(* The switch on the row's status: replay, conflict, back off, or reclaim *)
Decide(r, o, row) ==
    IF row.fingerprint = o /\ RetryDue(row)
    THEN /\ Go(r, "reclaim")
         /\ op' = [op EXCEPT ![r] = o]
         /\ seen' = [seen EXCEPT ![r] = row.status]
         /\ UNCHANGED succeeded
    ELSE Leave(r)

Claim(r, o) ==
    LET k == KeyOf[o]
        row == rows[k]
    IN  /\ at[r] = "idle"
        /\ \/ /\ row.status = "none"
              /\ Write(r, k, CreateProcessing(o))
              /\ Go(r, "owner")
              /\ op' = [op EXCEPT ![r] = o]
              /\ UNCHANGED <<seen, succeeded>>
           \/ /\ row.status # "none"
              /\ row.fingerprint = o
              /\ row.expired
              /\ Go(r, "reclaim_expired")
              /\ op' = [op EXCEPT ![r] = o]
              /\ seen' = [seen EXCEPT ![r] = row.status]
              /\ NoWrite(r)
              /\ UNCHANGED succeeded
           \/ /\ row.status # "none"
              /\ ~row.expired
              /\ Decide(r, o, row)
              /\ NoWrite(r)
        /\ UNCHANGED <<renewing, applied, overtaken, exposed, faults>>

(* TryReclaim; after losing an expired row the latest one is read again *)
Reclaim(r) ==
    /\ at[r] \in {"reclaim", "reclaim_expired"}
    /\ IF Reclaimable(rows[Key(r)], seen[r], r \in older)
       THEN /\ Write(r, Key(r), Reclaimed(rows[Key(r)]))
            /\ Go(r, "owner")
            /\ overtaken' = IF seen[r] = "succeeded" /\ ~rows[Key(r)].expired
                            THEN overtaken \cup {Key(r)} ELSE overtaken
            /\ UNCHANGED <<op, seen, succeeded>>
       ELSE /\ IF at[r] = "reclaim_expired"
               THEN Decide(r, op[r], rows[Key(r)])
               ELSE Leave(r)
            /\ NoWrite(r)
            /\ UNCHANGED overtaken
    /\ UNCHANGED <<renewing, applied, exposed, faults>>

-----------------------------------------------------------------------------
(* SystemOperationLockService.Acquire and its renewLoop *)

(* The executor returns an error and the key's row is marked failed *)
Busy(r) ==
    /\ Go(r, "mark")
    /\ NoWrite(r)
    /\ UNCHANGED <<seen, renewing>>

(* The renewLoop of a holder that did not create the row ends at its first *)
(* tick, before the lease does.                                            *)
Hold(r, row) ==
    /\ Write(r, Lock, row)
    /\ Go(r, "running")
    /\ renewing' = IF Extendable(row, op[r]) THEN renewing \cup {r} ELSE renewing

(* The renewLoop ends; a lease lapsed under a holder is history once no   *)
(* holder is left.                                                        *)
StopHolding(r) ==
    /\ renewing' = renewing \ {r}
    /\ exposed' = (exposed /\ Holders \ {r} # {})

LockHeld(row) == row.status = "processing" /\ row.lock = "live"

Acquire(r) ==
    /\ at[r] = "owner"
    /\ \/ /\ rows[Lock].status = "none"
          /\ Hold(r, CreateProcessing(op[r]))
          /\ UNCHANGED seen
       \/ LockHeld(rows[Lock]) /\ Busy(r)
       \/ /\ rows[Lock].status # "none"
          /\ ~LockHeld(rows[Lock])
          /\ Go(r, "relock")
          /\ seen' = [seen EXCEPT ![r] = rows[Lock].status]
          /\ NoWrite(r)
          /\ UNCHANGED renewing
    /\ UNCHANGED <<op, succeeded, applied, overtaken, exposed, faults>>

ReclaimLock(r) ==
    /\ at[r] = "relock"
    /\ IF Reclaimable(rows[Lock], seen[r], r \in older)
       THEN Hold(r, Reclaimed(rows[Lock])) /\ UNCHANGED seen
       ELSE Busy(r)
    /\ UNCHANGED <<op, succeeded, applied, overtaken, exposed, faults>>

(* A renewal that comes late revives a lapsed lease, and so does one of a *)
(* holder whose lock another request has taken over in the meantime.      *)
Renew(r) ==
    /\ r \in renewing
    /\ rows[Lock].lock = "lapsed" \/ ~Extendable(rows[Lock], op[r])
    /\ IF Extendable(rows[Lock], op[r])
       THEN Write(r, Lock, Extended(rows[Lock])) /\ UNCHANGED renewing
       ELSE NoWrite(r) /\ renewing' = renewing \ {r}
    /\ UNCHANGED <<at, op, seen, succeeded, applied, overtaken, exposed, faults>>

-----------------------------------------------------------------------------
(* The operation, Release and the coordinator's mark *)

(* The operation itself, outside this model, succeeds or fails *)
Operate(r) ==
    /\ at[r] = "running"
    /\ \E done \in BOOLEAN :
          /\ succeeded' = [succeeded EXCEPT ![r] = done]
          /\ applied' = [applied EXCEPT ![Key(r)] = @ + IF done THEN 1 ELSE 0]
    /\ Go(r, "release")
    /\ NoWrite(r)
    /\ UNCHANGED <<op, seen, renewing, overtaken, exposed, faults>>

(* Release ends the renewal, then marks the lock's row; its error is ignored. *)
(* A failed operation leaves locked_until at the present.                     *)
Release(r) ==
    /\ at[r] = "release"
    /\ \/ /\ Write(r, Lock, IF succeeded[r]
                            THEN MarkSucceeded(rows[Lock])
                            ELSE MarkFailedRetryable(rows[Lock], "lapsed"))
          /\ UNCHANGED faults
       \/ Fault /\ NoWrite(r)
    /\ Go(r, "mark")
    /\ StopHolding(r)
    /\ UNCHANGED <<op, seen, succeeded, applied, overtaken>>

(* The mark of the key's row uses the request's context: it fails when the *)
(* client has gone, and the row stays in processing.                       *)
Mark(r) ==
    /\ at[r] = "mark"
    /\ \/ /\ Write(r, Key(r), IF succeeded[r]
                              THEN MarkSucceeded(rows[Key(r)])
                              ELSE MarkFailedRetryable(rows[Key(r)], "live"))
          /\ UNCHANGED faults
       \/ Fault /\ NoWrite(r)
    /\ Leave(r)
    /\ UNCHANGED <<renewing, applied, overtaken, exposed>>

-----------------------------------------------------------------------------
(* Time, the cleanup service, and crashes *)

(* locked_until passes: the end of a key's back-off, and the lock's lease,  *)
(* which is renewed unless renewals are missed.  Nothing reads locked_until *)
(* of a key in processing before its row expires: it passes with it.        *)
Lapse(x) ==
    /\ rows[x].lock = "live"
    /\ x # Lock => rows[x].status # "processing"
    /\ rows' = [rows EXCEPT ![x].lock = "lapsed"]
    /\ IF x = Lock /\ rows[x].status = "processing"
       THEN /\ IF \E r \in renewing : Extendable(rows[x], op[r])
               THEN Fault ELSE UNCHANGED faults
            /\ exposed' = (exposed \/ Holders # {})
       ELSE UNCHANGED <<faults, exposed>>
    /\ UNCHANGED <<at, op, seen, older, succeeded, renewing, applied, overtaken>>

(* A row's hour outlasts its lock and any operation that runs under it. *)
Unused(x) ==
    /\ rows[x].status # "none"
    /\ IF x = Lock THEN rows[x].lock # "live" /\ Holders = {}
                   ELSE Owners(x) = {}

(* expires_at of a key's row passes *)
Expire(k) ==
    /\ Unused(k)
    /\ ~rows[k].expired
    /\ rows' = [rows EXCEPT ![k].expired = TRUE,
                            ![k].lock = IF @ = "live" THEN "lapsed" ELSE @]
    /\ applied' = [applied EXCEPT ![k] = 0]
    /\ overtaken' = overtaken \ {k}
    /\ UNCHANGED <<at, op, seen, older, succeeded, renewing, exposed, faults>>

(* mutant: the cleanup keeps the rows that are being processed *)
Deletable_Finished(row) == row.expired /\ row.status # "processing"

Deletable(row) == row.expired

(* cleanupOnce.  Nothing but the cleanup reads the expiry of the lock's row, *)
(* which passes here.  A TryReclaim of a deleted row's id finds nothing.     *)
DeleteExpired(x) ==
    /\ IF x = Lock THEN Unused(x) /\ Deletable([rows[x] EXCEPT !.expired = TRUE])
                   ELSE Deletable(rows[x])
    /\ rows' = [rows EXCEPT ![x] = NoRow]
    /\ seen' = [r \in Requests |-> IF r \in Readers(x) THEN "gone" ELSE seen[r]]
    /\ UNCHANGED <<at, op, older, succeeded, renewing, applied, overtaken, exposed,
                   faults>>

(* The process dies; an operation under way may already have taken effect *)
Crash(r) ==
    /\ at[r] # "idle"
    /\ Fault
    /\ \E done \in {0} \cup (IF at[r] = "running" THEN {1} ELSE {}) :
          applied' = [applied EXCEPT ![Key(r)] = @ + done]
    /\ Leave(r)
    /\ NoWrite(r)
    /\ StopHolding(r)
    /\ UNCHANGED overtaken

-----------------------------------------------------------------------------
Step(r) ==
    \/ Reclaim(r) \/ Acquire(r) \/ ReclaimLock(r)
    \/ Operate(r) \/ Release(r) \/ Mark(r)

Next ==
    \/ \E r \in Requests :
          \/ \E o \in Operations : Claim(r, o)
          \/ Step(r)
          \/ Renew(r)
          \/ Crash(r)
    \/ \E k \in Keys : Expire(k)
    \/ \E x \in Keys \cup {Lock} : Lapse(x) \/ DeleteExpired(x)

Spec == Init /\ [][Next]_vars

(* Handlers run on, time passes, and the cleanup service keeps ticking. *)
Fairness ==
    /\ \A r \in Requests : WF_vars(Step(r))
    /\ \A k \in Keys : WF_vars(Expire(k))
    /\ WF_vars(Lapse(Lock))
    /\ \A x \in Keys \cup {Lock} : WF_vars(DeleteExpired(x))

FairSpec == Spec /\ Fairness

-----------------------------------------------------------------------------
(* Within the life of a key's row, the operation requested under it takes  *)
(* effect at most once, whatever crashes, lost marks and retries there are: *)
(* a row left in processing blocks its key until it expires.  The exception *)
(* is a request that read an expired row and reclaims it when another that  *)
(* read it too has already reclaimed it and succeeded.                      *)
AppliedOncePerKey == \A k \in Keys \ overtaken : applied[k] <= 1

(* A replayed answer is about an operation that took effect, and a retry is *)
(* invited only after one that did not.                                     *)
RecordTellsTruth ==
    \A k \in Keys \ overtaken : ~rows[k].expired =>
        /\ rows[k].status = "succeeded" => applied[k] >= 1
        /\ rows[k].status = "failed_retryable" => applied[k] = 0

(* Two operations run at once only if the lease of one of them lapsed under *)
(* it, and once no operation runs the next ones exclude each other again.   *)
OneWhileLeased == ~exposed => Cardinality(Holders) <= 1

(* A key has one owner at a time: while it runs, its row is neither expired nor *)
(* to be reclaimed, and a row that is left in processing is not until it expires *)
KeyExcludes ==
    \A k \in Keys :
        /\ \A r, s \in Owners(k) : r = s
        /\ Owners(k) # {} => LockHeld(rows[k]) /\ ~rows[k].expired
        /\ rows[k].status = "processing" => rows[k].expired \/ rows[k].lock = "live"

(* What a request has done of its operation is what the row's life has seen *)
EffectsTracked ==
    \A k \in Keys :
        /\ rows[k].status = "none" \/ rows[k].expired => applied[k] = 0
        /\ k \notin overtaken => \A r \in Owners(k) :
              applied[k] = IF succeeded[r] THEN 1 ELSE 0

(* A TryReclaim is of a row that was there, and only what ran has succeeded *)
StepsInOrder ==
    \A r \in Requests :
        /\ at[r] \in {"reclaim", "reclaim_expired", "relock"} => seen[r] # "none"
        /\ succeeded[r] => at[r] \in {"release", "mark"}

(* The lease of the lock holds others off, until it lapses under a holder *)
LeaseHeld ==
    ~exposed /\ Holders # {} =>
        /\ LockHeld(rows[Lock])
        /\ \A r, s \in Holders : r = s

(* How the rows of idempotency_records keep the handlers apart: a key's row  *)
(* stands for its one owner and what it has done, the lock's row for the one *)
(* running operation.  The properties above follow, and hold after each step *)
OperationInvariant ==
    /\ KeyExcludes
    /\ EffectsTracked
    /\ StepsInOrder
    /\ LeaseHeld
    /\ AppliedOncePerKey
    /\ RecordTellsTruth

(* What a crash or a lost mark leaves in processing, a key or the lock, does *)
(* not stay so forever.                                                      *)
ProcessingEnds ==
    \A x \in Keys \cup {Lock} :
        rows[x].status = "processing" ~> rows[x].status # "processing"

=============================================================================
