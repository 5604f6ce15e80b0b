------------------------- MODULE SystemOperationProofs -------------------------
(* What SystemOperation guarantees for any number of requests, keys,        *)
(* operations and faults.                                                   *)
EXTENDS SystemOperation, FiniteSetTheorems, TLAPS

(* The inductive invariant. *)
IInv == TypeOK /\ OperationInvariant

-----------------------------------------------------------------------------
(* What the helpers of the actions do *)

(* The statements of the store write rows, and leave the expiry behind. *)
LEMMA StoreWritesRows ==
    ASSUME NEW row \in Rows
    PROVE  /\ \A o \in Operations : CreateProcessing(o) \in Rows
           /\ Reclaimed(row) \in Rows
           /\ Extended(row) \in Rows
           /\ MarkSucceeded(row) \in Rows
           /\ \A l \in {"live", "lapsed"} : MarkFailedRetryable(row, l) \in Rows
BY DEF Rows, Statuses, CreateProcessing, Reclaimed, Extended, MarkSucceeded,
       MarkFailedRetryable

(* What a row says after each of them. *)
LEMMA StoreEffect ==
    ASSUME NEW row \in Rows
    PROVE  /\ \A o \in Operations :
                LockHeld(CreateProcessing(o)) /\ ~CreateProcessing(o).expired
           /\ LockHeld(Reclaimed(row)) /\ ~Reclaimed(row).expired
           /\ Extended(row).status = row.status /\ Extended(row).lock = "live"
           /\ MarkSucceeded(row).status = "succeeded"
           /\ \A l : MarkFailedRetryable(row, l).status = "failed_retryable"
BY DEF Rows, Statuses, CreateProcessing, Reclaimed, Extended, MarkSucceeded,
       MarkFailedRetryable, LockHeld

(* A request that moves leaves the others where they are. *)
LEMMA GoEffect ==
    ASSUME TypeOK, NEW r \in Requests, NEW l \in Locations, Go(r, l)
    PROVE  /\ at' \in [Requests -> Locations]
           /\ at'[r] = l
           /\ \A q \in Requests \ {r} : at'[q] = at[q]
BY DEF Go, TypeOK

(* So does one that leaves. *)
LEMMA LeaveEffect ==
    ASSUME TypeOK, NEW r \in Requests, Leave(r)
    PROVE  /\ at' \in [Requests -> Locations]
           /\ op' \in [Requests -> Operations \cup {NoOperation}]
           /\ seen' \in [Requests -> Statuses \cup {"gone"}]
           /\ succeeded' \in [Requests -> BOOLEAN]
           /\ at'[r] = "idle" /\ op'[r] = NoOperation /\ ~succeeded'[r]
           /\ \A q \in Requests \ {r} :
                /\ at'[q] = at[q] /\ op'[q] = op[q]
                /\ seen'[q] = seen[q] /\ succeeded'[q] = succeeded[q]
BY DEF Leave, Go, TypeOK, Locations, Statuses

(* The key of a request that runs. *)
LEMMA KeyType ==
    ASSUME TypeOK, NEW r \in Requests, at[r] # "idle"
    PROVE  op[r] \in Operations /\ Key(r) \in Keys /\ rows[Key(r)] \in Rows
BY KeyAssumption DEF TypeOK, Key

(* A statement writes one row. *)
LEMMA WriteEffect ==
    ASSUME TypeOK, NEW r, NEW x \in Keys \cup {Lock}, NEW row \in Rows, Write(r, x, row)
    PROVE  /\ rows' \in [Keys \cup {Lock} -> Rows]
           /\ rows'[x] = row
           /\ \A y \in (Keys \cup {Lock}) \ {x} : rows'[y] = rows[y]
BY DEF Write, TypeOK

(* Where a request that moves leaves its key and the others. *)
Others(r) ==
    \A q \in Requests \ {r} :
        /\ at'[q] = at[q] /\ op'[q] = op[q]
        /\ seen'[q] = seen[q] /\ succeeded'[q] = succeeded[q]

(* Where a request is the owner of its key. *)
Owning == {"owner", "relock", "running", "release", "mark"}

(* What the invariant says of the keys; the rest is about the lock. *)
KeyInvariant == KeyExcludes /\ EffectsTracked /\ AppliedOncePerKey /\ RecordTellsTruth

(* What TypeOK says but for the rows of owners, which follows from KeyExcludes. *)
Types ==
    /\ rows \in [Keys \cup {Lock} -> Rows]
    /\ at \in [Requests -> Locations]
    /\ op \in [Requests -> Operations \cup {NoOperation}]
    /\ \A r \in Requests : at[r] = "idle" <=> op[r] = NoOperation
    /\ seen \in [Requests -> Statuses \cup {"gone"}]
    /\ succeeded \in [Requests -> BOOLEAN]
    /\ older \subseteq UNION {Readers(x) : x \in Keys \cup {Lock}}
    /\ renewing \subseteq Holders
    /\ applied \in [Keys -> Nat]
    /\ overtaken \subseteq Keys
    /\ exposed \in BOOLEAN
    /\ faults \in 0..MaxFaults

(* The rows of owners are all that Types leaves out. *)
LEMMA TypesSuffice ==
    TypeOK <=> Types /\ \A k \in Keys : Owners(k) # {} => rows[k].status = "processing"
BY DEF TypeOK, Types

-----------------------------------------------------------------------------
(* The keys *)

(* A step that leaves the keys' rows alone and makes no owner. *)
LEMMA KeysKept ==
    ASSUME KeyInvariant,
           \A k \in Keys : rows'[k] = rows[k] /\ applied'[k] = applied[k],
           overtaken' = overtaken,
           \A q \in Requests : at'[q] \in Owning =>
             at[q] \in Owning /\ op'[q] = op[q] /\ succeeded'[q] = succeeded[q]
    PROVE  KeyInvariant'
<1>1. \A k \in Keys : Owners(k)' \subseteq Owners(k)
  BY DEF Owners, Key, Owning
<1>2. \A k \in Keys : \A q \in Owners(k)' : succeeded'[q] = succeeded[q]
  BY DEF Owners, Owning
<1>3. KeyExcludes'
  BY <1>1 DEF KeyInvariant, KeyExcludes, LockHeld
<1>4. EffectsTracked'
  BY <1>1, <1>2 DEF KeyInvariant, EffectsTracked
<1>5. QED
  BY <1>3, <1>4 DEF KeyInvariant, AppliedOncePerKey, RecordTellsTruth

(* A request becomes the owner of a key that has none. *)
LEMMA KeyClaimed ==
    ASSUME KeyInvariant, NEW r \in Requests, NEW k \in Keys, Others(r),
           Owners(k) = {},
           LockHeld(rows'[k]), ~rows'[k].expired,
           \A j \in Keys \ {k} : rows'[j] = rows[j],
           applied' = applied,
           overtaken \subseteq overtaken', overtaken' \subseteq overtaken \cup {k},
           k \in overtaken' \/ applied[k] = 0,
           at[r] \notin Owning,
           at'[r] = "owner", KeyOf[op'[r]] = k, ~succeeded'[r], succeeded'[r] \in BOOLEAN
    PROVE  KeyInvariant'
<1>1. Owners(k)' = {r} /\ \A j \in Keys \ {k} : Owners(j)' = Owners(j)
  BY DEF Owners, Key, Others, Owning
<1>2. \A j \in Keys \ {k} : \A q \in Owners(j) : succeeded'[q] = succeeded[q]
  BY DEF Owners, Others, Owning
<1>3. rows'[k].status = "processing"
  BY DEF LockHeld
<1>4. KeyExcludes'
  BY <1>1, <1>3 DEF KeyInvariant, KeyExcludes, LockHeld
<1>5. EffectsTracked'
  BY <1>1, <1>2, <1>3 DEF KeyInvariant, EffectsTracked
<1>6. AppliedOncePerKey' /\ RecordTellsTruth'
  <2>1. ASSUME NEW j \in Keys \ overtaken'
        PROVE  /\ applied'[j] <= 1
               /\ ~rows'[j].expired =>
                    /\ rows'[j].status = "succeeded" => applied'[j] >= 1
                    /\ rows'[j].status = "failed_retryable" => applied'[j] = 0
    BY <2>1, <1>3 DEF KeyInvariant, AppliedOncePerKey, RecordTellsTruth
  <2>2. QED
    BY <2>1 DEF AppliedOncePerKey, RecordTellsTruth
<1>7. QED
  BY <1>4, <1>5, <1>6 DEF KeyInvariant

(* Every step keeps what the rows of the keys say. *)
LEMMA KeyStep == TypeOK /\ KeyInvariant /\ StepsInOrder /\ [Next]_vars => KeyInvariant'
<1> SUFFICES ASSUME TypeOK, KeyInvariant, StepsInOrder, [Next]_vars
             PROVE  KeyInvariant'
  OBVIOUS
<1> USE KeyAssumption, NoOperationAssumption
<1>1. ASSUME NEW r \in Requests, NEW o \in Operations, Claim(r, o)
      PROVE  KeyInvariant'
  <2> DEFINE k == KeyOf[o]
  <2>1. k \in Keys /\ rows[k] \in Rows /\ UNCHANGED <<applied, overtaken>> /\ at[r] = "idle"
    BY <1>1 DEF TypeOK, Claim
  <2>2. CASE /\ rows[k].status = "none"
             /\ Write(r, k, CreateProcessing(o))
             /\ Go(r, "owner")
             /\ op' = [op EXCEPT ![r] = o]
             /\ UNCHANGED <<seen, succeeded>>
    <3>1. Others(r) /\ at'[r] = "owner" /\ op'[r] = o
      BY <2>2, GoEffect DEF Others, TypeOK, Locations
    <3>2. Owners(k) = {} /\ applied[k] = 0
      BY <2>1, <2>2 DEF KeyInvariant, KeyExcludes, EffectsTracked, LockHeld
    <3>3. ~succeeded'[r] /\ succeeded'[r] \in BOOLEAN
      BY <2>1, <2>2 DEF StepsInOrder, TypeOK
    <3>4. /\ rows'[k] = CreateProcessing(o)
          /\ \A j \in Keys \ {k} : rows'[j] = rows[j]
      BY <2>1, <2>2 DEF Write, TypeOK
    <3>5. LockHeld(CreateProcessing(o)) /\ ~CreateProcessing(o).expired
      BY <2>1, StoreEffect
    <3>6. QED
      BY <2>1, <3>1, <3>2, <3>3, <3>4, <3>5, KeyClaimed DEF Owning
  <2>3. CASE rows' = rows
    <3>1. \/ Leave(r)
          \/ /\ Go(r, "reclaim") \/ Go(r, "reclaim_expired")
             /\ UNCHANGED succeeded
             /\ op' = [op EXCEPT ![r] = o]
          \/ Write(r, k, CreateProcessing(o)) /\ rows[k].status = "none"
      BY <1>1 DEF Claim, Decide
    <3>2. ~(Write(r, k, CreateProcessing(o)) /\ rows[k].status = "none")
      BY <2>1, <2>3 DEF Write, TypeOK, CreateProcessing
    <3>3. \A q \in Requests : at'[q] \in Owning =>
             at[q] \in Owning /\ op'[q] = op[q] /\ succeeded'[q] = succeeded[q]
      BY <3>1, <3>2, GoEffect, LeaveEffect DEF Owning, Locations, TypeOK
    <3>4. QED
      BY <2>1, <2>3, <3>3, KeysKept
  <2>4. QED
    BY <1>1, <2>2, <2>3 DEF Claim, NoWrite
<1>2. ASSUME NEW r \in Requests, Reclaim(r)
      PROVE  KeyInvariant'
  <2>1. /\ at[r] \in {"reclaim", "reclaim_expired"}
        /\ Key(r) \in Keys /\ rows[Key(r)] \in Rows /\ op[r] \in Operations
        /\ applied' = applied
    BY <1>2, KeyType DEF Reclaim
  <2>2. CASE Reclaimable(rows[Key(r)], seen[r], r \in older)
    <3>1. /\ Write(r, Key(r), Reclaimed(rows[Key(r)]))
          /\ Go(r, "owner")
          /\ overtaken' = IF seen[r] = "succeeded" /\ ~rows[Key(r)].expired
                          THEN overtaken \cup {Key(r)} ELSE overtaken
          /\ UNCHANGED <<op, seen, succeeded>>
      BY <1>2, <2>2 DEF Reclaim
    <3>2. Others(r) /\ at'[r] = "owner" /\ op'[r] = op[r]
      BY <3>1, GoEffect DEF Others, Locations
    <3>3. /\ rows[Key(r)].status = seen[r] /\ rows[Key(r)].lock # "live"
          /\ seen[r] # "none"
      BY <2>1, <2>2 DEF Reclaimable, StepsInOrder
    <3>4. Owners(Key(r)) = {}
      BY <2>1, <3>3 DEF KeyInvariant, KeyExcludes, LockHeld
    <3>5. Key(r) \in overtaken' \/ applied[Key(r)] = 0
      <4>1. CASE rows[Key(r)].expired
        BY <2>1, <4>1 DEF KeyInvariant, EffectsTracked
      <4>2. CASE ~rows[Key(r)].expired /\ seen[r] = "succeeded"
        BY <3>1, <4>2
      <4>3. CASE ~rows[Key(r)].expired /\ seen[r] = "failed_retryable"
        BY <2>1, <3>1, <3>3, <4>3 DEF KeyInvariant, RecordTellsTruth
      <4>4. CASE ~rows[Key(r)].expired /\ seen[r] = "processing"
        BY <2>1, <3>3, <4>4 DEF KeyInvariant, KeyExcludes
      <4>5. rows[Key(r)].status \in Statuses
        BY <2>1 DEF Rows
      <4>6. QED
        BY <3>3, <4>1, <4>2, <4>3, <4>4, <4>5 DEF Statuses
    <3>6. ~succeeded'[r] /\ succeeded'[r] \in BOOLEAN
      BY <2>1, <3>1 DEF StepsInOrder, TypeOK
    <3>7. Reclaimed(rows[Key(r)]) \in Rows
      BY <2>1, StoreWritesRows
    <3>8. /\ rows'[Key(r)] = Reclaimed(rows[Key(r)])
          /\ \A j \in Keys \ {Key(r)} : rows'[j] = rows[j]
      BY <2>1, <3>1 DEF Write, TypeOK
    <3>9. LockHeld(Reclaimed(rows[Key(r)])) /\ ~Reclaimed(rows[Key(r)]).expired
      BY <2>1, StoreEffect
    <3>10. PICK k \in Keys : k = Key(r) /\ KeyOf[op'[r]] = k
      BY <2>1, <3>2 DEF Key
    <3>11. overtaken \subseteq overtaken' /\ overtaken' \subseteq overtaken \cup {k}
      BY <3>1, <3>10
    <3>12. QED
      BY <2>1, <3>2, <3>4, <3>5, <3>6, <3>8, <3>9, <3>10, <3>11, KeyClaimed DEF Owning
  <2>3. CASE ~Reclaimable(rows[Key(r)], seen[r], r \in older)
    <3>1. /\ UNCHANGED <<rows, overtaken>>
          /\ \/ Leave(r)
             \/ Go(r, "reclaim") /\ op' = [op EXCEPT ![r] = op[r]] /\ UNCHANGED succeeded
      BY <1>2, <2>3 DEF Reclaim, Decide, NoWrite
    <3>2. \A q \in Requests : at'[q] \in Owning =>
             at[q] \in Owning /\ op'[q] = op[q] /\ succeeded'[q] = succeeded[q]
      BY <3>1, GoEffect, LeaveEffect DEF Owning, Locations, TypeOK
    <3>3. QED
      BY <2>1, <3>1, <3>2, KeysKept
  <2>4. QED
    BY <2>2, <2>3
<1>3. ASSUME NEW r \in Requests, Acquire(r) \/ ReclaimLock(r) \/ Release(r)
      PROVE  KeyInvariant'
  <2>1. /\ at[r] \in {"owner", "relock", "release"}
        /\ \E l \in {"running", "relock", "mark"} : Go(r, l)
        /\ UNCHANGED <<op, succeeded, applied, overtaken>>
    BY <1>3 DEF Acquire, ReclaimLock, Release, Hold, Busy
  <2>2. \A k \in Keys : rows'[k] = rows[k]
    BY <1>3 DEF Acquire, ReclaimLock, Release, Hold, Busy, Write, NoWrite, TypeOK
  <2>3. \A q \in Requests : at'[q] \in Owning => at[q] \in Owning
    BY <2>1, GoEffect DEF Owning, Locations
  <2>4. QED
    BY <2>1, <2>2, <2>3, KeysKept
<1>4. ASSUME NEW r \in Requests, Renew(r)
      PROVE  KeyInvariant'
  <2>1. \A k \in Keys : rows'[k] = rows[k]
    BY <1>4 DEF Renew, Write, NoWrite, TypeOK
  <2>2. QED
    BY <1>4, <2>1, KeysKept DEF Renew
<1>5. ASSUME NEW r \in Requests, Operate(r)
      PROVE  KeyInvariant'
  <2> PICK done \in BOOLEAN :
        /\ succeeded' = [succeeded EXCEPT ![r] = done]
        /\ applied' = [applied EXCEPT ![Key(r)] = @ + IF done THEN 1 ELSE 0]
    BY <1>5 DEF Operate
  <2>1. /\ at[r] = "running" /\ at'[r] = "release"
        /\ Key(r) \in Keys
        /\ UNCHANGED <<rows, op, overtaken>>
        /\ \A q \in Requests \ {r} : at'[q] = at[q]
    BY <1>5, KeyType, GoEffect DEF Operate, NoWrite, Locations
  <2>2. \A k \in Keys : Owners(k)' = Owners(k)
    BY <2>1 DEF Owners, Key
  <2>3. KeyExcludes'
    BY <2>1, <2>2 DEF KeyInvariant, KeyExcludes, LockHeld
  <2>4. r \in Owners(Key(r)) /\ LockHeld(rows[Key(r)]) /\ ~rows[Key(r)].expired
    BY <2>1 DEF Owners, KeyInvariant, KeyExcludes
  <2>5. Key(r) \notin overtaken => applied[Key(r)] = 0
    BY <2>1, <2>4 DEF KeyInvariant, EffectsTracked, StepsInOrder
  <2>6. /\ applied'[Key(r)] = applied[Key(r)] + IF done THEN 1 ELSE 0
        /\ \A k \in Keys \ {Key(r)} : applied'[k] = applied[k]
        /\ succeeded'[r] = done
        /\ \A q \in Requests \ {r} : succeeded'[q] = succeeded[q]
    BY <2>1 DEF TypeOK
  <2>7. ASSUME NEW k \in Keys, k # Key(r)
        PROVE  /\ rows'[k].status = "none" \/ rows'[k].expired => applied'[k] = 0
               /\ k \notin overtaken' => \A q \in Owners(k)' :
                     applied'[k] = IF succeeded'[q] THEN 1 ELSE 0
    <3>1. r \notin Owners(k) /\ Owners(k) \subseteq Requests
      BY <2>7 DEF Owners
    <3>2. QED
      BY <2>1, <2>2, <2>6, <2>7, <3>1 DEF KeyInvariant, EffectsTracked
  <2>8. /\ rows'[Key(r)].status # "none" /\ ~rows'[Key(r)].expired
        /\ Key(r) \notin overtaken' => \A q \in Owners(Key(r)) :
               applied'[Key(r)] = IF succeeded'[q] THEN 1 ELSE 0
    <3>1. \A q \in Owners(Key(r)) : q = r
      BY <2>1, <2>4 DEF KeyInvariant, KeyExcludes
    <3>2. QED
      BY <2>1, <2>4, <2>5, <2>6, <3>1 DEF LockHeld
  <2>9. EffectsTracked'
    BY <2>2, <2>7, <2>8 DEF EffectsTracked
  <2>10. AppliedOncePerKey'
    BY <2>1, <2>5, <2>6 DEF KeyInvariant, AppliedOncePerKey
  <2>11. RecordTellsTruth'
    BY <2>1, <2>4, <2>6 DEF KeyInvariant, RecordTellsTruth, LockHeld
  <2>12. QED
    BY <2>3, <2>9, <2>10, <2>11 DEF KeyInvariant
<1>6. ASSUME NEW r \in Requests, Mark(r)
      PROVE  KeyInvariant'
  <2>1. /\ at[r] = "mark" /\ Leave(r)
        /\ Key(r) \in Keys /\ rows[Key(r)] \in Rows
        /\ UNCHANGED <<applied, overtaken>>
    BY <1>6, KeyType DEF Mark
  <2>2. \A q \in Requests : at'[q] \in Owning =>
           at[q] \in Owning /\ op'[q] = op[q] /\ succeeded'[q] = succeeded[q]
    BY <2>1, LeaveEffect DEF Owning
  <2>3. CASE NoWrite(r)
    BY <2>1, <2>2, <2>3, KeysKept DEF NoWrite
  <2>4. CASE Write(r, Key(r), IF succeeded[r]
                              THEN MarkSucceeded(rows[Key(r)])
                              ELSE MarkFailedRetryable(rows[Key(r)], "live"))
    <3>1. PICK row : /\ row = IF succeeded[r]
                              THEN MarkSucceeded(rows[Key(r)])
                              ELSE MarkFailedRetryable(rows[Key(r)], "live")
                     /\ Write(r, Key(r), row)
      BY <2>4
    <3>2. row \in Rows /\ row.status = IF succeeded[r] THEN "succeeded" ELSE "failed_retryable"
      <4>1. MarkSucceeded(rows[Key(r)]) \in Rows
        BY <2>1, StoreWritesRows
      <4>2. MarkFailedRetryable(rows[Key(r)], "live") \in Rows
        BY <2>1, StoreWritesRows
      <4>3. /\ MarkSucceeded(rows[Key(r)]).status = "succeeded"
            /\ MarkFailedRetryable(rows[Key(r)], "live").status = "failed_retryable"
        BY <2>1, StoreEffect
      <4>4. QED
        BY <3>1, <4>1, <4>2, <4>3
    <3>3. PICK k \in Keys : k = Key(r)
      BY <2>1
    <3>4. rows'[k] = row /\ \A j \in Keys \ {k} : rows'[j] = rows[j]
      BY <3>1, <3>3 DEF Write, TypeOK
    <3>5. r \in Owners(k)
      BY <2>1, <3>3 DEF Owners
    <3>6. /\ Owners(k)' = {}
          /\ \A j \in Keys : Owners(j)' \subseteq Owners(j) \ {r}
      <4>1. \A j \in Keys : Owners(j)' \subseteq Owners(j) \ {r}
        BY <2>1, <2>2, LeaveEffect DEF Owners, Key, Owning
      <4>2. QED
        BY <3>5, <4>1 DEF KeyInvariant, KeyExcludes
    <3>7. \A j \in Keys : \A q \in Owners(j)' : succeeded'[q] = succeeded[q]
      BY <2>2 DEF Owners, Owning
    <3>8. KeyExcludes'
      BY <3>2, <3>4, <3>6 DEF KeyInvariant, KeyExcludes, LockHeld
    <3>9. applied[k] = 0 \/ ~rows[k].expired
      BY DEF KeyInvariant, EffectsTracked
    <3>10. ~row.expired
      BY <2>1, <3>1 DEF Rows, MarkSucceeded, MarkFailedRetryable
    <3>11. EffectsTracked'
      BY <2>1, <3>2, <3>4, <3>6, <3>7, <3>10 DEF KeyInvariant, EffectsTracked
    <3>12. k \notin overtaken => applied[k] = IF succeeded[r] THEN 1 ELSE 0
      BY <3>5 DEF KeyInvariant, EffectsTracked
    <3>13. RecordTellsTruth'
      BY <2>1, <3>2, <3>4, <3>12 DEF KeyInvariant, RecordTellsTruth
    <3>14. AppliedOncePerKey'
      BY <2>1 DEF KeyInvariant, AppliedOncePerKey
    <3>15. QED
      BY <3>8, <3>11, <3>13, <3>14 DEF KeyInvariant
  <2>5. QED
    BY <1>6, <2>3, <2>4 DEF Mark
<1>7. ASSUME NEW r \in Requests, Crash(r)
      PROVE  KeyInvariant'
  <2> PICK done \in {0} \cup (IF at[r] = "running" THEN {1} ELSE {}) :
        applied' = [applied EXCEPT ![Key(r)] = @ + done]
    BY <1>7 DEF Crash
  <2>1. /\ at[r] # "idle" /\ Leave(r) /\ Key(r) \in Keys
        /\ UNCHANGED <<rows, overtaken>>
    BY <1>7, KeyType DEF Crash, NoWrite
  <2>2. \A q \in Requests : at'[q] \in Owning =>
           /\ q # r /\ at[q] \in Owning /\ op'[q] = op[q] /\ succeeded'[q] = succeeded[q]
    BY <2>1, LeaveEffect DEF Owning
  <2>3. /\ applied'[Key(r)] = applied[Key(r)] + done
        /\ \A k \in Keys \ {Key(r)} : applied'[k] = applied[k]
        /\ applied[Key(r)] \in Nat
    BY <2>1 DEF TypeOK
  <2>4. CASE done = 0
    BY <2>1, <2>2, <2>3, <2>4, KeysKept
  <2>5. CASE done = 1 /\ at[r] = "running"
    <3>1. r \in Owners(Key(r)) /\ LockHeld(rows[Key(r)]) /\ ~rows[Key(r)].expired
      BY <2>1, <2>5 DEF Owners, KeyInvariant, KeyExcludes
    <3>2. \A k \in Keys : Owners(k)' \subseteq Owners(k) \ {r}
      BY <2>2 DEF Owners, Key, Owning
    <3>4. PICK k \in Keys : k = Key(r)
      BY <2>1
    <3>5. Owners(k)' = {}
      BY <3>1, <3>2, <3>4 DEF KeyInvariant, KeyExcludes
    <3>6. KeyExcludes'
      BY <2>1, <3>2 DEF KeyInvariant, KeyExcludes, LockHeld
    <3>7. \A j \in Keys : \A q \in Owners(j)' : succeeded'[q] = succeeded[q]
      BY <2>2 DEF Owners, Owning
    <3>8. rows[k].status = "processing" /\ ~rows[k].expired
      BY <3>1, <3>4 DEF LockHeld
    <3>9. EffectsTracked'
      BY <2>1, <2>3, <3>2, <3>4, <3>5, <3>7, <3>8 DEF KeyInvariant, EffectsTracked
    <3>10. k \notin overtaken => applied[k] = 0
      BY <2>5, <3>1, <3>4 DEF KeyInvariant, EffectsTracked, StepsInOrder
    <3>11. AppliedOncePerKey'
      BY <2>1, <2>3, <2>5, <3>4, <3>10 DEF KeyInvariant, AppliedOncePerKey
    <3>12. RecordTellsTruth'
      BY <2>1, <2>3, <3>4, <3>8 DEF KeyInvariant, RecordTellsTruth
    <3>13. QED
      BY <3>6, <3>9, <3>11, <3>12 DEF KeyInvariant
  <2>6. QED
    BY <2>4, <2>5
<1>8. ASSUME NEW k \in Keys, Expire(k)
      PROVE  KeyInvariant'
  <2>1. /\ Owners(k) = {} /\ k # Lock
        /\ rows'[k].status = rows[k].status
        /\ rows'[k].expired
        /\ \A j \in Keys \ {k} : rows'[j] = rows[j]
        /\ applied'[k] = 0
        /\ \A j \in Keys \ {k} : applied'[j] = applied[j]
        /\ overtaken' = overtaken \ {k}
        /\ UNCHANGED <<at, op, succeeded>>
    BY <1>8 DEF Expire, Unused, TypeOK, Rows
  <2>2. \A j \in Keys : Owners(j)' = Owners(j)
    BY <2>1 DEF Owners, Key
  <2>3. KeyExcludes'
    BY <2>1, <2>2 DEF KeyInvariant, KeyExcludes, LockHeld
  <2>4. EffectsTracked'
    BY <2>1, <2>2 DEF KeyInvariant, EffectsTracked
  <2>5. AppliedOncePerKey' /\ RecordTellsTruth'
    BY <2>1 DEF KeyInvariant, AppliedOncePerKey, RecordTellsTruth
  <2>6. QED
    BY <2>3, <2>4, <2>5 DEF KeyInvariant
<1>9. ASSUME NEW x \in Keys \cup {Lock}, Lapse(x)
      PROVE  KeyInvariant'
  <2>1. /\ rows'[x].status = rows[x].status
        /\ rows'[x].expired = rows[x].expired
        /\ \A j \in Keys \ {x} : rows'[j] = rows[j]
        /\ x # Lock => rows[x].status # "processing"
        /\ UNCHANGED <<applied, overtaken, at, op, succeeded>>
    BY <1>9 DEF Lapse, TypeOK, Rows
  <2>2. \A j \in Keys : Owners(j)' = Owners(j)
    BY <2>1 DEF Owners, Key
  <2>3. KeyExcludes'
    BY <2>1, <2>2 DEF KeyInvariant, KeyExcludes, LockHeld
  <2>4. EffectsTracked'
    BY <2>1, <2>2 DEF KeyInvariant, EffectsTracked
  <2>5. AppliedOncePerKey' /\ RecordTellsTruth'
    BY <2>1 DEF KeyInvariant, AppliedOncePerKey, RecordTellsTruth
  <2>6. QED
    BY <2>3, <2>4, <2>5 DEF KeyInvariant
<1>10. ASSUME NEW x \in Keys \cup {Lock}, DeleteExpired(x)
       PROVE  KeyInvariant'
  <2>1. /\ rows'[x] = NoRow
        /\ x # Lock => rows[x].expired
        /\ \A j \in Keys \ {x} : rows'[j] = rows[j]
        /\ UNCHANGED <<applied, overtaken, at, op, succeeded>>
    BY <1>10 DEF DeleteExpired, Deletable, TypeOK
  <2>2. \A j \in Keys : Owners(j)' = Owners(j)
    BY <2>1 DEF Owners, Key
  <2>3. KeyExcludes'
    BY <2>1, <2>2 DEF KeyInvariant, KeyExcludes, LockHeld, NoRow
  <2>4. EffectsTracked'
    BY <2>1, <2>2 DEF KeyInvariant, KeyExcludes, EffectsTracked, NoRow
  <2>5. AppliedOncePerKey' /\ RecordTellsTruth'
    BY <2>1 DEF KeyInvariant, AppliedOncePerKey, RecordTellsTruth, NoRow
  <2>6. QED
    BY <2>3, <2>4, <2>5 DEF KeyInvariant
<1>11. CASE UNCHANGED vars
  BY <1>11, KeysKept DEF vars
<1>12. QED
  BY <1>1, <1>2, <1>3, <1>4, <1>5, <1>6, <1>7, <1>8, <1>9, <1>10, <1>11 DEF Next, Step

-----------------------------------------------------------------------------
(* The lease of the lock *)

(* A step that leaves the lock's row alone, or renews it, and makes no holder. *)
LEMMA LeaseKept ==
    ASSUME LeaseHeld, exposed \/ Holders = {} => exposed' \/ Holders' = {},
           Holders' \subseteq Holders,
           LockHeld(rows[Lock]) => LockHeld(rows'[Lock])
    PROVE  LeaseHeld'
BY DEF LeaseHeld, LockHeld

(* A request takes a lock whose row does not say that it is held. *)
LEMMA LeaseTaken ==
    ASSUME LeaseHeld, NEW r \in Requests, exposed' = exposed,
           ~LockHeld(rows[Lock]), LockHeld(rows'[Lock]),
           Holders' \subseteq Holders \cup {r}
    PROVE  LeaseHeld'
BY DEF LeaseHeld, LockHeld

(* The last holder leaves, or the lease has lapsed under one that stays. *)
LEMMA LeaseLeft ==
    ASSUME TypeOK, LeaseHeld, NEW r \in Holders, StopHolding(r),
           Holders' \subseteq Holders \ {r}
    PROVE  LeaseHeld'
BY DEF LeaseHeld, StopHolding, TypeOK

(* Every step keeps the lease of the lock. *)
LEMMA LeaseStep == TypeOK /\ LeaseHeld /\ [Next]_vars => LeaseHeld'
<1> SUFFICES ASSUME TypeOK, LeaseHeld, [Next]_vars
             PROVE  LeaseHeld'
  OBVIOUS
<1> USE KeyAssumption, NoOperationAssumption
<1>1. ASSUME NEW r \in Requests, NEW o \in Operations, Claim(r, o)
      PROVE  LeaseHeld'
  <2>1. /\ at[r] = "idle" /\ exposed' = exposed
        /\ \/ Leave(r) \/ Go(r, "reclaim") \/ Go(r, "reclaim_expired") \/ Go(r, "owner")
    BY <1>1 DEF Claim, Decide
  <2>2. rows'[Lock] = rows[Lock]
    BY <1>1 DEF Claim, Write, NoWrite, TypeOK
  <2>3. Holders' = Holders
    BY <2>1, GoEffect, LeaveEffect DEF Holders, Locations
  <2>4. QED
    BY <2>1, <2>2, <2>3, LeaseKept
<1>2. ASSUME NEW r \in Requests, Reclaim(r)
      PROVE  LeaseHeld'
  <2>1. /\ at[r] \in {"reclaim", "reclaim_expired"} /\ exposed' = exposed
        /\ \/ Leave(r) \/ Go(r, "reclaim") \/ Go(r, "owner")
    BY <1>2 DEF Reclaim, Decide
  <2>2. rows'[Lock] = rows[Lock]
    BY <1>2, <2>1, KeyType DEF Reclaim, Write, NoWrite, TypeOK
  <2>3. Holders' = Holders
    BY <2>1, GoEffect, LeaveEffect DEF Holders, Locations
  <2>4. QED
    BY <2>1, <2>2, <2>3, LeaseKept
<1>3. ASSUME NEW r \in Requests, NEW row \in Rows, Hold(r, row), exposed' = exposed,
             ~LockHeld(rows[Lock]), LockHeld(row)
      PROVE  LeaseHeld'
  <2>1. rows'[Lock] = row
    BY <1>3, WriteEffect DEF Hold
  <2>2. Holders' \subseteq Holders \cup {r}
    BY <1>3, GoEffect DEF Hold, Holders, Locations
  <2>3. QED
    BY <1>3, <2>1, <2>2, LeaseTaken
<1>4. ASSUME NEW r \in Requests, Acquire(r)
      PROVE  LeaseHeld'
  <2>1. CASE rows[Lock].status = "none" /\ Hold(r, CreateProcessing(op[r]))
    <3>1. op[r] \in Operations /\ rows[Lock] \in Rows
      BY <1>4, KeyType DEF Acquire, TypeOK
    <3>2. CreateProcessing(op[r]) \in Rows /\ LockHeld(CreateProcessing(op[r]))
      BY <3>1, StoreWritesRows, StoreEffect
    <3>3. ~LockHeld(rows[Lock])
      BY <2>1 DEF LockHeld
    <3>4. QED
      BY <1>3, <1>4, <2>1, <3>2, <3>3 DEF Acquire
  <2>2. CASE (Go(r, "mark") \/ Go(r, "relock")) /\ UNCHANGED rows
    <3>1. Holders' \subseteq Holders
      BY <2>2, GoEffect DEF Holders, Locations
    <3>2. Holders = {} => Holders' = {}
      BY <3>1
    <3>3. QED
      BY <1>4, <2>2, <3>1, LeaseKept DEF Acquire
  <2>3. QED
    BY <1>4, <2>1, <2>2 DEF Acquire, Busy, NoWrite
<1>5. ASSUME NEW r \in Requests, ReclaimLock(r)
      PROVE  LeaseHeld'
  <2>1. CASE Reclaimable(rows[Lock], seen[r], r \in older)
    <3>1. rows[Lock] \in Rows
      BY DEF TypeOK
    <3>2. Reclaimed(rows[Lock]) \in Rows /\ LockHeld(Reclaimed(rows[Lock]))
      BY <3>1, StoreWritesRows, StoreEffect
    <3>3. ~LockHeld(rows[Lock])
      BY <2>1 DEF LockHeld, Reclaimable
    <3>4. QED
      BY <1>3, <1>5, <2>1, <3>2, <3>3 DEF ReclaimLock
  <2>2. CASE ~Reclaimable(rows[Lock], seen[r], r \in older)
    <3>1. Holders' \subseteq Holders
      BY <1>5, <2>2, GoEffect DEF ReclaimLock, Busy, Holders, Locations
    <3>2. QED
      BY <1>5, <2>2, <3>1, LeaseKept DEF ReclaimLock, Busy, NoWrite
  <2>3. QED
    BY <2>1, <2>2
<1>6. ASSUME NEW r \in Requests, Renew(r)
      PROVE  LeaseHeld'
  <2>1. rows[Lock] \in Rows
    BY DEF TypeOK
  <2>2. rows'[Lock] \in {rows[Lock], Extended(rows[Lock])}
    BY <1>6 DEF Renew, Write, NoWrite, TypeOK
  <2>3. LockHeld(rows[Lock]) => LockHeld(rows'[Lock])
    BY <2>1, <2>2, StoreEffect DEF LockHeld
  <2>4. Holders' = Holders /\ exposed' = exposed
    BY <1>6 DEF Renew, Holders
  <2>5. QED
    BY <2>3, <2>4, LeaseKept
<1>7. ASSUME NEW r \in Requests, Operate(r)
      PROVE  LeaseHeld'
  <2>1. Holders' = Holders
    BY <1>7, GoEffect DEF Operate, Holders, Locations
  <2>2. QED
    BY <1>7, <2>1, LeaseKept DEF Operate, NoWrite
<1>8. ASSUME NEW r \in Requests, Release(r)
      PROVE  LeaseHeld'
  <2>1. r \in Holders /\ Holders' \subseteq Holders \ {r}
    BY <1>8, GoEffect DEF Release, Holders, Locations
  <2>2. QED
    BY <1>8, <2>1, LeaseLeft DEF Release
<1>9. ASSUME NEW r \in Requests, Mark(r)
      PROVE  LeaseHeld'
  <2>1. rows'[Lock] = rows[Lock] /\ at[r] = "mark"
    BY <1>9, KeyType DEF Mark, Write, NoWrite, TypeOK
  <2>2. Holders' = Holders
    BY <1>9, <2>1, LeaveEffect DEF Mark, Holders
  <2>3. QED
    BY <1>9, <2>1, <2>2, LeaseKept DEF Mark
<1>10. ASSUME NEW r \in Requests, Crash(r)
       PROVE  LeaseHeld'
  <2>1. Holders' = Holders \ {r} /\ rows' = rows
    BY <1>10, LeaveEffect DEF Crash, Holders, NoWrite
  <2>2. CASE r \in Holders
    BY <1>10, <2>1, <2>2, LeaseLeft DEF Crash
  <2>3. CASE r \notin Holders
    BY <1>10, <2>1, <2>3 DEF Crash, StopHolding, LeaseHeld, TypeOK
  <2>4. QED
    BY <2>2, <2>3
<1>11. ASSUME NEW k \in Keys, Expire(k)
       PROVE  LeaseHeld'
  <2>1. rows'[Lock] = rows[Lock] /\ Holders' = Holders /\ exposed' = exposed
    BY <1>11 DEF Expire, Holders, TypeOK
  <2>2. QED
    BY <2>1, LeaseKept
<1>12. ASSUME NEW x \in Keys \cup {Lock}, Lapse(x)
       PROVE  LeaseHeld'
  <2>1. Holders' = Holders
    BY <1>12 DEF Lapse, Holders
  <2>2. CASE x = Lock /\ rows[Lock].status = "processing"
    BY <1>12, <2>1, <2>2 DEF Lapse, LeaseHeld
  <2>3. CASE x = Lock /\ rows[Lock].status # "processing"
    BY <1>12, <2>1, <2>3 DEF Lapse, LeaseHeld, LockHeld
  <2>4. CASE x # Lock
    BY <1>12, <2>1, <2>4, LeaseKept DEF Lapse, TypeOK
  <2>5. QED
    BY <2>2, <2>3, <2>4
<1>13. ASSUME NEW x \in Keys \cup {Lock}, DeleteExpired(x)
       PROVE  LeaseHeld'
  <2>1. Holders' = Holders /\ exposed' = exposed
    BY <1>13 DEF DeleteExpired, Holders
  <2>2. CASE x = Lock
    BY <1>13, <2>1, <2>2 DEF DeleteExpired, Unused, LeaseHeld
  <2>3. CASE x # Lock
    BY <1>13, <2>1, <2>3, LeaseKept DEF DeleteExpired, TypeOK
  <2>4. QED
    BY <2>2, <2>3
<1>14. CASE UNCHANGED vars
  BY <1>14 DEF vars, LeaseHeld, Holders
<1>15. QED
  BY <1>1, <1>2, <1>4, <1>5, <1>6, <1>7, <1>8, <1>9, <1>10, <1>11, <1>12, <1>13, <1>14
  DEF Next, Step

-----------------------------------------------------------------------------
(* The order of a request's steps *)

(* The one that moves keeps to it, and the others have not changed. *)
LEMMA OrderKept ==
    ASSUME StepsInOrder, NEW r \in Requests, Others(r),
           at'[r] \in {"reclaim", "reclaim_expired", "relock"} => seen'[r] # "none",
           succeeded'[r] => at'[r] \in {"release", "mark"}
    PROVE  StepsInOrder'
BY DEF StepsInOrder, Others

(* A request that has decided what to do about a row it has found. *)
LEMMA DecideEffect ==
    ASSUME TypeOK, StepsInOrder, NEW r \in Requests, NEW o \in Operations, NEW row \in Rows,
           Decide(r, o, row), at[r] \in {"idle", "reclaim_expired"}
    PROVE  /\ Others(r)
           /\ at'[r] \in {"reclaim", "idle"} /\ at' \in [Requests -> Locations]
           /\ op' \in [Requests -> Operations \cup {NoOperation}]
           /\ at'[r] = "idle" <=> op'[r] = NoOperation
           /\ seen' \in [Requests -> Statuses \cup {"gone"}]
           /\ succeeded' \in [Requests -> BOOLEAN]
           /\ at'[r] = "reclaim" => seen'[r] # "none"
           /\ ~succeeded'[r]
<1>1. CASE Leave(r)
  BY <1>1, LeaveEffect DEF Others
<1>2. CASE /\ RetryDue(row)
           /\ Go(r, "reclaim")
           /\ op' = [op EXCEPT ![r] = o]
           /\ seen' = [seen EXCEPT ![r] = row.status]
           /\ UNCHANGED succeeded
  <2>1. row.status \in Statuses /\ row.status # "none"
    BY <1>2 DEF Rows, RetryDue
  <2>2. /\ at' \in [Requests -> Locations] /\ at'[r] = "reclaim"
        /\ \A q \in Requests \ {r} : at'[q] = at[q]
    BY <1>2, GoEffect DEF Locations
  <2>3. /\ op' \in [Requests -> Operations \cup {NoOperation}] /\ op'[r] # NoOperation
        /\ \A q \in Requests \ {r} : op'[q] = op[q]
    BY <1>2, NoOperationAssumption DEF TypeOK
  <2>4. /\ seen' \in [Requests -> Statuses \cup {"gone"}] /\ seen'[r] # "none"
        /\ \A q \in Requests \ {r} : seen'[q] = seen[q]
    BY <1>2, <2>1 DEF TypeOK
  <2>5. succeeded' \in [Requests -> BOOLEAN] /\ ~succeeded'[r]
    BY <1>2 DEF TypeOK, StepsInOrder
  <2>6. QED
    BY <1>2, <2>2, <2>3, <2>4, <2>5 DEF Others
<1>3. QED
  BY <1>1, <1>2 DEF Decide

-----------------------------------------------------------------------------
(* Types *)

(* The requests that are about to reclaim a row are the readers of some row. *)
Reading == {q \in Requests : at[q] \in {"relock", "reclaim", "reclaim_expired"}}

(* Who read the clock earlier is between a read and its TryReclaim. *)
LEMMA ReadersRead == TypeOK => older \subseteq Reading
BY DEF TypeOK, Readers, Reading

(* So their place is all that their type needs. *)
LEMMA ReadersTyped ==
    ASSUME at' \in [Requests -> Locations],
           op' \in [Requests -> Operations \cup {NoOperation}],
           \A q \in Requests : at'[q] = "idle" <=> op'[q] = NoOperation,
           older' \subseteq Reading'
    PROVE  older' \subseteq UNION {Readers(x)' : x \in Keys \cup {Lock}}
<1> SUFFICES ASSUME NEW q \in Reading'
             PROVE  \E x \in Keys \cup {Lock} : q \in Readers(x)'
  OBVIOUS
<1>1. CASE at'[q] = "relock"
  BY <1>1 DEF Readers, Reading
<1>2. CASE at'[q] # "relock"
  <2>1. op'[q] \in Operations /\ q \in Requests
    BY <1>2 DEF Reading
  <2>2. PICK k \in Keys : k = KeyOf[op'[q]] /\ k # Lock
    BY <2>1, KeyAssumption
  <2>3. q \in Readers(k)'
    BY <1>2, <2>1, <2>2 DEF Readers, Reading, Key
  <2>4. QED
    BY <2>3
<1>3. QED
  BY <1>1, <1>2

(* A statement of r concerns the clocks of others only, wherever r goes. *)
LEMMA OlderKept ==
    ASSUME TypeOK, NEW r \in Requests, \A q \in Requests \ {r} : at'[q] = at[q],
           \/ NoWrite(r)
           \/ \E x \in Keys \cup {Lock} : \E row : Write(r, x, row)
    PROVE  older' \subseteq Reading'
<1>1. \A x : Readers(x) \subseteq Reading
  BY DEF Readers, Reading
<1>2. older' \subseteq Reading \ {r}
  BY <1>1, ReadersRead DEF NoWrite, Write
<1>3. QED
  BY <1>2 DEF Reading

(* The types after a step of r: what r is at decides. *)
LEMMA TypesMoved ==
    ASSUME TypeOK, NEW r \in Requests, Others(r),
           rows' \in [Keys \cup {Lock} -> Rows],
           at' \in [Requests -> Locations],
           op' \in [Requests -> Operations \cup {NoOperation}],
           at'[r] = "idle" <=> op'[r] = NoOperation,
           seen' \in [Requests -> Statuses \cup {"gone"}],
           succeeded' \in [Requests -> BOOLEAN],
           \/ NoWrite(r)
           \/ \E x \in Keys \cup {Lock} : \E row : Write(r, x, row),
           renewing' \subseteq Holders',
           applied' \in [Keys -> Nat], overtaken' \subseteq Keys,
           exposed' \in BOOLEAN, faults' \in 0 .. MaxFaults
    PROVE  Types'
<1>1. \A q \in Requests : at'[q] = "idle" <=> op'[q] = NoOperation
  BY DEF Others, TypeOK
<1>2. older' \subseteq Reading'
  BY OlderKept DEF Others
<1>3. older' \subseteq UNION {Readers(x)' : x \in Keys \cup {Lock}}
  BY <1>1, <1>2, ReadersTyped
<1>4. QED
  BY <1>1, <1>3 DEF Types

LEMMA TypesStep == TypeOK /\ StepsInOrder /\ [Next]_vars => Types' /\ StepsInOrder'
<1> SUFFICES ASSUME TypeOK, StepsInOrder, [Next]_vars
             PROVE  Types' /\ StepsInOrder'
  OBVIOUS
<1> USE KeyAssumption, NoOperationAssumption, FaultsAssumption
<1>1. ASSUME NEW r \in Requests, NEW o \in Operations, Claim(r, o)
      PROVE  Types' /\ StepsInOrder'
  <2>1. /\ at[r] = "idle" /\ KeyOf[o] \in Keys /\ rows[KeyOf[o]] \in Rows
        /\ UNCHANGED <<renewing, applied, overtaken, exposed, faults>>
    BY <1>1 DEF Claim, TypeOK
  <2>2. /\ renewing \subseteq Holders /\ applied \in [Keys -> Nat] /\ overtaken \subseteq Keys
        /\ exposed \in BOOLEAN /\ faults \in 0 .. MaxFaults
        /\ rows \in [Keys \cup {Lock} -> Rows]
    BY DEF TypeOK
  <2>3. CASE /\ Write(r, KeyOf[o], CreateProcessing(o))
             /\ Go(r, "owner")
             /\ op' = [op EXCEPT ![r] = o]
             /\ UNCHANGED <<seen, succeeded>>
    <3>1. Others(r) /\ at'[r] = "owner" /\ at' \in [Requests -> Locations]
      BY <2>3, GoEffect DEF Others, Locations, TypeOK
    <3>2. rows' \in [Keys \cup {Lock} -> Rows]
      BY <2>1, <2>2, <2>3, StoreWritesRows, WriteEffect
    <3>3. /\ op' \in [Requests -> Operations \cup {NoOperation}] /\ op'[r] # NoOperation
          /\ seen' \in [Requests -> Statuses \cup {"gone"}]
          /\ succeeded' \in [Requests -> BOOLEAN] /\ ~succeeded'[r]
      BY <2>1, <2>3 DEF TypeOK, StepsInOrder
    <3>4. renewing' \subseteq Holders'
      BY <2>1, <2>2, <3>1 DEF Holders, Others
    <3>5. Types'
      BY <2>1, <2>2, <2>3, <3>1, <3>2, <3>3, <3>4, TypesMoved
    <3>6. QED
      BY <3>1, <3>3, <3>5, OrderKept
  <2>4. CASE /\ rows[KeyOf[o]].status # "none"
             /\ Go(r, "reclaim_expired")
             /\ op' = [op EXCEPT ![r] = o]
             /\ seen' = [seen EXCEPT ![r] = rows[KeyOf[o]].status]
             /\ NoWrite(r)
             /\ UNCHANGED succeeded
    <3>1. Others(r) /\ at'[r] = "reclaim_expired" /\ at' \in [Requests -> Locations]
      BY <2>4, GoEffect DEF Others, Locations, TypeOK
    <3>2. rows[KeyOf[o]].status \in Statuses
      BY <2>1 DEF Rows
    <3>3. /\ op' \in [Requests -> Operations \cup {NoOperation}] /\ op'[r] # NoOperation
          /\ seen' \in [Requests -> Statuses \cup {"gone"}] /\ seen'[r] # "none"
          /\ succeeded' \in [Requests -> BOOLEAN] /\ ~succeeded'[r]
      BY <2>1, <2>4, <3>2 DEF TypeOK, StepsInOrder
    <3>4. renewing' \subseteq Holders'
      BY <2>1, <2>2, <3>1 DEF Holders, Others
    <3>5. rows' \in [Keys \cup {Lock} -> Rows]
      BY <2>2, <2>4 DEF NoWrite
    <3>6. Types'
      BY <2>1, <2>2, <2>4, <3>1, <3>3, <3>4, <3>5, TypesMoved
    <3>7. QED
      BY <3>1, <3>3, <3>6, OrderKept
  <2>5. CASE Decide(r, o, rows[KeyOf[o]]) /\ NoWrite(r)
    <3>1. /\ Others(r)
          /\ at'[r] \in {"reclaim", "idle"} /\ at' \in [Requests -> Locations]
          /\ op' \in [Requests -> Operations \cup {NoOperation}]
          /\ at'[r] = "idle" <=> op'[r] = NoOperation
          /\ seen' \in [Requests -> Statuses \cup {"gone"}]
          /\ succeeded' \in [Requests -> BOOLEAN]
          /\ at'[r] = "reclaim" => seen'[r] # "none"
          /\ ~succeeded'[r]
      BY <2>1, <2>5, DecideEffect
    <3>2. renewing' \subseteq Holders'
      BY <2>1, <2>2, <3>1 DEF Holders, Others
    <3>3. rows' \in [Keys \cup {Lock} -> Rows]
      BY <2>2, <2>5 DEF NoWrite
    <3>4. Types'
      BY <2>1, <2>2, <2>5, <3>1, <3>2, <3>3, TypesMoved
    <3>5. QED
      BY <3>1, <3>4, OrderKept
  <2>6. QED
    BY <1>1, <2>3, <2>4, <2>5 DEF Claim
<1>2. ASSUME NEW r \in Requests, Reclaim(r)
      PROVE  Types' /\ StepsInOrder'
  <2>1. /\ at[r] \in {"reclaim", "reclaim_expired"}
        /\ Key(r) \in Keys /\ rows[Key(r)] \in Rows /\ op[r] \in Operations
        /\ UNCHANGED <<renewing, applied, exposed, faults>>
    BY <1>2, KeyType DEF Reclaim
  <2>2. /\ renewing \subseteq Holders /\ applied \in [Keys -> Nat] /\ overtaken' \subseteq Keys
        /\ exposed \in BOOLEAN /\ faults \in 0 .. MaxFaults
        /\ rows \in [Keys \cup {Lock} -> Rows]
    BY <1>2, <2>1 DEF Reclaim, TypeOK
  <2>3. CASE /\ Write(r, Key(r), Reclaimed(rows[Key(r)]))
             /\ Go(r, "owner")
             /\ UNCHANGED <<op, seen, succeeded>>
    <3>1. Others(r) /\ at'[r] = "owner" /\ at' \in [Requests -> Locations]
      BY <2>3, GoEffect DEF Others, Locations
    <3>2. rows' \in [Keys \cup {Lock} -> Rows]
      BY <2>1, <2>3, StoreWritesRows, WriteEffect
    <3>3. /\ op' \in [Requests -> Operations \cup {NoOperation}] /\ op'[r] # NoOperation
          /\ seen' \in [Requests -> Statuses \cup {"gone"}]
          /\ succeeded' \in [Requests -> BOOLEAN] /\ ~succeeded'[r]
      BY <2>1, <2>3 DEF TypeOK, StepsInOrder
    <3>4. renewing' \subseteq Holders'
      BY <2>1, <2>2, <3>1 DEF Holders, Others
    <3>5. Types'
      BY <2>1, <2>2, <2>3, <3>1, <3>2, <3>3, <3>4, TypesMoved
    <3>6. QED
      BY <3>1, <3>3, <3>5, OrderKept
  <2>4. CASE Leave(r) /\ NoWrite(r)
    <3>1. Others(r)
      BY <2>4, LeaveEffect DEF Others
    <3>2. renewing' \subseteq Holders'
      BY <2>1, <2>2, <3>1 DEF Holders, Others
    <3>3. rows' \in [Keys \cup {Lock} -> Rows]
      BY <2>2, <2>4 DEF NoWrite
    <3>4. Types'
      BY <2>1, <2>2, <2>4, <3>1, <3>2, <3>3, LeaveEffect, TypesMoved
    <3>5. QED
      BY <2>4, <3>1, <3>4, LeaveEffect, OrderKept
  <2>5. CASE at[r] = "reclaim_expired" /\ Decide(r, op[r], rows[Key(r)]) /\ NoWrite(r)
    <3>1. /\ Others(r)
          /\ at'[r] \in {"reclaim", "idle"} /\ at' \in [Requests -> Locations]
          /\ op' \in [Requests -> Operations \cup {NoOperation}]
          /\ at'[r] = "idle" <=> op'[r] = NoOperation
          /\ seen' \in [Requests -> Statuses \cup {"gone"}]
          /\ succeeded' \in [Requests -> BOOLEAN]
          /\ at'[r] = "reclaim" => seen'[r] # "none"
          /\ ~succeeded'[r]
      BY <2>1, <2>5, DecideEffect
    <3>2. renewing' \subseteq Holders'
      BY <2>1, <2>2, <3>1 DEF Holders, Others
    <3>3. rows' \in [Keys \cup {Lock} -> Rows]
      BY <2>2, <2>5 DEF NoWrite
    <3>4. Types'
      BY <2>1, <2>2, <2>5, <3>1, <3>2, <3>3, TypesMoved
    <3>5. QED
      BY <3>1, <3>4, OrderKept
  <2>6. QED
    BY <1>2, <2>3, <2>4, <2>5 DEF Reclaim
<1>3. ASSUME NEW r \in Requests, NEW row \in Rows, Hold(r, row),
             at[r] \in {"owner", "relock"},
             UNCHANGED <<op, seen, succeeded, applied, overtaken, exposed, faults>>
      PROVE  Types' /\ StepsInOrder'
  <2>1. Others(r) /\ at'[r] = "running" /\ at' \in [Requests -> Locations]
    BY <1>3, GoEffect DEF Hold, Others, Locations
  <2>2. Write(r, Lock, row) /\ rows' \in [Keys \cup {Lock} -> Rows]
    BY <1>3, WriteEffect DEF Hold
  <2>3. renewing' \subseteq Holders'
    BY <1>3, <2>1 DEF Hold, Holders, Others, TypeOK
  <2>4. op'[r] # NoOperation /\ ~succeeded'[r]
    BY <1>3 DEF TypeOK, StepsInOrder
  <2>5. /\ op' \in [Requests -> Operations \cup {NoOperation}]
        /\ seen' \in [Requests -> Statuses \cup {"gone"}]
        /\ succeeded' \in [Requests -> BOOLEAN]
        /\ applied' \in [Keys -> Nat] /\ overtaken' \subseteq Keys
        /\ exposed' \in BOOLEAN /\ faults' \in 0 .. MaxFaults
    BY <1>3 DEF TypeOK
  <2>6. Types'
    BY <2>1, <2>2, <2>3, <2>4, <2>5, TypesMoved
  <2>7. QED
    BY <2>1, <2>4, <2>6, OrderKept
<1>4. ASSUME NEW r \in Requests, NEW l \in {"relock", "mark"}, Go(r, l), NoWrite(r),
             at[r] \in {"owner", "relock"}, seen' \in [Requests -> Statuses \cup {"gone"}],
             \A q \in Requests \ {r} : seen'[q] = seen[q],
             l = "relock" => seen'[r] # "none",
             UNCHANGED <<op, succeeded, renewing, applied, overtaken, exposed, faults>>
      PROVE  Types' /\ StepsInOrder'
  <2>1. Others(r) /\ at'[r] = l /\ at' \in [Requests -> Locations]
    BY <1>4, GoEffect DEF Others, Locations
  <2>2. rows' \in [Keys \cup {Lock} -> Rows]
    BY <1>4 DEF NoWrite, TypeOK
  <2>3. renewing' \subseteq Holders'
    BY <1>4, <2>1 DEF Holders, Others, TypeOK
  <2>4. op'[r] # NoOperation /\ ~succeeded'[r]
    BY <1>4 DEF TypeOK, StepsInOrder
  <2>5. /\ op' \in [Requests -> Operations \cup {NoOperation}]
        /\ succeeded' \in [Requests -> BOOLEAN]
        /\ applied' \in [Keys -> Nat] /\ overtaken' \subseteq Keys
        /\ exposed' \in BOOLEAN /\ faults' \in 0 .. MaxFaults
    BY <1>4 DEF TypeOK
  <2>6. Types'
    BY <1>4, <2>1, <2>2, <2>3, <2>4, <2>5, TypesMoved
  <2>7. QED
    BY <1>4, <2>1, <2>4, <2>6, OrderKept
<1>5. ASSUME NEW r \in Requests, Acquire(r)
      PROVE  Types' /\ StepsInOrder'
  <2>1. /\ at[r] = "owner" /\ op[r] \in Operations /\ rows[Lock] \in Rows
        /\ UNCHANGED <<op, succeeded, applied, overtaken, exposed, faults>>
    BY <1>5, KeyType DEF Acquire, TypeOK
  <2>2. CASE Hold(r, CreateProcessing(op[r])) /\ UNCHANGED seen
    <3>1. CreateProcessing(op[r]) \in Rows
      BY <2>1, StoreWritesRows
    <3>2. QED
      BY <1>3, <2>1, <2>2, <3>1
  <2>3. CASE Busy(r)
    BY <1>4, <2>1, <2>3 DEF Busy, TypeOK
  <2>4. CASE /\ rows[Lock].status # "none"
             /\ Go(r, "relock")
             /\ seen' = [seen EXCEPT ![r] = rows[Lock].status]
             /\ NoWrite(r)
             /\ UNCHANGED renewing
    <3>1. /\ seen' \in [Requests -> Statuses \cup {"gone"}] /\ seen'[r] # "none"
          /\ \A q \in Requests \ {r} : seen'[q] = seen[q]
      BY <2>1, <2>4 DEF TypeOK, Rows
    <3>2. QED
      BY <1>4, <2>1, <2>4, <3>1
  <2>5. QED
    BY <1>5, <2>2, <2>3, <2>4 DEF Acquire
<1>6. ASSUME NEW r \in Requests, ReclaimLock(r)
      PROVE  Types' /\ StepsInOrder'
  <2>1. /\ at[r] = "relock" /\ rows[Lock] \in Rows
        /\ UNCHANGED <<op, succeeded, applied, overtaken, exposed, faults>>
    BY <1>6 DEF ReclaimLock, TypeOK
  <2>2. CASE Hold(r, Reclaimed(rows[Lock])) /\ UNCHANGED seen
    <3>1. Reclaimed(rows[Lock]) \in Rows
      BY <2>1, StoreWritesRows
    <3>2. QED
      BY <1>3, <2>1, <2>2, <3>1
  <2>3. CASE Busy(r)
    BY <1>4, <2>1, <2>3 DEF Busy, TypeOK
  <2>4. QED
    BY <1>6, <2>2, <2>3 DEF ReclaimLock
<1>7. ASSUME NEW r \in Requests, Renew(r)
      PROVE  Types' /\ StepsInOrder'
  <2>1. Others(r) /\ UNCHANGED <<at, op, seen, succeeded, applied, overtaken, exposed, faults>>
    BY <1>7 DEF Renew, Others
  <2>2. rows \in [Keys \cup {Lock} -> Rows] /\ Extended(rows[Lock]) \in Rows
    BY StoreWritesRows DEF TypeOK
  <2>3. rows' \in [Keys \cup {Lock} -> Rows]
    BY <1>7, <2>2, WriteEffect DEF Renew, NoWrite
  <2>4. renewing' \subseteq Holders'
    BY <1>7 DEF Renew, Holders, TypeOK
  <2>5. /\ at \in [Requests -> Locations]
        /\ op \in [Requests -> Operations \cup {NoOperation}]
        /\ at[r] = "idle" <=> op[r] = NoOperation
        /\ seen \in [Requests -> Statuses \cup {"gone"}]
        /\ succeeded \in [Requests -> BOOLEAN]
        /\ applied \in [Keys -> Nat] /\ overtaken \subseteq Keys
        /\ exposed \in BOOLEAN /\ faults \in 0 .. MaxFaults
    BY DEF TypeOK
  <2>6. \/ NoWrite(r)
        \/ \E x \in Keys \cup {Lock} : \E row : Write(r, x, row)
    BY <1>7 DEF Renew
  <2>7. Types'
    BY <2>1, <2>3, <2>4, <2>5, <2>6, TypesMoved
  <2>8. QED
    BY <2>1, <2>7 DEF StepsInOrder
<1>8. ASSUME NEW r \in Requests, Operate(r)
      PROVE  Types' /\ StepsInOrder'
  <2>1. /\ at[r] = "running" /\ at'[r] = "release" /\ at' \in [Requests -> Locations]
        /\ Key(r) \in Keys /\ op[r] \in Operations
        /\ UNCHANGED <<rows, op, seen, renewing, overtaken, exposed, faults>>
        /\ \A q \in Requests \ {r} : at'[q] = at[q]
    BY <1>8, KeyType, GoEffect DEF Operate, NoWrite, Locations
  <2>2. PICK done \in BOOLEAN :
          /\ succeeded' = [succeeded EXCEPT ![r] = done]
          /\ applied' = [applied EXCEPT ![Key(r)] = @ + IF done THEN 1 ELSE 0]
    BY <1>8 DEF Operate
  <2>3. Others(r) /\ succeeded' \in [Requests -> BOOLEAN]
    BY <2>1, <2>2 DEF Others, TypeOK
  <2>4. applied' \in [Keys -> Nat]
    <3>1. (IF done THEN 1 ELSE 0) \in Nat
      OBVIOUS
    <3>2. applied[Key(r)] + (IF done THEN 1 ELSE 0) \in Nat
      BY <2>1, <3>1 DEF TypeOK
    <3>3. QED
      BY <2>1, <2>2, <3>2 DEF TypeOK
  <2>5. renewing' \subseteq Holders'
    BY <2>1, <2>3 DEF Holders, Others, TypeOK
  <2>6. /\ op' \in [Requests -> Operations \cup {NoOperation}] /\ op'[r] # NoOperation
        /\ seen' \in [Requests -> Statuses \cup {"gone"}]
        /\ overtaken' \subseteq Keys
        /\ exposed' \in BOOLEAN /\ faults' \in 0 .. MaxFaults
        /\ rows' \in [Keys \cup {Lock} -> Rows]
        /\ NoWrite(r)
    BY <1>8, <2>1 DEF TypeOK, Operate
  <2>7. Types'
    BY <2>1, <2>3, <2>4, <2>5, <2>6, TypesMoved
  <2>8. QED
    BY <2>1, <2>3, <2>7, OrderKept
<1>9. ASSUME NEW r \in Requests, Release(r)
      PROVE  Types' /\ StepsInOrder'
  <2>1. /\ at[r] = "release" /\ at'[r] = "mark" /\ at' \in [Requests -> Locations]
        /\ op[r] \in Operations /\ rows[Lock] \in Rows
        /\ UNCHANGED <<op, seen, succeeded, applied, overtaken>>
        /\ \A q \in Requests \ {r} : at'[q] = at[q]
    BY <1>9, KeyType, GoEffect DEF Release, Locations, TypeOK
  <2>2. Others(r)
    BY <2>1 DEF Others
  <2>3. /\ MarkSucceeded(rows[Lock]) \in Rows
        /\ MarkFailedRetryable(rows[Lock], "lapsed") \in Rows
    BY <2>1, StoreWritesRows
  <2>4. rows' \in [Keys \cup {Lock} -> Rows]
    BY <1>9, <2>3 DEF Release, Write, NoWrite, TypeOK
  <2>5. renewing' \subseteq Holders'
    BY <1>9, <2>1 DEF Release, StopHolding, Holders, TypeOK
  <2>6. faults' \in 0 .. MaxFaults
    BY <1>9 DEF Release, Fault, TypeOK
  <2>7. exposed' \in BOOLEAN
    BY <1>9, Zenon DEF Release, StopHolding, TypeOK
  <2>8. /\ op' \in [Requests -> Operations \cup {NoOperation}] /\ op'[r] # NoOperation
        /\ seen' \in [Requests -> Statuses \cup {"gone"}]
        /\ succeeded' \in [Requests -> BOOLEAN]
        /\ applied' \in [Keys -> Nat] /\ overtaken' \subseteq Keys
    BY <2>1 DEF TypeOK
  <2>9. \/ NoWrite(r)
        \/ \E x \in Keys \cup {Lock} : \E row : Write(r, x, row)
    BY <1>9 DEF Release
  <2>10. Types'
    BY <2>1, <2>2, <2>4, <2>5, <2>6, <2>7, <2>8, <2>9, TypesMoved
  <2>11. QED
    BY <2>1, <2>2, <2>10, OrderKept
<1>10. ASSUME NEW r \in Requests, Leave(r), at[r] # "idle",
              rows' \in [Keys \cup {Lock} -> Rows],
              \/ NoWrite(r)
              \/ \E x \in Keys \cup {Lock} : \E row : Write(r, x, row),
              renewing' \subseteq renewing, r \notin renewing',
              applied' \in [Keys -> Nat], overtaken' = overtaken,
              exposed' \in BOOLEAN, faults' \in 0 .. MaxFaults
       PROVE  Types' /\ StepsInOrder'
  <2>1. Others(r) /\ at'[r] = "idle" /\ ~succeeded'[r]
    BY <1>10, LeaveEffect DEF Others
  <2>2. renewing' \subseteq Holders'
    BY <1>10, <2>1 DEF Holders, Others, TypeOK
  <2>3. overtaken' \subseteq Keys
    BY <1>10 DEF TypeOK
  <2>4. Types'
    BY <1>10, <2>1, <2>2, <2>3, LeaveEffect, TypesMoved
  <2>5. QED
    BY <2>1, <2>4, OrderKept
<1>11. ASSUME NEW r \in Requests, Mark(r)
       PROVE  Types' /\ StepsInOrder'
  <2>1. /\ at[r] = "mark" /\ Leave(r) /\ Key(r) \in Keys /\ rows[Key(r)] \in Rows
        /\ UNCHANGED <<renewing, applied, overtaken, exposed>>
    BY <1>11, KeyType DEF Mark
  <2>2. /\ MarkSucceeded(rows[Key(r)]) \in Rows
        /\ MarkFailedRetryable(rows[Key(r)], "live") \in Rows
    BY <2>1, StoreWritesRows
  <2>3. rows' \in [Keys \cup {Lock} -> Rows]
    BY <1>11, <2>1, <2>2 DEF Mark, Write, NoWrite, TypeOK
  <2>4. faults' \in 0 .. MaxFaults
    BY <1>11 DEF Mark, Fault, TypeOK
  <2>5. \/ NoWrite(r)
        \/ \E x \in Keys \cup {Lock} : \E row : Write(r, x, row)
    BY <1>11, <2>1 DEF Mark
  <2>6. r \notin renewing /\ applied \in [Keys -> Nat] /\ exposed \in BOOLEAN
    BY <2>1 DEF TypeOK, Holders
  <2>7. QED
    BY <1>10, <2>1, <2>3, <2>4, <2>5, <2>6
<1>12. ASSUME NEW r \in Requests, Crash(r)
       PROVE  Types' /\ StepsInOrder'
  <2>1. /\ at[r] # "idle" /\ Leave(r) /\ Key(r) \in Keys
        /\ overtaken' = overtaken /\ NoWrite(r)
    BY <1>12, KeyType DEF Crash
  <2>2. rows' \in [Keys \cup {Lock} -> Rows]
    BY <2>1 DEF NoWrite, TypeOK
  <2>3. faults' \in 0 .. MaxFaults
    BY <1>12 DEF Crash, Fault, TypeOK
  <2>4. applied' \in [Keys -> Nat]
    BY <1>12, <2>1 DEF Crash, TypeOK
  <2>5. exposed' \in BOOLEAN
    BY <1>12, Zenon DEF Crash, StopHolding, TypeOK
  <2>6. renewing' \subseteq renewing /\ r \notin renewing'
    BY <1>12 DEF Crash, StopHolding
  <2>7. QED
    BY <1>10, <2>1, <2>2, <2>3, <2>4, <2>5, <2>6
<1>13. ASSUME rows' \in [Keys \cup {Lock} -> Rows],
              UNCHANGED <<at, op, succeeded, older, renewing>>,
              seen' \in [Requests -> Statuses \cup {"gone"}],
              \A q \in Requests : seen'[q] = seen[q] \/ seen'[q] = "gone",
              applied' \in [Keys -> Nat], overtaken' \subseteq Keys,
              exposed' \in BOOLEAN, faults' \in 0 .. MaxFaults
       PROVE  Types' /\ StepsInOrder'
  <2>1. Reading' = Reading /\ Holders' = Holders
    BY <1>13 DEF Reading, Holders
  <2>2. older' \subseteq Reading'
    BY <1>13, <2>1, ReadersRead
  <2>3. /\ at' \in [Requests -> Locations]
        /\ op' \in [Requests -> Operations \cup {NoOperation}]
        /\ \A q \in Requests : at'[q] = "idle" <=> op'[q] = NoOperation
        /\ succeeded' \in [Requests -> BOOLEAN]
        /\ renewing' \subseteq Holders'
    BY <1>13, <2>1 DEF TypeOK
  <2>4. older' \subseteq UNION {Readers(x)' : x \in Keys \cup {Lock}}
    BY <2>2, <2>3, ReadersTyped
  <2>5. Types'
    BY <1>13, <2>3, <2>4 DEF Types
  <2>6. QED
    BY <1>13, <2>5 DEF StepsInOrder
<1>14. ASSUME NEW k \in Keys, Expire(k)
       PROVE  Types' /\ StepsInOrder'
  <2>1. rows' \in [Keys \cup {Lock} -> Rows]
    <3>1. rows[k] \in Rows /\ rows \in [Keys \cup {Lock} -> Rows]
      BY DEF TypeOK
    <3>2. PICK row : /\ row = [rows[k] EXCEPT !.expired = TRUE,
                                              !.lock = IF @ = "live" THEN "lapsed" ELSE @]
                     /\ rows' = [rows EXCEPT ![k] = row]
      BY <1>14, <3>1 DEF Expire
    <3>3. row \in Rows
      BY <3>1, <3>2 DEF Rows
    <3>4. QED
      BY <3>1, <3>2, <3>3
  <2>2. applied' \in [Keys -> Nat] /\ overtaken' \subseteq Keys
    BY <1>14 DEF Expire, TypeOK
  <2>3. seen \in [Requests -> Statuses \cup {"gone"}] /\ exposed \in BOOLEAN /\ faults \in 0 .. MaxFaults
    BY DEF TypeOK
  <2>4. QED
    BY <1>13, <1>14, <2>1, <2>2, <2>3 DEF Expire
<1>15. ASSUME NEW x \in Keys \cup {Lock}, Lapse(x)
       PROVE  Types' /\ StepsInOrder'
  <2>1. rows' \in [Keys \cup {Lock} -> Rows]
    <3>1. rows[x] \in Rows /\ rows \in [Keys \cup {Lock} -> Rows]
      BY DEF TypeOK
    <3>2. [rows[x] EXCEPT !.lock = "lapsed"] \in Rows
      BY <3>1 DEF Rows
    <3>3. rows' = [rows EXCEPT ![x] = [rows[x] EXCEPT !.lock = "lapsed"]]
      BY <1>15 DEF Lapse
    <3>4. QED
      BY <3>1, <3>2, <3>3
  <2>2. faults' \in 0 .. MaxFaults
    BY <1>15 DEF Lapse, Fault, TypeOK
  <2>3. exposed' \in BOOLEAN
    BY <1>15, Zenon DEF Lapse, TypeOK
  <2>4. /\ seen \in [Requests -> Statuses \cup {"gone"}]
        /\ applied \in [Keys -> Nat] /\ overtaken \subseteq Keys
    BY DEF TypeOK
  <2>5. QED
    BY <1>13, <1>15, <2>1, <2>2, <2>3, <2>4 DEF Lapse
<1>16. ASSUME NEW x \in Keys \cup {Lock}, DeleteExpired(x)
       PROVE  Types' /\ StepsInOrder'
  <2>1. NoRow \in Rows
    BY DEF NoRow, Rows, Statuses
  <2>2. rows' \in [Keys \cup {Lock} -> Rows]
    BY <1>16, <2>1 DEF DeleteExpired, TypeOK
  <2>3. /\ seen' \in [Requests -> Statuses \cup {"gone"}]
        /\ \A q \in Requests : seen'[q] = seen[q] \/ seen'[q] = "gone"
    BY <1>16 DEF DeleteExpired, TypeOK
  <2>4. /\ applied \in [Keys -> Nat] /\ overtaken \subseteq Keys
        /\ exposed \in BOOLEAN /\ faults \in 0 .. MaxFaults
    BY DEF TypeOK
  <2>5. QED
    BY <1>13, <1>16, <2>2, <2>3, <2>4 DEF DeleteExpired
<1>17. CASE UNCHANGED vars
  BY <1>13, <1>17 DEF vars, TypeOK
<1>18. QED
  BY <1>1, <1>2, <1>5, <1>6, <1>7, <1>8, <1>9, <1>11, <1>12, <1>14, <1>15, <1>16, <1>17
  DEF Next, Step

-----------------------------------------------------------------------------
(* The theorems *)

(* The invariant holds at the start. *)
LEMMA InvariantInit == Init => IInv
<1> SUFFICES ASSUME Init
             PROVE  IInv
  OBVIOUS
<1> USE KeyAssumption, NoOperationAssumption, FaultsAssumption
<1>1. NoRow \in Rows /\ NoRow.status = "none" /\ ~NoRow.expired
  BY DEF NoRow, Rows, Statuses
<1>2. \A k \in Keys : Owners(k) = {} /\ rows[k] = NoRow
  BY DEF Init, Owners
<1>3. Holders = {}
  BY DEF Init, Holders
<1>4. Types
  <2>1. rows \in [Keys \cup {Lock} -> Rows]
    BY <1>1 DEF Init
  <2>2. \A r \in Requests : at[r] = "idle" <=> op[r] = NoOperation
    BY DEF Init
  <2>3. /\ at \in [Requests -> Locations] /\ op \in [Requests -> Operations \cup {NoOperation}]
        /\ seen \in [Requests -> Statuses \cup {"gone"}] /\ succeeded \in [Requests -> BOOLEAN]
    BY DEF Init, Locations, Statuses
  <2>4. older = {} /\ renewing = {} /\ overtaken = {} /\ exposed \in BOOLEAN
    BY DEF Init
  <2>5. applied \in [Keys -> Nat] /\ faults \in 0 .. MaxFaults
    BY DEF Init
  <2>6. QED
    BY <2>1, <2>2, <2>3, <2>4, <2>5 DEF Types
<1>5. TypeOK
  BY <1>2, <1>4, TypesSuffice
<1>6. KeyExcludes /\ EffectsTracked /\ AppliedOncePerKey /\ RecordTellsTruth
  BY <1>1, <1>2 DEF Init, KeyExcludes, EffectsTracked, AppliedOncePerKey, RecordTellsTruth
<1>7. StepsInOrder /\ LeaseHeld
  BY <1>3 DEF Init, StepsInOrder, LeaseHeld
<1>8. QED
  BY <1>5, <1>6, <1>7 DEF IInv, OperationInvariant

(* The invariant is inductive. *)
LEMMA InvariantStep == IInv /\ [Next]_vars => IInv'
<1> SUFFICES ASSUME IInv, [Next]_vars
             PROVE  IInv'
  OBVIOUS
<1>1. TypeOK /\ KeyInvariant /\ StepsInOrder /\ LeaseHeld
  BY DEF IInv, OperationInvariant, KeyInvariant
<1>2. KeyInvariant' /\ LeaseHeld' /\ Types' /\ StepsInOrder'
  BY <1>1, KeyStep, LeaseStep, TypesStep
<1>3. TypeOK'
  BY <1>2 DEF TypeOK, Types, KeyInvariant, KeyExcludes, LockHeld
<1>4. QED
  BY <1>2, <1>3 DEF IInv, OperationInvariant, KeyInvariant

(* So it holds always. *)
LEMMA Invariance == Spec => []IInv
<1>1. Init => IInv
  BY InvariantInit
<1>2. IInv /\ [Next]_vars => IInv'
  BY InvariantStep
<1>3. QED
  BY <1>1, <1>2, PTL DEF Spec

(* Every variable keeps its type, and an owner's row says so. *)
THEOREM TypeCorrect == Spec => []TypeOK
<1>1. IInv => TypeOK
  BY DEF IInv
<1>2. QED
  BY <1>1, Invariance, PTL

(* A key has one owner at a time, whose success its row's life records, and the *)
(* lease of the lock keeps others off while it has not lapsed under its holder. *)
THEOREM OperationIsSound == Spec => []OperationInvariant
<1>1. IInv => OperationInvariant
  BY DEF IInv
<1>2. QED
  BY <1>1, Invariance, PTL

(* An operation takes effect once per key and row, however many requests ask for *)
(* it, and whatever crashes and lost marks there are.                            *)
THEOREM OncePerKey == Spec => []AppliedOncePerKey
<1>1. IInv => AppliedOncePerKey
  BY DEF IInv, OperationInvariant
<1>2. QED
  BY <1>1, Invariance, PTL

(* What a repeated request is told, done or to be retried, is what happened. *)
THEOREM RecordIsTrue == Spec => []RecordTellsTruth
<1>1. IInv => RecordTellsTruth
  BY DEF IInv, OperationInvariant
<1>2. QED
  BY <1>1, Invariance, PTL

(* Operations under different keys exclude each other while leases last. *)
THEOREM OneAtATime == Spec => []OneWhileLeased
<1>1. IInv => OneWhileLeased
  <2> SUFFICES ASSUME IInv, ~exposed
               PROVE  Cardinality(Holders) <= 1
    BY DEF OneWhileLeased
  <2>1. CASE Holders = {}
    <3>1. Cardinality({}) = 0
      BY FS_EmptySet
    <3>2. QED
      BY <2>1, <3>1
  <2>2. CASE Holders # {}
    <3>1. PICK r \in Holders : Holders = {r}
      BY <2>2 DEF IInv, OperationInvariant, LeaseHeld
    <3>2. Cardinality({r}) = 1
      BY FS_Singleton
    <3>3. QED
      BY <3>1, <3>2
  <2>3. QED
    BY <2>1, <2>2
<1>2. QED
  BY <1>1, Invariance, PTL
=============================================================================
