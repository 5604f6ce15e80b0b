-------------------------- MODULE TokenRefreshProofs --------------------------
(* What TokenRefresh guarantees for any number of processes, attempts,      *)
(* administrators, backfills, faults, unlocked writes and authorizations.   *)
EXTENDS TokenRefresh, SequenceTheorems, TLAPS

(* The inductive invariant. *)
IInv == TypeOK /\ RefreshInvariant

-----------------------------------------------------------------------------
(* What the helpers of the actions do *)

(* An attempt that moves leaves the others where they are. *)
LEMMA GoEffect ==
    ASSUME TypeOK, NEW w \in Attempts, NEW l \in Locations, Go(w, l)
    PROVE  /\ at' \in [Attempts -> Locations]
           /\ at'[w] = l
           /\ \A v \in Attempts \ {w} : at'[v] = at[v]
BY DEF Go, TypeOK

(* So does one that ends. *)
LEMMA EndEffect ==
    ASSUME TypeOK, NEW w \in Attempts, NEW l \in Locations, End(w, l)
    PROVE  /\ at' \in [Attempts -> Locations]
           /\ at'[w] = l
           /\ \A v \in Attempts \ {w} : at'[v] = at[v]
BY GoEffect DEF End

(* The row an attempt has not read is the one the account began with. *)
LEMMA FirstRowTyped ==
    FirstRow \in Rows /\ Token(1, 0) \in Tokens /\ FirstRow.token = Token(1, 0)
BY BoundsAssumption DEF FirstRow, Rows, Token, Tokens

(* An attempt that ends forgets what it knew, and the others do not. *)
LEMMA ForgetEffect ==
    ASSUME TypeOK, NEW w \in Attempts, Forget(w)
    PROVE  /\ key' \in [Attempts -> BOOLEAN]
           /\ read' \in [Attempts -> Rows]
           /\ got' \in [Attempts -> Tokens]
           /\ read'[w] = FirstRow /\ got'[w] = Token(1, 0)
           /\ \A v \in Attempts \ {w} :
                 key'[v] = key[v] /\ read'[v] = read[v] /\ got'[v] = got[v]
BY FirstRowTyped DEF Forget, TypeOK

(* An older access token has come to its end, or not. *)
LEMMA EndIsNearTyped == \A w \in Attempts : TypeOK => EndIsNear(w) \subseteq BOOLEAN
BY DEF EndIsNear, TypeOK, Rows

(* What the writing of a whole row makes of it, unless it fails *)
LEMMA WriteRowEffect ==
    ASSUME TypeOK, NEW w \in Attempts, WriteRow(w)
    PROVE  \/ UNCHANGED <<account, clash>>
           \/ /\ account' \in Rows
              /\ account'.token = got[w]
              /\ clash' = (clash \/ RollsBack(w))
<1>1. ASSUME NEW filled \in IF WritesBack(w) THEN {read[w].filled, TRUE} ELSE {read[w].filled},
             NEW expiring \in EndIsNear(w),
             NEW status \in IF WritesBack(w) THEN {"active", "error"} ELSE {read[w].status},
             account' = [token |-> got[w], filled |-> filled, expiring |-> expiring,
                         status |-> status]
      PROVE  account' \in Rows /\ account'.token = got[w]
  <2>1. read[w] \in Rows /\ got[w] \in Tokens
    BY DEF TypeOK
  <2>2. filled \in BOOLEAN
    BY <2>1 DEF Rows
  <2>3. expiring \in BOOLEAN
    BY EndIsNearTyped
  <2>4. status \in {"active", "error"}
    BY <2>1 DEF Rows
  <2>5. QED
    BY <1>1, <2>1, <2>2, <2>3, <2>4 DEF Rows
<1>2. QED
  BY <1>1 DEF WriteRow

(* What the filling in of a project makes of it, unless there is none *)
LEMMA FillProjectEffect ==
    ASSUME TypeOK, NEW w \in Attempts, FillProject(w)
    PROVE  \/ UNCHANGED <<account, clash>>
           \/ /\ account' \in Rows
              /\ account'.token = got[w]
              /\ account'.status = account.status
              /\ clash' = (clash \/ RollsBack(w))
<1>1. ASSUME NEW expiring \in EndIsNear(w),
             account' = [account EXCEPT !.token = got[w], !.filled = TRUE,
                                        !.expiring = expiring]
      PROVE  /\ account' \in Rows
             /\ account'.token = got[w]
             /\ account'.status = account.status
  <2>1. account \in Rows /\ got[w] \in Tokens
    BY DEF TypeOK
  <2>2. expiring \in BOOLEAN
    BY EndIsNearTyped
  <2>3. QED
    BY <1>1, <2>1, <2>2 DEF Rows
<1>2. QED
  BY <1>1 DEF FillProject

(* The attempts are of one kind only. *)
LEMMA Kinds == \A w \in Attempts : w \in Locking <=> w \notin Manual
BY KindsAssumption DEF Attempts

-----------------------------------------------------------------------------
(* The local locks *)

(* Where an administrator's handler can be, and nobody else *)
HandlerPlaces == {"update", "write", "clear"}

ManualPlaces == {"idle", "call", "recover"} \cup HandlerPlaces

(* Between the local lock and its unlocking *)
LockedPlaces == {"lock", "read", "call", "store", "recover"}

(* An attempt that moves without a lock changing hands, neither past the lock *)
(* nor out of it, keeps the locks as they were.                               *)
LEMMA LocksKept ==
    ASSUME TypeOK, LocksHeld, NEW w \in Attempts, NEW l \in Locations, Go(w, l),
           mutex' = mutex,
           \A v \in Attempts \ {w} : key'[v] = key[v],
           w \in Manual => l \in ManualPlaces,
           w \notin Manual => l \notin HandlerPlaces,
           w \notin Manual /\ l \in LockedPlaces => w \in Inside /\ key'[w] = key[w]
    PROVE  LocksHeld'
<1>1. /\ at' \in [Attempts -> Locations]
      /\ at'[w] = l
      /\ \A v \in Attempts \ {w} : at'[v] = at[v]
  BY GoEffect
<1>2. \A v \in Inside' : v \in Inside /\ LocalLock(v)' = LocalLock(v)
  BY <1>1, Kinds DEF Inside, LocalLock, LockedPlaces, Attempts
<1>3. \A m \in Manual : at'[m] \in ManualPlaces
  BY <1>1 DEF LocksHeld, Attempts, ManualPlaces, HandlerPlaces
<1>4. \A v \in Locking : at'[v] \notin HandlerPlaces
  BY <1>1, Kinds DEF LocksHeld, Attempts, HandlerPlaces
<1>5. QED
  BY <1>2, <1>3, <1>4 DEF LocksHeld, LocalExclusion, ManualPlaces, HandlerPlaces

(* An attempt that unlocks was the only one under its lock and leaves it. *)
LEMMA LocksReleased ==
    ASSUME TypeOK, LocksHeld, NEW w \in Inside, NEW l \in {"idle", "fail"},
           Go(w, l), Unlock(w),
           \A v \in Attempts \ {w} : key'[v] = key[v]
    PROVE  LocksHeld'
<1> w \in Attempts /\ w \notin Manual /\ l \in Locations
  BY KindsAssumption DEF Inside, Locations, Attempts
<1>1. /\ at' \in [Attempts -> Locations]
      /\ at'[w] = l
      /\ \A v \in Attempts \ {w} : at'[v] = at[v]
  BY GoEffect
<1>2. \A v \in Inside' : v \in Inside /\ v # w /\ LocalLock(v)' = LocalLock(v)
  BY <1>1 DEF Inside, LocalLock, Attempts
<1>3. \A v \in Inside' : LocalLock(v)' \in mutex'
  BY <1>2 DEF Unlock, LocksHeld, LocalExclusion
<1>4. \A m \in Manual : at'[m] \in ManualPlaces
  BY <1>1 DEF LocksHeld, Attempts, ManualPlaces, HandlerPlaces
<1>5. \A v \in Locking : at'[v] \notin HandlerPlaces
  BY <1>1 DEF LocksHeld, Attempts, HandlerPlaces
<1>6. QED
  BY <1>2, <1>3, <1>4, <1>5 DEF LocksHeld, LocalExclusion, ManualPlaces, HandlerPlaces

(* The end of any attempt is one of the two. *)
LEMMA LocksEnded ==
    ASSUME TypeOK, LocksHeld, NEW w \in Attempts, NEW l \in {"idle", "fail"},
           End(w, l), w \in Manual => l = "idle",
           at[w] \in {"call", "store", "recover"},
           \A v \in Attempts \ {w} : key'[v] = key[v]
    PROVE  LocksHeld'
<1>1. CASE w \in Manual
  BY <1>1, LocksKept DEF End, KeepLocks, Locations, ManualPlaces
<1>2. CASE w \notin Manual
  BY <1>2, LocksReleased, Kinds DEF End, Inside
<1>3. QED
  BY <1>1, <1>2

(* Every step keeps the local mutexes: one step of the proof per action. *)
LEMMA LocksStep == TypeOK /\ LocksHeld /\ [Next]_vars => LocksHeld'
<1> SUFFICES ASSUME TypeOK, LocksHeld, [Next]_vars
             PROVE  LocksHeld'
  OBVIOUS
<1> USE DEF Locations, ManualPlaces, HandlerPlaces, LockedPlaces
<1>1. ASSUME NEW w \in Attempts, Start(w)
      PROVE  LocksHeld'
  BY <1>1, LocksKept, Kinds DEF Start, KeepLocks, TypeOK
<1>2. ASSUME NEW w \in Attempts, LockLocal(w)
      PROVE  LocksHeld'
  <2>1. /\ at' \in [Attempts -> Locations]
        /\ at'[w] = "lock"
        /\ \A v \in Attempts \ {w} : at'[v] = at[v]
    BY <1>2, GoEffect DEF LockLocal
  <2>2. w \notin Manual
    BY <1>2 DEF LockLocal, LocksHeld
  <2>3. Inside' = Inside \cup {w}
    BY <2>1, <2>2 DEF Inside, Attempts
  <2>4. UNCHANGED key /\ \A v \in Attempts : LocalLock(v)' = LocalLock(v)
    BY <1>2 DEF LockLocal, KeepKnowledge, LocalLock
  <2>5. Inside \subseteq Attempts
    BY DEF Inside, Attempts
  <2>6. LocalLock(w) \notin mutex /\ mutex' = mutex \cup {LocalLock(w)}
    BY <1>2 DEF LockLocal
  <2>7. \A v \in Inside' : LocalLock(v)' \in mutex'
    BY <2>3, <2>4, <2>5, <2>6 DEF LocksHeld
  <2>8. LocalExclusion'
    BY <2>3, <2>4, <2>5, <2>6 DEF LocksHeld, LocalExclusion
  <2>9. /\ \A m \in Manual : at'[m] \in ManualPlaces
        /\ \A v \in Locking : at'[v] \notin HandlerPlaces
    BY <2>1, <2>2 DEF LocksHeld, Attempts
  <2>10. QED
    BY <2>7, <2>8, <2>9 DEF LocksHeld
<1>3. ASSUME NEW w \in Attempts, GiveUp(w)
      PROVE  LocksHeld'
  BY <1>3, LocksKept, ForgetEffect DEF GiveUp, Abandoned
<1>4. ASSUME NEW w \in Attempts, AcquireLock(w)
      PROVE  LocksHeld'
  <2>1. w \in Inside /\ w \notin Manual
    BY <1>4, Kinds DEF AcquireLock, Inside, LocksHeld
  <2>2. CASE Go(w, "read") /\ UNCHANGED mutex /\ KeepKnowledge
    BY <2>1, <2>2, LocksKept DEF KeepKnowledge
  <2>3. CASE Go(w, "idle") /\ Unlock(w) /\ Forget(w)
    BY <2>1, <2>3, LocksReleased, ForgetEffect
  <2>4. QED
    BY <1>4, <2>2, <2>3 DEF AcquireLock
<1>5. ASSUME NEW w \in Attempts, Reread(w)
      PROVE  LocksHeld'
  <2>1. w \in Inside /\ w \notin Manual
    BY <1>5, Kinds DEF Reread, Inside, LocksHeld
  <2>2. CASE Go(w, "call") /\ KeepLocks /\ UNCHANGED key
    BY <2>1, <2>2, LocksKept DEF KeepLocks
  <2>3. CASE Go(w, "idle") /\ Unlock(w) /\ Forget(w)
    BY <2>1, <2>3, LocksReleased, ForgetEffect
  <2>4. QED
    BY <1>5, <2>2, <2>3 DEF Reread
<1>6. ASSUME NEW w \in Attempts, Call(w)
      PROVE  LocksHeld'
  <2>1. at[w] = "call" /\ (w \in Manual \/ w \in Inside)
    BY <1>6, Kinds DEF Call, Inside
  <2>2. CASE /\ Go(w, IF w \in Manual THEN "update" ELSE "store") \/ Go(w, "recover")
             /\ KeepLocks /\ UNCHANGED key
    <3>1. CASE w \in Manual
      BY <2>1, <2>2, <3>1, LocksKept DEF KeepLocks
    <3>2. CASE w \notin Manual
      BY <2>1, <2>2, <3>2, LocksKept DEF KeepLocks
    <3>3. QED
      BY <3>1, <3>2
  <2>3. CASE End(w, "idle") /\ Forget(w)
    BY <2>1, <2>3, LocksEnded, ForgetEffect
  <2>4. QED
    BY <1>6, <2>2, <2>3 DEF Call, KeepKnowledge
<1>7. ASSUME NEW w \in Attempts, Store(w)
      PROVE  LocksHeld'
  BY <1>7, LocksEnded, ForgetEffect DEF Store
<1>8. ASSUME NEW w \in Attempts, Recover(w)
      PROVE  LocksHeld'
  <2>1. CASE End(w, "fail") /\ KeepKnowledge /\ w \in Background
    <3>1. w \notin Manual
      BY <2>1, Kinds DEF Locking
    <3>2. QED
      BY <1>8, <2>1, <3>1, LocksEnded DEF Recover, KeepKnowledge
  <2>2. CASE End(w, "idle") /\ Forget(w)
    BY <1>8, <2>2, LocksEnded, ForgetEffect DEF Recover
  <2>3. QED
    BY <1>8, <2>1, <2>2 DEF Recover
<1>9. ASSUME NEW w \in Attempts, Disable(w) \/ WriteRow(w) \/ FillProject(w)
      PROVE  LocksHeld'
  <2>1. mutex' = mutex /\ Forget(w)
    BY <1>9 DEF Disable, WriteRow, FillProject, KeepLocks
  <2>2. Go(w, "idle") \/ (w \in Manual /\ Go(w, "clear"))
    <3>1. CASE WriteRow(w)
      <4>1. at[w] = "write" /\ (Go(w, "idle") \/ Go(w, "clear"))
        BY <3>1 DEF WriteRow
      <4>2. QED
        BY <4>1, Kinds DEF LocksHeld
    <3>2. QED
      BY <1>9, <3>1 DEF Disable, FillProject
  <2>3. QED
    BY <2>1, <2>2, LocksKept, ForgetEffect
<1>10. ASSUME NEW w \in Attempts,
              RefreshByHand(w) \/ Authorize(w) \/ ReadRow(w) \/ ClearError(w) \/ FindProject(w)
       PROVE  LocksHeld'
  <2>1. mutex' = mutex /\ key' = key
    BY <1>10 DEF RefreshByHand, Authorize, ReadRow, ClearError, FindProject, KeepLocks,
                 KeepKnowledge
  <2>2. \/ w \in Manual /\ (Go(w, "call") \/ Go(w, "update") \/ Go(w, "write"))
        \/ Go(w, "idle")
        \/ w \notin Manual /\ Go(w, "fill")
    BY <1>10, KindsAssumption DEF RefreshByHand, Authorize, ReadRow, ClearError, FindProject,
                                  Locking
  <2>3. QED
    BY <2>1, <2>2, LocksKept
<1>11. ASSUME NEW k \in BOOLEAN, ComeToEnd \/ LeaseEnds(k) \/ UNCHANGED vars
       PROVE  LocksHeld'
  <2>1. UNCHANGED <<at, key, mutex>>
    BY <1>11 DEF ComeToEnd, LeaseEnds, KeepKnowledge, KeepLocks, vars
  <2>2. Inside' = Inside /\ \A v \in Inside : LocalLock(v)' = LocalLock(v)
    BY <2>1 DEF Inside, LocalLock
  <2>3. QED
    BY <2>1, <2>2 DEF LocksHeld, LocalExclusion
<1>12. ASSUME NEW p \in Processes, Crash(p)
       PROVE  LocksHeld'
  <2>1. \A v \in Attempts : /\ ProcessOf[v] = p => at'[v] = "idle"
                            /\ ProcessOf[v] # p => at'[v] = at[v] /\ key'[v] = key[v]
    BY <1>12 DEF Crash, TypeOK
  <2>2. \A v \in Inside' : v \in Inside /\ ProcessOf[v] # p /\ LocalLock(v)' = LocalLock(v)
    BY <2>1 DEF Inside, LocalLock, Attempts
  <2>3. mutex' = {m \in mutex : m[1] # p}
    BY <1>12 DEF Crash
  <2>4. \A v \in Inside' : LocalLock(v)' \in mutex'
    BY <2>2, <2>3 DEF LocksHeld, LocalLock
  <2>5. /\ \A m \in Manual : at'[m] \in ManualPlaces
        /\ \A v \in Locking : at'[v] \notin HandlerPlaces
    BY <2>1 DEF LocksHeld, Attempts
  <2>6. QED
    BY <2>2, <2>4, <2>5 DEF LocksHeld, LocalExclusion
<1>13. QED
  BY <1>1, <1>2, <1>3, <1>4, <1>5, <1>6, <1>7, <1>8, <1>9, <1>10, <1>11, <1>12 DEF Next, Step

-----------------------------------------------------------------------------
(* What the provider has issued *)

(* What it has issued stays issued, and what is spent stays spent. *)
LEMMA IssuedStays ==
    ASSUME TypeOK, current' \in Seq(Nat),
           Len(current') \in 1..MaxGrants,
           Len(current') >= Len(current),
           \A g \in 1..Len(current) : current'[g] >= current[g],
           NEW t \in Tokens, Issued(t)
    PROVE  /\ Issued(t)'
           /\ Spent(t) => Spent(t)'
<1>1. t.grant \in 1..Len(current) /\ t.n \in Nat
  BY DEF Issued, Tokens, TypeOK
<1>2. current[t.grant] \in Nat /\ current'[t.grant] \in Nat
  <2>1. current \in Seq(Nat) /\ t.grant \in 1..Len(current')
    BY <1>1 DEF TypeOK
  <2>2. QED
    BY <1>1, <2>1, ElementOfSeq
<1>3. current[t.grant] <= current'[t.grant] /\ t.n <= current[t.grant]
  BY <1>1 DEF Issued
<1>4. Len(current) \in Nat /\ Len(current') \in Nat
  BY DEF TypeOK
<1>5. Issued(t)'
  <2>1. t.grant <= Len(current') /\ t.n <= current'[t.grant]
    BY <1>1, <1>2, <1>3, <1>4
  <2>2. QED
    BY <2>1 DEF Issued
<1>6. Spent(t) => Spent(t)'
  BY <1>1, <1>2, <1>3 DEF Spent
<1>7. QED
  BY <1>5, <1>6

(* The rotation of a token that is still good *)
LEMMA RotateEffect ==
    ASSUME TypeOK, NEW t \in Tokens, Issued(t), ~Spent(t),
           current' = [current EXCEPT ![t.grant] = @ + 1]
    PROVE  /\ current' \in Seq(Nat)
           /\ Len(current') = Len(current)
           /\ current'[t.grant] = t.n + 1
           /\ \A g \in 1..Len(current) : current'[g] >= current[g]
           /\ \A g \in 1..Len(current) \ {t.grant} : current'[g] = current[g]
           /\ Rotated(t) \in Tokens
           /\ Rotated(t).grant = t.grant
           /\ Rotated(t).n = t.n + 1
<1>1. t.grant \in 1..Len(current) /\ t.n \in Nat /\ current[t.grant] = t.n
  BY DEF Issued, Tokens, TypeOK, Spent
<1>2. /\ current' \in Seq(Nat)
      /\ Len(current') = Len(current)
      /\ current'[t.grant] = t.n + 1
      /\ \A g \in 1..Len(current) \ {t.grant} : current'[g] = current[g]
  <2>1. current \in Seq(Nat) /\ current[t.grant] + 1 \in Nat
    BY <1>1 DEF TypeOK
  <2>2. QED
    BY <1>1, <2>1, ExceptSeq
<1>3. \A g \in 1..Len(current) : current'[g] >= current[g]
  <2>1. \A g \in 1..Len(current) : current[g] \in Nat
    BY ElementOfSeq DEF TypeOK
  <2>2. current'[t.grant] >= current[t.grant]
    BY <1>1, <1>2
  <2>3. QED
    BY <1>2, <2>1, <2>2
<1>4. /\ Rotated(t) \in Tokens
      /\ Rotated(t).grant = t.grant
      /\ Rotated(t).n = t.n + 1
  BY <1>1 DEF Rotated, Tokens
<1>5. QED
  BY <1>2, <1>3, <1>4

(* A new authorization starts a token of its own and leaves the others alone. *)
LEMMA AuthorizeEffect ==
    ASSUME TypeOK, NEW w \in Attempts, Authorize(w)
    PROVE  /\ current' \in Seq(Nat)
           /\ Len(current') = Len(current) + 1
           /\ Len(current') \in 1..MaxGrants
           /\ \A g \in 1..Len(current) : current'[g] = current[g]
           /\ current'[Len(current) + 1] = 0
           /\ got'[w] = Token(Len(current) + 1, 0)
           /\ got'[w] \in Tokens
           /\ \A t \in Tokens : Issued(t) =>
                 Issued(t)' /\ (Spent(t)' <=> Spent(t)) /\ t # got'[w]
<1>1. /\ Len(current) \in Nat
      /\ Len(current) < MaxGrants
      /\ current' = Append(current, 0)
  BY BoundsAssumption DEF Authorize, TypeOK
<1>2. /\ current' \in Seq(Nat)
      /\ Len(current') = Len(current) + 1
      /\ Len(current') \in 1..MaxGrants
      /\ \A g \in 1..Len(current) : current'[g] = current[g]
      /\ current'[Len(current) + 1] = 0
  BY <1>1, BoundsAssumption DEF TypeOK
<1>3. Token(Len(current) + 1, 0) \in Tokens
  BY <1>1, BoundsAssumption DEF Token, Tokens, TypeOK
<1>4. got'[w] = Token(Len(current) + 1, 0)
  BY DEF Authorize, TypeOK
<1>5. ASSUME NEW t \in Tokens, Issued(t)
      PROVE  Issued(t)' /\ (Spent(t)' <=> Spent(t)) /\ t # got'[w]
  <2>1. t.grant \in 1..Len(current) /\ Len(current) \in Nat
    BY <1>1, <1>5 DEF Issued, Tokens
  <2>2. QED
    BY <1>2, <1>4, <1>5, <2>1 DEF Issued, Spent, Token
<1>6. QED
  BY <1>2, <1>3, <1>4, <1>5

-----------------------------------------------------------------------------
(* What the attempts know *)

(* Where an attempt neither holds nor presents a token. *)
Quiet == {"idle", "local", "lock", "read", "clear"}

(* The tokens in every row and on their way *)
LEMMA KnownTokens ==
    ASSUME TypeOK, TokensKnown
    PROVE  /\ account.token \in Tokens /\ Issued(account.token)
           /\ \A v \in Attempts :
                 /\ read[v].token \in Tokens /\ Issued(read[v].token)
                 /\ got[v] \in Tokens /\ Issued(got[v])
BY DEF TypeOK, TokensKnown, Issued, Rows

(* A token's successor is another one of the same authorization. *)
LEMMA RotatedDiffers ==
    \A t \in Tokens : Rotated(t) # t /\ Rotated(t).grant = t.grant
<1> SUFFICES ASSUME NEW t \in Tokens
             PROVE  Rotated(t) # t /\ Rotated(t).grant = t.grant
  OBVIOUS
<1>1. t.n \in Nat /\ Rotated(t).n = t.n + 1 /\ Rotated(t).grant = t.grant
  BY DEF Rotated, Tokens
<1>2. QED
  BY <1>1

(* The account's first token *)
LEMMA FirstIssued == TypeOK => Issued(Token(1, 0))
BY DEF Issued, Token, TypeOK

(* Steps that neither rotate a token nor store or present one *)
LEMMA TokensKept ==
    ASSUME TypeOK, TokensKnown,
           current' = current, account'.token = account.token, grok' = grok,
           \A v \in Attempts :
              \/ /\ at'[v] \in Quiet
                 /\ read'[v].token \in {read[v].token, Token(1, 0)}
                 /\ got'[v] \in {got[v], Token(1, 0)}
              \/ /\ \/ at'[v] = at[v]
                    \/ at[v] = "recover" /\ at'[v] = "fail"
                    \/ at[v] = "update" /\ at'[v] = "write"
                 /\ read'[v].token = read[v].token
                 /\ got'[v] = got[v]
    PROVE  TokensKnown'
<1>1. \A t : Issued(t) => Issued(t)'
  BY DEF Issued
<1>2. \A v \in Attempts : Issued(read[v].token)' /\ Issued(got[v])'
  BY <1>1, FirstIssued DEF TokensKnown, Issued
<1>3. \A v \in Attempts : at'[v] \in {"recover", "fail"} => Spent(read[v].token)'
  BY DEF TokensKnown, Spent, Quiet
<1>4. \A v \in Attempts : at'[v] = "store" => got'[v] = Rotated(read'[v].token)
  BY DEF TokensKnown, Quiet, Rotated
<1>5. \A v \in Attempts : at'[v] = "fill" => got'[v] = read'[v].token /\ ~grok'
  BY DEF TokensKnown, Quiet
<1>6. \A v \in Attempts :
          Holds(v)' => Holds(v) /\ read'[v].token = read[v].token /\ got'[v] = got[v]
  BY DEF Holds, Quiet
<1>7. ASSUME NEW v \in Attempts, Holds(v)'
      PROVE  AnswerIsLatest(v)'
  <2>1. AnswerIsLatest(v) /\ got'[v] = got[v]
    BY <1>6, <1>7 DEF TokensKnown
  <2>2. \A u \in Attempts : read'[u].token # got'[v]
    BY <2>1 DEF AnswerIsLatest
  <2>3. \A u \in Attempts : Holds(u)' /\ u # v => got'[u] # got'[v]
    BY <1>6, <2>1 DEF AnswerIsLatest
  <2>4. QED
    BY <2>1, <2>2, <2>3 DEF AnswerIsLatest, Spent
<1>8. QED
  BY <1>2, <1>3, <1>4, <1>5, <1>7 DEF TokensKnown

(* An attempt that has read the row knows no token that is on its way. *)
LEMMA TokensTaken ==
    ASSUME TypeOK, TokensKnown, NEW w \in Attempts, NEW l \in {"call", "write", "fill"},
           Go(w, l), read' = [read EXCEPT ![w] = account],
           \/ got' = [got EXCEPT ![w] = account.token]
           \/ l = "call" /\ got' = got,
           l = "fill" => ~grok,
           UNCHANGED <<current, account, grok>>
    PROVE  TokensKnown'
<1>1. /\ at' \in [Attempts -> Locations]
      /\ at'[w] = l
      /\ \A v \in Attempts \ {w} : at'[v] = at[v]
  BY GoEffect DEF Locations
<1>2. /\ read'[w] = account
      /\ got'[w] \in {got[w], account.token}
      /\ l # "call" => got'[w] = account.token
      /\ \A v \in Attempts \ {w} : read'[v] = read[v] /\ got'[v] = got[v]
  BY DEF TypeOK
<1>3. \A v \in Attempts : Issued(read[v].token)' /\ Issued(got[v])'
  <2>1. \A v \in Attempts : Issued(read'[v].token) /\ Issued(got'[v])
    BY <1>2, KnownTokens
  <2>2. QED
    BY <2>1 DEF Issued
<1>4. \A v \in Attempts : at'[v] \in {"recover", "fail"} => Spent(read[v].token)'
  BY <1>1, <1>2 DEF TokensKnown, Spent
<1>5. \A v \in Attempts : at'[v] = "store" => got'[v] = Rotated(read'[v].token)
  BY <1>1, <1>2 DEF TokensKnown, Rotated
<1>6. \A v \in Attempts : at'[v] = "fill" => got'[v] = read'[v].token /\ ~grok'
  BY <1>1, <1>2 DEF TokensKnown
<1>7. ~Holds(w)' /\ \A v \in Attempts \ {w} : Holds(v)' => Holds(v)
  BY <1>1, <1>2 DEF Holds
<1>8. ASSUME NEW v \in Attempts, Holds(v)'
      PROVE  AnswerIsLatest(v)'
  <2>1. v # w /\ Holds(v) /\ AnswerIsLatest(v) /\ got'[v] = got[v]
    BY <1>2, <1>7, <1>8 DEF TokensKnown
  <2>2. \A u \in Attempts : read'[u].token # got'[v]
    BY <1>2, <2>1 DEF AnswerIsLatest
  <2>3. \A u \in Attempts : Holds(u)' /\ u # v => got'[u] # got'[v]
    BY <1>2, <1>7, <2>1 DEF AnswerIsLatest
  <2>4. QED
    BY <2>1, <2>2, <2>3 DEF AnswerIsLatest, Spent
<1>9. QED
  BY <1>3, <1>4, <1>5, <1>6, <1>8 DEF TokensKnown

(* The provider rotates the presented token.  If another answer of the same *)
(* authorization were on its way, it would be the token presented.          *)
LEMMA TokensRotated ==
    ASSUME TypeOK, TokensKnown, NEW w \in Attempts, at[w] = "call",
           ~Spent(read[w].token),
           current' = [current EXCEPT ![read[w].token.grant] = @ + 1],
           account' = account, grok' = grok,
           \/ /\ Go(w, "store") \/ Go(w, "update")
              /\ got' = [got EXCEPT ![w] = Rotated(read[w].token)]
              /\ read' = read
           \/ Go(w, "idle") /\ Forget(w)
    PROVE  TokensKnown'
<1> DEFINE t == read[w].token
<1>1. t \in Tokens /\ Issued(t)
  BY KnownTokens
<1>2. /\ current' \in Seq(Nat)
      /\ Len(current') = Len(current)
      /\ current'[t.grant] = t.n + 1
      /\ \A g \in 1..Len(current) : current'[g] >= current[g]
      /\ \A g \in 1..Len(current) \ {t.grant} : current'[g] = current[g]
      /\ Rotated(t) \in Tokens
      /\ Rotated(t).grant = t.grant
      /\ Rotated(t).n = t.n + 1
  BY <1>1, RotateEffect
<1>3. \A u \in Tokens : Issued(u) => Issued(u)' /\ (Spent(u) => Spent(u)')
  BY <1>2, IssuedStays DEF TypeOK
<1>4. \A u \in Tokens : Issued(u) => u # Rotated(t)
  BY <1>1, <1>2 DEF Issued, Spent, Tokens, TypeOK
<1>5. /\ at'[w] \in {"store", "update", "idle"}
      /\ at'[w] # "idle" => read'[w] = read[w] /\ got'[w] = Rotated(t)
      /\ at'[w] = "idle" => read'[w].token = Token(1, 0) /\ got'[w] = Token(1, 0)
      /\ \A v \in Attempts \ {w} : at'[v] = at[v] /\ read'[v] = read[v] /\ got'[v] = got[v]
  <2>1. CASE /\ Go(w, "store") \/ Go(w, "update")
             /\ got' = [got EXCEPT ![w] = Rotated(read[w].token)]
             /\ read' = read
    BY <2>1, GoEffect DEF Locations, TypeOK
  <2>2. CASE Go(w, "idle") /\ Forget(w)
    BY <2>2, GoEffect, ForgetEffect, FirstRowTyped DEF Locations
  <2>3. QED
    BY <2>1, <2>2
<1>6. \A v \in Attempts \ {w} : Holds(v) => got[v].grant # t.grant
  <2> SUFFICES ASSUME NEW v \in Attempts \ {w}, Holds(v), got[v].grant = t.grant
               PROVE  FALSE
    OBVIOUS
  <2>1. AnswerIsLatest(v)
    BY DEF TokensKnown
  <2>2. got[v].n = t.n
    BY <2>1 DEF AnswerIsLatest, Spent
  <2>3. got[v] = t
    BY <1>1, <2>2, KnownTokens DEF Tokens
  <2>4. QED
    BY <2>1, <2>3 DEF AnswerIsLatest
<1>7. /\ t.grant <= Len(current')
      /\ t.n + 1 <= current'[t.grant]
      /\ Issued(Token(1, 0))'
  <2>1. t.grant <= Len(current') /\ t.n + 1 \in Nat
    BY <1>1, <1>2 DEF Issued, Tokens
  <2>2. Issued(Token(1, 0))'
    BY <1>3, FirstIssued, FirstRowTyped DEF Token
  <2>3. QED
    BY <1>2, <2>1, <2>2
<1>8. \A v \in Attempts : Issued(read[v].token)' /\ Issued(got[v])'
  <2>1. \A v \in Attempts \ {w} : Issued(read[v].token)' /\ Issued(got[v])'
    BY <1>3, <1>5, KnownTokens DEF Issued
  <2>2. CASE at'[w] = "idle"
    BY <1>5, <1>7, <2>1, <2>2 DEF Issued, Token
  <2>3. CASE at'[w] # "idle"
    <3>1. Issued(read[w].token)'
      BY <1>1, <1>3, <1>5, <2>3 DEF Issued
    <3>2. Issued(got[w])'
      BY <1>2, <1>5, <1>7, <2>3 DEF Issued
    <3>3. QED
      BY <2>1, <3>1, <3>2
  <2>4. QED
    BY <2>2, <2>3
<1>9. \A v \in Attempts : at'[v] \in {"recover", "fail"} => Spent(read[v].token)'
  <2>1. \A v \in Attempts : at'[v] \in {"recover", "fail"}
            => v # w /\ read'[v] = read[v] /\ Spent(read[v].token)
    BY <1>5 DEF TokensKnown
  <2>2. QED
    BY <1>3, <2>1, KnownTokens DEF Spent
<1>10. \A v \in Attempts : at'[v] = "store" => got'[v] = Rotated(read'[v].token)
  BY <1>5 DEF TokensKnown, Rotated
<1>11. \A v \in Attempts : at'[v] = "fill" => got'[v] = read'[v].token /\ ~grok'
  BY <1>5 DEF TokensKnown
<1>12. \A v \in Attempts : read'[v].token # Rotated(t) /\ got[v] # Rotated(t)
  <2>1. Rotated(t) # Token(1, 0)
    BY <1>1, <1>2 DEF Token, Tokens
  <2>2. \A v \in Attempts : read[v].token # Rotated(t) /\ got[v] # Rotated(t)
    BY <1>4, KnownTokens
  <2>3. QED
    BY <1>5, <2>1, <2>2
<1>13. \A v \in Attempts \ {w} : Holds(v)' => Holds(v) /\ AnswerIsLatest(v)
  BY <1>5 DEF Holds, TokensKnown
<1>14. ASSUME Holds(w)'
       PROVE  AnswerIsLatest(w)'
  <2>1. got'[w] = Rotated(t)
    BY <1>5, <1>14 DEF Holds
  <2>2. ~Spent(got[w])'
    BY <1>2, <2>1 DEF Spent
  <2>3. account'.token # got'[w] /\ got'[w] # Token(1, 0)
    BY <1>4, <2>1, KnownTokens, FirstIssued, FirstRowTyped
  <2>4. \A v \in Attempts : v # w => got'[v] # got'[w]
    BY <1>5, <1>12, <2>1
  <2>5. QED
    BY <1>12, <2>1, <2>2, <2>3, <2>4 DEF AnswerIsLatest, Token
<1>15. ASSUME NEW v \in Attempts \ {w}, Holds(v)'
       PROVE  AnswerIsLatest(v)'
  <2>1. /\ Holds(v) /\ AnswerIsLatest(v) /\ got'[v] = got[v]
        /\ got[v].grant # t.grant /\ got[v] \in Tokens /\ Issued(got[v])
    BY <1>5, <1>6, <1>13, <1>15, KnownTokens
  <2>2. ~Spent(got[v])'
    <3>1. got[v].grant \in 1..Len(current) \ {t.grant}
      BY <2>1 DEF Issued, Tokens, TypeOK
    <3>2. current'[got[v].grant] = current[got[v].grant]
      BY <1>2, <3>1
    <3>3. QED
      BY <2>1, <3>2 DEF AnswerIsLatest, Spent
  <2>3. got'[w] # got[v] /\ read'[w].token # got[v]
    BY <1>2, <1>5, <2>1 DEF AnswerIsLatest
  <2>4. \A u \in Attempts : read'[u].token # got'[v]
    BY <1>5, <2>1, <2>3 DEF AnswerIsLatest
  <2>5. \A u \in Attempts : Holds(u)' /\ u # v => got'[u] # got'[v]
    BY <1>5, <1>13, <2>1, <2>3 DEF AnswerIsLatest
  <2>6. QED
    BY <2>1, <2>2, <2>4, <2>5 DEF AnswerIsLatest, Token
<1>16. QED
  BY <1>8, <1>9, <1>10, <1>11, <1>14, <1>15 DEF TokensKnown

(* The provider refuses a spent token, which stays spent. *)
LEMMA TokensRefused ==
    ASSUME TypeOK, TokensKnown, NEW w \in Attempts, Spent(read[w].token), Go(w, "recover"),
           UNCHANGED <<read, got, current, account, grok>>
    PROVE  TokensKnown'
<1>1. /\ at' \in [Attempts -> Locations]
      /\ at'[w] = "recover"
      /\ \A v \in Attempts \ {w} : at'[v] = at[v]
  BY GoEffect DEF Locations
<1>2. \A v \in Attempts : Holds(v)' => Holds(v)
  BY <1>1 DEF Holds
<1>3. ASSUME NEW v \in Attempts, Holds(v)'
      PROVE  AnswerIsLatest(v)'
  BY <1>2, <1>3 DEF TokensKnown, AnswerIsLatest, Spent
<1>4. QED
  BY <1>1, <1>3 DEF TokensKnown, Issued, Spent, Rotated

(* A token is written to the row, and the attempt forgets what it knew: what *)
(* was known to one attempt is the account's, and of what was read the       *)
(* latest tokens are none.                                                   *)
LEMMA TokensStored ==
    ASSUME TypeOK, TokensKnown, NEW w \in Attempts, at[w] \in {"store", "write", "fill"},
           Go(w, "idle") \/ Go(w, "clear"), Forget(w), current' = current, grok' = grok,
           account'.token \in {got[w], account.token}
    PROVE  TokensKnown'
<1>1. /\ at'[w] \in {"idle", "clear"}
      /\ read'[w].token = Token(1, 0) /\ got'[w] = Token(1, 0)
      /\ \A v \in Attempts \ {w} : at'[v] = at[v] /\ read'[v] = read[v] /\ got'[v] = got[v]
  BY GoEffect, ForgetEffect, FirstRowTyped DEF Locations
<1>2. \A v \in Attempts : Issued(read[v].token)' /\ Issued(got[v])'
  BY <1>1, FirstIssued DEF TokensKnown, Issued
<1>3. \A v \in Attempts : at'[v] \in {"recover", "fail"} => Spent(read[v].token)'
  BY <1>1 DEF TokensKnown, Spent
<1>4. \A v \in Attempts : at'[v] = "store" => got'[v] = Rotated(read'[v].token)
  BY <1>1 DEF TokensKnown, Rotated
<1>5. \A v \in Attempts : at'[v] = "fill" => got'[v] = read'[v].token /\ ~grok'
  BY <1>1 DEF TokensKnown
<1>6. ~Holds(w)' /\ \A v \in Attempts \ {w} : Holds(v)' => Holds(v)
  BY <1>1 DEF Holds
<1>7. ASSUME NEW v \in Attempts, Holds(v)'
      PROVE  AnswerIsLatest(v)'
  <2>1. v # w /\ Holds(v) /\ AnswerIsLatest(v) /\ got'[v] = got[v]
    BY <1>1, <1>6, <1>7 DEF TokensKnown
  <2>2. got[v] # got[w]
    <3>1. CASE got[w] = read[w].token
      BY <2>1, <3>1 DEF AnswerIsLatest
    <3>2. CASE got[w] # read[w].token
      <4>1. Holds(w)
        BY <3>2 DEF Holds, TokensKnown
      <4>2. QED
        BY <2>1, <4>1 DEF AnswerIsLatest
    <3>3. QED
      BY <3>1, <3>2
  <2>3. \A u \in Attempts : read'[u].token # got'[v]
    BY <1>1, <2>1 DEF AnswerIsLatest
  <2>4. \A u \in Attempts : Holds(u)' /\ u # v => got'[u] # got'[v]
    BY <1>1, <1>6, <2>1 DEF AnswerIsLatest
  <2>5. QED
    BY <2>1, <2>2, <2>3, <2>4 DEF AnswerIsLatest, Spent
<1>8. QED
  BY <1>2, <1>3, <1>4, <1>5, <1>7 DEF TokensKnown

(* A new authorization has its own first token, which nobody else knows. *)
LEMMA TokensAuthorized ==
    ASSUME TypeOK, TokensKnown, NEW w \in Attempts, Authorize(w)
    PROVE  TokensKnown'
<1>1. /\ current' \in Seq(Nat)
      /\ Len(current') = Len(current) + 1
      /\ Len(current') \in 1..MaxGrants
      /\ current'[Len(current) + 1] = 0
      /\ got'[w] = Token(Len(current) + 1, 0)
  BY AuthorizeEffect
<1>2. \A t \in Tokens : Issued(t) =>
          Issued(t)' /\ (Spent(t)' <=> Spent(t)) /\ t # got'[w]
  BY AuthorizeEffect
<1>3. /\ at'[w] = "update" /\ read'[w] = account /\ account' = account /\ grok' = grok
      /\ \A v \in Attempts \ {w} : at'[v] = at[v] /\ read'[v] = read[v] /\ got'[v] = got[v]
  BY GoEffect DEF Authorize, Locations, TypeOK
<1>4. Issued(got[w])'
  BY <1>1 DEF Issued, Token
<1>5. \A v \in Attempts : Issued(read[v].token)' /\ Issued(got[v])'
  <2>1. \A v \in Attempts : read'[v].token \in Tokens /\ Issued(read'[v].token)
    BY <1>3, KnownTokens
  <2>2. \A v \in Attempts \ {w} : got'[v] \in Tokens /\ Issued(got'[v])
    BY <1>3, KnownTokens
  <2>3. QED
    BY <1>2, <1>4, <2>1, <2>2 DEF Issued
<1>6. \A v \in Attempts : at'[v] \in {"recover", "fail"} => Spent(read[v].token)'
  BY <1>2, <1>3, KnownTokens DEF TokensKnown, Spent
<1>7. \A v \in Attempts : at'[v] = "store" => got'[v] = Rotated(read'[v].token)
  BY <1>3 DEF TokensKnown, Rotated
<1>8. \A v \in Attempts : at'[v] = "fill" => got'[v] = read'[v].token /\ ~grok'
  BY <1>3 DEF TokensKnown
<1>9. \A v \in Attempts \ {w} : Holds(v)' => Holds(v) /\ AnswerIsLatest(v)
  BY <1>3 DEF Holds, TokensKnown
<1>10. \A v \in Attempts : read'[v].token # got'[w] /\ (v # w => got'[v] # got'[w])
  BY <1>2, <1>3, KnownTokens
<1>11. AnswerIsLatest(w)'
  <2>1. ~Spent(got[w])'
    BY <1>1 DEF Spent, Token
  <2>2. got'[w] # Token(1, 0) /\ account'.token # got'[w]
    BY <1>2, <1>3, FirstIssued, FirstRowTyped, KnownTokens
  <2>3. QED
    BY <1>10, <2>1, <2>2 DEF AnswerIsLatest, Token
<1>12. ASSUME NEW v \in Attempts \ {w}, Holds(v)'
       PROVE  AnswerIsLatest(v)'
  <2>1. Holds(v) /\ AnswerIsLatest(v) /\ got'[v] = got[v] /\ got[v] \in Tokens /\ Issued(got[v])
    BY <1>3, <1>9, <1>12, KnownTokens
  <2>2. ~Spent(got[v])'
    BY <1>2, <2>1 DEF AnswerIsLatest, Spent
  <2>3. \A u \in Attempts : read'[u].token # got'[v]
    BY <1>3, <2>1 DEF AnswerIsLatest
  <2>4. \A u \in Attempts : Holds(u)' /\ u # v => got'[u] # got'[v]
    BY <1>3, <1>9, <1>10, <2>1 DEF AnswerIsLatest
  <2>5. QED
    BY <1>3, <2>1, <2>2, <2>3, <2>4 DEF AnswerIsLatest, Token
<1>13. QED
  BY <1>5, <1>6, <1>7, <1>8, <1>11, <1>12 DEF TokensKnown

(* Every step keeps what the attempts know of the tokens. *)
LEMMA TokensStep == TypeOK /\ TokensKnown /\ [Next]_vars => TokensKnown'
<1> SUFFICES ASSUME TypeOK, TokensKnown, [Next]_vars
             PROVE  TokensKnown'
  OBVIOUS
<1> USE DEF Locations, Quiet
<1>1. ASSUME NEW w \in Attempts, Start(w) \/ LockLocal(w) \/ GiveUp(w) \/ AcquireLock(w)
      PROVE  TokensKnown'
  <2>1. UNCHANGED <<current, account, grok>>
    BY <1>1 DEF Start, LockLocal, GiveUp, AcquireLock, KeepWorld
  <2>2. /\ Go(w, "local") \/ Go(w, "lock") \/ Go(w, "idle") \/ Go(w, "read")
        /\ UNCHANGED <<read, got>> \/ Forget(w)
    BY <1>1 DEF Start, LockLocal, GiveUp, AcquireLock, KeepKnowledge
  <2>3. QED
    BY <2>1, <2>2, GoEffect, ForgetEffect, FirstRowTyped, TokensKept
<1>2. ASSUME NEW w \in Attempts, Reread(w)
      PROVE  TokensKnown'
  <2>1. UNCHANGED <<current, account, grok>>
    BY <1>2 DEF Reread, KeepWorld
  <2>2. CASE Go(w, "call") /\ read' = [read EXCEPT ![w] = account] /\ UNCHANGED got
    BY <2>1, <2>2, TokensTaken
  <2>3. CASE Go(w, "idle") /\ Forget(w)
    BY <2>1, <2>3, GoEffect, ForgetEffect, FirstRowTyped, TokensKept
  <2>4. QED
    BY <1>2, <2>2, <2>3 DEF Reread
<1>3. ASSUME NEW w \in Attempts, Call(w)
      PROVE  TokensKnown'
  <2>1. at[w] = "call" /\ UNCHANGED <<account, grok>>
    BY <1>3 DEF Call, KeepWorld
  <2>2. CASE ~Spent(read[w].token) /\ current' = [current EXCEPT ![read[w].token.grant] = @ + 1]
    <3>1. \/ /\ Go(w, "store") \/ Go(w, "update")
             /\ got' = [got EXCEPT ![w] = Rotated(read[w].token)]
             /\ read' = read
          \/ Go(w, "idle") /\ Forget(w)
      BY <1>3, <2>2 DEF Call, End, KeepKnowledge
    <3>2. QED
      BY <2>1, <2>2, <3>1, TokensRotated
  <2>3. CASE Spent(read[w].token) /\ Go(w, "recover") /\ KeepKnowledge /\ UNCHANGED current
    BY <2>1, <2>3, TokensRefused DEF KeepKnowledge
  <2>4. CASE End(w, "idle") /\ Forget(w) /\ UNCHANGED current
    BY <2>1, <2>4, GoEffect, ForgetEffect, FirstRowTyped, TokensKept DEF End
  <2>5. QED
    BY <1>3, <2>2, <2>3, <2>4 DEF Call
<1>4. ASSUME NEW w \in Attempts, Store(w) \/ WriteRow(w) \/ FillProject(w)
      PROVE  TokensKnown'
  <2>1. /\ at[w] \in {"store", "write", "fill"}
        /\ Go(w, "idle") \/ Go(w, "clear")
        /\ Forget(w) /\ current' = current /\ grok' = grok
    BY <1>4 DEF Store, WriteRow, FillProject, End, KeepWorld
  <2>2. account'.token \in {got[w], account.token}
    <3>1. account \in Rows
      BY DEF TypeOK
    <3>2. CASE Store(w)
      BY <3>1, <3>2 DEF Store, Rows
    <3>3. CASE WriteRow(w)
      BY <3>3, WriteRowEffect
    <3>4. CASE FillProject(w)
      BY <3>4, FillProjectEffect
    <3>5. QED
      BY <1>4, <3>2, <3>3, <3>4
  <2>3. QED
    BY <2>1, <2>2, TokensStored
<1>5. ASSUME NEW w \in Attempts, Recover(w) \/ Disable(w) \/ ClearError(w)
      PROVE  TokensKnown'
  <2>1. UNCHANGED <<current, grok>> /\ account'.token = account.token
    <3>1. CASE Recover(w)
      BY <3>1 DEF Recover, KeepWorld
    <3>2. CASE Disable(w)
      BY <3>2 DEF Disable, KeepWorld, TypeOK, Rows
    <3>3. CASE ClearError(w)
      BY <3>3 DEF ClearError, KeepWorld, TypeOK, Rows
    <3>4. QED
      BY <1>5, <3>1, <3>2, <3>3
  <2>2. \/ Go(w, "idle") /\ (Forget(w) \/ KeepKnowledge)
        \/ at[w] = "recover" /\ Go(w, "fail") /\ KeepKnowledge
    BY <1>5 DEF Recover, Disable, ClearError, End
  <2>3. QED
    BY <2>1, <2>2, GoEffect, ForgetEffect, FirstRowTyped, TokensKept DEF KeepKnowledge
<1>6. ASSUME NEW w \in Attempts, RefreshByHand(w) \/ FindProject(w)
      PROVE  TokensKnown'
  <2>1. UNCHANGED <<current, account, grok>> /\ read' = [read EXCEPT ![w] = account]
    BY <1>6 DEF RefreshByHand, FindProject, KeepWorld
  <2>2. \/ Go(w, "call") /\ got' = got
        \/ Go(w, "fill") /\ got' = [got EXCEPT ![w] = account.token] /\ ~grok
    BY <1>6 DEF RefreshByHand, FindProject
  <2>3. QED
    BY <2>1, <2>2, TokensTaken
<1>7. ASSUME NEW w \in Attempts, Authorize(w)
      PROVE  TokensKnown'
  BY <1>7, TokensAuthorized
<1>8. ASSUME NEW w \in Attempts, ReadRow(w)
      PROVE  TokensKnown'
  <2>1. UNCHANGED <<current, account, grok>> /\ Go(w, "write")
    BY <1>8 DEF ReadRow
  <2>2. CASE /\ at[w] = "update" /\ got' = got
             /\ read' = [read EXCEPT ![w].status = account.status]
    <3>1. read'[w].token = read[w].token /\ \A v \in Attempts \ {w} : read'[v] = read[v]
      BY <2>2 DEF TypeOK, Rows
    <3>2. QED
      BY <2>1, <2>2, <3>1, GoEffect, TokensKept
  <2>3. CASE /\ read' = [read EXCEPT ![w] = account]
             /\ got' = [got EXCEPT ![w] = account.token]
    BY <2>1, <2>3, TokensTaken
  <2>4. QED
    BY <1>8, <2>2, <2>3 DEF ReadRow
<1>9. ASSUME NEW k \in BOOLEAN, ComeToEnd \/ LeaseEnds(k) \/ UNCHANGED vars
      PROVE  TokensKnown'
  <2>1. UNCHANGED <<current, at, read, got, grok>>
    BY <1>9 DEF ComeToEnd, LeaseEnds, KeepKnowledge, KeepWorld, vars
  <2>2. account'.token = account.token
    BY <1>9 DEF ComeToEnd, LeaseEnds, vars, TypeOK, Rows
  <2>3. QED
    BY <2>1, <2>2, TokensKept
<1>10. ASSUME NEW p \in Processes, Crash(p)
       PROVE  TokensKnown'
  BY <1>10, FirstRowTyped, TokensKept DEF Crash, KeepWorld, TypeOK
<1>11. QED
  BY <1>1, <1>2, <1>3, <1>4, <1>5, <1>6, <1>7, <1>8, <1>9, <1>10 DEF Next, Step

-----------------------------------------------------------------------------
(* While nothing is lost and no unlocked writer interferes *)

(* PresentsFreshTokens, as long as that is so. *)
PresentsFresh ==
    \A w \in Attempts : /\ at[w] \notin {"recover", "fail"}
                        /\ at[w] = "call" => ~Spent(read[w].token)

(* What holds until the first fault or clash. *)
Lossless == LeaseExcludes /\ PresentsFresh

(* A fault is counted, and so is a round of an unlocked writer. *)
LEMMA FaultEffect ==
    ASSUME TypeOK
    PROVE  /\ Fault => faults' \in 0..MaxTrouble /\ faults' # 0
           /\ Unlocked => writes' \in 0..MaxTrouble
BY BoundsAssumption DEF Fault, Unlocked, Trouble, TypeOK

(* A holder of the lease past its taking, or who presents or stores, is the *)
(* only one; administrators are none.                                       *)
LEMMA OneHolder ==
    ASSUME TypeOK, Lossless
    PROVE  /\ \A v, w \in Attempts :
                 /\ at[v] \in {"read", "call", "store"}
                 /\ at[w] \in {"read", "call", "store"}
                 => v = w
           /\ \A v \in leased : v \in Inside /\ v \in Attempts /\ v \notin Manual
BY Kinds DEF Lossless, LeaseExcludes, TypeOK, Inside, Attempts

(* Moves short of the lease, and events that neither touch the lease, the *)
(* account's token nor an attempt that is past it                         *)
LEMMA LosslessKept ==
    ASSUME TypeOK, Lossless,
           UNCHANGED <<current, leased>>, account'.token = account.token,
           \A v \in leased : key'[v] = key[v] /\ (key[v] \in lock => key[v] \in lock'),
           \A v \in Attempts :
              \/ at'[v] = at[v] /\ read'[v].token = read[v].token
              \/ /\ at[v] \notin {"read", "call", "store"}
                 /\ at'[v] \in {"idle", "local", "lock", "update", "write", "clear", "fill"}
    PROVE  Lossless'
<1>1. LeaseExcludes'
  <2>1. \A m \in Manual : at'[m] \notin {"call", "recover"}
    BY DEF Lossless, LeaseExcludes, Attempts
  <2>2. \A v \in Attempts : at'[v] \in {"read", "call", "store"} => v \in leased'
    BY DEF Lossless, LeaseExcludes
  <2>3. Spent(account.token)' =>
            \E w \in Attempts : at'[w] = "store" /\ account'.token = read'[w].token
    BY DEF Lossless, LeaseExcludes, Spent
  <2>4. QED
    BY <2>1, <2>2, <2>3 DEF Lossless, LeaseExcludes
<1>2. PresentsFresh'
  BY DEF Lossless, PresentsFresh, Spent
<1>3. QED
  BY <1>1, <1>2 DEF Lossless

(* The only holder of the lease ends; unless it held the successor of the *)
(* stored token, or has just stored it, that one is still good.           *)
LEMMA LosslessLeft ==
    ASSUME TypeOK, Lossless, NEW w \in Attempts \ Manual, Go(w, "idle"), Unlock(w),
           Forget(w), current' = current,
           at[w] = "store" => ~Spent(account.token)',
           at[w] # "store" => account'.token = account.token
    PROVE  Lossless'
<1>1. /\ at' \in [Attempts -> Locations]
      /\ at'[w] = "idle"
      /\ \A v \in Attempts \ {w} : at'[v] = at[v]
  BY GoEffect DEF Locations
<1>2. \A v \in Attempts \ {w} : key'[v] = key[v] /\ read'[v] = read[v]
  BY ForgetEffect
<1>3. \A v \in Attempts : at'[v] \in {"read", "call", "store"} => v \in leased'
  BY <1>1 DEF Unlock, Lossless, LeaseExcludes
<1>4. \A v \in leased' : key'[v] \in lock'
  <2>1. w \in leased => leased' = {}
    BY DEF Unlock, Lossless, LeaseExcludes
  <2>2. w \notin leased => leased' = leased /\ lock' = lock
    BY DEF Unlock
  <2>3. leased \subseteq Attempts
    BY OneHolder
  <2>4. QED
    BY <1>2, <2>1, <2>2, <2>3 DEF Lossless, LeaseExcludes
<1>5. Spent(account.token)' =>
          \E v \in Attempts : at'[v] = "store" /\ account'.token = read'[v].token
  BY <1>1, <1>2 DEF Lossless, LeaseExcludes, Spent
<1>6. LeaseExcludes'
  <2>1. \A m \in Manual : at'[m] \notin {"call", "recover"}
    BY <1>1 DEF Lossless, LeaseExcludes, Attempts
  <2>2. \A u, v \in leased' : u = v
    BY DEF Unlock, Lossless, LeaseExcludes
  <2>3. QED
    BY <1>3, <1>4, <1>5, <2>1, <2>2 DEF LeaseExcludes
<1>7. PresentsFresh'
  BY <1>1, <1>2 DEF Lossless, PresentsFresh, Spent
<1>8. QED
  BY <1>6, <1>7 DEF Lossless

(* The lease is taken under a key that is free, and under the other one *)
(* there is none.                                                       *)
LEMMA LosslessLeased ==
    ASSUME TypeOK, Lossless, NEW w \in Attempts \ Manual, LockFree(w), ~SecondKey(w),
           at[w] = "lock", Go(w, "read"), lock' = lock \cup {key[w]},
           leased' = leased \cup {w},
           UNCHANGED <<account, current, key, read>>
    PROVE  Lossless'
<1>1. leased = {}
  BY DEF LockFree, SecondKey, Lossless, LeaseExcludes
<1>2. /\ at' \in [Attempts -> Locations]
      /\ at'[w] = "read"
      /\ \A v \in Attempts \ {w} : at'[v] = at[v]
  BY GoEffect DEF Locations
<1>3. \A m \in Manual : at'[m] \notin {"call", "recover"}
  BY <1>2 DEF Lossless, LeaseExcludes, Attempts
<1>4. \A v \in Attempts : at'[v] \in {"read", "call", "store"} => v \in leased'
  BY <1>2 DEF Lossless, LeaseExcludes
<1>5. Spent(account.token)' =>
          \E v \in Attempts : at'[v] = "store" /\ account'.token = read'[v].token
  BY <1>2 DEF Lossless, LeaseExcludes, Spent
<1>6. LeaseExcludes'
  BY <1>1, <1>3, <1>4, <1>5 DEF LeaseExcludes
<1>7. PresentsFresh'
  BY <1>2 DEF Lossless, PresentsFresh, Spent
<1>8. QED
  BY <1>6, <1>7 DEF Lossless

(* The holder of the lease presents the stored token, which nobody can have *)
(* used: its successor would be with another holder.                        *)
LEMMA LosslessTaken ==
    ASSUME TypeOK, Lossless, NEW w \in Attempts, at[w] = "read", Go(w, "call"),
           w \notin Manual,
           read' = [read EXCEPT ![w] = account],
           UNCHANGED <<account, current, key, lock, leased>>
    PROVE  Lossless'
<1>1. /\ at' \in [Attempts -> Locations]
      /\ at'[w] = "call"
      /\ \A v \in Attempts \ {w} : at'[v] = at[v] /\ read'[v] = read[v]
      /\ read'[w] = account
  BY GoEffect DEF Locations, TypeOK
<1>2. ~Spent(account.token)
  BY OneHolder DEF Lossless, LeaseExcludes
<1>3. \A m \in Manual : at'[m] \notin {"call", "recover"}
  BY <1>1 DEF Lossless, LeaseExcludes, Attempts
<1>4. \A v \in Attempts : at'[v] \in {"read", "call", "store"} => v \in leased'
  BY <1>1 DEF Lossless, LeaseExcludes
<1>5. LeaseExcludes'
  BY <1>2, <1>3, <1>4 DEF Lossless, LeaseExcludes, Spent
<1>6. PresentsFresh'
  BY <1>1, <1>2 DEF Lossless, PresentsFresh, Spent
<1>7. QED
  BY <1>5, <1>6 DEF Lossless

(* The provider's answer: only the presented token becomes spent. *)
LEMMA LosslessRotated ==
    ASSUME TypeOK, TokensKnown, Lossless, NEW w \in Attempts, at[w] = "call", Go(w, "store"),
           w \notin Manual,
           current' = [current EXCEPT ![read[w].token.grant] = @ + 1],
           UNCHANGED <<account, key, read, lock, leased>>
    PROVE  Lossless'
<1>1. /\ at' \in [Attempts -> Locations]
      /\ at'[w] = "store"
      /\ \A v \in Attempts \ {w} : at'[v] = at[v]
  BY GoEffect DEF Locations
<1>2. read[w].token \in Tokens /\ Issued(read[w].token) /\ ~Spent(read[w].token)
  BY KnownTokens DEF Lossless, PresentsFresh
<1>3. \A g \in 1..Len(current) \ {read[w].token.grant} : current'[g] = current[g]
  BY <1>2, RotateEffect
<1>4. \A v \in Attempts \ {w} : at[v] \notin {"read", "call", "store"}
  BY OneHolder
<1>5. ~Spent(account.token)
  BY <1>4 DEF Lossless, LeaseExcludes
<1>6. Spent(account.token)' => account.token = read[w].token
  <2>1. account.token \in Tokens /\ account.token.grant \in 1..Len(current)
    BY DEF TypeOK, Tokens, Rows
  <2>2. account.token.grant # read[w].token.grant => ~Spent(account.token)'
    BY <1>3, <1>5, <2>1 DEF Spent
  <2>3. account.token.grant = read[w].token.grant => account.token = read[w].token
    BY <1>2, <1>5, <2>1 DEF Spent, Tokens
  <2>4. QED
    BY <2>2, <2>3
<1>7. \A m \in Manual : at'[m] \notin {"call", "recover"}
  BY <1>1 DEF Lossless, LeaseExcludes, Attempts
<1>8. \A v \in Attempts : at'[v] \in {"read", "call", "store"} => v \in leased'
  BY <1>1 DEF Lossless, LeaseExcludes
<1>9. LeaseExcludes'
  BY <1>1, <1>6, <1>7, <1>8 DEF Lossless, LeaseExcludes
<1>10. PresentsFresh'
  BY <1>1, <1>4 DEF Lossless, PresentsFresh
<1>11. QED
  BY <1>9, <1>10 DEF Lossless

(* An unlocked writer puts a good token into the row, or the one that is there. *)
LEMMA LosslessWritten ==
    ASSUME TypeOK, TokensKnown, Lossless, NEW w \in Attempts, at[w] \in {"write", "fill"},
           Go(w, "idle") \/ Go(w, "clear"), Forget(w), KeepLocks, current' = current,
           \/ account'.token = account.token
           \/ account'.token = got[w] /\ ~RollsBack(w)
    PROVE  Lossless'
<1>1. /\ at'[w] \in {"idle", "clear"}
      /\ \A v \in Attempts \ {w} : at'[v] = at[v] /\ read'[v] = read[v] /\ key'[v] = key[v]
  BY GoEffect, ForgetEffect DEF Locations
<1>2. w \notin leased /\ leased \subseteq Attempts
  BY OneHolder DEF TypeOK, Inside
<1>3. CASE account'.token = account.token
  BY <1>1, <1>2, <1>3, LosslessKept DEF KeepLocks
<1>4. CASE account'.token = got[w] /\ account'.token # account.token /\ ~RollsBack(w)
  <2>1. ~WritesBack(w)
    BY <1>4 DEF RollsBack
  <2>2. Holds(w)
    BY <2>1 DEF WritesBack, Holds, TokensKnown
  <2>3. ~Spent(account.token)'
    BY <1>4, <2>2 DEF TokensKnown, AnswerIsLatest, Spent
  <2>4. \A m \in Manual : at'[m] \notin {"call", "recover"}
    BY <1>1 DEF Lossless, LeaseExcludes, Attempts
  <2>5. \A v \in Attempts : at'[v] \in {"read", "call", "store"} => v \in leased'
    BY <1>1 DEF KeepLocks, Lossless, LeaseExcludes
  <2>6. \A v \in leased' : key'[v] \in lock'
    BY <1>1, <1>2 DEF KeepLocks, Lossless, LeaseExcludes
  <2>7. LeaseExcludes'
    BY <2>3, <2>4, <2>5, <2>6 DEF KeepLocks, Lossless, LeaseExcludes
  <2>8. PresentsFresh'
    BY <1>1 DEF Lossless, PresentsFresh, Spent
  <2>9. QED
    BY <2>7, <2>8 DEF Lossless
<1>5. QED
  BY <1>3, <1>4

(* A new authorization leaves the other tokens as they are. *)
LEMMA LosslessAuthorized ==
    ASSUME TypeOK, TokensKnown, Lossless, NEW w \in Attempts, Authorize(w)
    PROVE  Lossless'
<1>1. \A t \in Tokens : Issued(t) => (Spent(t)' <=> Spent(t))
  BY AuthorizeEffect
<1>2. /\ at[w] = "idle" /\ at'[w] = "update"
      /\ \A v \in Attempts \ {w} : at'[v] = at[v] /\ read'[v] = read[v]
      /\ UNCHANGED <<account, key, lock, leased>>
  BY GoEffect DEF Authorize, Locations, KeepLocks, TypeOK
<1>3. Spent(account.token)' <=> Spent(account.token)
  BY <1>1, <1>2, KnownTokens DEF Spent
<1>4. \A v \in Attempts \ {w} : Spent(read[v].token)' <=> Spent(read[v].token)
  BY <1>1, <1>2, KnownTokens DEF Spent
<1>5. LeaseExcludes'
  <2>1. \A m \in Manual : at'[m] \notin {"call", "recover"}
    BY <1>2 DEF Lossless, LeaseExcludes, Attempts
  <2>2. \A v \in Attempts : at'[v] \in {"read", "call", "store"} => v \in leased'
    BY <1>2 DEF Lossless, LeaseExcludes
  <2>3. Spent(account.token)' =>
            \E v \in Attempts : at'[v] = "store" /\ account'.token = read'[v].token
    BY <1>2, <1>3 DEF Lossless, LeaseExcludes
  <2>4. QED
    BY <1>2, <2>1, <2>2, <2>3 DEF Lossless, LeaseExcludes
<1>6. PresentsFresh'
  BY <1>2, <1>4 DEF Lossless, PresentsFresh
<1>7. QED
  BY <1>5, <1>6 DEF Lossless

(* Every step but a fault or a clash keeps it. *)
LEMMA LosslessStep ==
    ASSUME TypeOK, LocksHeld, TokensKnown, Lossless, [Next]_vars, faults' = 0, ~clash'
    PROVE  Lossless'
<1>1. ~Fault
  BY FaultEffect
<1>2. \A m \in Manual : at[m] \in {"idle", "update", "write", "clear"}
  BY DEF Lossless, LeaseExcludes, LocksHeld
<1>3. \A v \in leased : v \in Attempts /\ v \notin Manual /\ at[v] \in LockedPlaces
  BY OneHolder DEF Inside, LockedPlaces
<1> USE DEF Locations
<1>4. ASSUME NEW w \in Attempts, Start(w) \/ LockLocal(w) \/ GiveUp(w)
      PROVE  Lossless'
  <2>1. /\ at[w] \in {"idle", "local"}
        /\ Go(w, "local") \/ Go(w, "lock") \/ Go(w, "idle")
        /\ UNCHANGED <<account, current, lock, leased>>
    BY <1>4 DEF Start, LockLocal, GiveUp, KeepLocks
  <2>2. \A v \in Attempts \ {w} : key'[v] = key[v] /\ read'[v] = read[v]
    <3>1. CASE Start(w)
      BY <3>1 DEF Start, TypeOK
    <3>2. CASE LockLocal(w)
      BY <3>2 DEF LockLocal, KeepKnowledge
    <3>3. CASE GiveUp(w)
      BY <3>3, ForgetEffect DEF GiveUp
    <3>4. QED
      BY <1>4, <3>1, <3>2, <3>3
  <2>3. w \notin leased
    BY <1>3, <2>1 DEF LockedPlaces
  <2>4. QED
    BY <1>3, <2>1, <2>2, <2>3, GoEffect, LosslessKept
<1>5. ASSUME NEW w \in Attempts, AcquireLock(w)
      PROVE  Lossless'
  <2>1. w \notin Manual /\ at[w] = "lock" /\ UNCHANGED <<account, current>>
    BY <1>2, <1>5 DEF AcquireLock
  <2>2. CASE /\ LockFree(w) /\ Go(w, "read") /\ lock' = lock \cup {key[w]}
             /\ leased' = leased \cup {w} /\ clash' = (clash \/ SecondKey(w))
             /\ KeepKnowledge
    BY <2>1, <2>2, LosslessLeased DEF KeepKnowledge
  <2>3. CASE Go(w, "idle") /\ Unlock(w) /\ Forget(w)
    BY <2>1, <2>3, LosslessLeft
  <2>4. QED
    BY <1>1, <1>5, <2>2, <2>3 DEF AcquireLock
<1>6. ASSUME NEW w \in Attempts, Reread(w)
      PROVE  Lossless'
  <2>1. w \notin Manual /\ at[w] = "read" /\ UNCHANGED <<account, current>>
    BY <1>2, <1>6 DEF Reread
  <2>2. CASE Go(w, "call") /\ read' = [read EXCEPT ![w] = account] /\ KeepLocks /\ UNCHANGED key
    BY <2>1, <2>2, LosslessTaken DEF KeepLocks
  <2>3. CASE Go(w, "idle") /\ Unlock(w) /\ Forget(w)
    BY <2>1, <2>3, LosslessLeft
  <2>4. QED
    BY <1>6, <2>2, <2>3 DEF Reread
<1>7. ASSUME NEW w \in Attempts, Call(w)
      PROVE  Lossless'
  <2>1. at[w] = "call" /\ w \notin Manual /\ account' = account
    BY <1>2, <1>7 DEF Call
  <2>2. ~Spent(read[w].token)
    BY <2>1 DEF Lossless, PresentsFresh
  <2>3. /\ current' = [current EXCEPT ![read[w].token.grant] = @ + 1]
        /\ Go(w, "store")
        /\ KeepLocks
        /\ UNCHANGED <<key, read>>
    BY <1>1, <1>7, <2>1, <2>2 DEF Call
  <2>4. QED
    BY <2>1, <2>3, LosslessRotated DEF KeepLocks
<1>8. ASSUME NEW w \in Attempts, Store(w)
      PROVE  Lossless'
  <2>1. at[w] = "store" /\ w \notin Manual
    BY <1>2, <1>8 DEF Store
  <2>2. Go(w, "idle") /\ Unlock(w) /\ Forget(w) /\ current' = current
    BY <1>8, <2>1 DEF Store, End
  <2>3. ~Spent(account.token)'
    <3>1. ~Spent(got[w])
      <4>1. read[w].token \in Tokens
        BY KnownTokens
      <4>2. got[w] # read[w].token
        BY <2>1, <4>1, RotatedDiffers DEF TokensKnown
      <4>3. QED
        BY <2>1, <4>2 DEF TokensKnown, Holds, AnswerIsLatest
    <3>2. CASE Storable(w)
      <4>1. account'.token = got[w]
        BY <1>1, <1>8, <3>2 DEF Store, TypeOK, Rows
      <4>2. QED
        BY <2>2, <3>1, <4>1 DEF Spent
    <3>3. CASE ~Storable(w)
      <4>1. account' = account /\ account.token # read[w].token
        BY <1>1, <1>8, <3>3 DEF Store, Discarded
      <4>2. ~Spent(account.token)
        BY <2>1, <4>1, OneHolder DEF Lossless, LeaseExcludes
      <4>3. QED
        BY <2>2, <4>1, <4>2 DEF Spent
    <3>4. QED
      BY <3>2, <3>3
  <2>4. QED
    BY <2>1, <2>2, <2>3, LosslessLeft
<1>9. ASSUME NEW w \in Attempts, Recover(w) \/ Disable(w) \/ RefreshByHand(w)
      PROVE  Lossless'
  BY <1>1, <1>9 DEF Recover, Disable, RefreshByHand, Lossless, PresentsFresh
<1>10. ASSUME NEW w \in Attempts, Authorize(w)
       PROVE  Lossless'
  BY <1>10, LosslessAuthorized
<1>11. ASSUME NEW w \in Attempts, ReadRow(w) \/ FindProject(w) \/ ClearError(w)
       PROVE  Lossless'
  <2>1. /\ at[w] \in {"idle", "update", "clear"}
        /\ Go(w, "write") \/ Go(w, "fill") \/ Go(w, "idle")
        /\ UNCHANGED <<current, key, lock, leased>>
    BY <1>11 DEF ReadRow, FindProject, ClearError, KeepLocks, KeepKnowledge
  <2>2. account'.token = account.token
    BY <1>11 DEF ReadRow, FindProject, ClearError, TypeOK, Rows
  <2>3. \A v \in Attempts \ {w} : read'[v] = read[v]
    BY <1>11 DEF ReadRow, FindProject, ClearError, KeepKnowledge, TypeOK
  <2>4. QED
    BY <2>1, <2>2, <2>3, GoEffect, LosslessKept
<1>12. ASSUME NEW w \in Attempts, WriteRow(w) \/ FillProject(w)
       PROVE  Lossless'
  <2>1. /\ at[w] \in {"write", "fill"}
        /\ Go(w, "idle") \/ Go(w, "clear")
        /\ Forget(w) /\ KeepLocks /\ current' = current
    BY <1>12 DEF WriteRow, FillProject
  <2>2. \/ account'.token = account.token
        \/ account'.token = got[w] /\ clash' = (clash \/ RollsBack(w))
    BY <1>12, WriteRowEffect, FillProjectEffect
  <2>3. QED
    BY <2>1, <2>2, LosslessWritten
<1>13. ASSUME NEW k \in BOOLEAN, ComeToEnd \/ LeaseEnds(k) \/ UNCHANGED vars
       PROVE  Lossless'
  <2>1. UNCHANGED <<current, at, key, read, leased>>
    BY <1>13 DEF ComeToEnd, LeaseEnds, KeepKnowledge, KeepLocks, vars
  <2>2. account'.token = account.token
    BY <1>13 DEF ComeToEnd, LeaseEnds, vars, TypeOK, Rows
  <2>3. \A v \in leased : key[v] \in lock => key[v] \in lock'
    BY <1>1, <1>13 DEF ComeToEnd, LeaseEnds, KeepLocks, vars
  <2>4. QED
    BY <2>1, <2>2, <2>3, LosslessKept
<1>14. ASSUME NEW p \in Processes, Crash(p)
       PROVE  Lossless'
  BY <1>1, <1>14 DEF Crash
<1>15. QED
  BY <1>4, <1>5, <1>6, <1>7, <1>8, <1>9, <1>10, <1>11, <1>12, <1>13, <1>14 DEF Next, Step

-----------------------------------------------------------------------------
(* Type correctness *)

(* The types of the locks and counters *)
LocksTyped ==
    /\ at \in [Attempts -> Locations]
    /\ mutex \subseteq Processes \X BOOLEAN
    /\ lock \subseteq BOOLEAN
    /\ leased \subseteq Inside
    /\ faults \in 0..MaxTrouble
    /\ writes \in 0..MaxTrouble
    /\ expiries \in 0..MaxExpiries
    /\ grok \in BOOLEAN

(* The types of what the attempts know *)
KnowledgeTyped ==
    /\ key \in [Attempts -> BOOLEAN]
    /\ read \in [Attempts -> Rows]
    /\ got \in [Attempts -> Tokens]

(* The types of the account and of what the provider knows *)
AccountTyped ==
    /\ account \in Rows
    /\ current \in Seq(Nat)
    /\ Len(current) \in 1..MaxGrants
    /\ clash \in BOOLEAN
    /\ Issued(account.token)

(* The type invariant in these parts *)
LEMMA TypeParts == TypeOK <=> LocksTyped /\ KnowledgeTyped /\ AccountTyped
BY DEF TypeOK, LocksTyped, KnowledgeTyped, AccountTyped, Issued

(* What becomes of the locks when an attempt ends *)
LEMMA UnlockEffect ==
    ASSUME TypeOK, NEW w \in Attempts, NEW l \in Locations, Go(w, l),
           Unlock(w) \/ (w \in Manual /\ KeepLocks)
    PROVE  /\ at' \in [Attempts -> Locations]
           /\ mutex' \subseteq Processes \X BOOLEAN
           /\ lock' \subseteq BOOLEAN
           /\ leased' \subseteq Inside'
<1>1. /\ at' \in [Attempts -> Locations]
      /\ \A v \in Attempts \ {w} : at'[v] = at[v]
  BY GoEffect
<1>2. /\ w \notin leased'
      /\ leased' \subseteq leased
      /\ mutex' \subseteq mutex
      /\ lock' \subseteq lock
  BY Kinds DEF Unlock, KeepLocks, TypeOK, Inside
<1>3. leased' \subseteq Inside'
  BY <1>1, <1>2 DEF TypeOK, Inside, Attempts
<1>4. QED
  BY <1>1, <1>2, <1>3 DEF TypeOK

(* A move past the local lock *)
LEMMA GoTyped ==
    ASSUME TypeOK, NEW w \in Attempts, NEW l \in Locations, Go(w, l),
           w \in leased => l \in LockedPlaces
    PROVE  at' \in [Attempts -> Locations] /\ leased \subseteq Inside'
<1>1. /\ at' \in [Attempts -> Locations]
      /\ at'[w] = l
      /\ \A v \in Attempts \ {w} : at'[v] = at[v]
  BY GoEffect
<1>2. leased \subseteq Inside
  BY DEF TypeOK
<1>3. QED
  BY <1>1, <1>2 DEF Inside, LockedPlaces, Attempts

(* Every step keeps the types of the locks and counters. *)
LEMMA LocksTypeStep == TypeOK /\ LocksHeld /\ [Next]_vars => LocksTyped'
<1> SUFFICES ASSUME TypeOK, LocksHeld, [Next]_vars
             PROVE  LocksTyped'
  OBVIOUS
<1> USE DEF Locations, LockedPlaces
<1>1. ASSUME NEW w \in Attempts, Start(w) \/ LockLocal(w) \/ GiveUp(w)
      PROVE  LocksTyped'
  <2>1. /\ at[w] \in {"idle", "local"}
        /\ Go(w, "local") \/ Go(w, "lock") \/ Go(w, "idle")
        /\ UNCHANGED <<grok, lock, leased, faults, writes, expiries>>
    BY <1>1 DEF Start, LockLocal, GiveUp, KeepLocks, KeepWorld
  <2>2. w \notin leased
    BY <2>1 DEF TypeOK, Inside
  <2>3. at' \in [Attempts -> Locations] /\ leased' \subseteq Inside'
    BY <2>1, <2>2, GoTyped
  <2>4. mutex' \subseteq Processes \X BOOLEAN
    BY <1>1, ProcessAssumption
    DEF Start, LockLocal, GiveUp, Abandoned, KeepLocks, LocalLock, TypeOK
  <2>5. QED
    BY <2>1, <2>3, <2>4 DEF LocksTyped, TypeOK
<1>2. ASSUME NEW w \in Attempts, AcquireLock(w)
      PROVE  LocksTyped'
  <2>1. w \in Locking /\ UNCHANGED <<grok, writes, expiries>>
    BY <1>2, Kinds DEF AcquireLock, KeepWorld, LocksHeld
  <2>2. UNCHANGED faults \/ Fault
    BY <1>2 DEF AcquireLock
  <2>3. CASE Go(w, "idle") /\ Unlock(w)
    BY <2>1, <2>2, <2>3, UnlockEffect, FaultEffect DEF LocksTyped, TypeOK
  <2>4. CASE /\ Go(w, "read") /\ UNCHANGED mutex
             /\ leased' \in {leased, leased \cup {w}} /\ lock' \in {lock, lock \cup {key[w]}}
    <3>1. at' \in [Attempts -> Locations] /\ leased \subseteq Inside' /\ at'[w] = "read"
      BY <2>4, GoTyped, GoEffect
    <3>2. leased' \subseteq Inside'
      BY <2>1, <2>4, <3>1 DEF Inside
    <3>3. lock' \subseteq BOOLEAN
      <4>1. lock \subseteq BOOLEAN /\ key[w] \in BOOLEAN
        BY DEF TypeOK
      <4>2. QED
        BY <2>4, <4>1
    <3>4. faults' \in 0..MaxTrouble
      BY <2>2, FaultEffect DEF TypeOK
    <3>5. QED
      BY <2>1, <2>4, <3>1, <3>2, <3>3, <3>4 DEF LocksTyped, TypeOK
  <2>5. QED
    BY <1>2, <2>3, <2>4 DEF AcquireLock
<1>3. ASSUME NEW w \in Attempts, Reread(w) \/ Call(w) \/ Store(w) \/ Recover(w)
      PROVE  LocksTyped'
  <2>1. /\ at[w] \in {"read", "call", "store", "recover"}
        /\ UNCHANGED <<grok, writes, expiries>>
        /\ UNCHANGED faults \/ Fault
    BY <1>3 DEF Reread, Call, Store, Recover, KeepWorld
  <2>2. \/ /\ \/ Go(w, "call") \/ Go(w, "store") \/ Go(w, "recover")
              \/ w \in Manual /\ Go(w, "update")
           /\ KeepLocks
        \/ /\ Go(w, "idle") \/ Go(w, "fail")
           /\ Unlock(w) \/ (w \in Manual /\ KeepLocks)
    BY <1>3 DEF Reread, Call, Store, Recover, End
  <2>3. /\ at' \in [Attempts -> Locations]
        /\ mutex' \subseteq Processes \X BOOLEAN
        /\ lock' \subseteq BOOLEAN
        /\ leased' \subseteq Inside'
    <3>1. CASE /\ Go(w, "idle") \/ Go(w, "fail")
               /\ Unlock(w) \/ (w \in Manual /\ KeepLocks)
      BY <3>1, UnlockEffect
    <3>2. CASE /\ \/ Go(w, "call") \/ Go(w, "store") \/ Go(w, "recover")
                  \/ w \in Manual /\ Go(w, "update")
               /\ KeepLocks
      <4>1. w \in Manual => w \notin leased
        BY Kinds DEF TypeOK, Inside
      <4>2. at' \in [Attempts -> Locations] /\ leased \subseteq Inside'
        BY <3>2, <4>1, GoTyped
      <4>3. QED
        BY <3>2, <4>2 DEF KeepLocks, TypeOK
    <3>3. QED
      BY <2>2, <3>1, <3>2
  <2>4. QED
    BY <2>1, <2>3, FaultEffect DEF LocksTyped, TypeOK
<1>4. ASSUME NEW w \in Attempts,
             \/ Disable(w) \/ RefreshByHand(w) \/ Authorize(w) \/ ReadRow(w)
             \/ WriteRow(w) \/ ClearError(w) \/ FindProject(w) \/ FillProject(w)
      PROVE  LocksTyped'
  <2>1. /\ at[w] \in {"fail", "idle", "update", "write", "clear", "fill"}
        /\ KeepLocks /\ UNCHANGED <<grok, expiries>>
    BY <1>4 DEF Disable, RefreshByHand, Authorize, ReadRow, WriteRow, ClearError, FindProject,
                FillProject, KeepWorld
  <2>2. \/ Go(w, "idle") \/ Go(w, "call") \/ Go(w, "update") \/ Go(w, "write")
        \/ Go(w, "clear") \/ Go(w, "fill")
    BY <1>4 DEF Disable, RefreshByHand, Authorize, ReadRow, WriteRow, ClearError, FindProject,
                FillProject
  <2>3. (UNCHANGED faults \/ Fault) /\ (UNCHANGED writes \/ Unlocked)
    BY <1>4 DEF Disable, RefreshByHand, Authorize, ReadRow, WriteRow, ClearError, FindProject,
                FillProject, KeepWorld
  <2>4. w \notin leased
    BY <2>1 DEF TypeOK, Inside
  <2>5. at' \in [Attempts -> Locations] /\ leased' \subseteq Inside'
    BY <2>1, <2>2, <2>4, GoTyped DEF KeepLocks
  <2>6. QED
    BY <2>1, <2>3, <2>5, FaultEffect DEF KeepLocks, LocksTyped, TypeOK
<1>5. ASSUME NEW k \in BOOLEAN, ComeToEnd \/ LeaseEnds(k) \/ UNCHANGED vars
      PROVE  LocksTyped'
  <2>1. UNCHANGED <<grok, at, mutex, leased, writes>> /\ lock' \subseteq lock
    BY <1>5 DEF ComeToEnd, LeaseEnds, KeepLocks, KeepWorld, vars
  <2>2. faults' \in 0..MaxTrouble
    BY <1>5, FaultEffect DEF ComeToEnd, LeaseEnds, vars, TypeOK
  <2>3. expiries' \in 0..MaxExpiries
    BY <1>5, BoundsAssumption DEF ComeToEnd, LeaseEnds, KeepWorld, vars, TypeOK
  <2>4. QED
    BY <2>1, <2>2, <2>3 DEF LocksTyped, TypeOK, Inside
<1>6. ASSUME NEW p \in Processes, Crash(p)
      PROVE  LocksTyped'
  <2>1. leased' \subseteq Inside' /\ at' \in [Attempts -> Locations]
    BY <1>6 DEF Crash, TypeOK, Inside, Attempts
  <2>2. mutex' \subseteq mutex /\ faults' \in 0..MaxTrouble
    BY <1>6, FaultEffect DEF Crash
  <2>3. QED
    BY <1>6, <2>1, <2>2 DEF Crash, KeepWorld, LocksTyped, TypeOK
<1>7. QED
  BY <1>1, <1>2, <1>3, <1>4, <1>5, <1>6 DEF Next, Step

(* Every step keeps the types of what the attempts know. *)
LEMMA KnowledgeTypeStep == TypeOK /\ TokensKnown /\ [Next]_vars => KnowledgeTyped'
<1> SUFFICES ASSUME TypeOK, TokensKnown, [Next]_vars
             PROVE  KnowledgeTyped'
  OBVIOUS
<1>1. account \in Rows /\ account.token \in Tokens
  BY KnownTokens DEF TypeOK
<1>2. ASSUME NEW w \in Attempts, KeepKnowledge \/ Forget(w)
      PROVE  KnowledgeTyped'
  BY <1>2, ForgetEffect DEF KeepKnowledge, KnowledgeTyped, TypeOK
<1>3. ASSUME NEW w \in Attempts,
             \/ LockLocal(w) \/ GiveUp(w) \/ AcquireLock(w) \/ Store(w) \/ Recover(w)
             \/ Disable(w) \/ WriteRow(w) \/ ClearError(w) \/ FillProject(w)
      PROVE  KnowledgeTyped'
  BY <1>2, <1>3 DEF LockLocal, GiveUp, AcquireLock, Store, Recover, Disable, WriteRow,
                    ClearError, FillProject
<1>4. ASSUME NEW w \in Attempts, Start(w)
      PROVE  KnowledgeTyped'
  <2>1. CacheKey \in BOOLEAN
    BY DEF CacheKey
  <2>2. QED
    BY <1>4, <2>1 DEF Start, KnowledgeTyped, TypeOK
<1>5. ASSUME NEW w \in Attempts, Reread(w) \/ RefreshByHand(w)
      PROVE  KnowledgeTyped'
  BY <1>1, <1>2, <1>5 DEF Reread, RefreshByHand, KnowledgeTyped, TypeOK
<1>6. ASSUME NEW w \in Attempts, Call(w)
      PROVE  KnowledgeTyped'
  <2>1. CASE got' = [got EXCEPT ![w] = Rotated(read[w].token)] /\ UNCHANGED <<key, read>>
    <3>1. Rotated(read[w].token) \in Tokens
      BY KnownTokens DEF Rotated, Tokens
    <3>2. QED
      BY <2>1, <3>1 DEF KnowledgeTyped, TypeOK
  <2>2. QED
    BY <1>2, <1>6, <2>1 DEF Call
<1>7. ASSUME NEW w \in Attempts, Authorize(w)
      PROVE  KnowledgeTyped'
  <2>1. got'[w] \in Tokens /\ got'[w] = Token(Len(current) + 1, 0)
    BY <1>7, AuthorizeEffect
  <2>2. QED
    BY <1>1, <1>7, <2>1 DEF Authorize, KnowledgeTyped, TypeOK
<1>8. ASSUME NEW w \in Attempts, ReadRow(w) \/ FindProject(w)
      PROVE  KnowledgeTyped'
  <2>1. UNCHANGED key
    BY <1>8 DEF ReadRow, FindProject
  <2>2. CASE /\ read' = [read EXCEPT ![w] = account]
             /\ got' = [got EXCEPT ![w] = account.token]
    BY <1>1, <2>1, <2>2 DEF KnowledgeTyped, TypeOK
  <2>3. CASE read' = [read EXCEPT ![w].status = account.status] /\ UNCHANGED got
    <3>1. [read[w] EXCEPT !.status = account.status] \in Rows
      BY <1>1 DEF TypeOK, Rows
    <3>2. QED
      BY <2>1, <2>3, <3>1 DEF KnowledgeTyped, TypeOK
  <2>4. QED
    BY <1>8, <2>2, <2>3 DEF ReadRow, FindProject
<1>9. ASSUME NEW k \in BOOLEAN, ComeToEnd \/ LeaseEnds(k) \/ UNCHANGED vars
      PROVE  KnowledgeTyped'
  BY <1>9 DEF ComeToEnd, LeaseEnds, KeepKnowledge, vars, KnowledgeTyped, TypeOK
<1>10. ASSUME NEW p \in Processes, Crash(p)
       PROVE  KnowledgeTyped'
  BY <1>10, FirstRowTyped DEF Crash, KnowledgeTyped, TypeOK
<1>11. QED
  BY <1>3, <1>4, <1>5, <1>6, <1>7, <1>8, <1>9, <1>10 DEF Next, Step

(* The steps that neither issue a token nor write one of the attempts' *)
LEMMA AccountKept ==
    ASSUME TypeOK, current' = current, account' \in Rows,
           account'.token \in Tokens, Issued(account'.token), clash' \in BOOLEAN
    PROVE  AccountTyped'
BY DEF AccountTyped, TypeOK, Issued

(* Every step keeps the types of the account and of the provider's tokens. *)
LEMMA AccountTypeStep == TypeOK /\ TokensKnown /\ [Next]_vars => AccountTyped'
<1> SUFFICES ASSUME TypeOK, TokensKnown, [Next]_vars
             PROVE  AccountTyped'
  OBVIOUS
<1>1. account \in Rows /\ account.token \in Tokens /\ Issued(account.token) /\ clash \in BOOLEAN
  BY KnownTokens DEF TypeOK
<1>2. ASSUME current' = current, account' = account, clash' \in BOOLEAN
      PROVE  AccountTyped'
  BY <1>1, <1>2, AccountKept
<1>3. ASSUME NEW w \in Attempts,
             \/ Start(w) \/ LockLocal(w) \/ GiveUp(w) \/ AcquireLock(w) \/ Reread(w)
             \/ Recover(w) \/ RefreshByHand(w) \/ ReadRow(w) \/ FindProject(w)
      PROVE  AccountTyped'
  <2>1. UNCHANGED <<current, account>>
    BY <1>3 DEF Start, LockLocal, GiveUp, AcquireLock, Reread, Recover, RefreshByHand, ReadRow,
                FindProject
  <2>2. clash' \in BOOLEAN
    BY <1>1, <1>3 DEF Start, LockLocal, GiveUp, AcquireLock, Reread, Recover, RefreshByHand,
                      ReadRow, FindProject
  <2>3. QED
    BY <1>2, <2>1, <2>2
<1>4. ASSUME NEW w \in Attempts, Call(w)
      PROVE  AccountTyped'
  <2>1. read[w].token \in Tokens /\ Issued(read[w].token) /\ UNCHANGED <<account, clash>>
    BY <1>4, KnownTokens DEF Call
  <2>2. CASE UNCHANGED current
    BY <1>1, <1>2, <2>1, <2>2
  <2>3. CASE ~Spent(read[w].token) /\ current' = [current EXCEPT ![read[w].token.grant] = @ + 1]
    <3>1. /\ current' \in Seq(Nat)
          /\ Len(current') = Len(current)
          /\ \A g \in 1..Len(current) : current'[g] >= current[g]
      BY <2>1, <2>3, RotateEffect
    <3>2. Issued(account.token)'
      <4>1. \A t \in Tokens : Issued(t) => t.grant <= Len(current') /\ t.n <= current'[t.grant]
        BY <3>1, IssuedStays DEF TypeOK, Issued
      <4>2. QED
        BY <1>1, <2>1, <4>1 DEF Issued
    <3>3. QED
      BY <1>1, <2>1, <3>1, <3>2 DEF AccountTyped, TypeOK
  <2>4. QED
    BY <1>4, <2>2, <2>3 DEF Call
<1>5. ASSUME NEW w \in Attempts, Store(w)
      PROVE  AccountTyped'
  <2>1. got[w] \in Tokens /\ Issued(got[w]) /\ read[w].filled \in BOOLEAN
    BY KnownTokens DEF TypeOK, Rows
  <2>2. account' \in Rows /\ account'.token \in {got[w], account.token}
    BY <1>1, <1>5, <2>1 DEF Store, Rows
  <2>3. current' = current /\ clash' \in BOOLEAN
    BY <1>1, <1>5 DEF Store
  <2>4. QED
    BY <1>1, <2>1, <2>2, <2>3, AccountKept
<1>6. ASSUME NEW w \in Attempts, Disable(w) \/ ClearError(w)
      PROVE  AccountTyped'
  <2>1. account' \in Rows /\ account'.token = account.token
    BY <1>1, <1>6 DEF Disable, ClearError, Rows
  <2>2. UNCHANGED <<current, clash>>
    BY <1>6 DEF Disable, ClearError
  <2>3. QED
    BY <1>1, <2>1, <2>2, AccountKept
<1>7. ASSUME NEW w \in Attempts, WriteRow(w) \/ FillProject(w)
      PROVE  AccountTyped'
  <2>1. got[w] \in Tokens /\ Issued(got[w])
    BY KnownTokens
  <2>2. \/ UNCHANGED <<account, clash>>
        \/ /\ account' \in Rows /\ account'.token = got[w]
           /\ clash' = (clash \/ RollsBack(w))
    BY <1>7, WriteRowEffect, FillProjectEffect
  <2>3. current' = current
    BY <1>7 DEF WriteRow, FillProject
  <2>4. QED
    BY <1>1, <2>1, <2>2, <2>3, AccountKept
<1>8. ASSUME NEW w \in Attempts, Authorize(w)
      PROVE  AccountTyped'
  <2>1. /\ current' \in Seq(Nat)
        /\ Len(current') \in 1..MaxGrants
        /\ \A t \in Tokens : Issued(t) => t.grant <= Len(current') /\ t.n <= current'[t.grant]
    <3>1. /\ current' \in Seq(Nat)
          /\ Len(current') \in 1..MaxGrants
          /\ Len(current') >= Len(current)
          /\ \A g \in 1..Len(current) : current'[g] >= current[g]
      <4>1. \A g \in 1..Len(current) : current[g] \in Nat
        BY ElementOfSeq DEF TypeOK
      <4>2. Len(current) \in Nat
        BY DEF TypeOK
      <4>3. QED
        BY <1>8, <4>1, <4>2, AuthorizeEffect
    <3>2. QED
      BY <3>1, IssuedStays DEF Issued
  <2>2. UNCHANGED <<account, clash>>
    BY <1>8 DEF Authorize
  <2>3. Issued(account.token)'
    BY <1>1, <2>1, <2>2 DEF Issued
  <2>4. QED
    BY <1>1, <2>1, <2>2, <2>3 DEF AccountTyped
<1>9. ASSUME NEW k \in BOOLEAN, ComeToEnd \/ LeaseEnds(k) \/ UNCHANGED vars
      PROVE  AccountTyped'
  <2>1. account' \in Rows /\ account'.token = account.token
    BY <1>1, <1>9 DEF ComeToEnd, LeaseEnds, vars, Rows
  <2>2. UNCHANGED <<current, clash>>
    BY <1>9 DEF ComeToEnd, LeaseEnds, vars
  <2>3. QED
    BY <1>1, <2>1, <2>2, AccountKept
<1>10. ASSUME NEW p \in Processes, Crash(p)
       PROVE  AccountTyped'
  BY <1>1, <1>2, <1>10 DEF Crash
<1>11. QED
  BY <1>3, <1>4, <1>5, <1>6, <1>7, <1>8, <1>9, <1>10 DEF Next, Step

(* Every step keeps the types. *)
LEMMA TypeStep == IInv /\ [Next]_vars => TypeOK'
<1>1. TypeOK' <=> LocksTyped' /\ KnowledgeTyped' /\ AccountTyped'
  BY DEF TypeOK, LocksTyped, KnowledgeTyped, AccountTyped, Issued
<1>2. QED
  BY <1>1, LocksTypeStep, KnowledgeTypeStep, AccountTypeStep DEF IInv, RefreshInvariant

-----------------------------------------------------------------------------
(* The theorems *)

(* The invariant holds at the start. *)
LEMMA InvariantInit == Init => IInv
<1> SUFFICES ASSUME Init
             PROVE  IInv
  OBVIOUS
<1> USE BoundsAssumption DEF Init
<1>1. Token(1, 0) \in Tokens /\ ~Spent(Token(1, 0)) /\ Issued(Token(1, 0))
  BY DEF Token, Tokens, Spent, Issued
<1>2. Inside = {}
  BY DEF Inside, Attempts
<1>3. AccountTyped
  <2>1. PICK filled \in BOOLEAN : account = [FirstRow EXCEPT !.filled = filled]
    OBVIOUS
  <2>2. account \in Rows /\ account.token = Token(1, 0)
    BY <2>1, FirstRowTyped DEF Rows
  <2>3. current \in Seq(Nat) /\ Len(current) \in 1..MaxGrants
    OBVIOUS
  <2>4. QED
    BY <1>1, <2>2, <2>3 DEF AccountTyped
<1>4. TypeOK
  <2>1. LocksTyped
    BY DEF LocksTyped, Locations
  <2>2. KnowledgeTyped
    BY FirstRowTyped DEF KnowledgeTyped
  <2>3. QED
    BY <1>3, <2>1, <2>2, TypeParts
<1>5. LocksHeld
  BY <1>2 DEF LocksHeld, LocalExclusion, Attempts
<1>6. TokensKnown
  BY <1>1, FirstRowTyped DEF TokensKnown, Holds
<1>7. account.token = Token(1, 0)
  BY FirstRowTyped DEF Rows
<1>8. LeaseExcludes /\ PresentsFreshTokens
  BY <1>1, <1>7 DEF LeaseExcludes, PresentsFreshTokens, Attempts
<1>9. QED
  BY <1>4, <1>5, <1>6, <1>8 DEF IInv, RefreshInvariant

(* No step takes a fault or a clash back. *)
LEMMA TroubleStays ==
    ASSUME TypeOK, [Next]_vars
    PROVE  (UNCHANGED faults \/ Fault) /\ (clash => clash')
<1>1. ASSUME NEW w \in Attempts, Start(w) \/ LockLocal(w) \/ GiveUp(w)
      PROVE  (UNCHANGED faults \/ Fault) /\ (clash => clash')
  BY <1>1 DEF Start, LockLocal, GiveUp
<1>2. ASSUME NEW w \in Attempts,
             AcquireLock(w) \/ Reread(w) \/ Call(w) \/ Store(w) \/ Recover(w) \/ Disable(w)
      PROVE  (UNCHANGED faults \/ Fault) /\ (clash => clash')
  <2>1. UNCHANGED faults \/ Fault
    BY <1>2 DEF AcquireLock, Reread, Call, Store, Recover, Disable
  <2>2. CASE AcquireLock(w)
    <3>1. UNCHANGED clash \/ clash' = (clash \/ SecondKey(w))
      BY <2>2 DEF AcquireLock
    <3>2. clash => clash'
      BY <3>1
    <3>3. QED
      BY <2>1, <3>2
  <2>3. CASE Store(w)
    <3>1. UNCHANGED clash \/ clash' = (clash \/ Discarded(w))
      BY <2>3 DEF Store
    <3>2. clash => clash'
      BY <3>1
    <3>3. QED
      BY <2>1, <3>2
  <2>4. CASE Reread(w) \/ Call(w) \/ Recover(w) \/ Disable(w)
    BY <2>1, <2>4 DEF Reread, Call, Recover, Disable
  <2>5. QED
    BY <1>2, <2>2, <2>3, <2>4
<1>3. ASSUME NEW w \in Attempts,
             \/ RefreshByHand(w) \/ Authorize(w) \/ ReadRow(w) \/ WriteRow(w) \/ ClearError(w)
             \/ FindProject(w) \/ FillProject(w)
      PROVE  (UNCHANGED faults \/ Fault) /\ (clash => clash')
  <2>1. UNCHANGED faults \/ Fault
    BY <1>3 DEF RefreshByHand, Authorize, ReadRow, WriteRow, ClearError, FindProject,
                FillProject
  <2>2. CASE WriteRow(w) \/ FillProject(w)
    <3>1. UNCHANGED clash \/ clash' = (clash \/ RollsBack(w))
      BY <2>2 DEF WriteRow, FillProject
    <3>2. clash => clash'
      BY <3>1
    <3>3. QED
      BY <2>1, <3>2
  <2>3. CASE RefreshByHand(w) \/ Authorize(w) \/ ReadRow(w) \/ ClearError(w) \/ FindProject(w)
    BY <2>1, <2>3 DEF RefreshByHand, Authorize, ReadRow, ClearError, FindProject
  <2>4. QED
    BY <1>3, <2>2, <2>3
<1>4. ASSUME NEW k \in BOOLEAN, ComeToEnd \/ LeaseEnds(k) \/ UNCHANGED vars
      PROVE  (UNCHANGED faults \/ Fault) /\ (clash => clash')
  BY <1>4 DEF ComeToEnd, LeaseEnds, vars
<1>5. ASSUME NEW p \in Processes, Crash(p)
      PROVE  (UNCHANGED faults \/ Fault) /\ (clash => clash')
  BY <1>5 DEF Crash
<1>6. QED
  BY <1>1, <1>2, <1>3, <1>4, <1>5 DEF Next, Step

(* The invariant is inductive. *)
LEMMA InvariantStep == IInv /\ [Next]_vars => IInv'
<1> SUFFICES ASSUME IInv, [Next]_vars
             PROVE  IInv'
  OBVIOUS
<1>1. TypeOK /\ LocksHeld /\ TokensKnown
  BY DEF IInv, RefreshInvariant
<1>2. TypeOK' /\ LocksHeld' /\ TokensKnown'
  BY <1>1, TypeStep, LocksStep, TokensStep
<1>3. ASSUME faults' = 0, ~clash'
      PROVE  LeaseExcludes' /\ PresentsFresh'
  <2>1. faults = 0 /\ ~clash
    BY <1>1, <1>3, TroubleStays, FaultEffect
  <2>2. Lossless
    BY <2>1 DEF IInv, RefreshInvariant, PresentsFreshTokens, Lossless, PresentsFresh
  <2>3. Lossless'
    BY <1>1, <1>3, <2>2, LosslessStep
  <2>4. QED
    BY <2>3 DEF Lossless
<1>4. PresentsFreshTokens'
  BY <1>3 DEF PresentsFresh, PresentsFreshTokens
<1>5. QED
  BY <1>2, <1>3, <1>4 DEF IInv, RefreshInvariant

(* So it holds always. *)
LEMMA Invariance == Spec => []IInv
BY InvariantInit, InvariantStep, PTL DEF Spec

(* Every variable keeps its type, and the stored token is one the provider *)
(* has issued.                                                             *)
THEOREM TypeCorrect == Spec => []TypeOK
<1>1. IInv => TypeOK
  BY DEF IInv
<1>2. QED
  BY <1>1, Invariance, PTL

(* The inductive invariant: the local locks are held, the answers on their *)
(* way are known to one attempt each, whoever writes beside them, and the  *)
(* lease excludes until a fault or a clash with an unlocked writer.        *)
THEOREM RefreshIsSound == Spec => []RefreshInvariant
<1>1. IInv => RefreshInvariant
  BY DEF IInv
<1>2. QED
  BY <1>1, Invariance, PTL

(* However many attempts a process runs, whatever becomes of Redis: one of   *)
(* them at most is past the local lock of OAuthRefreshAPI under the same key. *)
THEOREM OneAttemptPerProcess == Spec => []LocalExclusion
<1>1. IInv => LocalExclusion
  BY DEF IInv, RefreshInvariant, LocksHeld
<1>2. QED
  BY <1>1, Invariance, PTL

(* Without faults, and as long as no administrator or backfill writes back a *)
(* document older than the stored one and the lock keeps one name, no        *)
(* refresh token is presented twice, in any number of processes.             *)
THEOREM FreshTokensPresented == Spec => []PresentsFreshTokens
<1>1. IInv => PresentsFreshTokens
  BY DEF IInv, RefreshInvariant
<1>2. QED
  BY <1>1, Invariance, PTL

(* The steps that change the stored token: the answer of a refresh, or a row *)
(* or document that is written.                                              *)
LEMMA TokenMoves ==
    ASSUME TypeOK, [Next]_vars
    PROVE  \/ account'.token = account.token
           \/ \E w \in Attempts :
                 /\ account'.token = got[w]
                 /\ at'[w] # at[w]
                 /\ \/ at[w] = "store" /\ Storable(w)
                    \/ at[w] \in {"write", "fill"}
<1>1. ASSUME NEW w \in Attempts,
             \/ Start(w) \/ LockLocal(w) \/ GiveUp(w) \/ AcquireLock(w) \/ Reread(w)
             \/ Call(w) \/ Recover(w) \/ RefreshByHand(w) \/ Authorize(w)
             \/ ReadRow(w) \/ FindProject(w)
      PROVE  account' = account
  BY <1>1 DEF Start, LockLocal, GiveUp, AcquireLock, Reread, Call, Recover, RefreshByHand,
              Authorize, ReadRow, FindProject
<1>2. ASSUME NEW w \in Attempts, Store(w), account' # account
      PROVE  /\ at[w] = "store" /\ at'[w] # at[w]
             /\ Storable(w)
             /\ account'.token = got[w]
  <2>1. at[w] = "store" /\ at'[w] # at[w]
    BY <1>2, EndEffect DEF Store, Locations
  <2>2. Storable(w) /\ account'.token = got[w]
    BY <1>2 DEF Store, TypeOK, Rows
  <2>3. QED
    BY <2>1, <2>2
<1>3. ASSUME NEW w \in Attempts, Disable(w) \/ ClearError(w)
      PROVE  account'.token = account.token
  BY <1>3 DEF Disable, ClearError, TypeOK, Rows
<1>4. ASSUME NEW w \in Attempts, WriteRow(w) \/ FillProject(w)
      PROVE  \/ account' = account
             \/ /\ account'.token = got[w] /\ at'[w] # at[w]
                /\ at[w] \in {"write", "fill"}
  <2>1. account' = account \/ account'.token = got[w]
    BY <1>4, WriteRowEffect, FillProjectEffect
  <2>2. at[w] \in {"write", "fill"} /\ at'[w] \in {"idle", "clear"}
    BY <1>4, GoEffect DEF WriteRow, FillProject, Locations
  <2>3. QED
    BY <2>1, <2>2
<1>5. ASSUME NEW k \in BOOLEAN, ComeToEnd \/ LeaseEnds(k) \/ UNCHANGED vars
      PROVE  account'.token = account.token
  BY <1>5 DEF ComeToEnd, LeaseEnds, vars, TypeOK, Rows
<1>6. ASSUME NEW p \in Processes, Crash(p)
      PROVE  account' = account
  BY <1>6 DEF Crash
<1>7. QED
  BY <1>1, <1>2, <1>3, <1>4, <1>5, <1>6 DEF Next, Step

(* A refresh, and the storing of a new authorization, never put an older     *)
(* token of an authorization in place of a later one: only a document that   *)
(* is written back as it was read does.  The compare-and-set of Grok's       *)
(* credentials never puts back the ones from before a new authorization.     *)
THEOREM NeverBack == Spec => CredentialsMoveForward
<1> DEFINE Forward ==
             /\ \/ account'.token.grant # account.token.grant
                \/ account'.token.n >= account.token.n
                \/ \E w \in Attempts : WritesBack(w) /\ at'[w] # at[w]
             /\ \/ ~grok
                \/ account'.token.grant >= account.token.grant
                \/ \E m \in Manual : at'[m] # at[m]
<1>1. ASSUME IInv, [Next]_vars
      PROVE  Forward
  <2> USE <1>1
  <2>1. TypeOK /\ TokensKnown /\ LocksHeld
    BY DEF IInv, RefreshInvariant
  <2>2. /\ account.token \in Tokens /\ Issued(account.token)
        /\ account.token.grant \in Int /\ account.token.n \in Int
    BY <2>1, KnownTokens DEF Tokens
  <2>3. CASE account'.token = account.token
    BY <2>2, <2>3
  <2>4. ASSUME NEW w \in Attempts, account'.token = got[w], at'[w] # at[w],
               at[w] = "store", Storable(w)
        PROVE  Forward
    <3>1. got[w] = Rotated(read[w].token) /\ read[w].token \in Tokens
      BY <2>1, <2>4, KnownTokens DEF TokensKnown
    <3>2. AnswerIsLatest(w)
      BY <2>1, <2>4, <3>1, RotatedDiffers DEF TokensKnown, Holds
    <3>3. got[w].grant = account.token.grant => got[w].n >= account.token.n
      BY <2>2, <3>2 DEF AnswerIsLatest, Spent, Issued
    <3>4. grok => got[w].grant = account.token.grant
      BY <2>4, <3>1, RotatedDiffers DEF Storable, SameCredentials
    <3>5. QED
      BY <2>2, <2>4, <3>3, <3>4
  <2>5. ASSUME NEW w \in Attempts, account'.token = got[w], at'[w] # at[w],
               at[w] \in {"write", "fill"}
        PROVE  Forward
    <3>1. \/ WritesBack(w)
          \/ got[w].grant = account.token.grant => got[w].n >= account.token.n
      <4>1. CASE got[w] = read[w].token
        BY <2>5, <4>1 DEF WritesBack
      <4>2. CASE got[w] # read[w].token
        <5>1. AnswerIsLatest(w)
          BY <2>1, <2>5, <4>2 DEF TokensKnown, Holds
        <5>2. QED
          BY <2>2, <5>1 DEF AnswerIsLatest, Spent, Issued
      <4>3. QED
        BY <4>1, <4>2
    <3>2. ~grok \/ w \in Manual
      BY <2>1, <2>5, Kinds DEF TokensKnown, LocksHeld
    <3>3. QED
      BY <2>5, <3>1, <3>2
  <2>6. QED
    BY <2>1, <2>3, <2>4, <2>5, TokenMoves
<1>2. IInv /\ [Next]_vars => [Forward]_vars
  BY <1>1
<1>3. QED
  BY <1>2, Invariance, PTL DEF Spec, CredentialsMoveForward

(* The service disables no account before a fault, a refresh by hand or a  *)
(* clash with an unlocked writer, and a Grok account only if the token it  *)
(* stores is spent.                                                        *)
THEOREM HealthyStaysActive == Spec => DisabledOnlyIfSpent
<1> DEFINE Justified ==
             account.status = "active" /\ account'.status = "error"
               => \/ \E m \in Manual : at'[m] # at[m]
                  \/ /\ faults > 0 \/ clash
                     /\ grok => Spent(account.token)
<1>1. ASSUME IInv, [Next]_vars
      PROVE  Justified
  <2> USE <1>1
  <2>1. TypeOK /\ TokensKnown /\ PresentsFreshTokens /\ LocksHeld
    BY DEF IInv, RefreshInvariant
  <2>2. ASSUME NEW w \in Attempts, Disable(w)
        PROVE  Justified
    <3>1. at[w] = "fail" /\ Spent(read[w].token)
      BY <2>1, <2>2 DEF Disable, TokensKnown
    <3>2. faults > 0 \/ clash
      BY <2>1, <3>1, BoundsAssumption DEF PresentsFreshTokens, TypeOK
    <3>3. account.status = "active" /\ account'.status = "error" => Condemned(w)
      BY <2>1, <2>2 DEF Disable, TypeOK, Rows
    <3>4. grok /\ Condemned(w) => Spent(account.token)
      BY <3>1 DEF Condemned, SameCredentials
    <3>5. QED
      BY <3>2, <3>3, <3>4
  <2>3. ASSUME NEW w \in Attempts, WriteRow(w)
        PROVE  Justified
    <3>1. at[w] = "write" /\ at'[w] \in {"idle", "clear"}
      BY <2>1, <2>3, GoEffect DEF WriteRow, Locations
    <3>2. w \in Manual
      BY <2>1, <3>1, Kinds DEF LocksHeld
    <3>3. QED
      BY <3>1, <3>2
  <2>4. ASSUME NEW w \in Attempts,
               \/ Start(w) \/ LockLocal(w) \/ GiveUp(w) \/ AcquireLock(w) \/ Reread(w)
               \/ Call(w) \/ Recover(w) \/ RefreshByHand(w) \/ Authorize(w)
               \/ ReadRow(w) \/ FindProject(w)
        PROVE  Justified
    BY <2>4 DEF Start, LockLocal, GiveUp, AcquireLock, Reread, Call, Recover, RefreshByHand,
                Authorize, ReadRow, FindProject
  <2>5. ASSUME NEW w \in Attempts, Store(w) \/ FillProject(w)
        PROVE  Justified
    <3>1. Store(w) => account'.status = account.status
      BY <2>1 DEF Store, TypeOK, Rows
    <3>2. FillProject(w) => account'.status = account.status
      BY <2>1, FillProjectEffect
    <3>3. QED
      BY <2>5, <3>1, <3>2
  <2>6. ASSUME NEW w \in Attempts, ClearError(w)
        PROVE  Justified
    BY <2>1, <2>6 DEF ClearError, TypeOK, Rows
  <2>7. ASSUME NEW k \in BOOLEAN, ComeToEnd \/ LeaseEnds(k) \/ UNCHANGED vars
        PROVE  Justified
    BY <2>1, <2>7 DEF ComeToEnd, LeaseEnds, vars, TypeOK, Rows
  <2>8. ASSUME NEW p \in Processes, Crash(p)
        PROVE  Justified
    BY <2>8 DEF Crash
  <2>9. QED
    BY <2>2, <2>3, <2>4, <2>5, <2>6, <2>7, <2>8 DEF Next, Step
<1>2. IInv /\ [Next]_vars => [Justified]_vars
  BY <1>1
<1>3. QED
  BY <1>2, Invariance, PTL DEF Spec, DisabledOnlyIfSpent

=============================================================================
