---------------------------- MODULE TokenRefresh ----------------------------
(***************************************************************************)
(* Refreshing the OAuth credentials of one upstream account.  Attempts of  *)
(* the background service and of the request path go through               *)
(* OAuthRefreshAPI.RefreshIfNeeded: a mutex in the process, a lock in      *)
(* Redis, a second reading of the account, the provider, the database.     *)
(*                                                                         *)
(* The same column has writers that take neither lock.  An administrator   *)
(* refreshes by hand, authorizes the account anew, or edits it: each reads *)
(* the row and later writes all of it.  A request that finds the project   *)
(* of a Gemini or Antigravity account missing asks upstream for it and     *)
(* writes the credentials it read before, with the project filled in.      *)
(*                                                                         *)
(* The provider rotates refresh tokens: each is good for one refresh, and  *)
(* answers invalid_grant afterwards.  Grok's credentials are stored by     *)
(* compare-and-set on the ones that were presented, those of the other     *)
(* platforms unconditionally.                                              *)
(***************************************************************************)
EXTENDS Integers, Sequences, FiniteSets

CONSTANTS
    Processes,
    Background,     \* attempts of TokenRefreshService
    Requested,      \* attempts on the path of a request
    Manual,         \* handlers of an administrator
    Backfills,      \* those requests that fill in a missing project
    ProcessOf,      \* the process an attempt runs in
    MaxTrouble,     \* bound: faults and the writers' rounds, together
    MaxExpiries,    \* bound: how often the access token comes to its end
    MaxGrants       \* bound: authorizations of the account

Locking == Background \cup Requested

Attempts == Locking \cup Manual

ASSUME ProcessAssumption == ProcessOf \in [Attempts -> Processes]
ASSUME KindsAssumption ==
    /\ Background \cap Requested = {}
    /\ Locking \cap Manual = {}
    /\ Backfills \subseteq Requested
ASSUME BoundsAssumption ==
    /\ MaxTrouble \in Nat
    /\ MaxExpiries \in Nat
    /\ MaxGrants \in Nat \ {0}

VARIABLES
    grok,           \* whether the account is one of Grok's
    account,        \* its row
    current,        \* for each authorization, how often its token was rotated
    at,             \* an attempt's place,
    key,            \* whether its lock is the one named after the project,
    read, got,      \* the row it has read and the token it is to write
    mutex,          \* the local locks taken: process and key
    lock,           \* the locks in Redis, which do not say who took them
    leased,         \* the attempts that will release theirs
    clash,          \* history: unlocked writers or two keys have met a refresh
    faults,
    expiries,
    writes

vars == <<grok, account, current, at, key, read, got, mutex, lock, leased, clash,
          faults, expiries, writes>>

(* The n-th refresh token of an authorization *)
Token(grant, n) == [grant |-> grant, n |-> n]

Tokens == [grant : 1..MaxGrants, n : Nat]

Spent(token) == token.n # current[token.grant]

(* What the columns hold that matters here.  Filled stands for the rest of *)
(* the credentials: the project that was missing at first, and any other   *)
(* key (or, for Grok's comparison, the proxy) an administrator changes.    *)
Rows == [token : Tokens, filled : BOOLEAN, expiring : BOOLEAN,
         status : {"active", "error"}]

FirstRow == [token |-> Token(1, 0), filled |-> FALSE, expiring |-> FALSE,
             status |-> "active"]

Locations == {"idle", "local", "lock", "read", "call", "store", "recover", "fail",
              "update", "write", "clear", "fill"}

(* The attempts between the local lock and its unlocking *)
Inside == {w \in Locking : at[w] \in {"lock", "read", "call", "store", "recover"}}

TypeOK ==
    /\ grok \in BOOLEAN
    /\ account \in Rows
    /\ current \in Seq(Nat)
    /\ Len(current) \in 1..MaxGrants
    /\ at \in [Attempts -> Locations]
    /\ key \in [Attempts -> BOOLEAN]
    /\ read \in [Attempts -> Rows]
    /\ got \in [Attempts -> Tokens]
    /\ mutex \subseteq Processes \X BOOLEAN
    /\ lock \subseteq BOOLEAN
    /\ leased \subseteq Inside
    /\ clash \in BOOLEAN
    /\ faults \in 0..MaxTrouble
    /\ expiries \in 0..MaxExpiries
    /\ writes \in 0..MaxTrouble
    \* the stored token was issued by the provider
    /\ account.token.grant <= Len(current)
    /\ account.token.n <= current[account.token.grant]

Init ==
    /\ grok \in BOOLEAN
    /\ \E filled \in BOOLEAN : account = [FirstRow EXCEPT !.filled = filled]
    /\ current = <<0>>
    /\ at = [w \in Attempts |-> "idle"]
    /\ key = [w \in Attempts |-> FALSE]
    /\ read = [w \in Attempts |-> FirstRow]
    /\ got = [w \in Attempts |-> Token(1, 0)]
    /\ mutex = {}
    /\ lock = {}
    /\ leased = {}
    /\ clash = FALSE
    /\ faults = 0
    /\ expiries = 0
    /\ writes = 0

Trouble == faults + writes < MaxTrouble

(* A lost call, lease or process, or a refresh by hand *)
Fault == Trouble /\ faults' = faults + 1

(* A round of one of the other writers without a lock *)
Unlocked == Trouble /\ writes' = writes + 1

Go(w, where) == at' = [at EXCEPT ![w] = where]

(* What an attempt knows is forgotten when it ends *)
Forget(w) ==
    /\ key' = [key EXCEPT ![w] = FALSE]
    /\ read' = [read EXCEPT ![w] = FirstRow]
    /\ got' = [got EXCEPT ![w] = Token(1, 0)]

KeepKnowledge == UNCHANGED <<key, read, got>>

KeepLocks == UNCHANGED <<mutex, lock, leased>>

KeepWorld == UNCHANGED <<grok, expiries, writes>>

-----------------------------------------------------------------------------
(* RefreshIfNeeded up to the call of the provider *)

(* Gemini's lock is named after the project once that is known, which gives  *)
(* an account two keys around a backfill; the others' key never changes, as  *)
(* Gemini's does not while nobody fills in the project.                      *)
CacheKey == ~grok /\ account.filled

(* A candidate of the background cycle, or a request whose token is near its *)
(* end                                                                       *)
Start(w) ==
    /\ w \in Locking
    /\ at[w] = "idle"
    /\ account.status = "active"
    /\ account.expiring
    /\ Go(w, "local")
    /\ key' = [key EXCEPT ![w] = CacheKey]
    /\ KeepLocks /\ KeepWorld
    /\ UNCHANGED <<account, current, read, got, clash, faults>>

LocalLock(w) == <<ProcessOf[w], key[w]>>

LockLocal(w) ==
    /\ at[w] = "local"
    /\ LocalLock(w) \notin mutex
    /\ mutex' = mutex \cup {LocalLock(w)}
    /\ Go(w, "lock")
    /\ KeepKnowledge /\ KeepWorld
    /\ UNCHANGED <<account, current, lock, leased, clash, faults>>

(* mutant: the early return unlocks *)
Abandoned_Unlocks(w) == mutex \ {LocalLock(w)}

(* The context ends while the attempt waits: it returns without the lock *)
Abandoned(w) == mutex

GiveUp(w) ==
    /\ at[w] = "local"
    /\ mutex' = Abandoned(w)
    /\ Go(w, "idle")
    /\ Forget(w)
    /\ KeepWorld
    /\ UNCHANGED <<account, current, lock, leased, clash, faults>>

(* mutant: an attempt that finds the lock taken leaves the local one taken *)
Unlock_LeaseOnly(w) ==
    /\ leased' = leased \ {w}
    /\ lock' = IF w \in leased THEN lock \ {key[w]} ELSE lock
    /\ mutex' = IF w \in leased THEN mutex \ {LocalLock(w)} ELSE mutex

(* The deferred unlocking: the lock in Redis is deleted, whoever took it since *)
Unlock(w) ==
    /\ mutex' = mutex \ {LocalLock(w)}
    /\ leased' = leased \ {w}
    /\ lock' = IF w \in leased THEN lock \ {key[w]} ELSE lock

(* mutant: the answer of SETNX is not looked at *)
LockFree_Always(w) == w \in Attempts

(* SETNX; when it fails, with or without effect, the refresh goes on under *)
(* the local lock alone.                                                   *)
LockFree(w) == key[w] \notin lock

(* A lease beside one under the other key: the account has two locks *)
SecondKey(w) == \E v \in leased : key[v] # key[w]

AcquireLock(w) ==
    /\ at[w] = "lock"
    /\ \/ /\ LockFree(w)
          /\ lock' = lock \cup {key[w]}
          /\ leased' = leased \cup {w}
          /\ clash' = (clash \/ SecondKey(w))
          /\ Go(w, "read")
          /\ KeepKnowledge
          /\ UNCHANGED <<mutex, faults>>
       \/ /\ ~LockFree(w)
          /\ Go(w, "idle")
          /\ Unlock(w)
          /\ Forget(w)
          /\ UNCHANGED <<clash, faults>>
       \/ /\ Fault
          /\ Go(w, "read")
          /\ lock' \in {lock, lock \cup {key[w]}}
          /\ KeepKnowledge
          /\ UNCHANGED <<mutex, leased, clash>>
    /\ KeepWorld
    /\ UNCHANGED <<account, current>>

(* The second check: somebody else may have refreshed in the meantime *)
StillNeeded == account.status = "active" /\ account.expiring

Reread(w) ==
    /\ at[w] = "read"
    /\ \/ /\ StillNeeded
          /\ read' = [read EXCEPT ![w] = account]
          /\ Go(w, "call")
          /\ KeepLocks
          /\ UNCHANGED <<key, got, faults>>
       \/ /\ \/ ~StillNeeded /\ UNCHANGED faults
             \/ Fault
          /\ Go(w, "idle")
          /\ Unlock(w)
          /\ Forget(w)
    /\ KeepWorld
    /\ UNCHANGED <<account, current, clash>>

-----------------------------------------------------------------------------
(* The provider and what becomes of its answer *)

(* mutant: the answer holds a token that is not the provider's *)
Rotated_Twice(token) == [token EXCEPT !.n = @ + 2]

Rotated(token) == [token EXCEPT !.n = @ + 1]

(* An attempt ends: it forgets, and unlocks unless it is a manual one *)
End(w, where) ==
    /\ Go(w, where)
    /\ IF w \in Manual THEN KeepLocks ELSE Unlock(w)

(* The provider, outside this model, rotates a token it still knows.  The *)
(* answer, or the attempt's time, may be lost: a late answer is dropped.  *)
Call(w) ==
    /\ at[w] = "call"
    /\ \/ /\ ~Spent(read[w].token)
          /\ current' = [current EXCEPT ![read[w].token.grant] = @ + 1]
          /\ \/ /\ got' = [got EXCEPT ![w] = Rotated(read[w].token)]
                /\ Go(w, IF w \in Manual THEN "update" ELSE "store")
                /\ KeepLocks
                /\ UNCHANGED <<key, read, faults>>
             \/ /\ Fault
                /\ End(w, "idle")
                /\ Forget(w)
       \/ /\ Spent(read[w].token)
          /\ Go(w, "recover")
          /\ KeepLocks /\ KeepKnowledge
          /\ UNCHANGED <<current, faults>>
       \/ /\ Fault
          /\ End(w, "idle")
          /\ Forget(w)
          /\ UNCHANGED current
    /\ KeepWorld
    /\ UNCHANGED <<account, clash>>

(* mutant: Grok's credentials are stored without comparing *)
Storable_Always(w) == w \in Attempts

SameCredentials(w) ==
    account.token = read[w].token /\ account.filled = read[w].filled

(* UpdateGrokOAuthCredentialsIfUnchanged, or UpdateCredentials *)
Storable(w) == grok => SameCredentials(w)

(* The answer is dropped although the token is still the one it succeeds:   *)
(* an edit of another key made Grok's comparison fail.                      *)
Discarded(w) == ~Storable(w) /\ account.token = read[w].token

(* The stored document is the answer upon the one read before, so that a *)
(* project filled in since is taken away again.                          *)
Store(w) ==
    /\ at[w] = "store"
    /\ \/ /\ account' = IF Storable(w)
                        THEN [account EXCEPT !.token = got[w],
                                             !.filled = read[w].filled,
                                             !.expiring = FALSE]
                        ELSE account
          /\ clash' = (clash \/ Discarded(w))
          /\ UNCHANGED faults
       \/ Fault /\ UNCHANGED <<account, clash>>
    /\ End(w, "idle")
    /\ Forget(w)
    /\ KeepWorld
    /\ UNCHANGED current

(* tryRecoverFromRefreshRace: invalid_grant is a lost race when the stored *)
(* token is no longer the one that was presented.  A failed reading counts *)
(* as none lost, and so do the other words some providers have for it, as  *)
(* OpenAI's refresh_token_reused.  Only the background service acts on it. *)
Recover(w) ==
    /\ at[w] = "recover"
    /\ \/ /\ w \in Background
          /\ \/ (account.token = read[w].token \/ ~grok) /\ UNCHANGED faults
             \/ Fault
          /\ End(w, "fail") /\ KeepKnowledge
       \/ /\ w \notin Background \/ account.token # read[w].token
          /\ End(w, "idle") /\ Forget(w)
          /\ UNCHANGED faults
    /\ KeepWorld
    /\ UNCHANGED <<account, current, clash>>

(* mutant: Grok's accounts are disabled without comparing *)
Condemned_Always(w) == w \in Attempts

(* The background service disables the account after the locks are gone: *)
(* Grok's if it still holds the presented credentials, the others' anyway. *)
Condemned(w) == grok => account.status = "active" /\ SameCredentials(w)

Disable(w) ==
    /\ at[w] = "fail"
    /\ \/ /\ account' = [account EXCEPT !.status = IF Condemned(w) THEN "error" ELSE @]
          /\ UNCHANGED faults
       \/ Fault /\ UNCHANGED account
    /\ Go(w, "idle")
    /\ Forget(w)
    /\ KeepLocks /\ KeepWorld
    /\ UNCHANGED <<current, clash>>

-----------------------------------------------------------------------------
(* The writers that take no lock *)

(* An administrator refreshes the account, at any time, with the row as it is *)
RefreshByHand(w) ==
    /\ w \in Manual
    /\ at[w] = "idle"
    /\ Fault
    /\ Go(w, "call")
    /\ read' = [read EXCEPT ![w] = account]
    /\ KeepLocks /\ KeepWorld
    /\ UNCHANGED <<account, current, key, got, clash>>

(* ApplyOAuthCredentials: the provider has issued a new authorization, which *)
(* is merged with the credentials of the row.                                *)
Authorize(w) ==
    /\ w \in Manual
    /\ at[w] = "idle"
    /\ Len(current) < MaxGrants
    /\ Unlocked
    /\ current' = Append(current, 0)
    /\ read' = [read EXCEPT ![w] = account]
    /\ got' = [got EXCEPT ![w] = Token(Len(current) + 1, 0)]
    /\ Go(w, "update")
    /\ KeepLocks
    /\ UNCHANGED <<grok, account, key, clash, faults, expiries>>

(* UpdateAccount reads the row a handler is about to replace; an edit is *)
(* this reading and the writing alone.                                   *)
ReadRow(w) ==
    /\ w \in Manual
    /\ \/ /\ at[w] = "update"
          /\ read' = [read EXCEPT ![w].status = account.status]
          /\ UNCHANGED <<got, writes>>
       \/ /\ at[w] = "idle"
          /\ Unlocked
          /\ read' = [read EXCEPT ![w] = account]
          /\ got' = [got EXCEPT ![w] = account.token]
    /\ Go(w, "write")
    /\ KeepLocks
    /\ UNCHANGED <<grok, account, current, key, clash, faults, expiries>>

(* The document that was read is written back: an edit, or a backfill *)
WritesBack(w) == at[w] \in {"write", "fill"} /\ got[w] = read[w].token

(* A token is in place of which an older document is written back *)
RollsBack(w) == WritesBack(w) /\ account.token # got[w]

(* Whether the access token that is written is near its end: a new one is *)
(* not, the stored one stays as it is, an older one may have come to it.  *)
EndIsNear(w) ==
    IF got[w] # read[w].token THEN {FALSE}
    ELSE IF account.token = got[w] THEN {account.expiring}
    ELSE {read[w].expiring, TRUE}

(* updateLockedAccount writes every column without comparing: the status of *)
(* the form, or the one that was read.  An authorization's error is cleared *)
(* by a call of its own.                                                    *)
WriteRow(w) ==
    /\ at[w] = "write"
    /\ \/ /\ \E filled \in IF WritesBack(w) THEN {read[w].filled, TRUE} ELSE {read[w].filled},
                 expiring \in EndIsNear(w),
                 status \in IF WritesBack(w) THEN {"active", "error"} ELSE {read[w].status} :
                account' = [token |-> got[w], filled |-> filled, expiring |-> expiring,
                            status |-> status]
          /\ clash' = (clash \/ RollsBack(w))
          /\ Go(w, IF got[w].grant # read[w].token.grant THEN "clear" ELSE "idle")
          /\ UNCHANGED faults
       \/ /\ Fault
          /\ Go(w, "idle")
          /\ UNCHANGED <<account, clash>>
    /\ Forget(w)
    /\ KeepLocks /\ KeepWorld
    /\ UNCHANGED current

ClearError(w) ==
    /\ at[w] = "clear"
    /\ Go(w, "idle")
    /\ \/ /\ account' = [account EXCEPT !.status = "active"]
          /\ UNCHANGED faults
       \/ Fault /\ UNCHANGED account
    /\ KeepLocks /\ KeepKnowledge /\ KeepWorld
    /\ UNCHANGED <<current, clash>>

(* A request of an account without a project asks upstream for it... *)
FindProject(w) ==
    /\ w \in Backfills
    /\ at[w] = "idle"
    /\ ~grok
    /\ ~account.filled
    /\ account.status = "active"
    /\ Unlocked
    /\ Go(w, "fill")
    /\ read' = [read EXCEPT ![w] = account]
    /\ got' = [got EXCEPT ![w] = account.token]
    /\ KeepLocks
    /\ UNCHANGED <<grok, account, current, key, clash, faults, expiries>>

(* ...and writes its credentials with the project, unless there is none *)
FillProject(w) ==
    /\ at[w] = "fill"
    /\ \/ /\ \E expiring \in EndIsNear(w) :
                account' = [account EXCEPT !.token = got[w], !.filled = TRUE,
                                           !.expiring = expiring]
          /\ clash' = (clash \/ RollsBack(w))
       \/ UNCHANGED <<account, clash>>
    /\ Go(w, "idle")
    /\ Forget(w)
    /\ KeepLocks /\ KeepWorld
    /\ UNCHANGED <<current, faults>>

-----------------------------------------------------------------------------
(* Around the attempts *)

(* The access token comes within the refresh window of its end *)
ComeToEnd ==
    /\ ~account.expiring
    /\ expiries < MaxExpiries
    /\ expiries' = expiries + 1
    /\ account' = [account EXCEPT !.expiring = TRUE]
    /\ KeepLocks /\ KeepKnowledge
    /\ UNCHANGED <<grok, current, at, clash, faults, writes>>

(* The lease ends in Redis; under a holder that is alive this is a fault, as *)
(* attempts are shorter than it.                                             *)
LeaseEnds(k) ==
    /\ k \in lock
    /\ IF \E w \in leased : key[w] = k THEN Fault ELSE UNCHANGED faults
    /\ lock' = lock \ {k}
    /\ KeepKnowledge /\ KeepWorld
    /\ UNCHANGED <<account, current, at, mutex, leased, clash>>

(* A process dies: its attempts and its local locks with it *)
Crash(p) ==
    LET dead == {w \in Attempts : ProcessOf[w] = p}
    IN  /\ \E w \in dead : at[w] # "idle"
        /\ Fault
        /\ at' = [w \in Attempts |-> IF w \in dead THEN "idle" ELSE at[w]]
        /\ key' = [w \in Attempts |-> w \notin dead /\ key[w]]
        /\ read' = [w \in Attempts |-> IF w \in dead THEN FirstRow ELSE read[w]]
        /\ got' = [w \in Attempts |-> IF w \in dead THEN Token(1, 0) ELSE got[w]]
        /\ mutex' = {m \in mutex : m[1] # p}
        /\ leased' = leased \ dead
        /\ KeepWorld
        /\ UNCHANGED <<account, current, lock, clash>>

Step(w) ==
    \/ AcquireLock(w) \/ Reread(w) \/ Call(w) \/ Store(w)
    \/ Recover(w) \/ Disable(w)
    \/ at[w] = "update" /\ ReadRow(w)
    \/ WriteRow(w) \/ ClearError(w) \/ FillProject(w)

Next ==
    \/ \E w \in Attempts :
          \/ Start(w) \/ LockLocal(w) \/ GiveUp(w) \/ Step(w)
          \/ RefreshByHand(w) \/ Authorize(w) \/ FindProject(w)
          \/ at[w] = "idle" /\ ReadRow(w)
    \/ ComeToEnd
    \/ \E k \in BOOLEAN : LeaseEnds(k)
    \/ \E p \in Processes : Crash(p)

Spec == Init /\ [][Next]_vars

(* The background cycle comes round, attempts run on, the local lock is a *)
(* channel that serves its waiters in turn, and a lease ends.             *)
Fairness ==
    /\ \A w \in Background : WF_vars(Start(w)) /\ SF_vars(LockLocal(w))
    /\ \A w \in Attempts : WF_vars(Step(w))
    /\ \A k \in BOOLEAN : WF_vars(LeaseEnds(k))

FairSpec == Spec /\ Fairness

-----------------------------------------------------------------------------
(* Two attempts of one process under the same key are never both past the  *)
(* local lock, with Redis or without it.                                   *)
LocalExclusion ==
    \A v, w \in Inside : LocalLock(v) = LocalLock(w) => v = w

(* As long as nothing is lost, nobody refreshes by hand, no document that   *)
(* was read earlier is written over a newer one, the account's lock has one *)
(* name among those who hold it and no edit makes Grok's comparison fail,   *)
(* no attempt presents a refresh token that was used before: the locks and  *)
(* the second reading see to it, beside edits, backfills and new            *)
(* authorizations.                                                          *)
PresentsFreshTokens ==
    faults = 0 /\ ~clash => \A w \in Attempts :
        /\ at[w] \notin {"recover", "fail"}
        /\ at[w] = "call" => ~Spent(read[w].token)

(* The three parts of why the properties above hold, and hold after every   *)
(* step.  Whoever is past the local lock has it, and alone; the handlers of *)
(* administrators come nowhere near it, and nobody else into their places.  *)
LocksHeld ==
    /\ \A w \in Inside : LocalLock(w) \in mutex
    /\ LocalExclusion
    /\ \A m \in Manual : at[m] \in {"idle", "call", "recover", "update", "write", "clear"}
    /\ \A w \in Locking : at[w] \notin {"update", "write", "clear"}

Issued(token) ==
    /\ token.grant <= Len(current)
    /\ token.n <= current[token.grant]

(* An attempt has a token of the provider's that is on its way to the database *)
Holds(w) == at[w] \in {"store", "update", "write"} /\ got[w] # read[w].token

(* That is the latest token of its authorization, not the one the account *)
(* began with, and known to nobody else.                                   *)
AnswerIsLatest(w) ==
    /\ ~Spent(got[w])
    /\ got[w] # Token(1, 0)
    /\ account.token # got[w]
    /\ \A v \in Attempts :
          /\ read[v].token # got[w]
          /\ Holds(v) /\ v # w => got[v] # got[w]

TokensKnown ==
    \A w \in Attempts :
        /\ Issued(read[w].token)
        /\ Issued(got[w])
        /\ at[w] \in {"recover", "fail"} => Spent(read[w].token)
        /\ at[w] = "store" => got[w] = Rotated(read[w].token)
        /\ at[w] = "fill" => got[w] = read[w].token /\ ~grok
        /\ Holds(w) => AnswerIsLatest(w)

(* As long as nothing is lost and the unlocked writers keep out of the way, *)
(* the lease stands for the one attempt past it, and the stored token is    *)
(* good unless that attempt holds its successor.                            *)
LeaseExcludes ==
    /\ \A m \in Manual : at[m] \notin {"call", "recover"}
    /\ \A w \in Attempts : at[w] \in {"read", "call", "store"} => w \in leased
    /\ \A v, w \in leased : v = w
    /\ \A w \in leased : key[w] \in lock
    /\ Spent(account.token) =>
          \E w \in Attempts : at[w] = "store" /\ account.token = read[w].token

(* RefreshIfNeeded under its two locks: the local mutex always excludes, no *)
(* answer of the provider is ever mistaken for another one, and the lease   *)
(* excludes until something is lost or an unlocked writer interferes.       *)
RefreshInvariant ==
    /\ LocksHeld
    /\ TokensKnown
    /\ faults = 0 /\ ~clash => LeaseExcludes
    /\ PresentsFreshTokens

(* Whatever is lost and whoever writes beside it, a refresh never puts an    *)
(* older token of an authorization in place of a later one, and a refresh of *)
(* Grok's never undoes a new authorization: of all the writers only a        *)
(* document that is written back as it was read goes backward, and on Grok's *)
(* accounts only an administrator.                                           *)
CredentialsMoveForward ==
    [][/\ \/ account'.token.grant # account.token.grant
          \/ account'.token.n >= account.token.n
          \/ \E w \in Attempts : WritesBack(w) /\ at'[w] # at[w]
       /\ \/ ~grok
          \/ account'.token.grant >= account.token.grant
          \/ \E m \in Manual : at'[m] # at[m]]_vars

(* The service disables a Grok account only while the token it stores is     *)
(* spent, and any account only after a fault, a refresh by hand or a meeting *)
(* with an unlocked writer; what an administrator writes is left aside.      *)
DisabledOnlyIfSpent ==
    [][account.status = "active" /\ account'.status = "error"
         => \/ \E m \in Manual : at'[m] # at[m]
            \/ /\ faults > 0 \/ clash
               /\ grok => Spent(account.token)]_vars

(* The stored token is spent and no attempt holds its successor *)
Lost == Spent(account.token) /\ \A w \in Attempts : ~Holds(w)

(* A token that comes to its end is replaced, whatever crashes, lost leases *)
(* and edits there are, unless its successor was lost on the way or the     *)
(* account is disabled.                                                     *)
ExpiringIsReplaced ==
    account.expiring ~> ~account.expiring \/ Lost \/ account.status = "error"

=============================================================================
