----------------------------- MODULE BuyerAccess -----------------------------
(***************************************************************************)
(* What stands in front of the buyer API.                                   *)
(*                                                                          *)
(* The two in-memory limiters: the login guard (accounts.go), a map of       *)
(* failed attempts with progressive lockouts and a hard cap on its size,    *)
(* and the token buckets of ratelimit.go, with the sweeper that reaps both. *)
(* Time is a clock of whole ticks; the request reads the clock once, so a   *)
(* slow password check records its failure with the time it started at.     *)
(*                                                                          *)
(* Buyer authentication (accounts.go, api_key_cache.go and the key and      *)
(* session queries of store.go): API keys looked up through a cache that    *)
(* each control-plane process keeps for apiKeyCacheTTL, sessions, and the   *)
(* account tombstone that ends both.  One buyer, one key and one session;   *)
(* several processes.  A cold lookup is two steps, the query and the put,   *)
(* because another request may revoke the key in between; a revocation is   *)
(* two steps, the commit and the invalidation of this process's cache.      *)
(* Concurrent cold misses of one process are one lookup (singleflight).     *)
(***************************************************************************)
EXTENDS Naturals, FiniteSets, Sequences

CONSTANTS Logins,        \* login identifiers
          Clients,       \* keys of the rate limiter
          GuardCap,      \* loginGuardCap
          MaxFails,      \* maxLoginFails
          Lockout,       \* loginLockout, in ticks
          LockoutMax,    \* loginLockoutMax
          Burst, Rate,   \* of the bucket
          MaxChecks,     \* bound on the password checks under way for a login
          AlHorizon      \* bound on the clock

VARIABLES alNow,
          alGuard,       \* the map: login -> attempt, for the logins in it
          alPending,     \* login -> start times of the password checks under way
          alLocked,      \* the lock last promised to a login not evicted since
          alBucket,      \* the map: client -> [tokens, last]
          alAdmitted     \* client -> times of the admitted requests
alVars == <<alNow, alGuard, alPending, alLocked, alBucket, alAdmitted>>

ALInit ==
  /\ alNow = 0
  /\ alGuard = [e \in {} |-> 0]
  /\ alPending = [e \in Logins |-> {}]
  /\ alLocked = [e \in Logins |-> 0]
  /\ alBucket = [c \in {} |-> 0]
  /\ alAdmitted = [c \in Clients |-> <<>>]

GuardWithout(f, S) == [x \in DOMAIN f \ S |-> f[x]]
With(f, x, v) == [y \in DOMAIN f \cup {x} |-> IF y = x THEN v ELSE f[y]]
LimitMin(a, b) == IF a < b THEN a ELSE b

AlTick ==
  /\ alNow < AlHorizon
  /\ alNow' = alNow + 1
  /\ UNCHANGED <<alGuard, alPending, alLocked, alBucket, alAdmitted>>

(***************************************************************************)
(* The login guard.                                                         *)
(***************************************************************************)

LockedAt(e, now) == e \in DOMAIN alGuard /\ now < alGuard[e].until

\* handleLogin: allow refuses a locked login and touches its entry ...
LoginRefused(e) ==
  /\ LockedAt(e, alNow)
  /\ alGuard' = [alGuard EXCEPT ![e].touched = alNow]
  /\ UNCHANGED <<alNow, alPending, alLocked, alBucket, alAdmitted>>

\* ... and otherwise the password check starts.
LoginStarts(e) ==
  /\ ~ LockedAt(e, alNow)
  /\ Cardinality(alPending[e]) < MaxChecks
  /\ alPending' = [alPending EXCEPT ![e] = @ \cup {alNow}]
  /\ UNCHANGED <<alNow, alGuard, alLocked, alBucket, alAdmitted>>

\* evictToLocked: expired entries first, in map order, then the oldest touched
\* (the first of them in map order).
Evictions(now, target) ==
  LET keys    == DOMAIN alGuard
      expired == {e \in keys : now >= alGuard[e].until}
      surplus == IF Cardinality(keys) > target THEN Cardinality(keys) - target ELSE 0
      first   == LimitMin(surplus, Cardinality(expired))
  IN  {S \in SUBSET keys :
         /\ Cardinality(S) = surplus
         /\ Cardinality(S \cap expired) = first
         /\ \A e \in S \ expired, f \in (keys \ S) \ expired :
              alGuard[e].touched <= alGuard[f].touched}

\* loginLockout << (fails - maxLoginFails), capped.
Penalty(fails) == LimitMin(Lockout * 2 ^ (fails - MaxFails), LockoutMax)

\* fail: the wrong password, with the clock the request started at.
LoginFails(e, now) ==
  LET old  == IF e \in DOMAIN alGuard THEN alGuard[e] ELSE [fails |-> 0, until |-> 0, touched |-> 0]
      n    == old.fails + 1
      row  == [fails |-> n, touched |-> now,
               until |-> IF n >= MaxFails THEN now + Penalty(n) ELSE old.until]
  IN  /\ now \in alPending[e]
      /\ \E gone \in IF e \in DOMAIN alGuard THEN {{}} ELSE Evictions(now, GuardCap - 1) :
           /\ alGuard' = With(GuardWithout(alGuard, gone), e, row)
           /\ alLocked' = [x \in Logins |-> IF x = e THEN row.until
                                            ELSE IF x \in gone THEN 0 ELSE alLocked[x]]
      /\ alPending' = [alPending EXCEPT ![e] = @ \ {now}]
      /\ UNCHANGED <<alNow, alBucket, alAdmitted>>

\* success: the right password clears the entry.
LoginSucceeds(e, now) ==
  /\ now \in alPending[e]
  /\ alGuard' = GuardWithout(alGuard, {e})
  /\ alLocked' = [alLocked EXCEPT ![e] = 0]
  /\ alPending' = [alPending EXCEPT ![e] = @ \ {now}]
  /\ UNCHANGED <<alNow, alBucket, alAdmitted>>

\* The check itself failed (500): neither counted nor cleared.
LoginErrs(e, now) ==
  /\ now \in alPending[e]
  /\ alPending' = [alPending EXCEPT ![e] = @ \ {now}]
  /\ UNCHANGED <<alNow, alGuard, alLocked, alBucket, alAdmitted>>

(***************************************************************************)
(* The token buckets.                                                       *)
(***************************************************************************)

Refilled(b) == LimitMin(b.tokens + (alNow - b.last) * Rate, Burst)

\* rateLimiter.allow: a client without a bucket starts with a full one.
Allow(c) ==
  LET have == IF c \in DOMAIN alBucket THEN Refilled(alBucket[c]) ELSE Burst
  IN  /\ Len(alAdmitted[c]) < Burst + Rate * AlHorizon + 1
      /\ alBucket' = With(alBucket, c, [tokens |-> IF have >= 1 THEN have - 1 ELSE have,
                                        last |-> alNow])
      /\ alAdmitted' = [alAdmitted EXCEPT ![c] = IF have >= 1 THEN Append(@, alNow) ELSE @]
      /\ UNCHANGED <<alNow, alGuard, alPending, alLocked>>

\* rateLimiter.sweep drops the buckets idle long enough to be full again.
Reapable(c) == (alNow - alBucket[c].last) * Rate >= Burst

\* loginGuard.sweep drops entries unlocked and idle for the longest lockout.
Forgettable(e) == ~ LockedAt(e, alNow) /\ alNow - alGuard[e].touched >= LockoutMax

\* startRateLimitSweeper.
ReapBuckets ==
  /\ alBucket' = GuardWithout(alBucket, {c \in DOMAIN alBucket : Reapable(c)})
  /\ alGuard' = GuardWithout(alGuard, {e \in DOMAIN alGuard : Forgettable(e)})
  /\ UNCHANGED <<alNow, alPending, alLocked, alAdmitted>>

GuardNext ==
  \/ AlTick \/ ReapBuckets
  \/ \E e \in Logins : LoginRefused(e) \/ LoginStarts(e)
  \/ \E e \in Logins : \E now \in alPending[e] : 
       LoginFails(e, now) \/ LoginSucceeds(e, now) \/ LoginErrs(e, now)

BucketNext == AlTick \/ ReapBuckets \/ \E c \in Clients : Allow(c)

\* The two limiters share the clock and the sweeper and nothing else.
ALNext == GuardNext \/ BucketNext

ALSpec == ALInit /\ [][ALNext]_alVars

\* The guard's map never outgrows its cap, however many logins are locked at
\* once (evictToLocked before every insert).
GuardIsBounded == Cardinality(DOMAIN alGuard) <= GuardCap

\* A lock once promised is kept: until it lapses the login is locked, unless the
\* cap evicted it or a login that was already under way succeeded.  The sweeper
\* never releases it.
LockoutIsKept == \A e \in Logins : alNow < alLocked[e] => LockedAt(e, alNow)

\* Between any two admitted requests of a client the limiter admitted no more
\* than a burst and the refill of that time, with buckets reaped in between.
RateIsBounded ==
  \A c \in Clients : \A i, j \in 1..Len(alAdmitted[c]) :
    i <= j => j - i + 1 <= Burst + Rate * (alAdmitted[c][j] - alAdmitted[c][i])

-----------------------------------------------------------------------------
(* API keys and sessions.                                                   *)

CONSTANTS Procs,     \* control-plane processes
          MaxReads   \* bound on the queries of a behaviour

VARIABLES bkKey,      \* api_keys: "none", "live", "revoked" or "deleted"
          bkSession,  \* sessions: "none", "live", "revoked" or "deleted"
          bkBuyer,    \* buyers.deleted_at: "active" or "deleted"
          bkCache,    \* process -> "none", "held" or "late" (put by a late lookup)
          bkLookup,   \* process -> "idle", "live" (read, not yet put), or "late":
                      \* read, and the process invalidated the key since
          bkRevoke,   \* process -> "idle", "committed" or "done": revocation
          bkTomb,     \* the tombstone: "none", "committed" or "done"
          bkReads     \* queries so far
bkVars == <<bkKey, bkSession, bkBuyer, bkCache, bkLookup, bkRevoke, bkTomb, bkReads>>

BKInit ==
  /\ bkKey = "none" /\ bkSession = "none" /\ bkBuyer = "active"
  /\ bkCache = [p \in Procs |-> "none"]
  /\ bkLookup = [p \in Procs |-> "idle"]
  /\ bkRevoke = [p \in Procs |-> "idle"]
  /\ bkTomb = "none"
  /\ bkReads = 0

\* Mutant: the lookup does not ask whether the buyer's account is closed.
KeyAccepted_NoJoin == bkKey = "live"
\* The lookup's WHERE clause.
KeyAccepted == bkKey = "live" /\ bkBuyer = "active"

\* CreateAPIKey: INSERT ... SELECT from buyers that are not deleted.
CreateAPIKey ==
  /\ bkKey = "none" /\ bkBuyer = "active"
  /\ bkKey' = "live"
  /\ UNCHANGED <<bkSession, bkBuyer, bkCache, bkLookup, bkRevoke, bkTomb, bkReads>>

\* LookupAPIKey, the hit: nothing changes, the request is authenticated.
Hit(p) == bkCache[p] # "none"

\* LookupAPIKey, the query of a cold miss; a refusal is never cached.
LookupReads(p) ==
  /\ ~Hit(p) /\ bkLookup[p] = "idle"
  /\ bkReads < MaxReads
  /\ bkReads' = bkReads + 1
  /\ bkLookup' = [bkLookup EXCEPT ![p] = IF KeyAccepted THEN "live" ELSE "idle"]
  /\ UNCHANGED <<bkKey, bkSession, bkBuyer, bkCache, bkRevoke, bkTomb>>

\* LookupAPIKey, the put, and the request is authenticated.  Nothing compares
\* the put with invalidations since the query.
LookupPuts(p) ==
  /\ bkLookup[p] # "idle"
  /\ bkCache' = [bkCache EXCEPT ![p] = IF bkLookup[p] = "late" THEN "late" ELSE "held"]
  /\ bkLookup' = [bkLookup EXCEPT ![p] = "idle"]
  /\ UNCHANGED <<bkKey, bkSession, bkBuyer, bkRevoke, bkTomb, bkReads>>

\* apiKeyCacheTTL passes, or put drops an arbitrary entry of a full cache.
EntryExpires(p) ==
  /\ bkCache[p] # "none"
  /\ bkCache' = [bkCache EXCEPT ![p] = "none"]
  /\ UNCHANGED <<bkKey, bkSession, bkBuyer, bkLookup, bkRevoke, bkTomb, bkReads>>

\* RevokeAPIKey: the UPDATE, then invalidateID, then the answer.
RevokeAPIKey(p) ==
  /\ bkKey = "live" /\ bkRevoke[p] = "idle"
  /\ bkKey' = "revoked"
  /\ bkRevoke' = [bkRevoke EXCEPT ![p] = "committed"]
  /\ UNCHANGED <<bkSession, bkBuyer, bkCache, bkLookup, bkTomb, bkReads>>

\* invalidateID, invalidateBuyer: the entry goes, a lookup under way does not.
Invalidated(p) ==
  /\ bkCache' = [bkCache EXCEPT ![p] = "none"]
  /\ bkLookup' = [bkLookup EXCEPT ![p] = IF @ = "live" THEN "late" ELSE @]

RevokeReturns(p) ==
  /\ bkRevoke[p] = "committed"
  /\ Invalidated(p)
  /\ bkRevoke' = [bkRevoke EXCEPT ![p] = "done"]
  /\ UNCHANGED <<bkKey, bkSession, bkBuyer, bkTomb, bkReads>>

\* CreateSession, and RevokeSession at logout.
CreateSession ==
  /\ bkSession = "none" /\ bkBuyer = "active"
  /\ bkSession' = "live"
  /\ UNCHANGED <<bkKey, bkBuyer, bkCache, bkLookup, bkRevoke, bkTomb, bkReads>>

RevokeSession ==
  /\ bkSession = "live"
  /\ bkSession' = "revoked"
  /\ UNCHANGED <<bkKey, bkBuyer, bkCache, bkLookup, bkRevoke, bkTomb, bkReads>>

\* LookupSession joins the buyer: a session that escaped the tombstone's
\* DELETE is refused as well.
\* Mutant: the join is dropped.
SessionAccepted_NoJoin == bkSession = "live"
SessionAccepted == bkSession = "live" /\ bkBuyer = "active"

\* TombstoneBuyer: the transaction deletes sessions and keys and marks the
\* buyer.  A session or key inserted after its DELETE and before its commit
\* survives as a row (missed).
TombstoneBuyer(missed) ==
  /\ bkTomb = "none"
  /\ bkTomb' = "committed" /\ bkBuyer' = "deleted"
  /\ bkSession' = IF bkSession = "none" \/ (missed /\ bkSession = "live")
                  THEN bkSession ELSE "deleted"
  /\ bkKey' = IF bkKey = "none" \/ (missed /\ bkKey = "live") THEN bkKey ELSE "deleted"
  /\ UNCHANGED <<bkCache, bkLookup, bkRevoke, bkReads>>

\* ... then invalidateBuyer on the process p that served it.
TombstoneReturns(p) ==
  /\ bkTomb = "committed"
  /\ bkTomb' = "done"
  /\ Invalidated(p)
  /\ bkRevoke' = [bkRevoke EXCEPT ![p] = "done"]
  /\ UNCHANGED <<bkKey, bkSession, bkBuyer, bkReads>>

BKNext ==
  \/ CreateAPIKey \/ CreateSession \/ RevokeSession
  \/ \E missed \in BOOLEAN : TombstoneBuyer(missed)
  \/ \E p \in Procs : \/ LookupReads(p) \/ LookupPuts(p) \/ EntryExpires(p)
                      \/ RevokeAPIKey(p) \/ RevokeReturns(p) \/ TombstoneReturns(p)

BKSpec == BKInit /\ [][BKNext]_bkVars

\* Once RevokeAPIKey or TombstoneBuyer has answered, its process authenticates
\* with the key only through an entry put by a lookup that was under way when the
\* entry was invalidated: it had read the key before, and put it back after.
\* Every other entry is gone, and no later lookup of the process finds the key.
RevokedInThisProcess ==
  \A p \in Procs : bkRevoke[p] = "done" => bkCache[p] \in {"none", "late"}

\* A closed account has no session, even one inserted between the tombstone's
\* DELETE and its commit (LookupSession's join, CreateSession's SELECT).
ClosedAccountRefused == bkBuyer = "deleted" => ~ SessionAccepted

\* What was refused stays refused, in every interleaving of logins, lookups, sweeps,
\* revocations and tombstones, within the bounds of the maps.
AccessHolds ==
    /\ GuardIsBounded /\ LockoutIsKept /\ RateIsBounded /\ RevokedInThisProcess
    /\ ClosedAccountRefused
=============================================================================
