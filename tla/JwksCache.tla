------------------------------ MODULE JwksCache ------------------------------
(***************************************************************************)
(* JwksCache of app/auth/jwks.py: authenticated requests look up the key   *)
(* of their token by its kid, and refresh the cache from the identity      *)
(* provider when it is empty, has expired, or lacks the kid.  /readyz      *)
(* (app/api/health.py) is ready when the cache holds keys.                 *)
(*                                                                         *)
(* The provider is outside: it may offer and withdraw keys at any time,    *)
(* and a fetch may fail.                                                   *)
(***************************************************************************)
EXTENDS Integers, Sequences

CONSTANTS Lookups,         \* coroutines of authenticated requests
          Kids,
          KeysTTL, Cooldown, \* cache_ttl_sec, refresh_cooldown_sec
          MaxFetch,      \* bound: the longest fetch, in ticks
          Gated,         \* requests come only to a ready instance
          MaxTime,       \* bound: of the clock
          MaxRotations   \* bound: changes at the provider

ASSUME JwksAssumption ==
  /\ Kids # {}
  /\ KeysTTL \in Nat /\ Cooldown \in Nat /\ MaxFetch \in Nat
  /\ Gated \in BOOLEAN /\ MaxTime \in Nat /\ MaxRotations \in Nat

VARIABLES now,          \* time.monotonic()
          keys,         \* _keys
          fetchedAt,    \* _fetched_at
          lastAttempt,  \* _last_refresh_attempt
          lock,         \* _lock: its holder and the queue behind it
          body,         \* the keys in the answer to the running fetch
          stage,           \* per task: where its coroutine is suspended
          get,          \* per task: kid and now of get, and what we note
          offered,      \* kids the provider offers
          changedAt,    \* per kid: when it was last offered or withdrawn
          rotations,
          faulted       \* some fetch has failed, or brought no keys

cacheVars == <<keys, fetchedAt, lastAttempt>>
providerVars == <<offered, changedAt, rotations>>
jwksVars == <<now, cacheVars, lock, body, stage, get, providerVars, faulted>>

Idle == [kid |-> CHOOSE k \in Kids : TRUE, since |-> 0, expired |-> FALSE,
         fetches |-> 0, quiet |-> FALSE]

JwksInit ==
  /\ now = 0
  /\ keys = {} /\ fetchedAt = 0 /\ lastAttempt = 0
  /\ lock = <<>> /\ body = {}
  /\ stage = [t \in Lookups |-> "idle"]
  /\ get = [t \in Lookups |-> Idle]
  /\ offered \in (SUBSET Kids) \ {{}}
  /\ changedAt = [k \in Kids |-> 0]
  /\ rotations = 0
  /\ faulted = FALSE

\* What /readyz reports of the cache.
Ready == keys # {}

------------------------------------------------------------------------------
(* get and _refresh *)

ExpiredNever == keys = {}
Expired == keys = {} \/ now - fetchedAt > KeysTTL

\* get compares with the clock of its first line, not with the time.
MayRetryByClock(since, attempt) == now - attempt > Cooldown
MayRetryByTTL(since, attempt) == since - attempt > KeysTTL
MayRetry(since, attempt) == since - attempt > Cooldown

Move(t, next) == stage' = [stage EXCEPT ![t] = next]

\* async with self._lock, entered by its new holder: the attempt is stamped
\* and the fetch goes out.
Begin(t) ==
  /\ lastAttempt' = now
  /\ Move(t, "fetching")

Enter(t, g) ==
  /\ lock' = Append(lock, t)
  /\ get' = [get EXCEPT ![t] = g]
  /\ IF lock = <<>> THEN Begin(t)
       ELSE Move(t, "waiting") /\ UNCHANGED lastAttempt

\* The rest of get after the look at the TTL, with the keys ks.
Verdict(k, ks) == IF k \in ks THEN "found" ELSE "missing"

Get(t, k) ==
  /\ stage[t] = "idle"
  /\ Gated => Ready
  /\ LET g == [kid |-> k, since |-> now, expired |-> Expired,
               fetches |-> 0, quiet |-> lock = <<>>]
     IN  IF Expired \/ (k \notin keys /\ MayRetry(now, lastAttempt))
           THEN Enter(t, g)
           ELSE /\ Move(t, Verdict(k, keys))
                /\ get' = [get EXCEPT ![t] = g]
                /\ UNCHANGED <<lock, lastAttempt>>
  /\ UNCHANGED <<now, keys, fetchedAt, body, providerVars, faulted>>

Wake(t) ==
  /\ stage[t] = "waiting" /\ lock # <<>> /\ Head(lock) = t
  /\ Begin(t)
  /\ UNCHANGED <<now, keys, fetchedAt, lock, body, get, providerVars, faulted>>

\* The fetch of t is over and the cache holds ks: a get that came for the TTL
\* looks for its kid, and may find that it should refresh once more.
Again(t, ks) ==
  /\ get[t].expired /\ get[t].fetches = 0
  /\ get[t].kid \notin ks
  /\ MayRetry(get[t].since, lastAttempt)
Continue(t, ks) ==
  /\ get' = [get EXCEPT ![t].fetches = @ + 1]
  /\ IF Again(t, ks)
       THEN /\ lock' = Append(Tail(lock), t)
            /\ IF Tail(lock) = <<>> THEN Begin(t)
                 ELSE Move(t, "waiting") /\ UNCHANGED lastAttempt
       ELSE /\ lock' = Tail(lock)
            /\ Move(t, Verdict(get[t].kid, ks))
            /\ UNCHANGED lastAttempt
  /\ body' = {}
  /\ UNCHANGED <<now, providerVars>>

\* An answer is installed, unless it has no keys.
Install(t) ==
  /\ stage[t] = "answered"
  /\ IF body = {} THEN UNCHANGED <<keys, fetchedAt>>
                  ELSE keys' = body /\ fetchedAt' = now
  /\ faulted' = (faulted \/ body = {})
  /\ Continue(t, keys')

\* The fetch times out, breaks, is refused, or brings no JSON.
FetchFailsHolding(t) ==
  /\ stage[t] \in {"fetching", "answered"}
  /\ faulted' = TRUE
  /\ Move(t, "missing")
  /\ UNCHANGED <<now, cacheVars, lock, body, get, providerVars>>
FetchFails(t) ==
  /\ stage[t] \in {"fetching", "answered"}
  /\ faulted' = TRUE
  /\ UNCHANGED <<keys, fetchedAt>>
  /\ Continue(t, keys)

\* The answer is JSON of another shape: the lookup ends in an exception.
Raise(t) ==
  /\ stage[t] = "fetching"
  /\ faulted' = TRUE
  /\ lock' = Tail(lock)
  /\ Move(t, "raised")
  /\ get' = [get EXCEPT ![t] = [Idle EXCEPT !.fetches = get[t].fetches + 1]]
  /\ UNCHANGED <<now, cacheVars, body, providerVars>>

\* The request goes on, or is refused; its coroutine is free for another.
Release(t) ==
  /\ stage[t] \in {"found", "missing", "raised"}
  /\ Move(t, "idle")
  /\ get' = [get EXCEPT ![t] = Idle]
  /\ UNCHANGED <<now, cacheVars, lock, body, providerVars, faulted>>

------------------------------------------------------------------------------
(* The provider and the clock *)

Answer(t) ==
  /\ stage[t] = "fetching"
  /\ body' = offered
  /\ Move(t, "answered")
  /\ UNCHANGED <<now, cacheVars, lock, get, providerVars, faulted>>

Rotate(new) ==
  /\ rotations < MaxRotations
  /\ new # offered
  /\ rotations' = rotations + 1
  /\ offered' = new
  /\ changedAt' = [k \in Kids |-> IF k \in new <=> k \in offered
                                    THEN changedAt[k] ELSE now]
  /\ UNCHANGED <<now, cacheVars, lock, body, stage, get, faulted>>

InFetch(t) == stage[t] \in {"fetching", "answered"}
ClockTick ==
  /\ now < MaxTime
  /\ \A t \in Lookups : InFetch(t) => now < lastAttempt + MaxFetch
  /\ now' = now + 1
  /\ UNCHANGED <<cacheVars, lock, body, stage, get, providerVars, faulted>>

------------------------------------------------------------------------------
JwksNext ==
  \/ \E t \in Lookups :
       \/ \E k \in Kids : Get(t, k)
       \/ Wake(t) \/ Install(t) \/ FetchFails(t) \/ Raise(t)
       \/ Release(t) \/ Answer(t)
  \/ \E new \in SUBSET Kids : Rotate(new)
  \/ ClockTick

\* The lock is handed on.  Nothing makes a fetch end: the timeouts of httpx are
\* for each read of its answer.
JwksSpec ==
  JwksInit /\ [][JwksNext]_jwksVars /\ \A t \in Lookups : WF_jwksVars(Wake(t))

\* And there is always somebody who would use the gateway.
BusySpec ==
  JwksSpec /\ \A t \in Lookups : WF_jwksVars(\E k \in Kids : Get(t, k))

------------------------------------------------------------------------------
(* Properties *)

JwksTypeOK ==
  /\ now \in Nat /\ fetchedAt \in Nat /\ lastAttempt \in Nat
  /\ fetchedAt <= now /\ lastAttempt <= now
  /\ keys \subseteq Kids /\ body \subseteq Kids /\ offered \subseteq Kids
  /\ lock \in Seq(Lookups)
  /\ stage \in [Lookups -> {"idle", "waiting", "fetching", "answered",
                       "found", "missing", "raised"}]
  /\ get \in [Lookups -> [kid : Kids, since : Nat, expired : BOOLEAN,
                        fetches : Nat, quiet : BOOLEAN]]
  /\ changedAt \in [Kids -> Nat]
  /\ rotations \in Nat /\ faulted \in BOOLEAN

\* A lookup asks the provider once at most, however long the fetch took and
\* whatever it brought: "force refresh once" also after a refresh for the
\* TTL, because get keeps the clock of its start.
OneFetchPerGet == \A t \in Lookups : get[t].fetches <= 1

\* A failed or an empty answer never empties a cache that had keys: an
\* outage of the provider locks nobody out, and /readyz stays ready.
KeysAreNeverLost == [][keys # {} => keys' # {}]_keys

\* A key the provider has offered for longer than the cooldown is found,
\* while no fetch fails, by a get that met no fetch in progress.
Ends(t, verdict) == stage'[t] = verdict /\ stage[t] # verdict
RotationIsFollowed ==
  [][\A t \in Lookups : LET g == get'[t] IN
       /\ Ends(t, "missing") /\ ~faulted' /\ g.quiet
       /\ changedAt[g.kid] + Cooldown < g.since
       => g.kid \notin offered]_jwksVars

\* And a key that was withdrawn is accepted no longer than the TTL and the
\* time of a fetch, while no fetch fails.
WithdrawnKeyExpires ==
  [][\A t \in Lookups : LET k == get'[t].kid IN
       Ends(t, "found") /\ ~faulted' /\ k \notin offered
         => now <= changedAt[k] + KeysTTL + MaxFetch]_jwksVars

\* If fetches end, every lookup returns, behind any queue of them, failed ones
\* included.
InHand(t) == stage[t] \in {"waiting", "fetching", "answered"}
FetchesEnd == \A t \in Lookups : []<>~InFetch(t)
EveryGetReturns ==
  FetchesEnd => \A t \in Lookups : InHand(t) ~> ~InHand(t)

\* What the deployment guide expects of /readyz right after a deployment,
\* before the first message: that it turns ready.  Only a lookup fetches.
TurnsReady == <>Ready
------------------------------------------------------------------------------
(* The inductive invariant behind the safety properties *)

\* Only the head of the lock's queue fetches, for no longer than MaxFetch,
\* and nobody fetches while the lock is free.
LockInv ==
  \A t \in Lookups : InFetch(t) =>
    lock # <<>> /\ Head(lock) = t /\ now <= lastAttempt + MaxFetch

\* A lookup has not fetched before it fetches, and its clock is no later
\* than the stamp of its attempt.
SinceInv ==
  \A t \in Lookups :
    /\ get[t].fetches <= 1
    /\ InHand(t) => get[t].fetches = 0 /\ get[t].since <= now
    /\ InFetch(t) => get[t].since <= lastAttempt

\* What differs between an answer and the provider changed since the fetch
\* was sent.
Differs(ks, k) == k \in ks <=> k \notin offered
BodyInv ==
  \A t \in Lookups : stage[t] = "answered" =>
    \A k \in Kids : Differs(body, k) => changedAt[k] >= lastAttempt

\* A cached key that was withdrawn was so after the fetch that brought it.
\* And while no fetch has failed and none is on its way, what the cache lacks
\* was added since the last attempt.
KeysInv ==
  /\ \A k \in keys \ offered : changedAt[k] + MaxFetch >= fetchedAt
  /\ ~faulted /\ lock = <<>> /\ keys # {} =>
       \A k \in offered \ keys : changedAt[k] >= lastAttempt
  /\ \A k \in Kids : changedAt[k] <= now

JwksInv == JwksTypeOK /\ LockInv /\ SinceInv /\ BodyInv /\ KeysInv
==============================================================================
