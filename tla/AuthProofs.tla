------------------------------ MODULE AuthProofs -----------------------------
(***************************************************************************)
(* What is proved about authentication: JwksCache, for any lookups, kids,  *)
(* TTL, cooldown and duration of a fetch, and Authenticate, for any        *)
(* requests, users, customers, TTL, lifetime of a token and duration of a  *)
(* request.                                                                *)
(*                                                                         *)
(* The inductive invariant of the cache is JwksInv.  Its steps are split   *)
(* in two: those of the lookups, and those of the provider and the clock.  *)
(*                                                                         *)
(* That of Authenticate is its IInv.  An AuthContext is looked at in the   *)
(* step that returns it, so each step is shown to keep IInv and to return, *)
(* if anything, what Given allows.                                         *)
(***************************************************************************)
EXTENDS JwksCache, Authenticate, TLAPS

USE JwksAssumption, AuthAssumption

------------------------------------------------------------------------------
(* JwksCache *)

Gets == [kid : Kids, since : Nat, expired : BOOLEAN, fetches : Nat,
         quiet : BOOLEAN]
Stages == {"idle", "waiting", "fetching", "answered", "found", "missing",
           "raised"}

LEMMA IdleType == Idle \in Gets
  BY DEF Idle, Gets

LEMMA VerdictType ==
  ASSUME NEW k, NEW ks PROVE Verdict(k, ks) \in {"found", "missing"}
  BY DEF Verdict

\* The initial state satisfies the invariant.
LEMMA JwksInitInv == JwksInit => JwksInv
  <1> SUFFICES ASSUME JwksInit PROVE JwksInv
    OBVIOUS
  <1>1. JwksTypeOK
    <2>1. get \in [Lookups -> Gets]
      BY IdleType DEF JwksInit
    <2>2. /\ now \in Nat /\ fetchedAt \in Nat /\ lastAttempt \in Nat
          /\ fetchedAt <= now /\ lastAttempt <= now
          /\ rotations \in Nat
      BY DEF JwksInit
    <2>7. faulted \in BOOLEAN
      BY DEF JwksInit
    <2>3. keys \subseteq Kids /\ body \subseteq Kids /\ offered \subseteq Kids
      BY DEF JwksInit
    <2>6. lock \in Seq(Lookups)
      BY DEF JwksInit
    <2>4. stage \in [Lookups -> Stages] /\ changedAt \in [Kids -> Nat]
      BY DEF JwksInit, Stages
    <2>5. QED
      BY <2>1, <2>2, <2>3, <2>4, <2>6, <2>7 DEF JwksTypeOK, Gets, Stages
  <1>2. LockInv /\ SinceInv /\ BodyInv /\ KeysInv
    BY DEF JwksInit, LockInv, SinceInv, BodyInv, KeysInv, InFetch, InHand, Idle
  <1>3. QED
    BY <1>1, <1>2 DEF JwksInv

------------------------------------------------------------------------------
(* What a lookup does at the end of its fetch *)

\* A lookup never fetches twice: the stamp of its attempt is no older than
\* its own clock, so the cooldown forbids it.
LEMMA NeverAgain ==
  ASSUME JwksTypeOK, SinceInv, NEW t \in Lookups, InFetch(t), NEW ks
  PROVE  ~Again(t, ks)
  <1>1. get[t].since \in Nat /\ lastAttempt \in Nat /\ get[t].since <= lastAttempt
    BY DEF JwksTypeOK, SinceInv
  <1>2. QED
    BY <1>1 DEF Again, MayRetry

LEMMA ContinueEnds ==
  ASSUME JwksTypeOK, SinceInv, NEW t \in Lookups, InFetch(t), NEW ks, Continue(t, ks)
  PROVE  /\ lock' = Tail(lock)
         /\ stage' = [stage EXCEPT ![t] = Verdict(get[t].kid, ks)]
         /\ get' = [get EXCEPT ![t].fetches = @ + 1]
         /\ body' = {}
         /\ UNCHANGED <<now, lastAttempt, offered, changedAt, rotations>>
  BY NeverAgain DEF Continue, Move, providerVars

\* One goal serves Install, FetchFails and Raise: a fetch that is over leaves
\* the rest of the invariant to what became of the keys.
LEMMA FetchOver ==
  ASSUME JwksTypeOK, LockInv, SinceInv,
         NEW t \in Lookups, InFetch(t),
         NEW v \in {"found", "missing", "raised"}, stage' = [stage EXCEPT ![t] = v],
         lock' = Tail(lock),
         NEW g \in Gets, g.fetches = 1, get' = [get EXCEPT ![t] = g],
         UNCHANGED <<now, lastAttempt>>
  PROVE  /\ stage' \in [Lookups -> Stages] /\ get' \in [Lookups -> Gets]
         /\ lock' \in Seq(Lookups)
         /\ \A u \in Lookups : ~InFetch(u)'
         /\ LockInv' /\ SinceInv' /\ BodyInv'
  <1>1. stage' \in [Lookups -> Stages] /\ get' \in [Lookups -> Gets]
    BY DEF JwksTypeOK, Stages, Gets
  <1>2. lock' \in Seq(Lookups)
    BY DEF JwksTypeOK, LockInv
  <1>3. ASSUME NEW u \in Lookups PROVE ~InFetch(u)'
    BY <1>3 DEF JwksTypeOK, LockInv, InFetch
  <1>4. LockInv' /\ BodyInv'
    BY <1>3 DEF LockInv, BodyInv, InFetch
  <1>5. SinceInv'
    BY <1>3 DEF SinceInv, JwksTypeOK, InHand, InFetch
  <1>6. QED
    BY <1>1, <1>2, <1>3, <1>4, <1>5

\* The lookup's record after its fetch.
LEMMA GetAfter ==
  ASSUME JwksTypeOK, SinceInv, NEW t \in Lookups, InFetch(t)
  PROVE  LET g == [get[t] EXCEPT !.fetches = @ + 1]
             h == [Idle EXCEPT !.fetches = get[t].fetches + 1]
         IN  /\ g \in Gets /\ g.fetches = 1
             /\ h \in Gets /\ h.fetches = 1
  <1>1. get[t] \in Gets /\ get[t].fetches = 0
    BY DEF JwksTypeOK, Gets, SinceInv, InHand, InFetch
  <1>2. /\ [get[t] EXCEPT !.fetches = @ + 1] \in Gets
        /\ [get[t] EXCEPT !.fetches = @ + 1].fetches = 1
    BY <1>1 DEF Gets
  <1>3. [Idle EXCEPT !.fetches = get[t].fetches + 1] \in Gets
    BY <1>1, IdleType DEF Gets
  <1>4. [Idle EXCEPT !.fetches = get[t].fetches + 1].fetches = 1
    BY <1>1, IdleType DEF Gets
  <1>5. QED
    BY <1>2, <1>3, <1>4

------------------------------------------------------------------------------
(* The steps of the lookups *)

LEMMA InstallStep ==
  ASSUME JwksInv, NEW t \in Lookups, Install(t)
  PROVE  JwksInv'
  <1> DEFINE g == [get[t] EXCEPT !.fetches = @ + 1]
  <1>1. JwksTypeOK /\ LockInv /\ SinceInv /\ BodyInv /\ KeysInv /\ InFetch(t)
    BY DEF JwksInv, Install, InFetch
  <1>2. /\ lock' = Tail(lock)
        /\ stage' = [stage EXCEPT ![t] = Verdict(get[t].kid, keys')]
        /\ get' = [get EXCEPT ![t] = g]
        /\ body' = {}
        /\ UNCHANGED <<now, lastAttempt, offered, changedAt, rotations>>
    BY <1>1, ContinueEnds DEF Install, JwksTypeOK
  <1>3. /\ stage' \in [Lookups -> Stages] /\ get' \in [Lookups -> Gets]
        /\ lock' \in Seq(Lookups)
        /\ LockInv' /\ SinceInv' /\ BodyInv'
    BY <1>1, <1>2, GetAfter, FetchOver, VerdictType
  <1>4. JwksTypeOK'
    <2>1. keys' \subseteq Kids /\ fetchedAt' \in Nat /\ fetchedAt' <= now'
      <3>1. CASE body = {}
        BY <1>1, <1>2, <3>1 DEF Install, JwksTypeOK
      <3>2. CASE body # {}
        <4>1. keys' = body /\ fetchedAt' = now
          BY <3>2 DEF Install
        <4>2. body \subseteq Kids /\ now \in Nat /\ now' = now
          BY <1>1, <1>2 DEF JwksTypeOK
        <4>3. QED
          BY <4>1, <4>2
      <3>3. QED
        BY <3>1, <3>2
    <2>2. faulted' \in BOOLEAN
      BY DEF Install
    <2>3. QED
      BY <1>1, <1>2, <1>3, <2>1, <2>2 DEF JwksTypeOK, Stages, Gets
  <1>5. KeysInv'
    <2>1. /\ \A k \in Kids : Differs(body, k) => changedAt[k] >= lastAttempt
          /\ now <= lastAttempt + MaxFetch
      BY <1>1 DEF BodyInv, LockInv, Install
    <2>2. CASE body = {}
      <3>1. faulted' /\ UNCHANGED <<keys, fetchedAt>>
        BY <2>2 DEF Install
      <3>2. QED
        BY <1>1, <1>2, <3>1 DEF KeysInv
    <2>3. CASE body # {}
      <3>1. keys' = body /\ fetchedAt' = now
        BY <2>3 DEF Install
      <3>2. QED
        <4>1. ASSUME NEW k \in keys' \ offered'
              PROVE  changedAt'[k] + MaxFetch >= fetchedAt'
          <5>1. k \in Kids /\ k \in body /\ k \notin offered
            BY <1>1, <1>2, <3>1 DEF JwksTypeOK
          <5>2. changedAt[k] >= lastAttempt
            BY <2>1, <5>1 DEF Differs
          <5>3. /\ changedAt[k] \in Nat /\ lastAttempt \in Nat /\ now \in Nat
                /\ changedAt'[k] = changedAt[k] /\ fetchedAt' = now
            BY <1>1, <1>2, <3>1, <5>1 DEF JwksTypeOK
          <5>4. QED
            BY <2>1, <5>2, <5>3
        <4>2. \A k \in offered' \ keys' : changedAt'[k] >= lastAttempt'
          BY <1>1, <1>2, <2>1, <3>1 DEF JwksTypeOK, Differs
        <4>3. QED
          BY <1>1, <1>2, <4>1, <4>2 DEF KeysInv
    <2>4. QED
      BY <2>2, <2>3
  <1>6. QED
    BY <1>3, <1>4, <1>5 DEF JwksInv

LEMMA FetchFailsStep ==
  ASSUME JwksInv, NEW t \in Lookups, FetchFails(t)
  PROVE  JwksInv'
  <1> DEFINE g == [get[t] EXCEPT !.fetches = @ + 1]
  <1>1. JwksTypeOK /\ LockInv /\ SinceInv /\ BodyInv /\ KeysInv /\ InFetch(t)
    BY DEF JwksInv, FetchFails, InFetch
  <1>2. /\ lock' = Tail(lock)
        /\ stage' = [stage EXCEPT ![t] = Verdict(get[t].kid, keys)]
        /\ get' = [get EXCEPT ![t] = g]
        /\ body' = {}
        /\ UNCHANGED <<now, lastAttempt, offered, changedAt, rotations>>
    BY <1>1, ContinueEnds DEF FetchFails, JwksTypeOK
  <1>3. /\ stage' \in [Lookups -> Stages] /\ get' \in [Lookups -> Gets]
        /\ lock' \in Seq(Lookups)
        /\ LockInv' /\ SinceInv' /\ BodyInv'
    BY <1>1, <1>2, GetAfter, FetchOver, VerdictType
  <1>4. UNCHANGED <<keys, fetchedAt>> /\ faulted'
    BY DEF FetchFails
  <1>5. JwksTypeOK'
    BY <1>1, <1>2, <1>3, <1>4 DEF JwksTypeOK, Stages, Gets
  <1>6. KeysInv'
    BY <1>1, <1>2, <1>4 DEF KeysInv
  <1>7. QED
    BY <1>3, <1>5, <1>6 DEF JwksInv

LEMMA RaiseStep ==
  ASSUME JwksInv, NEW t \in Lookups, Raise(t)
  PROVE  JwksInv'
  <1> DEFINE g == [Idle EXCEPT !.fetches = get[t].fetches + 1]
  <1>1. JwksTypeOK /\ LockInv /\ SinceInv /\ BodyInv /\ KeysInv /\ InFetch(t)
    BY DEF JwksInv, Raise, InFetch
  <1>2. /\ lock' = Tail(lock)
        /\ stage' = [stage EXCEPT ![t] = "raised"]
        /\ get' = [get EXCEPT ![t] = g]
        /\ UNCHANGED <<now, lastAttempt>>
    BY DEF Raise, Move, cacheVars
  <1>3. /\ stage' \in [Lookups -> Stages] /\ get' \in [Lookups -> Gets]
        /\ lock' \in Seq(Lookups)
        /\ LockInv' /\ SinceInv' /\ BodyInv'
    BY <1>1, <1>2, GetAfter, FetchOver
  <1>4. /\ UNCHANGED <<keys, fetchedAt, body, offered, changedAt, rotations>>
        /\ faulted'
    BY DEF Raise, cacheVars, providerVars
  <1>5. JwksTypeOK'
    BY <1>1, <1>2, <1>3, <1>4 DEF Raise, JwksTypeOK, Stages, Gets
  <1>6. KeysInv'
    BY <1>1, <1>2, <1>4 DEF KeysInv
  <1>7. QED
    BY <1>3, <1>5, <1>6 DEF JwksInv

\* A lookup begins: answered at once, sent to fetch, or queued.
LEMMA GetStep ==
  ASSUME JwksInv, NEW t \in Lookups, NEW k \in Kids, Get(t, k)
  PROVE  JwksInv'
  <1> DEFINE g == [kid |-> k, since |-> now, expired |-> Expired,
                   fetches |-> 0, quiet |-> lock = <<>>]
  <1>1. JwksTypeOK /\ LockInv /\ SinceInv /\ BodyInv /\ KeysInv
    BY DEF JwksInv
  <1>2. /\ stage[t] = "idle"
        /\ get' = [get EXCEPT ![t] = g]
        /\ UNCHANGED <<now, keys, fetchedAt, body, offered, changedAt, rotations,
                       faulted>>
    BY DEF Get, Enter, providerVars
  <1>3. g \in Gets /\ g.fetches = 0 /\ g.since = now
    <2>1. Expired \in BOOLEAN /\ now \in Nat
      BY <1>1 DEF Expired, JwksTypeOK
    <2>2. QED
      BY <2>1 DEF Gets
  <1>4. get' \in [Lookups -> Gets] /\ get'[t].fetches = 0 /\ get'[t].since = now
    BY <1>1, <1>2, <1>3 DEF JwksTypeOK, Gets
  <1>5. ASSUME NEW u \in Lookups, u # t PROVE get'[u] = get[u]
    BY <1>1, <1>2, <1>5 DEF JwksTypeOK
  <1> HIDE DEF g
  <1>6. CASE /\ stage' = [stage EXCEPT ![t] = Verdict(k, keys)]
             /\ UNCHANGED <<lock, lastAttempt>>
    <2>1. stage' \in [Lookups -> Stages]
      BY <1>1, <1>6, VerdictType DEF JwksTypeOK, Stages
    <2>2. JwksTypeOK'
      BY <1>1, <1>2, <1>4, <1>6, <2>1 DEF JwksTypeOK, Stages, Gets
    <2>3. ASSUME NEW u \in Lookups, InHand(u)' PROVE u # t /\ stage'[u] = stage[u]
      BY <1>1, <1>6, <2>3, VerdictType DEF JwksTypeOK, InHand
    <2>4. LockInv'
      BY <1>1, <1>2, <1>6, <2>3 DEF LockInv, InFetch, InHand
    <2>5. SinceInv'
      BY <1>1, <1>2, <1>4, <1>5, <1>6, <2>3 DEF SinceInv, InFetch, InHand
    <2>6. BodyInv'
      BY <1>1, <1>2, <1>6, <2>3 DEF BodyInv, InHand, Differs
    <2>7. KeysInv'
      BY <1>1, <1>2, <1>6 DEF KeysInv
    <2>8. QED
      BY <2>2, <2>4, <2>5, <2>6, <2>7 DEF JwksInv
  <1>7. CASE /\ lock = <<>> /\ lock' = Append(lock, t)
             /\ lastAttempt' = now /\ stage' = [stage EXCEPT ![t] = "fetching"]
    <2>1. JwksTypeOK'
      BY <1>1, <1>2, <1>4, <1>7 DEF JwksTypeOK, Stages, Gets
    <2>2. ASSUME NEW u \in Lookups, InFetch(u)' PROVE u = t
      BY <1>1, <1>7, <2>2 DEF JwksTypeOK, InFetch, LockInv
    <2>3. lock' # <<>> /\ Head(lock') = t
      BY <1>7
    <2>4. LockInv'
      BY <1>1, <1>2, <1>7, <2>2, <2>3 DEF LockInv, JwksTypeOK
    <2>5. SinceInv'
      BY <1>1, <1>2, <1>4, <1>5, <1>7, <2>2 DEF SinceInv, JwksTypeOK, InHand,
                                                InFetch
    <2>6. BodyInv'
      BY <1>1, <1>7, <2>2 DEF BodyInv, JwksTypeOK, InFetch
    <2>7. KeysInv'
      BY <1>1, <1>2, <2>3 DEF KeysInv
    <2>8. QED
      BY <2>1, <2>4, <2>5, <2>6, <2>7 DEF JwksInv
  <1>8. CASE /\ lock # <<>> /\ lock' = Append(lock, t)
             /\ UNCHANGED lastAttempt /\ stage' = [stage EXCEPT ![t] = "waiting"]
    <2>1. JwksTypeOK'
      <3>1. lock' \in Seq(Lookups)
        BY <1>1, <1>8 DEF JwksTypeOK
      <3>2. stage' \in [Lookups -> Stages]
        BY <1>1, <1>8 DEF JwksTypeOK, Stages
      <3>3. QED
        BY <1>1, <1>2, <1>4, <1>8, <3>1, <3>2 DEF JwksTypeOK, Stages, Gets
    <2>2. ASSUME NEW u \in Lookups, InFetch(u)' \/ stage'[u] = "answered"
          PROVE  u # t /\ stage'[u] = stage[u]
      BY <1>1, <1>8, <2>2 DEF JwksTypeOK, InFetch
    <2>3. lock' # <<>> /\ Head(lock') = Head(lock)
      <3>1. lock \in Seq(Lookups)
        BY <1>1 DEF JwksTypeOK
      <3>2. QED
        BY <1>8, <3>1
    <2>4. LockInv'
      BY <1>1, <1>2, <1>8, <2>2, <2>3 DEF LockInv, InFetch
    <2>5. SinceInv'
      BY <1>1, <1>2, <1>4, <1>5, <1>8 DEF SinceInv, JwksTypeOK, InHand, InFetch
    <2>6. BodyInv'
      BY <1>1, <1>2, <1>8, <2>2 DEF BodyInv, Differs
    <2>7. KeysInv'
      BY <1>1, <1>2, <2>3 DEF KeysInv
    <2>8. QED
      BY <2>1, <2>4, <2>5, <2>6, <2>7 DEF JwksInv
  <1>9. QED
    BY <1>6, <1>7, <1>8 DEF Get, Enter, Begin, Move

\* The lock is handed to the next lookup, so nobody is in a fetch.
LEMMA WakeStep ==
  ASSUME JwksInv, NEW t \in Lookups, Wake(t)
  PROVE  JwksInv'
  <1>1. JwksTypeOK /\ LockInv /\ SinceInv /\ BodyInv /\ KeysInv
    BY DEF JwksInv
  <1>2. /\ stage[t] = "waiting" /\ lock # <<>> /\ Head(lock) = t
        /\ lastAttempt' = now /\ stage' = [stage EXCEPT ![t] = "fetching"]
        /\ UNCHANGED <<now, keys, fetchedAt, lock, body, get, faulted,
                       offered, changedAt, rotations>>
    BY DEF Wake, Begin, Move, providerVars
  <1>3. JwksTypeOK'
    <2>1. stage' \in [Lookups -> Stages]
      BY <1>1, <1>2 DEF JwksTypeOK, Stages
    <2>2. lastAttempt' \in Nat /\ lastAttempt' <= now'
      BY <1>1, <1>2 DEF JwksTypeOK
    <2>3. QED
      BY <1>1, <1>2, <2>1, <2>2 DEF JwksTypeOK, Stages
  <1>4. ASSUME NEW u \in Lookups, InFetch(u)' PROVE u = t
    BY <1>1, <1>2, <1>4 DEF JwksTypeOK, InFetch, LockInv
  <1>5. LockInv'
    BY <1>1, <1>2, <1>4 DEF LockInv, JwksTypeOK
  <1>6. SinceInv'
    BY <1>1, <1>2, <1>4 DEF SinceInv, JwksTypeOK, InHand, InFetch
  <1>7. BodyInv'
    BY <1>1, <1>2, <1>4 DEF BodyInv, JwksTypeOK, InFetch
  <1>8. KeysInv'
    BY <1>1, <1>2 DEF KeysInv
  <1>9. QED
    BY <1>3, <1>5, <1>6, <1>7, <1>8 DEF JwksInv

LEMMA LeaveStep ==
  ASSUME JwksInv, NEW t \in Lookups, Release(t)
  PROVE  JwksInv'
  <1>1. JwksTypeOK /\ LockInv /\ SinceInv /\ BodyInv /\ KeysInv
    BY DEF JwksInv
  <1>2. /\ stage' = [stage EXCEPT ![t] = "idle"] /\ get' = [get EXCEPT ![t] = Idle]
        /\ UNCHANGED <<now, keys, fetchedAt, lastAttempt, lock, body, faulted,
                       offered, changedAt, rotations>>
    BY DEF Release, Move, cacheVars, providerVars
  <1>3. get' \in [Lookups -> Gets] /\ get'[t].fetches = 0
    BY <1>1, <1>2, IdleType DEF JwksTypeOK, Gets, Idle
  <1>4. JwksTypeOK'
    BY <1>1, <1>2, <1>3 DEF JwksTypeOK, Gets
  <1>5. ASSUME NEW u \in Lookups, InHand(u)'
        PROVE  u # t /\ stage'[u] = stage[u] /\ get'[u] = get[u]
    BY <1>1, <1>2, <1>5 DEF JwksTypeOK, InHand
  <1>6. LockInv' /\ BodyInv'
    BY <1>1, <1>2, <1>5 DEF LockInv, BodyInv, InFetch, InHand, Differs
  <1>7. SinceInv'
    <2>1. ASSUME NEW u \in Lookups, u # t PROVE get'[u] = get[u]
      BY <1>1, <1>2, <2>1 DEF JwksTypeOK
    <2>2. QED
      BY <1>1, <1>2, <1>3, <1>5, <2>1 DEF SinceInv, InFetch, InHand
  <1>8. KeysInv'
    BY <1>1, <1>2 DEF KeysInv
  <1>9. QED
    BY <1>4, <1>6, <1>7, <1>8 DEF JwksInv

------------------------------------------------------------------------------
(* The steps of the provider and the clock *)

LEMMA AnswerStep ==
  ASSUME JwksInv, NEW t \in Lookups, Answer(t)
  PROVE  JwksInv'
  <1>1. JwksTypeOK /\ LockInv /\ SinceInv /\ BodyInv /\ KeysInv
    BY DEF JwksInv
  <1>2. /\ stage[t] = "fetching" /\ body' = offered
        /\ stage' = [stage EXCEPT ![t] = "answered"]
        /\ UNCHANGED <<now, keys, fetchedAt, lastAttempt, lock, get, faulted,
                       offered, changedAt, rotations>>
    BY DEF Answer, Move, cacheVars, providerVars
  <1>3. JwksTypeOK'
    BY <1>1, <1>2 DEF JwksTypeOK
  <1>4. LockInv' /\ SinceInv'
    BY <1>1, <1>2 DEF LockInv, SinceInv, JwksTypeOK, InHand, InFetch
  <1>5. BodyInv'
    BY <1>2 DEF BodyInv, Differs
  <1>6. KeysInv'
    BY <1>1, <1>2 DEF KeysInv
  <1>7. QED
    BY <1>3, <1>4, <1>5, <1>6 DEF JwksInv

\* What changes at the provider changes now, after every attempt there was.
LEMMA RotateStep ==
  ASSUME JwksInv, NEW new \in SUBSET Kids, Rotate(new)
  PROVE  JwksInv'
  <1>1. JwksTypeOK /\ LockInv /\ SinceInv /\ BodyInv /\ KeysInv
    BY DEF JwksInv
  <1>2. /\ offered' = new /\ rotations' = rotations + 1
        /\ changedAt' = [k \in Kids |-> IF k \in new <=> k \in offered
                                          THEN changedAt[k] ELSE now]
        /\ UNCHANGED <<now, keys, fetchedAt, lastAttempt, lock, body, stage, get,
                       faulted>>
    BY DEF Rotate, cacheVars
  <1>3. ASSUME NEW k \in Kids
        PROVE  \/ changedAt'[k] = changedAt[k] /\ (k \in offered' <=> k \in offered)
               \/ changedAt'[k] = now
    BY <1>2
  <1>4. changedAt' \in [Kids -> Nat]
    BY <1>1, <1>2 DEF JwksTypeOK
  <1>5. JwksTypeOK'
    BY <1>1, <1>2, <1>4 DEF JwksTypeOK
  <1>6. LockInv' /\ SinceInv'
    BY <1>1, <1>2 DEF LockInv, SinceInv, InHand, InFetch
  <1>7. BodyInv'
    BY <1>1, <1>2, <1>3 DEF BodyInv, JwksTypeOK, Differs
  <1>8. KeysInv'
    BY <1>1, <1>2, <1>3 DEF KeysInv, JwksTypeOK
  <1>9. QED
    BY <1>5, <1>6, <1>7, <1>8 DEF JwksInv

LEMMA TickStep == ASSUME JwksInv, ClockTick PROVE JwksInv'
  <1>1. JwksTypeOK /\ LockInv /\ SinceInv /\ BodyInv /\ KeysInv
    BY DEF JwksInv
  <1>2. /\ \A t \in Lookups : InFetch(t) => now < lastAttempt + MaxFetch
        /\ now' = now + 1
        /\ UNCHANGED <<keys, fetchedAt, lastAttempt, lock, body, stage, get,
                       offered, changedAt, rotations, faulted>>
    BY DEF ClockTick, cacheVars, providerVars
  <1>3. JwksTypeOK'
    BY <1>1, <1>2 DEF JwksTypeOK
  <1>4. LockInv'
    BY <1>1, <1>2 DEF LockInv, InFetch, JwksTypeOK
  <1>5. SinceInv' /\ BodyInv' /\ KeysInv'
    BY <1>1, <1>2
    DEF SinceInv, BodyInv, KeysInv, JwksTypeOK, InHand, InFetch, Differs
  <1>6. QED
    BY <1>3, <1>4, <1>5 DEF JwksInv

LEMMA NextStep == JwksInv /\ [JwksNext]_jwksVars => JwksInv'
  <1> SUFFICES ASSUME JwksInv, [JwksNext]_jwksVars PROVE JwksInv'
    OBVIOUS
  <1>1. CASE UNCHANGED jwksVars
    BY <1>1 DEF jwksVars, cacheVars, providerVars, JwksInv, JwksTypeOK,
                LockInv, SinceInv,
       BodyInv, KeysInv, InHand, InFetch, Differs
  <1>2. CASE JwksNext
    BY <1>2, GetStep, WakeStep, InstallStep, FetchFailsStep, RaiseStep,
       LeaveStep, AnswerStep, RotateStep, TickStep DEF JwksNext
  <1>3. QED
    BY <1>1, <1>2

------------------------------------------------------------------------------
(* Theorems *)

\* The invariant: one fetch at a time, no attempt older than its lookup, and
\* no difference between cache and provider older than the last fetch.
THEOREM JwksInvariance == JwksSpec => []JwksInv
  <1>1. JwksInv /\ [JwksNext]_jwksVars => JwksInv'
    BY NextStep
  <1>2. QED
    BY <1>1, JwksInitInv, PTL DEF JwksSpec

\* JwksCache.get and _refresh keep the types of their state.
THEOREM JwksTypeCorrectness == JwksSpec => []JwksTypeOK
  <1>1. JwksInv => JwksTypeOK
    BY DEF JwksInv
  <1>2. QED
    BY <1>1, JwksInvariance, PTL

\* A lookup asks the provider once at most, for any cooldown and however long
\* a fetch takes: the second refresh in get never follows the first.
THEOREM FetchesOnce == JwksSpec => []OneFetchPerGet
  <1>1. JwksInv => OneFetchPerGet
    BY DEF JwksInv, SinceInv, OneFetchPerGet
  <1>2. QED
    BY <1>1, JwksInvariance, PTL

\* No outage of the provider empties the cache.
THEOREM KeysSurvive == JwksSpec => KeysAreNeverLost
  <1>1. ASSUME [JwksNext]_jwksVars, keys # {} PROVE keys' # {} \/ UNCHANGED keys
    BY <1>1 DEF JwksNext, jwksVars, cacheVars, Get, Wake, Install, FetchFails,
                Raise,
       Release, Answer, Rotate, ClockTick
  <1>2. [JwksNext]_jwksVars => [keys # {} => keys' # {}]_keys
    BY <1>1
  <1>3. QED
    BY <1>2, PTL DEF JwksSpec, KeysAreNeverLost

\* Where a lookup can end with a verdict: at its first line, or at the end of
\* its own fetch.
LEMMA EndsWhere ==
  ASSUME JwksInv, [JwksNext]_jwksVars, NEW t \in Lookups,
         NEW v \in {"found", "missing"}, Ends(t, v)
  PROVE  \/ \E k \in Kids : Get(t, k)
         \/ Install(t)
         \/ FetchFails(t)
  <1>1. JwksTypeOK
    BY DEF JwksInv
  <1>2. JwksNext
    BY DEF Ends, jwksVars
  <1>3. ASSUME NEW u \in Lookups, u # t,
               \/ \E k \in Kids : Get(u, k)
               \/ Wake(u) \/ Install(u) \/ FetchFails(u) \/ Raise(u)
               \/ Release(u) \/ Answer(u)
        PROVE  stage'[t] = stage[t]
    BY <1>1, <1>3 DEF JwksTypeOK, Get, Enter, Begin, Move, Wake, Install,
                      Continue,
       FetchFails, Raise, Release, Answer
  <1>4. ~(Wake(t) \/ Raise(t) \/ Release(t) \/ Answer(t))
    BY <1>1 DEF JwksTypeOK, Ends, Wake, Begin, Move, Raise, Release, Answer
  <1>5. ~ClockTick /\ \A new \in SUBSET Kids : ~Rotate(new)
    BY DEF Ends, ClockTick, Rotate
  <1>6. QED
    BY <1>2, <1>3, <1>4, <1>5 DEF Ends, JwksNext

\* A lookup that ends at its first line sees a cache that has not expired,
\* and if the kid is missing, an attempt within the cooldown.
LEMMA EndsAtOnce ==
  ASSUME JwksInv, NEW t \in Lookups, NEW k \in Kids, Get(t, k),
         NEW v \in {"found", "missing"}, Ends(t, v)
  PROVE  /\ ~Expired /\ (k \in keys \/ ~MayRetry(now, lastAttempt))
         /\ v = Verdict(k, keys)
         /\ get'[t].kid = k /\ get'[t].since = now
         /\ get'[t].quiet = (lock = <<>>)
         /\ UNCHANGED <<now, faulted>>
  <1>1. JwksTypeOK
    BY DEF JwksInv
  <1>2. ~Expired /\ (k \in keys \/ ~MayRetry(now, lastAttempt))
    BY <1>1 DEF JwksTypeOK, Get, Enter, Begin, Move, Ends
  <1>3. /\ stage' = [stage EXCEPT ![t] = Verdict(k, keys)]
        /\ get' = [get EXCEPT ![t] = [kid |-> k, since |-> now,
                     expired |-> Expired, fetches |-> 0, quiet |-> lock = <<>>]]
        /\ UNCHANGED <<now, faulted>>
    BY <1>2 DEF Get, Move
  <1>4. QED
    BY <1>1, <1>2, <1>3 DEF JwksTypeOK, Ends

\* One that ends with an answer that has keys goes by these keys.
LEMMA EndsAfterFetch ==
  ASSUME JwksInv, NEW t \in Lookups, Install(t) \/ FetchFails(t),
         NEW v \in {"found", "missing"}, Ends(t, v), ~faulted'
  PROVE  /\ ~faulted /\ body # {} /\ stage[t] = "answered"
         /\ v = Verdict(get[t].kid, body)
         /\ get'[t].kid = get[t].kid /\ get'[t].since = get[t].since
  <1>1. JwksTypeOK /\ SinceInv
    BY DEF JwksInv
  <1>2. Install(t) /\ InFetch(t) /\ ~faulted /\ body # {} /\ stage[t] = "answered"
    BY DEF Install, FetchFails, InFetch
  <1>3. keys' = body
    BY <1>2 DEF Install
  <1>4. /\ stage' = [stage EXCEPT ![t] = Verdict(get[t].kid, body)]
        /\ get' = [get EXCEPT ![t].fetches = @ + 1]
    BY <1>1, <1>2, <1>3, ContinueEnds DEF Install
  <1>5. v = Verdict(get[t].kid, body)
    BY <1>1, <1>4 DEF JwksTypeOK, Ends
  <1>6. get'[t].kid = get[t].kid /\ get'[t].since = get[t].since
    BY <1>1, <1>4 DEF JwksTypeOK
  <1>7. QED
    BY <1>2, <1>5, <1>6

\* A withdrawn key is accepted no longer than the TTL and one fetch, while no
\* fetch fails.
THEOREM WithdrawalHolds == JwksSpec => WithdrawnKeyExpires
  <1> DEFINE Claim(t) ==
        Ends(t, "found") /\ ~faulted' /\ get'[t].kid \notin offered
          => now <= changedAt[get'[t].kid] + KeysTTL + MaxFetch
  <1>1. ASSUME JwksInv, [JwksNext]_jwksVars, NEW t \in Lookups PROVE Claim(t)
    <2> SUFFICES ASSUME Ends(t, "found"), ~faulted', get'[t].kid \notin offered
                 PROVE  now <= changedAt[get'[t].kid] + KeysTTL + MaxFetch
      OBVIOUS
    <2>1. JwksTypeOK /\ LockInv /\ BodyInv /\ KeysInv
      BY <1>1 DEF JwksInv
    <2>2. ASSUME NEW k \in Kids, Get(t, k)
          PROVE  now <= changedAt[get'[t].kid] + KeysTTL + MaxFetch
      <3>1. ~Expired /\ k \in keys /\ get'[t].kid = k
        BY <1>1, <2>2, EndsAtOnce DEF Verdict
      <3>2. changedAt[k] + MaxFetch >= fetchedAt /\ now - fetchedAt <= KeysTTL
        BY <2>1, <3>1 DEF KeysInv, Expired, JwksTypeOK
      <3>3. now \in Nat /\ fetchedAt \in Nat /\ changedAt[k] \in Nat
        BY <2>1 DEF JwksTypeOK
      <3>4. QED
        BY <3>1, <3>2, <3>3
    <2>3. ASSUME Install(t) \/ FetchFails(t)
          PROVE  now <= changedAt[get'[t].kid] + KeysTTL + MaxFetch
      <3> DEFINE k == get'[t].kid
      <3>1. stage[t] = "answered" /\ k = get[t].kid /\ k \in body
        BY <1>1, <2>3, EndsAfterFetch DEF Verdict
      <3>2. k \in Kids
        BY <2>1, <3>1 DEF JwksTypeOK
      <3>3. changedAt[k] >= lastAttempt /\ now <= lastAttempt + MaxFetch
        BY <2>1, <3>1, <3>2 DEF BodyInv, LockInv, InFetch, Differs
      <3>4. now \in Nat /\ lastAttempt \in Nat /\ changedAt[k] \in Nat
        BY <2>1, <3>2 DEF JwksTypeOK
      <3> HIDE DEF k
      <3>5. now <= changedAt[k] + KeysTTL + MaxFetch
        BY <3>3, <3>4
      <3>6. QED
        BY <3>5 DEF k
    <2>4. QED
      BY <1>1, <2>2, <2>3, EndsWhere
  <1>2. JwksInv /\ [JwksNext]_jwksVars =>
          [\A t \in Lookups : LET k == get'[t].kid IN
             Ends(t, "found") /\ ~faulted' /\ k \notin offered
               => now <= changedAt[k] + KeysTTL + MaxFetch]_jwksVars
    BY <1>1
  <1>3. QED
    BY <1>2, JwksInvariance, PTL DEF JwksSpec, WithdrawnKeyExpires

\* A key that has been offered for longer than the cooldown is found, while
\* no fetch fails, by a lookup that met no fetch in progress.
THEOREM RotationHolds == JwksSpec => RotationIsFollowed
  <1>1. ASSUME JwksInv, [JwksNext]_jwksVars, NEW t \in Lookups, Ends(t, "missing"),
               ~faulted', get'[t].quiet,
               changedAt[get'[t].kid] + Cooldown < get'[t].since
        PROVE  get'[t].kid \notin offered
    <2>1. JwksTypeOK /\ SinceInv /\ BodyInv /\ KeysInv
      BY <1>1 DEF JwksInv
    <2>2. ASSUME NEW k \in Kids, Get(t, k) PROVE get'[t].kid \notin offered
      <3>1. /\ ~Expired /\ ~MayRetry(now, lastAttempt) /\ k \notin keys
            /\ get'[t].kid = k /\ get'[t].since = now /\ lock = <<>> /\ ~faulted
        BY <1>1, <2>2, EndsAtOnce DEF Verdict
      <3>2. now \in Nat /\ lastAttempt \in Nat /\ changedAt[k] \in Nat
        BY <2>1 DEF JwksTypeOK
      <3>3. changedAt[k] < lastAttempt
        BY <1>1, <3>1, <3>2 DEF MayRetry
      <3>4. k \in offered => changedAt[k] >= lastAttempt
        BY <2>1, <3>1 DEF KeysInv, Expired
      <3>5. QED
        BY <3>1, <3>2, <3>3, <3>4
    <2>3. ASSUME Install(t) \/ FetchFails(t) PROVE get'[t].kid \notin offered
      <3>1. /\ stage[t] = "answered" /\ get[t].kid \notin body
            /\ get'[t].kid = get[t].kid /\ get'[t].since = get[t].since
        BY <1>1, <2>3, EndsAfterFetch DEF Verdict
      <3>2. get[t].kid \in Kids /\ get[t].since \in Nat
        BY <2>1 DEF JwksTypeOK
      <3>3. lastAttempt \in Nat /\ changedAt[get[t].kid] \in Nat
        BY <2>1, <3>2 DEF JwksTypeOK
      <3>4. get[t].since <= lastAttempt
        BY <2>1, <3>1 DEF SinceInv, InFetch
      <3>5. changedAt[get[t].kid] < lastAttempt
        BY <1>1, <3>1, <3>2, <3>3, <3>4
      <3>6. get[t].kid \in offered => changedAt[get[t].kid] >= lastAttempt
        BY <2>1, <3>1, <3>2 DEF BodyInv, Differs
      <3>7. QED
        BY <3>1, <3>3, <3>5, <3>6
    <2>4. QED
      BY <1>1, <2>2, <2>3, EndsWhere
  <1>2. JwksInv /\ [JwksNext]_jwksVars =>
          [\A t \in Lookups : LET g == get'[t] IN
             /\ Ends(t, "missing") /\ ~faulted' /\ g.quiet
             /\ changedAt[g.kid] + Cooldown < g.since
             => g.kid \notin offered]_jwksVars
    BY <1>1
  <1>3. QED
    BY <1>2, JwksInvariance, PTL DEF JwksSpec, RotationIsFollowed

------------------------------------------------------------------------------
(* Authenticate *)

Places == {"idle", "get", "fetch", "set", "lookup"}
Given == GivenRolesAreRecent /\ CustomerIsConfirmed

\* The invariant of the requests, and the types of what they own.
RequestInv ==
  /\ pc \in [Tasks -> Places]
  /\ token \in [Tasks -> Claims \union {NoToken}]
  /\ waited \in [Tasks -> 0..MaxWait]
  /\ roles \in [Tasks -> Roles \union {NoRoles}]
  /\ \A t \in Tasks : RequestIsBounded(t)
StoreInv ==
  /\ store \in [Users -> Entries \union {NoEntry}]
  /\ \A u \in Users : EntryIsBounded(u)
\* The answers of gongdan that are under way.
ReplyInv ==
  /\ gone \in [Customers -> 0..Long]
  /\ reply \in [Tasks -> Customers \union {Nobody}]
  /\ \A t \in Tasks : ReplyIsRecent(t)
GivenType == given \in Contexts \union {Nothing}

LEMMA Parts == IInv <=> RequestInv /\ StoreInv /\ ReplyInv /\ GivenType
  BY DEF IInv, TypeOK, RequestInv, StoreInv, ReplyInv, GivenType, Places

LEMMA NothingGiven == given = Nothing => Given
  BY DEF Given, GivenRolesAreRecent, CustomerIsConfirmed, Nothing, NoToken

\* The initial state satisfies the invariant.
LEMMA InitIInv == Init => IInv /\ Given
  <1> SUFFICES ASSUME Init PROVE IInv /\ Given
    OBVIOUS
  <1>1. RequestInv
    BY DEF Init, RequestInv, Places, RequestIsBounded, NoToken
  <1>2. StoreInv
    BY DEF Init, StoreInv, EntryIsBounded
  <1>3. ReplyInv /\ GivenType
    BY DEF Init, ReplyInv, ReplyIsRecent, GivenType, NoToken, Long
  <1>4. Given
    BY NothingGiven DEF Init
  <1>5. QED
    BY <1>1, <1>2, <1>3, <1>4, Parts

------------------------------------------------------------------------------
(* The ways of one request *)

\* One request changes its own variables only.
LEMMA OneRequest ==
  ASSUME RequestInv, NEW t \in Tasks,
         NEW p \in Places, NEW k \in Claims \union {NoToken},
         NEW w \in 0..MaxWait, NEW r \in Roles \union {NoRoles},
         pc' = [pc EXCEPT ![t] = p], token' = [token EXCEPT ![t] = k],
         waited' = [waited EXCEPT ![t] = w], roles' = [roles EXCEPT ![t] = r],
         RequestIsBounded(t)'
  PROVE  RequestInv'
  <1>1. ASSUME NEW s \in Tasks \ {t} PROVE RequestIsBounded(s)'
    <2>1. /\ pc'[s] = pc[s] /\ token'[s] = token[s]
          /\ waited'[s] = waited[s] /\ roles'[s] = roles[s]
      BY DEF RequestInv
    <2>2. RequestIsBounded(s)
      BY DEF RequestInv
    <2>3. QED
      BY <2>1, <2>2 DEF RequestIsBounded
  <1>2. QED
    BY <1>1 DEF RequestInv

\* Nor does it change the answers to the others.
LEMMA OneReply ==
  ASSUME RequestInv, ReplyInv, NEW t \in Tasks,
         \A s \in Tasks \ {t} :
           /\ pc'[s] = pc[s] /\ token'[s] = token[s]
           /\ waited'[s] = waited[s] /\ roles'[s] = roles[s],
         NEW c \in Customers \union {Nobody},
         reply' = [reply EXCEPT ![t] = c], UNCHANGED gone, ReplyIsRecent(t)'
  PROVE  ReplyInv'
  <1>1. ASSUME NEW s \in Tasks \ {t} PROVE ReplyIsRecent(s)'
    <2>1. reply'[s] = reply[s] /\ ReplyIsRecent(s)
      BY DEF ReplyInv
    <2>2. QED
      BY <2>1 DEF ReplyIsRecent, IsNamed
  <1>2. QED
    BY <1>1 DEF ReplyInv

\* Nobody is answered who has not asked; so the step of a request that leaves
\* the answers alone keeps them.
LEMMA SameReplies ==
  ASSUME RequestInv, ReplyInv, NEW t \in Tasks, pc[t] # "lookup",
         \A s \in Tasks \ {t} :
           /\ pc'[s] = pc[s] /\ token'[s] = token[s]
           /\ waited'[s] = waited[s] /\ roles'[s] = roles[s],
         UNCHANGED <<gone, reply>>,
         token'[t].isCustomer => roles'[t] = NoRoles
  PROVE  ReplyInv'
  <1>1. reply[t] = Nobody /\ reply' = [reply EXCEPT ![t] = Nobody]
    BY DEF ReplyInv, ReplyIsRecent
  <1>2. reply'[t] = Nobody
    BY <1>1 DEF ReplyInv
  <1>3. ReplyIsRecent(t)'
    BY <1>2 DEF ReplyIsRecent
  <1>4. QED
    BY <1>1, <1>3, OneReply

\* A request that leaves keeps the invariant of the requests.
LEMMA LeaveKeeps ==
  ASSUME RequestInv, ReplyInv, NEW t \in Tasks, Leave(t)
  PROVE  RequestInv' /\ ReplyInv'
  <1>1. /\ pc'[t] = "idle" /\ token'[t] = NoToken
        /\ waited'[t] = 0 /\ roles'[t] = NoRoles
    BY DEF Leave, RequestInv
  <1>2. RequestIsBounded(t)'
    BY <1>1 DEF RequestIsBounded, NoToken
  <1>3. 0 \in 0..MaxWait /\ "idle" \in Places
    BY DEF Places
  <1>4. RequestInv'
    BY <1>2, <1>3, OneRequest DEF Leave
  <1>5. /\ reply' = [reply EXCEPT ![t] = Nobody] /\ UNCHANGED gone
        /\ reply'[t] = Nobody
        /\ \A s \in Tasks \ {t} :
             /\ pc'[s] = pc[s] /\ token'[s] = token[s]
             /\ waited'[s] = waited[s] /\ roles'[s] = roles[s]
    BY DEF Leave, RequestInv, ReplyInv
  <1>6. ReplyIsRecent(t)'
    BY <1>1, <1>5 DEF ReplyIsRecent, NoToken
  <1>7. ReplyInv'
    BY <1>5, <1>6, OneReply
  <1>8. QED
    BY <1>4, <1>7

\* Roles that are good enough for the request t to return them.
Good(t, r) ==
  /\ r \in Roles
  /\ r.of = token[t].user
  /\ r.age <= Said(r) + MaxWait + TTL + waited[t]
  /\ token[t].carries => r = ClaimedRoles(token[t])

\* resolve returns such roles: the request leaves with them, or looks its
\* customer up.
LEMMA ResolvedKeeps ==
  ASSUME RequestInv, ReplyInv, NEW t \in Tasks, NEW r, Good(t, r),
         Resolved(t, r), pc[t] \in {"get", "set"}, ~token[t].isCustomer
  PROVE  RequestInv' /\ ReplyInv' /\ GivenType' /\ Given'
  <1>1. /\ token[t] \in Claims /\ roles[t] \in Roles \union {NoRoles}
        /\ waited[t] \in 0..MaxWait /\ pc[t] \in Places
    BY DEF RequestInv, RequestIsBounded
  <1>2. CASE token[t].names = Nobody
    <2>1. Return(t, r, Nobody)
      BY <1>2 DEF Resolved
    <2>2. RequestInv' /\ ReplyInv'
      BY <2>1, LeaveKeeps DEF Return
    <2>3. given' = [token |-> token[t], roles |-> r, customer |-> Nobody]
      BY <2>1 DEF Return
    <2>4. given' \in Contexts
      BY <1>1, <2>3 DEF Contexts, Good
    <2>5. r.age <= Staleness(r)
      BY <1>1 DEF Good, Staleness, Said, Roles
    <2>6. GivenRolesAreRecent' /\ CustomerIsConfirmed'
      BY <1>2, <2>3, <2>5
         DEF GivenRolesAreRecent, CustomerIsConfirmed, Good, Staleness, Said,
             ClaimedRoles
    <2>7. QED
      BY <2>2, <2>4, <2>6 DEF Given, GivenType
  <1>3. CASE token[t].names # Nobody
    <2>1. /\ roles' = [roles EXCEPT ![t] = r]
          /\ pc' = [pc EXCEPT ![t] = "lookup"] /\ given' = Nothing
          /\ UNCHANGED <<gone, reply, token, waited>>
      BY <1>3 DEF Resolved, Goto
    <2>2. /\ pc'[t] = "lookup" /\ token'[t] = token[t]
          /\ waited'[t] = waited[t] /\ roles'[t] = r
      BY <2>1 DEF RequestInv
    <2>3. RequestIsBounded(t)'
      BY <1>1, <2>2 DEF RequestInv, RequestIsBounded, Good, Said, ClaimedRoles
    <2>4. /\ token' = [token EXCEPT ![t] = token[t]]
          /\ waited' = [waited EXCEPT ![t] = waited[t]]
      BY <2>1 DEF RequestInv
    <2>5. r \in Roles /\ "lookup" \in Places
      BY DEF Good, Places
    <2>6. RequestInv'
      BY <1>1, <2>1, <2>3, <2>4, <2>5, OneRequest
    <2>7. Given'
      BY <2>1, NothingGiven DEF Given, GivenRolesAreRecent, CustomerIsConfirmed,
                                Nothing, NoToken
    <2>8. \A s \in Tasks \ {t} :
            /\ pc'[s] = pc[s] /\ token'[s] = token[s]
            /\ waited'[s] = waited[s] /\ roles'[s] = roles[s]
      BY <2>1 DEF RequestInv
    <2>9. ReplyInv'
      BY <2>1, <2>2, <2>8, SameReplies
    <2>10. QED
      BY <2>1, <2>6, <2>7, <2>9 DEF GivenType
  <1>4. QED
    BY <1>2, <1>3

LEMMA ArriveKeeps ==
  ASSUME RequestInv, ReplyInv, NEW t \in Tasks, NEW k \in Tokens, Arrive(t, k)
  PROVE  RequestInv' /\ ReplyInv'
  <1> DEFINE r == IF k.carries THEN ClaimedRoles(k) ELSE NoRoles
  <1>1. /\ k \in Claims /\ k.age \in 0..Life
        /\ (k.isCustomer => ~k.carries)
    BY DEF Tokens, Claims
  <1>2. r \in Roles \union {NoRoles} /\ FirstStop(k) \in Places
    BY <1>1 DEF Claims, ClaimedRoles, Roles, Sources, FirstStop, Places
  <1>3. /\ pc' = [pc EXCEPT ![t] = FirstStop(k)]
        /\ token' = [token EXCEPT ![t] = k]
        /\ waited' = [waited EXCEPT ![t] = 0]
        /\ roles' = [roles EXCEPT ![t] = r]
    BY DEF Arrive, Goto
  <1>4. /\ pc'[t] = FirstStop(k) /\ token'[t] = k
        /\ waited'[t] = 0 /\ roles'[t] = r
    BY <1>3 DEF RequestInv
  <1>5. k # NoToken
    BY <1>1 DEF Claims, NoToken
  <1>6. RequestIsBounded(t)'
    <2>1. CASE k.carries
      BY <1>1, <1>4, <1>5, <2>1
         DEF RequestIsBounded, FirstStop, ClaimedRoles, Said
    <2>2. CASE ~k.carries
      BY <1>1, <1>4, <1>5, <2>2 DEF RequestIsBounded, FirstStop
    <2>3. QED
      BY <2>1, <2>2
  <1>7. RequestInv'
    <2>1. 0 \in 0..MaxWait
      OBVIOUS
    <2>2. QED
      BY <1>1, <1>2, <1>3, <1>6, <2>1, OneRequest
  <1>8. /\ pc[t] # "lookup" /\ UNCHANGED <<gone, reply>>
        /\ \A s \in Tasks \ {t} :
             /\ pc'[s] = pc[s] /\ token'[s] = token[s]
             /\ waited'[s] = waited[s] /\ roles'[s] = roles[s]
    BY DEF Arrive, Goto, Pending, RequestInv
  <1>9. token'[t].isCustomer => roles'[t] = NoRoles
    BY <1>1, <1>4
  <1>10. ReplyInv'
    BY <1>8, <1>9, SameReplies
  <1>11. QED
    BY <1>7, <1>10

LEMMA FetchedKeeps ==
  ASSUME RequestInv, ReplyInv, NEW t \in Tasks, Fetched(t)
  PROVE  RequestInv' /\ ReplyInv'
  <1>1. /\ token[t] \in Claims /\ waited[t] \in 0..MaxWait
        /\ ~token[t].isCustomer /\ ~token[t].carries
    BY DEF RequestInv, RequestIsBounded, Fetched
  <1> DEFINE r == [of |-> token[t].user, age |-> 0, by |-> "casdoor"]
  <1>2. roles' = [roles EXCEPT ![t] = r]
    BY DEF Fetched
  <1>3. r \in Roles
    BY <1>1 DEF Claims, Roles, Sources
  <1>4. /\ pc' = [pc EXCEPT ![t] = "set"]
        /\ token' = [token EXCEPT ![t] = token[t]]
        /\ waited' = [waited EXCEPT ![t] = waited[t]]
    BY DEF Fetched, Goto, RequestInv
  <1>5. /\ pc'[t] = "set" /\ token'[t] = token[t]
        /\ waited'[t] = waited[t] /\ roles'[t] = r
    BY <1>2, <1>4 DEF RequestInv
  <1>6. token[t] # NoToken
    BY DEF RequestInv, RequestIsBounded, Fetched
  <1>7. RequestIsBounded(t)'
    BY <1>1, <1>5, <1>6 DEF RequestIsBounded, Said
  <1>8. "set" \in Places
    BY DEF Places
  <1>9. RequestInv'
    BY <1>1, <1>2, <1>3, <1>4, <1>7, <1>8, OneRequest
  <1>10. /\ pc[t] # "lookup" /\ UNCHANGED <<gone, reply>>
         /\ \A s \in Tasks \ {t} :
              /\ pc'[s] = pc[s] /\ token'[s] = token[s]
              /\ waited'[s] = waited[s] /\ roles'[s] = roles[s]
    BY DEF Fetched, Goto, RequestInv
  <1>11. ReplyInv'
    BY <1>1, <1>5, <1>10, SameReplies
  <1>12. QED
    BY <1>9, <1>11

LEMMA MissKeeps ==
  ASSUME RequestInv, ReplyInv, NEW t \in Tasks, Miss(t)
  PROVE  RequestInv' /\ ReplyInv'
  <1>1. /\ token[t] \in Claims \union {NoToken} /\ waited[t] \in 0..MaxWait
        /\ roles[t] \in Roles \union {NoRoles} /\ "fetch" \in Places
    BY DEF RequestInv, Places
  <1>2. /\ pc' = [pc EXCEPT ![t] = "fetch"]
        /\ token' = [token EXCEPT ![t] = token[t]]
        /\ waited' = [waited EXCEPT ![t] = waited[t]]
        /\ roles' = [roles EXCEPT ![t] = roles[t]]
    BY DEF Miss, Goto, reqVars, RequestInv
  <1>3. /\ pc'[t] = "fetch" /\ token'[t] = token[t]
        /\ waited'[t] = waited[t] /\ roles'[t] = roles[t]
    BY <1>2 DEF RequestInv
  <1>4. RequestIsBounded(t)'
    BY <1>3 DEF RequestInv, RequestIsBounded, Miss
  <1>5. RequestInv'
    BY <1>1, <1>2, <1>4, OneRequest
  <1>6. /\ pc[t] # "lookup" /\ UNCHANGED <<gone, reply>>
        /\ \A s \in Tasks \ {t} :
             /\ pc'[s] = pc[s] /\ token'[s] = token[s]
             /\ waited'[s] = waited[s] /\ roles'[s] = roles[s]
        /\ ~token[t].isCustomer
    BY DEF Miss, Goto, reqVars, RequestInv, RequestIsBounded
  <1>7. ReplyInv'
    BY <1>3, <1>6, SameReplies
  <1>8. QED
    BY <1>5, <1>7

\* What a request finds in the cache, and what it stores there.
LEMMA CachedIsGood ==
  ASSUME RequestInv, StoreInv, NEW t \in Tasks, pc[t] = "get",
         Cached(t) # NoEntry
  PROVE  Good(t, Cached(t).roles) /\ ~token[t].isCustomer
  <1>1. /\ token[t] \in Claims /\ ~token[t].carries /\ ~token[t].isCustomer
        /\ waited[t] \in 0..MaxWait
    BY DEF RequestInv, RequestIsBounded
  <1>2. token[t].user \in Users
    BY <1>1 DEF Claims
  <1>3. Cached(t) \in Entries /\ EntryIsBounded(token[t].user)
    BY <1>2 DEF StoreInv, Cached
  <1>4. /\ Cached(t).roles \in Roles /\ Cached(t).left \in 0..TTL
        /\ Cached(t).roles.age \in Nat
    BY <1>3 DEF Entries, Roles
  <1>5. QED
    BY <1>1, <1>3, <1>4 DEF Good, EntryIsBounded, Cached, Said

LEMMA RolesToSet ==
  ASSUME RequestInv, NEW t \in Tasks, pc[t] = "set"
  PROVE  /\ Good(t, roles[t]) /\ ~token[t].isCustomer
         /\ roles[t].age <= Said(roles[t]) + waited[t]
         /\ token[t].user \in Users /\ waited[t] \in 0..MaxWait
  <1>1. /\ token[t] \in Claims /\ ~token[t].isCustomer
        /\ waited[t] \in 0..MaxWait /\ roles[t] \in Roles \union {NoRoles}
        /\ roles[t].of = token[t].user
        /\ roles[t].age <= Said(roles[t]) + waited[t]
        /\ token[t].carries => roles[t] = ClaimedRoles(token[t])
    BY DEF RequestInv, RequestIsBounded
  <1>2. token[t].user \in Users
    BY <1>1 DEF Claims
  <1>3. roles[t] \in Roles /\ roles[t].age \in Nat
    BY <1>1, <1>2 DEF NoRoles, Roles
  <1>4. QED
    BY <1>1, <1>2, <1>3 DEF Good, Said

\* SETEX by t, who has waited for less than a request may.
LEMMA StoreKeeps ==
  ASSUME RequestInv, StoreInv, NEW t \in Tasks, Stored(t)
  PROVE  StoreInv'
  <1> DEFINE e == [roles |-> roles[t], left |-> TTL]
             v == token[t].user
  <1>1. /\ roles[t] \in Roles /\ roles[t].of = v /\ v \in Users
        /\ roles[t].age <= Said(roles[t]) + waited[t]
        /\ waited[t] \in 0..MaxWait
    BY RolesToSet DEF Stored, Good
  <1>2. store' = [store EXCEPT ![v] = e] /\ e \in Entries
    BY <1>1 DEF Stored, Entries
  <1>3. store' \in [Users -> Entries \union {NoEntry}]
    BY <1>1, <1>2 DEF StoreInv
  <1>4. ASSUME NEW u \in Users PROVE EntryIsBounded(u)'
    <2>1. CASE u = v
      <3>1. store'[u] = e
        BY <1>2, <2>1 DEF StoreInv
      <3>2. roles[t].age + TTL <= Said(roles[t]) + MaxWait + TTL
        BY <1>1 DEF Roles, Said
      <3>3. QED
        BY <1>1, <2>1, <3>1, <3>2 DEF EntryIsBounded, Said
    <2>2. CASE u # v
      BY <1>2, <2>2 DEF StoreInv, EntryIsBounded
    <2>3. QED
      BY <2>1, <2>2
  <1>5. QED
    BY <1>3, <1>4 DEF StoreInv

\* gongdan has the customer whom the token names, and answers.
LEMMA ReplyKeeps ==
  ASSUME RequestInv, ReplyInv, NEW t \in Tasks, Reply(t)
  PROVE  RequestInv' /\ ReplyInv'
  <1>1. PICK c \in Customers :
          /\ gone[c] = 0 /\ IsNamed(c, token[t])
          /\ reply' = [reply EXCEPT ![t] = c]
    BY DEF Reply
  <1>2. UNCHANGED <<gone, pc, token, waited, roles>> /\ pc[t] = "lookup"
    BY DEF Reply, reqVars
  <1>3. RequestInv'
    BY <1>2 DEF RequestInv, RequestIsBounded
  <1>4. reply'[t] = c /\ waited[t] \in 0..MaxWait /\ ReplyIsRecent(t)
    BY <1>1 DEF RequestInv, ReplyInv
  <1>5. ReplyIsRecent(t)'
    BY <1>1, <1>2, <1>4 DEF ReplyIsRecent, IsNamed
  <1>6. ReplyInv'
    BY <1>1, <1>2, <1>5, OneReply
  <1>7. QED
    BY <1>3, <1>6

\* The customer is found: the roles at hand are good, or there are none, and the
\* answer is no older than the request.
LEMMA FoundKeeps ==
  ASSUME RequestInv, ReplyInv, NEW t \in Tasks, Found(t)
  PROVE  RequestInv' /\ ReplyInv' /\ GivenType' /\ Given'
  <1> DEFINE c == reply[t]
  <1>1. /\ token[t] \in Claims /\ roles[t] \in Roles \union {NoRoles}
        /\ waited[t] \in 0..MaxWait
        /\ RequestIsBounded(t) /\ pc[t] = "lookup"
    BY DEF RequestInv, RequestIsBounded, Found
  <1>2. /\ c \in Customers /\ IsNamed(c, token[t])
        /\ gone[c] \in 0..Long /\ gone[c] <= waited[t] + 1
        /\ (token[t].isCustomer => roles[t] = NoRoles)
    BY DEF ReplyInv, ReplyIsRecent, Found
  <1>3. /\ given' = [token |-> token[t], roles |-> roles[t],
                     customer |-> CodeOf[c]]
        /\ Leave(t) /\ gone' = gone
    BY DEF Found, Return, Leave
  <1> HIDE DEF c
  <1>4. RequestInv' /\ ReplyInv'
    BY <1>3, LeaveKeeps
  <1>5. GivenType'
    <2>1. CodeOf[c] \in Codes \union {Nobody}
      BY <1>2
    <2>2. given' \in Contexts
      BY <1>1, <1>3, <2>1 DEF Contexts
    <2>3. QED
      BY <2>2 DEF GivenType
  <1>6. CustomerIsConfirmed'
    <2>1. gone'[c] <= MaxWait + 1
      BY <1>1, <1>2, <1>3
    <2>2. IsNamed(c, given'.token) /\ given'.customer = CodeOf[c]
      BY <1>2, <1>3
    <2>3. given'.token.isCustomer => given'.roles = NoRoles
      BY <1>2, <1>3
    <2>4. QED
      BY <1>2, <2>1, <2>2, <2>3 DEF CustomerIsConfirmed, IsNamed
  <1>7. ASSUME ~token[t].isCustomer
        PROVE  /\ roles[t].of = token[t].user
               /\ roles[t].age <= Staleness(roles[t])
               /\ token[t].carries => roles[t] = ClaimedRoles(token[t])
    <2>1. /\ roles[t].of = token[t].user
          /\ roles[t].age <= Said(roles[t]) + MaxWait + TTL + waited[t]
          /\ token[t].carries => roles[t] = ClaimedRoles(token[t])
      BY <1>1, <1>7 DEF RequestIsBounded
    <2>2. roles[t].age \in Nat
      BY <1>1 DEF Roles, NoRoles
    <2>3. QED
      BY <1>1, <2>1, <2>2 DEF Staleness, Said
  <1>8. GivenRolesAreRecent'
    BY <1>3, <1>7 DEF GivenRolesAreRecent, Staleness, Said, ClaimedRoles
  <1>9. QED
    BY <1>4, <1>5, <1>6, <1>8 DEF Given

------------------------------------------------------------------------------
(* Time *)

\* What has not expired and will not: an entry loses as much as its roles age.
LEMMA AgedKeeps ==
  ASSUME StoreInv, NEW u \in Users, store' = [v \in Users |-> Aged(store[v])]
  PROVE  store'[u] \in Entries \union {NoEntry} /\ EntryIsBounded(u)'
  <1>1. store'[u] = Aged(store[u])
    OBVIOUS
  <1>2. CASE store[u].left <= 0
    BY <1>1, <1>2 DEF Aged, EntryIsBounded
  <1>3. CASE ~(store[u].left <= 0)
    <2>1. store[u] \in Entries /\ EntryIsBounded(u) /\ store[u] # NoEntry
      BY <1>3 DEF StoreInv, NoEntry
    <2>2. /\ store[u].roles \in Roles /\ store[u].left \in 1..TTL
          /\ store[u].roles.age \in Nat
      BY <1>3, <2>1 DEF Entries, Roles
    <2>3. store'[u] = [roles |-> Older(store[u].roles),
                       left |-> store[u].left - 1]
      BY <1>1, <1>3 DEF Aged
    <2>4. /\ Older(store[u].roles) \in Roles
          /\ Older(store[u].roles).of = store[u].roles.of
          /\ Older(store[u].roles).by = store[u].roles.by
          /\ Older(store[u].roles).age = store[u].roles.age + 1
      BY <2>2 DEF Older, Roles
    <2>5. store'[u] \in Entries
      BY <2>2, <2>3, <2>4 DEF Entries
    <2>6. EntryIsBounded(u)'
      BY <2>1, <2>2, <2>3, <2>4 DEF EntryIsBounded, Said
    <2>7. QED
      BY <2>5, <2>6
  <1>4. QED
    BY <1>2, <1>3

\* A request waits as long as its roles and its token age.
LEMMA TickKeepsRequest ==
  ASSUME RequestInv, NEW t \in Tasks, Tick
  PROVE  /\ token'[t] \in Claims \union {NoToken}
         /\ waited'[t] \in 0..MaxWait
         /\ roles'[t] \in Roles \union {NoRoles}
         /\ RequestIsBounded(t)'
  <1>1. /\ token[t] \in Claims \union {NoToken} /\ waited[t] \in 0..MaxWait
        /\ roles[t] \in Roles \union {NoRoles} /\ pc[t] \in Places
        /\ RequestIsBounded(t)
    BY DEF RequestInv
  <1>2. /\ token'[t] = IF token[t].carries THEN Older(token[t]) ELSE token[t]
        /\ waited'[t] = IF Pending(t) THEN waited[t] + 1 ELSE 0
        /\ roles'[t] = IF roles[t] = NoRoles THEN NoRoles ELSE Older(roles[t])
        /\ pc'[t] = pc[t]
        /\ Pending(t) => waited[t] < MaxWait
    BY DEF Tick
  <1>3. waited'[t] \in 0..MaxWait
    BY <1>1, <1>2
  <1>4. CASE pc[t] = "idle"
    BY <1>1, <1>2, <1>3, <1>4 DEF RequestIsBounded, NoToken
  <1>5. CASE pc[t] # "idle"
    <2>1. /\ token[t] \in Claims /\ token[t] # NoToken
          /\ waited'[t] = waited[t] + 1
      BY <1>1, <1>2, <1>5 DEF RequestIsBounded, Pending
    <2>2. /\ token'[t] \in Claims
          /\ token'[t].user = token[t].user /\ token'[t].names = token[t].names
          /\ token'[t].carries = token[t].carries
          /\ token'[t].isCustomer = token[t].isCustomer
          /\ token'[t].age = IF token[t].carries THEN token[t].age + 1
                                                 ELSE token[t].age
      BY <1>2, <2>1 DEF Older, Claims
    <2>3. token'[t] # NoToken
      BY <2>2 DEF Claims, NoToken
    <2>4. CASE roles[t] = NoRoles
      <3>1. roles'[t] = NoRoles
        BY <1>2, <2>4
      <3>2. token[t].user # Nobody
        BY <2>1 DEF Claims
      <3>3. ~token[t].carries /\ pc[t] # "set"
              /\ (pc[t] = "lookup" => token[t].isCustomer)
        BY <1>1, <2>4, <3>2 DEF RequestIsBounded, NoRoles, ClaimedRoles
      <3>4. RequestIsBounded(t)'
        BY <1>1, <1>2, <1>5, <2>2, <2>3, <3>3 DEF RequestIsBounded
      <3>5. QED
        BY <1>3, <2>2, <3>1, <3>4
    <2>5. CASE roles[t] # NoRoles
      <3>1. roles[t] \in Roles /\ roles[t].age \in Nat
        BY <1>1, <2>5 DEF Roles
      <3>2. /\ roles'[t] \in Roles
            /\ roles'[t].of = roles[t].of /\ roles'[t].by = roles[t].by
            /\ roles'[t].age = roles[t].age + 1
        BY <1>2, <2>5, <3>1 DEF Older, Roles
      <3>3. token[t].carries => roles'[t] = ClaimedRoles(token'[t])
        <4>1. SUFFICES ASSUME token[t].carries
                       PROVE  roles'[t] = ClaimedRoles(token'[t])
          OBVIOUS
        <4>2. roles[t] = ClaimedRoles(token[t])
          BY <1>1, <4>1 DEF RequestIsBounded
        <4>3. /\ roles[t].of = token[t].user /\ roles[t].age = token[t].age
              /\ roles[t].by = "token"
          BY <4>2 DEF ClaimedRoles
        <4>4. QED
          BY <2>2, <3>2, <4>1, <4>3 DEF ClaimedRoles, Roles
      <3>4. pc[t] = "set" =>
              /\ roles'[t].of = token'[t].user
              /\ roles'[t].age <= Said(roles'[t]) + waited'[t]
        BY <1>1, <2>1, <2>2, <3>1, <3>2 DEF RequestIsBounded, Said
      <3>5. pc[t] = "lookup" /\ ~token[t].isCustomer =>
              /\ roles'[t].of = token'[t].user
              /\ roles'[t].age
                   <= Said(roles'[t]) + MaxWait + TTL + waited'[t]
        BY <1>1, <2>1, <2>2, <3>1, <3>2 DEF RequestIsBounded, Said
      <3>6. /\ pc[t] \in {"get", "fetch", "set"} => ~token[t].isCustomer
            /\ token[t].carries =>
                 pc[t] \in {"set", "lookup"} /\ ~token[t].isCustomer
        BY <1>1 DEF RequestIsBounded
      <3>7. RequestIsBounded(t)'
        BY <1>2, <1>5, <2>2, <2>3, <3>3, <3>4, <3>5, <3>6
           DEF RequestIsBounded, Said
      <3>8. QED
        BY <1>3, <2>2, <3>2, <3>7
    <2>6. QED
      BY <2>4, <2>5
  <1>6. QED
    BY <1>4, <1>5

LEMMA TickKeeps ==
  ASSUME RequestInv, StoreInv, Tick PROVE RequestInv' /\ StoreInv'
  <1>1. pc' = pc
    BY DEF Tick
  <1>2. RequestInv'
    BY <1>1, TickKeepsRequest DEF RequestInv, Tick
  <1>3. store' = [v \in Users |-> Aged(store[v])]
    BY DEF Tick
  <1>4. StoreInv'
    BY <1>3, AgedKeeps DEF StoreInv
  <1>5. QED
    BY <1>2, <1>4

\* Nor has a customer been gone for longer than that, since the answer was sent.
LEMMA TickKeepsReplies ==
  ASSUME RequestInv, ReplyInv, Tick PROVE ReplyInv'
  <1>1. ASSUME NEW c \in Customers
        PROVE  gone'[c] \in 0..Long /\ gone'[c] <= gone[c] + 1
    <2>1. gone[c] \in 0..Long /\ gone'[c] = GoneFor(gone[c]) /\ Long \in Nat
      BY DEF ReplyInv, Tick, Long
    <2>2. QED
      BY <2>1 DEF GoneFor
  <1>2. gone' \in [Customers -> 0..Long] /\ reply' = reply
    BY <1>1 DEF Tick
  <1>3. ASSUME NEW t \in Tasks PROVE ReplyIsRecent(t)'
    <2>1. /\ ReplyIsRecent(t) /\ waited[t] \in 0..MaxWait
          /\ token[t] \in Claims \union {NoToken}
          /\ reply[t] \in Customers \union {Nobody}
      BY DEF RequestInv, ReplyInv
    <2>2. /\ token'[t] = IF token[t].carries THEN Older(token[t]) ELSE token[t]
          /\ waited'[t] = IF Pending(t) THEN waited[t] + 1 ELSE 0
          /\ roles'[t] = IF roles[t] = NoRoles THEN NoRoles ELSE Older(roles[t])
          /\ pc'[t] = pc[t]
      BY DEF Tick
    <2>3. /\ token'[t].names = token[t].names
          /\ token'[t].isCustomer = token[t].isCustomer
      BY <2>1, <2>2 DEF Older, Claims, NoToken
    <2>4. token'[t].isCustomer => roles'[t] = NoRoles
      BY <2>1, <2>2, <2>3 DEF ReplyIsRecent
    <2>5. ASSUME reply'[t] # Nobody
          PROVE  /\ pc'[t] = "lookup" /\ IsNamed(reply'[t], token'[t])
                 /\ gone'[reply'[t]] <= waited'[t] + 1
      <3>1. /\ pc[t] = "lookup" /\ IsNamed(reply[t], token[t])
            /\ gone[reply[t]] <= waited[t] + 1 /\ reply[t] \in Customers
        BY <1>2, <2>1, <2>5 DEF ReplyIsRecent
      <3>2. waited'[t] = waited[t] + 1
        BY <2>2, <3>1 DEF Pending
      <3>3. gone'[reply[t]] <= waited'[t] + 1
        <4>1. gone[reply[t]] \in Int /\ gone'[reply[t]] \in Int
          BY <1>1, <3>1 DEF ReplyInv, Long
        <4>2. QED
          BY <1>1, <2>1, <3>1, <3>2, <4>1
      <3>4. QED
        BY <1>2, <2>2, <2>3, <3>1, <3>3 DEF IsNamed
    <2>6. QED
      BY <2>4, <2>5 DEF ReplyIsRecent
  <1>4. QED
    BY <1>2, <1>3 DEF ReplyInv

\* One tick is not over when a customer has just gone.
LEMMA ChangeKeepsReplies ==
  ASSUME RequestInv, ReplyInv, NEW c \in Customers, Change(c) PROVE ReplyInv'
  <1>1. /\ gone' = [gone EXCEPT ![c] = IF @ = 0 THEN 1 ELSE 0]
        /\ UNCHANGED <<pc, token, waited, roles, reply>>
    BY DEF Change, reqVars
  <1>2. gone' \in [Customers -> 0..Long]
    BY <1>1 DEF ReplyInv, Long
  <1>3. ASSUME NEW t \in Tasks PROVE ReplyIsRecent(t)'
    <2>1. ReplyIsRecent(t) /\ waited[t] \in 0..MaxWait
      BY DEF RequestInv, ReplyInv
    <2>2. CASE reply[t] = Nobody
      BY <1>1, <2>1, <2>2 DEF ReplyIsRecent
    <2>3. CASE reply[t] # Nobody
      <3>1. reply[t] \in Customers /\ gone[reply[t]] <= waited[t] + 1
        BY <2>1, <2>3 DEF ReplyIsRecent, ReplyInv
      <3>2. gone'[reply[t]] <= waited[t] + 1
        BY <1>1, <2>1, <3>1 DEF ReplyInv
      <3>3. QED
        BY <1>1, <2>1, <3>2 DEF ReplyIsRecent, IsNamed
    <2>4. QED
      BY <2>2, <2>3
  <1>4. QED
    BY <1>1, <1>2, <1>3 DEF ReplyInv

------------------------------------------------------------------------------
(* Every step *)

LEMMA PartsNext == RequestInv' /\ StoreInv' /\ ReplyInv' /\ GivenType' => IInv'
  BY DEF IInv, TypeOK, RequestInv, StoreInv, ReplyInv, GivenType, Places

LEMMA NothingGivenNext == given' = Nothing => Given' /\ GivenType'
  BY DEF Given, GivenRolesAreRecent, CustomerIsConfirmed, Nothing, NoToken,
         GivenType

LEMMA SameStore == StoreInv /\ store' = store => StoreInv'
  BY DEF StoreInv, EntryIsBounded

LEMMA SameRequests ==
  /\ RequestInv /\ UNCHANGED <<pc, token, waited, roles>> => RequestInv'
  /\ ReplyInv /\ UNCHANGED <<pc, token, waited, roles, reply, gone>> => ReplyInv'
  BY DEF RequestInv, RequestIsBounded, ReplyInv, ReplyIsRecent, IsNamed

LEMMA StepKeeps ==
  ASSUME IInv, Given, [Next]_vars PROVE IInv' /\ Given'
  <1> USE PartsNext
  <1>0. RequestInv /\ StoreInv /\ ReplyInv /\ GivenType
    BY Parts
  <1>1. ASSUME NEW t \in Tasks, NEW k \in Tokens, Arrive(t, k)
        PROVE  IInv' /\ Given'
    <2>1. RequestInv' /\ ReplyInv'
      BY <1>0, <1>1, ArriveKeeps
    <2>2. given' = Nothing /\ store' = store
      BY <1>1 DEF Arrive, Goto
    <2>3. QED
      BY <1>0, <2>1, <2>2, NothingGivenNext, SameStore
  <1>2. ASSUME NEW t \in Tasks, Hit(t) PROVE IInv' /\ Given'
    <2>1. Good(t, Cached(t).roles) /\ ~token[t].isCustomer
      BY <1>0, <1>2, CachedIsGood DEF Hit
    <2>2. RequestInv' /\ ReplyInv' /\ GivenType' /\ Given'
      BY <1>0, <1>2, <2>1, ResolvedKeeps DEF Hit
    <2>3. StoreInv'
      BY <1>0, <1>2, SameStore DEF Hit
    <2>4. QED
      BY <2>2, <2>3
  <1>3. ASSUME NEW t \in Tasks, Miss(t) \/ Fetched(t) PROVE IInv' /\ Given'
    <2>1. RequestInv' /\ ReplyInv'
      BY <1>0, <1>3, MissKeeps, FetchedKeeps
    <2>2. given' = Nothing /\ store' = store
      BY <1>3 DEF Miss, Fetched, Goto
    <2>3. QED
      BY <1>0, <2>1, <2>2, NothingGivenNext, SameStore
  <1>4. ASSUME NEW t \in Tasks, Stored(t) \/ NotStored(t) PROVE IInv' /\ Given'
    <2>1. Good(t, roles[t]) /\ ~token[t].isCustomer
      BY <1>0, <1>4, RolesToSet DEF Stored, NotStored
    <2>2. RequestInv' /\ ReplyInv' /\ GivenType' /\ Given'
      BY <1>0, <1>4, <2>1, ResolvedKeeps DEF Stored, NotStored
    <2>3. StoreInv'
      BY <1>0, <1>4, SameStore, StoreKeeps DEF NotStored
    <2>4. QED
      BY <2>2, <2>3
  <1>5. ASSUME NEW t \in Tasks, Found(t) PROVE IInv' /\ Given'
    <2>1. StoreInv'
      BY <1>0, <1>5, SameStore DEF Found
    <2>2. QED
      BY <1>0, <1>5, <2>1, FoundKeeps
  <1>6. ASSUME NEW t \in Tasks, Reply(t) \/ NotFound(t) \/ FetchRaises(t)
        PROVE  IInv' /\ Given'
    <2>1. RequestInv' /\ ReplyInv'
      BY <1>0, <1>6, LeaveKeeps, ReplyKeeps DEF NotFound, FetchRaises
    <2>2. given' = Nothing /\ store' = store
      BY <1>6 DEF Reply, NotFound, FetchRaises
    <2>3. QED
      BY <1>0, <2>1, <2>2, NothingGivenNext, SameStore
  <1>7. ASSUME NEW u \in Users, Lose(u) PROVE IInv' /\ Given'
    <2>1. RequestInv' /\ ReplyInv'
      BY <1>0, <1>7, SameRequests DEF Lose, reqVars
    <2>2. StoreInv'
      <3>1. store' = [store EXCEPT ![u] = NoEntry]
        BY <1>7 DEF Lose
      <3>2. QED
        BY <1>0, <3>1 DEF StoreInv, EntryIsBounded
    <2>3. given' = Nothing
      BY <1>7 DEF Lose
    <2>4. QED
      BY <2>1, <2>2, <2>3, NothingGivenNext
  <1>8. ASSUME NEW c \in Customers, Change(c) PROVE IInv' /\ Given'
    <2>1. RequestInv' /\ StoreInv'
      BY <1>0, <1>8, SameRequests, SameStore DEF Change, reqVars
    <2>2. given' = Nothing
      BY <1>8 DEF Change
    <2>3. QED
      BY <1>0, <1>8, <2>1, <2>2, NothingGivenNext, ChangeKeepsReplies
  <1>9. ASSUME Tick PROVE IInv' /\ Given'
    <2>1. RequestInv' /\ StoreInv' /\ ReplyInv'
      BY <1>0, <1>9, TickKeeps, TickKeepsReplies
    <2>2. given' = Nothing
      BY <1>9 DEF Tick
    <2>3. QED
      BY <2>1, <2>2, NothingGivenNext
  <1>10. ASSUME UNCHANGED vars PROVE IInv' /\ Given'
    <2>1. RequestInv' /\ StoreInv' /\ ReplyInv'
      BY <1>0, <1>10, SameRequests, SameStore DEF vars, reqVars
    <2>2. given' = given /\ gone' = gone
      BY <1>10 DEF vars
    <2>3. Given'
      BY <2>2 DEF Given, GivenRolesAreRecent, CustomerIsConfirmed, Staleness,
                  Said, ClaimedRoles, IsNamed
    <2>4. GivenType'
      BY <1>0, <2>2 DEF GivenType
    <2>5. QED
      BY <2>1, <2>3, <2>4
  <1>11. QED
    BY <1>1, <1>2, <1>3, <1>4, <1>5, <1>6, <1>7, <1>8, <1>9, <1>10 DEF Next

\* In every reachable state the entries of Redis and the roles of the requests
\* under way are their own user's, and no older than where they stand.
THEOREM Invariance == Spec => []IInv
  <1>1. Init => IInv /\ Given
    BY InitIInv
  <1>2. (IInv /\ Given) /\ [Next]_vars => (IInv /\ Given)'
    BY StepKeeps
  <1>3. QED
    BY <1>1, <1>2, PTL DEF Spec

\* Every reachable state of authentication is well-typed.
THEOREM TypeCorrectness == Spec => []TypeOK
  <1>1. IInv => TypeOK
    BY DEF IInv
  <1>2. QED
    BY <1>1, Invariance, PTL

\* RoleResolver.resolve and authenticate: the roles of a returned AuthContext
\* were said of its user within the lifetimes, and are those of the token where
\* it carries some.
THEOREM RolesRecent == Spec => []GivenRolesAreRecent
  <1>1. Init => IInv /\ Given
    BY InitIInv
  <1>2. (IInv /\ Given) /\ [Next]_vars => (IInv /\ Given)'
    BY StepKeeps
  <1>3. IInv /\ Given => GivenRolesAreRecent
    BY DEF Given
  <1>4. QED
    BY <1>1, <1>2, <1>3, PTL DEF Spec

\* authenticate never takes the customer of a token on trust: the one that is
\* returned is whom the token names, under the code it has at gongdan, which has
\* it still or lost it no longer ago than a request takes; and a customer gets
\* no roles.
THEOREM CustomerConfirmed == Spec => []CustomerIsConfirmed
  <1>1. Init => IInv /\ Given
    BY InitIInv
  <1>2. (IInv /\ Given) /\ [Next]_vars => (IInv /\ Given)'
    BY StepKeeps
  <1>3. IInv /\ Given => CustomerIsConfirmed
    BY DEF Given
  <1>4. QED
    BY <1>1, <1>2, <1>3, PTL DEF Spec
==============================================================================
