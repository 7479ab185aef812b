--------------------------- MODULE ToolCacheProofs ---------------------------
(***************************************************************************)
(* What is proved about ToolCache, for any set of coroutines, any TTL, any *)
(* load time and any kind of commit.                                       *)
(*                                                                         *)
(* The inductive invariant is IInv of ToolCache; the lemmas below take its *)
(* conjuncts one at a time through the steps of Next.                      *)
(***************************************************************************)
EXTENDS ToolCache, TLAPS

\* The clock has already run for a TTL when the process starts: only then
\* is _loaded_at = 0.0 certainly too old to be fresh.
BootAssumption == TTL <= BootTime

USE DEF Tables

\* The initial state satisfies the invariant.
LEMMA InitIInv == Init => IInv
  BY TasksAssumption, BoundsAssumption
  DEF Init, IInv, TypeOK, RowType, LockInv, SeenInv, RowsInv, StampInv, Zero,
      NoRows,
      Locations, InLoad, HoldsRows, Covers

\* Releasing the lock and returning keep the types they touch.
LEMMA ReleaseType ==
  ASSUME TypeOK, lock # <<>>, Release
  PROVE  lock' \in Seq(Tasks)
  BY DEF TypeOK, Release

LEMMA ReturnType ==
  ASSUME TypeOK, NEW t \in Tasks, Return(t)
  PROVE  /\ pc' \in [Tasks -> Locations]
         /\ rows' \in [Tasks -> RowType]
         /\ mine' \in [Writers -> Nat]
         /\ acked' \in Nat
  <1>1. NoRows \in RowType
    BY DEF NoRows, Zero, RowType
  <1>2. rows' \in [Tasks -> RowType]
    BY <1>1 DEF TypeOK, Return
  <1>3. pc' \in [Tasks -> Locations]
    BY DEF TypeOK, Return, Locations
  <1>4. mine' \in [Writers -> Nat] /\ acked' \in Nat
    <2>1. CASE t \in Writers
      <3>1. mine[t] \in Nat /\ acked \in Nat
        BY <2>1 DEF TypeOK
      <3>2. acked' \in Nat
        BY <2>1, <3>1 DEF Return
      <3>3. mine' \in [Writers -> Nat]
        BY <2>1 DEF TypeOK, Return
      <3>4. QED
        BY <3>2, <3>3
    <2>2. CASE t \notin Writers
      BY <2>2 DEF TypeOK, Return
    <2>3. QED
      BY <2>1, <2>2
  <1>5. QED
    BY <1>2, <1>3, <1>4

\* Every step keeps the types and the exclusion of loads.
LEMMA TypeStep == TypeOK /\ LockInv /\ [Next]_vars => TypeOK'
  <1> SUFFICES ASSUME TypeOK, LockInv, [Next]_vars PROVE TypeOK'
    OBVIOUS
  <1> USE TasksAssumption, BoundsAssumption
  <1>1. ASSUME NEW r \in Readers, EnsureFresh(r) PROVE TypeOK'
    BY <1>1 DEF TypeOK, Locations, Tasks, EnsureFresh, Take, dbVars, cacheVars
  <1>2. ASSUME NEW w \in Writers, Commit(w) PROVE TypeOK'
    BY <1>2 DEF TypeOK, Locations, Tasks, Commit, Append1, cacheVars
  <1>3. ASSUME NEW t \in Tasks, ForceRefresh(t) PROVE TypeOK'
    BY <1>3 DEF TypeOK, Locations, Tasks, ForceRefresh, Take, MarkStale, dbVars
  <1>4. ASSUME NEW t \in Tasks, Wake(t) PROVE TypeOK'
    <2>1. CASE Release /\ Return(t) /\ UNCHANGED loadedAt
      <3>1. lock' \in Seq(Tasks)
        BY <1>4, <2>1, ReleaseType DEF Wake
      <3>2. QED
        BY <1>4, <2>1, <3>1, ReturnType DEF Wake, TypeOK, dbVars
    <2>2. CASE StartLoad(t) /\ (MarkStale \/ UNCHANGED loadedAt)
      BY <1>4, <2>2 DEF Wake, StartLoad, MarkStale, TypeOK, Locations, dbVars
    <2>3. QED
      BY <1>4, <2>1, <2>2 DEF Wake, WakeReader, WakeForce
  <1>5. ASSUME NEW t \in Tasks, SelectTools(t) PROVE TypeOK'
    <2>1. [at |-> now, none |-> none, asOf |-> [tb \in Tables |-> Len(log)]]
            \in RowType
      BY DEF TypeOK, RowType
    <2>2. QED
      BY <1>5, <2>1 DEF SelectTools, TypeOK, Locations, dbVars, cacheVars
  <1>6. ASSUME NEW t \in Tasks, NEW tb \in Tables, SelectGrants(t, tb)
        PROVE TypeOK'
    <2>1. [rows[t] EXCEPT !.asOf[tb] = Len(log)] \in RowType
      <3>1. rows[t] \in RowType /\ Len(log) \in Nat
        BY DEF TypeOK
      <3>2. QED
        BY <3>1 DEF RowType
    <2>2. rows' \in [Tasks -> RowType]
      BY <1>6, <2>1 DEF SelectGrants, TypeOK
    <2>3. QED
      BY <1>6, <2>2 DEF SelectGrants, TypeOK, Locations, dbVars, cacheVars
  <1>7. ASSUME NEW t \in Tasks, Install(t) PROVE TypeOK'
    <2>1. lock # <<>>
      BY <1>7 DEF Install, LockInv, InLoad
    <2>2. view' \in [Tables -> Nat] /\ blank' \in BOOLEAN /\ readAt' \in Nat
      <3>1. rows[t] \in RowType
        BY DEF TypeOK
      <3>2. QED
        BY <1>7, <3>1 DEF Install, RowType
    <2>3. loadedAt' \in Nat /\ loadedAt' <= now'
      BY <1>7 DEF Install, Stamp, TypeOK
    <2>4. lock' \in Seq(Tasks)
      BY <1>7, <2>1, ReleaseType DEF Install
    <2>5. now' \in Nat /\ log' \in Seq(SUBSET Tables) /\ none' \in BOOLEAN
      BY <1>7 DEF Install, TypeOK, dbVars
    <2>6. QED
      BY <1>7, <2>2, <2>3, <2>4, <2>5, ReturnType DEF Install, TypeOK
  <1>8. ASSUME NEW t \in Tasks, Fail(t) PROVE TypeOK'
    BY <1>8, ReleaseType, ReturnType
    DEF Fail, TypeOK, dbVars, cacheVars, LockInv
  <1>9. CASE RemoteCommit
    BY <1>9 DEF TypeOK, Locations, Tasks, RemoteCommit, Append1, cacheVars
  <1>10. CASE Tick
    BY <1>10 DEF TypeOK, Locations, Tasks, Tick, dbVars, cacheVars
  <1>11. CASE UNCHANGED vars
    BY <1>11 DEF TypeOK, vars
  <1>12. QED
    BY <1>1, <1>2, <1>3, <1>4, <1>5, <1>6, <1>7, <1>8, <1>9, <1>10, <1>11
    DEF Next, LoadStep, Hit

\* Every step keeps the lock's exclusion: a coroutine that starts a load is
\* the head of the queue, and only the loading head leaves it.
LEMMA LockStep == TypeOK /\ LockInv /\ [Next]_vars => LockInv'
  <1> SUFFICES ASSUME TypeOK, LockInv, [Next]_vars,
                      NEW u \in Tasks, InLoad(u)'
               PROVE  lock' # <<>> /\ Head(lock') = u
    BY DEF LockInv
  <1>1. lock \in Seq(Tasks) /\ pc \in [Tasks -> Locations]
    BY DEF TypeOK
  <1>2. InLoad(u) => lock # <<>> /\ Head(lock) = u
    BY DEF LockInv
  <1>3. CASE UNCHANGED <<lock, pc>>
    BY <1>2, <1>3 DEF InLoad
  <1>4. ASSUME NEW t \in Tasks, Take(t, "tools")
        PROVE  lock' # <<>> /\ Head(lock') = u
    <2>1. CASE lock = <<>>
      BY <1>1, <1>2, <1>4, <2>1 DEF Take, InLoad
    <2>2. CASE lock # <<>>
      BY <1>1, <1>2, <1>4, <2>2 DEF Take, InLoad
    <2>3. QED
      BY <2>1, <2>2
  <1>5. ASSUME NEW t \in Tasks, lock # <<>>, Head(lock) = t,
               pc' = [pc EXCEPT ![t] = "idle"]
        PROVE  FALSE
    BY <1>1, <1>2, <1>5 DEF InLoad
  <1>6. ASSUME NEW t \in Tasks, NEW l \in Locations, UNCHANGED lock,
               (lock # <<>> /\ Head(lock) = t) \/ l = "committed",
               pc' = [pc EXCEPT ![t] = l]
        PROVE  lock' # <<>> /\ Head(lock') = u
    BY <1>1, <1>2, <1>6 DEF InLoad, LockInv
  <1>7. ASSUME NEW r \in Readers, EnsureFresh(r)
        PROVE  lock' # <<>> /\ Head(lock') = u
    BY <1>4, <1>7 DEF EnsureFresh, Tasks
  <1>8. ASSUME NEW w \in Writers, Commit(w)
        PROVE  lock' # <<>> /\ Head(lock') = u
    BY <1>6, <1>8 DEF Commit, Tasks, Locations
  <1>9. ASSUME NEW t \in Tasks, ForceRefresh(t)
        PROVE  lock' # <<>> /\ Head(lock') = u
    BY <1>4, <1>9 DEF ForceRefresh
  <1>10. ASSUME NEW t \in Tasks, Wake(t)
         PROVE  lock' # <<>> /\ Head(lock') = u
    BY <1>5, <1>6, <1>10
    DEF Wake, WakeReader, WakeForce, StartLoad, Return, Locations
  <1>11. ASSUME NEW t \in Tasks, LoadStep(t)
         PROVE  lock' # <<>> /\ Head(lock') = u
    <2>1. lock # <<>> /\ Head(lock) = t
      BY <1>11
      DEF LoadStep, SelectTools, SelectGrants, Install, Fail, InLoad, LockInv
    <2>2. CASE SelectTools(t)
      <3>1. /\ UNCHANGED lock
            /\ \/ pc' = [pc EXCEPT ![t] = "install"]
               \/ pc' = [pc EXCEPT ![t] = "role_grants"]
        BY <2>2 DEF SelectTools
      <3>2. QED
        BY <1>6, <2>1, <3>1 DEF Locations
    <2>3. CASE \E tb \in Tables : SelectGrants(t, tb)
      <3>1. /\ UNCHANGED lock
            /\ \/ pc' = [pc EXCEPT ![t] = "install"]
               \/ pc' = [pc EXCEPT ![t] = "customer_grants"]
        BY <2>3 DEF SelectGrants
      <3>2. QED
        BY <1>6, <2>1, <3>1 DEF Locations
    <2>4. CASE Install(t) \/ Fail(t)
      BY <1>5, <2>1, <2>4 DEF Install, Fail, Return, LockInv
    <2>5. QED
      BY <1>11, <2>2, <2>3, <2>4 DEF LoadStep
  <1>12. QED
    BY <1>3, <1>7, <1>8, <1>9, <1>10, <1>11
    DEF Next, Hit, RemoteCommit, Tick, vars

\* What a commit does to the length of the log.
LEMMA LogGrows ==
  ASSUME TypeOK, NEW m \in Mutations, Append1(m)
  PROVE  Len(log') = Len(log) + 1
  BY BoundsAssumption DEF TypeOK, Append1

\* The log never gets shorter.
LEMMA LogStep ==
  ASSUME TypeOK, [Next]_vars
  PROVE  Len(log) \in Nat /\ Len(log') \in Nat /\ Len(log) <= Len(log')
  <1>1. Len(log) \in Nat
    BY DEF TypeOK
  <1>2. CASE UNCHANGED log
    BY <1>1, <1>2
  <1>3. CASE \E m \in Mutations : Append1(m)
    BY <1>1, <1>3, LogGrows
  <1>4. QED
    BY <1>2, <1>3
    DEF Next, EnsureFresh, Hit, Commit, ForceRefresh, Wake, LoadStep,
        SelectTools, SelectGrants, Install, Fail, RemoteCommit, Tick, vars,
        dbVars

\* Nothing gets ahead of the database: a snapshot is installed from rows
\* that were read, and a change is acknowledged after it was committed.
LEMMA SeenStep ==
  TypeOK /\ SeenInv /\ RowsInv /\ [Next]_vars => SeenInv'
  <1> SUFFICES ASSUME TypeOK, SeenInv, RowsInv, [Next]_vars PROVE SeenInv'
    OBVIOUS
  <1>1. Len(log) \in Nat /\ Len(log') \in Nat /\ Len(log) <= Len(log')
    BY LogStep
  <1>2. /\ view \in [Tables -> Nat] /\ acked \in Nat
        /\ mine \in [Writers -> Nat]
    BY DEF TypeOK
  <1>3. CASE UNCHANGED <<view, acked, mine>>
    BY <1>1, <1>2, <1>3 DEF SeenInv
  <1>4. ASSUME NEW t \in Tasks, Return(t)
        PROVE  acked' <= Len(log') /\ \A w \in Writers : mine'[w] <= Len(log')
    <2>1. CASE t \in Writers
      BY <1>1, <1>2, <1>4, <2>1 DEF Return, SeenInv
    <2>2. CASE t \notin Writers
      BY <1>1, <1>2, <1>4, <2>2 DEF Return, SeenInv
    <2>3. QED
      BY <2>1, <2>2
  <1>5. ASSUME NEW w \in Writers, Commit(w) PROVE SeenInv'
    BY <1>1, <1>2, <1>5 DEF Commit, cacheVars, SeenInv
  <1>6. ASSUME NEW t \in Tasks, Wake(t) PROVE SeenInv'
    <2>1. CASE Return(t)
      BY <1>1, <1>2, <1>4, <1>6, <2>1 DEF Wake, SeenInv
    <2>2. CASE StartLoad(t)
      BY <1>3, <1>6, <2>2 DEF Wake, StartLoad
    <2>3. QED
      BY <1>6, <2>1, <2>2 DEF Wake, WakeReader, WakeForce
  <1>7. ASSUME NEW t \in Tasks, Install(t) PROVE SeenInv'
    <2>1. \A tb \in Tables : view'[tb] <= Len(log)
      BY <1>7 DEF Install, HoldsRows, RowsInv
    <2>2. QED
      BY <1>1, <1>4, <1>7, <2>1 DEF Install, SeenInv, dbVars
  <1>8. ASSUME NEW t \in Tasks, Fail(t) PROVE SeenInv'
    BY <1>1, <1>2, <1>4, <1>8 DEF Fail, SeenInv, cacheVars, dbVars
  <1>9. QED
    BY <1>3, <1>5, <1>6, <1>7, <1>8
    DEF Next, EnsureFresh, Hit, ForceRefresh, LoadStep, SelectTools,
        SelectGrants, RemoteCommit, Tick, vars, cacheVars

\* While a load has rows in hand, only its own steps replace the snapshot or
\* acknowledge a change, so its rows stay the newest ones; and the clock
\* waits for it.
LEMMA RowsStep ==
  TypeOK /\ LockInv /\ SeenInv /\ RowsInv /\ [Next]_vars => RowsInv'
  <1> SUFFICES ASSUME TypeOK, LockInv, SeenInv, RowsInv, [Next]_vars,
                      NEW u \in Tasks, HoldsRows(u)'
               PROVE
        /\ \A tb \in Tables :
             /\ view'[tb] <= rows'[u].asOf[tb]
             /\ rows'[u].asOf[tb] <= Len(log')
             /\ acked' <= rows'[u].asOf[tb]
             /\ u \in Writers => mine'[u] <= rows'[u].asOf[tb]
        /\ rows'[u].at <= now' /\ now' <= rows'[u].at + MaxLoad
    BY DEF RowsInv
  <1> DEFINE Good ==
        /\ \A tb \in Tables :
             /\ view'[tb] <= rows'[u].asOf[tb]
             /\ rows'[u].asOf[tb] <= Len(log')
             /\ acked' <= rows'[u].asOf[tb]
             /\ u \in Writers => mine'[u] <= rows'[u].asOf[tb]
        /\ rows'[u].at <= now' /\ now' <= rows'[u].at + MaxLoad
  <1>1. Len(log) \in Nat /\ Len(log') \in Nat /\ Len(log) <= Len(log')
    BY LogStep
  <1>2. /\ pc \in [Tasks -> Locations] /\ now \in Nat /\ acked \in Nat
        /\ view \in [Tables -> Nat] /\ mine \in [Writers -> Nat]
        /\ rows \in [Tasks -> RowType]
        /\ rows[u].at \in Nat /\ rows[u].asOf \in [Tables -> Nat]
    BY DEF TypeOK, RowType
  <1>3. HoldsRows(u) => lock # <<>> /\ Head(lock) = u
    BY DEF LockInv, InLoad, HoldsRows
  <1>4. HoldsRows(u) =>
          /\ \A tb \in Tables :
               /\ view[tb] <= rows[u].asOf[tb]
               /\ rows[u].asOf[tb] <= Len(log)
               /\ acked <= rows[u].asOf[tb]
               /\ u \in Writers => mine[u] <= rows[u].asOf[tb]
          /\ rows[u].at <= now /\ now <= rows[u].at + MaxLoad
    BY DEF RowsInv
  <1>5. ASSUME HoldsRows(u), UNCHANGED <<view, rows, acked, now>>,
               u \in Writers => mine'[u] = mine[u]
        PROVE  Good
    BY <1>1, <1>2, <1>4, <1>5
  <1>6. CASE UNCHANGED <<view, rows, acked, now, mine, pc>>
    BY <1>5, <1>6 DEF HoldsRows
  <1>7. ASSUME NEW t \in Tasks, Take(t, "tools"),
               UNCHANGED <<view, rows, acked, now, mine>>
        PROVE  Good
    <2>1. HoldsRows(u)
      BY <1>2, <1>7 DEF Take, HoldsRows
    <2>2. QED
      BY <1>5, <1>7, <2>1
  <1>8. ASSUME NEW w \in Writers, Commit(w) PROVE Good
    <2>1. HoldsRows(u) /\ u # w
      BY <1>2, <1>8 DEF Commit, HoldsRows
    <2>2. u \in Writers => mine'[u] = mine[u]
      BY <1>2, <1>8, <2>1 DEF Commit
    <2>3. UNCHANGED <<view, rows, acked, now>>
      BY <1>8 DEF Commit, cacheVars
    <2>4. QED
      BY <1>5, <2>1, <2>2, <2>3
  <1>9. ASSUME NEW t \in Tasks, lock # <<>>, Head(lock) = t,
               pc' = [pc EXCEPT ![t] = "idle"]
                 \/ pc' = [pc EXCEPT ![t] = "tools"]
        PROVE  FALSE
    BY <1>2, <1>3, <1>9 DEF HoldsRows
  <1>10. ASSUME NEW t \in Tasks, Wake(t) PROVE Good
    BY <1>9, <1>10 DEF Wake, WakeReader, WakeForce, StartLoad, Return
  <1>11. ASSUME NEW t \in Tasks, Install(t) \/ Fail(t) PROVE Good
    BY <1>9, <1>11 DEF Install, Fail, Return, LockInv, InLoad
  <1>12. ASSUME NEW t \in Tasks, SelectTools(t) PROVE Good
    <2>1. t = u
      BY <1>2, <1>3, <1>12 DEF SelectTools, HoldsRows, LockInv, InLoad
    <2>2. /\ rows'[u].at = now
          /\ \A tb \in Tables : rows'[u].asOf[tb] = Len(log)
          /\ UNCHANGED <<now, log, view, acked, mine>>
      BY <1>2, <1>12, <2>1 DEF SelectTools, cacheVars, dbVars
    <2>3. QED
      <3>1. /\ Len(log') = Len(log) /\ acked' <= Len(log)
            /\ \A tb \in Tables : view'[tb] <= Len(log)
            /\ u \in Writers => mine'[u] <= Len(log)
        BY <2>2 DEF SeenInv
      <3>2. now' = now /\ now <= now + MaxLoad
        BY <1>2, <2>2, BoundsAssumption
      <3>3. ASSUME NEW tb \in Tables
            PROVE  /\ view'[tb] <= rows'[u].asOf[tb]
                   /\ rows'[u].asOf[tb] <= Len(log')
                   /\ acked' <= rows'[u].asOf[tb]
                   /\ u \in Writers => mine'[u] <= rows'[u].asOf[tb]
        <4>1. rows'[u].asOf[tb] = Len(log)
          BY <2>2
        <4>2. QED
          BY <1>1, <3>1, <4>1
      <3>4. rows'[u].at <= now' /\ now' <= rows'[u].at + MaxLoad
        BY <1>2, <2>2, <3>2
      <3>5. QED
        BY <3>3, <3>4
  <1>13. ASSUME NEW t \in Tasks, NEW tb \in Tables, SelectGrants(t, tb)
         PROVE  Good
    <2>1. HoldsRows(t) /\ t = u
      BY <1>2, <1>3, <1>13 DEF SelectGrants, HoldsRows, LockInv, InLoad
    <2>2. /\ rows'[u].at = rows[u].at
          /\ \A x \in Tables : rows'[u].asOf[x] =
               IF x = tb THEN Len(log) ELSE rows[u].asOf[x]
          /\ UNCHANGED <<now, log, view, acked, mine>>
      BY <1>2, <1>13, <2>1 DEF SelectGrants, cacheVars, dbVars, RowType
    <2>3. QED
      BY <1>1, <1>2, <1>4, <2>1, <2>2 DEF SeenInv
  <1>14. CASE Tick
    BY <1>1, <1>2, <1>4, <1>14, BoundsAssumption
    DEF Tick, HoldsRows, cacheVars, dbVars
  <1>15. QED
    BY <1>6, <1>7, <1>8, <1>10, <1>11, <1>12, <1>13, <1>14
    DEF Next, EnsureFresh, Hit, ForceRefresh, LoadStep, RemoteCommit, vars,
        cacheVars, Tasks

\* A stamp other than 0 comes from the end of a load, and nothing that can
\* be acknowledged without a load happens while there is one.
LEMMA StampStep ==
  TypeOK /\ LockInv /\ RowsInv /\ StampInv /\ [Next]_vars => StampInv'
  <1> SUFFICES ASSUME TypeOK, LockInv, RowsInv, StampInv, [Next]_vars
               PROVE  StampInv'
    OBVIOUS
  <1>1. /\ pc \in [Tasks -> Locations] /\ lock \in Seq(Tasks)
        /\ now \in Nat /\ BootTime \in Nat /\ acked \in Nat
        /\ mine \in [Writers -> Nat]
    BY BoundsAssumption DEF TypeOK
  <1>2. BootTime <= now'
    BY <1>1
    DEF StampInv, Next, EnsureFresh, Hit, Commit, ForceRefresh, Wake,
        LoadStep, SelectTools, SelectGrants, Install, Fail, RemoteCommit,
        Tick, vars
  <1>3. CASE /\ UNCHANGED <<view, readAt, acked, loadedAt>>
             /\ \A t \in Tasks \ Readers : InLoad(t)' => InLoad(t)
    BY <1>2, <1>3 DEF StampInv, Covers
  <1>4. ASSUME NEW r \in Readers, EnsureFresh(r) PROVE StampInv'
    <2>1. \A t \in Tasks \ Readers : InLoad(t)' => InLoad(t)
      BY <1>1, <1>4 DEF EnsureFresh, Take, InLoad
    <2>2. QED
      BY <1>3, <1>4, <2>1 DEF EnsureFresh, cacheVars
  <1>5. ASSUME NEW w \in Writers, Commit(w) PROVE StampInv'
    <2>1. \A t \in Tasks \ Readers : InLoad(t)' => InLoad(t)
      BY <1>1, <1>5 DEF Commit, InLoad
    <2>2. QED
      BY <1>3, <1>5, <2>1 DEF Commit, cacheVars
  <1>6. ASSUME NEW t \in Tasks, ForceRefresh(t) PROVE StampInv'
    <2>1. CASE lock = <<>>
      BY <1>2, <1>6, <2>1 DEF ForceRefresh, MarkStale, StampInv
    <2>2. CASE lock # <<>>
      <3>1. \A x \in Tasks \ Readers : InLoad(x)' => InLoad(x)
        BY <1>1, <1>6, <2>2 DEF ForceRefresh, Take, InLoad
      <3>2. QED
        BY <1>3, <1>6, <2>2, <3>1 DEF ForceRefresh
    <2>3. QED
      BY <2>1, <2>2
  <1>7. ASSUME NEW t \in Tasks, Wake(t) PROVE StampInv'
    <2>1. CASE t \in Readers
      <3>1. \A x \in Tasks \ Readers : InLoad(x)' => InLoad(x)
        BY <1>1, <1>7, <2>1
        DEF Wake, WakeReader, StartLoad, Return, InLoad
      <3>2. UNCHANGED <<view, readAt, acked, loadedAt>>
        BY <1>7, <2>1, TasksAssumption DEF Wake, WakeReader, StartLoad, Return
      <3>3. QED
        BY <1>3, <3>1, <3>2
    <2>2. CASE t \notin Readers
      BY <1>2, <1>7, <2>2 DEF Wake, WakeForce, MarkStale, StampInv
    <2>3. QED
      BY <2>1, <2>2
  <1>8. ASSUME NEW t \in Tasks, SelectTools(t) PROVE StampInv'
    <2>1. \A x \in Tasks \ Readers : InLoad(x)' => InLoad(x)
      BY <1>1, <1>8 DEF SelectTools, InLoad
    <2>2. QED
      BY <1>3, <1>8, <2>1 DEF SelectTools, cacheVars
  <1>9. ASSUME NEW t \in Tasks, NEW tb \in Tables, SelectGrants(t, tb)
        PROVE  StampInv'
    <2>1. \A x \in Tasks \ Readers : InLoad(x)' => InLoad(x)
      BY <1>1, <1>9 DEF SelectGrants, InLoad
    <2>2. QED
      BY <1>3, <1>9, <2>1 DEF SelectGrants, cacheVars
  <1>10. ASSUME NEW t \in Tasks, lock # <<>>, Head(lock) = t, Return(t)
         PROVE  \A x \in Tasks : ~InLoad(x)'
    BY <1>1, <1>10 DEF Return, LockInv, InLoad
  <1>11. ASSUME NEW t \in Tasks, Install(t) PROVE StampInv'
    <2>1. \A x \in Tasks : ~InLoad(x)'
      BY <1>10, <1>11 DEF Install, LockInv, InLoad
    <2>2. /\ \A tb \in Tables : acked <= rows[t].asOf[tb]
          /\ t \in Writers =>
               \A tb \in Tables : mine[t] <= rows[t].asOf[tb]
          /\ now <= rows[t].at + MaxLoad
      BY <1>11 DEF Install, HoldsRows, RowsInv
    <2>3. Covers(acked)'
      <3>1. ASSUME NEW tb \in Tables PROVE view'[tb] >= acked'
        <4>1. view'[tb] = rows[t].asOf[tb] /\ rows[t].asOf[tb] \in Nat
          BY <1>11 DEF Install, TypeOK, RowType
        <4>2. CASE t \in Writers
          <5>1. mine[t] \in Nat /\ acked' \in {mine[t], acked}
            BY <1>1, <1>11, <4>2 DEF Install, Return
          <5>2. QED
            BY <1>1, <2>2, <4>1, <4>2, <5>1
        <4>3. CASE t \notin Writers
          <5>1. acked' = acked
            BY <1>11, <4>3 DEF Install, Return
          <5>2. QED
            BY <1>1, <2>2, <4>1, <5>1
        <4>4. QED
          BY <4>2, <4>3
      <3>2. QED
        BY <3>1 DEF Covers
    <2>4. loadedAt' = now /\ readAt' = rows[t].at
      BY <1>11 DEF Install, Stamp
    <2>5. QED
      BY <1>2, <2>1, <2>2, <2>3, <2>4 DEF StampInv
  <1>12. ASSUME NEW t \in Tasks, Fail(t) PROVE StampInv'
    <2>1. \A x \in Tasks : ~InLoad(x)'
      BY <1>10, <1>12 DEF Fail, LockInv
    <2>2. UNCHANGED <<view, readAt, loadedAt>>
      BY <1>12 DEF Fail, cacheVars
    <2>3. CASE t \in Readers
      <3>1. acked' = acked
        BY <1>12, <2>3, TasksAssumption DEF Fail, Return
      <3>2. QED
        BY <1>3, <2>1, <2>2, <3>1
    <2>4. CASE t \notin Readers
      <3>1. loadedAt = 0
        BY <1>12, <2>4 DEF Fail, StampInv
      <3>2. QED
        BY <1>2, <2>1, <2>2, <3>1 DEF StampInv
    <2>5. QED
      BY <2>3, <2>4
  <1>13. QED
    BY <1>3, <1>4, <1>5, <1>6, <1>7, <1>8, <1>9, <1>11, <1>12
    DEF Next, Hit, LoadStep, RemoteCommit, Tick, vars, cacheVars, InLoad

\* IInv is inductive.
THEOREM Invariance == Spec => []IInv
  <1>1. Init => IInv
    BY InitIInv
  <1>2. IInv /\ [Next]_vars => IInv'
    BY TypeStep, LockStep, SeenStep, RowsStep, StampStep DEF IInv
  <1>3. QED
    BY <1>1, <1>2, PTL DEF Spec

\* The variables keep their types; in particular the stamp is never in the
\* future, so is_fresh never sees a negative age.
THEOREM TypeCorrectness == Spec => []TypeOK
  BY Invariance, PTL DEF IInv

\* The age of data served without a load is below TTL plus the time of a
\* load, whatever the reading of the clock at the start.
THEOREM StalenessBound == Spec => []BoundedStaleness
  <1>1. IInv => BoundedStaleness
    <2> SUFFICES ASSUME IInv, Fresh PROVE now < readAt + TTL + MaxLoad
      BY DEF BoundedStaleness
    <2>1. /\ now \in Nat /\ loadedAt \in Nat /\ readAt \in Nat
          /\ TTL \in Nat /\ MaxLoad \in Nat
      BY BoundsAssumption DEF IInv, TypeOK
    <2>2. now - loadedAt < TTL
      BY DEF Fresh
    <2>3. loadedAt # 0 => loadedAt <= readAt + MaxLoad
      BY DEF IInv, StampInv
    <2>4. QED
      BY <2>1, <2>2, <2>3
  <1>2. QED
    BY <1>1, Invariance, PTL

\* In a process whose clock is past one TTL, a change whose admin call has
\* returned is in every snapshot served from then on, failed refresh or not.
THEOREM ReadYourWrites ==
  ASSUME BootAssumption
  PROVE  Spec => []AckedIsServed
  <1>1. IInv => AckedIsServed
    <2> SUFFICES ASSUME IInv, Fresh PROVE Covers(acked)
      BY DEF AckedIsServed
    <2>1. /\ now \in Nat /\ loadedAt \in Nat /\ TTL \in Nat
          /\ BootTime \in Nat /\ BootTime <= now /\ TTL <= BootTime
      BY BoundsAssumption, BootAssumption
      DEF IInv, TypeOK, StampInv, BootAssumption
    <2>2. now - loadedAt < TTL
      BY DEF Fresh
    <2>3. loadedAt # 0
      BY <2>1, <2>2
    <2>4. QED
      BY <2>3 DEF IInv, StampInv
  <1>2. QED
    BY <1>1, Invariance, PTL

\* The snapshot never goes back, for any table.
THEOREM Monotone == Spec => NoRollback
  <1>1. IInv /\ [Next]_vars => [\A tb \in Tables : view'[tb] >= view[tb]]_view
    <2> SUFFICES ASSUME IInv, [Next]_vars, view' # view, NEW tb \in Tables
                 PROVE  view'[tb] >= view[tb]
      OBVIOUS
    <2>1. PICK t \in Tasks : Install(t)
      BY DEF Next, EnsureFresh, Hit, Commit, ForceRefresh, Wake, LoadStep,
             SelectTools, SelectGrants, Fail, RemoteCommit, Tick, vars,
             cacheVars
    <2>2. HoldsRows(t) /\ view' = rows[t].asOf
      BY <2>1 DEF Install, HoldsRows
    <2>3. view[tb] <= rows[t].asOf[tb]
      BY <2>2 DEF IInv, RowsInv
    <2>4. view[tb] \in Nat /\ rows[t].asOf[tb] \in Nat
      BY DEF IInv, TypeOK, RowType
    <2>5. QED
      BY <2>2, <2>3, <2>4
  <1>2. QED
    BY <1>1, Invariance, PTL DEF NoRollback, Spec

\* No reader sends a SELECT while the snapshot is fresh, also not one that
\* waited for the lock: the second look of ensure_fresh.
THEOREM OneLoad == Spec => ReadersShareOneLoad
  <1>1. ASSUME TypeOK, [Next]_vars, NEW r \in Readers, StartsLoad(r)
        PROVE  ~Fresh
    <2>1. r \in Tasks /\ pc[r] # pc'[r] /\ pc'[r] = "tools"
      BY <1>1 DEF StartsLoad, Tasks
    <2>2. ASSUME NEW x \in Readers, EnsureFresh(x)
          PROVE  ~Fresh
      BY <2>2 DEF EnsureFresh
    <2>3. ASSUME NEW t \in Tasks, ForceRefresh(t)
          PROVE  FALSE
      <3>1. t # r
        BY <2>3, TasksAssumption DEF ForceRefresh
      <3>2. QED
        BY <1>1, <2>1, <2>3, <3>1 DEF ForceRefresh, Take, TypeOK
    <2>4. ASSUME NEW t \in Tasks, Wake(t), Fresh
          PROVE  FALSE
      <3>1. CASE t = r
        BY <1>1, <2>1, <2>4, <3>1 DEF Wake, WakeReader, Return, TypeOK
      <3>2. CASE t # r
        BY <1>1, <2>1, <2>4, <3>2
        DEF Wake, WakeReader, WakeForce, StartLoad, Return, TypeOK
      <3>3. QED
        BY <3>1, <3>2
    <2>5. ASSUME NEW t \in Tasks, LoadStep(t)
          PROVE  FALSE
      BY <1>1, <2>1, <2>5
      DEF LoadStep, SelectTools, SelectGrants, Install, Fail, Return, TypeOK
    <2>6. ASSUME NEW w \in Writers, Commit(w)
          PROVE  FALSE
      BY <1>1, <2>1, <2>6 DEF Commit, TypeOK
    <2>7. ~UNCHANGED pc
      BY <2>1
    <2>8. QED
      BY <1>1, <2>2, <2>3, <2>4, <2>5, <2>6, <2>7
      DEF Next, Hit, RemoteCommit, Tick, vars
  <1>2. TypeOK /\ [Next]_vars
          => [\A r \in Readers : StartsLoad(r) => ~Fresh]_vars
    BY <1>1
  <1>3. QED
    BY <1>2, TypeCorrectness, PTL DEF Spec, ReadersShareOneLoad

\* An age counted from the mark "invalidated" is at least a TTL.
LEMMA AgeOfStale ==
  ASSUME BootAssumption, NEW n \in Nat, BootTime <= n
  PROVE  ~(n - 0 < TTL)
  BY BoundsAssumption DEF BootAssumption

\* Each step of the cache is a step of ReadModel, or changes nothing of it:
\* a load that ends well is a Refresh, everything that only takes the
\* snapshot out of service or ends without a new one is a Drop.
LEMMA PromiseStep ==
  ASSUME BootAssumption, IInv, IInv', [Next]_vars
  PROVE  [Promise!Next]_(<<Len(log), view, acked, Fresh>>)
  <1>1. /\ now \in Nat /\ now' \in Nat /\ loadedAt \in Nat /\ loadedAt' \in Nat
        /\ BootTime <= now /\ BootTime <= now' /\ TTL \in Nat
        /\ acked \in Nat /\ acked' \in Nat
        /\ Len(log) \in Nat /\ Len(log') \in Nat
        /\ acked <= Len(log) /\ acked' <= Len(log')
    BY BoundsAssumption DEF IInv, TypeOK, StampInv, SeenInv
  <1>2. loadedAt = 0 => ~Fresh
    BY <1>1, AgeOfStale, BootAssumption DEF Fresh
  <1>3. loadedAt' = 0 => ~Fresh'
    BY <1>1, AgeOfStale, BootAssumption DEF Fresh
  <1>4. CASE UNCHANGED <<log, view, acked, now, blank, loadedAt>>
    BY <1>4 DEF Fresh
  <1>5. ASSUME UNCHANGED <<log, view, acked>>, ~Fresh' PROVE Promise!Next
    <2>1. Promise!Drop
      BY <1>1, <1>5 DEF Promise!Drop, Promise!Acknowledge
    <2>2. QED
      BY <2>1 DEF Promise!Next
  <1>6. ASSUME NEW m \in Mutations, Append1(m),
               UNCHANGED <<view, acked, now, blank, loadedAt>>
        PROVE  Promise!Next
    <2>1. Len(log') = Len(log) + 1
      BY <1>6, LogGrows DEF IInv
    <2>2. Fresh' = Fresh
      BY <1>6 DEF Fresh
    <2>3. QED
      BY <1>6, <2>1, <2>2 DEF Promise!Next, Promise!Commit
  <1>7. CASE Tick
    <2>1. UNCHANGED <<log, view, acked, blank, loadedAt>> /\ now' = now + 1
      BY <1>7 DEF Tick, dbVars, cacheVars
    <2>2. CASE Fresh'
      <3>1. Fresh
        BY <1>1, <2>1, <2>2 DEF Fresh
      <3>2. QED
        BY <2>1, <2>2, <3>1
    <2>3. CASE ~Fresh'
      BY <1>5, <2>1, <2>3
    <2>4. QED
      BY <2>2, <2>3
  <1>8. ASSUME NEW t \in Tasks, ForceRefresh(t) \/ Wake(t)
        PROVE  [Promise!Next]_(<<Len(log), view, acked, Fresh>>)
    <2>1. UNCHANGED <<log, view, acked, now, blank>>
      BY <1>8, TasksAssumption
      DEF ForceRefresh, Wake, WakeReader, WakeForce, StartLoad, Return, dbVars
    <2>2. loadedAt' \in {0, loadedAt}
      BY <1>8 DEF ForceRefresh, Wake, WakeReader, WakeForce, MarkStale
    <2>3. CASE loadedAt' = 0
      BY <1>3, <1>5, <2>1, <2>3
    <2>4. CASE UNCHANGED loadedAt
      BY <1>4, <2>1, <2>4
    <2>5. QED
      BY <2>2, <2>3, <2>4
  <1>9. ASSUME NEW t \in Tasks, Return(t), t \in Writers => mine[t] \in Nat
        PROVE  acked' >= acked
    BY <1>1, <1>9 DEF Return
  <1>10. ASSUME NEW t \in Tasks, Install(t) PROVE Promise!Next
    <2>1. acked' >= acked
      BY <1>9, <1>10 DEF Install, IInv, TypeOK
    <2>2. log' = log
      BY <1>10 DEF Install, dbVars
    <2>3. view' \in [Tables -> 0..Len(log)]
      BY <1>1, <2>2 DEF IInv, TypeOK, SeenInv
    <2>4. \A tb \in Tables : view'[tb] >= view[tb]
      <3>1. /\ view' = rows[t].asOf /\ view \in [Tables -> Nat]
            /\ rows[t].asOf \in [Tables -> Nat]
        BY <1>10 DEF Install, IInv, TypeOK, RowType
      <3>2. \A tb \in Tables : view[tb] <= rows[t].asOf[tb]
        BY <1>10 DEF Install, IInv, RowsInv, HoldsRows
      <3>3. QED
        BY <3>1, <3>2
    <2>5. Fresh' => Promise!Covers(view', acked')
      BY <1>3 DEF IInv, StampInv, Covers, Promise!Covers
    <2>6. Fresh' \in BOOLEAN
      BY DEF Fresh
    <2>7. Promise!Refresh
      BY <1>1, <2>1, <2>2, <2>3, <2>4, <2>5, <2>6
      DEF Promise!Refresh, Promise!Acknowledge
    <2>8. QED
      BY <2>7 DEF Promise!Next
  <1>11. ASSUME NEW t \in Tasks, Fail(t)
         PROVE  [Promise!Next]_(<<Len(log), view, acked, Fresh>>)
    <2>1. UNCHANGED <<log, view, now, blank, loadedAt>>
      BY <1>11 DEF Fail, dbVars, cacheVars
    <2>2. CASE t \in Writers
      <3>1. loadedAt = 0
        BY <1>11, <2>2, TasksAssumption DEF Fail, IInv, StampInv
      <3>2. ~Fresh'
        BY <1>3, <2>1, <3>1
      <3>3. acked' >= acked
        BY <1>9, <1>11, <2>2 DEF Fail, IInv, TypeOK
      <3>4. Promise!Drop
        BY <1>1, <2>1, <3>2, <3>3 DEF Promise!Drop, Promise!Acknowledge
      <3>5. QED
        BY <3>4 DEF Promise!Next
    <2>3. CASE t \notin Writers
      BY <1>4, <1>11, <2>1, <2>3 DEF Fail, Return
    <2>4. QED
      BY <2>2, <2>3
  <1>12. ASSUME NEW t \in Tasks, 
                SelectTools(t) \/ \E tb \in Tables : SelectGrants(t, tb)
         PROVE  UNCHANGED <<log, view, acked, now, blank, loadedAt>>
    BY <1>12 DEF SelectTools, SelectGrants, dbVars, cacheVars
  <1>13. QED
    BY <1>4, <1>6, <1>7, <1>8, <1>10, <1>11, <1>12
    DEF Next, EnsureFresh, Hit, Commit, LoadStep, RemoteCommit, vars,
        cacheVars, dbVars

\* The detailed cache implements ReadModel.
THEOREM Refinement ==
  ASSUME BootAssumption
  PROVE  Spec => KeepsPromise
  <1>1. Init => Promise!Init
    BY BoundsAssumption DEF Init, Promise!Init, Zero, Fresh
  <1>2. IInv /\ IInv' /\ [Next]_vars
          => [Promise!Next]_(<<Len(log), view, acked, Fresh>>)
    BY PromiseStep, BootAssumption
  <1>3. QED
    BY <1>1, <1>2, Invariance, PTL
    DEF Spec, KeepsPromise, Promise!Spec, Promise!readVars
==============================================================================
