------------------------------ MODULE ToolCache ------------------------------
(***************************************************************************)
(* The tool cache of one gateway process: app/registry/cache.py, the loads *)
(* of app/registry/repo.py, and the three kinds of coroutine that use it   *)
(* in app/registry/service.py:                                             *)
(*                                                                         *)
(*   Readers   tools/list and tools/call (and the load of main.py's        *)
(*             lifespan): ensure_fresh, then read the snapshot;            *)
(*   Writers   /admin handlers: commit, then invalidate_and_reload;        *)
(*   Notified  the callback of a Postgres NOTIFY: invalidate_and_reload.   *)
(*                                                                         *)
(* A step is what a coroutine does between two suspension points.  The     *)
(* catalogue itself is abstracted to "which commit was each table read     *)
(* at": a load reads the tables one SELECT at a time, and every SELECT     *)
(* sees what is committed when it runs (READ COMMITTED).                   *)
(***************************************************************************)
EXTENDS Integers, Sequences

CONSTANTS Readers, Writers, Notified,  \* the coroutines, by kind
          Mutations,    \* which tables a single commit may touch
          TTL,          \* registry_cache_ttl_sec
          MaxLoad,      \* longest time from a load's first SELECT to its end
          BootTime,     \* reading of time.monotonic() when the process starts
          MaxTime,      \* bound: the clock stops here
          MaxCommits    \* bound: commits in a behaviour

Tables == {"tools", "role_grants", "customer_grants"}
Tasks == Readers \union Writers \union Notified

ASSUME TasksAssumption ==
  /\ Readers \intersect (Writers \union Notified) = {}
  /\ Writers \intersect Notified = {}
ASSUME BoundsAssumption ==
  /\ TTL \in Nat /\ MaxLoad \in Nat /\ BootTime \in Nat
  /\ MaxTime \in Nat /\ MaxCommits \in Nat
  /\ Mutations \subseteq SUBSET Tables

VARIABLES now,       \* time.monotonic()
          log,       \* committed changes, each the set of tables it touched
          none,      \* the database has no enabled tool
          view,      \* _tools/_by_name: per table, the commit it was read at
          blank,     \* _tools = []
          loadedAt,  \* _loaded_at
          readAt,    \* when the first SELECT behind view ran
          lock,      \* _lock: the holder and the FIFO queue behind it
          pc,        \* where each coroutine is suspended
          rows,      \* what a load in progress has read
          mine,      \* the commit a writer is about to acknowledge
          acked      \* the newest commit whose admin call has returned

vars == <<now, log, none, view, blank, loadedAt, readAt, lock, pc, rows,
          mine, acked>>
cacheVars == <<view, blank, loadedAt, readAt>>
dbVars == <<log, none>>

Zero == [tb \in Tables |-> 0]
NoRows == [at |-> 0, none |-> FALSE, asOf |-> Zero]

\* "tools", "role_grants" and "customer_grants": the SELECT to be sent next.
Locations == {"idle", "committed", "waiting", "install"} \union Tables
InLoad(t) == pc[t] \in Tables \union {"install"}
\* The suspension points at which a load has some of its rows in hand.
HoldsRows(t) == pc[t] \in {"role_grants", "customer_grants", "install"}

Init ==
  /\ now = BootTime
  /\ log = <<>>
  /\ none \in BOOLEAN
  /\ view = Zero /\ blank = TRUE
  /\ loadedAt = 0 /\ readAt = 0
  /\ lock = <<>>
  /\ pc = [t \in Tasks |-> "idle"]
  /\ rows = [t \in Tasks |-> NoRows]
  /\ mine = [w \in Writers |-> 0]
  /\ acked = 0

------------------------------------------------------------------------------
(* The cache *)

\* Wrong versions used as mutants come before the definition they replace.
FreshWithoutTTL == ~blank
Fresh == ~blank /\ now - loadedAt < TTL

\* The mark a load leaves: _loaded_at = time.monotonic() once rows are in.
Stamp == now

\* invalidate_and_reload drops the old snapshot's claim to be fresh first.
KeepStamp == UNCHANGED loadedAt
MarkStale == loadedAt' = 0

\* asyncio.Lock.release: the first waiter will run next.
ReleaseNothing == UNCHANGED lock
Release == lock' = Tail(lock)

\* Take the free lock without suspending, or queue behind its holder.
Take(t, next) ==
  /\ lock' = Append(lock, t)
  /\ pc' = [pc EXCEPT ![t] = IF lock = <<>> THEN next ELSE "waiting"]

\* A writer's HTTP call returns with its coroutine.
Return(t) ==
  /\ pc' = [pc EXCEPT ![t] = "idle"]
  /\ rows' = [rows EXCEPT ![t] = NoRows]
  /\ IF t \in Writers
       THEN /\ acked' = IF mine[t] > acked THEN mine[t] ELSE acked
            /\ mine' = [mine EXCEPT ![t] = 0]
       ELSE UNCHANGED <<acked, mine>>

\* ensure_fresh of a reader when the snapshot has expired.
EnsureFresh(r) ==
  /\ pc[r] = "idle"
  /\ ~Fresh
  /\ Take(r, "tools")
  /\ UNCHANGED <<now, dbVars, cacheVars, rows, mine, acked>>

\* ensure_fresh returns at once; the reader answers from the snapshot.
Hit(r) ==
  /\ pc[r] = "idle"
  /\ Fresh
  /\ UNCHANGED vars

\* invalidate_and_reload, up to its first suspension.  A writer calls it
\* after its commit; the listener starts a callback for a NOTIFY.
ForceRefresh(t) ==
  /\ \/ t \in Writers /\ pc[t] = "committed"
     \/ t \in Notified /\ pc[t] = "idle" /\ log # <<>>
  /\ Take(t, "tools")
  /\ IF lock = <<>> THEN MarkStale ELSE UNCHANGED loadedAt
  /\ UNCHANGED <<now, dbVars, view, blank, readAt, rows, mine, acked>>

\* The first waiter gets the lock.  A reader looks at the snapshot again:
\* the load it waited for may have made it fresh.  A forced refresh does not:
\* that load may have begun before the change it is about.
StartLoad(t) ==
  /\ pc' = [pc EXCEPT ![t] = "tools"]
  /\ UNCHANGED <<lock, rows, mine, acked>>

WakeReaderUnchecked(r) == StartLoad(r) /\ UNCHANGED loadedAt
WakeReader(r) ==
  /\ IF Fresh THEN Release /\ Return(r) ELSE StartLoad(r)
  /\ UNCHANGED loadedAt

WakeForceCoalesced(t) ==
  IF Fresh THEN Release /\ Return(t) /\ UNCHANGED loadedAt
           ELSE StartLoad(t) /\ MarkStale
WakeForce(t) == StartLoad(t) /\ MarkStale

Wake(t) ==
  /\ pc[t] = "waiting"
  /\ lock # <<>> /\ Head(lock) = t
  /\ IF t \in Readers THEN WakeReader(t) ELSE WakeForce(t)
  /\ UNCHANGED <<now, dbVars, view, blank, readAt>>

------------------------------------------------------------------------------
(* A load *)

\* SELECT the enabled tools.  With no row there is no id to select grants
\* for, so the grants count as read along with the tools.
SelectTools(t) ==
  /\ pc[t] = "tools"
  /\ rows' = [rows EXCEPT ![t] = [at |-> now, none |-> none,
                                  asOf |-> [tb \in Tables |-> Len(log)]]]
  /\ pc' = [pc EXCEPT ![t] = IF none THEN "install" ELSE "role_grants"]
  /\ UNCHANGED <<now, dbVars, cacheVars, lock, mine, acked>>

\* The two selectinload queries, in the order the statement lists them.
SelectGrants(t, tb) ==
  /\ tb \in {"role_grants", "customer_grants"}
  /\ pc[t] = tb
  /\ rows' = [rows EXCEPT ![t].asOf[tb] = Len(log)]
  /\ pc' = [pc EXCEPT ![t] = IF tb = "role_grants" THEN "customer_grants"
                                                   ELSE "install"]
  /\ UNCHANGED <<now, dbVars, cacheVars, lock, mine, acked>>

Install(t) ==
  /\ pc[t] = "install"
  /\ view' = rows[t].asOf
  /\ blank' = rows[t].none
  /\ loadedAt' = Stamp
  /\ readAt' = rows[t].at
  /\ Release
  /\ Return(t)
  /\ UNCHANGED <<now, dbVars>>

\* The loader raises.  The lock is released; a writer or a callback
\* swallows the exception, a reader's caller answers INTERNAL_ERROR.
Fail(t) ==
  /\ InLoad(t)
  /\ Release
  /\ Return(t)
  /\ UNCHANGED <<now, dbVars, cacheVars>>

------------------------------------------------------------------------------
(* The database and the clock *)

Append1(m) ==
  /\ Len(log) < MaxCommits
  /\ log' = Append(log, m)
  /\ none' \in IF "tools" \in m THEN BOOLEAN ELSE {none}

\* An admin handler of this process commits its transaction.
Commit(w) ==
  /\ pc[w] = "idle"
  /\ \E m \in Mutations : Append1(m)
  /\ mine' = [mine EXCEPT ![w] = Len(log')]
  /\ pc' = [pc EXCEPT ![w] = "committed"]
  /\ UNCHANGED <<now, cacheVars, lock, rows, acked>>

\* Another instance or a script commits, or this one does and never learns
\* of it because the connection broke.
RemoteCommit ==
  /\ \E m \in Mutations : Append1(m)
  /\ UNCHANGED <<now, cacheVars, lock, pc, rows, mine, acked>>

\* Time passes, but no load takes longer than MaxLoad.
Tick ==
  /\ now < MaxTime
  /\ \A t \in Tasks : HoldsRows(t) => now < rows[t].at + MaxLoad
  /\ now' = now + 1
  /\ UNCHANGED <<dbVars, cacheVars, lock, pc, rows, mine, acked>>

------------------------------------------------------------------------------
LoadStep(t) ==
  \/ SelectTools(t)
  \/ \E tb \in Tables : SelectGrants(t, tb)
  \/ Install(t)
  \/ Fail(t)

Next ==
  \/ \E r \in Readers : EnsureFresh(r) \/ Hit(r)
  \/ \E w \in Writers : Commit(w)
  \/ \E t \in Tasks : ForceRefresh(t) \/ Wake(t) \/ LoadStep(t)
  \/ RemoteCommit
  \/ Tick

\* The event loop runs every coroutine that can run.  Nothing makes a call
\* start or a commit happen, and nothing makes Postgres answer: db/engine.py
\* sets no timeout on a statement.
Fairness ==
  \A t \in Tasks :
    /\ WF_vars(Wake(t))
    /\ WF_vars(t \in Writers /\ ForceRefresh(t))

Spec == Init /\ [][Next]_vars /\ Fairness

------------------------------------------------------------------------------
(* Properties *)

RowType == [at : Nat, none : BOOLEAN, asOf : [Tables -> Nat]]

TypeOK ==
  /\ now \in Nat
  /\ log \in Seq(SUBSET Tables)
  /\ none \in BOOLEAN
  /\ view \in [Tables -> Nat]
  /\ blank \in BOOLEAN
  /\ loadedAt \in Nat /\ loadedAt <= now
  /\ readAt \in Nat
  /\ lock \in Seq(Tasks)
  /\ pc \in [Tasks -> Locations]
  /\ rows \in [Tasks -> RowType]
  /\ mine \in [Writers -> Nat]
  /\ acked \in Nat

\* The snapshot never goes back: a load that began before a change is never
\* installed over one that saw it, whatever overlaps (cache.py holds the
\* lock from the first SELECT to the assignment of _tools).
NoRollback == [][\A tb \in Tables : view'[tb] >= view[tb]]_view

\* Read your writes: once an admin call has returned, no request of this
\* process is answered from a snapshot that misses the change, even when the
\* refresh of that call failed and the failure was swallowed.  It needs the
\* clock to have run for a TTL when the process starts, since "invalidated"
\* is written as _loaded_at = 0.0.
Covers(n) == \A tb \in Tables : view[tb] >= n
AckedIsServed == Fresh => Covers(acked)

\* A snapshot that is served without a load was read less than TTL plus one
\* load ago: the stamp is taken at the end of the load, so the age of the
\* data is not bounded by the TTL alone.
BoundedStaleness == Fresh => now < readAt + TTL + MaxLoad

\* One load serves everybody who waited for it: a reader sends its SELECT
\* only if the snapshot was stale at the moment it got the lock.
StartsLoad(r) == pc[r] # "tools" /\ pc'[r] = "tools"
ReadersShareOneLoad == [][\A r \in Readers : StartsLoad(r) => ~Fresh]_vars

\* If every load ends, with rows or with an exception, every call of the
\* cache returns: however a load ends, it hands the lock on, and so does
\* whoever finds the snapshot fresh.  One SELECT without an answer would hold
\* all of them, for loads and waits alike have no timeout.
LoadsEnd == \A t \in Tasks : []<>~InLoad(t)
EveryCallReturns ==
  LoadsEnd => \A t \in Tasks : pc[t] # "idle" ~> pc[t] = "idle"

\* What the docstrings of ToolCache say and a load does not give: that the
\* snapshot is one the database was in, with all tables read at one commit.
IsCommitted(copy) ==
  \E c \in 0..Len(log) : \A k \in DOMAIN log : \A tb \in log[k] :
    k <= copy[tb] <=> k <= c
SnapshotIsACommit == Fresh => IsCommitted(view)

\* The process keeps the promise of ReadModel.
Promise == INSTANCE ReadModel
             WITH commits <- Len(log), usable <- Fresh
KeepsPromise == Promise!Spec

------------------------------------------------------------------------------
(* The inductive invariant behind the safety properties *)

\* Only the head of the lock's queue loads.
LockInv == \A t \in Tasks : InLoad(t) => lock # <<>> /\ Head(lock) = t

\* Nothing is ahead of the database.
SeenInv ==
  /\ \A tb \in Tables : view[tb] <= Len(log)
  /\ acked <= Len(log)
  /\ \A w \in Writers : mine[w] <= Len(log)

\* What a load has read is at least as new as the snapshot it will replace
\* and as every change that is, or at its end will be, acknowledged.
RowsInv ==
  \A t \in Tasks : HoldsRows(t) =>
    /\ \A tb \in Tables :
         /\ view[tb] <= rows[t].asOf[tb] /\ rows[t].asOf[tb] <= Len(log)
         /\ acked <= rows[t].asOf[tb]
         /\ t \in Writers => mine[t] <= rows[t].asOf[tb]
    /\ rows[t].at <= now /\ now <= rows[t].at + MaxLoad

\* A forced load runs with the snapshot marked stale, so if it fails the
\* snapshot stays stale; a stamp other than 0 vouches for the snapshot.
StampInv ==
  /\ \A t \in Tasks \ Readers : InLoad(t) => loadedAt = 0
  /\ loadedAt # 0 => Covers(acked) /\ loadedAt <= readAt + MaxLoad
  /\ BootTime <= now

IInv == TypeOK /\ LockInv /\ SeenInv /\ RowsInv /\ StampInv
==============================================================================
