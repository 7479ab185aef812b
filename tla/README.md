# A verification project for chat-gw

chat-gw is a gateway between a chat front end (LobeChat, an MCP client) and a
catalogue of tools. It verifies a token, resolves roles, shows a caller the
tools granted to it, dispatches `tools/call` to one of three dispatchers (plain
HTTP, a remote MCP server, a Daytona sandbox), and writes an audit row. Several
identical processes run behind a balancer and share one Postgres and one Redis.
Within a process everything is asyncio: a coroutine runs from one `await` to
the next without interruption, so an action of a model is always such a
stretch, and what may interleave is exactly what the code awaits.

## 1. The system

| part | code (`src/app/`) | state | operations | talks to |
|---|---|---|---|---|
| registry cache | `registry/cache.py`, `repo.py`, `service.py` | snapshot, stamp, lock | `ensure_fresh`, `invalidate_and_reload`, `snapshot`, `get` | Postgres; called by the handler, admin API, NOTIFY callback, `/readyz` |
| NOTIFY listener | `db/notify.py`, `main.py`, triggers in `migrations/001_schema.sql` | one connection, pending callbacks | `_run`, `_handle` | Postgres, cache |
| list-changed push | `mcp/streamable.py` (GET), `registry/cache.py` | a bounded queue per stream | `subscribe`, `_broadcast`, `unsubscribe` | cache, clients |
| MCP handler | `mcp/handler.py`, `mcp/streamable.py` (POST) | none between requests | `initialize`, `tools/list`, `tools/call`, batches | cache, dispatchers, audit |
| audit writer | `audit/writer.py` | the audit table | `log` | Postgres |
| HTTP adapter | `dispatchers/http_adapter.py`, `registry.py` | connection pool | `invoke` = map parameters, send with retries, interpret | upstreams |
| MCP proxy | `dispatchers/mcp_proxy.py` | sessions by (remote, identity), locks | `invoke`, `_ensure_initialized` | remote MCP servers |
| Daytona adapter | `dispatchers/daytona.py` | none | create, run, delete a sandbox | Daytona |
| admin API | `admin/*.py` | rows of tools and grants | upsert, patch, delete, grant, revoke, list | Postgres, cache |
| audit query API | `admin/audit.py` | none | one page by keyset | Postgres |
| legacy SSE | `mcp/sse.py` | sessions with a queue of 64 | open, post, close | handler |
| authentication | `auth/dependency.py`, `jwt_verify.py`, `external/gongdan.py` | none between requests | `authenticate` | JWKS cache, role resolver, gongdan |
| JWKS cache | `auth/jwks.py` | keys, two stamps, lock | `get`, `_refresh` | Casdoor |
| role resolver | `auth/roles.py`, `casdoor.py` | Redis key per user | `resolve`, `invalidate` | Redis, Casdoor |
| settings, health | `settings/*.py`, `api/health.py` | none | start-up checks, `/readyz` | all of the above |
| migrations, scripts | `migrations/`, `scripts/` | none | SQL seeds, an importer, smoke tests | |

What is hard in it:

- many coroutines over one cache and one lock, with loads that fail, a clock
  that decides what is stale, and a snapshot that is read in three statements;
- a push whose way leads over a LISTEN connection, a callback, a forced load, a
  bounded queue and a second HTTP request, and that any of them may lose;
- calls that have effects elsewhere: retries and timeouts must not repeat a
  user's action, a dispatched call must leave an audit row, a sandbox must be
  deleted, an MCP session must not be shared between identities;
- roles that come from a token, a cache or a directory, are cached by requests that
  overlap, and may be older than the token they are given to;
- handlers that read a row, wait, and write it, or look a session up, wait, and
  use it;
- failures that are swallowed on purpose (audit insert, forced refresh, sandbox
  delete, JWKS fetch, Redis), where the rest has to be right all the same.

`PROJECT.json` lists every component with its status, and every hazard at its
line with the properties that would catch it.

## 2. The modules

| module | models | checked by |
|---|---|---|
| `ReadModel` | abstract: a process's copy of the catalogue moves forward and, while usable, holds every acknowledged change | through `ToolCache` |
| `ToolCache` | the registry cache, with readers, admin writers and the NOTIFY callback as tasks | `MCToolCache` |
| `ToolCacheProofs` | theorems about `ToolCache` | tlapm |
| `ListChanged` | commit, NOTIFY, callback, forced load, broadcast, stream, list; several instances and clients | `MCListChanged` |
| `McpHandler` | POST /mcp: batches, calls, audit rows, replies, crashes | `MCMcpHandler` |
| `StreamableProofs` | theorems about `McpHandler` and `ListChanged` | tlapm |
| `Dispatch` | abstract: what a dispatcher owes the handler | through the next three |
| `HttpSend` | the send loop of the HTTP adapter over its pool, and an upstream that may act late | `MCHttpSend` |
| `HttpSendProofs` | theorems about `HttpSend` | tlapm |
| `McpProxy` | sessions, the handshake lock, calls, and remotes that restart | `MCMcpProxy` |
| `McpProxyProofs` | theorems about `McpProxy` | tlapm |
| `JwksCache` | key lookups, the refresh under its lock, a provider that rotates keys, and what `/readyz` makes of it | `MCJwksCache` |
| `DaytonaSandbox` | create, run, delete, and the sandboxes at Daytona | `MCDaytonaSandbox` |
| `DaytonaSandboxProofs` | theorems about `DaytonaSandbox` | tlapm |
| `Authenticate` | from a verified token to roles and customer, over Redis, Casdoor and gongdan | `MCAuthenticate` |
| `AuthProofs` | theorems about `JwksCache` and `Authenticate` | tlapm |
| `AdminTools` | concurrent admin requests on a tool and its grants | `MCAdminTools` |
| `SseSession` | legacy sessions: streams, POSTs, and the bounded queue between them | `MCSseSession` |
| `SseSessionProofs` | theorems about `SseSession` | tlapm |
| `AuditPaging` | walks through the audit log while it is written to | `MCAuditPaging` |
| `AdminProofs` | theorems about `AdminTools` and `AuditPaging` | tlapm |

`McpHandler` sees a dispatcher as one step that returns or raises; `Dispatch`
says what that step hides, and each dispatcher model implements it
(`KeepsContract`). `ToolCache` is the view of one process; `ListChanged` takes
its loads as steps and follows a change across processes and to the clients.
Where one module proves about two models, the names of one of them have a
prefix: `Push` in `ListChanged`, `Jwks` in `JwksCache`, `Paging` in
`AuditPaging`.
`AdminTools` is about the rows an admin request leaves behind, and takes the
refresh that `ToolCache` models as one step; `SseSession` takes what `McpHandler`
models as one step; `Authenticate` begins where `JwksCache` has found the key.

### ToolCache

State: `log`, the commits of the database, each the set of tables it touched;
`view`, the snapshot, as the commit up to which each table was read; `blank`,
"`_tools` is `[]`"; `loadedAt`, `_loaded_at`; `lock`, the queue of the asyncio
lock with its holder first; per task, `pc` and the rows its load has read. A
catalogue is abstracted to the version of each table it is read from, since the
properties ask only which changes it contains; `none` says whether the enabled
tools are none at all, because `is_fresh` treats an empty list as stale.

`Hit` is `ensure_fresh` on a fresh snapshot, `EnsureFresh` and `ForceRefresh`
take the lock or queue for it, `Wake...` is the lock being handed over (with the
second look for readers, and `_loaded_at = 0.0` for forced refreshes),
`SelectTools` and `SelectGrants` are the statements of
`fetch_all_enabled_tools`, `Install` the assignment, the stamp and the release,
`Fail` a load that raises. `Commit` is an admin handler's commit, which goes on to
the forced refresh and returns to its caller in `Return`; `RemoteCommit` is one
by another process.

### ListChanged

Per instance: the listener (`connecting`, `listening`, `deaf`), NOTIFYs on
their way (`notes`), callbacks waiting for the lock (`forced`), the running load,
what the instance has loaded and announced, and whether its snapshot is fresh.
Per client: where its stream is, its queue, whether it owes itself a
`tools/list`, and what it has seen. `Relist` is a list that reads a fresh
snapshot; where it is not, the list waits for the load it starts (`StartReader`),
or for the one in progress, as `list_for_principal` does.
`faulted[i]` records that instance i lost something: a commit it did not hear
of, or a load that failed. `Affinity` says whether a client's POSTs reach the
instance of its stream.

### McpHandler

A POST is a sequence of messages of the kinds the handler tells apart; `pos` is
the message at hand, `pc` the await it is suspended at. Audit rows and replies
are sequences of records that say which message they belong to. `Crash` ends the
process: requests in flight are cut off, the audit table stays.

### HttpSend, McpProxy, DaytonaSandbox

Each has a set of `Calls`, the coroutine's place per call, and the outside as
actions of its own: the upstream that carries out a request, once and at any
time after it was sent (`Run`, `RunLate`); the remotes that open sessions,
decline, run, turn away and restart; the Daytona service that makes, runs and
removes. So "the gateway gave up" and "it did not happen" are different things
in all three. Timeouts are steps that may be taken at any time while the
coroutine waits.

The times of `DaytonaSandbox` are integers of tenths of a second, so that `int()`
cuts something off (`Seconds`); `Text` and `TooBig` stand for what `float()`
raises at, which `invoke` catches for a requested text and for nothing else
(`Readable`). NaN and infinity are left out.

### JwksCache

A key is its kid; the cache is `keys` with its two stamps, the provider is
`offered` with, per kid, when it was last offered or withdrawn; `stage` is the
await a lookup is suspended at. `get[t]` keeps
what the local variables of `JwksCache.get` keep (the kid and `now`), whether it
came for the TTL, how often it fetched, and whether it met a fetch in progress.
`Get` is the code up to the first await, `Install`, `FetchFails` and `Raise`
are the three ends of a fetch, each with the rest of `get` behind it
(`Continue`), `Answer` is the provider's side of a fetch. `Gated` says that
requests come only to an instance whose `/readyz` is ready.

### Authenticate

A list of roles is represented by where it came from: the user it was said of,
its age, and by whom (the claim of a token, or the client of Casdoor, whose empty
list after a failure is an answer like any other). `store` is Redis, `pc` the await a request is
suspended at: the SETEX of claimed roles, the GET, the call to Casdoor, the SETEX
of its answer, the lookup at gongdan. `given` is what the last step returned.
Time is kept as ages that `Tick` lets grow, so that it needs no bound. A client
that is not configured is one that fails at once, and every call may fail:
`Miss` also stands for a GET that raises, `Fetched` for any failure of Casdoor but
the one that `get_user_roles` does not catch (`FetchRaises`), `NotFound` for a
missing customer and for an error of gongdan alike. `Reply` is gongdan's answer
and `Found` its arrival, so a customer may be lost in between; `gone` says for how
long it has been. A token of the staff names a customer by its code, a customer's
own by its id (`IsNamed`); the code, which is what the request gets, is taken to
be for good. `Lose` is `invalidate` or eviction.

### AdminTools

One tool name, its row, its grants, and requests of any kind. `Select` is the
SELECT each handler but `upsert_tool` begins with, `loaded` its result; `Write`,
`Delete`, `Grant` and `Revoke` are the commits that follow later, `Fail` the
statement that raises instead. `Updated` is what the unit of work sends: the columns that differ
from what was loaded, and a version counted from what was loaded. `touched`
records what other requests have committed since a request began, which
`AcknowledgedHolds` needs to tell overwriting from losing.

### SseSession

Per session: whether it is on record at its process, its stream, its queue, and
the response its generator has in hand; per POST, the await it is suspended at.
A stream that closes before its generator has begun (`unbegun`) has no finally
clause to run, and its session stays on record.

### AuditPaging

A row goes from `dated` over `inserted` to `rows`, or is lost; the administrator's
walk is `filter`, `cursor`, and the rows shown. `write_audit` dates a row by
its own clock: it has a parameter `started_at`, but the handler never gives it,
so `started_at` is the end of the call. `owed` is what the log held for the walk
when it began, and what has been committed below its cursor since. A row that is
committed above the cursor is missed by a walk that has passed it.

## 3. The runs

| run | shows |
|---|---|
| `tool_cache` | `AckedIsServed`: an acknowledged edit is in every snapshot served as fresh, failed refreshes included. `BoundedStaleness`: a fresh snapshot is younger than the TTL plus one load. `KeepsPromise`: `ToolCache` implements `ReadModel`. `ReadersShareOneLoad`: no reader that waited loads again what is fresh. `EveryCallReturns`: if loads end, behind any queue and any failed load. |
| `list_changed` | `AnnouncementsReachTheList`: dropping at a full queue loses nothing. `ChangesAreOnTheirWay`: without faults every change has a carrier. `HealthyPushReachesEveryClient`: and, if loads end, it arrives. |
| `mcp_handler` | `DispatchedIsAccounted`: no call that was dispatched is left behind without a row, answered or not, but one the database refused. `RowsMatchReplies`, `OneReplyPerMessage`. |
| `http_send` | `NeverReplaysUserAction`: a call with the user's token is carried out once at most, also by an upstream that acts late. `UsesEveryAttempt`: no other call gives up before its retries are used. `TellsTheLastEnding`: the caller gets the kind of error its last request met. `KeepsContract`. `EveryCallReturns`: a call whose own requests end returns, though those of others hold the pool for ever. |
| `mcp_proxy` | `OneHandshake`, `OwnSession`, `CarriesTheSession`, `KeepsContract`; `EveryCallReturns`: if POSTs end, behind any failed handshake. |
| `jwks` | `OneFetchPerGet`; `RotationIsFollowed`: a key offered for longer than the cooldown is found; `WithdrawnKeyExpires`: one withdrawn is accepted no longer than the TTL and a fetch; `EveryGetReturns`, if fetches end. |
| `daytona` | `TypeOK`, with `TimeIsBounded`: whatever is configured and asked for, code gets whole seconds within the cap in force, and at least one unless that is below a second; `NoSandboxLeftBehind`, `CleanUpIsSilent`, `KeepsContract`. |
| `authenticate` | `GivenRolesAreRecent`: roles are the user's own, those of the token if it has any, and otherwise no older than token, cache and two requests allow. `CustomerIsConfirmed`: a token that names a customer is served under that customer's code, and gongdan has it, or lost it no longer ago than a request takes. |
| `admin_tools` | `AcknowledgedHolds`: an acknowledged edit, grant, revocation or deletion holds until a request meant to change it commits. `GrantsAreMeant`: a grant is of the tool it was given for, also when that was deleted and made anew. `IInv`: the inductive invariant behind both. |
| `sse_session` | `AcceptedIsOnItsWay`: a response accepted with 202 is in one place, once. `PostsAreAnswered`: a POST whose handler ends returns and its response arrives, unless the stream closes. |
| `audit_paging` | `PagesDescend`: no row twice and none out of order. `WalkIsComplete`: nothing left out that was there at the start, or was committed below the cursor since. `NoEmptyPage`. `PagingInv`: why, with ids drawn once and the invariant of the cursor. |

One run ends in a counterexample, against a sentence of the repository:
`list_changed_deaf`, where the LISTEN connection breaks and is never made again
(`azure-runbook.md:219-221`).

More configurations are kept beside the listed runs; run them with
`tlc -config X.cfg MCModule`. In these TLC finds the property violated, and the
code does what the counterexample shows:

| configuration | what happens | against |
|---|---|---|
| `ToolCacheTorn` | a commit falls between the SELECTs of a load and the snapshot shows half of it | `registry/cache.py:66` |
| `ToolCacheBoot` | a forced refresh fails while the monotonic clock is younger than the TTL | |
| `ListChangedGap` | a commit before LISTEN | `azure-runbook.md:219-221` |
| `ListChangedFailed` | a forced load that raises is not repeated | the same |
| `ListChangedSpread` | without affinity a client lists at another instance | the same |
| `McpHandlerUnaudited` | a bad `input_schema`, or a failed refresh, ends a call past its audit | `README.md:263-264` |
| `McpProxyInit` | an error in the answer to `initialize` is ignored | `README.md:205-206` |
| `McpProxyDead` | a session the remote has disowned is used for the next call | design document, lines 547-548 |
| `DaytonaOrphan` | a create that times out here and succeeds there is never deleted | `dispatchers/daytona.py:19-21` |
| `DaytonaHardCap` | a tool's `max_timeout_sec` above 300 replaces the cap of 300 seconds | `README.md:32` and `211-212`, design document, lines 553-554 |
| `AuthenticateMinute` | roles a token claims are in force for the life of the token, and cached on top of that | design document, line 774 |
| `JwksCacheReady` | an instance that gets requests only when ready never gets ready, since only a request fetches keys | `azure-runbook.md:273-274` |
| `SseSessionSpread` | without affinity (`azure-runbook.md:40` turns it off) a POST is told "unknown session" while its stream is open | `README.md:118-120` |
| `AdminToolsVersion` | a patch that overlaps an upsert changes the tool and not its version | `admin/tools.py:43` |

The design document is `docs/superpowers/specs/2026-04-22-chat-gw-design.md`.
More sentences of the repository the models do not agree with, met while they
were written: "read paths never block on DB" (readers of an expired snapshot wait
for its load); the docstring of `GenericHttpAdapter` on retries (they follow
timeouts and broken connections too); the docstring of the Daytona adapter on
`default_timeout_sec` (the code reads `timeout_sec` of the tool's config); and the
design document, lines 164 and 217-227, which has cached roles read first and win,
where `auth/roles.py:45-48` has those of the token win and overwrite the cache.
`GivenRolesAreRecent` says what the code does, and how old roles get by it.

Every property of a passing run has a mutant in `PROJECT.json`: a plausible
slip in one definition under which the same run fails. The mutated operators
stand before the definitions they replace.

### Bounds

- `ToolCache`: two readers, one writer, one NOTIFY callback: enough for a
  holder, a waiter who benefits and a waiter who must not; one commit, so
  that a load can begin before it and end after it; a TTL and a load time of one
  tick, and three ticks, so that snapshots expire while loads run.
  `ToolCacheTorn` and `ToolCacheBoot` have two commits and longer clocks.
- `ListChanged`: one instance suffices where a client stays with its instance
  (`Affinity`), since instances then share nothing but the log; two clients, two
  commits against a queue of one, one fault of each kind. `ListChangedSpread`
  has two instances.
- `McpHandler`: batches of up to two messages of any kind, so that each follows
  each; tools that are good, unrouted and badly described; two edits of the
  grant, so that it goes and comes back.
- `HttpSend`: two calls over one connection, with none, one and two retries, and
  a negative number of them.
- `McpProxy`: two calls, two identities, a stateful and a stateless remote, one
  restart.
- `JwksCache`: two lookups, two kids, one rotation of any kind, a fetch that takes
  longer than the cooldown, and a clock that passes the TTL.
- `Authenticate`: two requests, so that they overlap and the slower one writes
  last; two users, and one customer that gongdan may gain or lose; a TTL, a
  token's life and a request of one tick each, with which the bounds of
  `GivenRolesAreRecent` and of `CustomerIsConfirmed` are met exactly. That a
  request takes at most `MaxWait` is assumed: the Redis client has no timeout, and
  those of the HTTP clients are for each read.
- `AdminTools`: three requests of any kind, so that a tool can be deleted and
  made anew under a third; two columns, two values, one grantee.
- `SseSession`: two sessions at one process, a queue of one, three POSTs: one in
  the queue, and two waiting. `SseSessionSpread` has two processes.
- `AuditPaging`: three rows of two kinds at two dates, pages of one and two rows;
  with three rows a walk has a page above, below and at its cursor.
- `DaytonaSandbox`: one call, as calls share nothing; times asked for that are
  missing, negative, zero, below a second, ordinary, above every cap, and no
  numbers, with caps that are missing, fractional, below a second, zero,
  negative, above 300 seconds, and no numbers.

`MaxCommits`, `MaxDrops`, `MaxFails`, `MaxCloses`, `MaxEdits`,
`MaxItems`, `MaxRestarts`, `MaxRotations`, `MaxTime` and `MaxWrites` bound the models and nothing in the code. They say
how often the outside acts; they appear in guards of those actions only.
`MaxLoad` and `MaxFetch` are the longest a load and a fetch take in ticks, which
`BoundedStaleness` and `WithdrawnKeyExpires` are stated with. They are assumptions:
`db/engine.py:10-17` sets no timeout on a statement, and the ten seconds of
`auth/jwks.py:60` are for each read of an answer. A longer load makes a snapshot
staler by as much.

### Fairness

Weak fairness of what the event loop does on its own: a coroutine that is handed a
lock goes on, a put that has room is woken, a pause ends, a wait for a connection
of the pool ends (`httpx.Timeout` bounds it as a whole), and a client that is
connected reads its queue. asyncio locks are first in, first out, and the models
keep their queue, so no stronger fairness is needed. `ListChanged` has no such
queue and takes strong fairness instead: of the forced load, which other loads do
not overtake for ever, and of a list, which reads the snapshot in the step in
which the load it waited for ends.

Nothing makes Postgres, an upstream or a handler answer. `db/engine.py` sets no
timeout on a statement, and the timeouts of httpx are for each read or write, so
an upstream that sends a byte now and then holds a request for ever. Where a
return depends on that, it is the hypothesis of the property: `LoadsEnd` in
`ToolCache` and `ListChanged`, `FetchesEnd` in `JwksCache`, `PostsEnd` in
`McpProxy`, `RequestsEnd` in `HttpSend` (of the call's own requests only),
`HandlerEnds` in `SseSession`. An operation that ends may have failed; what the
properties say is that nothing else stands in the way, above all no lock that a
failure leaves held. Nor must the outside do anything: commits, restarts, breaks,
edits and crashes need not happen.

Where the system may stop, `CHECK_DEADLOCK FALSE` is set: calls and requests end
and do not come back. In `ToolCache`, `JwksCache`, `Authenticate` and
`AuditPaging` tasks return to idle, and deadlock is checked. No liveness is claimed
for `McpHandler`, `DaytonaSandbox`, `Authenticate`, `AdminTools` and
`AuditPaging`, whose steps are calls of Postgres, Redis, upstreams and the SDK.

## 4. The proofs

Eight modules of theorems, checked by tlapm for every value of the constants that
meets the assumption its model names (`TasksAssumption` and `BoundsAssumption`
of `ToolCache`, and one of each other model). These say that the counts and
bounds are natural numbers, that a queue has room for one, and that names which
stand for nothing are not names of something.

Every safety invariant and action property of a passing run is a theorem, and so are
the four refinements. Each rests on an inductive invariant that stands at the end
of its model; TLC has checked that at the bounds of the run before
it was proved. In all of them `Invariance` takes it through the steps one action
at a time.

**ToolCache.** `Invariance` shows `IInv` inductive: `TypeOK` and four parts.
`LockInv`: only the head of the lock's queue is inside a load, which is what
makes the other parts survive an `Install`. `RowsInv`: what a load has read is
at least as new as the snapshot it will replace and as every change that is or
will be acknowledged by it; without it neither `NoRollback` nor
`AckedIsServed` is inductive, as both are broken by an install of old rows.
`StampInv`: a forced load runs with the stamp at 0, and any other stamp vouches
for the snapshot. `SeenInv`: nothing is ahead of the database. From it follow
`TypeCorrectness`, `StalenessBound`, `Monotone` (`NoRollback`),
`OneLoad` (`ReadersShareOneLoad`), `ReadYourWrites` (`AckedIsServed`) and
`Refinement` (`KeepsPromise`). The last two take `BootAssumption` as a hypothesis: the monotonic clock is past the TTL
when the process starts. It is needed: "invalid" is written as stamp 0.0, and
`ToolCacheBoot` is the counterexample without it.

**ListChanged.** `PushInv`. That a dropped announcement is harmless
(`DroppingIsHarmless`) says: a client that is to see less than was
announced to it has an announcement in its queue, or is about to list. It breaks
if a list could show less than an announcement promised, so `ForwardInv` puts the
three in order: what was announced is in the snapshot, a load in progress has
read no less, and neither is ahead of the database. Forced loads of an instance
follow each other under the lock, so an older one cannot take an announcement
back. `NoChangeIsForgotten` (`ChangesAreOnTheirWay`) is inductive with it;
`CountInv` is only for the types.

**McpHandler.** `IInv` relates a request to the batch it walks through. `PlaceInv`
says where it stands, `RepliesInv` that the replies are those of the messages
before that place, in order; `LogInv` that the audit log, the rows that were
lost and the calls that were dispatched are about messages behind it, or the one in
hand; `RowInv` what a suspended call has done so far. `DispatchedIsAccounted`
and `RowsMatchReplies` are inductive with these: a call has no second row since its
first put the request behind it. `OneReply` follows at the answer, where everything
is behind. A crash keeps the log and stops the walk.

**McpProxy.** `IInv` follows the handshake lock. `Queued`: whoever waits for it, or
sends `initialize`, is in its queue, so a release is never of an empty one.
`HoldsTheLock`: the call that sends `initialize` is at the head, and nothing is on
record for its remote and identity yet. Hence two calls are never at it at once for
one key, and no handshake replaces what another put on record
(`HandshakeIsFinal`). `SessionsInv`: a session on record was issued for that key; with it
`OwnSession` and `CarriesTheSession` survive the wait for another call's
handshake. `AskedInv` counts what a call asked for, which gives `Refinement`
(`KeepsContract`): one `tools/call`, carried out once at most.

**JwksCache.** `JwksInv` has four parts beside the types. `LockInv`: one fetch at a
time, by the head of the queue. `SinceInv`: a lookup inside a fetch has a clock no
later than the stamp of that attempt; hence the cooldown forbids it a second
one, which is `FetchesOnce`. `BodyInv` and `KeysInv`: wherever an answer, and then
the cache, differs from what the provider offers, the provider changed since the
attempt was stamped. Neither `WithdrawalHolds` nor `RotationHolds` is inductive:
both speak of a provider's clock the cache never sees, and these two parts carry
it through the fetch. `KeysSurvive` needs no invariant.

**HttpSend.** `Invariance` shows `IInv` inductive: `CountInv` balances what was
carried out, what may yet be and what is in flight against the requests sent,
and these against `attempt`; `ResultInv` ties results to the place in the loop;
and `TellsTheLastEnding` and `UsesEveryAttempt` themselves are inductive with
them (`LastEndingTold`, `GivesUpAsConfigured`). `NeverReplaysUserAction` follows since a call with the user's token has no retries. `AnswerIsFinal`
and `Refinement` (`KeepsContract`) are step by step from it.

**DaytonaSandbox.** A step changes the fields of one call (`OneCall`), so `IInv` is
proved call by call. `TimeInv`: the time is settled before the sandbox is ordered,
within the cap in force if that is a number, which `TypeCorrectness` says of code
that was sent. The assumption lets every timeout be any integer of tenths of a
second, or no number; `SecondsType` and `TimeType` say what the clamp and `int()`
make of them. `TriesInv`
counts the deletes by place; without it neither `SandboxDeleted` nor
`SilentCleanUp` is inductive, as both speak of the end and depend on how often
the clean-up was tried on the way. `AnswerInv`: no answer before the end, no code
sent by a call that was refused, and "ok" only of code that ran; from it
`Refinement` (`KeepsContract`), also where the service acts after the gateway
has given up.

**Authenticate.** `GivenRolesAreRecent` looks at the step that returns, and what
makes it true is spread over Redis and other requests. `IInv` carries it there:
`EntryIsBounded` bounds the age of a cached list *and* its remaining life
together, which a tick leaves alone and a hit must not renew;
`RequestIsBounded` bounds the roles a request has at hand by where it stands and
how long it has run, and says that roles in the claims are the ones at hand all
the way. `ReplyIsRecent` does the same for a customer: gongdan had it when it
answered, so it is gone no longer than the request has run. `Invariance` shows it
inductive, one step per action; `TypeCorrectness` is part of it, and `RolesRecent`
and `CustomerConfirmed` look at the returning steps. There is no bound on users, requests, or time.

**AdminTools.** Each part of `IInv` speaks of one request. `RequestInv`: ids are
drawn once, so a row with the id a request has loaded is the row it has loaded.
`LoadedInv`: until the request writes, whatever nobody touched of that row is as it
was loaded; hence an UPDATE of the columns that differ leaves the row as asked,
also in the columns it does not name. `CommittedInv`: what was committed holds, but
for what others were meant to change. A step of another request either commits
nothing (`QuietForOthers`) or changes only what it is meant to (`OnlyMeant`,
`CommitForOthers`); each commit is shown to be of that kind. `GrantsAreMeant` is
inductive with them and is itself needed: a new row has no grants. `Acknowledged`
and `GrantsMeant` are parts of the invariant.

**SseSession.** `Places` lists a session's responses: those the client has, the one
in hand, those in the queue. That it stays free of repetitions (`OnceInv`) needs
facts about sequences, which come first: taking the head of the queue and
sending it leave the list as it is (`TakenStays`, `SentStays`), a put appends to it
(`PutGoesLast`, `AppendOnce`), and a closing stream drops one from the middle
(`DropOne`). A put is of a POST that has no answer, and only POSTs answered 202
are in a list (`AcceptedIsOnItsWay`), so what is appended is new. `SessionInv`:
nobody posts before the stream has told where, so a stream that begins finds
nothing of its own, and a session is on record until its stream has closed.
From that `AffinitySuffices`: `RespondsOnTheStream`, which `SseSessionSpread`
refutes, holds if `Affinity` does; that hypothesis is all it lacks.

**AuditPaging.** The query comes first. That a finite set of rows has a newest
and an oldest (`Highest`, `Lowest`) rests on the well-foundedness of strict inclusion,
which stands in for an induction over the log; `FirstFacts` says what LIMIT
returns, and `PageFacts` what an answer and its cursor do. `PagingInv` adds `LogInv`
(a write is inserted once, with an id nobody else has, so date and id are a total
order) and `CursorInv` (nothing shown is below the cursor, and something to show
is); `PagesDescend`, `NoEmptyPage` and `OwedIsAhead` are inductive with these, and
`WalkIsComplete` follows. The size of the log and the clock are bounded by
constants of any value.

Only model-checked: liveness (`EveryCallReturns`, `EveryGetReturns`,
`HealthyPushReachesEveryClient`, `PostsAreAnswered`), since the prover handles neither fairness nor ENABLED. And
the counterexamples of section 3, which are about instances.

## 5. Not modelled, and the plan

Not modelled for good: the SQL of the seeds and the scripts, wiring and
configuration, log lines, the text of messages, signatures of tokens, and the
shapes of JSON, except where they decide control. The sensitive-data scan and
the mapping of parameters to requests are pure functions over data without
state; start-up validation is one over the environment. The lists of the admin
API are plain reads.

Next: the pure parts, as operators checked over bounded inputs (parameter
mapping of the HTTP adapter, start-up validation and readiness, the scan).

Proofs to come: that the sentences some counterexample refutes hold where the
code's condition is met, as `AffinitySuffices` does for `SseSession`; and the
safety half of the liveness properties, that a call which has not returned can
always take a step.
