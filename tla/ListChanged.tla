----------------------------- MODULE ListChanged -----------------------------
(***************************************************************************)
(* How a change of the catalogue reaches the clients: a Postgres trigger   *)
(* sends NOTIFY tools_changed, the listener of every gateway instance      *)
(* (app/db/notify.py) starts a forced refresh of its cache for each one    *)
(* (app/main.py), the refresh announces itself to the queues of the open   *)
(* GET /mcp streams (app/registry/cache.py, app/mcp/streamable.py), and a  *)
(* client that reads the announcement asks for tools/list again.           *)
(*                                                                         *)
(* The loads of one instance exclude each other (ToolCache shows how), so  *)
(* an instance has at most one load here; a catalogue is the number of     *)
(* commits it contains.                                                    *)
(***************************************************************************)
EXTENDS Naturals, FiniteSets

CONSTANTS Instances,    \* gateway processes
          Clients,      \* MCP clients that keep a GET /mcp stream open
          Nowhere,      \* not an instance: no stream, or a script
          QueueSize,    \* maxsize of a subscriber's queue
          Affinity,     \* a client's POSTs reach the instance of its stream
          ListenAtStart,  \* LISTEN is in place before the first commit
          MaxCommits,   \* bound: commits
          MaxDrops,     \* bound: LISTEN connections that break
          MaxFails,     \* bound: loads that raise
          MaxCloses     \* bound: streams that are closed

ASSUME ListChangedAssumption ==
  /\ Nowhere \notin Instances
  /\ {Affinity, ListenAtStart} \subseteq BOOLEAN
  /\ QueueSize \in Nat \ {0}
  /\ {MaxCommits, MaxDrops, MaxFails, MaxCloses} \subseteq Nat

VARIABLES commits,   \* changes the database has committed
          listener,  \* per instance: the state of PgNotifyListener
          notes,     \* per instance: NOTIFYs sent and not yet handled
          forced,    \* per instance: force_refresh calls not yet loading
          load,      \* per instance: the load in progress
          view,      \* per instance: the snapshot
          fresh,     \* per instance: is_fresh, a list needs no load
          told,      \* per instance: the snapshot last announced
          faulted,   \* per instance: a NOTIFY was lost or a refresh failed
          stream,    \* per client: the instance of its stream, or Nowhere
          queue,     \* per client: announcements in its queue
          relist,    \* per client: it has a reason to ask for tools/list
          seen,      \* per client: the catalogue it last got
          faults     \* how many faults of each kind have happened

pushVars == <<commits, listener, notes, forced, load, view, fresh, told,
          faulted, stream, queue, relist, seen, faults>>
clientVars == <<stream, queue, relist, seen>>
cacheVars == <<forced, load, view, fresh, told>>

NoLoad == [kind |-> "none", has |-> 0]
Kinds == {"none", "reader", "forced"}
Streams(i) == {c \in Clients : stream[c] = i}

\* The first load of the lifespan has been made or has failed; LISTEN is sent
\* later, by a task of its own.
PushInit ==
  /\ commits = 0
  /\ listener = [i \in Instances |->
                   IF ListenAtStart THEN "listening" ELSE "connecting"]
  /\ notes = [i \in Instances |-> 0]
  /\ forced = [i \in Instances |-> 0]
  /\ load = [i \in Instances |-> NoLoad]
  /\ view = [i \in Instances |-> 0]
  /\ fresh \in [Instances -> BOOLEAN]
  /\ told = [i \in Instances |-> 0]
  /\ faulted = [i \in Instances |-> FALSE]
  /\ stream = [c \in Clients |-> Nowhere]
  /\ queue = [c \in Clients |-> 0]
  /\ relist = [c \in Clients |-> FALSE]
  /\ seen = [c \in Clients |-> 0]
  /\ faults = [drops |-> 0, fails |-> 0, closes |-> 0]

------------------------------------------------------------------------------
(* The database and the listeners *)

\* A commit at an instance's admin API, or of a script.  The trigger's
\* NOTIFY goes to every session that listens; the admin handler refreshes
\* its own instance too.
Commit(at) ==
  /\ commits < MaxCommits
  /\ commits' = commits + 1
  /\ notes' = [i \in Instances |->
                 IF listener[i] = "listening" THEN notes[i] + 1 ELSE notes[i]]
  /\ faulted' = [i \in Instances |->
                   faulted[i] \/ listener[i] # "listening"]
  /\ forced' = [i \in Instances |->
                  IF i = at THEN forced[i] + 1 ELSE forced[i]]
  /\ UNCHANGED <<listener, load, view, fresh, told, clientVars, faults>>

\* connect and add_listener; nothing is loaded for what was missed before.
Listen(i) ==
  /\ listener[i] = "connecting"
  /\ listener' = [listener EXCEPT ![i] = "listening"]
  /\ UNCHANGED <<commits, notes, cacheVars, faulted, clientVars, faults>>

\* The connection breaks.  _run sleeps in its inner loop, sees no exception
\* and never connects again.
ConnectionLost(i) ==
  /\ listener[i] = "listening"
  /\ faults.drops < MaxDrops
  /\ faults' = [faults EXCEPT !.drops = @ + 1]
  /\ listener' = [listener EXCEPT ![i] = "deaf"]
  /\ faulted' = [faulted EXCEPT ![i] = @ \/ notes[i] > 0]
  /\ notes' = [notes EXCEPT ![i] = 0]
  /\ UNCHANGED <<commits, cacheVars, clientVars>>

\* A wrong economy: a refresh that is running covers this NOTIFY as well.
HandleCoalesced(i) ==
  /\ notes[i] > 0
  /\ notes' = [notes EXCEPT ![i] = @ - 1]
  /\ forced' = [forced EXCEPT ![i] = IF load[i] = NoLoad THEN @ + 1 ELSE @]
  /\ UNCHANGED <<commits, listener, load, view, fresh, told, faulted,
                 clientVars, faults>>

\* _handle: one task per NOTIFY, and the task calls force_refresh.
Handle(i) ==
  /\ notes[i] > 0
  /\ notes' = [notes EXCEPT ![i] = @ - 1]
  /\ forced' = [forced EXCEPT ![i] = @ + 1]
  /\ UNCHANGED <<commits, listener, load, view, fresh, told, faulted,
                 clientVars, faults>>

------------------------------------------------------------------------------
(* The cache of an instance *)

\* The snapshot is older than the TTL (or holds no tool, which is never
\* fresh).
Expire(i) ==
  /\ fresh[i]
  /\ fresh' = [fresh EXCEPT ![i] = FALSE]
  /\ UNCHANGED <<commits, listener, notes, forced, load, view, told, faulted,
                 clientVars, faults>>

\* A load reads the catalogue as it is now and installs it later.  A forced
\* one marks the old snapshot stale first.
StartForced(i) ==
  /\ load[i] = NoLoad
  /\ forced[i] > 0
  /\ forced' = [forced EXCEPT ![i] = @ - 1]
  /\ load' = [load EXCEPT ![i] = [kind |-> "forced", has |-> commits]]
  /\ fresh' = [fresh EXCEPT ![i] = FALSE]
  /\ UNCHANGED <<commits, listener, notes, view, told, faulted, clientVars,
                 faults>>

\* A request, of a client here or of any other, finds the snapshot stale.
StartReader(i) ==
  /\ load[i] = NoLoad
  /\ ~fresh[i]
  /\ load' = [load EXCEPT ![i] = [kind |-> "reader", has |-> commits]]
  /\ UNCHANGED <<commits, listener, notes, forced, view, fresh, told, faulted,
                 clientVars, faults>>

\* put_nowait into every queue; a full queue drops the announcement.
BroadcastNone(i) == UNCHANGED queue
BroadcastClearing(i) ==
  queue' = [c \in Clients |->
              CASE stream[c] # i -> queue[c]
                [] queue[c] = QueueSize -> 0
                [] OTHER -> queue[c] + 1]
Broadcast(i) ==
  queue' = [c \in Clients |->
              IF stream[c] = i /\ queue[c] < QueueSize
                THEN queue[c] + 1 ELSE queue[c]]

\* Only a forced refresh announces what it loaded.
Finish(i) ==
  /\ load[i].kind \in {"forced", "reader"}
  /\ view' = [view EXCEPT ![i] = load[i].has]
  /\ fresh' = [fresh EXCEPT ![i] = TRUE]
  /\ load' = [load EXCEPT ![i] = NoLoad]
  /\ IF load[i].kind = "forced"
       THEN /\ told' = [told EXCEPT ![i] = load[i].has]
            /\ Broadcast(i)
       ELSE UNCHANGED <<told, queue>>
  /\ UNCHANGED <<commits, listener, notes, forced, faulted, stream, relist,
                 seen, faults>>

\* A load raises, and the snapshot stays stale.  The callback or the admin
\* handler swallows the exception of a forced one, and nothing is announced;
\* a reader's caller gets an error, and asks again if it still wants to know.
Fail(i) ==
  /\ load[i] # NoLoad
  /\ faults.fails < MaxFails
  /\ faults' = [faults EXCEPT !.fails = @ + 1]
  /\ load' = [load EXCEPT ![i] = NoLoad]
  /\ faulted' = [faulted EXCEPT ![i] = @ \/ load[i].kind = "forced"]
  /\ UNCHANGED <<commits, listener, notes, forced, view, fresh, told,
                 clientVars>>

------------------------------------------------------------------------------
(* The clients *)

\* GET /mcp: subscribe, then the first event of the stream.  A client lists
\* the tools after it has opened its stream.
Open(c, i) ==
  /\ stream[c] = Nowhere
  /\ stream' = [stream EXCEPT ![c] = i]
  /\ queue' = [queue EXCEPT ![c] = 0]
  /\ relist' = [relist EXCEPT ![c] = TRUE]
  /\ UNCHANGED <<commits, listener, notes, cacheVars, faulted, seen, faults>>

\* The stream ends; the generator's finally removes the queue.
Close(c) ==
  /\ stream[c] # Nowhere
  /\ faults.closes < MaxCloses
  /\ faults' = [faults EXCEPT !.closes = @ + 1]
  /\ stream' = [stream EXCEPT ![c] = Nowhere]
  /\ queue' = [queue EXCEPT ![c] = 0]
  /\ UNCHANGED <<commits, listener, notes, cacheVars, faulted, relist, seen>>

\* queue.get and the event on the wire.
Receive(c) ==
  /\ queue[c] > 0
  /\ queue' = [queue EXCEPT ![c] = @ - 1]
  /\ relist' = [relist EXCEPT ![c] = TRUE]
  /\ UNCHANGED <<commits, listener, notes, cacheVars, faulted, stream, seen,
                 faults>>

\* POST /mcp tools/list, at the instance the load balancer picks: it awaits
\* refresh_if_stale and reads the snapshot that is fresh then.
Asks(c, i) == relist[c] /\ (Affinity => i = stream[c])
Relist(c) ==
  /\ \E i \in Instances :
       /\ Asks(c, i)
       /\ fresh[i]
       /\ seen' = [seen EXCEPT ![c] = view[i]]
  /\ relist' = [relist EXCEPT ![c] = FALSE]
  /\ UNCHANGED <<commits, listener, notes, cacheVars, faulted, stream, queue,
                 faults>>

------------------------------------------------------------------------------
PushNext ==
  \/ \E at \in Instances \union {Nowhere} : Commit(at)
  \/ \E i \in Instances :
       \/ Listen(i) \/ ConnectionLost(i) \/ Handle(i) \/ Expire(i)
       \/ StartForced(i) \/ StartReader(i) \/ Finish(i) \/ Fail(i)
  \/ \E c \in Clients :
       \/ \E i \in Instances : Open(c, i)
       \/ Close(c) \/ Receive(c) \/ Relist(c)

\* The event loops run what can run; connected clients read their streams
\* and list when they have a reason.  The lock of the cache is first come,
\* first served, so other loads do not overtake a forced one for ever; and a
\* list reads the snapshot in the very step in which the load it waited for
\* ends, so expiries do not overtake it for ever.  Nothing must commit, break,
\* open, close or expire, and nothing makes Postgres answer a load.
Fairness ==
  /\ \A i \in Instances :
       /\ WF_pushVars(Listen(i))
       /\ WF_pushVars(Handle(i))
       /\ SF_pushVars(StartForced(i))
       /\ WF_pushVars((\E c \in Clients : Asks(c, i)) /\ StartReader(i))
  /\ \A c \in Clients : WF_pushVars(Receive(c)) /\ SF_pushVars(Relist(c))

PushSpec == PushInit /\ [][PushNext]_pushVars /\ Fairness

------------------------------------------------------------------------------
(* Properties *)

PushTypeOK ==
  /\ commits \in 0..MaxCommits
  /\ listener \in [Instances -> {"connecting", "listening", "deaf"}]
  /\ notes \in [Instances -> 0..MaxCommits]
  /\ forced \in [Instances -> 0..2 * MaxCommits]
  /\ load \in [Instances -> [kind : Kinds, has : 0..MaxCommits]]
  /\ view \in [Instances -> 0..MaxCommits]
  /\ fresh \in [Instances -> BOOLEAN]
  /\ told \in [Instances -> 0..MaxCommits]
  /\ faulted \in [Instances -> BOOLEAN]
  /\ stream \in [Clients -> Instances \union {Nowhere}]
  /\ queue \in [Clients -> 0..QueueSize]
  /\ relist \in [Clients -> BOOLEAN]
  /\ seen \in [Clients -> 0..MaxCommits]
  /\ faults \in
       [drops : 0..MaxDrops, fails : 0..MaxFails, closes : 0..MaxCloses]

\* Dropping announcements at a full queue is harmless: whatever was
\* announced to the streams of an instance and has not reached a client's
\* list leaves the client an event to read or a list to fetch.
AnnouncementsReachTheList ==
  Affinity => \A i \in Instances : \A c \in Streams(i) :
    seen[c] < told[i] => queue[c] > 0 \/ relist[c]

\* While nothing was lost, every change that was not announced is on its
\* way: a NOTIFY, a waiting refresh, or a load that has already read it.
ChangesAreOnTheirWay ==
  \A i \in Instances :
    ~faulted[i] /\ told[i] < commits =>
      \/ notes[i] > 0
      \/ forced[i] > 0
      \/ load[i].kind = "forced" /\ load[i].has = commits

\* Every load ends, with rows or with an exception.
LoadsEnd == \A i \in Instances : []<>(load[i] = NoLoad)

\* The promise of the deployment guide: a change reaches every open session.
PushReachesEveryClient ==
  LoadsEnd => \A c \in Clients :
    stream[c] # Nowhere /\ seen[c] < commits
      ~> stream[c] = Nowhere \/ seen[c] = commits

\* The same for an instance that hears every NOTIFY and whose refreshes
\* succeed.
HealthyPushReachesEveryClient ==
  LoadsEnd => \A c \in Clients : \A i \in Instances :
    stream[c] = i /\ seen[c] < commits
      ~> stream[c] = Nowhere \/ faulted[i] \/ seen[c] = commits

\* Why.  What an instance has announced it also shows, and a load in progress
\* has read at least as much.  A commit asks an instance for two refreshes at
\* most: its listener's, and the admin handler's own.
ForwardInv(i) ==
  /\ told[i] <= view[i] /\ view[i] <= commits
  /\ load[i].kind # "none" => told[i] <= load[i].has /\ load[i].has <= commits
CountInv(i) == notes[i] <= commits /\ forced[i] + notes[i] <= 2 * commits
PushInv ==
  /\ PushTypeOK /\ AnnouncementsReachTheList /\ ChangesAreOnTheirWay
  /\ \A i \in Instances : ForwardInv(i) /\ CountInv(i)
==============================================================================
