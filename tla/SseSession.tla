----------------------------- MODULE SseSession ------------------------------
(***************************************************************************)
(* The legacy transport of app/mcp/sse.py: a client opens a stream at one  *)
(* process, posts JSON-RPC messages to the session it is told, and reads   *)
(* the responses from the stream, by way of a bounded queue.               *)
(*                                                                         *)
(* A POST is a coroutine of its own: it looks the session up, waits for    *)
(* the handler (McpHandler, one step here), and waits for room in the      *)
(* queue, while the stream may close at any time.                          *)
(***************************************************************************)
EXTENDS Integers, Sequences, Functions

CONSTANTS Instances, \* gateway processes behind the balancer
          Sessions,  \* session ids
          Posts,     \* POSTs
          QueueSize, \* maxsize of a session's queue
          Affinity,  \* a client's POSTs reach the process of its stream
          Nobody

ASSUME SseAssumption ==
  /\ Instances # {}
  /\ QueueSize \in Nat \ {0} /\ Affinity \in BOOLEAN
  /\ Nobody \notin Instances \union Sessions \union Posts

VARIABLES sessions, \* per process: the keys of app.state.sse_sessions
          home,     \* per session: the process of its stream
          stream,   \* per session: its event generator and the connection
          queue,    \* per session: posts whose response is in the queue
          hand,     \* per session: the one being written to the connection
          received, \* per session: those whose response the client has read
          pc,       \* per POST: where its coroutine is suspended
          to,       \* per POST: the session it is for
          status    \* per POST: what it was answered

streamVars == <<sessions, home, stream, hand, received>>
vars == <<streamVars, queue, pc, to, status>>

Init ==
  /\ sessions = [i \in Instances |-> {}]
  /\ home = [s \in Sessions |-> Nobody]
  /\ stream = [s \in Sessions |-> "none"]
  /\ queue = [s \in Sessions |-> <<>>]
  /\ hand = [s \in Sessions |-> Nobody]
  /\ received = [s \in Sessions |-> <<>>]
  /\ pc = [p \in Posts |-> "new"]
  /\ to = [p \in Posts |-> Nobody]
  /\ status = [p \in Posts |-> "none"]

------------------------------------------------------------------------------
(* sse_open and events *)

\* The session is on record before its generator has run at all.
Open(s, i) ==
  /\ stream[s] = "none"
  /\ home' = [home EXCEPT ![s] = i]
  /\ sessions' = [sessions EXCEPT ![i] = @ \union {s}]
  /\ stream' = [stream EXCEPT ![s] = "opened"]
  /\ UNCHANGED <<queue, hand, received, pc, to, status>>

\* The first event: the client learns where to post.
Endpoint(s) ==
  /\ stream[s] = "opened"
  /\ stream' = [stream EXCEPT ![s] = "live"]
  /\ UNCHANGED <<sessions, home, queue, hand, received, pc, to, status>>

Take(s) ==
  /\ stream[s] = "live" /\ hand[s] = Nobody /\ queue[s] # <<>>
  /\ hand' = [hand EXCEPT ![s] = Head(queue[s])]
  /\ queue' = [queue EXCEPT ![s] = Tail(@)]
  /\ UNCHANGED <<sessions, home, stream, received, pc, to, status>>

Send(s) ==
  /\ stream[s] = "live" /\ hand[s] # Nobody
  /\ received' = [received EXCEPT ![s] = Append(@, hand[s])]
  /\ hand' = [hand EXCEPT ![s] = Nobody]
  /\ UNCHANGED <<sessions, home, stream, queue, pc, to, status>>

\* The client goes away.  A generator that has begun will be cancelled, and
\* ends in its finally clause; one that has not begun has no such clause yet.
Close(s) ==
  /\ stream[s] \in {"opened", "live"}
  /\ stream' = [stream EXCEPT ![s] =
                  IF @ = "live" THEN "closing" ELSE "unbegun"]
  /\ hand' = [hand EXCEPT ![s] = Nobody]
  /\ UNCHANGED <<sessions, home, queue, received, pc, to, status>>

Pop(s) ==
  /\ stream[s] = "closing"
  /\ stream' = [stream EXCEPT ![s] = "closed"]
  /\ sessions' = [sessions EXCEPT ![home[s]] = @ \ {s}]
  /\ UNCHANGED <<home, queue, hand, received, pc, to, status>>

------------------------------------------------------------------------------
(* sse_post *)

Goto(p, next) == pc' = [pc EXCEPT ![p] = next]
Finish(p, code) ==
  /\ Goto(p, "done")
  /\ status' = [status EXCEPT ![p] = code]

\* The lookup, up to the await of the body: it is not repeated later.
Post(p, s, i) ==
  /\ pc[p] = "new"
  /\ stream[s] \in {"live", "closing", "closed"}
  /\ Affinity => i = home[s]
  /\ to' = [to EXCEPT ![p] = s]
  /\ IF s \in sessions[i] THEN Goto(p, "handling") /\ UNCHANGED status
                          ELSE Finish(p, "unknown")
  /\ UNCHANGED <<streamVars, queue>>

\* The body is no JSON, or the handler raises.
Fail(p) ==
  /\ pc[p] = "handling"
  /\ Finish(p, "error")
  /\ UNCHANGED <<streamVars, queue, to>>

\* A notification: there is no response to push.
Silent(p) ==
  /\ pc[p] = "handling"
  /\ Finish(p, "silent")
  /\ UNCHANGED <<streamVars, queue, to>>

Room(s) == Len(queue[s]) < QueueSize
Put(p) ==
  /\ queue' = [queue EXCEPT ![to[p]] = Append(@, p)]
  /\ Finish(p, "accepted")

\* await session.push(resp): at once if there is room.  It is not looked at
\* whether the session is still on record.
PushOrDrop(p) ==
  /\ pc[p] = "handling"
  /\ IF Room(to[p]) THEN Put(p) ELSE Finish(p, "accepted") /\ UNCHANGED queue
  /\ UNCHANGED <<streamVars, to>>
Push(p) ==
  /\ pc[p] = "handling"
  /\ IF Room(to[p]) THEN Put(p)
                    ELSE Goto(p, "putting") /\ UNCHANGED <<queue, status>>
  /\ UNCHANGED <<streamVars, to>>

\* A get has made room.  Of several waiting puts any may be the one to use it:
\* asyncio wakes the first, but a new put may come before it.
WokenPutAlone(p) ==
  /\ pc[p] = "putting" /\ Room(to[p])
  /\ \A q \in Posts \ {p} : pc[q] # "putting" \/ to[q] # to[p]
  /\ Put(p)
  /\ UNCHANGED <<streamVars, to>>
WokenPut(p) ==
  /\ pc[p] = "putting" /\ Room(to[p])
  /\ Put(p)
  /\ UNCHANGED <<streamVars, to>>

------------------------------------------------------------------------------
PostStep(p) == Fail(p) \/ Silent(p) \/ Push(p) \/ WokenPut(p)
StreamStep(s) == Endpoint(s) \/ Take(s) \/ Send(s) \/ Pop(s)

Next ==
  \/ \E s \in Sessions :
       (\E i \in Instances : Open(s, i)) \/ StreamStep(s) \/ Close(s)
  \/ \E p \in Posts :
       (\E s \in Sessions, i \in Instances : Post(p, s, i)) \/ PostStep(p)

\* A put that has room is woken, and a stream that is not closed is read.
\* Nothing makes the handler end: it awaits Postgres and upstreams.
Spec ==
  /\ Init /\ [][Next]_vars
  /\ \A p \in Posts : WF_vars(WokenPut(p))
  /\ \A s \in Sessions : WF_vars(StreamStep(s))

------------------------------------------------------------------------------
(* Properties *)

TypeOK ==
  /\ sessions \in [Instances -> SUBSET Sessions]
  /\ home \in [Sessions -> Instances \union {Nobody}]
  /\ stream \in [Sessions -> {"none", "opened", "live", "closing", "closed",
                              "unbegun"}]
  /\ queue \in [Sessions -> Seq(Posts)]
  /\ \A s \in Sessions : Len(queue[s]) <= QueueSize
  /\ hand \in [Sessions -> Posts \union {Nobody}]
  /\ received \in [Sessions -> Seq(Posts)]
  /\ pc \in [Posts -> {"new", "handling", "putting", "done"}]
  /\ to \in [Posts -> Sessions \union {Nobody}]
  /\ status \in
       [Posts -> {"none", "unknown", "error", "silent", "accepted"}]

\* Where the response to p may be found, once each.
Places(s) == received[s] \o (IF hand[s] = Nobody THEN <<>> ELSE <<hand[s]>>)
               \o queue[s]
Occurrences(p, s) == {n \in DOMAIN Places(s) : Places(s)[n] = p}

\* A POST answered 202 has its response in one place, once: in the queue of
\* its own session, on its way, or with the client - as long as the stream is
\* there, and however many POSTs found the queue full.
AcceptedIsOnItsWay ==
  \A p \in Posts, s \in Sessions :
    /\ stream[s] = "live" /\ status[p] = "accepted" /\ to[p] = s
         => \E n \in DOMAIN Places(s) : Occurrences(p, s) = {n}
    /\ p \in Range(Places(s))
         => to[p] = s /\ status[p] = "accepted"

\* A POST whose handler ends returns, however full the queue is, and what it was
\* promised reaches the client - unless the stream closes.
Gone(s) == stream[s] \in {"closing", "closed", "unbegun"}
Received(p, s) == p \in Range(received[s])
HandlerEnds(p) == []<>(pc[p] # "handling")
PostsAreAnswered ==
  \A p \in Posts, s \in Sessions : HandlerEnds(p) =>
    (pc[p] = "handling" /\ to[p] = s
       ~> \/ Gone(s)
          \/ pc[p] = "done" /\ (status[p] = "accepted" => Received(p, s)))

\* What README.md says: a message posted to a session is answered on its
\* stream.  A POST is turned away only when the stream is gone.
RespondsOnTheStream ==
  \A p \in Posts, s \in Sessions :
    status[p] = "unknown" /\ to[p] = s => Gone(s)

------------------------------------------------------------------------------
(* The inductive invariant behind the safety properties *)

\* A POST is answered when it is over, and has a session when it is begun.
PostInv(p) ==
  /\ status[p] = "none" <=> pc[p] # "done"
  /\ pc[p] = "new" => to[p] = Nobody
  /\ pc[p] \in {"handling", "putting"} => to[p] \in Sessions

\* Nobody posts to a session before its stream has told where, and a session
\* is on record at the process of its stream until that has closed.
SessionInv(s) ==
  /\ stream[s] \in {"none", "opened"} => \A p \in Posts : to[p] # s
  /\ stream[s] \in {"opened", "live", "closing"} =>
       home[s] \in Instances /\ s \in sessions[home[s]]

\* No response is in two places, also when the stream is gone.
OnceInv(s) == IsInjective(Places(s))

IInv ==
  /\ TypeOK /\ AcceptedIsOnItsWay /\ (Affinity => RespondsOnTheStream)
  /\ \A p \in Posts : PostInv(p)
  /\ \A s \in Sessions : SessionInv(s) /\ OnceInv(s)
==============================================================================
