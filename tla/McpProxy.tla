------------------------------- MODULE McpProxy ------------------------------
(***************************************************************************)
(* McpProxyAdapter of app/dispatchers/mcp_proxy.py: concurrent calls of    *)
(* tools behind remote MCP servers.  Calls for the same remote and the     *)
(* same identity share one session, made by one initialize handshake under *)
(* a lock of their own; then every call is one POST.                       *)
(*                                                                         *)
(* The remotes are outside: they give out session ids or "", may answer    *)
(* initialize with a JSON-RPC error, and forget their sessions when they   *)
(* restart.                                                                *)
(***************************************************************************)
EXTENDS Integers, Sequences

CONSTANTS Calls,
          Urls,         \* remotes
          Identities,   \* "user:<id>" or "svc:<env>"
          Stateless,    \* remotes that send no Mcp-Session-Id
          MaxRestarts   \* bound: restarts of remotes

ASSUME McpProxyAssumption == Stateless \subseteq Urls /\ MaxRestarts \in Nat

VARIABLES tool,      \* per call: remote, identity, and skip_initialize
          pc,        \* per call: where its coroutine is suspended
          sessions,  \* _sessions: an id, NoId for "", Unknown if not there
          lock,      \* _init_locks: the holder and the queue behind it
          using,     \* per call: the session id its tools/call carries
          result,    \* per call: "ok" or the kind of the DispatchError
          hello,     \* per call: what the remote made of its initialize
          issued,    \* the keys session ids 1, 2, ... were given out for
          alive,     \* session ids the remotes know
          gone,      \* session ids the gateway was told are not found
          asked,     \* per call: what became of its tools/call
          ran,       \* per call: how often it was carried out
          restarts

gatewayVars == <<tool, pc, sessions, lock, using, result>>
remoteVars == <<hello, issued, alive, gone, asked, ran, restarts>>
vars == <<gatewayVars, remoteVars>>

Unknown == -1
NoId == 0
Keys == Urls \X Identities

\* The key a call has to share its session under.
Own(c) == <<tool[c].url, tool[c].who>>

\* What a POST that does not end well is raised as.
HttpErrors == {"upstream_timeout", "upstream_error", "upstream_denied",
               "upstream_not_found", "upstream_bad_request"}

Init ==
  /\ tool \in [Calls -> [url : Urls, who : Identities, skip : BOOLEAN]]
  /\ pc = [c \in Calls |-> "new"]
  /\ sessions = [k \in Keys |-> Unknown]
  /\ lock = [k \in Keys |-> <<>>]
  /\ using = [c \in Calls |-> NoId]
  /\ result = [c \in Calls |-> "none"]
  /\ hello = [c \in Calls |-> "none"]
  /\ issued = <<>>
  /\ alive = {} /\ gone = {}
  /\ asked = [c \in Calls |-> "none"]
  /\ ran = [c \in Calls |-> 0]
  /\ restarts = 0

------------------------------------------------------------------------------
(* invoke and _ensure_initialized *)

KeyByUrl(c) == <<tool[c].url, CHOOSE i \in Identities : TRUE>>
Key(c) == <<tool[c].url, tool[c].who>>

\* The header is left out for an unknown session and for "".
Header(c, s) == IF s[Key(c)] = Unknown THEN NoId ELSE s[Key(c)]

Goto(c, next) == pc' = [pc EXCEPT ![c] = next]
Release(c) == lock' = [lock EXCEPT ![Key(c)] = Tail(@)]

\* The tools/call goes out, with the session the sessions s hold now.
PostCallBare(c, s) ==
  /\ Goto(c, "called")
  /\ using' = using
  /\ asked' = [asked EXCEPT ![c] = "sent"]
  /\ UNCHANGED <<tool, result, hello, issued, alive, gone, ran, restarts>>
PostCall(c, s) ==
  /\ Goto(c, "called")
  /\ using' = [using EXCEPT ![c] = Header(c, s)]
  /\ asked' = [asked EXCEPT ![c] = "sent"]
  /\ UNCHANGED <<tool, result, hello, issued, alive, gone, ran, restarts>>

Done(c, kind) ==
  /\ Goto(c, "done")
  /\ result' = [result EXCEPT ![c] = kind]
  /\ UNCHANGED <<tool, using>>

\* No remote_url, or no token for it.
Misconfigured(c) ==
  /\ pc[c] = "new"
  /\ Done(c, "config_error")
  /\ UNCHANGED <<sessions, lock, remoteVars>>

\* No handshake asked for, or one is on record: straight to the call.
Straight(c) ==
  /\ pc[c] = "new"
  /\ tool[c].skip \/ sessions[Key(c)] # Unknown
  /\ PostCall(c, sessions)
  /\ UNCHANGED <<sessions, lock>>

\* Take the lock and send initialize, or queue for the lock.
Handshake(c) ==
  /\ pc[c] = "new"
  /\ ~tool[c].skip /\ sessions[Key(c)] = Unknown
  /\ lock' = [lock EXCEPT ![Key(c)] = Append(@, c)]
  /\ Goto(c, IF lock[Key(c)] = <<>> THEN "init" ELSE "waiting")
  /\ UNCHANGED <<tool, sessions, using, result, remoteVars>>

\* The lock is handed over.  The call ahead may have made the session.
WakeUnchecked(c) ==
  /\ pc[c] = "waiting" /\ Head(lock[Key(c)]) = c
  /\ Goto(c, "init")
  /\ UNCHANGED <<tool, sessions, lock, using, result, remoteVars>>
Wake(c) ==
  /\ pc[c] = "waiting" /\ Head(lock[Key(c)]) = c
  /\ IF sessions[Key(c)] # Unknown
       THEN PostCall(c, sessions) /\ Release(c) /\ UNCHANGED sessions
       ELSE /\ Goto(c, "init")
            /\ UNCHANGED <<tool, sessions, lock, using, result, remoteVars>>

\* initialize is answered: whatever the answer says, its header is the
\* session, and the call follows.
InitAnswered(c) ==
  /\ pc[c] = "init" /\ hello[c] # "none"
  /\ LET id == IF hello[c] = "accepted" /\ tool[c].url \notin Stateless
                 THEN CHOOSE n \in DOMAIN issued : issued[n].by = c
                 ELSE NoId
     IN  /\ sessions' = [sessions EXCEPT ![Key(c)] = id]
         /\ PostCall(c, sessions')
  /\ Release(c)

\* It times out, breaks, is refused with an HTTP error, or cannot be parsed.
InitFailsHolding(c) ==
  /\ pc[c] = "init"
  /\ Done(c, "upstream_error")
  /\ UNCHANGED <<sessions, lock, remoteVars>>
InitFails(c) ==
  /\ pc[c] = "init"
  /\ \E kind \in HttpErrors : Done(c, kind)
  /\ Release(c)
  /\ UNCHANGED <<sessions, remoteVars>>

------------------------------------------------------------------------------
(* The answer to tools/call: _rpc_call and _build_result *)

\* A result, or a JSON-RPC error, of a remote that carried the call out.
Answered(c) ==
  /\ pc[c] = "called" /\ asked[c] = "ran"
  /\ Done(c, "ok") \/ Done(c, "remote_mcp_error")
  /\ UNCHANGED <<sessions, lock, remoteVars>>

\* The remote does not know the session.
NotFound(c) ==
  /\ pc[c] = "called" /\ asked[c] = "unknown_session"
  /\ Done(c, "upstream_not_found")
  /\ gone' = gone \union {using[c]}
  /\ UNCHANGED <<sessions, lock, hello, issued, alive, asked, ran, restarts>>

\* A timeout, a broken connection, an HTTP error or garbage, from a remote
\* that may have carried the call out or may do so later.
CallFailsAndResends(c) ==
  /\ pc[c] = "called"
  /\ asked' = [asked EXCEPT ![c] = "sent"]
  /\ UNCHANGED <<gatewayVars, hello, issued, alive, gone, ran, restarts>>
CallFails(c) ==
  /\ pc[c] = "called"
  /\ \E kind \in HttpErrors : Done(c, kind)
  /\ UNCHANGED <<sessions, lock, remoteVars>>

------------------------------------------------------------------------------
(* The remotes *)

\* initialize arrives: a session is opened, or the answer is an error.
Open(c) ==
  /\ pc[c] = "init" /\ hello[c] = "none"
  /\ hello' = [hello EXCEPT ![c] = "accepted"]
  /\ IF tool[c].url \in Stateless THEN UNCHANGED <<issued, alive>>
       ELSE /\ issued' = Append(issued, [key |-> Own(c), by |-> c])
            /\ alive' = alive \union {Len(issued')}
  /\ UNCHANGED <<gatewayVars, gone, asked, ran, restarts>>
Decline(c) ==
  /\ pc[c] = "init" /\ hello[c] = "none"
  /\ hello' = [hello EXCEPT ![c] = "declined"]
  /\ UNCHANGED <<gatewayVars, issued, alive, gone, asked, ran, restarts>>

\* tools/call arrives, perhaps after the gateway stopped waiting for it.
Known(c) == using[c] = NoId \/ using[c] \in alive
Run(c) ==
  /\ asked[c] = "sent" /\ Known(c)
  /\ asked' = [asked EXCEPT ![c] = "ran"]
  /\ ran' = [ran EXCEPT ![c] = @ + 1]
  /\ UNCHANGED <<gatewayVars, hello, issued, alive, gone, restarts>>
Turn(c) ==
  /\ asked[c] = "sent" /\ ~Known(c)
  /\ asked' = [asked EXCEPT ![c] = "unknown_session"]
  /\ UNCHANGED <<gatewayVars, hello, issued, alive, gone, ran, restarts>>

Restart(u) ==
  /\ restarts < MaxRestarts
  /\ restarts' = restarts + 1
  /\ alive' = {n \in alive : issued[n].key[1] # u}
  /\ UNCHANGED <<gatewayVars, hello, issued, gone, asked, ran>>

------------------------------------------------------------------------------
Step(c) ==
  \/ Handshake(c) \/ Straight(c) \/ Wake(c) \/ InitAnswered(c) \/ InitFails(c)
  \/ Answered(c) \/ NotFound(c) \/ CallFails(c)

Next ==
  \/ \E c \in Calls : Misconfigured(c) \/ Step(c)
  \/ \E c \in Calls : Open(c) \/ Decline(c) \/ Run(c) \/ Turn(c)
  \/ \E u \in Urls : Restart(u)

\* A lock is handed on.  Nothing makes a POST end: the timeouts of httpx are for
\* each read of its answer.
Spec == Init /\ [][Next]_vars /\ \A c \in Calls : WF_vars(Wake(c))

------------------------------------------------------------------------------
(* Properties *)

Kinds == HttpErrors \union {"remote_mcp_error"}
TypeOK ==
  /\ tool \in [Calls -> [url : Urls, who : Identities, skip : BOOLEAN]]
  /\ pc \in [Calls -> {"new", "waiting", "init", "called", "done"}]
  /\ sessions \in [Keys -> {Unknown, NoId} \union DOMAIN issued]
  /\ lock \in [Keys -> Seq(Calls)]
  /\ using \in [Calls -> {NoId} \union DOMAIN issued]
  /\ result \in [Calls -> {"none", "ok", "config_error"} \union Kinds]
  /\ hello \in [Calls -> {"none", "accepted", "declined"}]
  /\ issued \in Seq([key : Keys, by : Calls])
  /\ alive \subseteq DOMAIN issued /\ gone \subseteq DOMAIN issued
  /\ asked \in [Calls -> {"none", "sent", "ran", "unknown_session"}]
  /\ ran \in [Calls -> 0..1]

\* Once a handshake is on record for a remote and an identity it stays the
\* one: no second one replaces it, however many calls were waiting for it.
OneHandshake ==
  [][\A k \in Keys : sessions[k] # Unknown => sessions'[k] = sessions[k]]_vars

\* A session given out for one identity is never used for another one's
\* call, nor at another remote: the key of _sessions has both.
OwnSession == \A c \in Calls : using[c] # NoId => issued[using[c]].key = Own(c)

\* A call that wants a handshake carries the session of that handshake, even
\* if it waited for another call to make it.
CarriesTheSession ==
  \A c \in Calls : pc[c] = "called" /\ ~tool[c].skip =>
    sessions[Own(c)] = using[c]

\* If every POST ends, with an answer or without, every call returns, behind any
\* queue and any failed handshake.
InHand(c) == pc[c] \notin {"new", "done"}
PostsEnd == \A c \in Calls : []<>(pc[c] # "init") /\ []<>(pc[c] # "called")
EveryCallReturns ==
  PostsEnd => \A c \in Calls : InHand(c) ~> pc[c] = "done"

\* What the design promises of a remote that comes back, and the code does
\* not do: a session that the remote has said it does not know is dropped.
DeadSessionIsDropped ==
  [][\A c \in Calls : using'[c] # using[c] => using'[c] \notin gone]_vars

\* What the README promises of JSON-RPC errors of a remote, that the caller
\* sees them, and what does not hold for one that answers initialize: the
\* tools/call is sent all the same, as if the handshake had been made.
RemoteErrorEndsTheCall ==
  \A c \in Calls : hello[c] = "declined" => asked[c] = "none"

\* A dispatcher of the kind tools/call expects, and one that never sends a
\* call twice.
PhaseAt(place, outcome) ==
  CASE place = "new" -> "new"
    [] place # "new" /\ place # "done" -> "running"
    [] place = "done" /\ outcome = "ok" -> "returned"
    [] place = "done" /\ outcome = "config_error" -> "refused"
    [] OTHER -> "raised"
Phase(c) == PhaseAt(pc[c], result[c])
Contract == INSTANCE Dispatch
              WITH budget <- [c \in Calls |-> 1], effects <- ran,
                   phase <- [c \in Calls |-> Phase(c)]
KeepsContract == Contract!Spec

\* Why.  A call waits for the lock in its queue.  One that sends initialize
\* is at the head, and no session is on record yet: it is the only one at it.
\* What is on record under a key was given out for that key.  A call is
\* carried out at most once because its one tools/call is asked for after the
\* handshake and answered once.
Queued(c) ==
  pc[c] \in {"waiting", "init"} =>
    /\ ~tool[c].skip
    /\ \E n \in DOMAIN lock[Key(c)] : lock[Key(c)][n] = c
HoldsTheLock(c) ==
  pc[c] = "init" => Head(lock[Key(c)]) = c /\ sessions[Key(c)] = Unknown
SessionsInv ==
  /\ \A n \in DOMAIN issued : issued[n].key = Own(issued[n].by)
  /\ \A k \in Keys :
       sessions[k] \notin {Unknown, NoId} => issued[sessions[k]].key = k
HelloInv(c) ==
  hello[c] = "accepted" /\ tool[c].url \notin Stateless =>
    \E n \in DOMAIN issued : issued[n].by = c
AskedInv(c) ==
  /\ pc[c] \in {"new", "waiting", "init"} => asked[c] = "none"
  /\ pc[c] = "called" => asked[c] # "none"
  /\ asked[c] = "unknown_session" => using[c] # NoId
  /\ ran[c] = IF asked[c] = "ran" THEN 1 ELSE 0
ResultInv(c) ==
  /\ result[c] = "none" <=> pc[c] # "done"
  /\ result[c] = "ok" => ran[c] > 0
  /\ result[c] = "config_error" => asked[c] = "none"
IInv ==
  /\ TypeOK /\ OwnSession /\ CarriesTheSession /\ SessionsInv
  /\ \A c \in Calls : /\ Queued(c) /\ HoldsTheLock(c)
                      /\ HelloInv(c) /\ AskedInv(c) /\ ResultInv(c)
==============================================================================
