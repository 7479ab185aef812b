------------------------------- MODULE HttpSend ------------------------------
(***************************************************************************)
(* GenericHttpAdapter of app/dispatchers/http_adapter.py: concurrent calls *)
(* of http tools, each a loop of requests with retries and pauses, over    *)
(* the one httpx client of the process and its bounded connection pool     *)
(* (app/dispatchers/registry.py).                                          *)
(*                                                                         *)
(* The upstream is outside: a request it was sent may be carried out, once *)
(* and at any time, also after the gateway has given up waiting for it.    *)
(***************************************************************************)
EXTENDS Integers, FiniteSets

CONSTANTS Calls,
          MaxConnections,  \* of the pool
          DefaultRetries,  \* http_default_retries
          Absent,          \* tool.config has no "retries"
          Configured       \* the values of "retries" in tool.config

ASSUME HttpSendAssumption ==
  /\ MaxConnections \in Nat \ {0}
  /\ DefaultRetries \in Int
  /\ Configured \subseteq Int /\ Absent \notin Int

VARIABLES conf,      \* per call: auth_mode and config["retries"] of its tool
          pc,        \* per call: where its coroutine is suspended
          attempt,   \* per call: the variable of _send
          request,   \* per call: what became of the request in flight
          late,      \* per call: abandoned requests the upstream may yet run
          ran,       \* per call: requests the upstream has carried out
          sends,     \* per call: requests sent
          last,      \* per call: how its last request ended
          result     \* per call: "ok", the kind of the DispatchError, or
                     \* "exception" for any other

vars == <<conf, pc, attempt, request, late, ran, sends, last, result>>

\* The statuses _interpret and _send tell apart.
Statuses == {"2xx", "401", "404", "400", "502", "other"}
Endings == {"none", "timeout", "broken"} \union Statuses
Refusals == {"config_error", "invalid_params", "exception"}
Kinds == Refusals \union
  {"upstream_timeout", "upstream_error", "upstream_denied",
   "upstream_not_found", "upstream_bad_request"}
Modes == {"service_key", "user_passthrough"}

\* A call that is in its loop, and the calls that hold a connection.
Running(c) == pc[c] \in {"connect", "sent", "pause", "backoff"}
Connected == {c \in Calls : pc[c] = "sent"}

Init ==
  /\ conf \in [Calls -> [mode : Modes, retries : Configured \union {Absent}]]
  /\ pc = [c \in Calls |-> "new"]
  /\ attempt = [c \in Calls |-> 0]
  /\ request = [c \in Calls |-> "none"]
  /\ late = [c \in Calls |-> 0]
  /\ ran = [c \in Calls |-> 0]
  /\ sends = [c \in Calls |-> 0]
  /\ last = [c \in Calls |-> "none"]
  /\ result = [c \in Calls |-> "none"]

------------------------------------------------------------------------------
NonNegative(n) == IF n < 0 THEN 0 ELSE n

\* _retries_for.  A default below zero means the same as zero.
RetriesByConfig(c) ==
  NonNegative(IF conf[c].retries = Absent THEN DefaultRetries
                                          ELSE conf[c].retries)
Retries(c) ==
  IF conf[c].mode = "user_passthrough" THEN 0 ELSE RetriesByConfig(c)

AttemptsLeftOrEven(c) == attempt[c] <= Retries(c)
AttemptsLeftButOne(c) == attempt[c] + 1 < Retries(c)
AttemptsLeft(c) == attempt[c] < Retries(c)

\* 502, 503 and 504, the only statuses worth another attempt.
Retryable == {"502"}

\* _interpret
Interpret(s) ==
  CASE s = "2xx" -> "ok"
    [] s = "401" -> "upstream_denied"
    [] s = "404" -> "upstream_not_found"
    [] s = "400" -> "upstream_bad_request"
    [] OTHER -> "upstream_error"

Goto(c, next) == pc' = [pc EXCEPT ![c] = next]
Done(c, kind) ==
  /\ Goto(c, "done")
  /\ result' = [result EXCEPT ![c] = kind]
  /\ UNCHANGED attempt
Again(c, next) ==
  /\ attempt' = [attempt EXCEPT ![c] = @ + 1]
  /\ Goto(c, next)
  /\ UNCHANGED result

\* The request in flight is over for the gateway.  If the upstream has it
\* and has not run it, it may still do so.
Ended(c, how) ==
  /\ last' = [last EXCEPT ![c] = how]
  /\ request' = [request EXCEPT ![c] = "none"]
  /\ late' = [late EXCEPT ![c] = IF request[c] = "sent" THEN @ + 1 ELSE @]
  /\ UNCHANGED <<conf, ran, sends>>

------------------------------------------------------------------------------
(* invoke and _send *)

\* Everything before the first request: a variable, secret or param_map that
\* is wrong, a path argument that is missing, or a ValueError of float, of int
\* or of httpx at a timeout, a number of retries or a URL that is none.
Misconfigured(c) ==
  /\ pc[c] = "new"
  /\ \E kind \in Refusals : Done(c, kind)
  /\ UNCHANGED <<conf, request, late, ran, sends, last>>

Invoke(c) ==
  /\ pc[c] = "new"
  /\ Goto(c, "connect")
  /\ UNCHANGED <<conf, attempt, request, late, ran, sends, last, result>>

\* A connection of the pool is free: the request goes out.
Request(c) ==
  /\ pc[c] = "connect"
  /\ Cardinality(Connected) < MaxConnections
  /\ Goto(c, "sent")
  /\ request' = [request EXCEPT ![c] = "sent"]
  /\ sends' = [sends EXCEPT ![c] = @ + 1]
  /\ UNCHANGED <<conf, attempt, late, ran, last, result>>

\* No connection of the pool, or nothing read or written, for the timeout.
TimedOutOnceSent(c) ==
  /\ pc[c] = "sent"
  /\ Ended(c, "timeout")
  /\ IF AttemptsLeft(c) THEN Again(c, "backoff") ELSE Done(c, "upstream_timeout")
TimedOut(c) ==
  /\ pc[c] \in {"connect", "sent"}
  /\ Ended(c, "timeout")
  /\ IF AttemptsLeft(c) THEN Again(c, "backoff") ELSE Done(c, "upstream_timeout")

\* Any other httpx.HTTPError.
Broken(c) ==
  /\ pc[c] \in {"connect", "sent"}
  /\ Ended(c, "broken")
  /\ IF AttemptsLeft(c) THEN Again(c, "backoff") ELSE Done(c, "upstream_error")

\* An answer; a 2xx is the answer to a request that was carried out.
Answered(c, s) ==
  /\ pc[c] = "sent"
  /\ s = "2xx" => request[c] = "ran"
  /\ Ended(c, s)
  /\ IF s \in Retryable /\ AttemptsLeft(c) THEN Again(c, "pause")
                                           ELSE Done(c, Interpret(s))

\* The pause after a retryable status ends: back to the top of the loop.
PauseEnds(c) ==
  /\ pc[c] = "pause"
  /\ Goto(c, "connect")
  /\ UNCHANGED <<conf, attempt, request, late, ran, sends, last, result>>

\* The pause after an exception ends with one more look at the attempts,
\* which would raise with the kind of a connection error.
BackoffEndsTooSoon(c) ==
  /\ pc[c] = "backoff"
  /\ IF attempt[c] >= Retries(c) THEN Done(c, "upstream_error")
       ELSE Goto(c, "connect") /\ UNCHANGED <<attempt, result>>
  /\ UNCHANGED <<conf, request, late, ran, sends, last>>
BackoffEnds(c) ==
  /\ pc[c] = "backoff"
  /\ IF attempt[c] > Retries(c) THEN Done(c, "upstream_error")
       ELSE Goto(c, "connect") /\ UNCHANGED <<attempt, result>>
  /\ UNCHANGED <<conf, request, late, ran, sends, last>>

------------------------------------------------------------------------------
(* The upstream *)

Run(c) ==
  /\ request[c] = "sent"
  /\ request' = [request EXCEPT ![c] = "ran"]
  /\ ran' = [ran EXCEPT ![c] = @ + 1]
  /\ UNCHANGED <<conf, pc, attempt, late, sends, last, result>>

RunLate(c) ==
  /\ late[c] > 0
  /\ late' = [late EXCEPT ![c] = @ - 1]
  /\ ran' = [ran EXCEPT ![c] = @ + 1]
  /\ UNCHANGED <<conf, pc, attempt, request, sends, last, result>>

LoopStep(c) ==
  \/ Request(c) \/ TimedOut(c) \/ Broken(c)
  \/ \E s \in Statuses : Answered(c, s)
  \/ PauseEnds(c) \/ BackoffEnds(c)

Next ==
  \E c \in Calls :
    Misconfigured(c) \/ Invoke(c) \/ LoopStep(c) \/ Run(c) \/ RunLate(c)

\* Pauses end, and so does the wait for a connection: httpx.Timeout bounds it
\* too.  A request that has its connection may take for ever, for the timeout
\* of a read begins anew with every piece of the answer.
GetsConnection(c) == pc[c] = "connect" /\ (Request(c) \/ TimedOut(c))
Fairness ==
  \A c \in Calls :
    WF_vars(GetsConnection(c)) /\ WF_vars(PauseEnds(c) \/ BackoffEnds(c))

Spec == Init /\ [][Next]_vars /\ Fairness

------------------------------------------------------------------------------
(* Properties *)

TypeOK ==
  /\ conf \in [Calls -> [mode : Modes, retries : Configured \union {Absent}]]
  /\ pc \in [Calls -> {"new", "connect", "sent", "pause", "backoff", "done"}]
  /\ attempt \in [Calls -> Nat]
  /\ request \in [Calls -> {"none", "sent", "ran"}]
  /\ late \in [Calls -> Nat] /\ ran \in [Calls -> Nat]
  /\ sends \in [Calls -> Nat]
  /\ last \in [Calls -> Endings]
  /\ result \in [Calls -> Kinds \union {"none", "ok"}]
  /\ \A c \in Calls : attempt[c] <= Retries(c)

\* A call made with the user's own token is carried out at most once, even
\* by an upstream that acts on a request after the gateway stopped waiting.
NeverReplaysUserAction ==
  \A c \in Calls : conf[c].mode = "user_passthrough" => ran[c] <= 1

\* An answer of the upstream that is not 502, 503 or 504 is the last word:
\* nothing is sent after it (http_adapter.py: _interpret returns or raises).
SendsAgain(c) == sends'[c] > sends[c]
AnAnswerIsFinal ==
  [][\A c \in Calls :
       SendsAgain(c) => last[c] \in {"none", "timeout", "broken", "502"}]_vars

\* The caller, and the audit row, are told how the last request ended: a
\* timeout stays an upstream_timeout, however many attempts came before.
\* The raise at the end of the loop, which would forget it, is never reached.
TellsTheLastEnding ==
  \A c \in Calls : pc[c] = "done" =>
    CASE last[c] = "none" -> result[c] \in Refusals
      [] last[c] = "timeout" -> result[c] = "upstream_timeout"
      [] last[c] = "broken" -> result[c] = "upstream_error"
      [] OTHER -> result[c] = Interpret(last[c])

\* A call gives up on a timeout, a broken connection, or a 502, 503 or 504
\* only when it has used every retry its tool allows.
UsesEveryAttempt ==
  \A c \in Calls :
    pc[c] = "done" /\ last[c] \in {"timeout", "broken"} \union Retryable
      => attempt[c] = Retries(c)

\* A call whose own requests end returns, also when the requests of others
\* never end and hold the whole pool: it does not wait for a connection
\* longer than its timeout, and it does not try for ever.
RequestsEnd(c) == []<>(pc[c] # "sent")
EveryCallReturns ==
  \A c \in Calls : RequestsEnd(c) => (Running(c) ~> pc[c] = "done")

\* A dispatcher of the kind tools/call expects, with one effect per attempt.
PhaseAt(place, outcome) ==
  CASE place = "new" -> "new"
    [] place # "new" /\ place # "done" -> "running"
    [] place = "done" /\ outcome = "ok" -> "returned"
    [] place = "done" /\ outcome \in Refusals -> "refused"
    [] OTHER -> "raised"
Phase(c) == PhaseAt(pc[c], result[c])
Contract == INSTANCE Dispatch
              WITH phase <- [c \in Calls |-> Phase(c)], effects <- ran,
                   budget <- [c \in Calls |-> Retries(c) + 1]
KeepsContract == Contract!Spec

------------------------------------------------------------------------------
(* The inductive invariant behind the safety properties *)

InFlight(c) == IF request[c] = "sent" THEN 1 ELSE 0

\* A request exists while the coroutine waits for it, was sent once, and is
\* carried out once; the loop sends once per attempt.
CountInv ==
  \A c \in Calls :
    /\ request[c] # "none" <=> pc[c] = "sent"
    /\ ran[c] + late[c] + InFlight(c) <= sends[c]
    /\ sends[c] <= attempt[c] + (IF pc[c] \in {"sent", "done"} THEN 1 ELSE 0)

\* A result is there at the end, and "ok" only for a call that was run and
\* has nothing left that could run.
ResultInv ==
  \A c \in Calls :
    /\ result[c] = "none" <=> pc[c] # "done"
    /\ pc[c] = "new" => last[c] = "none" /\ sends[c] = 0
    /\ result[c] \in Refusals => sends[c] = 0
    /\ request[c] = "ran" \/ result[c] = "ok" => ran[c] > 0
    /\ pc[c] \in {"new", "connect", "sent", "pause", "backoff"}
         => last[c] \in {"none", "timeout", "broken", "502"}

IInv ==
  TypeOK /\ CountInv /\ ResultInv /\ TellsTheLastEnding /\ UsesEveryAttempt
==============================================================================
