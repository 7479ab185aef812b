----------------------------- MODULE McpHandler ------------------------------
(***************************************************************************)
(* POST /mcp: app/mcp/streamable.py hands the messages of a request, one   *)
(* after the other, to app/mcp/handler.py; a tools/call is authorised      *)
(* against the cached catalogue, validated, dispatched, and written to the *)
(* audit log (app/audit/writer.py) before its reply is added to the        *)
(* response.  Requests interleave at every await, and the catalogue        *)
(* changes under them.                                                     *)
(*                                                                         *)
(* All requests come from one principal: "granted" is what the cached      *)
(* snapshot shows it, the union of its role and its customer grants.       *)
(***************************************************************************)
EXTENDS Naturals, Sequences

CONSTANTS Requests,    \* concurrent POSTs
          Tools,       \* tool names the catalogue may hold
          Unrouted,    \* tools whose dispatcher is not configured
          BadSchema,   \* tools whose input_schema is no JSON schema
          MaxItems,    \* bound: messages in a batch
          MaxEdits     \* bound: changes of the catalogue

ASSUME McpHandlerAssumption ==
  /\ Unrouted \subseteq Tools /\ BadSchema \subseteq Tools
  /\ MaxItems \in Nat \ {0} /\ MaxEdits \in Nat

VARIABLES granted,  \* tools the snapshot shows to the principal
          edits,    \* how often the catalogue has changed
          batch,    \* per request: its messages
          pos,      \* per request: the message in hand
          pc,       \* per request: where its coroutine is suspended
          row,      \* per request: the audit row being written
          replies,  \* per request: the replies so far
          http,     \* per request: the status sent, or "none", or "cut"
          audit,    \* tool_audit_log
          lost,     \* calls whose row the database did not take
          sent      \* calls handed to a dispatcher

vars == <<granted, edits, batch, pos, pc, row, replies, http, audit, lost, sent>>
logVars == <<audit, lost, sent>>
catalogVars == <<granted, edits>>

\* The messages the properties tell apart: a call, a list, a message that is
\* answered at once (ping, initialize, an error of the envelope, an unknown
\* method, a call without a usable name or arguments), one that gets no
\* answer (a notification), and one whose method is not a string and that
\* has no id, for which method.startswith raises outside of handle's try.
Items ==
  [kind : {"call"}, tool : Tools, fits : BOOLEAN]
    \union [kind : {"list", "plain", "silent", "raises"}]
Batches == UNION {[1..n -> Items] : n \in 1..MaxItems}

\* The ends a dispatcher can come to.
Outcomes == {"ok", "tool_error", "dispatch_error", "exception"}
Codes == {"none", "TOOL_NOT_FOUND", "INVALID_PARAMS", "INTERNAL_ERROR", "dispatch"}
NoRow == [status |-> "none", code |-> "none"]
Row(status, code) == [status |-> status, code |-> code]

Item(r) == batch[r][pos[r]]
Call(r) == <<r, pos[r]>>
InFlight(r) == pc[r] \notin {"idle", "answered"}

Init ==
  /\ granted \in SUBSET Tools
  /\ edits = 0
  /\ batch = [r \in Requests |-> <<>>]
  /\ pos = [r \in Requests |-> 0]
  /\ pc = [r \in Requests |-> "idle"]
  /\ row = [r \in Requests |-> NoRow]
  /\ replies = [r \in Requests |-> <<>>]
  /\ http = [r \in Requests |-> "none"]
  /\ audit = <<>>
  /\ lost = {}
  /\ sent = {}

------------------------------------------------------------------------------
(* streamable.py *)

Goto(r, next) == pc' = [pc EXCEPT ![r] = next]

Post(r, b) ==
  /\ pc[r] = "idle"
  /\ batch' = [batch EXCEPT ![r] = b]
  /\ pos' = [pos EXCEPT ![r] = 1]
  /\ Goto(r, "next")
  /\ UNCHANGED <<catalogVars, row, replies, http, logVars>>

\* The message in hand is done: its reply joins the results of the batch.
Advance(r) ==
  /\ pos' = [pos EXCEPT ![r] = @ + 1]
  /\ Goto(r, "next")
Reply(r, what) ==
  /\ replies' = [replies EXCEPT ![r] =
                   Append(@, [of |-> pos[r], what |-> what])]
  /\ Advance(r)

\* All messages are done.
Answer(r) ==
  /\ pc[r] = "next"
  /\ pos[r] > Len(batch[r])
  /\ Goto(r, "answered")
  /\ http' = [http EXCEPT ![r] = IF replies[r] = <<>> THEN "204" ELSE "200"]
  /\ UNCHANGED <<catalogVars, batch, pos, row, replies, logVars>>

------------------------------------------------------------------------------
(* handler.py: handle *)

Handling(r, kind) ==
  /\ pc[r] = "next"
  /\ pos[r] <= Len(batch[r])
  /\ Item(r).kind = kind
  /\ UNCHANGED <<catalogVars, batch, row, http, logVars>>

Plain(r) == Handling(r, "plain") /\ Reply(r, "plain")
SilentAnswered(r) == Handling(r, "silent") /\ Reply(r, "plain")
Silent(r) == Handling(r, "silent") /\ Advance(r) /\ UNCHANGED replies
List(r) == Handling(r, "list") /\ Goto(r, "lookup") /\ UNCHANGED <<pos, replies>>
StartCall(r) ==
  Handling(r, "call") /\ Goto(r, "lookup") /\ UNCHANGED <<pos, replies>>

\* The exception leaves mcp_post: the replies of the messages before this
\* one are gone, the messages after it are not looked at.
Raise(r) ==
  /\ pc[r] = "next"
  /\ pos[r] <= Len(batch[r])
  /\ Item(r).kind = "raises"
  /\ Goto(r, "answered")
  /\ http' = [http EXCEPT ![r] = "500"]
  /\ UNCHANGED <<catalogVars, batch, pos, row, replies, logVars>>

------------------------------------------------------------------------------
(* handler.py: _tools_list and _tools_call *)

\* The await of refresh_if_stale raises: handle answers INTERNAL_ERROR.
RefreshFails(r) ==
  /\ pc[r] = "lookup"
  /\ Reply(r, "INTERNAL_ERROR")
  /\ UNCHANGED <<catalogVars, batch, row, http, logVars>>

Listed(r) ==
  /\ pc[r] = "lookup" /\ Item(r).kind = "list"
  /\ Reply(r, "plain")
  /\ UNCHANGED <<catalogVars, batch, row, http, logVars>>

\* find_authorized_for_principal reads the snapshot after its await.
Visible(r) == Item(r).tool \in granted

Audit(r, status, code) ==
  /\ row' = [row EXCEPT ![r] = Row(status, code)]
  /\ Goto(r, "audit")
  /\ UNCHANGED <<catalogVars, batch, pos, replies, http, audit, lost>>

Deny(r) ==
  /\ pc[r] = "lookup" /\ Item(r).kind = "call"
  /\ ~Visible(r)
  /\ Audit(r, "denied", "TOOL_NOT_FOUND")
  /\ UNCHANGED sent

\* jsonschema.validate checks the schema itself first, and its SchemaError
\* is no ValidationError: handle answers, nothing is written.
SchemaError(r) ==
  /\ pc[r] = "lookup" /\ Item(r).kind = "call"
  /\ Visible(r) /\ Item(r).tool \in BadSchema
  /\ Reply(r, "INTERNAL_ERROR")
  /\ UNCHANGED <<catalogVars, batch, row, http, logVars>>

Reject(r) ==
  /\ pc[r] = "lookup" /\ Item(r).kind = "call"
  /\ Visible(r) /\ Item(r).tool \notin BadSchema
  /\ \/ ~Item(r).fits /\ Audit(r, "error", "INVALID_PARAMS")
     \/ /\ Item(r).fits /\ Item(r).tool \in Unrouted
        /\ Audit(r, "error", "INTERNAL_ERROR")
  /\ UNCHANGED sent

\* No await between the look at the snapshot and the call of the dispatcher.
Dispatch(r) ==
  /\ pc[r] = "lookup" /\ Item(r).kind = "call"
  /\ Visible(r) /\ Item(r).tool \notin BadSchema \union Unrouted
  /\ Item(r).fits
  /\ sent' = sent \union {Call(r)}
  /\ Goto(r, "dispatch")
  /\ UNCHANGED <<catalogVars, batch, pos, row, replies, http, audit, lost>>

\* A result that is an error of the tool counts as ok.
DispatchedOrLeft(r, outcome) ==
  /\ pc[r] = "dispatch"
  /\ \/ /\ outcome \in {"ok", "tool_error"} /\ Audit(r, "ok", "none")
     \/ /\ outcome = "dispatch_error" /\ Audit(r, "error", "dispatch")
     \/ /\ outcome = "exception"
        /\ Reply(r, "INTERNAL_ERROR")
        /\ UNCHANGED <<catalogVars, batch, row, http, audit, lost>>
  /\ UNCHANGED sent
Dispatched(r, outcome) ==
  /\ pc[r] = "dispatch"
  /\ CASE outcome \in {"ok", "tool_error"} -> Audit(r, "ok", "none")
       [] outcome = "dispatch_error" -> Audit(r, "error", "dispatch")
       [] OTHER -> Audit(r, "error", "INTERNAL_ERROR")
  /\ UNCHANGED sent

\* write_audit commits the row, or logs the failure and goes on; either way
\* the reply follows.
RetryWrite(r) ==
  /\ audit' = audit \o <<[of |-> Call(r), is |-> row[r]],
                         [of |-> Call(r), is |-> row[r]]>>
  /\ UNCHANGED lost
Write(r) ==
  \/ /\ audit' = Append(audit, [of |-> Call(r), is |-> row[r]])
     /\ UNCHANGED lost
  \/ /\ lost' = lost \union {Call(r)}
     /\ UNCHANGED audit

ReplyOf(r) == row[r].code
ReplyAfterAudit(r) ==
  /\ pc[r] = "audit"
  /\ Write(r)
  /\ Reply(r, ReplyOf(r))
  /\ row' = [row EXCEPT ![r] = NoRow]
  /\ UNCHANGED <<catalogVars, batch, http, sent>>

------------------------------------------------------------------------------
(* Around the handler *)

\* A load of the cache shows the principal another set of tools.
Edit ==
  /\ edits < MaxEdits
  /\ edits' = edits + 1
  /\ granted' \in SUBSET Tools
  /\ UNCHANGED <<batch, pos, pc, row, replies, http, logVars>>

\* The process dies; its requests get no answer.
Crash ==
  /\ \E r \in Requests : InFlight(r)
  /\ pc' = [r \in Requests |-> IF InFlight(r) THEN "answered" ELSE pc[r]]
  /\ http' = [r \in Requests |-> IF InFlight(r) THEN "cut" ELSE http[r]]
  /\ UNCHANGED <<catalogVars, batch, pos, row, replies, logVars>>

Step(r) ==
  \/ Plain(r) \/ Silent(r) \/ List(r) \/ StartCall(r) \/ Raise(r)
  \/ RefreshFails(r) \/ Listed(r)
  \/ Deny(r) \/ SchemaError(r) \/ Reject(r) \/ Dispatch(r)
  \/ \E o \in Outcomes : Dispatched(r, o)
  \/ ReplyAfterAudit(r)
  \/ Answer(r)

Next ==
  \/ \E r \in Requests : Step(r) \/ \E b \in Batches : Post(r, b)
  \/ Edit
  \/ Crash

\* No fairness: a refresh and an insert await Postgres, for which db/engine.py
\* sets no timeout.
Spec == Init /\ [][Next]_vars

------------------------------------------------------------------------------
(* Properties *)

Calls == Requests \X (1..MaxItems)
Rows == [status : {"none", "ok", "denied", "error"}, code : Codes]
TypeOK ==
  /\ granted \subseteq Tools
  /\ batch \in [Requests -> Batches \union {<<>>}]
  /\ pos \in [Requests -> 0..MaxItems + 1]
  /\ \A r \in Requests : pos[r] <= Len(batch[r]) + 1
  /\ pc \in [Requests -> {"idle", "next", "lookup", "dispatch", "audit", "answered"}]
  /\ row \in [Requests -> Rows]
  /\ replies \in
       [Requests -> Seq([of : 1..MaxItems, what : Codes \union {"plain"}])]
  /\ http \in [Requests -> {"none", "200", "204", "500", "cut"}]
  /\ audit \in Seq([of : Calls, is : Rows])
  /\ lost \subseteq Calls /\ sent \subseteq Calls

RowsOf(c) == {k \in DOMAIN audit : audit[k].of = c}
RepliesTo(c) == {k \in DOMAIN replies[c[1]] : replies[c[1]][k].of = c[2]}

\* A call that was dispatched has its row, or the database refused it, unless
\* it is still in hand: being carried out or audited, or so when the process
\* died.  So a crash leaves at most one call of each request carried out and
\* not on record, and a message that takes the whole answer of its batch down
\* leaves none: what was done before it is on record though its reply is lost.
InHand(c) ==
  /\ c[2] = pos[c[1]]
  /\ pc[c[1]] \in {"dispatch", "audit"} \/ http[c[1]] = "cut"
DispatchedIsAccounted ==
  \A c \in sent : RowsOf(c) # {} \/ c \in lost \/ InHand(c)

\* At most one row per call, and the reply says what the row says.
RowsMatchReplies ==
  \A k \in DOMAIN audit :
    LET c == audit[k].of IN
      /\ RowsOf(c) = {k} /\ c \notin lost
      /\ audit[k].is.status = "denied" => c \notin sent
      /\ audit[k].is.status = "ok" => c \in sent
      /\ \A j \in RepliesTo(c) : replies[c[1]][j].what = audit[k].is.code

\* A 200 answers every message of the batch that wants an answer exactly
\* once, in the order of the batch, and a 204 has nothing to answer.
Wants(r) == {n \in DOMAIN batch[r] : batch[r][n].kind # "silent"}
InOrder(r) ==
  \A j, k \in DOMAIN replies[r] : j < k => replies[r][j].of < replies[r][k].of
OneReplyPerMessage ==
  \A r \in Requests :
    http[r] \in {"200", "204"} =>
      InOrder(r) /\ {replies[r][k].of : k \in DOMAIN replies[r]} = Wants(r)

\* What the README says of every call: none is answered without an audit
\* row or an attempt to write one.
EveryCallIsAudited ==
  \A r \in Requests : \A k \in DOMAIN replies[r] :
    LET c == <<r, replies[r][k].of>> IN
      batch[r][c[2]].kind = "call" => RowsOf(c) # {} \/ c \in lost

\* Why.  The messages before the one in hand are done, and nothing has been
\* done for those after it; a call that is handed over waits for its end.
PlaceInv(r) ==
  /\ pc[r] = "idle" => pos[r] = 0
  /\ pc[r] # "idle" => pos[r] > 0
  /\ pc[r] \in {"lookup", "dispatch", "audit"} =>
       pos[r] <= Len(batch[r]) /\ Item(r).kind # "silent"
  /\ http[r] # "none" => pc[r] = "answered"
  /\ http[r] \in {"200", "204"} => pos[r] > Len(batch[r])
RepliesInv(r) ==
  /\ InOrder(r)
  /\ {replies[r][k].of : k \in DOMAIN replies[r]} = {n \in Wants(r) : n < pos[r]}
RowInv(r) ==
  /\ pc[r] = "dispatch" => Call(r) \in sent
  /\ pc[r] = "audit" => /\ row[r].status = "denied" => Call(r) \notin sent
                        /\ row[r].status = "ok" => Call(r) \in sent
Behind(c) == c[2] < pos[c[1]]
LogInv ==
  /\ \A k \in DOMAIN audit : Behind(audit[k].of)
  /\ \A c \in lost : Behind(c)
  /\ \A c \in sent : Behind(c) \/ InHand(c)
IInv ==
  /\ TypeOK /\ LogInv /\ DispatchedIsAccounted /\ RowsMatchReplies
  /\ \A r \in Requests : PlaceInv(r) /\ RepliesInv(r) /\ RowInv(r)
==============================================================================
