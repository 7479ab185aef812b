-------------------------- MODULE StreamableProofs ---------------------------
(***************************************************************************)
(* What is proved about /mcp: McpHandler, its POST, for any number of      *)
(* requests, any tools, batches of any length, and any changes of the      *)
(* catalogue; and ListChanged, the push to its GET, for any instances,     *)
(* clients, and size of a client's queue, and any number of faults.        *)
(*                                                                         *)
(* The inductive invariant of McpHandler is IInv.  A step adds a reply,    *)
(* skips a message, or leaves both where they are; what each does to the   *)
(* replies is stated once, and the actions are then one of these kinds.    *)
(* That of ListChanged is PushInv.                                         *)
(***************************************************************************)
EXTENDS McpHandler, ListChanged, TLAPS

USE McpHandlerAssumption, ListChangedAssumption

Locations == {"idle", "next", "lookup", "dispatch", "audit", "answered"}
Whats == Codes \union {"plain"}
Replies == [of : 1..MaxItems, what : Whats]
AuditRows == [of : Calls, is : Rows]

\* What RowsMatchReplies says of row k, that of call c.
RowFits(k, c) ==
  /\ RowsOf(c) = {k} /\ c \notin lost
  /\ audit[k].is.status = "denied" => c \notin sent
  /\ audit[k].is.status = "ok" => c \in sent
  /\ \A j \in RepliesTo(c) : replies[c[1]][j].what = audit[k].is.code

LEMMA AppendFacts ==
  ASSUME NEW S, NEW s \in Seq(S), NEW e \in S
  PROVE  /\ Append(s, e) \in Seq(S)
         /\ DOMAIN Append(s, e) = DOMAIN s \union {Len(s) + 1}
         /\ Len(s) + 1 \notin DOMAIN s
         /\ \A k \in DOMAIN s : k < Len(s) + 1 /\ Append(s, e)[k] = s[k]
         /\ Append(s, e)[Len(s) + 1] = e
  OBVIOUS

\* The messages of a batch are numbered from 1.
LEMMA BatchType ==
  ASSUME TypeOK, NEW r \in Requests
  PROVE  Len(batch[r]) \in Nat /\ DOMAIN batch[r] = 1..Len(batch[r])
  <1>1. CASE batch[r] \in Batches
    <2>1. PICK n \in 1..MaxItems : batch[r] \in [1..n -> Items]
      BY <1>1 DEF Batches
    <2>2. QED
      BY <2>1
  <1>2. CASE batch[r] = <<>>
    BY <1>2
  <1>3. QED
    BY <1>1, <1>2 DEF TypeOK

\* The message in hand is one of the batch, and its number is in bounds.
LEMMA InHandType ==
  ASSUME IInv, NEW r \in Requests, pc[r] # "idle", pos[r] <= Len(batch[r])
  PROVE  /\ pos[r] \in 1..MaxItems /\ pos[r] + 1 \in 0..MaxItems + 1
         /\ pos[r] \in DOMAIN batch[r] /\ Call(r) \in Calls
         /\ batch[r] \in Batches
  <1>1. pos[r] \in Nat /\ pos[r] > 0
    BY DEF IInv, TypeOK, PlaceInv
  <1>2. CASE batch[r] = <<>>
    BY <1>1, <1>2
  <1>3. CASE batch[r] \in Batches
    <2>1. PICK n \in 1..MaxItems : batch[r] \in [1..n -> Items]
      BY <1>3 DEF Batches
    <2>2. Len(batch[r]) = n /\ DOMAIN batch[r] = 1..n
      BY <2>1
    <2>3. QED
      BY <1>1, <1>3, <2>2 DEF Call, Calls
  <1>4. QED
    BY <1>2, <1>3 DEF IInv, TypeOK

\* What was answered before the message in hand.
LEMMA Earlier ==
  ASSUME IInv, NEW r \in Requests
  PROVE  /\ \A k \in DOMAIN replies[r] : replies[r][k].of < pos[r]
         /\ \A c \in Calls : c[1] = r /\ c[2] >= pos[r] => RepliesTo(c) = {}
  <1>1. \A k \in DOMAIN replies[r] : replies[r][k].of < pos[r]
    BY DEF IInv, RepliesInv
  <1>2. \A k \in DOMAIN replies[r] : replies[r][k].of \in Nat
    <2>1. replies[r] \in Seq(Replies)
      BY DEF IInv, TypeOK, Replies, Whats
    <2>2. \A k \in DOMAIN replies[r] : replies[r][k] \in Replies
      BY <2>1
    <2>3. QED
      BY <2>2 DEF Replies
  <1>3. pos[r] \in Nat
    BY DEF IInv, TypeOK
  <1>4. QED
    BY <1>1, <1>2, <1>3 DEF RepliesTo, Calls

\* A reply is added for the message in hand.
LEMMA ReplyFacts ==
  ASSUME IInv, NEW r \in Requests, NEW what \in Whats, Reply(r, what),
         UNCHANGED batch, pc[r] \notin {"idle", "answered"},
         pos[r] <= Len(batch[r]), Item(r).kind # "silent"
  PROVE  /\ replies' \in [Requests -> Seq(Replies)]
         /\ pos' = [pos EXCEPT ![r] = @ + 1] /\ pc' = [pc EXCEPT ![r] = "next"]
         /\ \A q \in Requests : RepliesInv(q)'
         /\ \A c \in Calls \ {Call(r)} :
              /\ RepliesTo(c)' = RepliesTo(c)
              /\ \A j \in RepliesTo(c) : replies'[c[1]][j] = replies[c[1]][j]
         /\ \A c \in Calls : c = Call(r) =>
              /\ RepliesTo(c) = {}
              /\ \A j \in RepliesTo(c)' : replies'[r][j].what = what
  <1> DEFINE new == [of |-> pos[r], what |-> what]
             n == Len(replies[r]) + 1
  <1>1. /\ replies \in [Requests -> Seq(Replies)] /\ pos[r] \in Nat
        /\ pos \in [Requests -> 0..MaxItems + 1] /\ pc \in [Requests -> Locations]
    <2>1. replies \in [Requests -> Seq(Replies)]
      BY DEF IInv, TypeOK, Replies, Whats
    <2>2. pos \in [Requests -> 0..MaxItems + 1]
      BY DEF IInv, TypeOK
    <2>3. pc \in [Requests -> Locations]
      BY DEF IInv, TypeOK, Locations
    <2>4. QED
      BY <2>1, <2>2, <2>3
  <1>2. pos[r] \in 1..MaxItems /\ pos[r] \in DOMAIN batch[r] /\ Call(r) \in Calls
    BY InHandType
  <1>3. new \in Replies
    BY <1>2 DEF Replies
  <1>4. /\ replies' = [replies EXCEPT ![r] = Append(replies[r], new)]
        /\ pos' = [pos EXCEPT ![r] = @ + 1] /\ pc' = [pc EXCEPT ![r] = "next"]
    BY DEF Reply, Advance, Goto
  <1>5. /\ replies'[r] \in Seq(Replies)
        /\ DOMAIN replies'[r] = DOMAIN replies[r] \union {n} /\ n \notin DOMAIN replies[r]
        /\ \A k \in DOMAIN replies[r] : k < n /\ replies'[r][k] = replies[r][k]
        /\ replies'[r][n] = new
        /\ \A q \in Requests \ {r} : replies'[q] = replies[q]
    BY <1>1, <1>3, <1>4, AppendFacts
  <1>6. pos'[r] = pos[r] + 1 /\ \A q \in Requests \ {r} : pos'[q] = pos[q]
    BY <1>1, <1>4
  <1>7. new.of = pos[r] /\ new.what = what
    OBVIOUS
  <1> HIDE DEF new, n
  <1>8. RepliesInv(r)'
    <2>1. RepliesInv(r) /\ \A k \in DOMAIN replies[r] : replies[r][k].of < pos[r]
      BY Earlier DEF IInv
    <2>2. InOrder(r)'
      <3> SUFFICES ASSUME NEW j \in DOMAIN replies'[r], NEW k \in DOMAIN replies'[r],
                          j < k
                   PROVE  replies'[r][j].of < replies'[r][k].of
        BY DEF InOrder
      <3>1. j \in Nat /\ k \in Nat
        BY <1>5
      <3>2. j \in DOMAIN replies[r]
        BY <1>5, <3>1
      <3>3. CASE k = n
        BY <1>5, <1>7, <2>1, <3>2, <3>3
      <3>4. CASE k \in DOMAIN replies[r]
        BY <1>5, <2>1, <3>2, <3>4 DEF RepliesInv, InOrder
      <3>5. QED
        BY <1>5, <3>3, <3>4
    <2>3. Wants(r)' = Wants(r) /\ pos[r] \in Wants(r) /\ \A m \in Wants(r) : m \in Nat
      <3>1. DOMAIN batch[r] \subseteq Nat
        BY InHandType DEF Batches
      <3>2. QED
        BY <1>2, <3>1 DEF Wants, Item
    <2>4. {replies'[r][k].of : k \in DOMAIN replies'[r]} =
            {replies[r][k].of : k \in DOMAIN replies[r]} \union {pos[r]}
      BY <1>5, <1>7
    <2>5. {m \in Wants(r)' : m < pos'[r]} = {m \in Wants(r) : m < pos[r]} \union {pos[r]}
      BY <1>1, <1>6, <2>3
    <2>6. QED
      BY <2>1, <2>2, <2>4, <2>5 DEF RepliesInv
  <1>9. ASSUME NEW q \in Requests \ {r}
        PROVE  RepliesInv(q)'
    BY <1>5, <1>6 DEF IInv, RepliesInv, InOrder, Wants
  <1>10. ASSUME NEW c \in Calls \ {Call(r)}
         PROVE  /\ RepliesTo(c)' = RepliesTo(c)
                /\ \A j \in RepliesTo(c) : replies'[c[1]][j] = replies[c[1]][j]
    <2>1. CASE c[1] = r
      <3>1. c[2] # pos[r]
        BY <2>1 DEF Call, Calls
      <3>2. QED
        BY <1>5, <1>7, <2>1, <3>1 DEF RepliesTo
    <2>2. CASE c[1] # r
      BY <1>5, <2>2 DEF RepliesTo, Calls
    <2>3. QED
      BY <2>1, <2>2
  <1>11. ASSUME NEW c \in Calls, c = Call(r)
         PROVE  /\ RepliesTo(c) = {}
                /\ \A j \in RepliesTo(c)' : replies'[r][j].what = what
    <2>1. c[1] = r /\ c[2] = pos[r]
      BY <1>11 DEF Call
    <2>2. RepliesTo(c) = {}
      BY <1>1, <2>1, Earlier
    <2>3. \A j \in RepliesTo(c)' : j = n
      BY <1>5, <2>1, <2>2 DEF RepliesTo
    <2>4. QED
      BY <1>5, <1>7, <2>2, <2>3
  <1>12. replies' \in [Requests -> Seq(Replies)]
    BY <1>1, <1>4, <1>5
  <1>13. QED
    BY <1>4, <1>8, <1>9, <1>10, <1>11, <1>12

------------------------------------------------------------------------------
(* The kinds of steps *)

\* A call that has not been handed over is not among those that have been.
LEMMA NotSent ==
  ASSUME IInv, NEW r \in Requests, pc[r] \in {"idle", "next", "lookup"}
  PROVE  Call(r) \notin sent
  <1>1. pos[r] \in Nat /\ \A c \in sent : Behind(c) \/ InHand(c)
    BY DEF IInv, TypeOK, LogInv
  <1>2. ~Behind(Call(r)) /\ ~InHand(Call(r))
    BY <1>1 DEF IInv, PlaceInv, Behind, InHand, Call
  <1>3. QED
    BY <1>1, <1>2

\* What is behind is not the call in hand.
LEMMA NotBehind ==
  ASSUME IInv, NEW r \in Requests
  PROVE  ~Behind(Call(r))
  BY DEF IInv, TypeOK, Behind, Call

\* Rows and calls are of their types.
LEMMA AuditType ==
  ASSUME IInv, NEW k \in DOMAIN audit
  PROVE  audit[k].of \in Calls /\ audit[k].is \in Rows
  <1>1. audit \in Seq(AuditRows)
    BY DEF IInv, TypeOK, AuditRows
  <1>2. audit[k] \in AuditRows
    BY <1>1
  <1>3. QED
    BY <1>2 DEF AuditRows

\* A request moves on to its next message: all that was behind stays behind,
\* and the call that was in hand joins it.
LEMMA AdvanceFacts ==
  ASSUME IInv, NEW r \in Requests, Advance(r), pc[r] \notin {"idle", "answered"},
         pos[r] <= Len(batch[r]), UNCHANGED <<batch, http, sent>>,
         row' = row \/ row' = [row EXCEPT ![r] = NoRow]
  PROVE  /\ pos' \in [Requests -> 0..MaxItems + 1]
         /\ \A q \in Requests : pos'[q] <= Len(batch[q]) + 1
         /\ pc' \in [Requests -> Locations] /\ row' \in [Requests -> Rows]
         /\ \A q \in Requests : PlaceInv(q)' /\ RowInv(q)'
         /\ \A c \in Calls : Behind(c) \/ c = Call(r) => Behind(c)'
         /\ \A c \in sent : Behind(c)' \/ InHand(c)'
         /\ \A c \in sent \ {Call(r)} : InHand(c) => InHand(c)'
  <1>1. /\ pos \in [Requests -> 0..MaxItems + 1] /\ pc \in [Requests -> Locations]
        /\ row \in [Requests -> Rows] /\ sent \subseteq Calls
        /\ \A q \in Requests : pos[q] <= Len(batch[q]) + 1
    BY DEF IInv, TypeOK, Locations
  <1>2. pos[r] \in 1..MaxItems /\ pos[r] + 1 \in 0..MaxItems + 1
    BY InHandType
  <1>3. pos' = [pos EXCEPT ![r] = pos[r] + 1] /\ pc' = [pc EXCEPT ![r] = "next"]
    BY DEF Advance, Goto
  <1>4. /\ pos'[r] = pos[r] + 1 /\ pc'[r] = "next"
        /\ \A q \in Requests \ {r} :
             pos'[q] = pos[q] /\ pc'[q] = pc[q] /\ row'[q] = row[q]
    BY <1>1, <1>3
  <1>5. pos' \in [Requests -> 0..MaxItems + 1] /\ pc' \in [Requests -> Locations]
    BY <1>1, <1>2, <1>3 DEF Locations
  <1>6. row' \in [Requests -> Rows]
    <2>1. NoRow \in Rows
      BY DEF Rows, NoRow, Codes
    <2>2. QED
      BY <1>1, <2>1
  <1>7. \A q \in Requests : pos'[q] <= Len(batch[q]) + 1
    <2>1. Len(batch[r]) \in Nat
      BY InHandType DEF Batches
    <2>2. pos'[r] <= Len(batch[r]) + 1
      BY <1>2, <1>4, <2>1
    <2>3. QED
      BY <1>1, <1>4, <2>2
  <1>8. PlaceInv(r)' /\ RowInv(r)'
    BY <1>2, <1>4 DEF IInv, PlaceInv, RowInv
  <1>9. ASSUME NEW q \in Requests \ {r}
        PROVE  PlaceInv(q)' /\ RowInv(q)'
    <2>1. pos'[q] = pos[q] /\ pc'[q] = pc[q] /\ row'[q] = row[q] /\ http'[q] = http[q]
      BY <1>4
    <2>2. PlaceInv(q) /\ RowInv(q)
      BY DEF IInv
    <2>3. QED
      BY <2>1, <2>2 DEF PlaceInv, RowInv, Item, Call
  <1>10. ASSUME NEW c \in Calls, Behind(c) \/ c = Call(r)
         PROVE  Behind(c)'
    <2>1. c[1] \in Requests /\ (c[1] = r => c[2] <= pos[r]) /\ c[2] \in Nat
      BY <1>2, <1>10 DEF Calls, Behind, Call
    <2>2. CASE c[1] = r
      BY <1>2, <1>4, <2>1, <2>2 DEF Behind
    <2>3. CASE c[1] # r
      BY <1>4, <1>10, <2>1, <2>3 DEF Behind, Call
    <2>4. QED
      BY <2>2, <2>3
  <1>11. ASSUME NEW c \in sent
         PROVE  Behind(c)' \/ InHand(c)'
    <2>1. c \in Calls /\ (Behind(c) \/ InHand(c))
      BY <1>1 DEF IInv, LogInv
    <2>2. CASE Behind(c)
      BY <1>10, <2>1, <2>2
    <2>3. CASE InHand(c) /\ c[1] = r
      <3>1. c = Call(r)
        BY <2>1, <2>3 DEF InHand, Call, Calls
      <3>2. QED
        BY <1>10, <2>1, <3>1
    <2>4. CASE InHand(c) /\ c[1] # r
      BY <1>4, <2>1, <2>4 DEF InHand, Calls
    <2>5. QED
      BY <2>1, <2>2, <2>3, <2>4
  <1>12. ASSUME NEW c \in sent \ {Call(r)}, InHand(c)
         PROVE  InHand(c)'
    <2>1. c \in Calls /\ c[1] # r
      BY <1>1, <1>12 DEF InHand, Call, Calls
    <2>2. QED
      BY <1>4, <1>12, <2>1 DEF InHand, Calls
  <1>13. QED
    BY <1>5, <1>6, <1>7, <1>8, <1>9, <1>10, <1>11, <1>12

\* A message that wants no answer is passed over.
LEMMA PassedOver ==
  ASSUME IInv, NEW r \in Requests, Silent(r)
  PROVE  IInv'
  <1>1. /\ Advance(r) /\ pc[r] = "next" /\ pos[r] <= Len(batch[r])
        /\ Item(r).kind = "silent"
        /\ UNCHANGED <<granted, edits, batch, row, replies, http, audit, lost, sent>>
    BY DEF Silent, Handling, catalogVars, logVars
  <1>2. /\ pos' \in [Requests -> 0..MaxItems + 1]
        /\ \A q \in Requests : pos'[q] <= Len(batch[q]) + 1
        /\ pc' \in [Requests -> Locations] /\ row' \in [Requests -> Rows]
        /\ \A q \in Requests : PlaceInv(q)' /\ RowInv(q)'
        /\ \A c \in Calls : Behind(c) => Behind(c)'
        /\ \A c \in sent : Behind(c)' \/ InHand(c)'
        /\ \A c \in sent \ {Call(r)} : InHand(c) => InHand(c)'
    BY <1>1, AdvanceFacts
  <1>3. TypeOK'
    BY <1>1, <1>2 DEF IInv, TypeOK, Locations
  <1>4. LogInv'
    <2>1. \A k \in DOMAIN audit : audit[k].of \in Calls
      BY AuditType
    <2>2. QED
      BY <1>1, <1>2, <2>1 DEF IInv, LogInv, TypeOK
  <1>5. DispatchedIsAccounted' /\ RowsMatchReplies'
    <2>1. DispatchedIsAccounted'
      BY <1>1, <1>2, NotSent DEF IInv, DispatchedIsAccounted, RowsOf
    <2>2. RowsMatchReplies'
      BY <1>1 DEF IInv, RowsMatchReplies, RowsOf, RepliesTo
    <2>3. QED
      BY <2>1, <2>2
  <1>6. RepliesInv(r)'
    <2>1. pos'[r] = pos[r] + 1 /\ pos[r] \in Nat
      BY <1>1 DEF IInv, TypeOK, Advance
    <2>2. DOMAIN batch[r] \subseteq Nat /\ pos[r] \notin Wants(r)
      BY <1>1, InHandType DEF Batches, Wants, Item
    <2>3. {m \in Wants(r) : m < pos[r] + 1} = {m \in Wants(r) : m < pos[r]}
      BY <2>1, <2>2 DEF Wants
    <2>4. QED
      BY <1>1, <2>1, <2>3 DEF IInv, RepliesInv, InOrder, Wants
  <1>7. ASSUME NEW q \in Requests \ {r}
        PROVE  RepliesInv(q)'
    <2>1. pos'[q] = pos[q]
      BY <1>1 DEF IInv, TypeOK, Advance
    <2>2. QED
      BY <1>1, <2>1 DEF IInv, RepliesInv, InOrder, Wants
  <1>8. QED
    BY <1>2, <1>3, <1>4, <1>5, <1>6, <1>7 DEF IInv

\* A reply before anything was handed over: no row is due.
LEMMA QuietReply ==
  ASSUME IInv, NEW r \in Requests, NEW what \in Whats, Reply(r, what),
         pc[r] \in {"next", "lookup"}, pos[r] <= Len(batch[r]),
         Item(r).kind # "silent",
         UNCHANGED <<catalogVars, batch, row, http, logVars>>
  PROVE  IInv'
  <1>1. Advance(r) /\ UNCHANGED <<granted, edits, batch, row, http, audit, lost, sent>>
    BY DEF catalogVars, logVars, Reply
  <1>2. /\ replies' \in [Requests -> Seq(Replies)]
        /\ \A q \in Requests : RepliesInv(q)'
        /\ \A c \in Calls \ {Call(r)} :
             /\ RepliesTo(c)' = RepliesTo(c)
             /\ \A j \in RepliesTo(c) : replies'[c[1]][j] = replies[c[1]][j]
    BY <1>1, ReplyFacts
  <1>3. /\ pos' \in [Requests -> 0..MaxItems + 1]
        /\ \A q \in Requests : pos'[q] <= Len(batch[q]) + 1
        /\ pc' \in [Requests -> Locations] /\ row' \in [Requests -> Rows]
        /\ \A q \in Requests : PlaceInv(q)' /\ RowInv(q)'
        /\ \A c \in Calls : Behind(c) => Behind(c)'
        /\ \A c \in sent : Behind(c)' \/ InHand(c)'
        /\ \A c \in sent \ {Call(r)} : InHand(c) => InHand(c)'
    BY <1>1, AdvanceFacts
  <1>4. TypeOK'
    BY <1>1, <1>2, <1>3 DEF IInv, TypeOK, Replies, Whats, Locations
  <1>5. LogInv'
    <2>1. \A k \in DOMAIN audit : audit[k].of \in Calls
      BY AuditType
    <2>2. QED
      BY <1>1, <1>3, <2>1 DEF IInv, LogInv, TypeOK
  <1>6. DispatchedIsAccounted'
    <2>1. \A c \in sent : c \in sent \ {Call(r)}
      BY NotSent
    <2>2. QED
      BY <1>1, <1>3, <2>1 DEF IInv, DispatchedIsAccounted, RowsOf
  <1>7. RowsMatchReplies'
    <2> SUFFICES ASSUME NEW k \in DOMAIN audit', NEW c, c = audit'[k].of
                 PROVE  RowFits(k, c)'
      BY DEF RowsMatchReplies, RowFits
    <2>1. c \in Calls \ {Call(r)}
      BY <1>1, AuditType, NotBehind DEF IInv, LogInv
    <2>2. RowsOf(c)' = RowsOf(c)
      BY <1>1 DEF RowsOf
    <2>3. RowFits(k, c)
      BY <1>1 DEF IInv, RowsMatchReplies, RowFits
    <2>4. /\ RepliesTo(c)' = RepliesTo(c)
          /\ \A j \in RepliesTo(c) : replies'[c[1]][j] = replies[c[1]][j]
      BY <1>2, <2>1
    <2>5. QED
      BY <1>1, <2>2, <2>3, <2>4 DEF RowFits
  <1>8. QED
    BY <1>2, <1>3, <1>4, <1>5, <1>6, <1>7 DEF IInv

\* A step within the handling of one message: the call may be handed over, and
\* nothing is answered.
LEMMA Within ==
  ASSUME IInv, NEW r \in Requests, TypeOK', PlaceInv(r)', RowInv(r)',
         UNCHANGED <<batch, pos, replies, audit, lost>>,
         \A q \in Requests \ {r} :
           pc'[q] = pc[q] /\ row'[q] = row[q] /\ http'[q] = http[q],
         pc[r] \in {"dispatch", "audit"} => pc'[r] \in {"dispatch", "audit"},
         http[r] = "cut" => http'[r] = "cut",
         \/ sent' = sent
         \/ sent' = sent \union {Call(r)} /\ pc'[r] = "dispatch"
  PROVE  IInv'
  <1>1. TypeOK /\ LogInv /\ \A q \in Requests : PlaceInv(q) /\ RowInv(q)
    BY DEF IInv
  <1>2. \A q \in Requests : RepliesInv(q)'
    BY DEF IInv, RepliesInv, InOrder, Wants
  <1>3. LogInv'
    <2>1. \A c \in Calls : Behind(c)' <=> Behind(c)
      BY DEF Behind
    <2>2. \A c \in Calls : InHand(c) => InHand(c)'
      BY DEF InHand, Calls
    <2>3. \A k \in DOMAIN audit : audit[k].of \in Calls
      BY AuditType
    <2>4. \A c \in sent' : c \in sent \/ InHand(c)'
      BY DEF InHand, Call
    <2>5. QED
      BY <1>1, <2>1, <2>2, <2>3, <2>4 DEF LogInv, TypeOK
  <1>4. DispatchedIsAccounted'
    <2>1. \A c \in sent : InHand(c) => InHand(c)'
      BY <1>1 DEF InHand, Calls, TypeOK
    <2>2. \A c : RowsOf(c)' = RowsOf(c)
      BY DEF RowsOf
    <2>3. \A c \in sent : RowsOf(c) # {} \/ c \in lost \/ InHand(c)
      BY DEF IInv, DispatchedIsAccounted
    <2>4. ASSUME NEW c \in sent'
          PROVE  RowsOf(c)' # {} \/ c \in lost' \/ InHand(c)'
      <3>1. CASE c \in sent
        BY <2>1, <2>2, <2>3, <3>1
      <3>2. CASE c \notin sent
        <4>1. c = Call(r) /\ pc'[r] = "dispatch"
          BY <2>4, <3>2
        <4>2. QED
          BY <4>1 DEF InHand, Call
      <3>3. QED
        BY <3>1, <3>2
    <2>5. QED
      BY <2>4 DEF DispatchedIsAccounted
  <1>5. RowsMatchReplies'
    <2>1. \A k \in DOMAIN audit : audit[k].of # Call(r)
      BY <1>1, NotBehind DEF LogInv
    <2>2. QED
      BY <2>1 DEF IInv, RowsMatchReplies, RowsOf, RepliesTo
  <1>6. ASSUME NEW q \in Requests \ {r}
        PROVE  PlaceInv(q)' /\ RowInv(q)'
    BY <1>1 DEF PlaceInv, RowInv, Item, Call
  <1>7. QED
    BY <1>2, <1>3, <1>4, <1>5, <1>6 DEF IInv

\* The reply of a call whose row is written, or lost, at the same step.
LEMMA AuditedReply ==
  ASSUME IInv, NEW r \in Requests, ReplyAfterAudit(r)
  PROVE  IInv'
  <1> DEFINE e == [of |-> Call(r), is |-> row[r]]
             n == Len(audit) + 1
  <1>1. /\ Reply(r, row[r].code) /\ Advance(r) /\ pc[r] = "audit"
        /\ row' = [row EXCEPT ![r] = NoRow]
        /\ UNCHANGED <<granted, edits, batch, http, sent>>
        /\ \/ audit' = Append(audit, e) /\ lost' = lost
           \/ audit' = audit /\ lost' = lost \union {Call(r)}
    BY DEF ReplyAfterAudit, Write, Reply, ReplyOf, catalogVars
  <1>2. pos[r] <= Len(batch[r]) /\ Item(r).kind # "silent"
    BY <1>1 DEF IInv, PlaceInv
  <1>3. Call(r) \in Calls /\ row[r] \in Rows /\ row[r].code \in Whats
    <2>1. row[r] \in Rows
      BY DEF IInv, TypeOK
    <2>2. QED
      BY <1>1, <1>2, <2>1, InHandType DEF Rows, Whats
  <1>4. /\ replies' \in [Requests -> Seq(Replies)]
        /\ \A q \in Requests : RepliesInv(q)'
        /\ \A c \in Calls \ {Call(r)} :
             /\ RepliesTo(c)' = RepliesTo(c)
             /\ \A j \in RepliesTo(c) : replies'[c[1]][j] = replies[c[1]][j]
        /\ \A c \in Calls : c = Call(r) =>
             \A j \in RepliesTo(c)' : replies'[r][j].what = row[r].code
    BY <1>1, <1>2, <1>3, ReplyFacts
  <1>5. /\ pos' \in [Requests -> 0..MaxItems + 1]
        /\ \A q \in Requests : pos'[q] <= Len(batch[q]) + 1
        /\ pc' \in [Requests -> Locations] /\ row' \in [Requests -> Rows]
        /\ \A q \in Requests : PlaceInv(q)' /\ RowInv(q)'
        /\ \A c \in Calls : Behind(c) \/ c = Call(r) => Behind(c)'
        /\ \A c \in sent : Behind(c)' \/ InHand(c)'
        /\ \A c \in sent \ {Call(r)} : InHand(c) => InHand(c)'
    BY <1>1, <1>2, AdvanceFacts
  <1>6. audit \in Seq(AuditRows) /\ e \in AuditRows /\ e.of = Call(r) /\ e.is = row[r]
    BY <1>3 DEF IInv, TypeOK, AuditRows
  <1> HIDE DEF e, n
  <1>7. ASSUME audit' = Append(audit, e)
        PROVE  /\ audit' \in Seq(AuditRows) /\ DOMAIN audit' = DOMAIN audit \union {n}
               /\ n \notin DOMAIN audit /\ audit'[n] = e
               /\ \A k \in DOMAIN audit : audit'[k] = audit[k]
    BY <1>6, <1>7, AppendFacts DEF n
  <1>8. /\ \A k \in DOMAIN audit :
             audit[k].of \in Calls \ {Call(r)} /\ Behind(audit[k].of)
        /\ Call(r) \notin lost
    BY AuditType, NotBehind DEF IInv, LogInv
  <1>9. TypeOK'
    <2>1. audit' \in Seq(AuditRows) /\ lost' \subseteq Calls
      BY <1>1, <1>3, <1>6, <1>7 DEF IInv, TypeOK
    <2>2. QED
      BY <1>1, <1>4, <1>5, <2>1
         DEF IInv, TypeOK, Replies, Whats, Locations, AuditRows
  <1>10. LogInv'
    <2>1. ASSUME NEW k \in DOMAIN audit', NEW c, c = audit'[k].of
          PROVE  Behind(c)'
      <3>1. c \in Calls /\ (Behind(c) \/ c = Call(r))
        <4>1. CASE audit' = audit
          BY <1>8, <2>1, <4>1
        <4>2. CASE audit' = Append(audit, e)
          BY <1>3, <1>6, <1>7, <1>8, <2>1, <4>2
        <4>3. QED
          BY <1>1, <4>1, <4>2
      <3>2. QED
        BY <1>5, <3>1
    <2>2. ASSUME NEW c \in lost'
          PROVE  Behind(c)'
      <3>1. c \in Calls /\ (Behind(c) \/ c = Call(r))
        BY <1>1, <1>3 DEF IInv, LogInv, TypeOK
      <3>2. QED
        BY <1>5, <3>1
    <2>3. QED
      BY <1>1, <1>5, <2>1, <2>2 DEF LogInv
  <1>11. ASSUME NEW c \in Calls \ {Call(r)}
         PROVE  RowsOf(c)' = RowsOf(c) /\ (c \in lost' <=> c \in lost)
    BY <1>1, <1>6, <1>7 DEF RowsOf
  <1>12. DispatchedIsAccounted'
    <2> SUFFICES ASSUME NEW c \in sent
                 PROVE  RowsOf(c)' # {} \/ c \in lost' \/ InHand(c)'
      BY <1>1 DEF DispatchedIsAccounted
    <2>1. CASE c = Call(r)
      BY <1>1, <1>6, <1>7, <2>1 DEF RowsOf
    <2>2. CASE c # Call(r)
      <3>1. c \in Calls \ {Call(r)}
        BY <2>2 DEF IInv, TypeOK
      <3>2. QED
        BY <1>5, <1>11, <3>1 DEF IInv, DispatchedIsAccounted
    <2>3. QED
      BY <2>1, <2>2
  <1>13. RowsMatchReplies'
    <2> SUFFICES ASSUME NEW k \in DOMAIN audit', NEW c, c = audit'[k].of
                 PROVE  RowFits(k, c)'
      BY DEF RowsMatchReplies, RowFits
    <2>1. CASE k \in DOMAIN audit
      <3>1. audit'[k] = audit[k]
        BY <1>1, <1>7, <2>1
      <3>2. c \in Calls \ {Call(r)} /\ RowFits(k, c)
        BY <1>8, <2>1, <3>1 DEF IInv, RowsMatchReplies, RowFits
      <3>3. /\ RepliesTo(c)' = RepliesTo(c)
            /\ \A j \in RepliesTo(c) : replies'[c[1]][j] = replies[c[1]][j]
        BY <1>4, <3>2
      <3>4. RowsOf(c)' = RowsOf(c) /\ (c \in lost' <=> c \in lost)
        BY <1>11, <3>2
      <3>5. QED
        BY <1>1, <3>1, <3>2, <3>3, <3>4 DEF RowFits
    <2>2. CASE k \notin DOMAIN audit
      <3>1. audit' = Append(audit, e) /\ k = n /\ lost' = lost
        BY <1>1, <1>7, <2>2
      <3>2. audit'[k] = e /\ c = Call(r) /\ c[1] = r
        BY <1>6, <1>7, <3>1 DEF Call
      <3>3. RowsOf(c)' = {k}
        BY <1>7, <1>8, <3>1, <3>2 DEF RowsOf
      <3>4. /\ row[r].status = "denied" => c \notin sent
            /\ row[r].status = "ok" => c \in sent
        BY <1>1, <3>2 DEF IInv, RowInv
      <3>5. \A j \in RepliesTo(c)' : replies'[c[1]][j].what = row[r].code
        BY <1>3, <1>4, <3>2
      <3>6. QED
        BY <1>1, <1>6, <1>8, <3>1, <3>2, <3>3, <3>4, <3>5 DEF RowFits
    <2>3. QED
      BY <2>1, <2>2
  <1>14. QED
    BY <1>4, <1>5, <1>9, <1>10, <1>12, <1>13 DEF IInv

\* A new request: nothing has been done for it.
LEMMA Posted ==
  ASSUME IInv, NEW r \in Requests, NEW b \in Batches, Post(r, b)
  PROVE  IInv'
  <1>1. /\ pc[r] = "idle" /\ batch' = [batch EXCEPT ![r] = b]
        /\ pos' = [pos EXCEPT ![r] = 1] /\ pc' = [pc EXCEPT ![r] = "next"]
        /\ UNCHANGED <<granted, edits, row, replies, http, audit, lost, sent>>
    BY DEF Post, Goto, catalogVars, logVars
  <1>2. /\ batch \in [Requests -> Batches \union {<<>>}]
        /\ pos \in [Requests -> 0..MaxItems + 1] /\ pc \in [Requests -> Locations]
        /\ replies \in [Requests -> Seq(Replies)]
    BY DEF IInv, TypeOK, Locations, Replies, Whats
  <1>3. /\ batch'[r] = b /\ pos'[r] = 1 /\ pc'[r] = "next"
        /\ \A q \in Requests \ {r} :
             batch'[q] = batch[q] /\ pos'[q] = pos[q] /\ pc'[q] = pc[q]
    BY <1>1, <1>2
  <1>4. pos[r] = 0 /\ http[r] = "none"
    BY <1>1 DEF IInv, PlaceInv
  <1>5. Len(b) \in Nat /\ DOMAIN b = 1..Len(b)
    BY DEF Batches
  <1>6. TypeOK'
    <2>1. batch' \in [Requests -> Batches \union {<<>>}] /\ pc' \in [Requests -> Locations]
      BY <1>1, <1>2 DEF Locations
    <2>2. pos' \in [Requests -> 0..MaxItems + 1]
      BY <1>1, <1>2
    <2>3. ASSUME NEW q \in Requests
          PROVE  pos'[q] <= Len(batch'[q]) + 1
      <3>1. CASE q = r
        BY <1>3, <1>5, <3>1
      <3>2. CASE q # r
        BY <1>3, <3>2 DEF IInv, TypeOK
      <3>3. QED
        BY <3>1, <3>2
    <2>4. QED
      BY <1>1, <2>1, <2>2, <2>3 DEF IInv, TypeOK, Locations
  <1>7. \A c \in Calls : (Behind(c) => Behind(c)') /\ (InHand(c) => InHand(c)')
    BY <1>1, <1>3, <1>4 DEF Behind, InHand, Calls
  <1>8. LogInv'
    <2>1. \A k \in DOMAIN audit : audit[k].of \in Calls
      BY AuditType
    <2>2. QED
      BY <1>1, <1>7, <2>1 DEF IInv, LogInv, TypeOK
  <1>9. DispatchedIsAccounted' /\ RowsMatchReplies'
    <2>1. DispatchedIsAccounted'
      BY <1>1, <1>7 DEF IInv, TypeOK, DispatchedIsAccounted, RowsOf
    <2>2. RowsMatchReplies'
      BY <1>1 DEF IInv, RowsMatchReplies, RowsOf, RepliesTo
    <2>3. QED
      BY <2>1, <2>2
  <1>10. PlaceInv(r)' /\ RowInv(r)'
    BY <1>1, <1>3, <1>4 DEF PlaceInv, RowInv
  <1>11. RepliesInv(r)'
    <2>1. DOMAIN replies[r] = {}
      <3>1. \A n \in Wants(r) : ~(n < 0)
        BY BatchType DEF Wants, IInv
      <3>2. QED
        <4>1. RepliesInv(r)
          BY DEF IInv
        <4>2. QED
          BY <1>4, <3>1, <4>1 DEF RepliesInv
    <2>2. {n \in Wants(r)' : n < 1} = {}
      BY <1>3, <1>5 DEF Wants
    <2>3. QED
      BY <1>1, <1>3, <2>1, <2>2 DEF RepliesInv, InOrder
  <1>12. ASSUME NEW q \in Requests \ {r}
         PROVE  PlaceInv(q)' /\ RowInv(q)' /\ RepliesInv(q)'
    BY <1>1, <1>3 DEF IInv, PlaceInv, RowInv, RepliesInv, InOrder, Wants, Item,
                      Call
  <1>13. QED
    BY <1>6, <1>8, <1>9, <1>10, <1>11, <1>12 DEF IInv

\* The catalogue changes: no reply and no row depends on it.
LEMMA Edited ==
  ASSUME IInv, Edit
  PROVE  IInv'
  <1>1. /\ UNCHANGED <<batch, pos, pc, row, replies, http, audit, lost, sent>>
        /\ granted' \subseteq Tools
    BY DEF Edit, logVars
  <1>2. TypeOK'
    BY <1>1 DEF IInv, TypeOK
  <1>3. LogInv' /\ DispatchedIsAccounted' /\ RowsMatchReplies'
    BY <1>1 DEF IInv, LogInv, Behind, InHand, DispatchedIsAccounted,
                RowsMatchReplies,
                RowsOf, RepliesTo
  <1>4. \A q \in Requests : PlaceInv(q)' /\ RepliesInv(q)' /\ RowInv(q)'
    BY <1>1 DEF IInv, PlaceInv, RepliesInv, InOrder, Wants, RowInv, Item, Call
  <1>5. QED
    BY <1>2, <1>3, <1>4 DEF IInv

\* The process dies: what is in hand stays in hand and is never answered.
LEMMA Crashed ==
  ASSUME IInv, Crash
  PROVE  IInv'
  <1>1. /\ pc' = [r \in Requests |-> IF InFlight(r) THEN "answered" ELSE pc[r]]
        /\ http' = [r \in Requests |-> IF InFlight(r) THEN "cut" ELSE http[r]]
        /\ UNCHANGED <<granted, edits, batch, pos, row, replies, audit, lost, sent>>
    BY DEF Crash, catalogVars, logVars
  <1>2. pc \in [Requests -> Locations] /\ sent \subseteq Calls
    BY DEF IInv, TypeOK, Locations
  <1>3. TypeOK'
    <2>1. pc' \in [Requests -> Locations]
      BY <1>1, <1>2 DEF Locations
    <2>2. http' \in [Requests -> {"none", "200", "204", "500", "cut"}]
      BY <1>1 DEF IInv, TypeOK
    <2>3. QED
      BY <1>1, <2>1, <2>2 DEF IInv, TypeOK, Locations
  <1>4. ASSUME NEW q \in Requests
        PROVE  PlaceInv(q)' /\ RepliesInv(q)' /\ RowInv(q)'
    <2>1. PlaceInv(q) /\ RepliesInv(q) /\ RowInv(q) /\ pc[q] \in Locations
      BY <1>2 DEF IInv
    <2>2. \/ pc'[q] = pc[q] /\ http'[q] = http[q]
          \/ pc'[q] = "answered" /\ http'[q] = "cut"
      BY <1>1
    <2>3. pc'[q] = "idle" <=> pc[q] = "idle"
      BY <1>1 DEF InFlight
    <2>4. QED
      BY <1>1, <2>1, <2>2, <2>3
         DEF PlaceInv, RepliesInv, InOrder, Wants, RowInv, Item, Call
  <1>5. \A c \in Calls : (Behind(c) <=> Behind(c)') /\ (InHand(c) => InHand(c)')
    BY <1>1, <1>2 DEF Behind, InHand, Calls, InFlight
  <1>6. LogInv'
    <2>1. \A k \in DOMAIN audit : audit[k].of \in Calls
      BY AuditType
    <2>2. QED
      BY <1>1, <1>5, <2>1 DEF IInv, LogInv, TypeOK
  <1>7. DispatchedIsAccounted' /\ RowsMatchReplies'
    <2>1. \A c \in Calls : RowsOf(c)' = RowsOf(c) /\ RepliesTo(c)' = RepliesTo(c)
      BY <1>1 DEF RowsOf, RepliesTo
    <2>2. UNCHANGED <<sent, lost, audit, replies>>
      BY <1>1
    <2>3. sent \subseteq Calls /\ \A k \in DOMAIN audit : audit[k].of \in Calls
      BY <1>2, AuditType
    <2>4. DispatchedIsAccounted'
      BY <1>5, <2>1, <2>2, <2>3 DEF IInv, DispatchedIsAccounted
    <2>5. RowsMatchReplies'
      BY <2>1, <2>2, <2>3 DEF IInv, RowsMatchReplies
    <2>6. QED
      BY <2>4, <2>5
  <1>8. QED
    BY <1>3, <1>4, <1>6, <1>7 DEF IInv

------------------------------------------------------------------------------
(* The actions of one request *)

\* A message is taken up: the catalogue is refreshed first.
LEMMA TakenUp ==
  ASSUME IInv, NEW r \in Requests, List(r) \/ StartCall(r)
  PROVE  IInv'
  <1>1. /\ pc[r] = "next" /\ pos[r] <= Len(batch[r]) /\ Item(r).kind # "silent"
        /\ pc' = [pc EXCEPT ![r] = "lookup"]
        /\ UNCHANGED <<granted, edits, batch, pos, row, replies, http, audit, lost, sent>>
    BY DEF List, StartCall, Handling, Goto, catalogVars, logVars
  <1>2. pc' \in [Requests -> Locations] /\ pc'[r] = "lookup"
        /\ \A q \in Requests \ {r} : pc'[q] = pc[q]
    BY <1>1 DEF IInv, TypeOK, Locations
  <1>3. TypeOK'
    BY <1>1, <1>2 DEF IInv, TypeOK, Locations
  <1>4. PlaceInv(r)' /\ RowInv(r)'
    BY <1>1, <1>2 DEF IInv, PlaceInv, RowInv, Item
  <1>5. QED
    BY <1>1, <1>2, <1>3, <1>4, Within

\* The row of a call is ready to be written, and says whether it was handed over.
LEMMA RowReady ==
  ASSUME IInv, NEW r \in Requests, NEW status, NEW code, Row(status, code) \in Rows,
         Audit(r, status, code), UNCHANGED sent, pc[r] \in {"lookup", "dispatch"},
         status = "denied" => Call(r) \notin sent,
         status = "ok" => Call(r) \in sent
  PROVE  IInv'
  <1>1. /\ pc' = [pc EXCEPT ![r] = "audit"] /\ row' = [row EXCEPT ![r] = Row(status, code)]
        /\ UNCHANGED <<granted, edits, batch, pos, replies, http, audit, lost, sent>>
    BY DEF Audit, Goto, catalogVars
  <1>2. /\ pc' \in [Requests -> Locations] /\ pc'[r] = "audit"
        /\ row' \in [Requests -> Rows] /\ row'[r] = Row(status, code)
        /\ \A q \in Requests \ {r} : pc'[q] = pc[q] /\ row'[q] = row[q]
    <2>1. pc \in [Requests -> Locations] /\ row \in [Requests -> Rows]
      BY DEF IInv, TypeOK, Locations
    <2>2. QED
      BY <1>1, <2>1 DEF Locations
  <1>3. TypeOK'
    BY <1>1, <1>2 DEF IInv, TypeOK, Locations
  <1>4. PlaceInv(r)' /\ RowInv(r)'
    <2>1. row'[r].status = status
      BY <1>2 DEF Row
    <2>2. QED
      BY <1>1, <1>2, <2>1 DEF IInv, PlaceInv, RowInv, Item, Call
  <1>5. QED
    BY <1>1, <1>2, <1>3, <1>4, Within

LEMMA Denied ==
  ASSUME IInv, NEW r \in Requests, Deny(r)
  PROVE  IInv'
  BY RowReady, NotSent DEF Deny, Row, Rows, Codes

LEMMA Rejected ==
  ASSUME IInv, NEW r \in Requests, Reject(r)
  PROVE  IInv'
  BY RowReady DEF Reject, Row, Rows, Codes

\* The call is handed over.
LEMMA HandedOver ==
  ASSUME IInv, NEW r \in Requests, Dispatch(r)
  PROVE  IInv'
  <1>1. /\ pc[r] = "lookup" /\ pc' = [pc EXCEPT ![r] = "dispatch"]
        /\ sent' = sent \union {Call(r)}
        /\ UNCHANGED <<granted, edits, batch, pos, row, replies, http, audit, lost>>
    BY DEF Dispatch, Goto, catalogVars
  <1>2. pc' \in [Requests -> Locations] /\ pc'[r] = "dispatch"
        /\ \A q \in Requests \ {r} : pc'[q] = pc[q]
    BY <1>1 DEF IInv, TypeOK, Locations
  <1>3. Call(r) \in Calls
    BY <1>1, InHandType DEF IInv, PlaceInv
  <1>4. TypeOK'
    BY <1>1, <1>2, <1>3 DEF IInv, TypeOK, Locations
  <1>5. PlaceInv(r)' /\ RowInv(r)'
    BY <1>1, <1>2 DEF IInv, PlaceInv, RowInv, Item, Call
  <1>6. \A q \in Requests \ {r} : RowInv(q)'
    BY <1>1, <1>2 DEF IInv, RowInv, Call
  <1>7. QED
    BY <1>1, <1>2, <1>4, <1>5, <1>6, Within

\* The dispatcher has come to its end.
LEMMA CameBack ==
  ASSUME IInv, NEW r \in Requests, NEW outcome \in Outcomes, Dispatched(r, outcome)
  PROVE  IInv'
  <1>1. pc[r] = "dispatch" /\ Call(r) \in sent /\ sent' = sent
    BY DEF Dispatched, IInv, RowInv
  <1>2. PICK status \in {"ok", "error"}, code \in Codes : Audit(r, status, code)
    BY DEF Dispatched, Codes
  <1>3. Row(status, code) \in Rows
    BY DEF Row, Rows
  <1>4. QED
    BY <1>1, <1>2, <1>3, RowReady

\* The request is answered, or its answer lost to an exception.
LEMMA Closed ==
  ASSUME IInv, NEW r \in Requests, Answer(r) \/ Raise(r)
  PROVE  IInv'
  <1>1. PICK status \in {"200", "204", "500"} :
          /\ pc[r] = "next" /\ pc' = [pc EXCEPT ![r] = "answered"]
          /\ http' = [http EXCEPT ![r] = status]
          /\ status # "500" => pos[r] > Len(batch[r])
          /\ UNCHANGED <<granted, edits, batch, pos, row, replies, audit, lost, sent>>
    BY DEF Answer, Raise, Goto, catalogVars, logVars
  <1>2. /\ pc' \in [Requests -> Locations] /\ pc'[r] = "answered"
        /\ http' \in [Requests -> {"none", "200", "204", "500", "cut"}]
        /\ http'[r] = status /\ http[r] = "none"
        /\ \A q \in Requests \ {r} : pc'[q] = pc[q] /\ http'[q] = http[q]
    BY <1>1 DEF IInv, TypeOK, PlaceInv, Locations
  <1>3. TypeOK'
    BY <1>1, <1>2 DEF IInv, TypeOK, Locations
  <1>4. PlaceInv(r)' /\ RowInv(r)'
    BY <1>1, <1>2 DEF IInv, PlaceInv, RowInv
  <1>5. QED
    BY <1>1, <1>2, <1>3, <1>4, Within

------------------------------------------------------------------------------
(* The theorems *)

LEMMA InitInv == Init => IInv
  <1> SUFFICES ASSUME Init PROVE IInv
    OBVIOUS
  <1>1. TypeOK
    <2>1. row \in [Requests -> Rows]
      BY DEF Init, Rows, NoRow, Codes
    <2>2. ASSUME NEW r \in Requests
          PROVE  pos[r] <= Len(batch[r]) + 1
      <3>1. pos[r] = 0 /\ batch[r] = <<>>
        BY DEF Init
      <3>2. QED
        BY <3>1
    <2>3. QED
      BY <2>1, <2>2 DEF Init, TypeOK
  <1>2. LogInv /\ DispatchedIsAccounted /\ RowsMatchReplies
    BY DEF Init, LogInv, DispatchedIsAccounted, RowsMatchReplies
  <1>3. ASSUME NEW r \in Requests
        PROVE  PlaceInv(r) /\ RepliesInv(r) /\ RowInv(r)
    BY <1>3 DEF Init, PlaceInv, RepliesInv, InOrder, Wants, RowInv
  <1>4. QED
    BY <1>1, <1>2, <1>3 DEF IInv

LEMMA NextInv == IInv /\ [Next]_vars => IInv'
  <1> SUFFICES ASSUME IInv, [Next]_vars PROVE IInv'
    OBVIOUS
  <1>1. ASSUME NEW r \in Requests, Step(r)
        PROVE  IInv'
    <2>1. CASE Plain(r)
      BY <2>1, QuietReply DEF Plain, Handling, Whats
    <2>2. CASE Silent(r)
      BY <2>2, PassedOver
    <2>3. CASE List(r) \/ StartCall(r)
      BY <2>3, TakenUp
    <2>4. CASE RefreshFails(r) \/ Listed(r) \/ SchemaError(r)
      <3>1. pos[r] <= Len(batch[r]) /\ Item(r).kind # "silent"
        BY <2>4 DEF IInv, PlaceInv, RefreshFails, Listed, SchemaError
      <3>2. QED
        BY <2>4, <3>1, QuietReply DEF RefreshFails, Listed, SchemaError, Whats,
                                      Codes
    <2>5. CASE Deny(r)
      BY <2>5, Denied
    <2>6. CASE Reject(r)
      BY <2>6, Rejected
    <2>7. CASE Dispatch(r)
      BY <2>7, HandedOver
    <2>8. CASE \E o \in Outcomes : Dispatched(r, o)
      BY <2>8, CameBack
    <2>9. CASE ReplyAfterAudit(r)
      BY <2>9, AuditedReply
    <2>10. CASE Answer(r) \/ Raise(r)
      BY <2>10, Closed
    <2>11. QED
      BY <1>1, <2>1, <2>2, <2>3, <2>4, <2>5, <2>6, <2>7, <2>8, <2>9, <2>10
         DEF Step
  <1>2. ASSUME NEW r \in Requests, NEW b \in Batches, Post(r, b)
        PROVE  IInv'
    BY <1>2, Posted
  <1>3. CASE UNCHANGED vars
    <2>1. UNCHANGED <<granted, edits, batch, pos, pc, row, replies, http, audit, lost, sent>>
      BY <1>3 DEF vars
    <2>2. TypeOK'
      BY <2>1 DEF IInv, TypeOK
    <2>3. LogInv' /\ DispatchedIsAccounted' /\ RowsMatchReplies'
      <3>1. LogInv'
        BY <2>1 DEF IInv, LogInv, Behind, InHand
      <3>2. DispatchedIsAccounted'
        BY <2>1 DEF IInv, DispatchedIsAccounted, InHand, RowsOf
      <3>3. RowsMatchReplies'
        BY <2>1 DEF IInv, RowsMatchReplies, RowsOf, RepliesTo
      <3>4. QED
        BY <3>1, <3>2, <3>3
    <2>4. \A q \in Requests : PlaceInv(q)' /\ RepliesInv(q)' /\ RowInv(q)'
      BY <2>1 DEF IInv, PlaceInv, RepliesInv, InOrder, Wants, RowInv, Item, Call
    <2>5. QED
      BY <2>2, <2>3, <2>4 DEF IInv
  <1>4. QED
    BY <1>1, <1>2, <1>3, Edited, Crashed DEF Next

\* The inductive invariant: the messages before the one in hand are done, those
\* after it are untouched, and only calls that were handed over are accounted for.
THEOREM Invariance == Spec => []IInv
  BY InitInv, NextInv, PTL DEF Spec

\* Every variable keeps its type.
THEOREM TypeCorrectness == Spec => []TypeOK
  <1>1. IInv => TypeOK
    BY DEF IInv
  <1>2. QED
    BY <1>1, Invariance, PTL

\* handler.py: a call that was dispatched has its row, or the database refused
\* it, unless it is in hand; a crash leaves at most that one of each request.
THEOREM Accounted == Spec => []DispatchedIsAccounted
  <1>1. IInv => DispatchedIsAccounted
    BY DEF IInv
  <1>2. QED
    BY <1>1, Invariance, PTL

\* handler.py and writer.py: a call has at most one row, a denied call was not
\* handed over, one with an ok row was, and the reply says what the row says.
THEOREM RowsMatch == Spec => []RowsMatchReplies
  <1>1. IInv => RowsMatchReplies
    BY DEF IInv
  <1>2. QED
    BY <1>1, Invariance, PTL

\* streamable.py: a 200 answers every message of the batch that wants an answer,
\* once, in the order of the batch; a 204 has nothing to answer.
THEOREM OneReply == Spec => []OneReplyPerMessage
  <1>1. IInv => OneReplyPerMessage
    <2> SUFFICES ASSUME IInv, NEW r \in Requests, http[r] \in {"200", "204"}
                 PROVE  /\ InOrder(r)
                        /\ {replies[r][k].of : k \in DOMAIN replies[r]} = Wants(r)
      BY DEF OneReplyPerMessage
    <2>1. pos[r] > Len(batch[r]) /\ RepliesInv(r) /\ pos[r] \in Nat
      BY DEF IInv, PlaceInv, TypeOK
    <2>2. \A n \in Wants(r) : n < pos[r]
      BY <2>1, BatchType DEF IInv, Wants
    <2>3. {n \in Wants(r) : n < pos[r]} = Wants(r)
      BY <2>2
    <2>4. QED
      BY <2>1, <2>3 DEF RepliesInv
  <1>2. QED
    BY <1>1, Invariance, PTL

------------------------------------------------------------------------------
(* ListChanged: the push *)

LEMMA PushInitInv == PushInit => PushInv
  <1> SUFFICES ASSUME PushInit PROVE PushInv
    OBVIOUS
  <1>1. PushTypeOK
    BY DEF PushInit, PushTypeOK, NoLoad, Kinds
  <1>2. AnnouncementsReachTheList /\ ChangesAreOnTheirWay
    BY DEF PushInit, AnnouncementsReachTheList, ChangesAreOnTheirWay, Streams
  <1>3. \A i \in Instances : ForwardInv(i) /\ CountInv(i)
    BY DEF PushInit, ForwardInv, CountInv, NoLoad
  <1>4. QED
    BY <1>1, <1>2, <1>3 DEF PushInv

\* A commit: who listens is told, and who does not has lost something.
LEMMA Committed ==
  ASSUME PushInv, NEW at \in Instances \union {Nowhere}, Commit(at)
  PROVE  PushInv'
  <1>1. PushTypeOK /\ \A i \in Instances : ForwardInv(i) /\ CountInv(i)
    BY DEF PushInv
  <1>2. PushTypeOK'
    BY <1>1 DEF PushTypeOK, CountInv, clientVars, Commit
  <1>3. \A i \in Instances : ForwardInv(i)' /\ CountInv(i)'
    BY <1>1 DEF PushTypeOK, CountInv, ForwardInv, Commit
  <1>4. AnnouncementsReachTheList'
    BY DEF PushInv, AnnouncementsReachTheList, Streams, clientVars, Commit
  <1>5. ChangesAreOnTheirWay'
    <2>1. ASSUME NEW i \in Instances
          PROVE  faulted'[i] \/ notes'[i] > 0
      <3>1. CASE listener[i] = "listening"
        <4>1. notes'[i] = notes[i] + 1
          BY <3>1 DEF Commit
        <4>2. notes[i] \in Nat
          BY <1>1 DEF PushTypeOK
        <4>3. QED
          BY <4>1, <4>2
      <3>2. CASE listener[i] # "listening"
        BY <3>2 DEF Commit
      <3>3. QED
        BY <3>1, <3>2
    <2>2. QED
      BY <2>1 DEF ChangesAreOnTheirWay
  <1>6. QED
    BY <1>2, <1>3, <1>4, <1>5 DEF PushInv

\* The listener connects, loses its connection, or starts a refresh: a NOTIFY
\* becomes a refresh, or the loss of it is on record.
LEMMA Noticed ==
  ASSUME PushInv, NEW i \in Instances, Listen(i) \/ ConnectionLost(i) \/ Handle(i)
  PROVE  PushInv'
  <1>1. PushTypeOK /\ \A j \in Instances : ForwardInv(j) /\ CountInv(j)
    BY DEF PushInv
  <1>2. PushTypeOK'
    <2>1. CASE Listen(i)
      BY <1>1, <2>1 DEF PushTypeOK, clientVars, cacheVars, Listen
    <2>2. CASE ConnectionLost(i)
      <3>1. faults' \in
              [drops : 0..MaxDrops, fails : 0..MaxFails, closes : 0..MaxCloses]
        BY <1>1, <2>2 DEF PushTypeOK, ConnectionLost
      <3>2. /\ listener' \in
                 [Instances -> {"connecting", "listening", "deaf"}]
            /\ notes' \in [Instances -> 0..MaxCommits]
            /\ faulted' \in [Instances -> BOOLEAN]
        BY <1>1, <2>2 DEF PushTypeOK, ConnectionLost
      <3>3. QED
        BY <1>1, <2>2, <3>1, <3>2
        DEF PushTypeOK, clientVars, cacheVars, ConnectionLost
    <2>3. CASE Handle(i)
      <3>1. /\ commits \in 0..MaxCommits /\ notes[i] \in 1..MaxCommits
            /\ forced[i] \in Nat /\ forced[i] + notes[i] <= 2 * commits
        BY <1>1, <2>3 DEF PushTypeOK, CountInv, Handle
      <3>2. /\ notes[i] - 1 \in 0..MaxCommits
            /\ forced[i] + 1 \in 0..2 * MaxCommits
        BY <3>1
      <3>3. /\ notes' \in [Instances -> 0..MaxCommits]
            /\ forced' \in [Instances -> 0..2 * MaxCommits]
        BY <1>1, <2>3, <3>2 DEF PushTypeOK, Handle
      <3>4. QED
        BY <1>1, <2>3, <3>3 DEF PushTypeOK, clientVars, Handle
    <2>4. QED
      BY <2>1, <2>2, <2>3
  <1>3. \A j \in Instances : ForwardInv(j)' /\ CountInv(j)'
    BY <1>1 DEF PushTypeOK, CountInv, ForwardInv, cacheVars, Listen,
                ConnectionLost, Handle
  <1>4. AnnouncementsReachTheList'
    BY DEF PushInv, AnnouncementsReachTheList, Streams, clientVars, cacheVars,
           Listen,
           ConnectionLost, Handle
  <1>5. ChangesAreOnTheirWay'
    <2>1. CASE Listen(i)
      BY <1>1, <2>1 DEF PushInv, ChangesAreOnTheirWay, cacheVars, Listen
    <2>2. CASE ConnectionLost(i)
      BY <1>1, <2>2 DEF PushInv, PushTypeOK, ChangesAreOnTheirWay, cacheVars,
                        ConnectionLost
    <2>3. CASE Handle(i)
      BY <1>1, <2>3 DEF PushInv, PushTypeOK, ChangesAreOnTheirWay, Handle
    <2>4. QED
      BY <2>1, <2>2, <2>3
  <1>6. QED
    BY <1>2, <1>3, <1>4, <1>5 DEF PushInv

\* The snapshot expires, or a load begins, with all commits up to now, or fails.
LEMMA LoadBegunOrFailed ==
  ASSUME PushInv, NEW i \in Instances,
         Expire(i) \/ StartForced(i) \/ StartReader(i) \/ Fail(i)
  PROVE  PushInv'
  <1>1. PushTypeOK /\ \A j \in Instances : ForwardInv(j) /\ CountInv(j)
    BY DEF PushInv
  <1>2. PushTypeOK'
    <2>1. CASE StartForced(i)
      BY <1>1, <2>1 DEF PushTypeOK, Kinds, clientVars, StartForced
    <2>2. CASE StartReader(i)
      BY <1>1, <2>2 DEF PushTypeOK, Kinds, clientVars, StartReader
    <2>3. CASE Fail(i)
      BY <1>1, <2>3 DEF PushTypeOK, NoLoad, Kinds, clientVars, Fail
    <2>4. CASE Expire(i)
      BY <1>1, <2>4 DEF PushTypeOK, clientVars, Expire
    <2>5. QED
      BY <2>1, <2>2, <2>3, <2>4
  <1>3. \A j \in Instances : ForwardInv(j)' /\ CountInv(j)'
    <2>1. CASE StartForced(i)
      BY <1>1, <2>1 DEF PushTypeOK, CountInv, ForwardInv, StartForced
    <2>2. CASE StartReader(i)
      BY <1>1, <2>2 DEF PushTypeOK, CountInv, ForwardInv, StartReader
    <2>3. CASE Fail(i)
      BY <1>1, <2>3 DEF PushTypeOK, CountInv, ForwardInv, NoLoad, clientVars,
                        Fail
    <2>4. CASE Expire(i)
      BY <1>1, <2>4 DEF CountInv, ForwardInv, Expire
    <2>5. QED
      BY <2>1, <2>2, <2>3, <2>4
  <1>4. AnnouncementsReachTheList'
    BY DEF PushInv, AnnouncementsReachTheList, Streams, clientVars, Expire,
           StartForced, StartReader, Fail
  <1>5. ChangesAreOnTheirWay'
    <2>1. CASE Expire(i)
      BY <2>1 DEF PushInv, ChangesAreOnTheirWay, Expire
    <2>2. CASE StartReader(i)
      <3>1. load[i].kind = "none" /\ \A j \in Instances \ {i} : load'[j] = load[j]
        BY <1>1, <2>2 DEF PushTypeOK, NoLoad, StartReader
      <3>2. UNCHANGED <<faulted, told, commits, notes, forced>>
        BY <2>2 DEF StartReader
      <3>3. QED
        BY <3>1, <3>2 DEF PushInv, ChangesAreOnTheirWay
    <2>3. CASE StartForced(i)
      BY <1>1, <2>3 DEF PushInv, PushTypeOK, ChangesAreOnTheirWay, NoLoad,
                        StartForced
    <2>4. CASE Fail(i)
      <3>1. \A j \in Instances :
              faulted'[j] = (faulted[j] \/ (j = i /\ load[i].kind = "forced"))
        BY <1>1, <2>4 DEF PushTypeOK, Fail
      <3>2. \A j \in Instances \ {i} : load'[j] = load[j]
        BY <1>1, <2>4 DEF PushTypeOK, Fail
      <3>3. UNCHANGED <<told, commits, notes, forced>>
        BY <2>4 DEF Fail
      <3>4. QED
        BY <3>1, <3>2, <3>3 DEF PushInv, ChangesAreOnTheirWay
    <2>5. QED
      BY <2>1, <2>2, <2>3, <2>4
  <1>6. QED
    BY <1>2, <1>3, <1>4, <1>5 DEF PushInv

\* A load ends: whoever streams from the instance has an announcement in its
\* queue, a full one as well as an empty one.
LEMMA Finished ==
  ASSUME PushInv, NEW i \in Instances, Finish(i)
  PROVE  PushInv'
  <1>1. PushTypeOK /\ \A j \in Instances : ForwardInv(j) /\ CountInv(j)
    BY DEF PushInv
  <1>2. PushTypeOK'
    BY <1>1 DEF PushTypeOK, NoLoad, Kinds, Finish, Broadcast
  <1>3. \A j \in Instances : ForwardInv(j)' /\ CountInv(j)'
    BY <1>1 DEF PushTypeOK, CountInv, ForwardInv, NoLoad, Finish
  <1>4. AnnouncementsReachTheList'
    <2>1. /\ stream' = stream /\ relist' = relist /\ seen' = seen
          /\ \A j \in Instances \ {i} : told'[j] = told[j]
      BY <1>1 DEF PushTypeOK, Finish
    <2>2. CASE load[i].kind = "forced"
      <3>1. \A c \in Clients :
              /\ stream[c] = i => queue'[c] > 0
              /\ stream[c] # i => queue'[c] = queue[c]
        BY <1>1, <2>2, ListChangedAssumption
           DEF PushTypeOK, Finish, Broadcast
      <3>2. QED
        BY <2>1, <3>1 DEF PushInv, AnnouncementsReachTheList, Streams
    <2>3. CASE load[i].kind # "forced"
      BY <2>1, <2>3 DEF PushInv, AnnouncementsReachTheList, Streams, Finish
    <2>4. QED
      BY <2>2, <2>3
  <1>5. ChangesAreOnTheirWay'
    BY <1>1 DEF PushInv, PushTypeOK, ForwardInv, ChangesAreOnTheirWay, NoLoad,
                Finish
  <1>6. QED
    BY <1>2, <1>3, <1>4, <1>5 DEF PushInv

\* A client opens or closes its stream, reads an event, or lists the tools; with
\* affinity the list is at least what its stream has announced.
LEMMA ClientStep ==
  ASSUME PushInv, NEW c \in Clients,
         (\E i \in Instances : Open(c, i)) \/ Close(c) \/ Receive(c) \/ Relist(c)
  PROVE  PushInv'
  <1>1. PushTypeOK /\ \A i \in Instances : ForwardInv(i) /\ CountInv(i)
    BY DEF PushInv
  <1>2. PushTypeOK'
    <2>1. CASE \E i \in Instances : Open(c, i)
      BY <1>1, <2>1 DEF PushTypeOK, cacheVars, Open
    <2>2. CASE Close(c)
      BY <1>1, <2>2 DEF PushTypeOK, cacheVars, Close
    <2>3. CASE Receive(c)
      BY <1>1, <2>3 DEF PushTypeOK, cacheVars, Receive
    <2>4. CASE Relist(c)
      BY <1>1, <2>4 DEF PushTypeOK, cacheVars, Asks, Relist
    <2>5. QED
      BY <2>1, <2>2, <2>3, <2>4
  <1>3. UNCHANGED <<commits, listener, notes, forced, load, view, fresh, told, faulted>>
    BY DEF cacheVars, Open, Close, Receive, Relist
  <1>4. \A i \in Instances : ForwardInv(i)' /\ CountInv(i)'
    BY <1>1, <1>3 DEF CountInv, ForwardInv
  <1>5. AnnouncementsReachTheList'
    <2>1. CASE \E i \in Instances : Open(c, i)
      BY <1>1, <1>3, <2>1 DEF PushInv, PushTypeOK, AnnouncementsReachTheList,
                              Streams, Open
    <2>2. CASE Close(c)
      BY <1>1, <1>3, <2>2 DEF PushInv, PushTypeOK, AnnouncementsReachTheList,
                              Streams, Close
    <2>3. CASE Receive(c)
      BY <1>1, <1>3, <2>3 DEF PushInv, PushTypeOK, AnnouncementsReachTheList,
                              Streams, Receive
    <2>4. CASE Relist(c)
      BY <1>1, <1>3, <2>4
         DEF PushInv, PushTypeOK, ForwardInv, AnnouncementsReachTheList, Streams,
             Asks, Relist
    <2>5. QED
      BY <2>1, <2>2, <2>3, <2>4
  <1>6. ChangesAreOnTheirWay'
    BY <1>3 DEF PushInv, ChangesAreOnTheirWay
  <1>7. QED
    BY <1>2, <1>4, <1>5, <1>6 DEF PushInv

LEMMA PushNextInv == PushInv /\ [PushNext]_pushVars => PushInv'
  <1>1. CASE UNCHANGED pushVars
    BY <1>1 DEF pushVars, clientVars, cacheVars, PushInv, PushTypeOK,
                ForwardInv, CountInv,
                AnnouncementsReachTheList, ChangesAreOnTheirWay, Streams
  <1>2. CASE PushNext
    BY <1>2, Committed, Noticed, LoadBegunOrFailed, Finished, ClientStep
       DEF PushNext
  <1>3. QED
    BY <1>1, <1>2

\* The inductive invariant of the push: what is announced is what is shown.
THEOREM PushInvariance == PushSpec => []PushInv
  BY PushInitInv, PushNextInv, PTL DEF PushSpec

\* registry/cache.py, _broadcast: an announcement that is dropped at a full queue
\* is not missed, as an event to read or a list to fetch remains.
THEOREM DroppingIsHarmless == PushSpec => []AnnouncementsReachTheList
  <1>1. PushInv => AnnouncementsReachTheList
    BY DEF PushInv
  <1>2. QED
    BY <1>1, PushInvariance, PTL

\* db/notify.py and main.py: unless a NOTIFY was lost or a refresh failed, every
\* change that was not announced has a NOTIFY, a refresh or a load that brings it.
THEOREM NoChangeIsForgotten == PushSpec => []ChangesAreOnTheirWay
  <1>1. PushInv => ChangesAreOnTheirWay
    BY DEF PushInv
  <1>2. QED
    BY <1>1, PushInvariance, PTL
==============================================================================
