--------------------------- MODULE McpProxyProofs ----------------------------
(***************************************************************************)
(* What is proved about McpProxy, for any calls, remotes, identities, and  *)
(* any number of restarts of the remotes.                                  *)
(*                                                                         *)
(* The inductive invariant is IInv of McpProxy.  A step of one call leaves *)
(* what it says of the other calls alone (Others), whatever it does to the *)
(* lock and the sessions; the gateway's steps are then of three kinds:     *)
(* into the queue, on to the tools/call, and to the end.                   *)
(***************************************************************************)
EXTENDS McpProxy, TLAPS

USE McpProxyAssumption

Locations == {"new", "waiting", "init", "called", "done"}
Tickets == [key : Keys, by : Calls]
Results == {"none", "ok", "config_error"} \union Kinds

\* What IInv says of one call.
Mine(c) ==
  Queued(c) /\ HoldsTheLock(c) /\ HelloInv(c) /\ AskedInv(c) /\ ResultInv(c)

LEMMA SeqFacts ==
  ASSUME NEW S, NEW s \in Seq(S), NEW e \in S
  PROVE  /\ Append(s, e) \in Seq(S)
         /\ DOMAIN Append(s, e) = DOMAIN s \union {Len(s) + 1}
         /\ Len(s) + 1 \notin DOMAIN s
         /\ \A k \in DOMAIN s : Append(s, e)[k] = s[k]
         /\ Append(s, e)[Len(s) + 1] = e
         /\ s # <<>> => Head(Append(s, e)) = Head(s)
         /\ s = <<>> => Head(Append(s, e)) = e
  OBVIOUS

LEMMA TailFacts ==
  ASSUME NEW S, NEW s \in Seq(S), NEW n \in DOMAIN s
  PROVE  /\ s # <<>> /\ Head(s) = s[1] /\ Tail(s) \in Seq(S)
         /\ n # 1 => n - 1 \in DOMAIN Tail(s) /\ Tail(s)[n - 1] = s[n]
  OBVIOUS

LEMMA KeyType ==
  ASSUME TypeOK, NEW c \in Calls
  PROVE  Key(c) \in Keys /\ Key(c) = Own(c)
  BY DEF TypeOK, Key, Own, Keys

LEMMA Parts == IInv <=> /\ TypeOK /\ OwnSession /\ CarriesTheSession /\ SessionsInv
                        /\ \A c \in Calls : Mine(c)
  BY DEF IInv, Mine

\* The head of a queue is in it, and is the one that may have sent initialize.
LEMMA AtTheHead ==
  ASSUME IInv, NEW c \in Calls, pc[c] \in {"waiting", "init"}
  PROVE  /\ lock[Key(c)] # <<>> /\ lock[Key(c)] \in Seq(Calls)
         /\ Tail(lock[Key(c)]) \in Seq(Calls)
  <1>1. lock[Key(c)] \in Seq(Calls)
    BY KeyType DEF IInv, TypeOK
  <1>2. PICK n \in DOMAIN lock[Key(c)] : lock[Key(c)][n] = c
    BY DEF IInv, Queued
  <1>3. QED
    BY <1>1, <1>2, TailFacts

------------------------------------------------------------------------------
(* What a step of one call leaves to the others *)

\* The ways in which a step of c may change the lock and the sessions.
LockKept == lock' = lock /\ sessions' = sessions
LockJoined(c) ==
  lock' = [lock EXCEPT ![Key(c)] = Append(@, c)] /\ sessions' = sessions
LockReleased(c) ==
  /\ pc[c] \in {"waiting", "init"} /\ Head(lock[Key(c)]) = c
  /\ lock' = [lock EXCEPT ![Key(c)] = Tail(@)]
  /\ \A k \in Keys : k # Key(c) => sessions'[k] = sessions[k]

\* The queue of another call keeps it, and its head keeps the lock.
LEMMA OthersQueue ==
  ASSUME IInv, NEW c \in Calls, NEW d \in Calls \ {c}, tool' = tool, pc'[d] = pc[d],
         LockKept \/ LockJoined(c) \/ LockReleased(c)
  PROVE  Queued(d)' /\ HoldsTheLock(d)'
  <1> SUFFICES ASSUME pc[d] \in {"waiting", "init"}
               PROVE  /\ \E n \in DOMAIN lock'[Key(d)] : lock'[Key(d)][n] = d
                      /\ pc[d] = "init" => /\ Head(lock'[Key(d)]) = d
                                           /\ sessions'[Key(d)] = Unknown
    BY DEF Queued, HoldsTheLock, Key, IInv
  <1>1. /\ lock[Key(d)] \in Seq(Calls) /\ Key(d) \in Keys /\ Key(c) \in Keys
        /\ lock \in [Keys -> Seq(Calls)]
    BY KeyType DEF IInv, TypeOK
  <1>2. PICK n \in DOMAIN lock[Key(d)] : lock[Key(d)][n] = d
    BY DEF IInv, Queued
  <1>3. pc[d] = "init" => Head(lock[Key(d)]) = d /\ sessions[Key(d)] = Unknown
    BY DEF IInv, HoldsTheLock
  <1>4. CASE LockKept
    BY <1>2, <1>3, <1>4 DEF LockKept
  <1>5. CASE Key(c) # Key(d)
    BY <1>1, <1>2, <1>3, <1>5 DEF LockKept, LockJoined, LockReleased
  <1>6. CASE Key(c) = Key(d) /\ LockJoined(c)
    <2>1. lock'[Key(d)] = Append(lock[Key(d)], c) /\ sessions' = sessions
      BY <1>1, <1>6 DEF LockJoined
    <2>2. lock[Key(d)] # <<>>
      BY <1>1, <1>2, TailFacts
    <2>3. QED
      BY <1>1, <1>2, <1>3, <2>1, <2>2, SeqFacts
  <1>7. CASE Key(c) = Key(d) /\ LockReleased(c)
    <2>1. lock'[Key(d)] = Tail(lock[Key(d)]) /\ Head(lock[Key(d)]) = c
      BY <1>1, <1>7 DEF LockReleased
    <2>2. pc[d] # "init" /\ n # 1
      BY <1>1, <1>2, <1>3, <2>1, TailFacts
    <2>3. /\ n - 1 \in DOMAIN Tail(lock[Key(d)])
          /\ Tail(lock[Key(d)])[n - 1] = d
      BY <1>1, <1>2, <2>2, TailFacts
    <2>4. QED
      BY <2>1, <2>2, <2>3
  <1>8. QED
    BY <1>4, <1>5, <1>6, <1>7

\* Session ids are given out one after the other and stay given out.
IssuedKept ==
  \/ issued' = issued
  \/ \E c \in Calls : issued' = Append(issued, [key |-> Own(c), by |-> c])

LEMMA IssuedFacts ==
  ASSUME IInv, IssuedKept
  PROVE  /\ DOMAIN issued \subseteq DOMAIN issued' /\ issued' \in Seq(Tickets)
         /\ \A n \in DOMAIN issued : issued'[n] = issued[n]
         /\ \A n \in DOMAIN issued' : issued'[n].key = Own(issued'[n].by)
  <1>1. issued \in Seq(Tickets)
    BY DEF IInv, TypeOK, Tickets
  <1>2. CASE issued' = issued
    BY <1>1, <1>2 DEF IInv, SessionsInv
  <1>3. ASSUME NEW c \in Calls, issued' = Append(issued, [key |-> Own(c), by |-> c])
        PROVE  /\ DOMAIN issued \subseteq DOMAIN issued' /\ issued' \in Seq(Tickets)
               /\ \A n \in DOMAIN issued : issued'[n] = issued[n]
               /\ \A n \in DOMAIN issued' : issued'[n].key = Own(issued'[n].by)
    <2> DEFINE e == [key |-> Own(c), by |-> c]
    <2>1. e \in Tickets /\ e.key = Own(e.by)
      BY KeyType DEF Tickets, IInv
    <2> HIDE DEF e
    <2>2. /\ issued' \in Seq(Tickets)
          /\ DOMAIN issued' = DOMAIN issued \union {Len(issued) + 1}
          /\ \A n \in DOMAIN issued : issued'[n] = issued[n]
          /\ issued'[Len(issued) + 1] = e
      BY <1>1, <1>3, <2>1, SeqFacts DEF e
    <2>3. \A n \in DOMAIN issued : issued[n].key = Own(issued[n].by)
      BY DEF IInv, SessionsInv
    <2>4. QED
      BY <2>1, <2>2, <2>3
  <1>4. QED
    BY <1>2, <1>3 DEF IssuedKept

\* A step of c leaves what IInv says of another call alone.
LEMMA Others ==
  ASSUME IInv, NEW c \in Calls, NEW d \in Calls \ {c}, tool' = tool,
         pc'[d] = pc[d], using'[d] = using[d], result'[d] = result[d],
         hello'[d] = hello[d], asked'[d] = asked[d], ran'[d] = ran[d], IssuedKept,
         LockKept \/ LockJoined(c) \/ LockReleased(c)
  PROVE  Mine(d)'
  <1>1. Queued(d)' /\ HoldsTheLock(d)'
    BY OthersQueue
  <1>2. HelloInv(d)'
    BY IssuedFacts DEF IInv, HelloInv
  <1>3. AskedInv(d)' /\ ResultInv(d)'
    BY DEF IInv, AskedInv, ResultInv
  <1>4. QED
    BY <1>1, <1>2, <1>3 DEF Mine

\* Sessions on record and in use stay those of their keys while no call takes up
\* a session.
LEMMA SameSessions ==
  ASSUME IInv, UNCHANGED <<tool, sessions, using>>, IssuedKept
  PROVE  OwnSession' /\ SessionsInv'
  <1>1. /\ sessions \in [Keys -> {Unknown, NoId} \union DOMAIN issued]
        /\ using \in [Calls -> {NoId} \union DOMAIN issued]
    BY DEF IInv, TypeOK
  <1>2. /\ DOMAIN issued \subseteq DOMAIN issued'
        /\ \A n \in DOMAIN issued : issued'[n] = issued[n]
        /\ \A n \in DOMAIN issued' : issued'[n].key = Own(issued'[n].by)
    BY IssuedFacts
  <1>3. OwnSession'
    BY <1>1, <1>2 DEF IInv, OwnSession, Own
  <1>4. SessionsInv'
    BY <1>1, <1>2 DEF IInv, SessionsInv, Own
  <1>5. QED
    BY <1>3, <1>4

------------------------------------------------------------------------------
(* The steps of the gateway *)

\* Into the queue, or at its head: initialize is sent only by the head, while no
\* session is on record.
LEMMA QueueStep ==
  ASSUME IInv, NEW c \in Calls, NEW next \in {"waiting", "init"}, Goto(c, next),
         pc[c] \in {"new", "waiting"}, ~tool[c].skip,
         \/ LockJoined(c)
         \/ pc[c] = "waiting" /\ LockKept,
         next = "init" =>
           Head(lock'[Key(c)]) = c /\ sessions[Key(c)] = Unknown,
         UNCHANGED <<tool, using, result, remoteVars>>
  PROVE  IInv'
  <1>1. /\ pc' = [pc EXCEPT ![c] = next] /\ sessions' = sessions
        /\ UNCHANGED <<tool, using, result, hello, issued, alive, gone, asked, ran, restarts>>
    BY DEF Goto, remoteVars, LockJoined, LockKept
  <1>2. /\ pc \in [Calls -> Locations] /\ lock \in [Keys -> Seq(Calls)]
        /\ Key(c) \in Keys
    BY KeyType DEF IInv, TypeOK, Locations
  <1>3. /\ pc' \in [Calls -> Locations] /\ pc'[c] = next
        /\ \A d \in Calls \ {c} : pc'[d] = pc[d]
    BY <1>1, <1>2 DEF Locations
  <1>4. lock' \in [Keys -> Seq(Calls)]
    <2>1. Append(lock[Key(c)], c) \in Seq(Calls)
      BY <1>2, SeqFacts
    <2>2. QED
      BY <1>2, <2>1 DEF LockJoined, LockKept
  <1>5. TypeOK'
    BY <1>1, <1>3, <1>4 DEF IInv, TypeOK, Locations
  <1>6. OwnSession' /\ SessionsInv'
    BY <1>1, SameSessions DEF IssuedKept
  <1>7. CarriesTheSession'
    BY <1>1, <1>3 DEF IInv, CarriesTheSession, Own
  <1>8. Mine(c)'
    <2>1. Queued(c)'
      <3>1. CASE LockJoined(c)
        <4>1. lock'[Key(c)] = Append(lock[Key(c)], c) /\ lock[Key(c)] \in Seq(Calls)
          BY <1>2, <3>1 DEF LockJoined
        <4>2. \E n \in DOMAIN lock'[Key(c)] : lock'[Key(c)][n] = c
          BY <4>1, SeqFacts
        <4>3. QED
          BY <1>1, <4>2 DEF Queued, Key
      <3>2. CASE pc[c] = "waiting" /\ LockKept
        BY <1>1, <3>2 DEF IInv, Queued, Key, LockKept
      <3>3. QED
        BY <3>1, <3>2
    <2>2. HoldsTheLock(c)'
      BY <1>1, <1>3 DEF HoldsTheLock, Key
    <2>3. HelloInv(c)' /\ AskedInv(c)' /\ ResultInv(c)'
      BY <1>1, <1>3 DEF IInv, HelloInv, AskedInv, ResultInv
    <2>4. QED
      BY <2>1, <2>2, <2>3 DEF Mine
  <1>9. ASSUME NEW d \in Calls \ {c}
        PROVE  Mine(d)'
    BY <1>1, <1>3, Others DEF IssuedKept
  <1>10. QED
    BY <1>5, <1>6, <1>7, <1>8, <1>9 DEF IInv, Mine

\* To the end of the call.
LEMMA DoneStep ==
  ASSUME IInv, NEW c \in Calls, NEW kind \in Results \ {"none"}, Done(c, kind),
         pc[c] # "done", kind = "ok" => ran[c] > 0,
         kind = "config_error" => asked[c] = "none",
         LockKept \/ LockReleased(c), UNCHANGED sessions,
         UNCHANGED <<hello, issued, alive, asked, ran>>,
         gone' \subseteq DOMAIN issued
  PROVE  IInv'
  <1>1. /\ pc' = [pc EXCEPT ![c] = "done"] /\ result' = [result EXCEPT ![c] = kind]
        /\ UNCHANGED <<tool, using>>
    BY DEF Done, Goto
  <1>2. /\ pc \in [Calls -> Locations] /\ result \in [Calls -> Results]
        /\ lock \in [Keys -> Seq(Calls)] /\ Key(c) \in Keys
    BY KeyType DEF IInv, TypeOK, Locations, Results
  <1>3. /\ pc' \in [Calls -> Locations] /\ pc'[c] = "done"
        /\ result' \in [Calls -> Results] /\ result'[c] = kind
        /\ \A d \in Calls \ {c} : pc'[d] = pc[d] /\ result'[d] = result[d]
    BY <1>1, <1>2 DEF Locations
  <1>4. lock' \in [Keys -> Seq(Calls)]
    BY <1>2, AtTheHead DEF LockKept, LockReleased
  <1>5. TypeOK'
    BY <1>1, <1>3, <1>4 DEF IInv, TypeOK, Locations, Results
  <1>6. OwnSession' /\ SessionsInv'
    BY <1>1, SameSessions DEF IssuedKept
  <1>7. CarriesTheSession'
    BY <1>1, <1>3 DEF IInv, CarriesTheSession, Own
  <1>8. Mine(c)'
    <2>1. Queued(c)' /\ HoldsTheLock(c)'
      BY <1>3 DEF Queued, HoldsTheLock
    <2>2. HelloInv(c)' /\ AskedInv(c)' /\ ResultInv(c)'
      BY <1>1, <1>3 DEF IInv, HelloInv, AskedInv, ResultInv
    <2>3. QED
      BY <2>1, <2>2 DEF Mine
  <1>9. ASSUME NEW d \in Calls \ {c}
        PROVE  Mine(d)'
    BY <1>1, <1>3, Others DEF IssuedKept
  <1>10. QED
    BY <1>5, <1>6, <1>7, <1>8, <1>9 DEF IInv, Mine

\* On to the tools/call, with the session on record for the key of the call; the
\* record is new, or the one that was there.
LEMMA CallStep ==
  ASSUME IInv, NEW c \in Calls, NEW id \in {NoId} \union DOMAIN issued,
         pc[c] \in {"new", "waiting", "init"}, Goto(c, "called"),
         using' = [using EXCEPT ![c] = id], asked' = [asked EXCEPT ![c] = "sent"],
         UNCHANGED <<tool, result, hello, issued, alive, gone, ran>>,
         LockKept \/ LockReleased(c),
         \/ sessions' = sessions
         \/ pc[c] = "init" /\ sessions' = [sessions EXCEPT ![Key(c)] = id],
         id # NoId => issued[id].key = Key(c),
         ~tool[c].skip => sessions'[Key(c)] = id
  PROVE  IInv'
  <1>1. /\ pc \in [Calls -> Locations] /\ using \in [Calls -> {NoId} \union DOMAIN issued]
        /\ asked \in [Calls -> {"none", "sent", "ran", "unknown_session"}]
        /\ sessions \in [Keys -> {Unknown, NoId} \union DOMAIN issued]
        /\ lock \in [Keys -> Seq(Calls)] /\ Key(c) \in Keys /\ Key(c) = Own(c)
        /\ DOMAIN issued \subseteq Nat \ {0}
    BY KeyType DEF IInv, TypeOK, Locations
  <1>2. /\ pc' \in [Calls -> Locations] /\ pc'[c] = "called"
        /\ using' \in [Calls -> {NoId} \union DOMAIN issued] /\ using'[c] = id
        /\ asked' \in [Calls -> {"none", "sent", "ran", "unknown_session"}]
        /\ asked'[c] = "sent"
        /\ \A d \in Calls \ {c} :
             pc'[d] = pc[d] /\ using'[d] = using[d] /\ asked'[d] = asked[d]
    BY <1>1 DEF Locations, Goto
  <1>3. /\ sessions' \in [Keys -> {Unknown, NoId} \union DOMAIN issued]
        /\ \A k \in Keys : sessions'[k] = sessions[k] \/ (k = Key(c) /\ sessions'[k] = id)
    BY <1>1
  <1>4. \A k \in Keys : sessions[k] # Unknown => sessions'[k] = sessions[k]
    <2>1. pc[c] = "init" => sessions[Key(c)] = Unknown
      BY DEF IInv, HoldsTheLock
    <2>2. QED
      BY <1>1, <2>1
  <1>5. lock' \in [Keys -> Seq(Calls)]
    BY <1>1, AtTheHead DEF LockKept, LockReleased
  <1>6. TypeOK'
    BY <1>2, <1>3, <1>5 DEF IInv, TypeOK, Locations
  <1>7. OwnSession'
    BY <1>1, <1>2 DEF IInv, OwnSession, Own
  <1>8. SessionsInv'
    BY <1>3 DEF IInv, SessionsInv, Own
  <1>9. CarriesTheSession'
    <2> SUFFICES ASSUME NEW d \in Calls, pc'[d] = "called", ~tool[d].skip
                 PROVE  sessions'[Own(d)] = using'[d]
      BY DEF CarriesTheSession, Own
    <2>1. CASE d = c
      BY <1>1, <1>2, <2>1
    <2>2. CASE d # c
      <3>1. sessions[Own(d)] = using[d]
        BY <1>2, <2>2 DEF IInv, CarriesTheSession
      <3>2. Own(d) \in Keys
        BY KeyType DEF IInv
      <3>3. using[d] # Unknown
        BY <1>1 DEF Unknown, NoId
      <3>4. QED
        BY <1>2, <1>4, <2>2, <3>1, <3>2, <3>3
    <2>3. QED
      BY <2>1, <2>2
  <1>10. Mine(c)'
    <2>1. Queued(c)' /\ HoldsTheLock(c)'
      BY <1>2 DEF Queued, HoldsTheLock
    <2>2. HelloInv(c)' /\ AskedInv(c)' /\ ResultInv(c)'
      BY <1>2 DEF IInv, HelloInv, AskedInv, ResultInv
    <2>3. QED
      BY <2>1, <2>2 DEF Mine
  <1>11. ASSUME NEW d \in Calls \ {c}
         PROVE  Mine(d)'
    BY <1>2, Others DEF IssuedKept
  <1>12. QED
    BY <1>6, <1>7, <1>8, <1>9, <1>10, <1>11 DEF IInv, Mine

------------------------------------------------------------------------------
(* The actions of a call *)

LEMMA HandshakeInv ==
  ASSUME IInv, NEW c \in Calls, Handshake(c)
  PROVE  IInv'
  <1> DEFINE next == IF lock[Key(c)] = <<>> THEN "init" ELSE "waiting"
  <1>1. /\ pc[c] = "new" /\ ~tool[c].skip /\ sessions[Key(c)] = Unknown
        /\ Goto(c, next) /\ LockJoined(c) /\ UNCHANGED <<tool, using, result, remoteVars>>
    BY DEF Handshake, LockJoined
  <1>2. next \in {"waiting", "init"}
    OBVIOUS
  <1>3. next = "init" => Head(lock'[Key(c)]) = c
    <2>1. lock \in [Keys -> Seq(Calls)] /\ Key(c) \in Keys
      BY KeyType DEF IInv, TypeOK
    <2>2. lock'[Key(c)] = Append(lock[Key(c)], c)
      BY <1>1, <2>1 DEF LockJoined
    <2>3. QED
      BY <2>1, <2>2, SeqFacts
  <1> HIDE DEF next
  <1>4. QED
    BY <1>1, <1>2, <1>3, QueueStep

\* The session on record is one that was given out for its key.
LEMMA OnRecord ==
  ASSUME IInv, NEW c \in Calls, NEW id, id = Header(c, sessions)
  PROVE  /\ id \in {NoId} \union DOMAIN issued
         /\ id # NoId => issued[id].key = Key(c)
         /\ sessions[Key(c)] # Unknown => sessions[Key(c)] = id
  <1>1. Key(c) \in Keys /\ sessions[Key(c)] \in {Unknown, NoId} \union DOMAIN issued
    BY KeyType DEF IInv, TypeOK
  <1>2. QED
    BY <1>1 DEF IInv, SessionsInv, Header

LEMMA StraightInv ==
  ASSUME IInv, NEW c \in Calls, Straight(c)
  PROVE  IInv'
  <1> DEFINE id == Header(c, sessions)
  <1>1. /\ id \in {NoId} \union DOMAIN issued
        /\ id # NoId => issued[id].key = Key(c)
        /\ ~tool[c].skip => sessions[Key(c)] = id
    BY OnRecord DEF Straight
  <1>2. /\ pc[c] = "new" /\ Goto(c, "called") /\ LockKept
        /\ using' = [using EXCEPT ![c] = id] /\ asked' = [asked EXCEPT ![c] = "sent"]
        /\ UNCHANGED <<tool, result, hello, issued, alive, gone, ran>>
    BY DEF Straight, PostCall, LockKept
  <1> HIDE DEF id
  <1>3. QED
    BY <1>1, <1>2, CallStep DEF LockKept

LEMMA WakeInv ==
  ASSUME IInv, NEW c \in Calls, Wake(c)
  PROVE  IInv'
  <1>1. pc[c] = "waiting" /\ Head(lock[Key(c)]) = c /\ ~tool[c].skip
    BY DEF Wake, IInv, Queued
  <1>2. CASE sessions[Key(c)] # Unknown
    <2> DEFINE id == Header(c, sessions)
    <2>1. /\ id \in {NoId} \union DOMAIN issued
          /\ id # NoId => issued[id].key = Key(c)
          /\ sessions[Key(c)] = id
      BY <1>2, OnRecord
    <2>2. /\ Goto(c, "called") /\ Release(c) /\ sessions' = sessions
          /\ using' = [using EXCEPT ![c] = id] /\ asked' = [asked EXCEPT ![c] = "sent"]
          /\ UNCHANGED <<tool, result, hello, issued, alive, gone, ran>>
      BY <1>2 DEF Wake, PostCall
    <2> HIDE DEF id
    <2>3. LockReleased(c)
      BY <1>1, <2>2 DEF LockReleased, Release
    <2>4. QED
      BY <1>1, <2>1, <2>2, <2>3, CallStep
  <1>3. CASE sessions[Key(c)] = Unknown
    <2>1. Goto(c, "init") /\ LockKept /\ UNCHANGED <<tool, using, result, remoteVars>>
      BY <1>3 DEF Wake, LockKept
    <2>2. QED
      BY <1>1, <1>3, <2>1, QueueStep DEF LockKept
  <1>4. QED
    BY <1>2, <1>3

LEMMA InitAnsweredInv ==
  ASSUME IInv, NEW c \in Calls, InitAnswered(c)
  PROVE  IInv'
  <1> DEFINE id == IF hello[c] = "accepted" /\ tool[c].url \notin Stateless
                     THEN CHOOSE n \in DOMAIN issued : issued[n].by = c
                     ELSE NoId
  <1>1. /\ id \in {NoId} \union DOMAIN issued
        /\ id # NoId => issued[id].key = Key(c)
    <2>1. CASE hello[c] = "accepted" /\ tool[c].url \notin Stateless
      <3>1. \E n \in DOMAIN issued : issued[n].by = c
        BY <2>1 DEF IInv, HelloInv
      <3>2. id \in DOMAIN issued /\ issued[id].by = c
        BY <2>1, <3>1
      <3>3. QED
        BY <3>2, KeyType DEF IInv, SessionsInv
    <2>2. CASE ~(hello[c] = "accepted" /\ tool[c].url \notin Stateless)
      BY <2>2
    <2>3. QED
      BY <2>1, <2>2
  <1>2. /\ pc[c] = "init" /\ sessions' = [sessions EXCEPT ![Key(c)] = id]
        /\ PostCall(c, sessions') /\ Release(c)
    BY DEF InitAnswered
  <1> HIDE DEF id
  <1>3. Head(lock[Key(c)]) = c
    BY <1>2 DEF IInv, HoldsTheLock
  <1>4. /\ sessions'[Key(c)] = id /\ id # Unknown
        /\ \A k \in Keys : k # Key(c) => sessions'[k] = sessions[k]
    <2>1. sessions \in [Keys -> {Unknown, NoId} \union DOMAIN issued] /\ Key(c) \in Keys
      BY KeyType DEF IInv, TypeOK
    <2>2. id \in Nat
      BY <1>1 DEF IInv, TypeOK, NoId
    <2>3. QED
      BY <1>2, <2>1, <2>2 DEF Unknown
  <1>5. LockReleased(c)
    BY <1>2, <1>3, <1>4 DEF LockReleased, Release
  <1>6. /\ Goto(c, "called")
        /\ using' = [using EXCEPT ![c] = id] /\ asked' = [asked EXCEPT ![c] = "sent"]
        /\ UNCHANGED <<tool, result, hello, issued, alive, gone, ran>>
    BY <1>2, <1>4 DEF PostCall, Header
  <1>7. QED
    BY <1>1, <1>2, <1>4, <1>5, <1>6, CallStep

\* The five ways to the end of a call.
LEMMA EndInv ==
  ASSUME IInv, NEW c \in Calls,
         Misconfigured(c) \/ InitFails(c) \/ Answered(c) \/ NotFound(c) \/ CallFails(c)
  PROVE  IInv'
  <1>1. pc[c] = "called" => asked[c] # "none"
    BY DEF IInv, AskedInv
  <1>2. gone \subseteq DOMAIN issued
    BY DEF IInv, TypeOK
  <1>3. CASE Misconfigured(c)
    <2>1. asked[c] = "none"
      BY <1>3 DEF Misconfigured, IInv, AskedInv
    <2>2. QED
      BY <1>2, <1>3, <2>1, DoneStep DEF Misconfigured, LockKept, remoteVars,
                                        Results
  <1>4. CASE InitFails(c)
    <2>1. Head(lock[Key(c)]) = c
      BY <1>4 DEF InitFails, IInv, HoldsTheLock
    <2>2. LockReleased(c)
      BY <1>4, <2>1 DEF InitFails, Release, LockReleased
    <2>3. PICK kind \in Kinds : Done(c, kind)
      BY <1>4 DEF InitFails, Kinds, HttpErrors
    <2>4. QED
      BY <1>2, <1>4, <2>2, <2>3, DoneStep DEF InitFails, remoteVars, Results,
                                              Kinds, HttpErrors
  <1>5. CASE Answered(c)
    <2>1. ran[c] > 0
      BY <1>5 DEF Answered, IInv, AskedInv
    <2>2. QED
      BY <1>2, <1>5, <2>1, DoneStep DEF Answered, LockKept, remoteVars,
                                        Results, Kinds, HttpErrors
  <1>6. CASE NotFound(c)
    <2>1. using[c] \in DOMAIN issued
      BY <1>6 DEF NotFound, IInv, AskedInv, TypeOK
    <2>2. QED
      BY <1>2, <1>6, <2>1, DoneStep DEF NotFound, LockKept, Results, Kinds,
                                        HttpErrors
  <1>7. CASE CallFails(c)
    <2>1. PICK kind \in Kinds : Done(c, kind)
      BY <1>7 DEF CallFails, Kinds, HttpErrors
    <2>2. QED
      BY <1>2, <1>7, <2>1, DoneStep DEF CallFails, LockKept, remoteVars,
                                        Results, Kinds, HttpErrors
  <1>8. QED
    BY <1>3, <1>4, <1>5, <1>6, <1>7

------------------------------------------------------------------------------
(* The actions of the remotes *)

\* What the remote may do to a call without touching the gateway's state.
LEMMA RemoteStep ==
  ASSUME IInv, NEW c \in Calls, UNCHANGED gatewayVars, IssuedKept,
         \A d \in Calls \ {c} :
           hello'[d] = hello[d] /\ asked'[d] = asked[d] /\ ran'[d] = ran[d],
         hello' \in [Calls -> {"none", "accepted", "declined"}],
         asked' \in [Calls -> {"none", "sent", "ran", "unknown_session"}],
         ran' \in [Calls -> 0..1],
         alive' \subseteq DOMAIN issued', gone' = gone,
         HelloInv(c)', AskedInv(c)', ResultInv(c)'
  PROVE  IInv'
  <1>1. UNCHANGED <<tool, pc, sessions, lock, using, result>>
    BY DEF gatewayVars
  <1>2. DOMAIN issued \subseteq DOMAIN issued' /\ issued' \in Seq(Tickets)
    BY IssuedFacts
  <1>3. TypeOK'
    <2>1. /\ sessions \in [Keys -> {Unknown, NoId} \union DOMAIN issued']
          /\ using \in [Calls -> {NoId} \union DOMAIN issued']
          /\ gone \subseteq DOMAIN issued'
      BY <1>2 DEF IInv, TypeOK
    <2>2. QED
      BY <1>1, <1>2, <2>1 DEF IInv, TypeOK, Tickets
  <1>4. OwnSession' /\ SessionsInv'
    BY <1>1, SameSessions
  <1>5. CarriesTheSession'
    BY <1>1 DEF IInv, CarriesTheSession, Own
  <1>6. Mine(c)'
    BY <1>1 DEF IInv, Mine, Queued, HoldsTheLock, Key
  <1>7. ASSUME NEW d \in Calls \ {c}
        PROVE  Mine(d)'
    BY <1>1, Others DEF LockKept
  <1>8. QED
    BY <1>3, <1>4, <1>5, <1>6, <1>7 DEF IInv, Mine

LEMMA OpenInv ==
  ASSUME IInv, NEW c \in Calls, Open(c)
  PROVE  IInv'
  <1>1. /\ pc[c] = "init" /\ hello' = [hello EXCEPT ![c] = "accepted"]
        /\ UNCHANGED <<tool, pc, using, result, gone, asked, ran>> /\ UNCHANGED gatewayVars
    BY DEF Open, gatewayVars
  <1>2. /\ hello' \in [Calls -> {"none", "accepted", "declined"}]
        /\ \A d \in Calls \ {c} : hello'[d] = hello[d]
    BY <1>1 DEF IInv, TypeOK
  <1>3. IssuedKept
    BY DEF Open, IssuedKept
  <1>4. issued \in Seq(Tickets) /\ alive \subseteq DOMAIN issued
    BY DEF IInv, TypeOK, Tickets
  <1>5. alive' \subseteq DOMAIN issued' /\ HelloInv(c)'
    <2>1. CASE tool[c].url \in Stateless
      BY <1>1, <1>4, <2>1 DEF Open, HelloInv
    <2>2. CASE tool[c].url \notin Stateless
      <3> DEFINE e == [key |-> Own(c), by |-> c]
      <3>1. e \in Tickets /\ e.by = c
        BY KeyType DEF Tickets, IInv
      <3>2. issued' = Append(issued, e) /\ alive' = alive \union {Len(issued')}
        BY <2>2 DEF Open
      <3> HIDE DEF e
      <3>3. /\ DOMAIN issued' = DOMAIN issued \union {Len(issued) + 1}
            /\ issued'[Len(issued) + 1] = e
        BY <1>4, <3>1, <3>2, SeqFacts
      <3>4. Len(issued') = Len(issued) + 1
        BY <1>4, <3>1, <3>2
      <3>5. QED
        BY <1>4, <3>1, <3>2, <3>3, <3>4 DEF HelloInv
    <2>3. QED
      BY <2>1, <2>2
  <1>6. AskedInv(c)' /\ ResultInv(c)'
    BY <1>1 DEF IInv, AskedInv, ResultInv
  <1>7. QED
    BY <1>1, <1>2, <1>3, <1>5, <1>6, RemoteStep DEF IInv, TypeOK

LEMMA DeclineInv ==
  ASSUME IInv, NEW c \in Calls, Decline(c)
  PROVE  IInv'
  <1>1. /\ hello' = [hello EXCEPT ![c] = "declined"] /\ IssuedKept
        /\ UNCHANGED <<tool, pc, using, result, issued, alive, gone, asked, ran>>
        /\ UNCHANGED gatewayVars
    BY DEF Decline, gatewayVars, IssuedKept
  <1>2. /\ hello' \in [Calls -> {"none", "accepted", "declined"}]
        /\ hello'[c] = "declined" /\ \A d \in Calls \ {c} : hello'[d] = hello[d]
    BY <1>1 DEF IInv, TypeOK
  <1>3. HelloInv(c)' /\ AskedInv(c)' /\ ResultInv(c)'
    BY <1>1, <1>2 DEF IInv, HelloInv, AskedInv, ResultInv
  <1>4. QED
    BY <1>1, <1>2, <1>3, RemoteStep DEF IInv, TypeOK

\* tools/call is carried out, or turned away.
LEMMA ServeInv ==
  ASSUME IInv, NEW c \in Calls, Run(c) \/ Turn(c)
  PROVE  IInv'
  <1>1. /\ asked[c] = "sent" /\ ran[c] = 0 /\ pc[c] \notin {"new", "waiting", "init"}
        /\ IssuedKept /\ UNCHANGED gatewayVars
        /\ UNCHANGED <<tool, pc, using, result, hello, issued, alive, gone>>
    BY DEF Run, Turn, IInv, AskedInv, IssuedKept, gatewayVars
  <1>2. PICK end \in {"ran", "unknown_session"} :
          /\ asked' = [asked EXCEPT ![c] = end]
          /\ ran' = [ran EXCEPT ![c] = IF end = "ran" THEN 1 ELSE 0]
          /\ end = "unknown_session" => using[c] # NoId
    <2>1. ran = [ran EXCEPT ![c] = 0]
      BY <1>1 DEF IInv, TypeOK
    <2>2. CASE Run(c)
      <3>1. asked' = [asked EXCEPT ![c] = "ran"] /\ ran' = [ran EXCEPT ![c] = 1]
        BY <1>1, <2>2 DEF Run
      <3>2. QED
        BY <3>1
    <2>3. CASE Turn(c)
      <3>1. /\ asked' = [asked EXCEPT ![c] = "unknown_session"] /\ ran' = ran
            /\ using[c] # NoId
        BY <2>3 DEF Turn, Known
      <3>2. QED
        BY <2>1, <3>1
    <2>4. QED
      BY <2>2, <2>3
  <1>3. /\ asked' \in [Calls -> {"none", "sent", "ran", "unknown_session"}]
        /\ ran' \in [Calls -> 0..1]
        /\ asked'[c] = end /\ ran'[c] = IF end = "ran" THEN 1 ELSE 0
        /\ \A d \in Calls \ {c} : asked'[d] = asked[d] /\ ran'[d] = ran[d]
    BY <1>2 DEF IInv, TypeOK
  <1>4. HelloInv(c)' /\ AskedInv(c)' /\ ResultInv(c)'
    BY <1>1, <1>2, <1>3 DEF IInv, HelloInv, AskedInv, ResultInv
  <1>5. QED
    BY <1>1, <1>3, <1>4, RemoteStep DEF IInv, TypeOK

------------------------------------------------------------------------------
(* The theorems *)

LEMMA InitInv == Init => IInv
  <1> SUFFICES ASSUME Init PROVE IInv
    OBVIOUS
  <1>1. TypeOK
    BY DEF Init, TypeOK
  <1>2. OwnSession /\ CarriesTheSession /\ SessionsInv
    BY DEF Init, OwnSession, CarriesTheSession, SessionsInv
  <1>3. ASSUME NEW c \in Calls
        PROVE  Mine(c)
    BY DEF Init, Mine, Queued, HoldsTheLock, HelloInv, AskedInv, ResultInv
  <1>4. QED
    BY <1>1, <1>2, <1>3 DEF IInv, Mine

\* A step of the gateway or of the remotes that is not a restart is a step of one
\* call.
Acts(c) ==
  \/ Misconfigured(c) \/ Handshake(c) \/ Straight(c) \/ Wake(c)
  \/ InitAnswered(c) \/ InitFails(c) \/ Answered(c) \/ NotFound(c) \/ CallFails(c)
  \/ Open(c) \/ Decline(c) \/ Run(c) \/ Turn(c)

LEMMA NextCases == Next => (\E c \in Calls : Acts(c)) \/ (\E u \in Urls : Restart(u))
  BY DEF Next, Step, Acts

LEMMA NextInv == IInv /\ [Next]_vars => IInv'
  <1> SUFFICES ASSUME IInv, [Next]_vars PROVE IInv'
    OBVIOUS
  <1>1. ASSUME NEW c \in Calls, Acts(c)
        PROVE  IInv'
    BY <1>1, EndInv, HandshakeInv, StraightInv, WakeInv, InitAnsweredInv,
       OpenInv,
       DeclineInv, ServeInv DEF Acts
  <1>2. ASSUME UNCHANGED <<tool, pc, sessions, lock, using, result, hello, issued, asked, ran>>,
               alive' \subseteq alive, gone' = gone
        PROVE  IInv'
    <2>1. TypeOK'
      BY <1>2 DEF IInv, TypeOK
    <2>2. OwnSession' /\ CarriesTheSession' /\ SessionsInv'
      BY <1>2 DEF IInv, OwnSession, CarriesTheSession, SessionsInv, Own
    <2>3. \A c \in Calls : Mine(c)'
      BY <1>2 DEF IInv, Mine, Queued, HoldsTheLock, HelloInv, AskedInv,
                  ResultInv, Key
    <2>4. QED
      BY <2>1, <2>2, <2>3 DEF IInv, Mine
  <1>3. ASSUME NEW u \in Urls, Restart(u)
        PROVE  IInv'
    BY <1>2, <1>3 DEF Restart, gatewayVars
  <1>4. CASE UNCHANGED vars
    BY <1>2, <1>4 DEF vars, gatewayVars, remoteVars
  <1>5. QED
    BY <1>1, <1>3, <1>4, NextCases

\* The inductive invariant: the call that sends initialize is at the head of the
\* queue of its key and finds no session on record, and a session on record was
\* given out for its key.
THEOREM Invariance == Spec => []IInv
  BY InitInv, NextInv, PTL DEF Spec

\* Every variable keeps its type; a call is carried out at most once.
THEOREM TypeCorrectness == Spec => []TypeOK
  <1>1. IInv => TypeOK
    BY DEF IInv
  <1>2. QED
    BY <1>1, Invariance, PTL

\* mcp_proxy.py, _sessions: a session given out for one identity is never used
\* for the call of another one, nor at another remote.
THEOREM SessionsAreOwn == Spec => []OwnSession
  <1>1. IInv => OwnSession
    BY DEF IInv
  <1>2. QED
    BY <1>1, Invariance, PTL

\* mcp_proxy.py, _ensure_initialized: a call that wants a handshake carries the
\* session of the handshake, whoever made it.
THEOREM SessionIsCarried == Spec => []CarriesTheSession
  <1>1. IInv => CarriesTheSession
    BY DEF IInv
  <1>2. QED
    BY <1>1, Invariance, PTL

\* mcp_proxy.py, _init_locks: a handshake on record is not replaced by a second
\* one, however many calls were waiting for the lock.
THEOREM HandshakeIsFinal == Spec => OneHandshake
  <1>1. IInv /\ [Next]_vars =>
          [\A k \in Keys : sessions[k] # Unknown => sessions'[k] = sessions[k]]_vars
    <2> SUFFICES ASSUME IInv, Next, NEW k \in Keys, sessions[k] # Unknown
                 PROVE  sessions'[k] = sessions[k]
      OBVIOUS
    <2>1. CASE \E u \in Urls : Restart(u)
      BY <2>1 DEF Restart, gatewayVars
    <2>2. ASSUME NEW c \in Calls, Acts(c)
          PROVE  sessions'[k] = sessions[k]
      <3>1. CASE InitAnswered(c)
        <4>1. sessions[Key(c)] = Unknown
          BY <3>1 DEF InitAnswered, IInv, HoldsTheLock
        <4>2. PICK id : sessions' = [sessions EXCEPT ![Key(c)] = id]
          BY <3>1 DEF InitAnswered
        <4>3. QED
          BY <4>1, <4>2 DEF IInv, TypeOK
      <3>2. CASE ~InitAnswered(c)
        BY <2>2, <3>2 DEF Acts, Misconfigured, Handshake, Straight, Wake,
                          InitFails,
                          Answered, NotFound, CallFails, Open, Decline, Run, Turn,
                          gatewayVars
      <3>3. QED
        BY <3>1, <3>2
    <2>3. QED
      BY <2>1, <2>2, NextCases
  <1>2. QED
    BY <1>1, Invariance, PTL DEF Spec, OneHandshake

------------------------------------------------------------------------------
(* The contract of a dispatcher *)

\* The phases of the contract, by place and outcome.
LEMMA PhaseCases ==
  ASSUME NEW place \in Locations, NEW outcome
  PROVE  /\ place = "new" => PhaseAt(place, outcome) = "new"
         /\ place \in Locations \ {"new", "done"}
              => PhaseAt(place, outcome) = "running"
         /\ place = "done" /\ outcome = "ok"
              => PhaseAt(place, outcome) = "returned"
         /\ place = "done" /\ outcome = "config_error"
              => PhaseAt(place, outcome) = "refused"
         /\ place = "done" /\ outcome \notin {"ok", "config_error"}
              => PhaseAt(place, outcome) = "raised"
  BY DEF Locations, PhaseAt

Budgets == [c \in Calls |-> 1]
Phases == [c \in Calls |-> Phase(c)]

\* A step of the adapter or of the remotes, seen as one of a dispatcher.
LEMMA ContractStep ==
  ASSUME IInv, IInv', [Next]_vars
  PROVE  [Contract!Next]_(<<Budgets, Phases, ran>>)
  <1>1. \A c \in Calls : pc[c] \in Locations /\ pc'[c] \in Locations /\ ran[c] \in Nat
    <2>1. ran \in [Calls -> 0..1]
      BY DEF IInv, TypeOK
    <2>2. pc \in [Calls -> Locations] /\ pc' \in [Calls -> Locations]
      BY DEF IInv, TypeOK, Locations
    <2>3. QED
      BY <2>1, <2>2
  <1>2. ran \in [Calls -> 0..1] /\ pc \in [Calls -> Locations] /\ result \in [Calls -> Results]
    BY DEF IInv, TypeOK, Locations, Results
  <1>3. Budgets' = Budgets
    BY DEF Budgets
  <1>4. ASSUME UNCHANGED <<ran, pc, result>>
        PROVE  UNCHANGED <<Budgets, Phases, ran>>
    BY <1>3, <1>4 DEF Phases, Phase
  <1>5. ASSUME NEW c \in Calls, UNCHANGED ran,
               \A d \in Calls \ {c} : pc'[d] = pc[d] /\ result'[d] = result[d],
               \/ Phase(c)' = Phase(c)
               \/ Phase(c) = "new" /\ Phase(c)' \in {"running", "refused"}
               \/ Phase(c) = "running" /\ Phase(c)' = "raised"
               \/ /\ Phase(c) = "running" /\ Phase(c)' = "returned"
                  /\ ran[c] > 0
        PROVE  [Contract!Next]_(<<Budgets, Phases, ran>>)
    <2>1. Phases' = [Phases EXCEPT ![c] = Phase(c)'] /\ Phases[c] = Phase(c)
      <3>1. \A d \in Calls \ {c} : Phase(d)' = Phase(d)
        BY <1>5 DEF Phase
      <3>2. QED
        BY <3>1 DEF Phases
    <2>2. CASE Phase(c)' = Phase(c)
      BY <1>3, <1>5, <2>1, <2>2 DEF Phases
    <2>3. CASE Phase(c) = "new" /\ Phase(c)' = "running"
      BY <1>3, <1>5, <2>1, <2>3
      DEF Contract!Next, Contract!Start, Contract!Move, Budgets, Phases
    <2>4. CASE Phase(c) = "new" /\ Phase(c)' = "refused"
      BY <1>3, <1>5, <2>1, <2>4
      DEF Contract!Next, Contract!Refuse, Contract!Move, Budgets, Phases
    <2>5. CASE Phase(c) = "running" /\ Phase(c)' = "raised"
      BY <1>3, <1>5, <2>1, <2>5
      DEF Contract!Next, Contract!Raise, Contract!Move, Budgets, Phases
    <2>6. CASE Phase(c) = "running" /\ Phase(c)' = "returned" /\ ran[c] > 0
      BY <1>3, <1>5, <2>1, <2>6
      DEF Contract!Next, Contract!Return, Contract!Move, Budgets, Phases
    <2>7. QED
      BY <1>5, <2>2, <2>3, <2>4, <2>5, <2>6
  <1>6. ASSUME NEW c \in Calls, NEW next \in Locations \ {"new", "done"}, Goto(c, next),
               UNCHANGED <<ran, result>>, pc[c] # "done"
        PROVE  [Contract!Next]_(<<Budgets, Phases, ran>>)
    <2>1. /\ Phase(c)' = "running" /\ Phase(c) \in {"new", "running"}
          /\ \A d \in Calls \ {c} : pc'[d] = pc[d]
      BY <1>1, <1>2, <1>6, PhaseCases DEF Goto, Phase
    <2>2. QED
      BY <1>5, <1>6, <2>1
  <1>7. ASSUME NEW c \in Calls, NEW kind, Done(c, kind), UNCHANGED ran,
               \/ pc[c] = "new" /\ kind = "config_error"
               \/ pc[c] \in Locations \ {"new", "done"} /\ kind \in Kinds
               \/ pc[c] = "called" /\ kind = "ok" /\ ran[c] > 0
        PROVE  [Contract!Next]_(<<Budgets, Phases, ran>>)
    <2>1. /\ pc'[c] = "done" /\ result'[c] = kind
          /\ \A d \in Calls \ {c} : pc'[d] = pc[d] /\ result'[d] = result[d]
      BY <1>2, <1>7 DEF Done, Goto
    <2>2. \/ Phase(c) = "new" /\ Phase(c)' = "refused"
          \/ Phase(c) = "running" /\ Phase(c)' = "raised"
          \/ Phase(c) = "running" /\ Phase(c)' = "returned" /\ ran[c] > 0
      BY <1>1, <1>7, <2>1, PhaseCases DEF Phase, Kinds, HttpErrors, Locations
    <2>3. QED
      BY <1>5, <1>7, <2>1, <2>2
  <1>8. ASSUME NEW c \in Calls, Run(c)
        PROVE  [Contract!Next]_(<<Budgets, Phases, ran>>)
    <2>1. /\ UNCHANGED <<pc, result>> /\ ran' = [ran EXCEPT ![c] = @ + 1]
          /\ asked[c] = "sent" /\ ran[c] = 0
      BY <1>8 DEF Run, gatewayVars, IInv, AskedInv
    <2>2. pc[c] # "new" /\ result[c] # "config_error"
      BY <2>1 DEF IInv, AskedInv, ResultInv
    <2>3. Phases' = Phases /\ Phases[c] \in {"running", "returned", "raised"}
      BY <1>1, <2>1, <2>2, PhaseCases DEF Phases, Phase
    <2>4. Contract!CarryOut(c)
      BY <1>3, <2>1, <2>3 DEF Contract!CarryOut, Budgets, Phases
    <2>5. QED
      BY <2>4 DEF Contract!Next
  <1>9. ASSUME NEW c \in Calls, Acts(c)
        PROVE  [Contract!Next]_(<<Budgets, Phases, ran>>)
    <2>1. CASE Open(c) \/ Decline(c) \/ Turn(c)
      BY <1>4, <2>1 DEF Open, Decline, Turn, gatewayVars
    <2>2. CASE Handshake(c)
      BY <1>6, <2>2 DEF Handshake, remoteVars, Locations
    <2>3. CASE Straight(c)
      BY <1>6, <2>3 DEF Straight, PostCall, Locations
    <2>4. CASE Wake(c)
      BY <1>6, <2>4 DEF Wake, PostCall, remoteVars, Locations
    <2>5. CASE InitAnswered(c)
      BY <1>6, <2>5 DEF InitAnswered, PostCall, Locations
    <2>6. CASE Misconfigured(c)
      BY <1>7, <2>6 DEF Misconfigured, remoteVars
    <2>7. CASE InitFails(c)
      BY <1>7, <2>7 DEF InitFails, remoteVars, Locations, Kinds, HttpErrors
    <2>8. CASE Answered(c)
      <3>1. ran[c] > 0
        BY <2>8 DEF Answered, IInv, AskedInv
      <3>2. QED
        BY <1>7, <2>8, <3>1 DEF Answered, remoteVars, Locations, Kinds,
                                HttpErrors
    <2>9. CASE NotFound(c)
      BY <1>7, <2>9 DEF NotFound, Locations, Kinds, HttpErrors
    <2>10. CASE CallFails(c)
      BY <1>7, <2>10 DEF CallFails, remoteVars, Locations, Kinds, HttpErrors
    <2>11. QED
      BY <1>8, <1>9, <2>1, <2>2, <2>3, <2>4, <2>5, <2>6, <2>7, <2>8, <2>9, <2>10
      DEF Acts
  <1>10. ASSUME NEW u \in Urls, Restart(u)
         PROVE  [Contract!Next]_(<<Budgets, Phases, ran>>)
    BY <1>4, <1>10 DEF Restart, gatewayVars
  <1>11. CASE UNCHANGED vars
    BY <1>4, <1>11 DEF vars, gatewayVars, remoteVars
  <1>12. QED
    BY <1>9, <1>10, <1>11, NextCases

\* The adapter implements the contract of a dispatcher with a budget of one: a
\* call is carried out at most once, behind any queue, and after any timeout, and
\* a result is never made up.
THEOREM Refinement == Spec => KeepsContract
  <1>1. Init => Contract!Init
    <2> SUFFICES ASSUME Init PROVE Contract!Init
      OBVIOUS
    <2>1. \A c \in Calls : PhaseAt("new", "none") = "new"
      BY DEF PhaseAt
    <2>2. QED
      BY <2>1 DEF Init, Contract!Init, Phase
  <1>2. IInv /\ IInv' /\ [Next]_vars
          => [Contract!Next]_(<<Budgets, Phases, ran>>)
    BY ContractStep
  <1>3. QED
    BY <1>1, <1>2, Invariance, PTL
    DEF Spec, KeepsContract, Contract!Spec, Contract!dispatchVars, Budgets,
        Phases
==============================================================================
