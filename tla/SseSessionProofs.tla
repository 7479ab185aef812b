--------------------------- MODULE SseSessionProofs --------------------------
(***************************************************************************)
(* What is proved about SseSession, for any processes, sessions, POSTs and *)
(* size of the queue.                                                      *)
(*                                                                         *)
(* The inductive invariant is IInv of SseSession.  First the sequences: a  *)
(* response goes from the queue over the hand to the client without        *)
(* leaving its place in Places.  Then the steps.                           *)
(***************************************************************************)
EXTENDS SseSession, SequenceTheorems, TLAPS

USE SseAssumption

------------------------------------------------------------------------------
(* Sequences *)

LEMMA SplitHead ==
  ASSUME NEW S, NEW q \in Seq(S), q # <<>>
  PROVE  q = <<Head(q)>> \o Tail(q)
  <1>1. /\ Head(q) \in S /\ Tail(q) \in Seq(S) /\ Len(Tail(q)) = Len(q) - 1
        /\ \A i \in 1..Len(Tail(q)) : Tail(q)[i] = q[i + 1]
    BY HeadTailProperties
  <1>2. /\ <<Head(q)>> \in Seq(S) /\ Len(<<Head(q)>>) = 1
        /\ <<Head(q)>>[1] = Head(q) /\ Head(q) = q[1]
    BY <1>1
  <1> DEFINE t == <<Head(q)>> \o Tail(q)
  <1>3. /\ t \in Seq(S) /\ Len(t) = Len(q)
        /\ \A i \in 1..Len(q) :
             t[i] = IF i <= 1 THEN <<Head(q)>>[i] ELSE Tail(q)[i - 1]
    BY <1>1, <1>2, ConcatProperties
  <1> HIDE DEF t
  <1>4. ASSUME NEW i \in 1..Len(q)
        PROVE  q[i] = t[i]
    <2>1. CASE i = 1
      BY <1>2, <1>3, <2>1
    <2>2. CASE i # 1
      <3>1. i - 1 \in 1..Len(Tail(q)) /\ (i - 1) + 1 = i /\ ~(i <= 1)
        BY <1>1, <2>2
      <3>2. QED
        BY <1>1, <1>3, <3>1
    <2>3. QED
      BY <2>1, <2>2
  <1>5. QED
    BY <1>3, <1>4, SeqEqual DEF t

\* The generator takes the head of the queue: it is still behind all that the
\* client has read, and before the rest.
LEMMA TakenStays ==
  ASSUME NEW S, NEW r \in Seq(S), NEW q \in Seq(S), q # <<>>
  PROVE  (r \o <<Head(q)>>) \o Tail(q) = (r \o <<>>) \o q
  <1>1. Head(q) \in S /\ Tail(q) \in Seq(S) /\ <<Head(q)>> \in Seq(S)
    BY HeadTailProperties
  <1>2. (r \o <<Head(q)>>) \o Tail(q) = r \o (<<Head(q)>> \o Tail(q))
    BY <1>1, ConcatAssociative
  <1>3. r \o <<>> = r
    BY ConcatEmptySeq
  <1>4. QED
    BY <1>2, <1>3, SplitHead

LEMMA SentStays ==
  ASSUME NEW S, NEW r \in Seq(S), NEW h \in S, NEW q \in Seq(S)
  PROVE  (Append(r, h) \o <<>>) \o q = (r \o <<h>>) \o q
  <1>1. Append(r, h) \in Seq(S) /\ Append(r, h) = r \o <<h>>
    BY AppendProperties, AppendIsConcat
  <1>2. Append(r, h) \o <<>> = Append(r, h)
    BY <1>1, ConcatEmptySeq
  <1>3. QED
    BY <1>1, <1>2

LEMMA PutGoesLast ==
  ASSUME NEW S, NEW x \in Seq(S), NEW q \in Seq(S), NEW p \in S
  PROVE  x \o Append(q, p) = Append(x \o q, p)
  <1>1. <<p>> \in Seq(S) /\ x \o q \in Seq(S)
    BY ConcatProperties
  <1>2. Append(q, p) = q \o <<p>> /\ Append(x \o q, p) = (x \o q) \o <<p>>
    BY <1>1, AppendIsConcat
  <1>3. QED
    BY <1>1, <1>2, ConcatAssociative

LEMMA AppendOnce ==
  ASSUME NEW S, NEW x \in Seq(S), NEW p \in S, IsInjective(x), p \notin Range(x)
  PROVE  IsInjective(Append(x, p)) /\ Range(Append(x, p)) = Range(x) \union {p}
  <1> DEFINE y == Append(x, p)
  <1>1. /\ DOMAIN x = 1..Len(x) /\ Len(x) \in Nat
        /\ DOMAIN y = 1..Len(x) + 1
        /\ \A i \in 1..Len(x) : y[i] = x[i]
        /\ y[Len(x) + 1] = p
    BY AppendProperties
  <1> HIDE DEF y
  <1>2. \A i \in DOMAIN y : i \in DOMAIN x \/ i = Len(x) + 1
    BY <1>1
  <1>3. \A i \in DOMAIN x : x[i] # p
    BY DEF Range
  <1>4. IsInjective(y)
    BY <1>1, <1>2, <1>3 DEF IsInjective
  <1>5. Range(y) = Range(x) \union {p}
    BY <1>1, <1>2 DEF Range
  <1>6. QED
    BY <1>4, <1>5 DEF y

\* What is dropped in the middle leaves the rest as it was.
LEMMA DropOne ==
  ASSUME NEW S, NEW r \in Seq(S), NEW h \in S, NEW q \in Seq(S),
         IsInjective((r \o <<h>>) \o q)
  PROVE  /\ IsInjective((r \o <<>>) \o q)
         /\ Range((r \o <<>>) \o q) \subseteq Range((r \o <<h>>) \o q)
  <1> DEFINE x == (r \o <<h>>) \o q
             y == (r \o <<>>) \o q
             k == Len(r)
             l == Len(q)
             Old(i) == IF i <= k THEN i ELSE i + 1
  <1>1. k \in Nat /\ l \in Nat /\ <<h>> \in Seq(S) /\ Len(<<h>>) = 1
    OBVIOUS
  <1>2. /\ r \o <<h>> \in Seq(S) /\ Len(r \o <<h>>) = k + 1
        /\ \A i \in 1..k : (r \o <<h>>)[i] = r[i]
    BY <1>1, ConcatProperties
  <1>3. /\ x \in Seq(S) /\ Len(x) = k + 1 + l
        /\ \A i \in 1..k : x[i] = r[i]
        /\ \A i \in k + 2..k + 1 + l : x[i] = q[i - (k + 1)]
    <2>1. /\ x \in Seq(S) /\ Len(x) = k + 1 + l
          /\ \A i \in 1..(k + 1) + l :
               x[i] = IF i <= k + 1 THEN (r \o <<h>>)[i] ELSE q[i - (k + 1)]
      BY <1>2, ConcatProperties
    <2> HIDE DEF x
    <2>2. QED
      BY <1>1, <1>2, <2>1
  <1>4. /\ y \in Seq(S) /\ Len(y) = k + l
        /\ \A i \in 1..k + l : y[i] = IF i <= k THEN r[i] ELSE q[i - k]
    <2>1. r \o <<>> = r
      BY ConcatEmptySeq
    <2>2. QED
      BY <2>1, ConcatProperties
  <1>5. DOMAIN x = 1..k + 1 + l /\ DOMAIN y = 1..k + l
    BY <1>3, <1>4
  <1> HIDE DEF x, y, k, l
  <1>6. ASSUME NEW i \in DOMAIN y
        PROVE  Old(i) \in DOMAIN x /\ y[i] = x[Old(i)]
    <2>1. CASE i <= k
      BY <1>1, <1>3, <1>4, <1>5, <2>1
    <2>2. CASE ~(i <= k)
      <3>1. i + 1 \in k + 2..k + 1 + l /\ (i + 1) - (k + 1) = i - k
        BY <1>1, <1>5, <2>2
      <3>2. x[i + 1] = q[i - k]
        BY <1>3, <3>1
      <3>3. QED
        BY <1>1, <1>4, <1>5, <2>2, <3>1, <3>2
    <2>3. QED
      BY <2>1, <2>2
  <1>7. \A i, j \in DOMAIN y : Old(i) = Old(j) => i = j
    BY <1>1, <1>5
  <1>8. IsInjective(x)
    BY DEF x
  <1> HIDE DEF Old
  <1>9. IsInjective(y) /\ Range(y) \subseteq Range(x)
    BY <1>6, <1>7, <1>8 DEF IsInjective, Range
  <1>10. QED
    BY <1>9 DEF x, y

------------------------------------------------------------------------------
(* The invariant, part by part *)

\* AcceptedIsOnItsWay where nothing is in two places.
Way(p, s) ==
  /\ stream[s] = "live" /\ status[p] = "accepted" /\ to[p] = s
       => p \in Range(Places(s))
  /\ p \in Range(Places(s)) => to[p] = s /\ status[p] = "accepted"

PlacesInv ==
  \A s \in Sessions : OnceInv(s) /\ \A p \in Posts : Way(p, s)

RestInv ==
  /\ Affinity => RespondsOnTheStream
  /\ \A p \in Posts : PostInv(p)
  /\ \A s \in Sessions : SessionInv(s)

LEMMA OnePlace ==
  ASSUME NEW f, IsInjective(f), NEW p
  PROVE  p \in Range(f) <=>
           \E n \in DOMAIN f : {m \in DOMAIN f : f[m] = p} = {n}
  BY DEF IsInjective, Range

LEMMA Parts == IInv <=> TypeOK /\ RestInv /\ PlacesInv
  <1>1. ASSUME \A s \in Sessions : OnceInv(s)
        PROVE  AcceptedIsOnItsWay <=> \A s \in Sessions, p \in Posts : Way(p, s)
    <2>1. \A s \in Sessions, p \in Posts :
            p \in Range(Places(s)) <=>
              \E n \in DOMAIN Places(s) : Occurrences(p, s) = {n}
      BY <1>1, OnePlace DEF OnceInv, Occurrences
    <2>2. QED
      BY <2>1 DEF AcceptedIsOnItsWay, Way
  <1>2. QED
    BY <1>1 DEF IInv, RestInv, PlacesInv

LEMMA PartsNext == TypeOK' /\ RestInv' /\ PlacesInv' => IInv'
  BY Parts, PTL

Hand(s) == IF hand[s] = Nobody THEN <<>> ELSE <<hand[s]>>

LEMMA PlacesType ==
  ASSUME TypeOK, NEW s \in Sessions
  PROVE  /\ received[s] \in Seq(Posts) /\ Hand(s) \in Seq(Posts)
         /\ queue[s] \in Seq(Posts)
         /\ received[s] \o Hand(s) \in Seq(Posts)
         /\ Places(s) = (received[s] \o Hand(s)) \o queue[s]
         /\ Places(s) \in Seq(Posts)
  <1>1. /\ received[s] \in Seq(Posts) /\ queue[s] \in Seq(Posts)
        /\ hand[s] \in Posts \union {Nobody}
    BY DEF TypeOK
  <1>2. Hand(s) \in Seq(Posts)
    BY <1>1 DEF Hand
  <1>3. received[s] \o Hand(s) \in Seq(Posts)
    BY <1>1, <1>2, ConcatProperties
  <1>4. Places(s) = (received[s] \o Hand(s)) \o queue[s]
    BY DEF Places, Hand
  <1>5. QED
    BY <1>1, <1>2, <1>3, <1>4, ConcatProperties

\* A step that leaves every response where it is.
LEMMA NothingMoves ==
  ASSUME PlacesInv,
         \A s \in Sessions : Places(s)' = Places(s),
         \A p \in Posts :
           \/ status'[p] = status[p] /\ to'[p] = to[p]
           \/ "accepted" \notin {status[p], status'[p]},
         \A s \in Sessions, p \in Posts :
           stream'[s] = "live" => stream[s] = "live" \/ to'[p] # s
  PROVE  PlacesInv'
  <1>1. \A s \in Sessions : OnceInv(s)'
    BY DEF PlacesInv, OnceInv
  <1>2. ASSUME NEW s \in Sessions, NEW p \in Posts
        PROVE  Way(p, s)'
    <2>1. Way(p, s) /\ Places(s)' = Places(s)
      BY DEF PlacesInv
    <2>2. QED
      BY <2>1 DEF Way
  <1>3. QED
    BY <1>1, <1>2 DEF PlacesInv

------------------------------------------------------------------------------
(* The steps *)

\* The initial state satisfies the invariant.
LEMMA InitIInv == Init => IInv
  <1> SUFFICES ASSUME Init PROVE IInv
    OBVIOUS
  <1>1. TypeOK
    BY DEF Init, TypeOK
  <1>2. RestInv
    BY DEF Init, RestInv, RespondsOnTheStream, PostInv, SessionInv
  <1>3. PlacesInv
    <2>1. ASSUME NEW s \in Sessions
          PROVE  Places(s) = <<>>
      <3>1. received[s] = <<>> /\ Hand(s) = <<>> /\ queue[s] = <<>>
        BY DEF Init, Hand
      <3>2. QED
        BY <1>1, <3>1, PlacesType, ConcatEmptySeq
    <2>2. QED
      BY <2>1 DEF Init, PlacesInv, OnceInv, IsInjective, Way, Range
  <1>4. QED
    BY <1>1, <1>2, <1>3, Parts

\* A stream opens, tells where to post, or takes its session off the record.
LEMMA StreamStepInv ==
  ASSUME IInv, NEW s \in Sessions,
         (\E i \in Instances : Open(s, i)) \/ Endpoint(s) \/ Pop(s)
  PROVE  IInv'
  <1>1. TypeOK /\ RestInv /\ PlacesInv
    BY Parts
  <1>2. UNCHANGED <<queue, hand, received, pc, to, status>>
    BY DEF Open, Endpoint, Pop
  <1>3. TypeOK'
    <2>1. CASE \E i \in Instances : Open(s, i)
      BY <1>1, <1>2, <2>1 DEF TypeOK, Open
    <2>2. CASE Endpoint(s)
      BY <1>1, <1>2, <2>2 DEF TypeOK, Endpoint
    <2>3. CASE Pop(s)
      BY <1>1, <1>2, <2>3 DEF TypeOK, Pop
    <2>4. QED
      BY <2>1, <2>2, <2>3
  <1>4. RestInv'
    <2>1. Affinity => RespondsOnTheStream'
      <3>1. \A x \in Sessions : Gone(x) => Gone(x)'
        BY <1>1 DEF TypeOK, Gone, Open, Endpoint, Pop
      <3>2. QED
        BY <1>1, <1>2, <3>1 DEF RestInv, RespondsOnTheStream
    <2>2. \A p \in Posts : PostInv(p)'
      BY <1>1, <1>2 DEF RestInv, PostInv
    <2>3. \A x \in Sessions : SessionInv(x)'
      <3>1. CASE \E i \in Instances : Open(s, i)
        BY <1>1, <1>2, <3>1 DEF TypeOK, RestInv, SessionInv, Open
      <3>2. CASE Endpoint(s)
        BY <1>1, <1>2, <3>2 DEF TypeOK, RestInv, SessionInv, Endpoint
      <3>3. CASE Pop(s)
        BY <1>1, <1>2, <3>3 DEF TypeOK, RestInv, SessionInv, Pop
      <3>4. QED
        BY <3>1, <3>2, <3>3
    <2>4. QED
      BY <2>1, <2>2, <2>3 DEF RestInv
  <1>5. PlacesInv'
    <2>1. \A x \in Sessions : Places(x)' = Places(x)
      BY <1>2 DEF Places
    <2>2. \A x \in Sessions, p \in Posts :
            stream'[x] = "live" => stream[x] = "live" \/ to'[p] # x
      BY <1>1, <1>2 DEF TypeOK, RestInv, SessionInv, Open, Endpoint, Pop
    <2>3. QED
      BY <1>1, <1>2, <2>1, <2>2, NothingMoves
  <1>6. QED
    BY <1>3, <1>4, <1>5, PartsNext

\* The generator takes a response from the queue, or sends the one it has.
LEMMA DeliverStep ==
  ASSUME IInv, NEW s \in Sessions, Take(s) \/ Send(s)
  PROVE  IInv'
  <1>1. TypeOK /\ RestInv /\ PlacesInv
    BY Parts
  <1>2. UNCHANGED <<sessions, home, stream, pc, to, status>>
    BY DEF Take, Send
  <1>3. /\ received[s] \in Seq(Posts) /\ queue[s] \in Seq(Posts)
        /\ hand[s] \in Posts \union {Nobody}
        /\ DOMAIN received = Sessions /\ DOMAIN queue = Sessions
        /\ DOMAIN hand = Sessions
    BY <1>1 DEF TypeOK
  <1>4. /\ received'[s] \in Seq(Posts) /\ queue'[s] \in Seq(Posts)
        /\ hand'[s] \in Posts \union {Nobody} /\ Len(queue'[s]) <= QueueSize
        /\ Places(s)' = Places(s)
    <2>1. CASE Take(s)
      <3>1. /\ hand[s] = Nobody /\ queue[s] # <<>> /\ received' = received
            /\ hand'[s] = Head(queue[s]) /\ queue'[s] = Tail(queue[s])
        BY <1>3, <2>1 DEF Take
      <3>2. /\ Head(queue[s]) \in Posts /\ Tail(queue[s]) \in Seq(Posts)
            /\ Len(Tail(queue[s])) = Len(queue[s]) - 1
        BY <1>3, <3>1, HeadTailProperties
      <3>3. Len(queue[s]) <= QueueSize /\ Len(queue[s]) \in Nat
        BY <1>1, <1>3 DEF TypeOK
      <3>4. Places(s)' = Places(s)
        <4>1. Places(s) = (received[s] \o <<>>) \o queue[s]
          BY <3>1 DEF Places
        <4>2. Places(s)' =
                (received[s] \o <<Head(queue[s])>>) \o Tail(queue[s])
          BY <3>1, <3>2 DEF Places
        <4>3. (received[s] \o <<Head(queue[s])>>) \o Tail(queue[s])
                = (received[s] \o <<>>) \o queue[s]
          BY <1>3, <3>1, TakenStays
        <4>4. QED
          BY <4>1, <4>2, <4>3, Zenon
      <3>5. QED
        BY <1>3, <3>1, <3>2, <3>3, <3>4
    <2>2. CASE Send(s)
      <3>1. /\ hand[s] \in Posts /\ hand[s] # Nobody /\ queue' = queue
            /\ hand'[s] = Nobody /\ received'[s] = Append(received[s], hand[s])
        BY <1>3, <2>2 DEF Send
      <3>2. Append(received[s], hand[s]) \in Seq(Posts)
        BY <1>3, <3>1, AppendProperties
      <3>3. Places(s)' = Places(s)
        <4>1. Places(s) = (received[s] \o <<hand[s]>>) \o queue[s]
          BY <3>1 DEF Places
        <4>2. Places(s)' = (Append(received[s], hand[s]) \o <<>>) \o queue[s]
          BY <3>1 DEF Places
        <4>3. QED
          BY <1>3, <3>1, <4>1, <4>2, SentStays
      <3>4. Len(queue[s]) <= QueueSize
        BY <1>1 DEF TypeOK
      <3>5. QED
        BY <1>3, <3>1, <3>2, <3>3, <3>4
    <2>3. QED
      BY <2>1, <2>2
  <1>5. \A x \in Sessions \ {s} : /\ received'[x] = received[x]
                                  /\ queue'[x] = queue[x] /\ hand'[x] = hand[x]
    BY <1>3 DEF Take, Send
  <1>6. /\ DOMAIN received' = Sessions /\ received' = [x \in Sessions |-> received'[x]]
        /\ DOMAIN queue' = Sessions /\ queue' = [x \in Sessions |-> queue'[x]]
        /\ DOMAIN hand' = Sessions /\ hand' = [x \in Sessions |-> hand'[x]]
    BY <1>1 DEF TypeOK, Take, Send
  <1>7. TypeOK'
    <2>1. ASSUME NEW x \in Sessions
          PROVE  /\ received'[x] \in Seq(Posts) /\ queue'[x] \in Seq(Posts)
                 /\ hand'[x] \in Posts \union {Nobody}
                 /\ Len(queue'[x]) <= QueueSize
      <3>1. CASE x = s
        BY <1>4, <3>1
      <3>2. CASE x # s
        BY <1>1, <1>5, <3>2 DEF TypeOK
      <3>3. QED
        BY <3>1, <3>2
    <2>2. /\ received' \in [Sessions -> Seq(Posts)]
          /\ queue' \in [Sessions -> Seq(Posts)]
          /\ hand' \in [Sessions -> Posts \union {Nobody}]
      BY <1>6, <2>1
    <2>3. QED
      BY <1>1, <1>2, <2>1, <2>2 DEF TypeOK
  <1>8. RestInv'
    BY <1>1, <1>2 DEF RestInv, RespondsOnTheStream, Gone, PostInv, SessionInv
  <1>9. PlacesInv'
    <2>1. \A x \in Sessions : Places(x)' = Places(x)
      BY <1>4, <1>5 DEF Places
    <2>2. QED
      BY <1>1, <1>2, <2>1, NothingMoves
  <1>10. QED
    BY <1>7, <1>8, <1>9, PartsNext

\* The client goes away: what was being written is lost, the rest stays.
LEMMA CloseStep ==
  ASSUME IInv, NEW s \in Sessions, Close(s)
  PROVE  IInv'
  <1>1. TypeOK /\ RestInv /\ PlacesInv
    BY Parts
  <1>2. /\ UNCHANGED <<sessions, home, queue, received, pc, to, status>>
        /\ hand' = [hand EXCEPT ![s] = Nobody]
        /\ stream[s] \in {"opened", "live"}
        /\ stream' = [stream EXCEPT ![s] =
                        IF stream[s] = "live" THEN "closing" ELSE "unbegun"]
    BY DEF Close
  <1>3. TypeOK'
    BY <1>1, <1>2 DEF TypeOK
  <1>4. stream'[s] \in {"closing", "unbegun"} /\ hand'[s] = Nobody
        /\ \A x \in Sessions \ {s} : stream'[x] = stream[x] /\ hand'[x] = hand[x]
    BY <1>1, <1>2 DEF TypeOK
  <1>5. RestInv'
    <2>1. \A x \in Sessions : Gone(x) => Gone(x)'
      BY <1>4 DEF Gone
    <2>2. Affinity => RespondsOnTheStream'
      BY <1>1, <1>2, <2>1 DEF RestInv, RespondsOnTheStream
    <2>3. \A p \in Posts : PostInv(p)'
      BY <1>1, <1>2 DEF RestInv, PostInv
    <2>4. \A x \in Sessions : SessionInv(x)'
      BY <1>1, <1>2, <1>4 DEF RestInv, SessionInv
    <2>5. QED
      BY <2>2, <2>3, <2>4 DEF RestInv
  <1>6. /\ IsInjective(Places(s)')
        /\ Range(Places(s)') \subseteq Range(Places(s))
    <2>1. Places(s)' = (received[s] \o <<>>) \o queue[s]
      BY <1>2, <1>4 DEF Places
    <2>2. IsInjective(Places(s))
      BY <1>1 DEF PlacesInv, OnceInv
    <2>3. CASE hand[s] = Nobody
      <3>1. Places(s)' = Places(s)
        BY <2>1, <2>3 DEF Places
      <3>2. QED
        BY <2>2, <3>1
    <2>4. CASE hand[s] # Nobody
      <3>1. Places(s) = (received[s] \o <<hand[s]>>) \o queue[s]
        BY <2>4 DEF Places
      <3>2. /\ received[s] \in Seq(Posts) /\ queue[s] \in Seq(Posts)
            /\ hand[s] \in Posts
        BY <1>1, <2>4 DEF TypeOK
      <3>3. QED
        BY <2>1, <2>2, <3>1, <3>2, DropOne
    <2>5. QED
      BY <2>3, <2>4
  <1>7. PlacesInv'
    <2>1. ASSUME NEW x \in Sessions
          PROVE  OnceInv(x)' /\ \A p \in Posts : Way(p, x)'
      <3>1. CASE x = s
        <4>1. OnceInv(s)'
          BY <1>6 DEF OnceInv
        <4>2. \A p \in Posts : Way(p, s)'
          BY <1>1, <1>2, <1>4, <1>6 DEF PlacesInv, Way
        <4>3. QED
          BY <3>1, <4>1, <4>2
      <3>2. CASE x # s
        <4>1. /\ hand'[x] = hand[x] /\ queue'[x] = queue[x]
              /\ received'[x] = received[x]
          BY <1>1, <1>2, <1>4, <3>2 DEF TypeOK
        <4>2. Places(x)' = Places(x)
          BY <4>1 DEF Places
        <4>3. QED
          BY <1>1, <1>2, <1>4, <3>2, <4>2 DEF PlacesInv, OnceInv, Way
      <3>3. QED
        BY <3>1, <3>2
    <2>2. QED
      BY <2>1 DEF PlacesInv
  <1>8. QED
    BY <1>3, <1>5, <1>7, PartsNext

\* A POST is turned away, fails, has nothing to push, or waits: no response
\* moves.
LEMMA QuietPostStep ==
  ASSUME IInv, NEW p \in Posts,
         \/ \E s \in Sessions, i \in Instances : Post(p, s, i)
         \/ Fail(p) \/ Silent(p)
         \/ Push(p) /\ ~Room(to[p])
  PROVE  IInv'
  <1>1. TypeOK /\ RestInv /\ PlacesInv
    BY Parts
  <1>2. UNCHANGED <<sessions, home, stream, hand, received, queue>>
    BY DEF Post, Fail, Silent, Push, streamVars
  <1>3. PICK s \in Sessions, at \in {"handling", "putting", "done"},
             code \in {"none", "unknown", "error", "silent"} :
          /\ to' = [to EXCEPT ![p] = s] /\ pc' = [pc EXCEPT ![p] = at]
          /\ status' = [status EXCEPT ![p] = code]
          /\ code = "none" <=> at # "done"
          /\ pc[p] # "done"
          /\ to[p] # s => stream[s] \notin {"none", "opened"}
          /\ code = "unknown" /\ Affinity => Gone(s)
    <2>1. CASE \E s \in Sessions, i \in Instances : Post(p, s, i)
      <3>1. PICK s \in Sessions, i \in Instances : Post(p, s, i)
        BY <2>1
      <3>2. status[p] = "none"
        BY <1>1, <3>1 DEF Post, RestInv, PostInv
      <3>3. CASE s \in sessions[i]
        <4>1. status' = [status EXCEPT ![p] = "none"]
          BY <1>1, <3>1, <3>2, <3>3 DEF Post, TypeOK
        <4>2. QED
          BY <3>1, <3>3, <4>1 DEF Post, Goto
      <3>4. CASE s \notin sessions[i]
        <4>1. Affinity => Gone(s)
          BY <1>1, <3>1, <3>4 DEF Post, RestInv, SessionInv, Gone
        <4>2. QED
          BY <3>1, <3>4, <4>1 DEF Post, Finish, Goto
      <3>5. QED
        BY <3>3, <3>4
    <2>2. CASE Fail(p) \/ Silent(p) \/ (Push(p) /\ ~Room(to[p]))
      <3>1. pc[p] = "handling" /\ to' = to
        BY <2>2 DEF Fail, Silent, Push
      <3>2. to[p] \in Sessions /\ to' = [to EXCEPT ![p] = to[p]]
        BY <1>1, <3>1 DEF RestInv, PostInv, TypeOK
      <3>3. status[p] = "none"
        BY <1>1, <3>1 DEF RestInv, PostInv
      <3>4. CASE Fail(p)
        BY <3>1, <3>2, <3>4 DEF Fail, Finish, Goto
      <3>5. CASE Silent(p)
        BY <3>1, <3>2, <3>5 DEF Silent, Finish, Goto
      <3>6. CASE Push(p) /\ ~Room(to[p])
        <4>1. status' = [status EXCEPT ![p] = "none"]
          BY <1>1, <3>3, <3>6 DEF Push, TypeOK
        <4>2. QED
          BY <3>1, <3>2, <3>6, <4>1 DEF Push, Goto
      <3>7. QED
        BY <2>2, <3>4, <3>5, <3>6
    <2>3. QED
      BY <2>1, <2>2
  <1>4. TypeOK'
    BY <1>1, <1>2, <1>3 DEF TypeOK
  <1>5. /\ to'[p] = s /\ pc'[p] = at /\ status'[p] = code
        /\ \A q \in Posts \ {p} :
             to'[q] = to[q] /\ pc'[q] = pc[q] /\ status'[q] = status[q]
    BY <1>1, <1>3 DEF TypeOK
  <1>6. status[p] = "none"
    BY <1>1, <1>3 DEF RestInv, PostInv
  <1>7. RestInv'
    <2>1. Affinity => RespondsOnTheStream'
      BY <1>1, <1>2, <1>3, <1>5 DEF RestInv, RespondsOnTheStream, Gone
    <2>2. \A q \in Posts : PostInv(q)'
      BY <1>1, <1>3, <1>5 DEF RestInv, PostInv
    <2>3. \A x \in Sessions : SessionInv(x)'
      BY <1>1, <1>2, <1>3, <1>5 DEF RestInv, SessionInv
    <2>4. QED
      BY <2>1, <2>2, <2>3 DEF RestInv
  <1>8. PlacesInv'
    <2>1. \A x \in Sessions : Places(x)' = Places(x)
      BY <1>2 DEF Places
    <2>2. \A q \in Posts : \/ status'[q] = status[q] /\ to'[q] = to[q]
                           \/ "accepted" \notin {status[q], status'[q]}
      BY <1>5, <1>6
    <2>3. QED
      BY <1>1, <1>2, <2>1, <2>2, NothingMoves
  <1>9. QED
    BY <1>4, <1>7, <1>8, PartsNext

\* A put: the response goes behind the others, and was nowhere before.
LEMMA PutStep ==
  ASSUME IInv, NEW p \in Posts,
         \/ Push(p) /\ Room(to[p])
         \/ WokenPut(p)
  PROVE  IInv'
  <1>1. TypeOK /\ RestInv /\ PlacesInv
    BY Parts
  <1>0. /\ \E x \in Sessions : x = to[p]
        /\ status[p] = "none"
    BY <1>1 DEF RestInv, PostInv, Push, WokenPut
  <1> PICK s \in Sessions : s = to[p]
    BY <1>0
  <1>2. /\ UNCHANGED <<sessions, home, stream, hand, received, to>>
        /\ pc[p] \in {"handling", "putting"} /\ Len(queue[s]) < QueueSize
        /\ queue' = [queue EXCEPT ![s] = Append(@, p)]
        /\ pc' = [pc EXCEPT ![p] = "done"]
        /\ status' = [status EXCEPT ![p] = "accepted"]
    BY DEF Push, WokenPut, Put, Finish, Goto, Room, streamVars
  <1>4. /\ queue[s] \in Seq(Posts) /\ queue'[s] = Append(queue[s], p)
        /\ \A x \in Sessions \ {s} : queue'[x] = queue[x]
    BY <1>1, <1>2 DEF TypeOK
  <1>5. queue'[s] \in Seq(Posts) /\ Len(queue'[s]) = Len(queue[s]) + 1
    BY <1>4, AppendProperties
  <1>6. TypeOK'
    <2>1. queue' \in [Sessions -> Seq(Posts)]
      BY <1>1, <1>2, <1>4, <1>5 DEF TypeOK
    <2>2. \A x \in Sessions : Len(queue'[x]) <= QueueSize
      <3>1. Len(queue[s]) \in Nat
        BY <1>4
      <3>2. Len(queue'[s]) <= QueueSize
        BY <1>2, <1>5, <3>1
      <3>3. QED
        BY <1>1, <1>4, <3>2 DEF TypeOK
    <2>3. QED
      BY <1>1, <1>2, <2>1, <2>2 DEF TypeOK
  <1>7. /\ pc'[p] = "done" /\ status'[p] = "accepted"
        /\ \A q \in Posts \ {p} : pc'[q] = pc[q] /\ status'[q] = status[q]
    BY <1>1, <1>2 DEF TypeOK
  <1>8. RestInv'
    <2>1. Affinity => RespondsOnTheStream'
      BY <1>1, <1>2, <1>7 DEF RestInv, RespondsOnTheStream, Gone
    <2>2. \A q \in Posts : PostInv(q)'
      BY <1>1, <1>2, <1>7 DEF RestInv, PostInv
    <2>3. \A x \in Sessions : SessionInv(x)'
      BY <1>1, <1>2 DEF RestInv, SessionInv
    <2>4. QED
      BY <2>1, <2>2, <2>3 DEF RestInv
  <1>9. \A x \in Sessions : p \notin Range(Places(x))
    BY <1>0, <1>1 DEF PlacesInv, Way
  <1>10. /\ IsInjective(Places(s)')
         /\ Range(Places(s)') = Range(Places(s)) \union {p}
    <2>1. /\ received[s] \o Hand(s) \in Seq(Posts) /\ Places(s) \in Seq(Posts)
          /\ Places(s) = (received[s] \o Hand(s)) \o queue[s]
      BY <1>1, PlacesType
    <2>2. Places(s)' = (received[s] \o Hand(s)) \o Append(queue[s], p)
      BY <1>2, <1>4 DEF Places, Hand
    <2>3. Places(s)' = Append(Places(s), p)
      <3>1. \A x, q \in Seq(Posts) : x \o Append(q, p) = Append(x \o q, p)
        BY PutGoesLast
      <3>2. (received[s] \o Hand(s)) \o Append(queue[s], p)
              = Append((received[s] \o Hand(s)) \o queue[s], p)
        BY <1>4, <2>1, <3>1
      <3>3. QED
        BY <2>1, <2>2, <3>2, Zenon
    <2>4. IsInjective(Places(s))
      BY <1>1 DEF PlacesInv, OnceInv
    <2>5. p \notin Range(Places(s))
      BY <1>9
    <2>6. /\ IsInjective(Append(Places(s), p))
          /\ Range(Append(Places(s), p)) = Range(Places(s)) \union {p}
      <3>1. \A x \in Seq(Posts) :
              IsInjective(x) /\ p \notin Range(x)
                => /\ IsInjective(Append(x, p))
                   /\ Range(Append(x, p)) = Range(x) \union {p}
        BY AppendOnce
      <3>2. QED
        BY <2>1, <2>4, <2>5, <3>1
    <2>7. QED
      BY <2>3, <2>6
  <1>11. PlacesInv'
    <2>1. ASSUME NEW x \in Sessions
          PROVE  OnceInv(x)' /\ \A q \in Posts : Way(q, x)'
      <3>1. CASE x = s
        <4>1. OnceInv(s)'
          BY <1>10 DEF OnceInv
        <4>2. ASSUME NEW q \in Posts
              PROVE  Way(q, s)'
          <5>1. Way(q, s)
            BY <1>1 DEF PlacesInv
          <5>2. QED
            BY <1>2, <1>7, <1>10, <5>1 DEF Way
        <4>3. QED
          BY <3>1, <4>1, <4>2
      <3>2. CASE x # s
        <4>1. Places(x)' = Places(x)
          BY <1>2, <1>4, <3>2 DEF Places
        <4>2. to[p] # x
          BY <3>2
        <4>3. ASSUME NEW q \in Posts
              PROVE  Way(q, x)'
          <5>1. Way(q, x)
            BY <1>1 DEF PlacesInv
          <5>2. QED
            BY <1>2, <1>7, <1>9, <4>1, <4>2, <5>1 DEF Way
        <4>4. QED
          BY <1>1, <4>1, <4>3 DEF PlacesInv, OnceInv
      <3>3. QED
        BY <3>1, <3>2
    <2>2. QED
      BY <2>1 DEF PlacesInv
  <1>12. QED
    BY <1>6, <1>8, <1>11, PartsNext

LEMMA StepIInv == IInv /\ [Next]_vars => IInv'
  <1> SUFFICES ASSUME IInv, [Next]_vars PROVE IInv'
    OBVIOUS
  <1>1. CASE UNCHANGED vars
    <2>1. TypeOK /\ RestInv /\ PlacesInv
      BY Parts
    <2>2. /\ UNCHANGED <<sessions, home, stream, hand, received>>
          /\ UNCHANGED <<queue, pc, to, status>>
      BY <1>1 DEF vars, streamVars
    <2>3. TypeOK'
      BY <2>1, <2>2 DEF TypeOK
    <2>4. RestInv'
      BY <2>1, <2>2 DEF RestInv, RespondsOnTheStream, Gone, PostInv, SessionInv
    <2>5. PlacesInv'
      BY <2>1, <2>2 DEF PlacesInv, OnceInv, Way, Places
    <2>6. QED
      BY <2>3, <2>4, <2>5, PartsNext
  <1>2. ASSUME NEW s \in Sessions,
               (\E i \in Instances : Open(s, i)) \/ StreamStep(s) \/ Close(s)
        PROVE  IInv'
    BY <1>2, StreamStepInv, DeliverStep, CloseStep DEF StreamStep
  <1>3. ASSUME NEW p \in Posts,
               \/ \E s \in Sessions, i \in Instances : Post(p, s, i)
               \/ PostStep(p)
        PROVE  IInv'
    BY <1>3, QuietPostStep, PutStep DEF PostStep
  <1>4. QED
    BY <1>1, <1>2, <1>3 DEF Next

\* The inductive invariant holds in every reachable state.
THEOREM Invariance == Spec => []IInv
  BY InitIInv, StepIInv, PTL DEF Spec

\* Every reachable state is well-typed, and no queue is ever over its size.
THEOREM TypeCorrectness == Spec => []TypeOK
  <1>1. IInv => TypeOK
    BY DEF IInv
  <1>2. QED
    BY <1>1, Invariance, PTL

\* sse_post's 202: the response is in one place, once, as long as the stream is
\* there, however many POSTs wait for room and in whatever order they are woken.
THEOREM OnItsWay == Spec => []AcceptedIsOnItsWay
  <1>1. IInv => AcceptedIsOnItsWay
    BY DEF IInv
  <1>2. QED
    BY <1>1, Invariance, PTL

\* README.md's promise needs what SseSessionSpread lacks: where the POSTs of a
\* client reach the process of its stream, a POST is turned away only when the
\* stream is gone.
THEOREM AffinitySuffices ==
  ASSUME Affinity
  PROVE  Spec => []RespondsOnTheStream
  <1>1. IInv => RespondsOnTheStream
    BY DEF IInv
  <1>2. QED
    BY <1>1, Invariance, PTL
==============================================================================
