---------------------------- MODULE Authenticate -----------------------------
(***************************************************************************)
(* authenticate of app/auth/dependency.py with RoleResolver.resolve        *)
(* (app/auth/roles.py): from a verified token to the roles and the         *)
(* customer of a request, by way of the claims, Redis, Casdoor and the     *)
(* gongdan ticket system.                                                  *)
(*                                                                         *)
(* What matters of a list of roles is where it came from, so a list is     *)
(* represented by its source: the user it was said of, when, and by whom - *)
(* the roles claim of a token, or the client of Casdoor, whose empty list  *)
(* after a failure is an answer like any other.  An unconfigured client    *)
(* (casdoor, gongdan, redis) is one that fails at once.  Verification      *)
(* itself is JwksCache's.                                                  *)
(***************************************************************************)
EXTENDS Integers

CONSTANTS Tasks,     \* coroutines of requests
          Users,     \* values of the sub claim
          Customers, \* the customers of gongdan, by their ids
          Codes,     \* values of customerCode
          CodeOf,    \* a customer's code, or Nobody; it never changes
          Nobody,
          TTL,       \* role_cache_ttl_sec
          Life,      \* how long a token is accepted after it is issued
          MaxWait    \* bound: the longest request, in ticks

ASSUME AuthAssumption ==
  /\ TTL \in Nat /\ Life \in Nat /\ MaxWait \in Nat
  /\ Nobody \notin Users \union Customers \union Codes
  /\ CodeOf \in [Customers -> Codes \union {Nobody}]

\* Time is kept as the ages of things, which Tick lets grow.
VARIABLES store,  \* Redis: per user, the value of roles:<user_id>, if any
          gone,   \* per customer: 0 while gongdan has it, and then one more
                  \* than the ticks since it had, up to Long
          pc,     \* per task: where its coroutine is suspended
          token,  \* per task: its verified claims
          waited, \* per task: for how long it has run
          roles,  \* per task: the roles to be cached and returned
          reply,  \* per task: the customer in the answer gongdan has sent it
          given   \* the AuthContext the last step returned, if it did

reqVars == <<token, waited, roles>>
vars == <<store, gone, pc, reqVars, reply, given>>

Long == MaxWait + 2

Sources == {"token", "casdoor"}
Roles == [of : Users, age : Nat, by : Sources]
NoRoles == [of |-> Nobody, age |-> 0, by |-> "casdoor"]
Entries == [roles : Roles, left : 0..TTL]
NoEntry == [roles |-> NoRoles, left |-> -1]

\* carries: the roles claim is not empty.  isCustomer: _is_customer_claims.
\* names: the id in a customer's claims, or the customer code in those of the
\* staff, if any.  age: of a token that carries roles, and so of these.
Names == Customers \union Codes \union {Nobody}
Claims == [user : Users, age : Nat, carries : BOOLEAN, isCustomer : BOOLEAN,
           names : Names]
Tokens == {k \in [user : Users, age : 0..Life, carries : BOOLEAN,
                  isCustomer : BOOLEAN, names : Names] :
             /\ k.isCustomer => ~k.carries
             /\ k.names \in IF k.isCustomer THEN Customers
                                            ELSE Codes \union {Nobody}
             /\ k.age # 0 => k.carries}
NoToken == [user |-> Nobody, age |-> 0, carries |-> FALSE,
            isCustomer |-> FALSE, names |-> Nobody]

Contexts == [token : Claims, roles : Roles \union {NoRoles},
             customer : Codes \union {Nobody}]
Nothing == [token |-> NoToken, roles |-> NoRoles, customer |-> Nobody]

Init ==
  /\ store = [u \in Users |-> NoEntry]
  /\ gone \in [Customers -> {0, Long}]
  /\ pc = [t \in Tasks |-> "idle"]
  /\ token = [t \in Tasks |-> NoToken]
  /\ waited = [t \in Tasks |-> 0]
  /\ roles = [t \in Tasks |-> NoRoles]
  /\ reply = [t \in Tasks |-> Nobody]
  /\ given = Nothing

Pending(t) == pc[t] # "idle"

\* The coroutine of t goes on to its next await.
Goto(t, next) ==
  /\ pc' = [pc EXCEPT ![t] = next]
  /\ given' = Nothing
  /\ UNCHANGED <<gone, reply>>

\* The request leaves authenticate, and its local variables with it.
Leave(t) ==
  /\ pc' = [pc EXCEPT ![t] = "idle"]
  /\ token' = [token EXCEPT ![t] = NoToken]
  /\ waited' = [waited EXCEPT ![t] = 0]
  /\ roles' = [roles EXCEPT ![t] = NoRoles]
  /\ reply' = [reply EXCEPT ![t] = Nobody]
  /\ UNCHANGED gone

Return(t, r, c) ==
  /\ given' = [token |-> token[t], roles |-> r, customer |-> c]
  /\ Leave(t)

------------------------------------------------------------------------------
(* RoleResolver.resolve *)

\* resolve returns r.  A customer code in the claims is asked for next.
Resolved(t, r) ==
  \/ /\ token[t].names = Nobody
     /\ Return(t, r, Nobody)
  \/ /\ token[t].names # Nobody
     /\ roles' = [roles EXCEPT ![t] = r]
     /\ Goto(t, "lookup")
     /\ UNCHANGED <<token, waited>>

\* authenticate has its verified claims.  A customer is looked up by id and has
\* no roles; roles in the claims are cached; only without them is the cache
\* asked.
ClaimedRoles(k) == [of |-> k.user, age |-> k.age, by |-> "token"]
FirstStop(k) ==
  IF k.isCustomer THEN "lookup" ELSE IF k.carries THEN "set" ELSE "get"

Arrive(t, k) ==
  /\ ~Pending(t)
  /\ Goto(t, FirstStop(k))
  /\ token' = [token EXCEPT ![t] = k]
  /\ waited' = [waited EXCEPT ![t] = 0]
  /\ roles' = [roles EXCEPT ![t] =
                 IF k.carries THEN ClaimedRoles(k) ELSE NoRoles]
  /\ UNCHANGED store

\* _cache_get finds an entry: it is returned as it is, an empty list too, and
\* is not renewed.
Cached(t) == store[token[t].user]
HitAndRenew(t) ==
  /\ pc[t] = "get" /\ Cached(t) # NoEntry
  /\ Resolved(t, Cached(t).roles)
  /\ store' = [store EXCEPT ![token[t].user].left = TTL]
Hit(t) ==
  /\ pc[t] = "get" /\ Cached(t) # NoEntry
  /\ Resolved(t, Cached(t).roles)
  /\ UNCHANGED store

\* There is none, or the GET fails: Casdoor is asked.
Miss(t) ==
  /\ pc[t] = "get"
  /\ Goto(t, "fetch")
  /\ UNCHANGED <<store, reqVars>>

\* get_user_roles returns: an answer, or the empty list after any failure.
Fetched(t) ==
  /\ pc[t] = "fetch"
  /\ roles' = [roles EXCEPT ![t] =
                 [of |-> token[t].user, age |-> 0, by |-> "casdoor"]]
  /\ Goto(t, "set")
  /\ UNCHANGED <<store, token, waited>>

\* Its answer has roles that are no list, and get_user_roles raises.
FetchRaises(t) ==
  /\ pc[t] = "fetch"
  /\ given' = Nothing
  /\ Leave(t)
  /\ UNCHANGED store

\* _cache_set: a SETEX, of the empty list after a failure too.
Stored(t) ==
  /\ pc[t] = "set"
  /\ store' = [store EXCEPT ![token[t].user] =
                 [roles |-> roles[t], left |-> TTL]]
  /\ Resolved(t, roles[t])

\* The SETEX raises, and resolve goes on all the same.  (One that raises after
\* it was carried out is Stored.)
NotStored(t) ==
  /\ pc[t] = "set"
  /\ Resolved(t, roles[t])
  /\ UNCHANGED store

------------------------------------------------------------------------------
(* The customer of the request: get_by_code, get_by_id *)

\* get_by_id is asked for an id, get_by_code for a code; a customer without a
\* code is nobody's.
IsNamed(c, k) ==
  CodeOf[c] # Nobody /\ k.names = IF k.isCustomer THEN c ELSE CodeOf[c]

\* gongdan has the customer and answers; the answer is under way.
Reply(t) ==
  /\ pc[t] = "lookup" /\ reply[t] = Nobody
  /\ \E c \in Customers :
       /\ gone[c] = 0 /\ IsNamed(c, token[t])
       /\ reply' = [reply EXCEPT ![t] = c]
  /\ given' = Nothing
  /\ UNCHANGED <<store, gone, pc, reqVars>>

\* The answer arrives: the request is the customer's, by the code it gives.
Found(t) ==
  /\ pc[t] = "lookup" /\ reply[t] # Nobody
  /\ Return(t, roles[t], CodeOf[reply[t]])
  /\ UNCHANGED store

\* An unknown customer, one without a code, and an upstream error all refuse the
\* request; the error may also take the place of an answer that was sent.
NotFoundTrusted(t) ==
  /\ pc[t] = "lookup"
  /\ \E c \in Customers :
       IsNamed(c, token[t]) /\ Return(t, roles[t], CodeOf[c])
  /\ UNCHANGED store
NotFound(t) ==
  /\ pc[t] = "lookup"
  /\ given' = Nothing
  /\ Leave(t)
  /\ UNCHANGED store

------------------------------------------------------------------------------
(* Outside *)

\* An entry goes early: DEL by RoleResolver.invalidate, or eviction.
Lose(u) ==
  /\ store[u] # NoEntry
  /\ store' = [store EXCEPT ![u] = NoEntry]
  /\ given' = Nothing
  /\ UNCHANGED <<gone, pc, reqVars, reply>>

\* gongdan gains or loses a customer.
Change(c) ==
  /\ gone' = [gone EXCEPT ![c] = IF @ = 0 THEN 1 ELSE 0]
  /\ given' = Nothing
  /\ UNCHANGED <<store, pc, reqVars, reply>>

Older(r) == [r EXCEPT !.age = @ + 1]
\* Redis drops an entry when its time is over.
Aged(e) ==
  IF e.left <= 0 THEN NoEntry
  ELSE [roles |-> Older(e.roles), left |-> e.left - 1]
GoneFor(n) == IF n \in 1..(Long - 1) THEN n + 1 ELSE n
Tick ==
  /\ \A t \in Tasks : Pending(t) => waited[t] < MaxWait
  /\ store' = [u \in Users |-> Aged(store[u])]
  /\ token' = [t \in Tasks |->
                 IF token[t].carries THEN Older(token[t]) ELSE token[t]]
  /\ waited' = [t \in Tasks |-> IF Pending(t) THEN waited[t] + 1 ELSE 0]
  /\ roles' = [t \in Tasks |->
                 IF roles[t] = NoRoles THEN NoRoles ELSE Older(roles[t])]
  /\ gone' = [c \in Customers |-> GoneFor(gone[c])]
  /\ given' = Nothing
  /\ UNCHANGED <<pc, reply>>

------------------------------------------------------------------------------
Next ==
  \/ \E t \in Tasks :
       \/ \E k \in Tokens : Arrive(t, k)
       \/ Hit(t) \/ Miss(t) \/ Fetched(t) \/ FetchRaises(t)
       \/ Stored(t) \/ NotStored(t)
       \/ Reply(t) \/ Found(t) \/ NotFound(t)
  \/ \E u \in Users : Lose(u)
  \/ \E c \in Customers : Change(c)
  \/ Tick

Spec == Init /\ [][Next]_vars

------------------------------------------------------------------------------
(* Properties *)

TypeOK ==
  /\ store \in [Users -> Entries \union {NoEntry}]
  /\ gone \in [Customers -> 0..Long]
  /\ pc \in [Tasks -> {"idle", "get", "fetch", "set", "lookup"}]
  /\ token \in [Tasks -> Claims \union {NoToken}]
  /\ waited \in [Tasks -> 0..MaxWait]
  /\ roles \in [Tasks -> Roles \union {NoRoles}]
  /\ reply \in [Tasks -> Customers \union {Nobody}]
  /\ given \in Contexts \union {Nothing}

\* How old roles may be when they are given: what a token says was said when
\* it was issued; then a request to cache them, the entry, and a request that
\* finds it.
Said(r) == IF r.by = "token" THEN Life ELSE 0
Staleness(r) == Said(r) + MaxWait + TTL + MaxWait

\* What makes it so: an entry and its remaining life together are no older than
\* the request that wrote it allowed, and the roles a request has at hand are no
\* older than where it stands.
EntryIsBounded(u) ==
  store[u] # NoEntry =>
    /\ store[u].roles.of = u
    /\ store[u].roles.age + store[u].left
         <= Said(store[u].roles) + MaxWait + TTL
RequestIsBounded(t) ==
  /\ pc[t] = "idle" => token[t] = NoToken /\ roles[t] = NoRoles
  /\ pc[t] # "idle" => token[t] # NoToken
  /\ pc[t] \in {"get", "fetch", "set"} => ~token[t].isCustomer
  /\ token[t].carries =>
       pc[t] \in {"set", "lookup"} /\ ~token[t].isCustomer
         /\ roles[t] = ClaimedRoles(token[t])
  /\ pc[t] = "set" =>
       roles[t].of = token[t].user /\ roles[t].age <= Said(roles[t]) + waited[t]
  /\ pc[t] = "lookup" /\ ~token[t].isCustomer =>
       /\ roles[t].of = token[t].user
       /\ roles[t].age <= Said(roles[t]) + MaxWait + TTL + waited[t]
\* An answer that is under way is of the customer the token names, who was in
\* gongdan when it was sent, and so since the request is in authenticate.  A
\* customer has no roles at hand.
ReplyIsRecent(t) ==
  /\ reply[t] # Nobody =>
       /\ pc[t] = "lookup" /\ IsNamed(reply[t], token[t])
       /\ gone[reply[t]] <= waited[t] + 1
  /\ token[t].isCustomer => roles[t] = NoRoles
IInv ==
  /\ TypeOK
  /\ \A u \in Users : EntryIsBounded(u)
  /\ \A t \in Tasks : RequestIsBounded(t) /\ ReplyIsRecent(t)

\* A request gets roles that were said of its own user, and not longer ago than
\* the lifetimes allow: neither a chain of cache hits, nor a slow request that
\* caches late, nor one that writes after another prolongs them, and an empty
\* list after a failure of Casdoor is no exception.  And "JWT roles are
\* authoritative for the current request", whatever is in the cache and whoever
\* writes to it meanwhile.
GivenRolesAreRecent ==
  given # Nothing /\ ~given.token.isCustomer =>
    /\ given.roles.of = given.token.user
    /\ given.roles.age <= Staleness(given.roles)
    /\ given.token.carries => given.roles = ClaimedRoles(given.token)

\* A token that names a customer is served with the code of that customer, and
\* gongdan has it, or had it within the time of one request: a customer it has
\* lost is served no longer than that, though answers are slow, fail and cross
\* the loss.  And no customer gets roles, whatever was cached for its sub.
CustomerIsConfirmed ==
  given.token.names # Nobody =>
    /\ \E c \in Customers :
         /\ IsNamed(c, given.token) /\ given.customer = CodeOf[c]
         /\ gone[c] <= MaxWait + 1
    /\ given.token.isCustomer => given.roles = NoRoles

\* What the design document says, 774: a change of a user's permissions takes
\* effect within a minute, the time of an entry.  What a token claims stays in
\* force for the life of the token, and is cached on top of that (which 217-227
\* of it have read first).
RolesWithinTTL == given.roles # NoRoles => given.roles.age <= TTL
==============================================================================
