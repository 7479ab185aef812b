----------------------------- MODULE AdminProofs -----------------------------
(***************************************************************************)
(* What is proved about the admin API: AdminTools, for any number of       *)
(* requests, columns, values and grantees, and AuditPaging, for any log,   *)
(* any filters, any limits and any number of pages.                        *)
(*                                                                         *)
(* The inductive invariant of AdminTools is its IInv.  Its parts speak of  *)
(* one request each; a step of another request is a commit, which counts   *)
(* in touched, or leaves the row and the grants alone.                     *)
(*                                                                         *)
(* Of AuditPaging first the query: what ORDER BY, LIMIT and the keyset     *)
(* condition return of a finite set of rows.  Then PagingInv.              *)
(***************************************************************************)
EXTENDS AdminTools, AuditPaging, FiniteSetTheorems, TLAPS

USE AdminAssumption, PagingAssumption

PartsOf(t) == RequestInv(t) /\ LoadedInv(t) /\ CommittedInv(t)

\* What a request may ask: columns and values of the tool.
LEMMA RequestTypes ==
  ASSUME NEW q \in Requests
  PROVE  /\ DOMAIN q.set \subseteq Fields
         /\ \A f \in DOMAIN q.set : q.set[f] \in Values
         /\ q.op = "upsert" => q.set \in [Fields -> Values]
         /\ q.op \in {"grant", "revoke"} => q.to \in Grantees
         /\ q # NoRequest
         /\ Meant(q) \subseteq Everything
  <1>1. ASSUME NEW x \in Partial \union {Nothing}
        PROVE  DOMAIN x \subseteq Fields /\ \A f \in DOMAIN x : x[f] \in Values
    BY <1>1 DEF Partial, Nothing
  <1>2. CASE q.op = "upsert"
    BY <1>2 DEF Requests, NoRequest, Meant, Everything
  <1>3. CASE q.op = "patch"
    <2>1. q.set \in Partial \union {Nothing}
      BY <1>3 DEF Requests
    <2>2. QED
      BY <1>1, <1>3, <2>1 DEF Requests, NoRequest, Meant, Everything
  <1>4. CASE q.op = "disable"
    BY <1>4 DEF Requests, NoRequest, Meant, Everything
  <1>5. CASE q.op \in {"delete", "grant", "revoke"}
    BY <1>5 DEF Requests, NoRequest, Meant, Everything, Nothing
  <1>6. QED
    BY <1>2, <1>3, <1>4, <1>5 DEF Requests

\* What the UPDATE sends: a row with the same id, and the columns that are set.
LEMMA UpdatedRow ==
  ASSUME TypeOK, NEW t \in Tasks, req[t] \in Requests,
         row # Absent, loaded[t] # Absent
  PROVE  /\ Updated(t) \in Rows /\ Updated(t).id = row.id
         /\ \A f \in Fields :
              Updated(t).val[f] =
                IF f \in DOMAIN req[t].set /\ req[t].set[f] # loaded[t].val[f]
                  THEN req[t].set[f] ELSE row.val[f]
  <1>1. row \in Rows /\ loaded[t] \in Rows
    BY DEF TypeOK
  <1>2. loaded[t].version + 1 \in Nat \ {0}
    BY <1>1 DEF Rows
  <1> DEFINE v == [f \in Fields |->
               IF f \in DOMAIN req[t].set /\ req[t].set[f] # loaded[t].val[f]
                 THEN req[t].set[f] ELSE row.val[f]]
  <1>3. v \in [Fields -> Values]
    BY <1>1, RequestTypes DEF Rows
  <1>4. Updated(t) = [id |-> row.id, version |-> loaded[t].version + 1, val |-> v]
    BY <1>1 DEF Updated, Rows
  <1> HIDE DEF v
  <1>5. Updated(t) \in Rows /\ Updated(t).id = row.id /\ Updated(t).val = v
    BY <1>1, <1>2, <1>3, <1>4 DEF Rows
  <1>6. QED
    BY <1>5 DEF v

\* The initial state satisfies the invariant.
LEMMA InitIInv == Init => IInv
  <1> SUFFICES ASSUME Init PROVE IInv
    OBVIOUS
  <1>1. TypeOK /\ GrantsAreMeant
    BY DEF Init, TypeOK, GrantsAreMeant, Rows, Everything, NoRequest, Requests
  <1>2. ASSUME NEW t \in Tasks
        PROVE  PartsOf(t)
    BY DEF Init, PartsOf, RequestInv, LoadedInv, CommittedInv
  <1>3. QED
    BY <1>1, <1>2 DEF IInv, PartsOf

------------------------------------------------------------------------------
(* The other requests *)

\* The variables of s are left alone.
Same(s) ==
  /\ pc'[s] = pc[s] /\ req'[s] = req[s]
  /\ loaded'[s] = loaded[s] /\ status'[s] = status[s]

\* Without a commit nothing changes for the others.
LEMMA QuietForOthers ==
  ASSUME NEW s \in Tasks, PartsOf(s), Same(s), touched'[s] = touched[s],
         row' = row, grants' = grants, nextId' = nextId
  PROVE  PartsOf(s)'
  BY DEF PartsOf, RequestInv, LoadedInv, CommittedInv, Same, There, Holds,
         Granted

\* A commit that is meant to change m, and changes nothing else.
OnlyMeant(m) ==
  /\ m # Everything /\ row # Absent => row' # Absent /\ row'.id = row.id
  /\ row' # Absent =>
       \/ row # Absent /\ row'.id = row.id
       \/ row = Absent /\ row'.id = nextId
  /\ "row" \notin m /\ row = Absent => row' = Absent
  /\ row # Absent /\ row' # Absent =>
       \A f \in Fields \ m : row'.val[f] = row.val[f]
  /\ "grants" \notin m => \A g : Granted(g)' <=> Granted(g)
  /\ nextId' \in {nextId, nextId + 1}

LEMMA CommitForOthers ==
  ASSUME TypeOK, NEW s \in Tasks, PartsOf(s), Same(s),
         NEW m \in SUBSET Everything, OnlyMeant(m),
         touched'[s] = IF pc[s] = "new" THEN touched[s] ELSE touched[s] \union m
  PROVE  PartsOf(s)'
  <1>1. RequestInv(s)'
    <2>1. loaded[s] \in Rows \union {Absent} /\ nextId \in Nat
      BY DEF TypeOK
    <2>2. QED
      BY <2>1 DEF PartsOf, RequestInv, Same, OnlyMeant, Rows
  <1>2. LoadedInv(s)'
    <2> SUFFICES ASSUME pc[s] = "write" PROVE LoadedInv(s)'
      BY DEF LoadedInv, Same
    <2>1. loaded[s] \in Rows /\ loaded[s].id < nextId /\ nextId \in Nat
      BY DEF TypeOK, PartsOf, RequestInv
    <2>2. touched'[s] = touched[s] \union m
      OBVIOUS
    <2>3. ASSUME "row" \notin touched'[s] \/ "grants" \notin touched'[s]
          PROVE  There(s)'
      <3>1. There(s) /\ m # Everything
        BY <2>2, <2>3 DEF PartsOf, LoadedInv, Everything
      <3>2. QED
        BY <3>1 DEF There, OnlyMeant, Same
    <2>4. ASSUME There(s)', NEW f \in Fields \ touched'[s]
          PROVE  row'.val[f] = loaded'[s].val[f]
      <3>1. row' # Absent /\ row'.id = loaded[s].id
        BY <2>4 DEF There, Same
      <3>2. row # Absent /\ row'.id = row.id
        BY <2>1, <3>1 DEF OnlyMeant, Rows
      <3>3. There(s)
        BY <3>1, <3>2 DEF There
      <3>4. row.val[f] = loaded[s].val[f]
        BY <2>2, <2>4, <3>3 DEF PartsOf, LoadedInv
      <3>5. row'.val[f] = row.val[f]
        BY <2>2, <2>4, <3>1, <3>2 DEF OnlyMeant
      <3>6. QED
        BY <3>4, <3>5 DEF Same
    <2>5. QED
      BY <2>3, <2>4 DEF LoadedInv, Same
  <1>3. CommittedInv(s)'
    <2> SUFFICES ASSUME pc[s] \in {"reload", "refresh"} \/ status[s] = "ok"
                 PROVE  Holds(s)'
      BY DEF CommittedInv, Same
    <2>1. Holds(s) /\ pc[s] # "new"
      BY DEF PartsOf, CommittedInv, RequestInv
    <2>2. touched'[s] = touched[s] \union m
      BY <2>1
    <2>3. req[s] \in Requests /\ DOMAIN req[s].set \subseteq Fields
      BY <2>1, RequestTypes DEF TypeOK, PartsOf, RequestInv
    <2>4. ASSUME NEW f \in DOMAIN req[s].set \ touched'[s]
          PROVE  row' # Absent /\ row'.val[f] = req[s].set[f]
      <3>1. row # Absent /\ row.val[f] = req[s].set[f]
        BY <2>1, <2>2, <2>4 DEF Holds
      <3>2. f \in Fields \ m /\ m # Everything
        BY <2>2, <2>3, <2>4 DEF Everything
      <3>3. QED
        BY <3>1, <3>2 DEF OnlyMeant
    <2>5. req[s].op = "delete" /\ "row" \notin touched'[s] => row' = Absent
      BY <2>1, <2>2 DEF Holds, OnlyMeant
    <2>6. ASSUME "grants" \notin touched'[s]
          PROVE  /\ req[s].op = "grant" => Granted(req[s].to)'
                 /\ req[s].op = "revoke" => ~Granted(req[s].to)'
      <3>1. \A g : Granted(g)' <=> Granted(g)
        BY <2>2, <2>6 DEF OnlyMeant
      <3>2. Granted(req[s].to)' <=> Granted(req[s].to)
        BY <3>1, Zenon DEF Granted, Same
      <3>3. QED
        BY <2>1, <2>2, <2>6, <3>2 DEF Holds
    <2>7. QED
      BY <2>4, <2>5, <2>6 DEF Holds, Same
  <1>4. QED
    BY <1>1, <1>2, <1>3 DEF PartsOf

\* All of them, while t commits.
LEMMA TheOthers ==
  ASSUME IInv, NEW t \in Tasks, NEW q \in Requests, NEW next,
         Committed(t, q, next), OnlyMeant(Meant(q)),
         \A s \in Tasks \ {t} : req'[s] = req[s] /\ loaded'[s] = loaded[s]
  PROVE  \A s \in Tasks \ {t} : PartsOf(s)'
  <1> SUFFICES ASSUME NEW s \in Tasks \ {t} PROVE PartsOf(s)'
    OBVIOUS
  <1>1. TypeOK /\ PartsOf(s)
    BY DEF IInv, PartsOf
  <1>2. Same(s)
    BY <1>1 DEF Committed, Goto, Same, TypeOK
  <1>3. touched'[s] =
          IF pc[s] = "new" THEN touched[s] ELSE touched[s] \union Meant(q)
    BY DEF Committed
  <1>4. Meant(q) \in SUBSET Everything
    BY RequestTypes
  <1>5. QED
    BY <1>1, <1>2, <1>3, <1>4, CommitForOthers

\* The grants are meant as long as none is added, the row with grants is not
\* replaced, and those who were granted one are remembered.
LEMMA GrantsKept ==
  ASSUME GrantsAreMeant, grants' \subseteq grants,
         grants' # {} => row' # Absent /\ row'.id = row.id,
         \A s \in Tasks : req[s].op = "grant" =>
                            req'[s] = req[s] /\ loaded'[s] = loaded[s]
  PROVE  GrantsAreMeant'
  <1> SUFFICES ASSUME NEW g \in grants'
               PROVE  /\ row' # Absent /\ row'.id = g[1]
                      /\ g[1] # 1 => \E s \in Tasks :
                           /\ req'[s].op = "grant" /\ req'[s].to = g[2]
                           /\ loaded'[s] # Absent /\ loaded'[s].id = g[1]
    BY DEF GrantsAreMeant
  <1>1. g \in grants /\ row' # Absent /\ row'.id = g[1]
    BY DEF GrantsAreMeant
  <1>2. ASSUME g[1] # 1
        PROVE  \E s \in Tasks : /\ req'[s].op = "grant" /\ req'[s].to = g[2]
                                /\ loaded'[s] # Absent /\ loaded'[s].id = g[1]
    <2>1. PICK s \in Tasks : /\ req[s].op = "grant" /\ req[s].to = g[2]
                             /\ loaded[s] # Absent /\ loaded[s].id = g[1]
      BY <1>1, <1>2 DEF GrantsAreMeant
    <2>2. req'[s] = req[s] /\ loaded'[s] = loaded[s]
      BY <2>1
    <2>3. QED
      BY <2>1, <2>2
  <1>3. QED
    BY <1>1, <1>2

------------------------------------------------------------------------------
(* The steps *)

\* Steps that commit nothing: the row, the grants and the ids are as they were.
LEMMA QuietSteps ==
  ASSUME IInv, NEW t \in Tasks,
         (\E q \in Requests : Select(t, q)) \/ Reload(t) \/ Fail(t) \/ Refresh(t)
  PROVE  IInv'
  <1>0. TypeOK /\ GrantsAreMeant /\ \A s \in Tasks : PartsOf(s)
    BY DEF IInv, PartsOf
  <1>1. UNCHANGED <<row, grants, nextId, touched>>
    BY DEF Select, Reload, Fail, Refresh
  <1>2. \A s \in Tasks \ {t} : Same(s)
    BY <1>0 DEF Same, TypeOK, Select, Reload, Fail, Refresh, Answer, Goto
  <1>3. \A s \in Tasks \ {t} : PartsOf(s)'
    BY <1>0, <1>1, <1>2, QuietForOthers
  <1>4. TypeOK' /\ PartsOf(t)'
    <2>1. CASE \E q \in Requests : Select(t, q)
      <3>1. PICK q \in Requests : Select(t, q)
        BY <2>1
      <3>2. TypeOK'
        BY <1>0, <1>1, <3>1 DEF TypeOK, Select, Answer, Goto
      <3>3. req'[t] = q /\ loaded'[t] = row /\ q # NoRequest /\ req[t] = NoRequest
        BY <1>0, <3>1, RequestTypes DEF TypeOK, Select, PartsOf, RequestInv
      <3>4. \/ pc'[t] = "done" /\ status'[t] \in {"not found", "bad request"}
            \/ row # Absent /\ pc'[t] = "write" /\ status'[t] = status[t]
        BY <1>0, <3>1 DEF TypeOK, Select, Answer, Goto
      <3>5. pc[t] = "new" /\ status[t] # "ok"
        BY <1>0, <3>1 DEF Select, PartsOf, RequestInv
      <3>6. RequestInv(t)'
        BY <1>0, <1>1, <3>3, <3>4, <3>5 DEF RequestInv, TypeOK
      <3>7. LoadedInv(t)' /\ CommittedInv(t)'
        BY <1>1, <3>3, <3>4, <3>5 DEF LoadedInv, CommittedInv, There
      <3>8. QED
        BY <3>2, <3>6, <3>7 DEF PartsOf
    <2>2. CASE Reload(t) \/ Fail(t) \/ Refresh(t)
      <3>1. TypeOK'
        BY <1>0, <1>1, <2>2 DEF TypeOK, Reload, Fail, Refresh, Answer, Goto
      <3>2. req'[t] = req[t] /\ loaded'[t] = loaded[t] /\ pc[t] # "new"
        BY <2>2 DEF Reload, Fail, Refresh
      <3>3. \/ pc'[t] = "done" /\ status'[t] = "error"
            \/ /\ pc[t] \in {"reload", "refresh"} /\ pc'[t] \in {"refresh", "done"}
               /\ status'[t] = "ok" => pc'[t] = "done"
        BY <1>0, <2>2 DEF TypeOK, Reload, Fail, Refresh, Answer, Goto, PartsOf,
                          RequestInv
      <3>4. RequestInv(t)' /\ LoadedInv(t)'
        BY <1>0, <1>1, <3>2, <3>3 DEF PartsOf, RequestInv, LoadedInv
      <3>5. CommittedInv(t)'
        BY <1>0, <1>1, <3>2, <3>3 DEF PartsOf, CommittedInv, Holds, Granted
      <3>6. QED
        BY <3>1, <3>4, <3>5 DEF PartsOf
    <2>3. QED
      BY <2>1, <2>2
  <1>5. GrantsAreMeant'
    <2>1. \A s \in Tasks : req[s].op = "grant" =>
                             req'[s] = req[s] /\ loaded'[s] = loaded[s]
      <3>1. req[t].op = "grant" => req'[t] = req[t] /\ loaded'[t] = loaded[t]
        <4>1. pc[t] = "new" => req[t].op # "grant"
          BY <1>0 DEF PartsOf, RequestInv, NoRequest
        <4>2. pc[t] # "new" => req'[t] = req[t] /\ loaded'[t] = loaded[t]
          BY DEF Select, Reload, Fail, Refresh
        <4>3. QED
          BY <4>1, <4>2
      <3>2. QED
        BY <1>2, <3>1 DEF Same
    <2>2. grants' # {} => row' # Absent /\ row'.id = row.id
      BY <1>0, <1>1 DEF GrantsAreMeant
    <2>3. QED
      BY <1>0, <1>1, <2>1, <2>2, GrantsKept
  <1>6. QED
    BY <1>3, <1>4, <1>5 DEF IInv, PartsOf

LEMMA UpsertStep ==
  ASSUME IInv, NEW t \in Tasks, NEW q \in Requests, Upsert(t, q)
  PROVE  IInv'
  <1>0. TypeOK /\ GrantsAreMeant /\ \A s \in Tasks : PartsOf(s)
    BY DEF IInv, PartsOf
  <1>1. /\ req' = [req EXCEPT ![t] = q] /\ loaded' = loaded /\ grants' = grants
        /\ pc' = [pc EXCEPT ![t] = "refresh"] /\ status' = status
        /\ pc[t] = "new" /\ nextId' = nextId + 1 /\ q.op = "upsert"
        /\ touched'[t] = touched[t] /\ Committed(t, q, "refresh")
    BY DEF Upsert, Committed, Goto
  <1>2. /\ row' \in Rows /\ row'.val = q.set
        /\ row # Absent => row'.id = row.id
        /\ row = Absent => row'.id = nextId
        /\ nextId \in Nat
    <2>1. q.set \in [Fields -> Values] /\ nextId \in Nat
      BY <1>0, <1>1, RequestTypes DEF TypeOK
    <2>2. CASE row = Absent
      <3>1. row' = [id |-> nextId, version |-> 1, val |-> q.set]
        BY <2>2 DEF Upsert
      <3>2. QED
        BY <2>1, <2>2, <3>1 DEF Rows
    <2>3. CASE row # Absent
      <3>1. row' = [id |-> row.id, version |-> row.version + 1, val |-> q.set]
        BY <2>3 DEF Upsert
      <3>2. row.id \in Nat /\ row.version + 1 \in Nat \ {0}
        <4>1. row \in Rows
          BY <1>0, <2>3 DEF TypeOK
        <4>2. QED
          BY <4>1 DEF Rows
      <3>3. QED
        BY <2>1, <2>3, <3>1, <3>2 DEF Rows
    <2>4. QED
      BY <2>2, <2>3
  <1>3. OnlyMeant(Meant(q))
    BY <1>0, <1>1, <1>2 DEF OnlyMeant, Meant, GrantsAreMeant, Granted
  <1>4. \A s \in Tasks \ {t} : PartsOf(s)'
    BY <1>0, <1>1, <1>3, TheOthers DEF TypeOK
  <1>5. TypeOK'
    <2>1. touched' \in [Tasks -> SUBSET Everything]
      BY <1>0, RequestTypes DEF TypeOK, Upsert, Committed
    <2>2. row'.id < nextId'
      <3>1. row # Absent => row.id \in Nat /\ row.id < nextId
        BY <1>0 DEF TypeOK, Rows
      <3>2. QED
        BY <1>1, <1>2, <3>1
    <2>3. grants' \subseteq Nat \X Grantees /\ loaded' \in [Tasks -> Rows \union {Absent}]
      BY <1>0, <1>1 DEF TypeOK
    <2>4. req' \in [Tasks -> Requests \union {NoRequest}]
      BY <1>0, <1>1 DEF TypeOK
    <2>5. /\ pc' \in [Tasks -> {"new", "write", "reload", "refresh", "done"}]
          /\ status' \in
               [Tasks -> {"none", "ok", "not found", "bad request", "error"}]
      BY <1>0, <1>1 DEF TypeOK
    <2>6. nextId' \in Nat /\ row' \in Rows \union {Absent}
      BY <1>1, <1>2
    <2>7. QED
      BY <2>1, <2>2, <2>3, <2>4, <2>5, <2>6 DEF TypeOK
  <1>6. PartsOf(t)'
    <2>1. req'[t] = q /\ q # NoRequest /\ pc'[t] = "refresh" /\ status[t] # "ok"
      BY <1>0, <1>1, RequestTypes DEF TypeOK, PartsOf, RequestInv
    <2>2. RequestInv(t)'
      <3>1. loaded[t] # Absent => loaded[t].id \in Nat /\ loaded[t].id < nextId
        BY <1>0 DEF PartsOf, RequestInv, TypeOK, Rows
      <3>2. loaded'[t] # Absent => loaded'[t].id < nextId'
        BY <1>1, <1>2, <3>1
      <3>3. QED
        BY <1>1, <2>1, <3>2 DEF RequestInv
    <2>3. LoadedInv(t)' /\ CommittedInv(t)'
      BY <1>1, <1>2, <2>1 DEF LoadedInv, CommittedInv, Holds
    <2>4. QED
      BY <2>2, <2>3 DEF PartsOf
  <1>7. GrantsAreMeant'
    <2>1. req[t].op # "grant"
      BY <1>0, <1>1 DEF PartsOf, RequestInv, NoRequest
    <2>2. \A s \in Tasks : req[s].op = "grant" =>
                             req'[s] = req[s] /\ loaded'[s] = loaded[s]
      BY <1>0, <1>1, <2>1 DEF TypeOK
    <2>3. grants' # {} => row' # Absent /\ row'.id = row.id
      BY <1>0, <1>1, <1>2 DEF GrantsAreMeant
    <2>4. QED
      BY <1>0, <1>1, <2>2, <2>3, GrantsKept
  <1>8. QED
    BY <1>4, <1>5, <1>6, <1>7 DEF IInv, PartsOf

\* The commit of a request that has loaded the row.
LEMMA CommitSteps ==
  ASSUME IInv, NEW t \in Tasks, Write(t) \/ Delete(t) \/ Grant(t) \/ Revoke(t)
  PROVE  IInv'
  <1>0. TypeOK /\ GrantsAreMeant /\ \A s \in Tasks : PartsOf(s)
    BY DEF IInv, PartsOf
  <1>1. PICK next \in {"reload", "refresh"} : Committed(t, req[t], next)
    BY DEF Write, Delete, Grant, Revoke
  <1>2. /\ req' = req /\ loaded' = loaded /\ nextId' = nextId /\ pc[t] = "write"
        /\ pc' = [pc EXCEPT ![t] = next] /\ status' = status
        /\ touched'[t] = touched[t]
    BY <1>1 DEF Write, Delete, Grant, Revoke, Committed, Goto
  <1>3. /\ req[t] \in Requests /\ req[t] # NoRequest /\ loaded[t] \in Rows
        /\ status[t] # "ok" /\ pc'[t] = next
    BY <1>0, <1>2 DEF TypeOK, PartsOf, RequestInv
  <1>4. /\ Holds(t)' /\ OnlyMeant(Meant(req[t])) /\ GrantsAreMeant'
        /\ row' \in Rows \union {Absent} /\ (row' # Absent => row'.id < nextId)
        /\ grants' \subseteq Nat \X Grantees
    <2>1. CASE Write(t)
      <3>1. /\ row # Absent /\ row.id = loaded[t].id /\ row' = Updated(t)
            /\ grants' = grants /\ req[t].op \in {"patch", "disable"}
        BY <2>1 DEF Write, There
      <3>2. /\ row' \in Rows /\ row'.id = row.id
            /\ \A f \in Fields :
                 row'.val[f] =
                   IF f \in DOMAIN req[t].set /\ req[t].set[f] # loaded[t].val[f]
                     THEN req[t].set[f] ELSE row.val[f]
        BY <1>0, <1>3, <3>1, UpdatedRow
      <3>3. \A f \in Fields \ touched[t] : row.val[f] = loaded[t].val[f]
        BY <1>0, <1>2, <3>1 DEF PartsOf, LoadedInv, There
      <3>4. Holds(t)'
        BY <1>2, <1>3, <3>1, <3>2, <3>3, RequestTypes DEF Holds
      <3>5. Meant(req[t]) = DOMAIN req[t].set
        BY <3>1 DEF Meant
      <3>6. OnlyMeant(Meant(req[t]))
        BY <1>2, <3>1, <3>2, <3>5 DEF OnlyMeant, Granted
      <3>7. GrantsAreMeant'
        BY <1>0, <1>2, <3>1, <3>2, GrantsKept
      <3>8. QED
        BY <1>0, <3>1, <3>2, <3>4, <3>6, <3>7 DEF TypeOK
    <2>2. CASE Delete(t)
      <3>1. /\ row' = IF There(t) THEN Absent ELSE row
            /\ grants' = grants \ Grants(loaded[t].id)
            /\ req[t].op = "delete" /\ req[t].set = Nothing
        BY <1>3, <2>2 DEF Delete, Requests
      <3>2. Holds(t)'
        BY <1>0, <1>2, <3>1 DEF Holds, PartsOf, LoadedInv, Nothing
      <3>3. OnlyMeant(Meant(req[t]))
        BY <1>2, <3>1 DEF OnlyMeant, Meant, Everything
      <3>4. GrantsAreMeant'
        <4>1. grants' \subseteq grants
          BY <3>1
        <4>2. There(t) => grants' = {}
          BY <1>0, <3>1 DEF GrantsAreMeant, There, Grants
        <4>3. grants' # {} => row' # Absent /\ row'.id = row.id
          BY <1>0, <3>1, <4>1, <4>2 DEF GrantsAreMeant
        <4>4. QED
          BY <1>0, <1>2, <4>1, <4>3, GrantsKept
      <3>5. QED
        BY <1>0, <3>1, <3>2, <3>3, <3>4 DEF TypeOK
    <2>3. CASE Grant(t)
      <3>1. /\ row # Absent /\ row.id = loaded[t].id /\ row' = row
            /\ grants' = grants \union {<<loaded[t].id, req[t].to>>}
            /\ req[t].op = "grant" /\ req[t].set = Nothing
            /\ req[t].to \in Grantees
        BY <1>3, <2>3 DEF Grant, There, Requests
      <3>2. Holds(t)'
        BY <1>2, <3>1 DEF Holds, Granted, Nothing
      <3>3. OnlyMeant(Meant(req[t]))
        BY <1>2, <3>1 DEF OnlyMeant, Meant
      <3>4. GrantsAreMeant'
        BY <1>0, <1>2, <1>3, <3>1 DEF GrantsAreMeant
      <3>5. grants' \subseteq Nat \X Grantees
        <4>1. loaded[t].id \in Nat
          BY <1>3 DEF Rows
        <4>2. <<loaded[t].id, req[t].to>> \in Nat \X Grantees
          BY <3>1, <4>1
        <4>3. grants \subseteq Nat \X Grantees
          BY <1>0 DEF TypeOK
        <4>4. QED
          BY <3>1, <4>2, <4>3
      <3>6. QED
        BY <1>0, <3>1, <3>2, <3>3, <3>4, <3>5 DEF TypeOK
    <2>4. CASE Revoke(t)
      <3>1. /\ row' = row /\ grants' = grants \ {<<loaded[t].id, req[t].to>>}
            /\ req[t].op = "revoke" /\ req[t].set = Nothing
        BY <1>3, <2>4 DEF Revoke, Requests
      <3>2. Holds(t)'
        BY <1>0, <1>2, <3>1 DEF Holds, Granted, PartsOf, LoadedInv, There,
                                Nothing
      <3>3. OnlyMeant(Meant(req[t]))
        BY <1>2, <3>1 DEF OnlyMeant, Meant
      <3>4. GrantsAreMeant'
        BY <1>0, <1>2, <3>1, GrantsKept DEF GrantsAreMeant
      <3>5. QED
        BY <1>0, <3>1, <3>2, <3>3, <3>4 DEF TypeOK
    <2>5. QED
      BY <2>1, <2>2, <2>3, <2>4
  <1>5. \A s \in Tasks \ {t} : PartsOf(s)'
    BY <1>1, <1>2, <1>3, <1>4, TheOthers
  <1>6. TypeOK'
    <2>1. touched' \in [Tasks -> SUBSET Everything]
      BY <1>0, <1>1, <1>3, RequestTypes DEF TypeOK, Committed
    <2>2. QED
      BY <1>0, <1>2, <1>4, <2>1 DEF TypeOK
  <1>7. PartsOf(t)'
    BY <1>0, <1>2, <1>3, <1>4
       DEF PartsOf, RequestInv, LoadedInv, CommittedInv
  <1>8. QED
    BY <1>4, <1>5, <1>6, <1>7 DEF IInv, PartsOf

------------------------------------------------------------------------------
(* Theorems *)

\* The inductive invariant holds in every reachable state.
THEOREM Invariance == Spec => []IInv
  <1>1. IInv /\ [Next]_vars => IInv'
    <2> SUFFICES ASSUME IInv, [Next]_vars PROVE IInv'
      OBVIOUS
    <2>1. CASE UNCHANGED vars
      <3>1. TypeOK' /\ GrantsAreMeant'
        BY <2>1 DEF vars, IInv, TypeOK, GrantsAreMeant
      <3>2. ASSUME NEW t \in Tasks
            PROVE  PartsOf(t)'
        BY <2>1, QuietForOthers DEF vars, IInv, PartsOf, Same
      <3>3. QED
        BY <3>1, <3>2 DEF IInv, PartsOf
    <2>2. ASSUME NEW t \in Tasks, NEW q \in Requests, Upsert(t, q)
          PROVE  IInv'
      BY <2>2, UpsertStep
    <2>3. ASSUME NEW t \in Tasks,
                 \/ \E q \in Requests : Select(t, q)
                 \/ Reload(t) \/ Fail(t) \/ Refresh(t)
          PROVE  IInv'
      BY <2>3, QuietSteps
    <2>4. ASSUME NEW t \in Tasks, Write(t) \/ Delete(t) \/ Grant(t) \/ Revoke(t)
          PROVE  IInv'
      BY <2>4, CommitSteps
    <2>5. QED
      BY <2>1, <2>2, <2>3, <2>4 DEF Next
  <1>2. QED
    BY InitIInv, <1>1, PTL DEF Spec

\* Rows, requests and answers are of their types, and the id of the row has been
\* drawn from the sequence.
THEOREM TypeCorrectness == Spec => []TypeOK
  <1>1. IInv => TypeOK
    BY DEF IInv
  <1>2. QED
    BY <1>1, Invariance, PTL

\* An acknowledged edit, grant, revocation or deletion holds in every part that
\* no request committed since was meant to change: the columns of the UPDATE
\* are those that differ, and DELETE and the grants go by the id loaded.
THEOREM Acknowledged == Spec => []AcknowledgedHolds
  <1>1. IInv => AcknowledgedHolds
    BY DEF IInv, CommittedInv, AcknowledgedHolds
  <1>2. QED
    BY <1>1, Invariance, PTL

\* No grant outlives its tool, and none is had on a tool made anew but by a
\* request that has found this very tool.
THEOREM GrantsMeant == Spec => []GrantsAreMeant
  <1>1. IInv => GrantsAreMeant
    BY DEF IInv
  <1>2. QED
    BY <1>1, Invariance, PTL

------------------------------------------------------------------------------
(* A page of the log *)

\* A finite set on which a relation is an order has an element nothing is below.
LEMMA Minimal ==
  ASSUME NEW S, IsFiniteSet(S), S # {}, NEW R,
         \A p \in S : <<p, p>> \notin R,
         \A p, q, r \in S : <<p, q>> \in R /\ <<q, r>> \in R => <<p, r>> \in R
  PROVE  \E r \in S : \A q \in S : <<q, r>> \notin R
  <1> DEFINE Below(r) == {q \in S : <<q, r>> \in R}
             T == {Below(r) : r \in S}
  <1>1. T \subseteq FiniteSubsetsOf(S) /\ T # {}
    <2>1. FiniteSubsetsOf(S) = SUBSET S
      BY FS_FiniteSubsetsOfFinite
    <2>2. \A r \in S : Below(r) \in SUBSET S /\ Below(r) \in T
      OBVIOUS
    <2>3. ASSUME NEW x \in T
          PROVE  x \in SUBSET S
      <3>1. PICK r \in S : x = Below(r)
        OBVIOUS
      <3>2. QED
        BY <2>2, <3>1
    <2>4. QED
      <3> HIDE DEF T
      <3> QED
        BY <2>1, <2>2, <2>3
  <1>2. IsWellFoundedOn(StrictSubsetOrdering(S), FiniteSubsetsOf(S))
    BY FS_StrictSubsetOrderingWellFounded
  <1>3. PICK x \in T : \A y \in T : <<y, x>> \notin StrictSubsetOrdering(S)
    <2> HIDE DEF T
    <2> QED
      BY <1>1, <1>2, WFMin
  <1>4. PICK r \in S : x = Below(r)
    OBVIOUS
  <1>5. SUFFICES ASSUME NEW q \in S, <<q, r>> \in R PROVE FALSE
    OBVIOUS
  <1>6. Below(q) \subseteq Below(r) /\ q \in Below(r) /\ q \notin Below(q)
    BY <1>5
  <1>7. <<Below(q), Below(r)>> \in StrictSubsetOrdering(S)
    BY <1>6 DEF StrictSubsetOrdering
  <1>8. Below(q) \in T
    OBVIOUS
  <1>9. QED
    BY <1>3, <1>4, <1>7, <1>8

\* LogRows have ids of their own, so that date and id order them.
Ordered(S) ==
  /\ S \subseteq LogRows /\ IsFiniteSet(S)
  /\ \A r, q \in S : r.id = q.id => r = q

LEMMA TotalOrder ==
  ASSUME NEW S, Ordered(S), NEW r \in S, NEW q \in S
  PROVE  /\ r = q \/ Before(r, q) \/ Before(q, r)
         /\ ~(Before(r, q) /\ Before(q, r)) /\ ~Before(r, r)
  BY DEF Ordered, Before, LogRows

LEMMA Transitive ==
  ASSUME NEW p \in Cursors \union LogRows, NEW q \in Cursors \union LogRows,
         NEW r \in Cursors \union LogRows, Before(p, q), Before(q, r)
  PROVE  Before(p, r)
  <1>1. /\ p.at \in Nat /\ p.id \in Nat /\ q.at \in Nat /\ q.id \in Nat
        /\ r.at \in Nat /\ r.id \in Nat
    BY DEF Cursors, LogRows
  <1>2. QED
    BY <1>1 DEF Before

LEMMA Lowest ==
  ASSUME NEW S, Ordered(S), S # {}
  PROVE  \E r \in S : \A q \in S : r = q \/ Before(r, q)
  <1> DEFINE R == {p \in S \X S : Before(p[1], p[2])}
  <1>1. \A p \in S : <<p, p>> \notin R
    BY TotalOrder
  <1>2. \A p, q, r \in S : <<p, q>> \in R /\ <<q, r>> \in R => <<p, r>> \in R
    BY Transitive DEF Ordered
  <1>3. PICK r \in S : \A q \in S : <<q, r>> \notin R
    <2> HIDE DEF R
    <2> QED
      BY <1>1, <1>2, Minimal DEF Ordered
  <1>4. QED
    BY <1>3, TotalOrder

LEMMA Highest ==
  ASSUME NEW S, Ordered(S), S # {}
  PROVE  \E r \in S : \A q \in S : ~Before(r, q)
  <1> DEFINE R == {p \in S \X S : Before(p[2], p[1])}
  <1>1. \A p \in S : <<p, p>> \notin R
    BY TotalOrder
  <1>2. \A p, q, r \in S : <<p, q>> \in R /\ <<q, r>> \in R => <<p, r>> \in R
    BY Transitive DEF Ordered
  <1>3. PICK r \in S : \A q \in S : <<q, r>> \notin R
    <2> HIDE DEF R
    <2> QED
      BY <1>1, <1>2, Minimal DEF Ordered
  <1>4. QED
    BY <1>3

LEMMA Part ==
  ASSUME NEW S, Ordered(S), NEW T, T \subseteq S
  PROVE  Ordered(T)
  BY FS_Subset DEF Ordered

\* LIMIT n: from the newest on, n rows or all there are.
LEMMA FirstFacts ==
  ASSUME NEW S, Ordered(S), NEW n \in Nat
  PROVE  /\ First(n, S) \subseteq S
         /\ \A r \in First(n, S), q \in S : Before(r, q) => q \in First(n, S)
         /\ n > 0 /\ S # {} => First(n, S) # {}
         /\ Cardinality(First(n, S)) < n => First(n, S) = S
         /\ Cardinality(S) <= n => First(n, S) = S
         /\ Cardinality(S) > n => First(n, S) # S
  <1> DEFINE Above(r) == {q \in S : Before(r, q)}
             F == First(n, S)
  <1>1. \A r \in S : r \in F <=> Cardinality(Above(r)) < n
    BY DEF First
  <1>2. F \subseteq S
    BY DEF First
  <1>3. ASSUME NEW T, T \subseteq S
        PROVE  IsFiniteSet(T) /\ Cardinality(T) \in Nat
    BY <1>3, FS_Subset, FS_CardinalityType DEF Ordered
  <1>4. ASSUME NEW T, T \subseteq S, NEW U, U \subseteq T
        PROVE  Cardinality(U) <= Cardinality(T)
    BY <1>3, <1>4, FS_Subset
  <1> HIDE DEF F
  <1>5. ASSUME NEW r \in F, NEW q \in S, Before(r, q)
        PROVE  q \in F
    <2>1. Above(q) \subseteq Above(r)
      BY <1>2, <1>5, Transitive DEF Ordered
    <2>2. Cardinality(Above(q)) <= Cardinality(Above(r))
      BY <1>4, <2>1
    <2>3. Cardinality(Above(q)) \in Nat /\ Cardinality(Above(r)) \in Nat
      BY <1>3
    <2>4. QED
      BY <1>1, <1>2, <1>5, <2>2, <2>3
  <1>6. ASSUME n > 0, S # {}
        PROVE  F # {}
    <2>1. PICK r \in S : \A q \in S : ~Before(r, q)
      BY <1>6, Highest
    <2>2. Above(r) = {}
      BY <2>1
    <2>3. QED
      BY <1>1, <1>6, <2>2, FS_EmptySet
  <1>7. ASSUME Cardinality(F) < n, F # S
        PROVE  FALSE
    <2>1. Ordered(S \ F) /\ S \ F # {}
      BY <1>2, <1>7, Part
    <2>2. PICK r \in S \ F : \A q \in S \ F : ~Before(r, q)
      BY <2>1, Highest
    <2>3. Above(r) \subseteq F
      BY <2>2
    <2>4. Cardinality(Above(r)) <= Cardinality(F)
      BY <1>2, <1>4, <2>3
    <2>5. Cardinality(Above(r)) \in Nat /\ Cardinality(F) \in Nat
      BY <1>2, <1>3
    <2>6. QED
      BY <1>1, <1>7, <2>2, <2>4, <2>5
  <1>8. ASSUME NEW r \in S
        PROVE  /\ Cardinality(S \ {r}) = Cardinality(S) - 1
               /\ Cardinality(Above(r)) <= Cardinality(S) - 1
    <2>1. Cardinality(S \ {r}) = Cardinality(S) - 1
      BY FS_RemoveElement DEF Ordered
    <2>2. Above(r) \subseteq S \ {r}
      BY TotalOrder
    <2>3. QED
      BY <1>4, <2>1, <2>2
  <1>9. ASSUME Cardinality(S) <= n
        PROVE  F = S
    <2>1. ASSUME NEW r \in S
          PROVE  r \in F
      <3>1. Cardinality(Above(r)) <= Cardinality(S) - 1
        BY <1>8
      <3>2. Cardinality(Above(r)) \in Nat /\ Cardinality(S) \in Nat
        BY <1>3
      <3>3. QED
        BY <1>1, <1>9, <3>1, <3>2
    <2>2. QED
      BY <1>2, <2>1
  <1>10. ASSUME Cardinality(S) > n
         PROVE  F # S
    <2>1. Cardinality(S) \in Nat
      BY <1>3
    <2>2. S # {}
      BY <1>10, <2>1, FS_EmptySet
    <2>3. PICK r \in S : \A q \in S : r = q \/ Before(r, q)
      BY <2>2, Lowest
    <2>4. Above(r) = S \ {r}
      BY <2>3, TotalOrder
    <2>5. Cardinality(Above(r)) = Cardinality(S) - 1
      BY <1>8, <2>4
    <2>6. r \notin F
      BY <1>1, <1>10, <2>1, <2>5
    <2>7. QED
      BY <2>6
  <1>11. QED
    BY <1>2, <1>5, <1>6, <1>7, <1>9, <1>10 DEF F

\* The log, as far as a query sees it.
LEMMA LogIsOrdered ==
  ASSUME PagingTypeOK, LogInv, NEW f, NEW c
  PROVE  Ordered(Selected(f, c)) /\ Selected(f, c) \subseteq rows
  <1>1. Ordered(rows)
    BY DEF PagingTypeOK, LogInv, Ordered
  <1>2. Selected(f, c) \subseteq rows
    BY DEF Selected
  <1>3. QED
    BY <1>1, <1>2, Part

\* An answer has rows if there are any; without a cursor it has them all; and
\* with one it has those from the cursor up, and there are more below it.
LEMMA PageFacts ==
  ASSUME PagingTypeOK, LogInv, NEW f, NEW c, NEW limit \in 1..MaxLimit
  PROVE  LET S == Selected(f, c)
             I == Items(f, c, limit)
             n == NextCursor(f, c, limit)
         IN  /\ I \subseteq S /\ (S # {} => I # {})
             /\ n = Any => I = S
             /\ n # Any =>
                  /\ n \in Cursors /\ S \ I # {}
                  /\ \E l \in I : n = [at |-> l.at, id |-> l.id]
                  /\ \A r \in I : ~Before(r, n)
                  /\ \A r \in S \ I : Before(r, n)
  <1> DEFINE S == Selected(f, c)
             F == Fetched(f, c, limit)
             I == Items(f, c, limit)
             n == NextCursor(f, c, limit)
  <1>0. Ordered(S)
    BY LogIsOrdered
  <1>1. F = First(limit + 1, S) /\ I = First(limit, F)
    BY DEF Fetched, Items
  <1>2. n = IF Cardinality(F) > limit
              THEN [at |-> Last(I).at, id |-> Last(I).id] ELSE Any
    BY DEF NextCursor
  <1>3. limit \in Nat /\ limit + 1 \in Nat /\ limit > 0 /\ limit + 1 > 0
    OBVIOUS
  <1> HIDE DEF S, F, I, n
  <1>4. /\ F \subseteq S /\ (S # {} => F # {})
        /\ \A r \in F, q \in S : Before(r, q) => q \in F
        /\ Cardinality(F) < limit + 1 => F = S
    BY <1>0, <1>1, <1>3, FirstFacts
  <1>5. Ordered(F) /\ Cardinality(F) \in Nat
    BY <1>0, <1>4, Part, FS_CardinalityType DEF Ordered
  <1>6. /\ I \subseteq F /\ (F # {} => I # {})
        /\ \A r \in I, q \in F : Before(r, q) => q \in I
        /\ Cardinality(F) <= limit => I = F
        /\ Cardinality(F) > limit => I # F
    BY <1>1, <1>3, <1>5, FirstFacts
  <1>7. ASSUME Cardinality(F) > limit
        PROVE  /\ n \in Cursors /\ S \ I # {}
               /\ \E l \in I : n = [at |-> l.at, id |-> l.id]
               /\ \A r \in I : ~Before(r, n)
               /\ \A r \in S \ I : Before(r, n)
    <2> DEFINE l == Last(I)
    <2>1. F # {}
      <3>1. Cardinality({}) = 0
        BY FS_EmptySet
      <3>2. QED
        BY <1>3, <1>5, <1>7, <3>1
    <2>2. Ordered(I) /\ I # {} /\ I \subseteq S
      BY <1>4, <1>5, <1>6, <2>1, Part
    <2>3. \E r \in I : \A q \in I : r = q \/ Before(r, q)
      BY <2>2, Lowest
    <2>4. l \in I /\ \A q \in I : l = q \/ Before(l, q)
      BY <2>3 DEF Last
    <2> HIDE DEF l
    <2>5. n = [at |-> l.at, id |-> l.id]
      BY <1>2, <1>7 DEF l
    <2>6. n \in Cursors /\ \A r : Before(r, n) <=> Before(r, l)
      <3>1. l \in LogRows
        BY <2>2, <2>4 DEF Ordered
      <3>2. QED
        BY <2>5, <3>1 DEF Cursors, LogRows, Before
    <2>7. \A r \in I : ~Before(r, n)
      BY <2>2, <2>4, <2>6, TotalOrder
    <2>8. ASSUME NEW r \in S \ I
          PROVE  Before(r, n)
      <3>1. l \in F /\ l \in S /\ r # l
        BY <1>4, <1>6, <2>4
      <3>2. ~Before(l, r)
        BY <1>4, <1>6, <2>4, <3>1
      <3>3. QED
        BY <1>0, <2>6, <3>1, <3>2, TotalOrder
    <2>9. S \ I # {}
      BY <1>4, <1>6, <1>7
    <2>10. QED
      BY <2>4, <2>5, <2>6, <2>7, <2>8, <2>9
  <1>8. n = Any <=> ~(Cardinality(F) > limit)
    BY <1>2, <1>7
  <1>9. n = Any => I = S
    BY <1>3, <1>4, <1>5, <1>6, <1>8
  <1>10. I \subseteq S /\ (S # {} => I # {})
    BY <1>4, <1>6
  <1>11. QED
    BY <1>7, <1>8, <1>9, <1>10 DEF S, I, n

------------------------------------------------------------------------------
(* The steps *)

\* The initial state satisfies the invariant.
LEMMA PagingInitInv == PagingInit => PagingInv
  BY FS_EmptySet
     DEF PagingInit, PagingInv, PagingTypeOK, LogInv, CursorInv, PagesDescend,
         NoEmptyPage,
         OwedIsAhead, Filters, Times

\* The log goes on: rows are added, those below the cursor are owed, and the walk
\* is where it was.
LEMMA LogSteps ==
  ASSUME PagingInv, UNCHANGED <<walk, filter, cursor, page, seen>>,
         \A r \in owed' \ owed : IsAhead(r),
         PagingTypeOK', LogInv', rows \subseteq rows'
  PROVE  PagingInv'
  <1>1. Selected(filter, cursor) \subseteq Selected(filter, cursor)'
    BY DEF Selected
  <1>2. CursorInv'
    BY <1>1 DEF PagingInv, CursorInv
  <1>3. PagesDescend' /\ NoEmptyPage'
    BY DEF PagingInv, PagesDescend, NoEmptyPage
  <1>4. OwedIsAhead'
    BY DEF PagingInv, OwedIsAhead, IsAhead
  <1>5. QED
    BY <1>2, <1>3, <1>4 DEF PagingInv

LEMMA BeginStep ==
  ASSUME PagingInv, NEW kind \in Kinds, Begin(kind)
  PROVE  PagingInv'
  <1> DEFINE w == [write |-> writes', at |-> now, kind |-> kind]
  <1>0. PagingTypeOK /\ LogInv
    BY DEF PagingInv
  <1>1. /\ writes' = writes + 1 /\ writes < MaxWrites
        /\ dated' = dated \union {w} /\ UNCHANGED walkVars
        /\ UNCHANGED <<now, inserted, rows, lastId>>
    BY DEF Begin
  <1>2. writes \in Nat /\ now \in Nat /\ lastId \in Nat /\ lastId <= writes
    BY <1>0 DEF PagingTypeOK, Times
  <1>3. w \notin dated
    BY <1>0, <1>1, <1>2 DEF PagingTypeOK
  <1>4. LogInv'
    <2>1. IsFiniteSet(dated') /\ Cardinality(dated') = Cardinality(dated) + 1
      BY <1>0, <1>1, <1>3, FS_AddElement DEF LogInv
    <2>2. Cardinality(dated) \in Nat
      BY <1>0, FS_CardinalityType DEF LogInv
    <2>3. QED
      BY <1>0, <1>1, <1>2, <2>1, <2>2 DEF LogInv
  <1>5. PagingTypeOK'
    <2>1. dated' \subseteq [write : 1..writes', at : 0..now', kind : Kinds]
      <3>1. w \in [write : 1..writes', at : 0..now', kind : Kinds]
        BY <1>1, <1>2
      <3>2. dated \subseteq [write : 1..writes', at : 0..now', kind : Kinds]
        BY <1>0, <1>1, <1>2 DEF PagingTypeOK
      <3>3. QED
        BY <1>1, <3>1, <3>2
    <2>2. writes' \in 0..MaxWrites /\ lastId' \in 0..writes'
      BY <1>0, <1>1, <1>2 DEF PagingTypeOK
    <2>3. QED
      BY <1>0, <1>1, <2>1, <2>2 DEF PagingTypeOK, walkVars
  <1>6. QED
    BY <1>1, <1>4, <1>5, LogSteps DEF walkVars

LEMMA InsertStep ==
  ASSUME PagingInv, NEW w \in dated, Insert(w)
  PROVE  PagingInv'
  <1> DEFINE r == [id |-> lastId + 1, at |-> w.at, kind |-> w.kind]
  <1>0. PagingTypeOK /\ LogInv
    BY DEF PagingInv
  <1>1. /\ dated' = dated \ {w} /\ lastId' = lastId + 1
        /\ inserted' = inserted \union {r}
        /\ UNCHANGED <<now, writes, rows>> /\ UNCHANGED walkVars
    BY DEF Insert
  <1>2. writes \in Nat /\ now \in Nat /\ lastId \in Nat
    BY <1>0 DEF PagingTypeOK, Times
  <1>3. r \in LogRows /\ r.id = lastId + 1
    BY <1>0, <1>2 DEF PagingTypeOK, LogRows
  <1>4. IsFiniteSet(dated') /\ Cardinality(dated') = Cardinality(dated) - 1
    BY <1>0, <1>1, FS_RemoveElement DEF LogInv
  <1>5. Cardinality(dated) \in Nat /\ Cardinality(dated') \in Nat
    BY <1>0, <1>4, FS_CardinalityType DEF LogInv
  <1>6. lastId + Cardinality(dated) <= writes
    BY <1>0 DEF LogInv
  <1> HIDE DEF r
  <1>7. \A q \in rows \union inserted : q.id \in Nat /\ q.id <= lastId
    BY <1>0 DEF PagingTypeOK, LogInv, LogRows
  <1>8. LogInv'
    BY <1>0, <1>1, <1>2, <1>3, <1>4, <1>5, <1>6, <1>7 DEF LogInv
  <1>9. PagingTypeOK'
    <2>1. lastId' \in 0..writes'
      BY <1>1, <1>2, <1>4, <1>5, <1>6
    <2>2. \A p, q \in (rows \union inserted)' : p.id = q.id => p = q
      <3>1. \A q \in rows \union inserted : q.id # r.id
        BY <1>2, <1>3, <1>7
      <3>2. QED
        BY <1>0, <1>1, <3>1 DEF PagingTypeOK
    <2>3. dated' \subseteq [write : 1..writes', at : 0..now', kind : Kinds]
      BY <1>0, <1>1 DEF PagingTypeOK
    <2>4. QED
      BY <1>0, <1>1, <1>3, <2>1, <2>2, <2>3 DEF PagingTypeOK, walkVars
  <1>10. QED
    BY <1>1, <1>8, <1>9, LogSteps DEF walkVars

LEMMA OtherLogSteps ==
  ASSUME PagingInv, (\E r \in inserted : Commit(r) \/ Lose(r)) \/ Tick
  PROVE  PagingInv'
  <1>0. PagingTypeOK /\ LogInv
    BY DEF PagingInv
  <1>1. /\ UNCHANGED <<writes, dated, lastId>>
        /\ UNCHANGED <<walk, filter, cursor, page, seen>>
        /\ rows' \union inserted' \subseteq rows \union inserted
        /\ rows \subseteq rows'
    BY DEF Commit, Lose, Tick, walkVars
  <1>2. owed' \subseteq rows' /\ \A r \in owed' \ owed : IsAhead(r)
    BY <1>0 DEF Commit, Lose, Tick, walkVars, PagingTypeOK
  <1>3. IsFiniteSet(rows')
    <2>1. (\E r \in inserted : rows' = rows \union {r}) \/ rows' = rows
      BY DEF Commit, Lose, Tick
    <2>2. QED
      BY <1>0, <2>1, FS_AddElement DEF LogInv
  <1>4. LogInv'
    BY <1>0, <1>1, <1>3 DEF LogInv
  <1>5. now \in Nat /\ now' \in Times /\ now <= now'
    BY <1>0 DEF Commit, Lose, Tick, PagingTypeOK, Times
  <1>6. dated' \subseteq [write : 1..writes', at : 0..now', kind : Kinds]
    BY <1>0, <1>1, <1>5 DEF PagingTypeOK, Times
  <1>7. PagingTypeOK'
    BY <1>0, <1>1, <1>5, <1>6, <1>2 DEF PagingTypeOK
  <1>8. QED
    BY <1>1, <1>4, <1>7, <1>2, LogSteps

LEMMA FirstPageStep ==
  ASSUME PagingInv, NEW f \in Filters, FirstPage(f)
  PROVE  PagingInv'
  <1>0. PagingTypeOK /\ LogInv
    BY DEF PagingInv
  <1>1. PICK limit \in 1..MaxLimit :
          /\ page' = Items(f, Any, limit) /\ cursor' = NextCursor(f, Any, limit)
          /\ walk' = IF cursor' = Any THEN "over" ELSE "on"
    BY DEF FirstPage, AnswerPage
  <1>2. /\ filter' = f /\ seen' = {} /\ owed' = Selected(f, Any)
        /\ UNCHANGED <<now, writes, dated, inserted, rows, lastId>>
    BY DEF FirstPage, logVars, Selected
  <1> DEFINE S == Selected(f, Any)
  <1>3. /\ page' \subseteq S /\ (cursor' = Any => page' = S)
        /\ cursor' # Any =>
             /\ cursor' \in Cursors /\ S \ page' # {}
             /\ \A r \in page' : ~Before(r, cursor')
             /\ \A r \in S \ page' : Before(r, cursor')
    BY <1>0, <1>1, PageFacts
  <1>4. S \subseteq rows /\ \A r \in S : Matches(r, f)
    BY DEF Selected
  <1> HIDE DEF S
  <1>5. PagingTypeOK' /\ LogInv'
    BY <1>0, <1>1, <1>2, <1>3, <1>4 DEF PagingTypeOK, LogInv, S
  <1>6. CursorInv'
    <2> SUFFICES ASSUME walk' = "on" PROVE CursorInv'
      BY DEF CursorInv
    <2>1. cursor' # Any
      BY <1>1
    <2>2. S \ page' \subseteq Selected(filter, cursor)'
      BY <1>2, <1>3, <1>4, <2>1 DEF Selected
    <2>3. QED
      BY <1>2, <1>3, <2>1, <2>2 DEF CursorInv
  <1>7. PagesDescend' /\ NoEmptyPage'
    BY <1>2 DEF PagesDescend, NoEmptyPage
  <1>8. OwedIsAhead'
    BY <1>1, <1>2, <1>3, <1>4 DEF OwedIsAhead, IsAhead, S
  <1>9. QED
    BY <1>5, <1>6, <1>7, <1>8 DEF PagingInv

LEMMA NextPageStep ==
  ASSUME PagingInv, NextPage
  PROVE  PagingInv'
  <1>0. PagingTypeOK /\ LogInv
    BY DEF PagingInv
  <1>1. PICK limit \in 1..MaxLimit :
          /\ page' = Items(filter, cursor, limit)
          /\ cursor' = NextCursor(filter, cursor, limit)
          /\ walk' = IF cursor' = Any THEN "over" ELSE "on"
    BY DEF NextPage, AnswerPage
  <1>2. /\ walk = "on" /\ seen' = seen \union page
        /\ UNCHANGED <<now, writes, dated, inserted, rows, lastId, filter, owed>>
    BY DEF NextPage, logVars
  <1> DEFINE S == Selected(filter, cursor)
  <1>3. /\ page' \subseteq S /\ (S # {} => page' # {})
        /\ cursor' = Any => page' = S
        /\ cursor' # Any =>
             /\ cursor' \in Cursors /\ S \ page' # {}
             /\ \E l \in page' : cursor' = [at |-> l.at, id |-> l.id]
             /\ \A r \in page' : ~Before(r, cursor')
             /\ \A r \in S \ page' : Before(r, cursor')
    BY <1>0, <1>1, PageFacts
  <1>4. /\ cursor # Any /\ cursor \in Cursors /\ S # {}
        /\ \A r \in seen' : ~Before(r, cursor)
    BY <1>2 DEF PagingInv, CursorInv, PagingTypeOK
  <1>5. \A r : r \in S <=> r \in rows /\ Matches(r, filter) /\ Before(r, cursor)
    BY <1>4 DEF Selected
  <1>6. seen' \subseteq rows /\ page' \subseteq rows /\ rows \subseteq LogRows
    BY <1>0, <1>2, <1>3, <1>5 DEF PagingTypeOK
  <1> HIDE DEF S
  <1>7. PagingTypeOK' /\ LogInv'
    BY <1>0, <1>1, <1>2, <1>3, <1>6 DEF PagingTypeOK, LogInv
  <1>8. ASSUME NEW r \in page', NEW q \in seen'
        PROVE  Before(r, q)
    <2>1. r \in LogRows /\ q \in LogRows /\ Before(r, cursor) /\ ~Before(q, cursor)
      BY <1>3, <1>4, <1>5, <1>6
    <2>2. QED
      BY <1>4, <2>1 DEF Before, LogRows, Cursors
  <1>9. CursorInv'
    <2> SUFFICES ASSUME walk' = "on" PROVE CursorInv'
      BY DEF CursorInv
    <2>1. cursor' # Any
      BY <1>1
    <2>2. S \ page' \subseteq Selected(filter, cursor)'
      BY <1>2, <1>3, <1>5, <2>1 DEF Selected
    <2>3. ASSUME NEW q \in seen'
          PROVE  ~Before(q, cursor')
      <3>1. PICK l \in page' : cursor' = [at |-> l.at, id |-> l.id]
        BY <1>3, <2>1
      <3>2. l \in LogRows /\ q \in LogRows /\ Before(l, q)
        BY <1>6, <1>8
      <3>3. QED
        BY <3>1, <3>2 DEF Before, LogRows
    <2>4. QED
      BY <1>3, <2>1, <2>2, <2>3 DEF CursorInv
  <1>10. PagesDescend' /\ NoEmptyPage'
    BY <1>3, <1>4, <1>8 DEF PagesDescend, NoEmptyPage
  <1>11. OwedIsAhead'
    <2> SUFFICES ASSUME NEW r \in owed, r \notin seen', r \notin page'
                 PROVE  walk' = "on" /\ Matches(r, filter) /\ Before(r, cursor')
      BY <1>2 DEF OwedIsAhead, IsAhead
    <2>1. r \in S
      BY <1>0, <1>2, <1>5 DEF PagingInv, OwedIsAhead, IsAhead, PagingTypeOK
    <2>2. QED
      BY <1>1, <1>3, <1>5, <2>1
  <1>12. QED
    BY <1>7, <1>9, <1>10, <1>11 DEF PagingInv

------------------------------------------------------------------------------
(* Theorems *)

\* The inductive invariant holds in every reachable state.
THEOREM PagingInvariance == PagingSpec => []PagingInv
  <1>1. PagingInv /\ [PagingNext]_pagingVars => PagingInv'
    <2> SUFFICES ASSUME PagingInv, [PagingNext]_pagingVars PROVE PagingInv'
      OBVIOUS
    <2>1. CASE UNCHANGED pagingVars
      BY <2>1
         DEF pagingVars, logVars, walkVars, PagingInv, PagingTypeOK, LogInv, CursorInv, Selected,
             PagesDescend, NoEmptyPage, OwedIsAhead, IsAhead
    <2>2. CASE \E f \in Filters : FirstPage(f)
      BY <2>2, FirstPageStep
    <2>3. CASE NextPage
      BY <2>3, NextPageStep
    <2>4. CASE Leave
      BY <2>4 DEF Leave, logVars, PagingInv, PagingTypeOK, LogInv, CursorInv,
                  PagesDescend,
                  NoEmptyPage, OwedIsAhead, IsAhead
    <2>5. CASE \E kind \in Kinds : Begin(kind)
      BY <2>5, BeginStep
    <2>6. CASE \E w \in dated : Insert(w)
      BY <2>6, InsertStep
    <2>7. CASE (\E r \in inserted : Commit(r) \/ Lose(r)) \/ Tick
      BY <2>7, OtherLogSteps
    <2>8. QED
      BY <2>1, <2>2, <2>3, <2>4, <2>5, <2>6, <2>7 DEF PagingNext
  <1>2. QED
    BY PagingInitInv, <1>1, PTL DEF PagingSpec

\* LogRows have ids of their own; what a walk shows and owes is in the log.
THEOREM PagingTypeCorrectness == PagingSpec => []PagingTypeOK
  <1>1. PagingInv => PagingTypeOK
    BY DEF PagingInv
  <1>2. QED
    BY <1>1, PagingInvariance, PTL

\* Keyset paging never goes back: no row is shown on two pages, however the
\* log grows and whatever limit each request has.
THEOREM Descent == PagingSpec => []PagesDescend
  <1>1. PagingInv => PagesDescend
    BY DEF PagingInv
  <1>2. QED
    BY <1>1, PagingInvariance, PTL

\* A walk to the end has shown every row that matched the filters and was there
\* when it began, or became visible below its cursor since.
THEOREM Completeness == PagingSpec => []WalkIsComplete
  <1>1. PagingInv => WalkIsComplete
    BY DEF PagingInv, OwedIsAhead, IsAhead, WalkIsComplete
  <1>2. QED
    BY <1>1, PagingInvariance, PTL

\* The row fetched beyond the limit makes a cursor lead to a page with rows.
THEOREM NoEmpty == PagingSpec => []NoEmptyPage
  <1>1. PagingInv => NoEmptyPage
    BY DEF PagingInv
  <1>2. QED
    BY <1>1, PagingInvariance, PTL
==============================================================================
