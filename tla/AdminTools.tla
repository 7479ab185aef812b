----------------------------- MODULE AdminTools ------------------------------
(***************************************************************************)
(* The admin API (app/admin/tools.py, grants.py, customer_grants.py) on    *)
(* one tool name: concurrent requests, of any process, on its row and its  *)
(* grants.                                                                 *)
(*                                                                         *)
(* Most handlers read first and write later: the SELECT and the commit are *)
(* separate steps, and other requests commit between them.  A commit is    *)
(* one step, as the locks of Postgres keep writers of a row apart from     *)
(* their statement on.  Role grants and customer grants work alike, and    *)
(* are both grants to a grantee.                                           *)
(***************************************************************************)
EXTENDS Integers

CONSTANTS Tasks,    \* requests
          Fields,   \* columns of a tool that a patch may set
          Values,
          Enabled,  \* the column "enabled"
          Disabled, \* its value false
          Grantees, \* roles and customer codes
          Absent

Rows == [id : Nat, version : Nat \ {0}, val : [Fields -> Values]]

ASSUME AdminAssumption ==
  /\ Enabled \in Fields /\ Disabled \in Values
  /\ Absent \notin Rows

VARIABLES row,     \* the tool with this name, if any
          grants,  \* pairs of a tool id and a grantee
          nextId,  \* the sequence of tools.id
          pc,      \* per request: the await it is suspended at
          req,     \* per request: what it asks
          loaded,  \* per request: the row its SELECT has returned
          status,  \* per request: the answer
          touched  \* per request: what the commits of others since it began were
                   \* meant to change

vars == <<row, grants, nextId, pc, req, loaded, status, touched>>

\* What a request may ask.  set: the columns in its payload.
Partial == UNION {[D -> Values] : D \in (SUBSET Fields) \ {{}}}
Nothing == [f \in {} |-> Absent]
Requests ==
  [op : {"upsert"}, set : [Fields -> Values], to : {Absent}]
    \union [op : {"patch"}, set : Partial \union {Nothing}, to : {Absent}]
    \union [op : {"disable"}, set : [{Enabled} -> {Disabled}], to : {Absent}]
    \union [op : {"delete"}, set : {Nothing}, to : {Absent}]
    \union [op : {"grant", "revoke"}, set : {Nothing}, to : Grantees]
NoRequest == [op |-> "none", set |-> Nothing, to |-> Absent]

Init ==
  /\ \E v \in [Fields -> Values], g \in SUBSET Grantees :
       \/ row = Absent /\ grants = {}
       \/ /\ row = [id |-> 1, version |-> 1, val |-> v]
          /\ grants = {1} \X g
  /\ nextId = 2
  /\ pc = [t \in Tasks |-> "new"]
  /\ req = [t \in Tasks |-> NoRequest]
  /\ loaded = [t \in Tasks |-> Absent]
  /\ status = [t \in Tasks |-> "none"]
  /\ touched = [t \in Tasks |-> {}]

------------------------------------------------------------------------------
(* What the steps have in common *)

Goto(t, next) == pc' = [pc EXCEPT ![t] = next]
Answer(t, code) ==
  /\ Goto(t, "done")
  /\ status' = [status EXCEPT ![t] = code]

\* What a request is meant to change; it alone, whatever its statements write.
Everything == Fields \union {"row", "grants"}
Meant(q) ==
  CASE q.op = "upsert" -> Fields \union {"row"}
    [] q.op = "delete" -> Everything
    [] q.op \in {"grant", "revoke"} -> {"grants"}
    [] OTHER -> DOMAIN q.set

\* The commit of t: the others have one more change behind them.
Committed(t, q, next) ==
  /\ Goto(t, next)
  /\ touched' = [s \in Tasks |->
       IF s = t \/ pc[s] = "new" THEN touched[s] ELSE touched[s] \union Meant(q)]
  /\ UNCHANGED status

\* A statement of a handler raises: the row has gone (StaleDataError), the
\* foreign key does not hold, a column takes no NULL, the connection is lost.
\* Nothing is committed.  (An upsert that raises is one that never was.)
Fail(t) ==
  /\ pc[t] = "write"
  /\ Answer(t, "error")
  /\ UNCHANGED <<row, grants, nextId, req, loaded, touched>>

------------------------------------------------------------------------------
(* upsert_tool: one statement, INSERT ... ON CONFLICT DO UPDATE *)

\* It draws an id from the sequence in either case.
Upsert(t, q) ==
  /\ pc[t] = "new" /\ q.op = "upsert"
  /\ row' = IF row = Absent
              THEN [id |-> nextId, version |-> 1, val |-> q.set]
              ELSE [id |-> row.id, version |-> row.version + 1, val |-> q.set]
  /\ nextId' = nextId + 1
  /\ req' = [req EXCEPT ![t] = q]
  /\ Committed(t, q, "refresh")
  /\ UNCHANGED <<grants, loaded>>

------------------------------------------------------------------------------
(* The others: SELECT by name first *)

\* patch_tool, delete_tool, _resolve_tool_id.
Select(t, q) ==
  /\ pc[t] = "new" /\ q.op # "upsert"
  /\ req' = [req EXCEPT ![t] = q]
  /\ loaded' = [loaded EXCEPT ![t] = row]
  /\ \/ row = Absent /\ Answer(t, "not found")
     \/ row # Absent /\ q.op = "patch" /\ q.set = Nothing /\ Answer(t, "bad request")
     \/ row # Absent /\ (q.op = "patch" => q.set # Nothing)
          /\ Goto(t, "write") /\ UNCHANGED status
  /\ UNCHANGED <<row, grants, nextId, touched>>

\* Is the row the SELECT has found still there?
There(t) == row # Absent /\ row.id = loaded[t].id

\* The UPDATE of the unit of work names the columns that differ from what was
\* loaded, and the version, counted from what was loaded.
UpdatedWhole(t) ==
  LET set == req[t].set
  IN  [id |-> row.id, version |-> loaded[t].version + 1,
       val |-> [f \in Fields |->
                  IF f \in DOMAIN set THEN set[f] ELSE loaded[t].val[f]]]
Updated(t) ==
  LET old == loaded[t]
      set == req[t].set
  IN  [id |-> row.id, version |-> old.version + 1,
       val |-> [f \in Fields |->
                  IF f \in DOMAIN set /\ set[f] # old.val[f]
                    THEN set[f] ELSE row.val[f]]]

\* patch_tool and a soft delete, if a row matches.
Write(t) ==
  /\ pc[t] = "write" /\ req[t].op \in {"patch", "disable"} /\ There(t)
  /\ row' = Updated(t)
  /\ Committed(t, req[t], IF req[t].op = "patch" THEN "reload" ELSE "refresh")
  /\ UNCHANGED <<grants, nextId, req, loaded>>

\* db.refresh(row) after the commit of a patch: it raises if the row has gone,
\* and then the registry is not refreshed.
Reload(t) ==
  /\ pc[t] = "reload"
  /\ \/ There(t) /\ Goto(t, "refresh") /\ UNCHANGED status
     \/ ~There(t) /\ Answer(t, "error")
  /\ UNCHANGED <<row, grants, nextId, req, loaded, touched>>

\* A hard delete, by id; the grants go with the row.  No row, no matter.
Grants(id) == {g \in grants : g[1] = id}
DeleteAlone(t) ==
  /\ pc[t] = "write" /\ req[t].op = "delete"
  /\ row' = IF There(t) THEN Absent ELSE row
  /\ Committed(t, req[t], "refresh")
  /\ UNCHANGED <<grants, nextId, req, loaded>>
Delete(t) ==
  /\ pc[t] = "write" /\ req[t].op = "delete"
  /\ row' = IF There(t) THEN Absent ELSE row
  /\ grants' = grants \ Grants(loaded[t].id)
  /\ Committed(t, req[t], "refresh")
  /\ UNCHANGED <<nextId, req, loaded>>

\* put_grant with granted, if the foreign key holds.
GrantByName(t) ==
  /\ pc[t] = "write" /\ req[t].op = "grant" /\ row # Absent
  /\ grants' = grants \union {<<row.id, req[t].to>>}
  /\ Committed(t, req[t], "refresh")
  /\ UNCHANGED <<row, nextId, req, loaded>>
Grant(t) ==
  /\ pc[t] = "write" /\ req[t].op = "grant" /\ There(t)
  /\ grants' = grants \union {<<loaded[t].id, req[t].to>>}
  /\ Committed(t, req[t], "refresh")
  /\ UNCHANGED <<row, nextId, req, loaded>>

\* put_grant without granted, and delete_grant.
Revoke(t) ==
  /\ pc[t] = "write" /\ req[t].op = "revoke"
  /\ grants' = grants \ {<<loaded[t].id, req[t].to>>}
  /\ Committed(t, req[t], "refresh")
  /\ UNCHANGED <<row, nextId, req, loaded>>

\* _refresh_registry returns or fails, all the same; the answer goes out.
Refresh(t) ==
  /\ pc[t] = "refresh"
  /\ Answer(t, "ok")
  /\ UNCHANGED <<row, grants, nextId, req, loaded, touched>>

------------------------------------------------------------------------------
Next ==
  \E t \in Tasks :
    \/ \E q \in Requests : Upsert(t, q) \/ Select(t, q)
    \/ Write(t) \/ Reload(t) \/ Delete(t) \/ Grant(t) \/ Revoke(t)
    \/ Fail(t) \/ Refresh(t)

Spec == Init /\ [][Next]_vars

------------------------------------------------------------------------------
(* Properties *)

TypeOK ==
  /\ row \in Rows \union {Absent}
  /\ grants \subseteq Nat \X Grantees
  /\ nextId \in Nat /\ (row # Absent => row.id < nextId)
  /\ pc \in [Tasks -> {"new", "write", "reload", "refresh", "done"}]
  /\ req \in [Tasks -> Requests \union {NoRequest}]
  /\ loaded \in [Tasks -> Rows \union {Absent}]
  /\ status \in
       [Tasks -> {"none", "ok", "not found", "bad request", "error"}]
  /\ touched \in [Tasks -> SUBSET Everything]

Granted(g) == row # Absent /\ <<row.id, g>> \in grants

\* What t asked for is so, but for what others were meant to change since.
Holds(t) ==
  LET q == req[t] IN
    /\ \A f \in DOMAIN q.set \ touched[t] :
         row # Absent /\ row.val[f] = q.set[f]
    /\ q.op = "delete" /\ "row" \notin touched[t] => row = Absent
    /\ q.op = "grant" /\ "grants" \notin touched[t] => Granted(q.to)
    /\ q.op = "revoke" /\ "grants" \notin touched[t] => ~Granted(q.to)

\* What was acknowledged holds from then on, in every part of it that no request
\* committed since it began was meant to change.  So no edit undoes another
\* one's columns, and no revoked grant and no deleted tool comes back with
\* somebody else's work, however the requests overlap.
AcknowledgedHolds == \A t \in Tasks : status[t] = "ok" => Holds(t)

\* A tool made anew under an old name starts without grants, even those in
\* flight: who has one was granted this very tool, or was there at the start.
GrantsAreMeant ==
  \A g \in grants :
    /\ row # Absent /\ row.id = g[1]
    /\ g[1] # 1 => \E t \in Tasks : /\ req[t].op = "grant" /\ req[t].to = g[2]
                                    /\ loaded[t] # Absent /\ loaded[t].id = g[1]

\* What makes it so.  Ids are drawn once, so a row with the id a request has
\* loaded is the row it has loaded; and of that row, whatever nobody touched is
\* as it was loaded when the request comes to write it.
RequestInv(t) ==
  /\ pc[t] = "new" <=> req[t] = NoRequest
  /\ status[t] = "ok" => pc[t] = "done"
  /\ loaded[t] # Absent => loaded[t].id < nextId
  /\ pc[t] \in {"write", "reload"} => loaded[t] # Absent
LoadedInv(t) ==
  pc[t] = "write" =>
    /\ "row" \notin touched[t] \/ "grants" \notin touched[t] => There(t)
    /\ There(t) =>
         \A f \in Fields \ touched[t] : row.val[f] = loaded[t].val[f]
CommittedInv(t) ==
  pc[t] \in {"reload", "refresh"} \/ status[t] = "ok" => Holds(t)
IInv ==
  /\ TypeOK
  /\ \A t \in Tasks : RequestInv(t) /\ LoadedInv(t) /\ CommittedInv(t)
  /\ GrantsAreMeant

\* "bump version to signal change": a tool that is seen to change is seen to
\* have a new version.
VersionSignalsChange ==
  [][row # Absent /\ row' # Absent /\ row'.id = row.id /\ row'.val # row.val
       => row'.version > row.version]_vars
==============================================================================
