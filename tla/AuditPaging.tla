----------------------------- MODULE AuditPaging -----------------------------
(***************************************************************************)
(* GET /admin/audit of app/admin/audit.py: an administrator walks through  *)
(* the audit log, newest first, a page and a cursor at a time, while the   *)
(* gateway goes on writing to it.                                          *)
(*                                                                         *)
(* A row is dated before it is inserted, and gets its id before it is      *)
(* committed, by any of several processes: it may become visible anywhere  *)
(* in the order the pages follow, behind the cursor or ahead of it, and    *)
(* rows may have the same date.                                            *)
(***************************************************************************)
EXTENDS Integers, FiniteSets

CONSTANTS Kinds,     \* what the filters on user, tool, outcome, trace compare
          Any,       \* a filter, or a cursor, that is not given
          MaxLimit,  \* MAX_LIMIT
          MaxTime,   \* bound: of the clock
          MaxWrites  \* bound: of the audit log

Cursors == [at : Nat, id : Nat]

ASSUME PagingAssumption ==
  /\ Any \notin Kinds /\ Any \notin Int /\ Any \notin Cursors
  /\ MaxLimit \in Nat \ {0} /\ MaxTime \in Nat /\ MaxWrites \in Nat

VARIABLES now,
          writes,    \* number of writes begun
          dated,     \* writes begun: the date and the kind of their rows
          inserted,  \* rows of open transactions
          rows,      \* rows anybody can see
          lastId,    \* the sequence behind tool_audit_log.id
          walk,      \* "no", "on" or "over": is the administrator in a walk
          filter,    \* its query parameters
          cursor,    \* next_cursor of its last answer
          page,      \* the items of its last answer
          seen,      \* those of the answers before
          owed       \* what the log held for it when it began, and what has
                     \* become visible below its cursor since

logVars == <<now, writes, dated, inserted, rows, lastId>>
walkVars == <<walk, filter, cursor, page, seen, owed>>
pagingVars == <<logVars, walkVars>>

Times == 0..MaxTime
LogRows == [id : Nat, at : Nat, kind : Kinds]
Filters == [kind : Kinds \union {Any},
            from : Times \union {Any}, to : Times \union {Any}]

PagingInit ==
  /\ now = 0 /\ writes = 0 /\ dated = {} /\ inserted = {} /\ rows = {}
  /\ lastId = 0
  /\ walk = "no" /\ filter = [kind |-> Any, from |-> Any, to |-> Any]
  /\ cursor = Any
  /\ page = {} /\ seen = {} /\ owed = {}

------------------------------------------------------------------------------
(* The query *)

Matches(r, f) ==
  /\ f.kind = Any \/ r.kind = f.kind
  /\ f.from = Any \/ r.at >= f.from
  /\ f.to = Any \/ r.at < f.to

\* ORDER BY started_at DESC, id DESC, and the keyset condition on it.
Before(r, c) == r.at < c.at \/ (r.at = c.at /\ r.id < c.id)

SelectedFrom(f, c) ==
  {r \in rows : Matches(r, f) /\ (c = Any \/ r.at <= c.at)}
Selected(f, c) == {r \in rows : Matches(r, f) /\ (c = Any \/ Before(r, c))}

\* LIMIT n: the rows with fewer than n rows before them in the order.
First(n, S) == {r \in S : Cardinality({q \in S : Before(r, q)}) < n}
Last(S) == CHOOSE r \in S : \A q \in S : r = q \/ Before(r, q)

\* One more than limit is fetched, to know whether there is a next page.
FetchedExactly(f, c, limit) == First(limit, Selected(f, c))
Fetched(f, c, limit) == First(limit + 1, Selected(f, c))
Items(f, c, limit) == First(limit, Fetched(f, c, limit))
NextCursorWhenFull(f, c, limit) ==
  IF Cardinality(Items(f, c, limit)) = limit
    THEN LET r == Last(Items(f, c, limit)) IN [at |-> r.at, id |-> r.id]
    ELSE Any
NextCursor(f, c, limit) ==
  IF Cardinality(Fetched(f, c, limit)) > limit
    THEN LET r == Last(Items(f, c, limit)) IN [at |-> r.at, id |-> r.id]
    ELSE Any

\* Any limit from 1 to MAX_LIMIT may be asked for, on every page anew.
AnswerPage(f, c) ==
  \E limit \in 1..MaxLimit :
    /\ page' = Items(f, c, limit)
    /\ cursor' = NextCursor(f, c, limit)
    /\ walk' = IF cursor' = Any THEN "over" ELSE "on"

FirstPage(f) ==
  /\ walk = "no"
  /\ filter' = f
  /\ AnswerPage(f, Any)
  /\ seen' = {}
  /\ owed' = {r \in rows : Matches(r, f)}
  /\ UNCHANGED logVars

NextPage ==
  /\ walk = "on"
  /\ AnswerPage(filter, cursor)
  /\ seen' = seen \union page
  /\ UNCHANGED <<logVars, filter, owed>>

\* A walk that is over or given up; another may begin.
Leave ==
  /\ walk # "no"
  /\ walk' = "no" /\ cursor' = Any
  /\ page' = {} /\ seen' = {} /\ owed' = {}
  /\ UNCHANGED <<logVars, filter>>

------------------------------------------------------------------------------
(* The audit log *)

\* write_audit takes the date; no caller gives it an earlier one.
Begin(kind) ==
  /\ writes < MaxWrites
  /\ writes' = writes + 1
  /\ dated' = dated \union {[write |-> writes', at |-> now, kind |-> kind]}
  /\ UNCHANGED <<now, inserted, rows, lastId, walkVars>>

\* The session is there: the row is inserted, with the next id.
InsertAgain(w) ==
  /\ w \in dated
  /\ lastId' = lastId + 1
  /\ inserted' = inserted \union {[id |-> lastId', at |-> w.at, kind |-> w.kind]}
  /\ UNCHANGED <<now, writes, dated, rows, walkVars>>
Insert(w) ==
  /\ w \in dated
  /\ dated' = dated \ {w}
  /\ lastId' = lastId + 1
  /\ inserted' = inserted \union {[id |-> lastId', at |-> w.at, kind |-> w.kind]}
  /\ UNCHANGED <<now, writes, rows, walkVars>>

\* A row that becomes visible below the cursor of a walk is still to come.
IsAhead(r) == walk = "on" /\ Matches(r, filter) /\ Before(r, cursor)
Commit(r) ==
  /\ r \in inserted
  /\ inserted' = inserted \ {r}
  /\ rows' = rows \union {r}
  /\ owed' = IF IsAhead(r) THEN owed \union {r} ELSE owed
  /\ UNCHANGED <<now, writes, dated, lastId, walk, filter, cursor, page, seen>>

\* The insert is lost: the writer logs that and goes on, the id is gone.
Lose(r) ==
  /\ r \in inserted
  /\ inserted' = inserted \ {r}
  /\ UNCHANGED <<now, writes, dated, rows, lastId, walkVars>>

Tick ==
  /\ now < MaxTime
  /\ now' = now + 1
  /\ UNCHANGED <<writes, dated, inserted, rows, lastId, walkVars>>

------------------------------------------------------------------------------
PagingNext ==
  \/ \E f \in Filters : FirstPage(f)
  \/ NextPage \/ Leave
  \/ \E kind \in Kinds : Begin(kind)
  \/ \E w \in dated : Insert(w)
  \/ \E r \in inserted : Commit(r) \/ Lose(r)
  \/ Tick

PagingSpec == PagingInit /\ [][PagingNext]_pagingVars

------------------------------------------------------------------------------
(* Properties *)

PagingTypeOK ==
  /\ now \in Times /\ writes \in 0..MaxWrites /\ lastId \in 0..writes
  /\ dated \subseteq [write : 1..writes, at : 0..now, kind : Kinds]
  /\ inserted \subseteq LogRows /\ rows \subseteq LogRows
  /\ walk \in {"no", "on", "over"} /\ filter \in Filters
  /\ cursor \in Cursors \union {Any}
  /\ \A r, q \in rows \union inserted : r.id = q.id => r = q
  /\ page \subseteq rows /\ seen \subseteq rows /\ owed \subseteq rows

\* The pages of a walk go down the order: no row is shown twice or after an
\* older one, whatever is written to the log while the administrator reads.
PagesDescend == \A r \in page, q \in seen : Before(r, q)

\* A walk that has come to its end has shown every row that matched when it
\* began, and every matching row that became visible below its cursor on the
\* way: a late commit is missed only where the walk has been already.
WalkIsComplete == walk = "over" => owed \subseteq seen \union page

\* A cursor is given out only when there is another page: no answer but the
\* first is empty.
NoEmptyPage == walk # "no" /\ seen # {} => page # {}

\* What the walk has not shown of what it owes lies below its cursor.
OwedIsAhead == \A r \in owed \ (seen \union page) : IsAhead(r)

\* Why.  Ids are drawn once and no write is inserted twice; and while there is a
\* cursor, what has been shown is not below it, and something to show is.
LogInv ==
  /\ IsFiniteSet(rows) /\ IsFiniteSet(dated)
  /\ lastId + Cardinality(dated) <= writes
  /\ \A r \in rows \union inserted : r.id <= lastId
CursorInv ==
  walk = "on" =>
    /\ cursor # Any /\ Selected(filter, cursor) # {}
    /\ \A r \in seen \union page : ~Before(r, cursor)
PagingInv ==
  /\ PagingTypeOK /\ LogInv /\ CursorInv
  /\ PagesDescend /\ NoEmptyPage /\ OwedIsAhead
==============================================================================
