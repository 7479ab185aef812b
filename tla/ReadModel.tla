------------------------------ MODULE ReadModel ------------------------------
(***************************************************************************)
(* What a gateway process promises about its copy of the tool catalogue,   *)
(* said without locks, clocks or loads.  The database commits numbered     *)
(* changes; the process holds, for every table, the number of the last     *)
(* change its copy contains; an administrator's change is acknowledged     *)
(* when the HTTP call that made it returns.  The copy is usable while the  *)
(* process may answer from it without asking the database again.           *)
(*                                                                         *)
(* The promise: copies only move forward, never past the database, and a   *)
(* usable copy holds every change that was acknowledged.                   *)
(***************************************************************************)
EXTENDS Naturals

CONSTANT Tables     \* the tables a copy is put together from

VARIABLES commits,  \* how many changes the database has committed
          view,     \* per table, the change up to which the copy is current
          acked,    \* the last change some administrator was told is done
          usable    \* the copy may be served without another load

readVars == <<commits, view, acked, usable>>

Covers(copy, n) == \A tb \in Tables : copy[tb] >= n

Init ==
  /\ commits = 0
  /\ view = [tb \in Tables |-> 0]
  /\ acked = 0
  /\ usable = FALSE

\* An acknowledgement may come with the end of a load or alone.
Acknowledge == acked' \in acked..commits

Commit ==
  /\ commits' = commits + 1
  /\ UNCHANGED <<view, acked, usable>>

\* A new copy replaces the old one: newer for every table, and usable only
\* if it covers what has been acknowledged by then.
Refresh ==
  /\ view' \in [Tables -> 0..commits]
  /\ \A tb \in Tables : view'[tb] >= view[tb]
  /\ Acknowledge
  /\ usable' \in BOOLEAN
  /\ usable' => Covers(view', acked')
  /\ UNCHANGED commits

\* The copy is no longer served: it expired, was invalidated, or could not
\* be replaced.
Drop ==
  /\ usable' = FALSE
  /\ Acknowledge
  /\ UNCHANGED <<commits, view>>

Next == Commit \/ Refresh \/ Drop

Spec == Init /\ [][Next]_readVars
==============================================================================
