------------------------------- MODULE Dispatch ------------------------------
(***************************************************************************)
(* What tools/call may expect of a dispatcher (app/dispatchers/base.py),   *)
(* whatever upstream is behind it.  invoke starts a call, the upstream may *)
(* carry out what the call asks for, up to budget times, and invoke either *)
(* returns a result or raises.  A result is never made up: it is returned  *)
(* only for a call that was carried out.  An exception says nothing.  What *)
(* an abandoned request asks for may be carried out after invoke is over.  *)
(***************************************************************************)
EXTENDS Naturals

CONSTANT Calls

VARIABLES budget,    \* how often the upstream may carry a call out
          phase,     \* "new", "running", "returned", "raised" or "refused"
          effects    \* how often the upstream has carried the call out

dispatchVars == <<budget, phase, effects>>

Init ==
  /\ budget \in [Calls -> Nat]
  /\ phase = [c \in Calls |-> "new"]
  /\ effects = [c \in Calls |-> 0]

Move(c, from, to) ==
  /\ phase[c] = from
  /\ phase' = [phase EXCEPT ![c] = to]
  /\ UNCHANGED <<budget, effects>>

Start(c) == Move(c, "new", "running")
Return(c) == Move(c, "running", "returned") /\ effects[c] > 0
Raise(c) == Move(c, "running", "raised")

\* An exception before the upstream has heard of the call.
Refuse(c) == Move(c, "new", "refused")

CarryOut(c) ==
  /\ phase[c] \in {"running", "returned", "raised"}
  /\ effects[c] < budget[c]
  /\ effects' = [effects EXCEPT ![c] = @ + 1]
  /\ UNCHANGED <<budget, phase>>

Next == \E c \in Calls : Start(c) \/ Refuse(c) \/ Return(c) \/ Raise(c) \/ CarryOut(c)

Spec == Init /\ [][Next]_dispatchVars
==============================================================================
