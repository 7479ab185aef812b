---------------------------- MODULE DaytonaSandbox ---------------------------
(***************************************************************************)
(* DaytonaAdapter of app/dispatchers/daytona.py: every call creates a      *)
(* sandbox, runs the user's code in it once, and deletes the sandbox, with *)
(* one more try if that fails.                                             *)
(*                                                                         *)
(* Daytona is outside: what it was asked to do it may do after the gateway *)
(* has given up waiting for it.                                            *)
(*                                                                         *)
(* Nobody validates the timeouts of a call.  A value is a finite number,   *)
(* in tenths of a second (any integer); Text, which float() takes for no   *)
(* number; TooBig, an integer float() has no room for; or Absent.          *)
(***************************************************************************)
EXTENDS Integers

CONSTANTS Calls,
          Absent, Text, TooBig,
          Configs,          \* values of tool.config
          Timeouts,         \* values of arguments.timeout_sec
          DefaultTimeout,   \* daytona_default_timeout_sec
          MaxTimeout        \* daytona_max_timeout_sec

Values == Int \union {Absent, Text, TooBig}

ASSUME DaytonaAssumption ==
  /\ {Absent, Text, TooBig} \intersect Int = {}
  /\ DefaultTimeout \in Int /\ MaxTimeout \in Int
  /\ Timeouts \subseteq Values
  /\ Configs \subseteq [timeout_sec : Values, max_timeout_sec : Values,
                        create_timeout_sec : Values]

VARIABLES tool,     \* per call: tool.config and arguments.timeout_sec
          pc,       \* per call: where its coroutine is suspended
          exec,     \* per call: exec_timeout
          outcome,  \* per call: what create and code_run came to
          result,   \* per call: what invoke returned or raised
          tries,    \* per call: deletes that were asked for
          box,      \* per call: its sandbox
          code      \* per call: what became of its code

vars == <<tool, pc, exec, outcome, result, tries, box, code>>

\* What a call is refused with before it has a sandbox; "exception" is one that
\* leaves invoke as it is.
Refusals == {"config_error", "invalid_params", "exception"}

\* What _map_sdk_error turns an exception of the SDK into.
Kinds == {"upstream_denied", "upstream_not_found", "upstream_bad_request",
          "upstream_timeout", "upstream_error"}

Init ==
  /\ tool \in [Calls -> [config : Configs, requested : Timeouts]]
  /\ pc = [c \in Calls |-> "new"]
  /\ exec = [c \in Calls |-> 0]
  /\ outcome = [c \in Calls |-> "none"]
  /\ result = [c \in Calls |-> "none"]
  /\ tries = [c \in Calls |-> 0]
  /\ box = [c \in Calls |-> "none"]
  /\ code = [c \in Calls |-> "none"]

------------------------------------------------------------------------------
(* invoke *)

\* Python's "or": 0 counts as missing.
Or(a, b) == IF a \in {Absent, 0} THEN b ELSE a
AtLeast(n, low) == IF n < low THEN low ELSE n
AtMost(n, high) == IF n > high THEN high ELSE n

\* int() of so many tenths: the fraction is cut off, towards zero.
Second == 10
Seconds(n) == IF n >= 0 THEN n \div Second ELSE -((-n) \div Second)

Cap(c) == Or(tool[c].config.max_timeout_sec, MaxTimeout)
Asked(c) ==
  Or(tool[c].requested, Or(tool[c].config.timeout_sec, DefaultTimeout))
Requested(c) == IF Asked(c) = Text THEN DefaultTimeout ELSE Asked(c)

\* float() takes the configured values; what is asked for may be no number.
Readable(c) ==
  /\ Cap(c) \in Int /\ Asked(c) # TooBig
  /\ tool[c].config.create_timeout_sec \in Int \union {Absent}

ExecTimeoutUncapped(c) == Seconds(AtLeast(Requested(c), Second))
ExecTimeout(c) == Seconds(AtMost(AtLeast(Requested(c), Second), Cap(c)))

Goto(c, next) == pc' = [pc EXCEPT ![c] = next]
Done(c, what) ==
  /\ Goto(c, "done")
  /\ result' = [result EXCEPT ![c] = what]

\* A missing variable, no code to run, no SDK; or float() raises.
Refuse(c) ==
  /\ pc[c] = "new"
  /\ \/ Done(c, "config_error") \/ Done(c, "invalid_params")
     \/ ~Readable(c) /\ Done(c, "exception")
  /\ UNCHANGED <<tool, exec, outcome, tries, box, code>>

Invoke(c) ==
  /\ pc[c] = "new" /\ Readable(c)
  /\ exec' = [exec EXCEPT ![c] = ExecTimeout(c)]
  /\ box' = [box EXCEPT ![c] = "ordered"]
  /\ Goto(c, "create")
  /\ UNCHANGED <<tool, outcome, result, tries, code>>

------------------------------------------------------------------------------
(* _run *)

Created(c) ==
  /\ pc[c] = "create" /\ box[c] = "there"
  /\ code' = [code EXCEPT ![c] = "sent"]
  /\ Goto(c, "run")
  /\ UNCHANGED <<tool, exec, outcome, result, tries, box>>

\* create raises: there is no sandbox to delete.
CreateFails(c) ==
  /\ pc[c] = "create"
  /\ \E kind \in Kinds :
       /\ outcome' = [outcome EXCEPT ![c] = kind]
       /\ Done(c, kind)
  /\ UNCHANGED <<tool, exec, tries, box, code>>

Delete(c) ==
  /\ tries' = [tries EXCEPT ![c] = @ + 1]
  /\ Goto(c, "delete")
\* code_run returns or raises; either way the sandbox is deleted.
RunReturnsUnrun(c) ==
  /\ pc[c] = "run"
  /\ outcome' = [outcome EXCEPT ![c] = "ok"]
  /\ Delete(c)
  /\ UNCHANGED <<tool, exec, result, box, code>>
RunReturns(c) ==
  /\ pc[c] = "run" /\ code[c] = "ran"
  /\ outcome' = [outcome EXCEPT ![c] = "ok"]
  /\ Delete(c)
  /\ UNCHANGED <<tool, exec, result, box, code>>
RunFailsForGood(c) ==
  /\ pc[c] = "run"
  /\ outcome' = [outcome EXCEPT ![c] = "upstream_error"]
  /\ Done(c, "upstream_error")
  /\ UNCHANGED <<tool, exec, tries, box, code>>
RunFails(c) ==
  /\ pc[c] = "run"
  /\ \E kind \in Kinds : outcome' = [outcome EXCEPT ![c] = kind]
  /\ Delete(c)
  /\ UNCHANGED <<tool, exec, result, box, code>>

\* What the finally clause leaves to return or raise.
Deleted(c) ==
  /\ pc[c] = "delete" /\ box[c] = "deleted"
  /\ Done(c, outcome[c])
  /\ UNCHANGED <<tool, exec, outcome, tries, box, code>>

\* The first failure is followed by a nap and a second try, the second one
\* is only logged.
DeleteFailsLoudly(c) ==
  /\ pc[c] = "delete"
  /\ IF tries[c] = 1 THEN Goto(c, "nap") /\ UNCHANGED result
                     ELSE Done(c, "upstream_error")
  /\ UNCHANGED <<tool, exec, outcome, tries, box, code>>
DeleteFails(c) ==
  /\ pc[c] = "delete"
  /\ IF tries[c] = 1 THEN Goto(c, "nap") /\ UNCHANGED result
                     ELSE Done(c, outcome[c])
  /\ UNCHANGED <<tool, exec, outcome, tries, box, code>>
DeleteAgain(c) ==
  /\ pc[c] = "nap"
  /\ Delete(c)
  /\ UNCHANGED <<tool, exec, outcome, result, box, code>>

------------------------------------------------------------------------------
(* Daytona *)

Make(c) ==
  /\ box[c] = "ordered"
  /\ box' = [box EXCEPT ![c] = "there"]
  /\ UNCHANGED <<tool, pc, exec, outcome, result, tries, code>>

Execute(c) ==
  /\ code[c] = "sent" /\ box[c] = "there"
  /\ code' = [code EXCEPT ![c] = "ran"]
  /\ UNCHANGED <<tool, pc, exec, outcome, result, tries, box>>

Remove(c) ==
  /\ tries[c] > 0 /\ box[c] = "there"
  /\ box' = [box EXCEPT ![c] = "deleted"]
  /\ UNCHANGED <<tool, pc, exec, outcome, result, tries, code>>

------------------------------------------------------------------------------
Step(c) ==
  \/ Created(c) \/ CreateFails(c) \/ RunReturns(c) \/ RunFails(c)
  \/ Deleted(c) \/ DeleteFails(c) \/ DeleteAgain(c)

Next ==
  \E c \in Calls :
    \/ Refuse(c) \/ Invoke(c) \/ Step(c)
    \/ Make(c) \/ Execute(c) \/ Remove(c)

Spec == Init /\ [][Next]_vars

------------------------------------------------------------------------------
(* Properties *)

\* The time asked of Daytona is a number of whole seconds, no more than the cap
\* in force, and at least one unless the cap itself is below a second.
TimeIsBounded(c) ==
  /\ exec[c] * Second <= AtLeast(Cap(c), 0)
  /\ Cap(c) >= Second => exec[c] >= 1

\* Types, and the time of all code that was sent, whatever the model or the
\* administrator asks for.
TypeOK ==
  /\ tool \in [Calls -> [config : Configs, requested : Timeouts]]
  /\ pc \in [Calls -> {"new", "create", "run", "delete", "nap", "done"}]
  /\ exec \in [Calls -> Int]
  /\ \A c \in Calls : code[c] # "none" => Cap(c) \in Int /\ TimeIsBounded(c)
  /\ outcome \in [Calls -> Kinds \union {"none", "ok"}]
  /\ result \in [Calls -> Kinds \union Refusals \union {"none", "ok"}]
  /\ tries \in [Calls -> 0..2]
  /\ box \in [Calls -> {"none", "ordered", "there", "deleted"}]
  /\ code \in [Calls -> {"none", "sent", "ran"}]

\* A sandbox the gateway was given is deleted, or two deletes failed, before
\* the call is answered: whether the code ran, raised or timed out.
NoSandboxLeftBehind ==
  \A c \in Calls : pc[c] = "done" /\ code[c] # "none" =>
    box[c] = "deleted" \/ tries[c] = 2

\* What the clean-up comes to never changes the answer: no result is lost to
\* a failed delete, and no error is covered by a successful one.
CleanUpIsSilent ==
  \A c \in Calls : pc[c] = "done" /\ tries[c] > 0 => result[c] = outcome[c]

\* What the docstring says of every call, "then delete the sandbox": there is
\* no answered call with a sandbox nobody tried to delete.  A create that
\* times out in the gateway may still succeed at Daytona.
EverySandboxIsDeleted ==
  \A c \in Calls : pc[c] = "done" /\ box[c] = "there" => tries[c] > 0

\* What README.md:32 and 211-212 and the design document, 6.3, say: no code is
\* given more than 300 seconds.  The cap of a tool's config replaces them.
HardCap == \A c \in Calls : code[c] # "none" => exec[c] <= 300

\* A dispatcher of the kind tools/call expects, which runs code once at most
\* and never reports a result of code that did not run.
PhaseAt(place, told) ==
  CASE place = "new" -> "new"
    [] place # "new" /\ place # "done" -> "running"
    [] place = "done" /\ told = "ok" -> "returned"
    [] place = "done" /\ told \in Refusals -> "refused"
    [] OTHER -> "raised"
Phase(c) == PhaseAt(pc[c], result[c])
Contract == INSTANCE Dispatch
              WITH budget <- [c \in Calls |-> 1],
                   effects <- [c \in Calls |->
                                 IF code[c] = "ran" THEN 1 ELSE 0],
                   phase <- [c \in Calls |-> Phase(c)]
KeepsContract == Contract!Spec

------------------------------------------------------------------------------
(* The inductive invariant behind the safety properties *)

\* The time is settled before the sandbox is ordered.
TimeInv(c) == pc[c] = "create" => Cap(c) \in Int /\ TimeIsBounded(c)

\* The first delete belongs to the end of the run, the second to the nap.
TriesInv(c) ==
  /\ pc[c] \in {"new", "create", "run"} => tries[c] = 0
  /\ pc[c] = "nap" => tries[c] = 1
  /\ pc[c] = "delete" => tries[c] \in {1, 2}

\* A call has no answer before it is over; one that is refused, or has no
\* sandbox, has sent no code; and "ok" is said only of code that ran.
AnswerInv(c) ==
  /\ pc[c] # "done" => result[c] = "none"
  /\ pc[c] \in {"new", "create"} => code[c] = "none"
  /\ result[c] \in Refusals => code[c] = "none"
  /\ "ok" \in {outcome[c], result[c]} => code[c] = "ran"

IInv ==
  /\ TypeOK /\ NoSandboxLeftBehind /\ CleanUpIsSilent
  /\ \A c \in Calls : TimeInv(c) /\ TriesInv(c) /\ AnswerInv(c)
==============================================================================
