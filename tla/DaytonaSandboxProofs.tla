------------------------- MODULE DaytonaSandboxProofs ------------------------
(***************************************************************************)
(* What is proved about DaytonaSandbox, for any calls, configurations,     *)
(* requested timeouts, default and cap.                                    *)
(*                                                                         *)
(* The inductive invariant is IInv of DaytonaSandbox.  All of it but the   *)
(* types speaks of one call, and a step changes one call: OneCall says so  *)
(* once, and every step is then shown for the call that makes it.          *)
(***************************************************************************)
EXTENDS DaytonaSandbox, TLAPS

USE DaytonaAssumption

Locations == {"new", "create", "run", "delete", "nap", "done"}
Outcomes == Kinds \union {"none", "ok"}

\* What IInv says of one call.
CallInv(c) ==
  /\ code[c] # "none" => Cap(c) \in Int /\ TimeIsBounded(c)
  /\ pc[c] = "done" /\ code[c] # "none" => box[c] = "deleted" \/ tries[c] = 2
  /\ pc[c] = "done" /\ tries[c] > 0 => result[c] = outcome[c]
  /\ TimeInv(c) /\ TriesInv(c) /\ AnswerInv(c)

FieldTypes ==
  /\ tool \in [Calls -> [config : Configs, requested : Timeouts]]
  /\ pc \in [Calls -> Locations] /\ exec \in [Calls -> Int]
  /\ outcome \in [Calls -> Outcomes]
  /\ result \in [Calls -> Outcomes \union Refusals]
  /\ tries \in [Calls -> 0..2]
  /\ box \in [Calls -> {"none", "ordered", "there", "deleted"}]
  /\ code \in [Calls -> {"none", "sent", "ran"}]

LEMMA Parts == IInv <=> FieldTypes /\ \A c \in Calls : CallInv(c)
  BY DEF IInv, TypeOK, NoSandboxLeftBehind, CleanUpIsSilent, FieldTypes,
         CallInv,
         Locations, Outcomes, Refusals

------------------------------------------------------------------------------
(* The time a call gives its code *)

\* int() cuts off the fraction, and so keeps below any bound that is not
\* negative, and above one second what is at least one.
LEMMA SecondsType ==
  ASSUME NEW n \in Int
  PROVE  /\ Seconds(n) \in Int
         /\ Seconds(n) * Second <= AtLeast(n, 0)
         /\ n >= Second => Seconds(n) >= 1
  <1>1. CASE n >= 0
    <2>1. /\ n \div 10 \in Int /\ n \div 10 >= 0 /\ (n \div 10) * 10 <= n
          /\ n >= 10 => n \div 10 >= 1
      BY <1>1
    <2>2. QED
      BY <1>1, <2>1 DEF Seconds, Second, AtLeast
  <1>2. CASE n < 0
    <2>1. (-n) \div 10 \in Int /\ (-n) \div 10 >= 0
      BY <1>2
    <2>2. QED
      BY <1>2, <2>1 DEF Seconds, Second, AtLeast
  <1>3. QED
    BY <1>1, <1>2

\* What a call goes on with is a number, and the time is bounded, whatever was
\* configured or asked for.
LEMMA TimeType ==
  ASSUME NEW c \in Calls, tool[c] \in [config : Configs, requested : Timeouts],
         Readable(c)
  PROVE  /\ Cap(c) \in Int /\ ExecTimeout(c) \in Int
         /\ ExecTimeout(c) * Second <= AtLeast(Cap(c), 0)
         /\ Cap(c) >= Second => ExecTimeout(c) >= 1
  <1>1. /\ tool[c].config.timeout_sec \in Values
        /\ tool[c].requested \in Values
    OBVIOUS
  <1>2. Cap(c) \in Int /\ Asked(c) # TooBig
    BY DEF Readable
  <1>3. Requested(c) \in Int
    BY <1>1, <1>2 DEF Requested, Asked, Or, Values
  <1>4. DEFINE n == AtMost(AtLeast(Requested(c), Second), Cap(c))
  <1>5. n \in Int /\ n <= Cap(c) /\ (Cap(c) >= Second => n >= Second)
    BY <1>2, <1>3 DEF AtMost, AtLeast, Second
  <1>6. ExecTimeout(c) = Seconds(n)
    BY DEF ExecTimeout
  <1>7. Seconds(n) \in Int /\ Seconds(n) * Second <= AtLeast(n, 0)
        /\ (n >= Second => Seconds(n) >= 1)
    BY <1>5, SecondsType
  <1> HIDE DEF n
  <1>8. QED
    BY <1>2, <1>5, <1>6, <1>7 DEF AtLeast, Second

------------------------------------------------------------------------------
(* The steps *)

Same(d) ==
  /\ tool'[d] = tool[d] /\ pc'[d] = pc[d] /\ exec'[d] = exec[d]
  /\ outcome'[d] = outcome[d] /\ result'[d] = result[d]
  /\ tries'[d] = tries[d] /\ box'[d] = box[d] /\ code'[d] = code[d]

\* A step of one call leaves the others as they were.
LEMMA OneCall ==
  ASSUME IInv, NEW c \in Calls, FieldTypes', CallInv(c)',
         \A d \in Calls \ {c} : Same(d)
  PROVE  IInv'
  <1>1. ASSUME NEW d \in Calls \ {c}
        PROVE  CallInv(d)'
    BY <1>1, Parts DEF Same, CallInv, TimeInv, TriesInv, AnswerInv, Cap,
                       TimeIsBounded
  <1>2. (FieldTypes /\ \A d \in Calls : CallInv(d))'
    BY <1>1
  <1>3. QED
    BY <1>2 DEF IInv, TypeOK, NoSandboxLeftBehind, CleanUpIsSilent, FieldTypes,
                CallInv, Locations, Outcomes, Refusals

\* The initial state satisfies the invariant.
LEMMA InitIInv == Init => IInv
  BY DEF Init, IInv, TypeOK, NoSandboxLeftBehind, CleanUpIsSilent, TimeInv,
         TriesInv, AnswerInv, Refusals

\* A call is refused, or settles its time and orders a sandbox.
LEMMA BeginStep ==
  ASSUME IInv, NEW c \in Calls, Refuse(c) \/ Invoke(c)
  PROVE  IInv'
  <1>1. FieldTypes /\ CallInv(c)
    BY Parts
  <1>2. CASE Refuse(c)
    <2>1. PICK what \in Refusals : Done(c, what)
      BY <1>2 DEF Refuse, Refusals
    <2>2. FieldTypes' /\ \A d \in Calls \ {c} : Same(d)
      BY <1>1, <1>2, <2>1 DEF Refuse, Done, Goto, FieldTypes, Locations, Same
    <2>3. CallInv(c)'
      BY <1>1, <1>2, <2>1 DEF Refuse, Done, Goto, FieldTypes, Refusals, CallInv,
                              TimeInv, TriesInv, AnswerInv
    <2>4. QED
      BY <2>2, <2>3, OneCall
  <1>3. CASE Invoke(c)
    <2>1. /\ Cap(c) \in Int /\ ExecTimeout(c) \in Int
          /\ ExecTimeout(c) * Second <= AtLeast(Cap(c), 0)
          /\ Cap(c) >= Second => ExecTimeout(c) >= 1
      BY <1>1, <1>3, TimeType DEF FieldTypes, Invoke
    <2>2. FieldTypes' /\ \A d \in Calls \ {c} : Same(d)
      BY <1>1, <1>3, <2>1 DEF Invoke, Goto, FieldTypes, Locations, Same
    <2>3. CallInv(c)'
      BY <1>1, <1>3, <2>1 DEF Invoke, Goto, FieldTypes, Refusals, CallInv,
                              TimeInv, TriesInv, AnswerInv, Cap, TimeIsBounded
    <2>4. QED
      BY <2>2, <2>3, OneCall
  <1>4. QED
    BY <1>2, <1>3

\* create returns or raises.
LEMMA CreateStep ==
  ASSUME IInv, NEW c \in Calls, Created(c) \/ CreateFails(c)
  PROVE  IInv'
  <1>1. FieldTypes /\ CallInv(c)
    BY Parts
  <1>2. CASE Created(c)
    <2>1. FieldTypes' /\ \A d \in Calls \ {c} : Same(d)
      BY <1>1, <1>2 DEF Created, Goto, FieldTypes, Locations, Same
    <2>2. CallInv(c)'
      BY <1>1, <1>2 DEF Created, Goto, FieldTypes, Refusals, CallInv, TimeInv,
                        TriesInv, AnswerInv, Cap, TimeIsBounded
    <2>3. QED
      BY <2>1, <2>2, OneCall
  <1>3. CASE CreateFails(c)
    <2>1. PICK kind \in Kinds :
            outcome' = [outcome EXCEPT ![c] = kind] /\ Done(c, kind)
      BY <1>3 DEF CreateFails
    <2>2. FieldTypes' /\ \A d \in Calls \ {c} : Same(d)
      BY <1>1, <1>3, <2>1 DEF CreateFails, Done, Goto, FieldTypes, Locations,
                              Outcomes, Same
    <2>3. CallInv(c)'
      BY <1>1, <1>3, <2>1 DEF CreateFails, Done, Goto, FieldTypes, Refusals,
                              Kinds,
                              CallInv, TimeInv, TriesInv, AnswerInv
    <2>4. QED
      BY <2>2, <2>3, OneCall
  <1>4. QED
    BY <1>2, <1>3

\* The code returns or raises, and the sandbox is to be deleted.
LEMMA RunStep ==
  ASSUME IInv, NEW c \in Calls, RunReturns(c) \/ RunFails(c) \/ DeleteAgain(c)
  PROVE  IInv'
  <1>1. FieldTypes /\ CallInv(c) /\ Delete(c)
    BY Parts DEF RunReturns, RunFails, DeleteAgain
  <1>2. /\ UNCHANGED <<tool, exec, result, box, code>>
        /\ pc[c] \in {"run", "nap"} /\ pc' = [pc EXCEPT ![c] = "delete"]
        /\ tries' = [tries EXCEPT ![c] = @ + 1]
    BY DEF RunReturns, RunFails, DeleteAgain, Delete, Goto
  <1>3. PICK what \in Outcomes :
          /\ outcome' = [outcome EXCEPT ![c] = what]
          /\ what = "ok" => code[c] = "ran"
    <2>1. CASE RunReturns(c)
      BY <2>1 DEF RunReturns, Outcomes
    <2>2. CASE RunFails(c)
      BY <2>2 DEF RunFails, Outcomes, Kinds
    <2>3. CASE DeleteAgain(c)
      <3>1. outcome' = [outcome EXCEPT ![c] = outcome[c]]
        BY <1>1, <2>3 DEF DeleteAgain, FieldTypes
      <3>2. QED
        BY <1>1, <3>1 DEF FieldTypes, CallInv, AnswerInv
    <2>4. QED
      BY <2>1, <2>2, <2>3
  <1>4. tries[c] \in {0, 1}
    BY <1>1, <1>2 DEF CallInv, TriesInv
  <1>5. FieldTypes' /\ \A d \in Calls \ {c} : Same(d)
    BY <1>1, <1>2, <1>3, <1>4 DEF FieldTypes, Locations, Same
  <1>6. CallInv(c)'
    BY <1>1, <1>2, <1>3, <1>4 DEF FieldTypes, Refusals, CallInv, TimeInv,
                                  TriesInv,
                                  AnswerInv, Cap, TimeIsBounded
  <1>7. QED
    BY <1>5, <1>6, OneCall

\* The delete succeeds or fails, the first time or the second.
LEMMA DeleteStep ==
  ASSUME IInv, NEW c \in Calls, Deleted(c) \/ DeleteFails(c)
  PROVE  IInv'
  <1>1. FieldTypes /\ CallInv(c)
    BY Parts
  <1>2. UNCHANGED <<tool, exec, outcome, tries, box, code>> /\ pc[c] = "delete"
    BY DEF Deleted, DeleteFails
  <1>3. CASE Done(c, outcome[c]) /\ (box[c] = "deleted" \/ tries[c] = 2)
    <2>1. outcome[c] \in Outcomes
      BY <1>1 DEF FieldTypes
    <2>2. FieldTypes' /\ \A d \in Calls \ {c} : Same(d)
      BY <1>1, <1>2, <1>3, <2>1 DEF Done, Goto, FieldTypes, Locations, Same
    <2>3. CallInv(c)'
      BY <1>1, <1>2, <1>3, <2>1 DEF Done, Goto, FieldTypes, Refusals, Outcomes,
                                    Kinds,
                                    CallInv, TimeInv, TriesInv, AnswerInv, Cap, TimeIsBounded
    <2>4. QED
      BY <2>2, <2>3, OneCall
  <1>4. CASE Goto(c, "nap") /\ UNCHANGED result /\ tries[c] = 1
    <2>1. FieldTypes' /\ \A d \in Calls \ {c} : Same(d)
      BY <1>1, <1>2, <1>4 DEF Goto, FieldTypes, Locations, Same
    <2>2. CallInv(c)'
      BY <1>1, <1>2, <1>4 DEF Goto, FieldTypes, Refusals, CallInv, TimeInv,
                              TriesInv,
                              AnswerInv, Cap, TimeIsBounded
    <2>3. QED
      BY <2>1, <2>2, OneCall
  <1>5. QED
    BY <1>1, <1>2, <1>3, <1>4 DEF Deleted, DeleteFails, CallInv, TriesInv

\* Daytona makes the sandbox, runs the code, removes the sandbox.
LEMMA DaytonaStep ==
  ASSUME IInv, NEW c \in Calls, Make(c) \/ Execute(c) \/ Remove(c)
  PROVE  IInv'
  <1>1. FieldTypes /\ CallInv(c)
    BY Parts
  <1>2. FieldTypes' /\ \A d \in Calls \ {c} : Same(d)
    BY <1>1 DEF Make, Execute, Remove, FieldTypes, Same
  <1>3. CallInv(c)'
    BY <1>1 DEF Make, Execute, Remove, FieldTypes, CallInv, TimeInv, TriesInv,
                AnswerInv, Cap, TimeIsBounded, Refusals
  <1>4. QED
    BY <1>2, <1>3, OneCall

LEMMA StepIInv == IInv /\ [Next]_vars => IInv'
  <1> SUFFICES ASSUME IInv, [Next]_vars PROVE IInv'
    OBVIOUS
  <1>1. CASE UNCHANGED vars
    BY <1>1 DEF vars, IInv, TypeOK, NoSandboxLeftBehind, CleanUpIsSilent,
                TimeInv,
                TriesInv, AnswerInv, Cap, TimeIsBounded
  <1>2. CASE Next
    BY <1>2, BeginStep, CreateStep, RunStep, DeleteStep, DaytonaStep DEF Next,
                                                                         Step
  <1>3. QED
    BY <1>1, <1>2

\* The inductive invariant holds in every reachable state.
THEOREM Invariance == Spec => []IInv
  BY InitIInv, StepIInv, PTL DEF Spec

\* Types; and exec_timeout of invoke: whole seconds, within the cap in force and
\* not below one unless the cap is, whatever values, numbers or not, the model
\* asks for and the administrator has configured.
THEOREM TypeCorrectness == Spec => []TypeOK
  <1>1. IInv => TypeOK
    BY DEF IInv
  <1>2. QED
    BY <1>1, Invariance, PTL

\* _run's finally: a sandbox the gateway was given is deleted, or two deletes
\* failed, before the call is answered.
THEOREM SandboxDeleted == Spec => []NoSandboxLeftBehind
  <1>1. IInv => NoSandboxLeftBehind
    BY DEF IInv
  <1>2. QED
    BY <1>1, Invariance, PTL

\* What the clean-up comes to never changes the answer.
THEOREM SilentCleanUp == Spec => []CleanUpIsSilent
  <1>1. IInv => CleanUpIsSilent
    BY DEF IInv
  <1>2. QED
    BY <1>1, Invariance, PTL

------------------------------------------------------------------------------
(* The contract of a dispatcher *)

Budgets == [c \in Calls |-> 1]
Effect(c) == IF code[c] = "ran" THEN 1 ELSE 0
Effects == [c \in Calls |-> Effect(c)]
Phases == [c \in Calls |-> Phase(c)]

\* The phases of the contract, by place and outcome.
LEMMA PhaseCases ==
  ASSUME NEW place \in Locations, NEW told
  PROVE  /\ place = "new" => PhaseAt(place, told) = "new"
         /\ place \in Locations \ {"new", "done"}
              => PhaseAt(place, told) = "running"
         /\ place = "done" /\ told = "ok" => PhaseAt(place, told) = "returned"
         /\ place = "done" /\ told \in Refusals
              => PhaseAt(place, told) = "refused"
         /\ place = "done" /\ told \notin Refusals \union {"ok"}
              => PhaseAt(place, told) = "raised"
  BY DEF Locations, PhaseAt, Refusals

\* A step of the adapter or of Daytona, seen as one of a dispatcher.
LEMMA ContractStep ==
  ASSUME IInv, IInv', [Next]_vars
  PROVE  [Contract!Next]_(<<Budgets, Phases, Effects>>)
  <1>1. /\ FieldTypes /\ FieldTypes'
        /\ \A c \in Calls : CallInv(c)
    BY Parts, PTL
  <1>2. Budgets' = Budgets
    BY DEF Budgets
  <1>3. ASSUME UNCHANGED <<pc, result, code>>
        PROVE  UNCHANGED <<Budgets, Phases, Effects>>
    BY <1>2, <1>3 DEF Phases, Phase, Effects, Effect
  <1>4. ASSUME NEW c \in Calls, Effects' = Effects,
               \A d \in Calls \ {c} : pc'[d] = pc[d] /\ result'[d] = result[d],
               \/ Phase(c)' = Phase(c)
               \/ Phase(c) = "new" /\ Phase(c)' \in {"running", "refused"}
               \/ Phase(c) = "running" /\ Phase(c)' = "raised"
               \/ /\ Phase(c) = "running" /\ Phase(c)' = "returned"
                  /\ code[c] = "ran"
        PROVE  [Contract!Next]_(<<Budgets, Phases, Effects>>)
    <2>1. Phases' = [Phases EXCEPT ![c] = Phase(c)'] /\ Phases[c] = Phase(c)
      <3>1. \A d \in Calls \ {c} : Phase(d)' = Phase(d)
        BY <1>4 DEF Phase
      <3>2. QED
        BY <3>1 DEF Phases
    <2>2. CASE Phase(c)' = Phase(c)
      BY <1>2, <1>4, <2>1, <2>2 DEF Phases
    <2>3. CASE Phase(c) = "new" /\ Phase(c)' = "running"
      BY <1>2, <1>4, <2>1, <2>3
      DEF Contract!Next, Contract!Start, Contract!Move, Budgets, Phases, Effects,
          Effect
    <2>4. CASE Phase(c) = "new" /\ Phase(c)' = "refused"
      BY <1>2, <1>4, <2>1, <2>4
      DEF Contract!Next, Contract!Refuse, Contract!Move, Budgets, Phases, Effects,
          Effect
    <2>5. CASE Phase(c) = "running" /\ Phase(c)' = "raised"
      BY <1>2, <1>4, <2>1, <2>5
      DEF Contract!Next, Contract!Raise, Contract!Move, Budgets, Phases, Effects,
          Effect
    <2>6. CASE Phase(c) = "running" /\ Phase(c)' = "returned" /\ code[c] = "ran"
      <3>1. Effects[c] > 0
        BY <2>6 DEF Effects, Effect
      <3>2. Contract!Move(c, "running", "returned")
        BY <1>2, <1>4, <2>1, <2>6 DEF Contract!Move, Budgets, Phases, Effects,
                                      Effect
      <3>3. Contract!Return(c)
        BY <3>1, <3>2 DEF Contract!Return, Effects, Effect
      <3>4. QED
        BY <3>3 DEF Contract!Next
    <2>7. QED
      BY <1>4, <2>2, <2>3, <2>4, <2>5, <2>6
  <1>5. ASSUME NEW c \in Calls, NEW next \in Locations \ {"new", "done"},
               Goto(c, next), UNCHANGED result, pc[c] # "done",
               \A d \in Calls : code'[d] = "ran" <=> code[d] = "ran"
        PROVE  [Contract!Next]_(<<Budgets, Phases, Effects>>)
    <2>1. /\ Phase(c)' = "running" /\ Phase(c) \in {"new", "running"}
          /\ \A d \in Calls \ {c} : pc'[d] = pc[d]
      <3>1. pc'[c] = next /\ pc[c] \in Locations
        BY <1>1, <1>5 DEF Goto, FieldTypes
      <3>2. QED
        BY <1>1, <1>5, <3>1, PhaseCases DEF Goto, Phase, FieldTypes
    <2>2. Effects' = Effects
      BY <1>5 DEF Effects, Effect
    <2>3. QED
      BY <1>4, <1>5, <2>1, <2>2
  <1>6. ASSUME NEW c \in Calls, NEW what, Done(c, what), UNCHANGED code,
               \/ pc[c] = "new" /\ what \in Refusals
               \/ pc[c] \in Locations \ {"new", "done"} /\ what \notin Refusals,
               what = "ok" => code[c] = "ran"
        PROVE  [Contract!Next]_(<<Budgets, Phases, Effects>>)
    <2>1. /\ pc'[c] = "done" /\ result'[c] = what
          /\ \A d \in Calls \ {c} : pc'[d] = pc[d] /\ result'[d] = result[d]
      BY <1>1, <1>6 DEF Done, Goto, FieldTypes
    <2>2. \/ Phase(c) = "new" /\ Phase(c)' = "refused"
          \/ Phase(c) = "running" /\ Phase(c)' = "raised"
          \/ Phase(c) = "running" /\ Phase(c)' = "returned" /\ code[c] = "ran"
      BY <1>1, <1>6, <2>1, PhaseCases DEF Phase, Locations
    <2>3. Effects' = Effects
      BY <1>6 DEF Effects, Effect
    <2>4. QED
      BY <1>4, <2>1, <2>2, <2>3
  <1>7. ASSUME NEW c \in Calls, Execute(c)
        PROVE  [Contract!Next]_(<<Budgets, Phases, Effects>>)
    <2>1. pc[c] # "new" /\ result[c] \notin Refusals
      BY <1>1, <1>7 DEF Execute, CallInv, AnswerInv
    <2>2. Phases' = Phases /\ Phases[c] \in {"running", "returned", "raised"}
      <3>1. pc[c] \in Locations
        BY <1>1 DEF FieldTypes
      <3>2. QED
        BY <1>7, <2>1, <3>1, PhaseCases DEF Execute, Phases, Phase
    <2>3. Effects' = [Effects EXCEPT ![c] = @ + 1] /\ Effects[c] = 0
      <3>1. code[c] = "sent" /\ code' = [code EXCEPT ![c] = "ran"]
        BY <1>7 DEF Execute
      <3>2. QED
        <4>1. DOMAIN code = Calls /\ code[c] # "ran"
          BY <1>1, <3>1 DEF FieldTypes
        <4>2. /\ Effect(c) = 0 /\ Effect(c)' = 1
              /\ \A d \in Calls \ {c} : Effect(d)' = Effect(d)
          BY <3>1, <4>1 DEF Effect
        <4>3. QED
          <5>1. Effects[c] = 0
            BY <4>2 DEF Effects
          <5>2. Effects' = [d \in Calls |-> IF d = c THEN 1 ELSE Effects[d]]
            BY <4>2 DEF Effects
          <5>3. DOMAIN Effects = Calls
            BY DEF Effects
          <5>4. Effects[c] + 1 = 1
            BY <5>1
          <5>5. Effects' = [Effects EXCEPT ![c] = 1]
            BY <5>2, <5>3, Zenon
          <5>6. QED
            BY <5>1, <5>4, <5>5, Zenon
    <2>4. Contract!CarryOut(c)
      BY <1>2, <2>2, <2>3 DEF Contract!CarryOut, Budgets, Phases, Effects,
                              Effect
    <2>5. QED
      BY <2>4 DEF Contract!Next
  <1>8. ASSUME NEW c \in Calls, Step(c)
        PROVE  [Contract!Next]_(<<Budgets, Phases, Effects>>)
    <2>1. CASE Created(c)
      <3>1. \A d \in Calls : code'[d] = "ran" <=> code[d] = "ran"
        BY <1>1, <2>1 DEF Created, FieldTypes, CallInv, AnswerInv
      <3>2. QED
        BY <1>5, <2>1, <3>1 DEF Created, Locations
    <2>2. CASE CreateFails(c)
      BY <1>6, <2>2 DEF CreateFails, Locations, Kinds, Refusals
    <2>3. CASE RunReturns(c)
      BY <1>5, <2>3 DEF RunReturns, Delete, Locations
    <2>4. CASE RunFails(c)
      BY <1>5, <2>4 DEF RunFails, Delete, Locations
    <2>5. CASE DeleteAgain(c)
      BY <1>5, <2>5 DEF DeleteAgain, Delete, Locations
    <2>6. CASE Deleted(c) \/ DeleteFails(c)
      <3>1. outcome[c] \notin Refusals /\ (outcome[c] = "ok" => code[c] = "ran")
        <4>1. outcome[c] \in Outcomes
          BY <1>1 DEF FieldTypes
        <4>2. outcome[c] \notin Refusals
          BY <4>1 DEF Outcomes, Kinds, Refusals
        <4>3. QED
          BY <1>1, <4>2 DEF CallInv, AnswerInv
      <3>2. CASE Done(c, outcome[c])
        BY <1>6, <2>6, <3>1, <3>2 DEF Deleted, DeleteFails, Locations
      <3>3. CASE Goto(c, "nap") /\ UNCHANGED result
        BY <1>5, <2>6, <3>3 DEF Deleted, DeleteFails, Locations
      <3>4. QED
        BY <2>6, <3>2, <3>3 DEF Deleted, DeleteFails
    <2>7. QED
      BY <1>8, <2>1, <2>2, <2>3, <2>4, <2>5, <2>6 DEF Step
  <1>9. ASSUME NEW c \in Calls, Refuse(c) \/ Invoke(c)
        PROVE  [Contract!Next]_(<<Budgets, Phases, Effects>>)
    <2>1. CASE Refuse(c)
      BY <1>6, <2>1 DEF Refuse, Refusals
    <2>2. CASE Invoke(c)
      BY <1>5, <2>2 DEF Invoke, Locations
    <2>3. QED
      BY <1>9, <2>1, <2>2
  <1>10. ASSUME NEW c \in Calls, Make(c) \/ Remove(c)
         PROVE  [Contract!Next]_(<<Budgets, Phases, Effects>>)
    BY <1>3, <1>10 DEF Make, Remove
  <1>11. CASE UNCHANGED vars
    BY <1>3, <1>11 DEF vars
  <1>12. QED
    BY <1>7, <1>8, <1>9, <1>10, <1>11 DEF Next

\* The adapter implements the contract of a dispatcher with a budget of one:
\* code runs once at most, also after the gateway has stopped waiting, and no
\* result is returned of code that did not run.
THEOREM Refinement == Spec => KeepsContract
  <1>1. Init => Contract!Init
    <2> SUFFICES ASSUME Init PROVE Contract!Init
      OBVIOUS
    <2>1. \A c \in Calls : PhaseAt("new", "none") = "new"
      BY DEF PhaseAt
    <2>2. QED
      BY <2>1 DEF Init, Contract!Init, Phase
  <1>2. IInv /\ IInv' /\ [Next]_vars
          => [Contract!Next]_(<<Budgets, Phases, Effects>>)
    BY ContractStep
  <1>3. QED
    BY <1>1, <1>2, Invariance, PTL
    DEF Spec, KeepsContract, Contract!Spec, Contract!dispatchVars, Budgets,
        Phases, Effects, Effect
==============================================================================
