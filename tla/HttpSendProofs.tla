---------------------------- MODULE HttpSendProofs ---------------------------
(***************************************************************************)
(* What is proved about HttpSend, for any set of calls, any pool, and any  *)
(* configuration of retries.  The inductive invariant is IInv of HttpSend. *)
(***************************************************************************)
EXTENDS HttpSend, TLAPS

Locations == {"new", "connect", "sent", "pause", "backoff", "done"}

\* The number of retries is a natural number, and none for a call made with
\* the user's token.
LEMMA RetriesNat ==
  ASSUME TypeOK, NEW c \in Calls
  PROVE  /\ Retries(c) \in Nat
         /\ conf[c].mode = "user_passthrough" => Retries(c) = 0
  <1>1. conf[c].retries \in Int \union {Absent}
    BY HttpSendAssumption DEF TypeOK
  <1>2. RetriesByConfig(c) \in Nat
    BY <1>1, HttpSendAssumption DEF RetriesByConfig, NonNegative
  <1>3. QED
    BY <1>2 DEF Retries

\* _interpret names a kind of DispatchError, or "ok" for a 2xx alone.
LEMMA InterpretType ==
  ASSUME NEW s \in Statuses
  PROVE  /\ Interpret(s) \in (Kinds \ Refusals) \union {"ok"}
         /\ Interpret(s) = "ok" => s = "2xx"
  BY DEF Statuses, Interpret, Kinds, Refusals

\* How long a call may go on depends on its tool alone.
LEMMA RetriesFixed == UNCHANGED conf => \A c \in Calls : Retries(c)' = Retries(c)
  BY DEF Retries, RetriesByConfig

\* The initial state satisfies the invariant.
LEMMA InitIInv == Init => IInv
  <1> SUFFICES ASSUME Init PROVE IInv
    OBVIOUS
  <1>1. conf \in [Calls -> [mode : Modes, retries : Configured \union {Absent}]]
    BY DEF Init
  <1>2. \A c \in Calls : Retries(c) \in Nat
    <2> SUFFICES ASSUME NEW c \in Calls PROVE Retries(c) \in Nat
      OBVIOUS
    <2>1. conf[c].retries \in Int \union {Absent}
      BY <1>1, HttpSendAssumption
    <2>2. QED
      BY <2>1, HttpSendAssumption DEF Retries, RetriesByConfig, NonNegative
  <1>3. TypeOK
    BY <1>1, <1>2 DEF Init, TypeOK, Endings
  <1>4. CountInv /\ ResultInv /\ TellsTheLastEnding /\ UsesEveryAttempt
    BY DEF Init, CountInv, InFlight, ResultInv, Refusals, TellsTheLastEnding,
           UsesEveryAttempt
  <1>5. QED
    BY <1>3, <1>4 DEF IInv

\* Every step keeps the invariant.
LEMMA StepIInv == IInv /\ [Next]_vars => IInv'
  <1> SUFFICES ASSUME IInv, [Next]_vars PROVE IInv'
    OBVIOUS
  <1> USE DEF IInv
  <1>1. CASE UNCHANGED vars
    BY <1>1 DEF vars, TypeOK, CountInv, InFlight, ResultInv, TellsTheLastEnding,
                UsesEveryAttempt, Retries, RetriesByConfig
  <1>2. ASSUME NEW c \in Calls, Misconfigured(c) PROVE IInv'
    <2> PICK kind \in Refusals : Done(c, kind)
      BY <1>2 DEF Misconfigured
    <2>1. TypeOK'
      BY <1>2, RetriesFixed DEF Misconfigured, Done, Goto, TypeOK, Kinds
    <2>2. CountInv'
      BY <1>2 DEF Misconfigured, Done, Goto, TypeOK, CountInv, InFlight
    <2>3. ResultInv'
      BY <1>2 DEF Misconfigured, Done, Goto, TypeOK, ResultInv, Refusals
    <2>4. TellsTheLastEnding' /\ UsesEveryAttempt'
      <3>1. last[c] = "none"
        BY <1>2 DEF Misconfigured, CountInv, ResultInv
      <3>2. QED
        BY <1>2, <3>1, RetriesFixed
        DEF Misconfigured, Done, Goto, TypeOK, TellsTheLastEnding,
            UsesEveryAttempt, Retryable
    <2>5. QED
      BY <2>1, <2>2, <2>3, <2>4
  <1>3. ASSUME NEW c \in Calls, Invoke(c) PROVE IInv'
    BY <1>3, RetriesFixed
    DEF Invoke, Goto, TypeOK, CountInv, InFlight, ResultInv, TellsTheLastEnding,
        UsesEveryAttempt
  <1>4. ASSUME NEW c \in Calls, Request(c) PROVE IInv'
    BY <1>4, RetriesFixed
    DEF Request, Goto, TypeOK, CountInv, InFlight, ResultInv, Refusals,
        TellsTheLastEnding, UsesEveryAttempt
  <1>5. ASSUME NEW c \in Calls, NEW how \in Endings,
               pc[c] \in {"connect", "sent"}, Ended(c, how),
               how \in {"timeout", "broken", "502"},
               NEW next \in {"pause", "backoff"}, AttemptsLeft(c), Again(c, next)
        PROVE  IInv'
    <2>1. Retries(c) \in Nat
      BY RetriesNat
    <2>2. TypeOK'
      BY <1>5, <2>1, RetriesFixed DEF Ended, Again, Goto, AttemptsLeft, TypeOK
    <2>3. CountInv'
      BY <1>5 DEF Ended, Again, Goto, TypeOK, CountInv, InFlight
    <2>4. ResultInv' /\ TellsTheLastEnding'
      BY <1>5 DEF Ended, Again, Goto, TypeOK, CountInv, ResultInv, Refusals,
                  TellsTheLastEnding
    <2>5. UsesEveryAttempt'
      BY <1>5, RetriesFixed DEF Ended, Again, Goto, TypeOK, UsesEveryAttempt
    <2>6. QED
      BY <2>2, <2>3, <2>4, <2>5
  <1>6. ASSUME NEW c \in Calls, NEW how \in Endings \ {"none"},
               pc[c] \in {"connect", "sent"}, Ended(c, how),
               NEW kind \in (Kinds \ Refusals) \union {"ok"}, Done(c, kind),
               kind = "ok" => request[c] = "ran",
               how \in {"timeout", "broken"} \union Retryable => ~AttemptsLeft(c),
               kind = CASE how = "timeout" -> "upstream_timeout"
                        [] how = "broken" -> "upstream_error"
                        [] OTHER -> Interpret(how)
        PROVE  IInv'
    <2>1. TypeOK'
      BY <1>6, RetriesFixed DEF Ended, Done, Goto, TypeOK
    <2>2. CountInv'
      BY <1>6 DEF Ended, Done, Goto, TypeOK, CountInv, InFlight
    <2>3. ResultInv'
      BY <1>6 DEF Ended, Done, Goto, TypeOK, CountInv, ResultInv, Refusals,
                  Kinds
    <2>4. TellsTheLastEnding'
      BY <1>6 DEF Ended, Done, Goto, TypeOK, TellsTheLastEnding, Interpret
    <2>5. UsesEveryAttempt'
      BY <1>6, RetriesNat, RetriesFixed
      DEF Ended, Done, Goto, TypeOK, AttemptsLeft, UsesEveryAttempt
    <2>6. QED
      BY <2>1, <2>2, <2>3, <2>4, <2>5
  <1>7. ASSUME NEW c \in Calls, TimedOut(c) PROVE IInv'
    BY <1>5, <1>6, <1>7 DEF TimedOut, Endings, Kinds, Refusals
  <1>8. ASSUME NEW c \in Calls, Broken(c) PROVE IInv'
    BY <1>5, <1>6, <1>8 DEF Broken, Endings, Kinds, Refusals
  <1>9. ASSUME NEW c \in Calls, NEW s \in Statuses, Answered(c, s) PROVE IInv'
    <2>1. CASE s \in Retryable /\ AttemptsLeft(c)
      BY <1>5, <1>9, <2>1 DEF Answered, Retryable, Endings
    <2>2. CASE ~(s \in Retryable /\ AttemptsLeft(c))
      <3>1. Done(c, Interpret(s)) /\ s \notin {"timeout", "broken", "none"}
        BY <1>9, <2>2 DEF Answered, Statuses
      <3>2. QED
        BY <1>6, <1>9, <2>2, <3>1, InterpretType DEF Answered, Endings
    <2>3. QED
      BY <2>1, <2>2
  <1>10. ASSUME NEW c \in Calls, PauseEnds(c) PROVE IInv'
    BY <1>10, RetriesFixed
    DEF PauseEnds, Goto, TypeOK, CountInv, InFlight, ResultInv,
        TellsTheLastEnding, UsesEveryAttempt
  <1>11. ASSUME NEW c \in Calls, BackoffEnds(c) PROVE IInv'
    <2>1. ~(attempt[c] > Retries(c))
      BY RetriesNat DEF TypeOK
    <2>2. QED
      BY <1>11, <2>1, RetriesFixed
      DEF BackoffEnds, Goto, TypeOK, CountInv, InFlight, ResultInv,
          TellsTheLastEnding, UsesEveryAttempt
  <1>12. ASSUME NEW c \in Calls, Run(c) PROVE IInv'
    BY <1>12, RetriesFixed
    DEF Run, TypeOK, CountInv, InFlight, ResultInv, TellsTheLastEnding,
        UsesEveryAttempt
  <1>13. ASSUME NEW c \in Calls, RunLate(c) PROVE IInv'
    BY <1>13, RetriesFixed
    DEF RunLate, TypeOK, CountInv, InFlight, ResultInv, TellsTheLastEnding,
        UsesEveryAttempt
  <1>14. QED
    BY <1>1, <1>2, <1>3, <1>4, <1>7, <1>8, <1>9, <1>10, <1>11, <1>12, <1>13
    DEF Next, LoopStep

\* The inductive invariant holds for every set of calls, every pool and
\* every configuration of retries.
THEOREM Invariance == Spec => []IInv
  <1>1. QED
    BY InitIInv, StepIInv, PTL DEF Spec

\* The variables keep their types, and attempt never passes the retries: the
\* test behind the pause of _send is never true.
THEOREM TypeCorrectness == Spec => []TypeOK
  <1>1. IInv => TypeOK
    BY DEF IInv
  <1>2. QED
    BY <1>1, Invariance, PTL

\* A call with the user's token is carried out at most once: it is sent once
\* and what was sent is run once, whether or not the gateway still waits.
THEOREM UserActionOnce == Spec => []NeverReplaysUserAction
  <1>1. IInv => NeverReplaysUserAction
    <2> SUFFICES ASSUME IInv, NEW c \in Calls, conf[c].mode = "user_passthrough"
                 PROVE  ran[c] <= 1
      BY DEF NeverReplaysUserAction
    <2>1. Retries(c) = 0 /\ attempt[c] = 0
      BY RetriesNat DEF IInv, TypeOK
    <2>2. ran[c] \in Nat /\ late[c] \in Nat /\ sends[c] \in Nat
          /\ InFlight(c) \in Nat
      BY DEF IInv, TypeOK, InFlight
    <2>3. sends[c] <= 1 /\ ran[c] + late[c] + InFlight(c) <= sends[c]
      BY <2>1, <2>2 DEF IInv, CountInv
    <2>4. QED
      BY <2>2, <2>3
  <1>2. QED
    BY <1>1, Invariance, PTL

\* The kind in the reply and in the audit row is that of the last request.
THEOREM LastEndingTold == Spec => []TellsTheLastEnding
  <1>1. IInv => TellsTheLastEnding
    BY DEF IInv
  <1>2. QED
    BY <1>1, Invariance, PTL

\* No call gives up on a timeout, a broken connection or a 502, 503 or 504
\* before it has used every retry its tool allows.
THEOREM GivesUpAsConfigured == Spec => []UsesEveryAttempt
  <1>1. IInv => UsesEveryAttempt
    BY DEF IInv
  <1>2. QED
    BY <1>1, Invariance, PTL

\* Nothing is sent after an answer that is not 502, 503 or 504.
THEOREM AnswerIsFinal == Spec => AnAnswerIsFinal
  <1>1. ASSUME IInv, [Next]_vars, NEW c \in Calls, SendsAgain(c)
        PROVE  last[c] \in {"none", "timeout", "broken", "502"}
    <2>1. PICK d \in Calls : Request(d)
      <3>1. \A d \in Calls : sends[d] \in Nat
        BY <1>1 DEF IInv, TypeOK
      <3>2. UNCHANGED sends => FALSE
        BY <1>1, <3>1 DEF SendsAgain
      <3>3. QED
        BY <1>1, <3>2
        DEF Next, LoopStep, vars, Misconfigured, Invoke, TimedOut, Broken,
            Answered, Ended, PauseEnds, BackoffEnds, Run, RunLate
    <2>2. pc[c] = "connect"
      BY <1>1, <2>1 DEF Request, SendsAgain, IInv, TypeOK
    <2>3. QED
      BY <1>1, <2>2 DEF IInv, ResultInv
  <1>2. IInv /\ [Next]_vars =>
          [\A c \in Calls : SendsAgain(c) =>
             last[c] \in {"none", "timeout", "broken", "502"}]_vars
    BY <1>1
  <1>3. QED
    BY <1>2, Invariance, PTL DEF Spec, AnAnswerIsFinal

\* The phases of the contract, by place and outcome.
LEMMA PhaseCases ==
  ASSUME NEW place \in Locations, NEW outcome
  PROVE  /\ place = "new" => PhaseAt(place, outcome) = "new"
         /\ place \in Locations \ {"new", "done"}
              => PhaseAt(place, outcome) = "running"
         /\ place = "done" /\ outcome = "ok"
              => PhaseAt(place, outcome) = "returned"
         /\ place = "done" /\ outcome \in Refusals
              => PhaseAt(place, outcome) = "refused"
         /\ place = "done" /\ outcome \notin Refusals \union {"ok"}
              => PhaseAt(place, outcome) = "raised"
  BY DEF Locations, Refusals, PhaseAt

\* Seen as a dispatcher, a step of the adapter is a step of the contract or
\* none.
Budgets == [c \in Calls |-> Retries(c) + 1]
Phases == [c \in Calls |-> Phase(c)]

LEMMA ContractStep ==
  ASSUME IInv, IInv', [Next]_vars
  PROVE  [Contract!Next]_(<<Budgets, Phases, ran>>)
  <1>1. \A c \in Calls : /\ pc[c] \in Locations /\ pc'[c] \in Locations
                         /\ Retries(c) \in Nat
                         /\ attempt[c] \in Nat /\ attempt[c] <= Retries(c)
                         /\ ran[c] \in Nat /\ late[c] \in Nat /\ sends[c] \in Nat
    BY RetriesNat DEF IInv, TypeOK, Locations
  <1>2. DOMAIN ran = Calls /\ DOMAIN pc = Calls /\ DOMAIN result = Calls
    BY DEF IInv, TypeOK
  <1>3. ASSUME UNCHANGED <<conf, ran, pc, result>>
        PROVE  UNCHANGED <<Budgets, Phases, ran>>
    BY <1>3 DEF Budgets, Phases, Phase, Retries, RetriesByConfig
  <1>4. Budgets' = Budgets
    <2>1. conf' = conf
      BY DEF Next, LoopStep, vars, Misconfigured, Invoke, Request, TimedOut,
             Broken, Answered, Ended, PauseEnds, BackoffEnds, Run, RunLate
    <2>2. QED
      BY <2>1 DEF Budgets, Retries, RetriesByConfig
  <1>5. ASSUME NEW c \in Calls, UNCHANGED ran,
               \A d \in Calls \ {c} : pc'[d] = pc[d] /\ result'[d] = result[d],
               \/ Phase(c)' = Phase(c)
               \/ Phase(c) = "new" /\ Phase(c)' \in {"running", "refused"}
               \/ Phase(c) = "running" /\ Phase(c)' = "raised"
               \/ /\ Phase(c) = "running" /\ Phase(c)' = "returned"
                  /\ ran[c] > 0
        PROVE  [Contract!Next]_(<<Budgets, Phases, ran>>)
    <2>1. Phases' = [Phases EXCEPT ![c] = Phase(c)']
      <3>1. \A d \in Calls \ {c} : Phase(d)' = Phase(d)
        BY <1>5 DEF Phase
      <3>2. QED
        BY <3>1 DEF Phases
    <2>2. Phases[c] = Phase(c)
      BY DEF Phases
    <2>3. CASE Phase(c)' = Phase(c)
      BY <1>4, <1>5, <2>1, <2>2, <2>3 DEF Phases
    <2>4. CASE Phase(c) = "new" /\ Phase(c)' \in {"running", "refused"}
      BY <1>4, <1>5, <2>1, <2>2, <2>4
      DEF Contract!Next, Contract!Start, Contract!Refuse, Contract!Move,
          Budgets, Phases
    <2>5. CASE Phase(c) = "running" /\ Phase(c)' = "raised"
      BY <1>4, <1>5, <2>1, <2>2, <2>5
      DEF Contract!Next, Contract!Raise, Contract!Move, Budgets, Phases
    <2>6. CASE Phase(c) = "running" /\ Phase(c)' = "returned" /\ ran[c] > 0
      BY <1>4, <1>5, <2>1, <2>2, <2>6
      DEF Contract!Next, Contract!Return, Contract!Move, Budgets, Phases
    <2>7. QED
      BY <1>5, <2>3, <2>4, <2>5, <2>6
  <1>6. ASSUME NEW c \in Calls, UNCHANGED <<pc, result>>,
               pc[c] \in Locations \ {"new"}, result[c] \notin Refusals,
               ran[c] < Retries(c) + 1,
               ran' = [ran EXCEPT ![c] = @ + 1]
        PROVE  [Contract!Next]_(<<Budgets, Phases, ran>>)
    <2>1. Phases' = Phases
      BY <1>6 DEF Phases, Phase
    <2>2. Phases[c] \in {"running", "returned", "raised"}
      BY <1>6, PhaseCases DEF Phases, Phase, Locations
    <2>3. Budgets[c] = Retries(c) + 1
      BY DEF Budgets
    <2>4. Contract!CarryOut(c)
      BY <1>4, <1>6, <2>1, <2>2, <2>3 DEF Contract!CarryOut, Budgets, Phases
    <2>5. QED
      BY <2>4 DEF Contract!Next
  <1>7. ASSUME NEW c \in Calls, Misconfigured(c)
        PROVE  [Contract!Next]_(<<Budgets, Phases, ran>>)
    <2>1. Phase(c) = "new" /\ Phase(c)' = "refused"
      BY <1>1, <1>2, <1>7, PhaseCases DEF Misconfigured, Done, Goto, Phase,
                                          Running, Locations
    <2>2. QED
      BY <1>2, <1>5, <1>7, <2>1 DEF Misconfigured, Done, Goto
  <1>8. ASSUME NEW c \in Calls, Invoke(c)
        PROVE  [Contract!Next]_(<<Budgets, Phases, ran>>)
    <2>1. Phase(c) = "new" /\ Phase(c)' = "running"
      BY <1>1, <1>2, <1>8, PhaseCases DEF Invoke, Goto, Phase, Running,
                                          Locations
    <2>2. QED
      BY <1>2, <1>5, <1>8, <2>1 DEF Invoke, Goto
  <1>9. ASSUME NEW c \in Calls, UNCHANGED <<ran, result>>, Running(c),
               NEW next \in {"connect", "sent", "pause", "backoff"}, Goto(c, next)
        PROVE  [Contract!Next]_(<<Budgets, Phases, ran>>)
    <2>1. Phase(c) = "running" /\ Phase(c)' = "running"
      BY <1>1, <1>2, <1>9, PhaseCases DEF Goto, Phase, Running, Locations
    <2>2. QED
      BY <1>2, <1>5, <1>9, <2>1 DEF Goto
  <1>10. ASSUME NEW c \in Calls, UNCHANGED ran, Running(c),
                NEW kind, kind \notin Refusals, Done(c, kind),
                kind = "ok" => ran[c] > 0
         PROVE  [Contract!Next]_(<<Budgets, Phases, ran>>)
    <2>1. /\ Phase(c) = "running"
          /\ Phase(c)' = IF kind = "ok" THEN "returned" ELSE "raised"
      BY <1>1, <1>2, <1>10, PhaseCases DEF Done, Goto, Phase, Running, Locations
    <2>2. QED
      BY <1>2, <1>5, <1>10, <2>1 DEF Done, Goto
  <1>11. ASSUME NEW c \in Calls, Request(c) \/ PauseEnds(c)
         PROVE  [Contract!Next]_(<<Budgets, Phases, ran>>)
    BY <1>9, <1>11 DEF Request, PauseEnds, Running
  <1>12. ASSUME NEW c \in Calls, TimedOut(c) \/ Broken(c)
         PROVE  [Contract!Next]_(<<Budgets, Phases, ran>>)
    <2>1. Running(c) /\ UNCHANGED ran
      BY <1>12 DEF TimedOut, Broken, Ended, Running
    <2>2. CASE AttemptsLeft(c)
      BY <1>9, <1>12, <2>1, <2>2 DEF TimedOut, Broken, Again
    <2>3. CASE ~AttemptsLeft(c)
      BY <1>10, <1>12, <2>1, <2>3 DEF TimedOut, Broken, Refusals
    <2>4. QED
      BY <2>2, <2>3
  <1>13. ASSUME NEW c \in Calls, NEW s \in Statuses, Answered(c, s)
         PROVE  [Contract!Next]_(<<Budgets, Phases, ran>>)
    <2>1. Running(c) /\ UNCHANGED ran
      BY <1>13 DEF Answered, Ended, Running
    <2>2. CASE s \in Retryable /\ AttemptsLeft(c)
      BY <1>9, <1>13, <2>1, <2>2 DEF Answered, Again
    <2>3. CASE ~(s \in Retryable /\ AttemptsLeft(c))
      <3>1. Done(c, Interpret(s)) /\ Interpret(s) \notin Refusals
        BY <1>13, <2>3, InterpretType DEF Answered, Refusals
      <3>2. Interpret(s) = "ok" => ran[c] > 0
        BY <1>13, InterpretType DEF Answered, IInv, ResultInv
      <3>3. QED
        BY <1>10, <2>1, <3>1, <3>2
    <2>4. QED
      BY <2>2, <2>3
  <1>14. ASSUME NEW c \in Calls, BackoffEnds(c)
         PROVE  [Contract!Next]_(<<Budgets, Phases, ran>>)
    <2>1. ~(attempt[c] > Retries(c))
      BY <1>1
    <2>2. QED
      BY <1>9, <1>14, <2>1 DEF BackoffEnds, Running
  <1>15. ASSUME NEW c \in Calls, Run(c)
         PROVE  [Contract!Next]_(<<Budgets, Phases, ran>>)
    <2>1. pc[c] = "sent" /\ result[c] = "none" /\ sends[c] <= attempt[c] + 1
          /\ ran[c] + late[c] + 1 <= sends[c]
      BY <1>15 DEF Run, IInv, CountInv, ResultInv, InFlight
    <2>2. ran[c] < Retries(c) + 1
      BY <1>1, <2>1
    <2>3. QED
      BY <1>6, <1>15, <2>1, <2>2 DEF Run, Locations, Refusals
  <1>16. ASSUME NEW c \in Calls, RunLate(c)
         PROVE  [Contract!Next]_(<<Budgets, Phases, ran>>)
    <2>1. InFlight(c) \in Nat /\ ran[c] + late[c] + InFlight(c) <= sends[c]
          /\ sends[c] <= attempt[c] + 1 /\ late[c] > 0
      BY <1>1, <1>16 DEF RunLate, IInv, CountInv, InFlight
    <2>2. ran[c] < Retries(c) + 1 /\ sends[c] > 0
      BY <1>1, <2>1
    <2>3. pc[c] # "new" /\ result[c] \notin Refusals
      BY <2>2 DEF IInv, ResultInv
    <2>4. QED
      BY <1>1, <1>6, <1>16, <2>2, <2>3 DEF RunLate
  <1>17. CASE UNCHANGED vars
    BY <1>3, <1>17 DEF vars
  <1>18. QED
    BY <1>7, <1>8, <1>11, <1>12, <1>13, <1>14, <1>15, <1>16, <1>17
    DEF Next, LoopStep

\* The adapter implements the contract of a dispatcher: a call is carried out
\* at most once per attempt, and a result is never made up.
THEOREM Refinement == Spec => KeepsContract
  <1>1. Init => Contract!Init
    <2> SUFFICES ASSUME Init PROVE Contract!Init
      OBVIOUS
    <2>1. TypeOK
      BY InitIInv DEF IInv
    <2>2. \A c \in Calls : Retries(c) + 1 \in Nat
      BY <2>1, RetriesNat
    <2>3. QED
      BY <2>2 DEF Init, Contract!Init, Phase, PhaseAt
  <1>2. IInv /\ IInv' /\ [Next]_vars
          => [Contract!Next]_(<<Budgets, Phases, ran>>)
    BY ContractStep
  <1>3. QED
    BY <1>1, <1>2, Invariance, PTL
    DEF Spec, KeepsContract, Contract!Spec, Contract!dispatchVars, Budgets,
        Phases
==============================================================================
