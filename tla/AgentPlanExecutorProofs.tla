---------------------- MODULE AgentPlanExecutorProofs ----------------------
(* The ExecutorAgent keeps the contract of a Plan, for every plan and any    *)
(* number of processes: each step of AgentPlanExecutor is a step of          *)
(* PlanContract or leaves the contract's variables unchanged.                *)
EXTENDS AgentPlanExecutor, TLAPS

Types ==
  /\ deps \in [Step -> SUBSET Name] /\ pc \in {"idle", "loop", "gather", "close"}
  /\ status \in [Step -> {"pending", "running", "success", "failed", "retrying"}]
  /\ call \in [Step -> {"none", "scheduled", "calling", "sleeping", "callingAgain"}]

\* The coroutine of a step and the step's status tell the same story.
CallMatchesStatus ==
  \A s \in Step :
    /\ call[s] = "none" => status[s] \in {"pending", "success", "failed"}
    /\ call[s] = "scheduled" => s \in ReadySteps
    /\ call[s] = "calling" => status[s] = "running"
    /\ call[s] \in {"sleeping", "callingAgain"} => status[s] = "retrying"

\* Steps run only inside a gather, and the plan is RUNNING inside a process.
Phases ==
  /\ pc # "gather" => Alive = {}
  /\ pc = "idle" <=> planStatus # "running"

IInv == Types /\ CallMatchesStatus /\ Phases

\* No step is in flight while the plan is outside a gather.
LEMMA QuietOutsideGather ==
  ASSUME IInv, Alive = {}
  PROVE  Contract!InFlight = {}
BY DEF IInv, Types, CallMatchesStatus, Alive, Contract!InFlight

\* Being ready is being PENDING with the dependencies fulfilled.
LEMMA ReadyIsFulfilled ==
  ASSUME IInv
  PROVE  ReadySteps = {s \in Step : status[s] = "pending" /\ Contract!Fulfilled(s)}
BY DEF IInv, Types, ReadySteps, Contract!Fulfilled

LEMMA InitEstablishes == Init => IInv
BY DependsOnAssumption
   DEF Init, IInv, Types, CallMatchesStatus, Phases, Alive

\* A step of one coroutine keeps the invariant: no dependency of a scheduled
\* step is undone, for a step that succeeded has no coroutine left.
LEMMA ExecuteStepPreserves ==
  ASSUME NEW s \in Step
  PROVE  IInv /\ ExecuteStep(s) => IInv'
<1> SUFFICES ASSUME IInv, ExecuteStep(s) PROVE IInv'
  OBVIOUS
<1>1. /\ UNCHANGED <<deps, pc, planStatus>>
      /\ call[s] # "none" /\ status[s] # "success"
      /\ \E c \in {"none", "calling", "sleeping", "callingAgain"},
            v \in {"running", "success", "failed", "retrying"} :
           /\ call' = [call EXCEPT ![s] = c] /\ status' = [status EXCEPT ![s] = v]
           /\ c = "none" => v \in {"success", "failed"}
           /\ c = "calling" => v = "running"
           /\ c \in {"sleeping", "callingAgain"} => v = "retrying"
  <2>1. CASE CallTool(s)
    BY <2>1 DEF CallTool, IInv, CallMatchesStatus, ReadySteps
  <2>2. CASE ToolReturns(s)
    BY <2>2 DEF ToolReturns, IInv, CallMatchesStatus
  <2>3. CASE ToolFails(s)
    BY <2>3 DEF ToolFails, IInv, CallMatchesStatus
  <2>4. CASE CallAgain(s)
    <3>1. status' = [status EXCEPT ![s] = "retrying"]
      BY <2>4 DEF CallAgain, IInv, CallMatchesStatus, Types
    <3> QED BY <2>4, <3>1 DEF CallAgain, IInv, CallMatchesStatus
  <2>5. CASE FailsAgain(s)
    BY <2>5 DEF FailsAgain, IInv, CallMatchesStatus
  <2> QED BY <2>1, <2>2, <2>3, <2>4, <2>5 DEF ExecuteStep
<1>2. Types'
  BY <1>1 DEF IInv, Types
<1>3. CallMatchesStatus'
  <2>1. \A t \in Step : call'[t] = "scheduled" => t \in ReadySteps'
    BY <1>1 DEF IInv, Types, CallMatchesStatus, ReadySteps
  <2> QED BY <1>1, <2>1 DEF IInv, Types, CallMatchesStatus
<1>4. Phases'
  BY <1>1 DEF IInv, Types, Phases, Alive
<1> QED BY <1>2, <1>3, <1>4 DEF IInv

LEMMA ExecutePlanPreserves == IInv /\ (Process \/ ExecutePlan) => IInv'
<1> SUFFICES ASSUME IInv, Process \/ ExecutePlan PROVE IInv'
  OBVIOUS
<1>1. CASE Process
  BY <1>1 DEF Process, IInv, Types, CallMatchesStatus, Phases, Alive, ReadySteps
<1>2. CASE StartRound
  <2>1. ReadySteps' = ReadySteps /\ Alive = {}
    BY <1>2 DEF StartRound, ReadySteps, IInv, Phases
  <2> QED
    BY <1>2, <2>1 DEF StartRound, IInv, Types, CallMatchesStatus, Phases, Alive
<1>3. CASE RoundEnds
  BY <1>3 DEF RoundEnds, IInv, Types, CallMatchesStatus, Phases, Alive, ReadySteps
<1>4. CASE GiveUp
  BY <1>4 DEF GiveUp, IInv, Types, CallMatchesStatus, Phases, Alive
<1>5. CASE ClosePlan
  BY <1>5 DEF ClosePlan, IInv, Types, CallMatchesStatus, Phases, Alive, ReadySteps
<1> QED BY <1>1, <1>2, <1>3, <1>4, <1>5 DEF ExecutePlan

\* The invariant that links coroutines, statuses and phases.
THEOREM Invariance == Spec => []IInv
<1>1. IInv /\ UNCHANGED vars => IInv'
  BY DEF vars, IInv, Types, CallMatchesStatus, Phases, Alive, ReadySteps
<1>2. IInv /\ [Next]_vars => IInv'
  BY <1>1, ExecutePlanPreserves, ExecuteStepPreserves DEF Next, Idle
<1> QED BY <1>2, InitEstablishes, PTL DEF Spec

\* Every step of a coroutine is a legal move of its step's status.
LEMMA ExecuteStepRefines ==
  ASSUME NEW s \in Step
  PROVE  IInv /\ ExecuteStep(s) => [Contract!Next]_(Contract!vars)
<1> SUFFICES ASSUME IInv, ExecuteStep(s) PROVE [Contract!Next]_(Contract!vars)
  OBVIOUS
<1>0. planStatus = "running"
  BY DEF IInv, Phases, Alive, Types, ExecuteStep, CallTool, ToolReturns, ToolFails,
         CallAgain, FailsAgain
<1>1. CASE CallTool(s)
  <2>1. status[s] = "pending" /\ Contract!Fulfilled(s)
    BY <1>1, ReadyIsFulfilled DEF CallTool, IInv, CallMatchesStatus
  <2>2. Contract!Start(s)
    BY <1>0, <1>1, <2>1 DEF CallTool, Contract!Start, Contract!Move
  <2> QED BY <2>2 DEF Contract!Next
<1>2. CASE ToolReturns(s)
  <2>1. Contract!Succeed(s)
    BY <1>0, <1>2
       DEF ToolReturns, IInv, CallMatchesStatus, Contract!Succeed, Contract!Move
  <2> QED BY <2>1 DEF Contract!Next
<1>3. CASE ToolFails(s)
  <2>1. Contract!Retry(s) \/ Contract!Fail(s)
    BY <1>0, <1>3
       DEF ToolFails, IInv, CallMatchesStatus, Contract!Retry, Contract!Fail, Contract!Move
  <2> QED BY <2>1 DEF Contract!Next
<1>4. CASE CallAgain(s)
  BY <1>4 DEF CallAgain, Contract!vars
<1>5. CASE FailsAgain(s)
  <2>1. Contract!Fail(s)
    BY <1>0, <1>5
       DEF FailsAgain, IInv, CallMatchesStatus, Contract!Fail, Contract!Move
  <2> QED BY <2>1 DEF Contract!Next
<1> QED BY <1>1, <1>2, <1>3, <1>4, <1>5 DEF ExecuteStep

\* Every turn of _execute_plan begins, writes off, closes or leaves the plan alone.
LEMMA ExecutePlanRefines ==
  IInv /\ (Process \/ ExecutePlan) => [Contract!Next]_(Contract!vars)
<1> SUFFICES ASSUME IInv, Process \/ ExecutePlan PROVE [Contract!Next]_(Contract!vars)
  OBVIOUS
<1>1. CASE Process
  <2>1. Contract!Begin
    BY <1>1 DEF Process, IInv, Phases, Contract!Begin
  <2> QED BY <2>1 DEF Contract!Next
<1>2. CASE StartRound \/ RoundEnds
  BY <1>2 DEF StartRound, RoundEnds, Contract!vars
<1>3. CASE GiveUp
  <2>1. planStatus = "running" /\ Contract!InFlight = {}
    BY <1>3, QuietOutsideGather DEF GiveUp, IInv, Phases
  <2>2. \A s \in Step : status[s] = "pending" => ~Contract!Fulfilled(s)
    BY <1>3, ReadyIsFulfilled DEF GiveUp
  <2>3. Contract!FailBlocked
    BY <1>3, <2>1, <2>2 DEF GiveUp, Contract!FailBlocked
  <2> QED BY <2>3 DEF Contract!Next
<1>4. CASE ClosePlan
  <2>1. planStatus = "running" /\ Contract!InFlight = {}
    BY <1>4, QuietOutsideGather DEF ClosePlan, IInv, Phases
  <2>2. Contract!Close
    BY <1>4, <2>1 DEF ClosePlan, IsSuccess, Contract!Close
  <2> QED BY <2>2 DEF Contract!Next
<1> QED BY <1>1, <1>2, <1>3, <1>4 DEF ExecutePlan

\* The ExecutorAgent implements the contract of a Plan.
THEOREM Refinement == Spec => ImplementsContract
<1>1. Init => Contract!Init
  BY DependsOnAssumption DEF Init, Contract!Init
<1>2. IInv /\ [Next]_vars => [Contract!Next]_(Contract!vars)
  <2> SUFFICES ASSUME IInv, [Next]_vars PROVE [Contract!Next]_(Contract!vars)
    OBVIOUS
  <2>1. CASE UNCHANGED vars
    BY <2>1 DEF vars, Contract!vars
  <2> QED
    BY <2>1, ExecutePlanRefines, ExecuteStepRefines DEF Next, Idle
<1> QED BY <1>1, <1>2, Invariance, PTL DEF Spec, ImplementsContract, Contract!Spec

-----------------------------------------------------------------------------
\* What is written off, and how often a tool is called.

\* How many calls and retries a step has had, by where it stands.
CallsMatch ==
  \A s \in Step :
    /\ retryCount[s] \in {0, 1} /\ calls[s] \in {0, 1, 2}
    /\ status[s] = "pending" => calls[s] = 0 /\ retryCount[s] = 0
    /\ call[s] = "calling" => calls[s] = 1 /\ retryCount[s] = 0
    /\ call[s] = "sleeping" => calls[s] = 1 /\ retryCount[s] = 1
    /\ call[s] = "callingAgain" => calls[s] = 2 /\ retryCount[s] = 1
    /\ status[s] = "success" => calls[s] > 0
    /\ call[s] = "none" => (calls[s] = 2 <=> retryCount[s] = 1)

\* A step that failed without a call was written off when all others had been
\* settled, and what it depends on cannot succeed any more.
SkippedAtTheEnd ==
  \A s \in Step : status[s] = "failed" /\ calls[s] = 0 =>
                  IsComplete /\ ~Contract!Fulfilled(s)

\* A plan that has been processed has no step left to do.
ProcessedIsComplete == pc = "close" \/ (pc = "idle" /\ processes # 0) => IsComplete

CountIInv == IInv /\ CallsMatch /\ SkippedAtTheEnd /\ ProcessedIsComplete

\* Calls and retries are counted.
CountTypes == retryCount \in [Step -> Nat] /\ calls \in [Step -> Nat]

LEMMA ExecuteStepCounts ==
  ASSUME CountIInv, CountTypes, NEW s \in Step, ExecuteStep(s)
  PROVE  CountTypes' /\ CallsMatch' /\ SkippedAtTheEnd' /\ ProcessedIsComplete'
<1>1. /\ call[s] # "none" /\ status[s] \in {"pending", "running", "retrying"}
      /\ UNCHANGED <<deps, pc, planStatus, processes>>
  BY DEF CountIInv, IInv, CallMatchesStatus, ReadySteps, ExecuteStep, CallTool, ToolReturns,
     ToolFails, CallAgain, FailsAgain
<1>2. ~IsComplete
  BY <1>1 DEF IsComplete
<1>3. \A t \in Step : t # s =>
        /\ status'[t] = status[t] /\ call'[t] = call[t]
        /\ calls'[t] = calls[t] /\ retryCount'[t] = retryCount[t]
  BY DEF CountIInv, IInv, Types, CountTypes, ExecuteStep, CallTool, ToolReturns, ToolFails,
     CallAgain, FailsAgain
<1>4. /\ CountTypes' /\ calls'[s] # 0
      /\ retryCount'[s] \in {0, 1} /\ calls'[s] \in {0, 1, 2}
      /\ status'[s] = "pending" => calls'[s] = 0 /\ retryCount'[s] = 0
      /\ call'[s] = "calling" => calls'[s] = 1 /\ retryCount'[s] = 0
      /\ call'[s] = "sleeping" => calls'[s] = 1 /\ retryCount'[s] = 1
      /\ call'[s] = "callingAgain" => calls'[s] = 2 /\ retryCount'[s] = 1
      /\ status'[s] = "success" => calls'[s] > 0
      /\ call'[s] = "none" => (calls'[s] = 2 <=> retryCount'[s] = 1)
  <2> USE DEF CountIInv, IInv, Types, CallMatchesStatus, CallsMatch, CountTypes
  <2>1. CASE CallTool(s)
    BY <2>1 DEF CallTool, ReadySteps
  <2>2. CASE ToolReturns(s)
    BY <2>2 DEF ToolReturns
  <2>3. CASE ToolFails(s)
    BY <2>3 DEF ToolFails, MaxRetries
  <2>4. CASE CallAgain(s)
    BY <2>4 DEF CallAgain
  <2>5. CASE FailsAgain(s)
    BY <2>5 DEF FailsAgain
  <2> QED BY <2>1, <2>2, <2>3, <2>4, <2>5 DEF ExecuteStep
<1>5. CallsMatch'
  BY <1>3, <1>4 DEF CountIInv, CallsMatch
<1>6. \A t \in Step : ~(status'[t] = "failed" /\ calls'[t] = 0)
  BY <1>2, <1>3, <1>4 DEF CountIInv, SkippedAtTheEnd
<1>7. ProcessedIsComplete'
  BY <1>1, <1>2 DEF CountIInv, ProcessedIsComplete
<1> QED BY <1>4, <1>5, <1>6, <1>7 DEF SkippedAtTheEnd

LEMMA ExecutePlanCounts ==
  ASSUME CountIInv, CountTypes, Process \/ ExecutePlan
  PROVE  CountTypes' /\ CallsMatch' /\ SkippedAtTheEnd' /\ ProcessedIsComplete'
<1>1. UNCHANGED <<deps, retryCount, calls>> /\ CountTypes'
  BY DEF CountTypes, Process, ExecutePlan, StartRound, RoundEnds, GiveUp, ClosePlan
<1>2. CASE GiveUp
  <2>1. Alive = {} /\ call' = call /\ pc' = "close" /\ UNCHANGED deps
    BY <1>2 DEF GiveUp, CountIInv, IInv, Phases
  <2>2. \A s \in Step : /\ status'[s] = IF status[s] = "pending" THEN "failed" ELSE status[s]
                        /\ call[s] = "none" /\ status[s] \in {"pending", "success", "failed"}
    BY <1>2, <2>1 DEF GiveUp, Alive, CountIInv, IInv, CallMatchesStatus
  <2>3. IsComplete'
    BY <2>2 DEF IsComplete
  <2>4. \A s \in Step : Contract!Fulfilled(s)' <=> Contract!Fulfilled(s)
    BY <2>1, <2>2 DEF Contract!Fulfilled
  <2>5. \A s \in Step : status[s] = "pending" => ~Contract!Fulfilled(s)
    BY <1>2, ReadyIsFulfilled DEF GiveUp, CountIInv
  <2>6. CallsMatch'
    BY <1>1, <2>1, <2>2 DEF CountIInv, CallsMatch
  <2>7. SkippedAtTheEnd'
    BY <1>1, <2>2, <2>3, <2>4, <2>5 DEF CountIInv, SkippedAtTheEnd
  <2> QED BY <1>1, <2>3, <2>6, <2>7 DEF ProcessedIsComplete
<1>3. CASE ~GiveUp
  <2>1. status' = status
    BY <1>3 DEF Process, ExecutePlan, StartRound, RoundEnds, ClosePlan
  <2>2. (IsComplete' <=> IsComplete) /\ \A s \in Step : Contract!Fulfilled(s)' <=> Contract!Fulfilled(s)
    BY <1>1, <2>1 DEF IsComplete, Contract!Fulfilled
  <2>3. \A s \in Step : call'[s] = "scheduled" \/ call'[s] = call[s]
                      \/ (call'[s] = "none" /\ call[s] = "none")
    <3>1. CASE StartRound
      <4>1. \A s \in Step : call[s] = "none"
        BY <3>1 DEF StartRound, CountIInv, IInv, Phases, Alive
      <4> QED BY <3>1, <4>1 DEF StartRound
    <3> QED BY <1>3, <3>1 DEF Process, ExecutePlan, RoundEnds, ClosePlan
  <2>4. CallsMatch'
    BY <1>1, <2>1, <2>3 DEF CountIInv, CallsMatch
  <2>5. SkippedAtTheEnd'
    BY <1>1, <2>1, <2>2 DEF CountIInv, SkippedAtTheEnd
  <2>6. ProcessedIsComplete'
    BY <1>3, <2>2 DEF Process, ExecutePlan, StartRound, RoundEnds, ClosePlan, CountIInv,
       ProcessedIsComplete
  <2> QED BY <1>1, <2>4, <2>5, <2>6
<1> QED BY <1>2, <1>3

\* Whatever the dependency lists -- cycles and unknown ids too -- and however
\* often a plan is processed: a step that a closed plan failed without calling
\* its tool could not have run, and a tool is called twice only for a retry.
THEOREM WrittenOffIsBlocked == Spec => []WrittenOffOnlyIfBlocked
<1> DEFINE J == CountTypes /\ CallsMatch /\ SkippedAtTheEnd /\ ProcessedIsComplete
<1>1. Init => J
  BY DEF Init, CountTypes, CallsMatch, SkippedAtTheEnd, ProcessedIsComplete
<1>2. IInv /\ J /\ [Next]_vars => J'
  <2> SUFFICES ASSUME IInv, J, [Next]_vars PROVE J'
    OBVIOUS
  <2>1. CASE UNCHANGED vars
    BY <2>1 DEF vars, CountTypes, CallsMatch, SkippedAtTheEnd, ProcessedIsComplete, IsComplete,
       Contract!Fulfilled
  <2>2. CountIInv
    BY DEF CountIInv
  <2> QED BY <2>1, <2>2, ExecuteStepCounts, ExecutePlanCounts DEF Next, Idle
<1>3. IInv /\ J => WrittenOffOnlyIfBlocked
  <2> SUFFICES ASSUME IInv, J, pc = "idle", processes > 0, NEW s \in Step
               PROVE  /\ calls[s] = 0 => ~Contract!Fulfilled(s)
                      /\ calls[s] = 2 <=> retryCount[s] = 1
    BY DEF WrittenOffOnlyIfBlocked
  <2>1. IsComplete
    BY DEF ProcessedIsComplete
  <2>2. status[s] \in {"success", "failed"} /\ call[s] = "none"
    BY <2>1 DEF IsComplete, IInv, Phases, Alive
  <2> QED BY <2>2 DEF CallsMatch, SkippedAtTheEnd
<1> HIDE DEF J
<1>4. Spec => []J
  BY <1>1, <1>2, Invariance, PTL DEF Spec
<1> QED BY <1>3, <1>4, Invariance, PTL
=============================================================================
