------------------------- MODULE PlanExecutorProofs -------------------------
(* The safety of Executor.arun, for every plan, every retry count and every  *)
(* choice of steps that may be cancelled: the engine it drives is the proved *)
(* one, so that its invariant holds here, and the statuses of the steps      *)
(* follow the coroutines of the nodes.  Last, arun implements PlanContract.  *)
EXTENDS PlanExecutor, FiniteSetTheorems, TLAPS

\* The proofs about Graph.execute, for the graph arun builds.
Engine == INSTANCE WorkflowGraphProofs WITH
  Node <- Step, Cond <- {"dependency", "fallback"}, Result <- StepResults,
  Topology <- {PlanToGraph(p) : p \in Plans},
  Verdicts <- EdgeVerdicts, MaxRetries <- Retries

\* The statuses the code gives a step and a plan.
PlanTypes ==
  /\ plan \in Plans /\ edges = PlanToGraph(plan)
  /\ planStatus \in {"pending", "running", "success", "failed"}
  /\ status \in [Step -> {"pending", "running", "retrying", "success", "failed"}]
  /\ retryCount \in [Step -> Nat]
  /\ calls \in [Step -> Nat]

\* arun is inside execute while the plan is RUNNING, and closes it after.
PlanFollowsGraph ==
  /\ planStatus = "pending" <=> phase = "build"
  /\ planStatus \in {"success", "failed"} => phase = "done"

\* What the step says, given where its coroutine stands.
Unstarted(s) == status[s] = "pending" /\ attempts[s] = 0 /\ retryCount[s] = 0 /\ calls[s] = 0
AtWork(s) == /\ retryCount[s] = attempts[s]
             /\ \/ status[s] = "running" /\ calls[s] = attempts[s] + 1
                \/ status[s] = "success" /\ calls[s] = attempts[s]
Backoff(s) == /\ status[s] = "retrying" /\ retryCount[s] = attempts[s]
              /\ calls[s] = attempts[s]
HandedBack(s) ==
  \/ status[s] = "success" /\ result[s] \in {"ok", "__SKIPPED__"}
  \/ status[s] = "failed" /\ result[s] = "__FAILED__" /\ calls[s] = Retries[s] + 1
  \/ status[s] = "running" /\ result[s] = CancelledError
StepFollowsNode ==
  \A s \in Step :
    /\ run[s] \in {"idle", "scheduled"} => Unstarted(s)
    /\ run[s] = "running" => AtWork(s)
    /\ run[s] = "sleeping" => Backoff(s)
    /\ run[s] = "returned" => HandedBack(s)
    /\ run[s] = "raised" => status[s] = "failed"
    /\ calls[s] <= Retries[s] + 1

\* An open edge was let through by its condition: a fallback edge by the marker
\* of failure, a dependency edge by anything else.
OpenedPassed == \A e \in opened : e.cond = "fallback" <=> result[e.source] = "__FAILED__"

IInv == PlanTypes /\ PlanFollowsGraph /\ StepFollowsNode /\ OpenedPassed
-----------------------------------------------------------------------------
\* The values of a function on a finite set are finitely many.
LEMMA ImageIsFinite ==
  ASSUME NEW S, IsFiniteSet(S), NEW f
  PROVE  IsFiniteSet({f[x] : x \in S})
<1> DEFINE T == {f[x] : x \in S}
           g == [x \in S |-> f[x]]
<1>1. g \in Surjection(S, T)
  BY DEF Surjection
<1> HIDE DEF T, g
<1>2. IsFiniteSet(T)
  BY <1>1, FS_Surjection
<1> QED BY <1>2 DEF T

\* The graph of a plan meets the assumptions of the engine: it is finite, and
\* each of its conditions gives a verdict on every result.
LEMMA PlanGraphIsFinite ==
  ASSUME NEW p \in Plans
  PROVE  PlanToGraph(p) \subseteq Engine!Edge /\ IsFiniteSet(PlanToGraph(p))
<1>1. /\ p.dependsOn \in [Step -> SUBSET Name]
      /\ p.onFailure \in [Step -> {"abort", "retry"} \union Name]
      /\ \A s \in Step : IsFiniteSet(p.dependsOn[s])
  BY PlanAssumption
<1>2. PlanToGraph(p) \subseteq Engine!Edge
  <2>1. DependencyEdges(p) \subseteq Engine!Edge
    BY <1>1, StepAssumption DEF DependencyEdges, Engine!Edge
  <2>2. FallbackEdges(p) \subseteq Engine!Edge
    BY <1>1, StepAssumption DEF FallbackEdges, HasFallback, Engine!Edge
  <2> QED BY <2>1, <2>2 DEF PlanToGraph
<1>3. IsFiniteSet(DependencyEdges(p))
  <2> DEFINE Into(s) == {[source |-> d, target |-> s, cond |-> "dependency"] :
                           d \in p.dependsOn[s]}
             into == [s \in Step |-> Into(s)]
             Parts == {into[s] : s \in Step}
  <2>1. \A s \in Step : IsFiniteSet(Into(s))
    <3> SUFFICES ASSUME NEW s \in Step PROVE IsFiniteSet(Into(s))
      OBVIOUS
    <3> DEFINE edge == [d \in p.dependsOn[s] |->
                          [source |-> d, target |-> s, cond |-> "dependency"]]
    <3>1. IsFiniteSet({edge[d] : d \in p.dependsOn[s]})
      <4>1. IsFiniteSet(p.dependsOn[s])
        BY <1>1
      <4> HIDE DEF edge
      <4> QED BY <4>1, ImageIsFinite
    <3>2. Into(s) = {edge[d] : d \in p.dependsOn[s]}
      OBVIOUS
    <3> QED BY <3>1, <3>2
  <2>2. IsFiniteSet(Parts)
    <3> HIDE DEF into
    <3> QED BY StepAssumption, ImageIsFinite
  <2>3. \A T \in Parts : IsFiniteSet(T)
    BY <2>1
  <2>4. IsFiniteSet(UNION Parts)
    <3> HIDE DEF Parts
    <3> QED BY <2>2, <2>3, FS_UNION
  <2>5. DependencyEdges(p) = UNION Parts
    BY DEF DependencyEdges
  <2> QED BY <2>4, <2>5
<1>4. IsFiniteSet(FallbackEdges(p))
  <2> DEFINE Handed == {t \in Step : HasFallback(p, t)}
             edge == [s \in Handed |->
                        [source |-> s, target |-> p.onFailure[s], cond |-> "fallback"]]
  <2>1. IsFiniteSet(Handed)
    BY StepAssumption, FS_Subset
  <2>2. IsFiniteSet({edge[s] : s \in Handed})
    <3> HIDE DEF edge, Handed
    <3> QED BY <2>1, ImageIsFinite
  <2>3. FallbackEdges(p) = {edge[s] : s \in Handed}
    BY DEF FallbackEdges
  <2> QED BY <2>2, <2>3
<1> QED BY <1>2, <1>3, <1>4, FS_Union DEF PlanToGraph

LEMMA RetriesType == Retries \in [Step -> Nat]
BY RetriesAssumption DEF Retries, DefaultRetries

LEMMA EngineAssumptions ==
  /\ Engine!NodeAssumption /\ Engine!TopologyAssumption
  /\ Engine!VerdictAssumption /\ Engine!RetryAssumption
<1>1. Engine!NodeAssumption
  BY StepAssumption DEF Engine!NodeAssumption, Engine!IsFiniteSet, IsFiniteSet
<1>2. Engine!TopologyAssumption
  <2>1. \A S : IsFiniteSet(S) <=> Engine!IsFiniteSet(S)
    BY DEF Engine!IsFiniteSet, IsFiniteSet
  <2> QED BY <2>1, PlanGraphIsFinite DEF Engine!TopologyAssumption
<1>3. Engine!VerdictAssumption
  BY DEF Engine!VerdictAssumption, EdgeVerdicts
<1>4. Engine!RetryAssumption
  BY RetriesType DEF Engine!RetryAssumption
<1> QED BY <1>1, <1>2, <1>3, <1>4

\* Every step of arun is a step of the engine, or leaves the graph alone.
LEMMA StepRunsGraph == [Next]_vars => [Engine!Next]_Engine!vars
<1> SUFFICES ASSUME Next PROVE [Engine!Next]_Engine!vars
  BY DEF vars, graphVars, Engine!vars
<1>1. CASE Begin
  BY <1>1 DEF Begin, Graph!Build, Engine!Build, Graph!In, Engine!In, Graph!Cardinality,
     Engine!Cardinality, Graph!nodeVars, Engine!nodeVars, Engine!Loop, Engine!Next
<1>2. CASE GraphTurn
  <2>1. CASE Graph!StartRound
    BY <2>1 DEF Graph!StartRound, Engine!StartRound, Graph!Ready, Engine!Ready, Graph!Settled,
       Engine!Settled, Graph!MaxIterations, Engine!MaxIterations, Graph!Cardinality,
       Engine!Cardinality, Engine!Loop, Engine!Next
  <2>2. CASE Graph!GiveUp
    BY <2>2 DEF Graph!GiveUp, Engine!GiveUp, Graph!Ready, Engine!Ready, Graph!Settled,
       Engine!Settled, Graph!MaxIterations, Engine!MaxIterations, Graph!Cardinality,
       Engine!Cardinality, Graph!nodeVars, Engine!nodeVars, Engine!Loop, Engine!Next
  <2>3. CASE Graph!Finish
    BY <2>3 DEF Graph!Finish, Engine!Finish, Graph!Settled, Engine!Settled, Graph!nodeVars,
       Engine!nodeVars, Engine!Loop, Engine!Next
  <2>4. CASE Graph!CollectRound
    <3>1. /\ Graph!Round = Engine!Round /\ Graph!Finished = Engine!Finished
          /\ Graph!Returned = Engine!Returned
      BY DEF Graph!Round, Engine!Round, Graph!Started, Engine!Started, Graph!Settled,
         Engine!Settled, Graph!Finished, Engine!Finished, Graph!Returned, Engine!Returned
    <3>2. Graph!TakenChoices = Engine!TakenChoices
      BY <3>1 DEF Graph!TakenChoices, Engine!TakenChoices, Graph!Out, Engine!Out,
         Graph!MayBe, Engine!MayBe
    <3>3. \A taken : Graph!Settle(taken) => Engine!Settle(taken)
      BY <3>1 DEF Graph!Settle, Engine!Settle, Graph!Cardinality, Engine!Cardinality
    <3> QED BY <2>4, <3>1, <3>2, <3>3 DEF Graph!CollectRound, Engine!CollectRound,
            Graph!nodeVars, Engine!nodeVars, Engine!Loop, Engine!Next
  <2> QED BY <1>2, <2>1, <2>2, <2>3, <2>4 DEF GraphTurn
<1>3. CASE \E s \in Step : RunStep(s)
  <2> PICK s \in Step : RunStep(s)
    BY <1>3
  <2>1. Graph!Invoke(s) => Engine!RunNode(s)
    BY DEF Graph!Invoke, Engine!Invoke, Graph!loopVars, Engine!loopVars, Engine!RunNode
  <2>2. \A r \in StepResults : Graph!Return(s, r) => Engine!RunNode(s)
    BY DEF Graph!Return, Engine!Return, Graph!loopVars, Engine!loopVars, Engine!RunNode
  <2>3. Graph!Fail(s) => Engine!RunNode(s)
    BY DEF Graph!Fail, Engine!Fail, Graph!loopVars, Engine!loopVars, Engine!RunNode
  <2>4. Graph!Cancel(s) => Engine!RunNode(s)
    BY DEF Graph!Cancel, Engine!Cancel, Graph!Return, Engine!Return, Graph!loopVars,
       Engine!loopVars, Engine!RunNode
  <2>5. Engine!RunNode(s)
    BY <2>1, <2>2, <2>3, <2>4 DEF RunStep, CallTool, SkipStep, ReturnSkipped, ToolReturns,
       ToolFails, ToolCancelled, StepResults
  <2> QED BY <2>5 DEF Engine!Next
<1>4. CASE ClosePlan \/ Over
  BY <1>4 DEF ClosePlan, Over, vars, graphVars, Engine!vars
<1> QED BY <1>1, <1>2, <1>3, <1>4 DEF Next, Arun

\* Inside arun, Graph.execute runs as it does on its own.
THEOREM RunsTheEngine == Spec => Engine!Spec
<1>1. Init => Engine!Init
  BY DEF Init, Graph!Init, Engine!Init
<1> QED BY <1>1, StepRunsGraph, PTL DEF Spec, Engine!Spec

LEMMA EngineIsSafe == Spec => []Engine!IInv
<1>1. Engine!Spec => []Engine!IInv
  BY EngineAssumptions, Engine!Safety
     DEF Engine!NodeAssumption, Engine!TopologyAssumption, Engine!VerdictAssumption,
         Engine!RetryAssumption
<1> QED BY <1>1, RunsTheEngine, PTL
-----------------------------------------------------------------------------
\* What the engine's invariant says about the coroutines, in the plan's terms.
LEMMA EngineTypes ==
  ASSUME Engine!IInv
  PROVE  /\ phase \in {"build", "loop", "gather"} \union Graph!Ended
         /\ run \in [Step -> {"idle", "scheduled", "running", "sleeping",
                              "returned", "raised"}]
         /\ attempts \in [Step -> Nat]
         /\ result \in [Step -> StepResults \union {CancelledError}]
         /\ opened \subseteq edges
         /\ executed \subseteq Step /\ failed \subseteq Step
BY DEF Engine!IInv, Engine!TypeOK, Engine!Ended, Graph!Ended

LEMMA EngineSets ==
  ASSUME Engine!IInv
  PROVE  /\ \A s \in executed : run[s] = "returned"
         /\ \A s \in failed : run[s] \in {"idle", "raised"}
         /\ \A e \in opened : e.source \in executed
         /\ \A s \in Step : run[s] # "idle" =>
              \A e \in edges : e.target = s => e \in opened /\ e.source \in executed
         /\ phase \notin {"gather", "conditionError"} =>
              \A s \in Step : run[s] # "idle" => s \in executed \union failed
         /\ \A s \in Step : attempts[s] <= Retries[s] \/ run[s] = "raised"
<1>1. \A s \in failed : run[s] \in {"idle", "raised"}
  BY DEF Engine!IInv, Engine!SetsMatchRuns, Engine!Started, Engine!TypeOK
<1>2. /\ \A s \in executed : run[s] = "returned"
      /\ \A e \in opened : e.source \in executed
  BY DEF Engine!IInv, Engine!SetsMatchRuns, Engine!OpenedAfterSource
<1>3. \A s \in Step : run[s] # "idle" =>
        \A e \in edges : e.target = s => e \in opened /\ e.source \in executed
  BY DEF Engine!IInv, Engine!DependencyOrder, Engine!Started, Engine!In
<1>4. phase \notin {"gather", "conditionError"} =>
        \A s \in Step : run[s] # "idle" => s \in executed \union failed
  BY DEF Engine!IInv, Engine!BetweenRounds, Engine!Started, Engine!Settled
<1>5. \A s \in Step : attempts[s] <= Retries[s] \/ run[s] = "raised"
  BY DEF Engine!IInv, Engine!RetryBudget
<1> QED BY <1>1, <1>2, <1>3, <1>4, <1>5

\* A coroutine is alive only while execute gathers a round.
LEMMA AliveInGather ==
  ASSUME Engine!IInv, NEW s \in Step, run[s] \in {"scheduled", "running", "sleeping"}
  PROVE  phase \in {"gather", "conditionError"} /\ s \notin executed
BY EngineSets

LEMMA InitEstablishes == Init => IInv
<1> SUFFICES ASSUME Init PROVE IInv
  OBVIOUS
<1>1. PlanTypes /\ PlanFollowsGraph
  BY DEF Init, Graph!Init, PlanTypes, PlanFollowsGraph
<1>2. StepFollowsNode
  BY RetriesType DEF Init, Graph!Init, StepFollowsNode, Unstarted
<1>3. OpenedPassed
  BY DEF Init, Graph!Init, OpenedPassed
<1> QED BY <1>1, <1>2, <1>3 DEF IInv

LEMMA BeginPreserves == IInv /\ Begin => IInv'
<1> SUFFICES ASSUME IInv, Begin PROVE IInv'
  OBVIOUS
<1> USE DEF IInv
<1>0. /\ UNCHANGED <<edges, opened, run, attempts, result, plan, status, retryCount, calls>>
      /\ planStatus' = "running" /\ phase' \in {"unknownNode", "loop"}
  BY DEF Begin, Graph!Build, Graph!nodeVars, stepVars
<1>1. PlanTypes' /\ PlanFollowsGraph'
  BY <1>0 DEF PlanTypes, PlanFollowsGraph
<1>2. StepFollowsNode' /\ OpenedPassed'
  BY <1>0 DEF StepFollowsNode, Unstarted, AtWork, Backoff, HandedBack, OpenedPassed
<1> QED BY <1>1, <1>2

\* The loop of execute starts nodes and opens edges; it touches no step.
LEMMA GraphTurnPreserves == IInv /\ Engine!IInv /\ GraphTurn => IInv'
<1> SUFFICES ASSUME IInv, Engine!IInv, GraphTurn PROVE IInv'
  OBVIOUS
<1> USE DEF IInv
<1>0. /\ UNCHANGED <<edges, attempts, result, plan, planStatus, status, retryCount, calls>>
      /\ planStatus = "running"
      /\ phase # "build" /\ phase' # "build"
  BY DEF GraphTurn, Graph!StartRound, Graph!GiveUp, Graph!Finish, Graph!CollectRound,
     Graph!Settle, Graph!nodeVars, stepVars
<1>1. PlanTypes' /\ PlanFollowsGraph'
  BY <1>0 DEF PlanTypes, PlanFollowsGraph
<1>2. \A s \in Step : \/ run'[s] = run[s]
                      \/ run[s] = "idle" /\ run'[s] = "scheduled"
  <2>1. CASE Graph!StartRound
    <3> SUFFICES ASSUME NEW s \in Step, run'[s] # run[s]
                 PROVE  run[s] = "idle" /\ run'[s] = "scheduled"
      OBVIOUS
    <3>1. s \in Graph!Ready /\ run'[s] = "scheduled" /\ phase = "loop"
      BY <2>1, EngineTypes DEF Graph!StartRound
    <3>2. s \notin executed \union failed
      BY <3>1 DEF Graph!Ready, Graph!Settled
    <3> QED BY <3>1, <3>2, EngineSets
  <2>2. CASE ~Graph!StartRound
    BY <2>2 DEF GraphTurn, Graph!GiveUp, Graph!Finish, Graph!CollectRound, Graph!nodeVars
  <2> QED BY <2>1, <2>2
<1>3. StepFollowsNode'
  BY <1>0, <1>2 DEF StepFollowsNode, Unstarted, AtWork, Backoff, HandedBack
<1>4. OpenedPassed'
  <2>1. CASE Graph!CollectRound
    <3>1. PICK taken \in Graph!TakenChoices : Graph!Settle(taken)
      BY <2>1 DEF Graph!CollectRound
    <3>2. \A e \in taken : e.cond = "fallback" <=> result[e.source] = "__FAILED__"
      <4> SUFFICES ASSUME NEW e \in taken
                   PROVE  e.cond = "fallback" <=> result[e.source] = "__FAILED__"
        OBVIOUS
      <4>1. e \in edges /\ e.source \in Step /\ Graph!MayBe(e, "pass")
        BY <3>1 DEF Graph!TakenChoices, Graph!Out, Graph!Returned, Graph!Round, Graph!Started
      <4>2. e.cond \in {"dependency", "fallback"}
        BY <4>1 DEF PlanTypes, PlanToGraph, DependencyEdges, FallbackEdges
      <4>3. <<e.cond, result[e.source]>>
              \in {"dependency", "fallback"} \X (StepResults \union {CancelledError})
        BY <4>1, <4>2, EngineTypes
      <4> QED BY <4>1, <4>3 DEF Graph!MayBe, EdgeVerdicts
    <3>3. opened' = opened \union taken
      BY <3>1 DEF Graph!Settle
    <3> QED BY <1>0, <3>2, <3>3 DEF OpenedPassed
  <2>2. CASE ~Graph!CollectRound
    BY <1>0, <2>2 DEF GraphTurn, Graph!StartRound, Graph!GiveUp, Graph!Finish, OpenedPassed
  <2> QED BY <2>1, <2>2
<1> QED BY <1>1, <1>3, <1>4

\* What a move of the coroutine of s leaves alone.
LEMMA RunStepFrame ==
  ASSUME NEW s \in Step, RunStep(s), Engine!IInv, IInv
  PROVE  /\ UNCHANGED <<edges, phase, executed, failed, opened, plan, planStatus>>
         /\ run[s] \in {"scheduled", "running", "sleeping"}
         /\ run' = [run EXCEPT ![s] = run'[s]]
         /\ result' = [result EXCEPT ![s] = result'[s]]
         /\ attempts' = [attempts EXCEPT ![s] = attempts'[s]]
         /\ status' = [status EXCEPT ![s] = status'[s]]
         /\ retryCount' = [retryCount EXCEPT ![s] = retryCount'[s]]
         /\ calls' = [calls EXCEPT ![s] = calls'[s]]
<1> USE EngineTypes DEF IInv, PlanTypes, Graph!loopVars, stepVars
<1>1. CASE CallTool(s) \/ SkipStep(s)
  BY <1>1 DEF CallTool, SkipStep, Graph!Invoke
<1>2. CASE ReturnSkipped(s) \/ ToolReturns(s) \/ ToolCancelled(s)
  BY <1>2 DEF ReturnSkipped, ToolReturns, ToolCancelled, Graph!Cancel, Graph!Return
<1>3. CASE ToolFails(s)
  BY <1>3 DEF ToolFails, Graph!Return, Graph!Fail
<1> QED BY <1>1, <1>2, <1>3 DEF RunStep

\* After it the step says again what its coroutine does.
LEMMA RunStepAgrees ==
  ASSUME NEW s \in Step, RunStep(s), Engine!IInv, IInv
  PROVE  /\ status'[s] \in {"pending", "running", "retrying", "success", "failed"}
         /\ retryCount'[s] \in Nat /\ calls'[s] \in Nat
         /\ run'[s] \notin {"idle", "scheduled"}
         /\ run'[s] = "running" => AtWork(s)'
         /\ run'[s] = "sleeping" => Backoff(s)'
         /\ run'[s] = "returned" => HandedBack(s)'
         /\ run'[s] = "raised" => status'[s] = "failed"
         /\ calls'[s] <= Retries[s] + 1
<1> USE EngineTypes, RetriesType DEF IInv, PlanTypes
<1>1. attempts[s] <= Retries[s] /\ attempts[s] \in Nat /\ Retries[s] \in Nat
  BY RunStepFrame, EngineSets
<1>2. CASE CallTool(s)
  BY <1>1, <1>2 DEF CallTool, Graph!Invoke, StepFollowsNode, Unstarted, Backoff, AtWork
<1>3. CASE SkipStep(s)
  BY <1>1, <1>3 DEF SkipStep, Graph!Invoke, StepFollowsNode, Unstarted, Backoff, AtWork
<1>4. CASE ReturnSkipped(s)
  BY <1>1, <1>4 DEF ReturnSkipped, Graph!Return, StepFollowsNode, AtWork, HandedBack, stepVars
<1>5. CASE ToolReturns(s)
  BY <1>1, <1>5 DEF ToolReturns, Graph!Return, StepFollowsNode, AtWork, HandedBack
<1>6. CASE ToolCancelled(s)
  BY <1>1, <1>6 DEF ToolCancelled, Graph!Cancel, Graph!Return, StepFollowsNode, AtWork,
     HandedBack, stepVars
<1>7. CASE ToolFails(s)
  <2>1. /\ status[s] = "running" /\ run[s] = "running"
        /\ retryCount'[s] = attempts[s] + 1 /\ calls' = calls /\ calls[s] = attempts[s] + 1
    BY <1>7 DEF ToolFails, Graph!Return, Graph!Fail, StepFollowsNode, AtWork
  <2>2. CASE retryCount'[s] <= Retries[s]
    <3>1. Graph!Fail(s) /\ status'[s] = "retrying"
      BY <1>7, <2>2 DEF ToolFails
    <3> QED BY <1>1, <2>1, <2>2, <3>1 DEF Graph!Fail, Backoff
  <2>3. CASE ~(retryCount'[s] <= Retries[s])
    <3>1. status'[s] = "failed" /\ attempts[s] = Retries[s]
      BY <1>1, <1>7, <2>1, <2>3 DEF ToolFails
    <3>2. CASE HasFallback(plan, s)
      BY <1>1, <1>7, <2>1, <2>3, <3>1, <3>2 DEF ToolFails, Graph!Return, HandedBack
    <3>3. CASE ~HasFallback(plan, s)
      BY <1>1, <1>7, <2>1, <2>3, <3>1, <3>3 DEF ToolFails, Graph!Fail
    <3> QED BY <3>2, <3>3
  <2> QED BY <2>2, <2>3
<1> QED BY <1>2, <1>3, <1>4, <1>5, <1>6, <1>7 DEF RunStep

LEMMA RunStepPreserves ==
  ASSUME NEW s \in Step
  PROVE  IInv /\ Engine!IInv /\ RunStep(s) => IInv'
<1> SUFFICES ASSUME IInv, Engine!IInv, RunStep(s) PROVE IInv'
  OBVIOUS
<1> USE DEF IInv
<1>1. PlanTypes'
  BY RunStepFrame, RunStepAgrees DEF PlanTypes
<1>2. PlanFollowsGraph'
  BY RunStepFrame DEF PlanFollowsGraph
<1>3. StepFollowsNode'
  <2> SUFFICES ASSUME NEW t \in Step
               PROVE  /\ run'[t] \in {"idle", "scheduled"} => Unstarted(t)'
                      /\ run'[t] = "running" => AtWork(t)'
                      /\ run'[t] = "sleeping" => Backoff(t)'
                      /\ run'[t] = "returned" => HandedBack(t)'
                      /\ run'[t] = "raised" => status'[t] = "failed"
                      /\ calls'[t] <= Retries[t] + 1
    BY DEF StepFollowsNode
  <2>1. CASE t = s
    BY <2>1, RunStepAgrees
  <2>2. CASE t # s
    <3>1. /\ run'[t] = run[t] /\ result'[t] = result[t] /\ attempts'[t] = attempts[t]
          /\ status'[t] = status[t] /\ retryCount'[t] = retryCount[t]
          /\ calls'[t] = calls[t]
      BY <2>2, RunStepFrame, EngineTypes DEF PlanTypes
    <3> QED BY <3>1 DEF StepFollowsNode, Unstarted, AtWork, Backoff, HandedBack
  <2> QED BY <2>1, <2>2
<1>4. OpenedPassed'
  <2>1. s \notin executed /\ \A e \in opened : e.source \in executed
    BY RunStepFrame, AliveInGather, EngineSets
  <2>2. \A e \in opened : result'[e.source] = result[e.source]
    BY <2>1, RunStepFrame, EngineTypes
  <2> QED BY <2>2, RunStepFrame DEF OpenedPassed
<1> QED BY <1>1, <1>2, <1>3, <1>4

LEMMA ClosePreserves == IInv /\ (ClosePlan \/ UNCHANGED vars) => IInv'
<1> SUFFICES ASSUME IInv, ClosePlan \/ UNCHANGED vars PROVE IInv'
  OBVIOUS
<1> USE DEF IInv
<1>0. /\ UNCHANGED <<graphVars, plan, stepVars>>
      /\ \/ planStatus' = planStatus
         \/ planStatus' \in {"success", "failed"} /\ phase = "done"
  BY DEF ClosePlan, vars
<1>1. PlanTypes' /\ PlanFollowsGraph'
  BY <1>0 DEF PlanTypes, PlanFollowsGraph, graphVars, stepVars
<1>2. StepFollowsNode' /\ OpenedPassed'
  BY <1>0 DEF StepFollowsNode, Unstarted, AtWork, Backoff, HandedBack, OpenedPassed,
     graphVars, stepVars
<1> QED BY <1>1, <1>2

\* With the engine's, the invariant of the plan is inductive.
THEOREM Invariance == Spec => [](IInv /\ Engine!IInv)
<1>1. IInv /\ Engine!IInv /\ [Next]_vars => IInv'
  BY BeginPreserves, GraphTurnPreserves, RunStepPreserves, ClosePreserves DEF Next, Arun, Over
<1> QED BY <1>1, InitEstablishes, EngineIsSafe, PTL DEF Spec
-----------------------------------------------------------------------------
\* The step's retry counter and the graph's never drift apart.
THEOREM CountersNeverDrift == Spec => []RetryCountersAgree
<1>1. IInv /\ Engine!IInv => RetryCountersAgree
  <2> SUFFICES ASSUME IInv, Engine!IInv, NEW s \in Step
               PROVE  /\ run[s] = "raised" => status[s] = "failed"
                      /\ status[s] = "retrying" <=> run[s] = "sleeping"
                      /\ calls[s] <= Retries[s] + 1
    BY DEF RetryCountersAgree
  <2>1. run[s] \in {"idle", "scheduled", "running", "sleeping", "returned", "raised"}
    BY EngineTypes
  <2> QED BY <2>1 DEF IInv, StepFollowsNode, Unstarted, AtWork, Backoff, HandedBack
<1> QED BY <1>1, Invariance, PTL

\* When execute has returned, what the graph calls executed and failed is what
\* the steps say of themselves.
THEOREM ViewsNeverDisagree == Spec => []ViewsAgree
<1>1. IInv /\ Engine!IInv => ViewsAgree
  <2> SUFFICES ASSUME IInv, Engine!IInv, phase = "done" PROVE ViewsAgree
    BY DEF ViewsAgree
  <2>1. \A s \in failed : status[s] = IF s \in Graph!Started THEN "failed" ELSE "pending"
    BY EngineSets, EngineTypes DEF IInv, StepFollowsNode, Unstarted, Graph!Started
  <2>2. \A s \in executed : HandedBack(s) /\ run[s] = "returned" /\ s \in Step
    BY EngineSets, EngineTypes DEF IInv, StepFollowsNode
  <2> QED BY <2>1, <2>2 DEF ViewsAgree, HandedBack, Abandoned
<1> QED BY <1>1, Invariance, PTL

\* The edges of a plan's graph, as its steps declare them.
LEMMA PlanEdges ==
  ASSUME IInv, Engine!IInv
  PROVE  /\ \A s \in Step : \A d \in plan.dependsOn[s] :
              [source |-> d, target |-> s, cond |-> "dependency"] \in edges
         /\ \A s \in Step : HasFallback(plan, s) =>
              [source |-> s, target |-> plan.onFailure[s], cond |-> "fallback"] \in edges
BY DEF IInv, PlanTypes, PlanToGraph, DependencyEdges, FallbackEdges

\* A step that has started had its incoming edges opened by what came before.
LEMMA StartedAfterSources ==
  ASSUME IInv, Engine!IInv, NEW s \in Step, run[s] # "idle",
         NEW e \in edges, e.target = s
  PROVE  /\ e.source \in Step /\ run[e.source] = "returned" /\ HandedBack(e.source)
         /\ e.cond = "fallback" <=> result[e.source] = "__FAILED__"
<1>1. e \in opened /\ e.source \in executed
  BY EngineSets
<1>2. e.source \in Step /\ run[e.source] = "returned"
  BY <1>1, EngineSets, EngineTypes
<1> QED BY <1>1, <1>2 DEF IInv, StepFollowsNode, OpenedPassed

\* No fallback step runs before the step it stands in for is exhausted.
THEOREM FallbacksWait == Spec => []FallbackAfterExhaustion
<1>1. IInv /\ Engine!IInv => FallbackAfterExhaustion
  <2> SUFFICES ASSUME IInv, Engine!IInv, NEW s \in Step, NEW t \in Step,
                      HasFallback(plan, s), plan.onFailure[s] = t, status[t] # "pending"
               PROVE  status[s] = "failed" /\ calls[s] = Retries[s] + 1
    BY DEF FallbackAfterExhaustion
  <2> DEFINE e == [source |-> s, target |-> t, cond |-> "fallback"]
  <2>1. e \in edges /\ e.target = t /\ e.source = s /\ e.cond = "fallback"
    BY PlanEdges
  <2> HIDE DEF e
  <2>2. run[t] # "idle"
    BY DEF IInv, StepFollowsNode, Unstarted
  <2>3. result[s] = "__FAILED__" /\ HandedBack(s)
    BY <2>1, <2>2, StartedAfterSources
  <2> QED BY <2>3, CancelAssumption DEF HandedBack, StepResults
<1> QED BY <1>1, Invariance, PTL
-----------------------------------------------------------------------------
\* The statuses as PlanContract sees them.
Shown == [s \in Step |-> IF s \in Abandoned THEN "abandoned" ELSE status[s]]

\* A step that starts has everything it depends on.
LEMMA StartedIsFulfilled ==
  ASSUME IInv, Engine!IInv, NEW s \in Step, run[s] # "idle"
  PROVE  Contract!Fulfilled(s)
<1> SUFFICES ASSUME NEW d \in plan.dependsOn[s]
             PROVE  d \in Step /\ Shown[d] \in {"success", "abandoned"}
  BY DEF Contract!Fulfilled, Shown
<1> DEFINE e == [source |-> d, target |-> s, cond |-> "dependency"]
<1>1. e \in edges /\ e.target = s /\ e.source = d /\ e.cond = "dependency"
  BY PlanEdges
<1> HIDE DEF e
<1>2. /\ d \in Step /\ run[d] = "returned" /\ HandedBack(d)
      /\ result[d] # "__FAILED__"
  BY <1>1, StartedAfterSources
<1> QED BY <1>2 DEF HandedBack, Shown, Abandoned

\* A step's move shows as a move of its status, and of no other.
LEMMA RunStepShows ==
  ASSUME IInv, Engine!IInv, NEW s \in Step, RunStep(s)
  PROVE  /\ planStatus = "running"
         /\ UNCHANGED <<plan, planStatus>>
         /\ Shown[s] = status[s]
         /\ Shown' = [Shown EXCEPT ![s] =
              IF run'[s] = "returned" /\ result'[s] = CancelledError
              THEN "abandoned" ELSE status'[s]]
<1>1. run[s] \in {"scheduled", "running", "sleeping"} /\ phase \in {"gather", "conditionError"}
  BY RunStepFrame, AliveInGather
<1>2. planStatus = "running"
  BY <1>1 DEF IInv, PlanTypes, PlanFollowsGraph
<1>3. Shown[s] = status[s]
  BY <1>1 DEF Shown, Abandoned
<1>4. \A t \in Step : t # s => (t \in Abandoned' <=> t \in Abandoned) /\ status'[t] = status[t]
  BY RunStepFrame, EngineTypes DEF Abandoned, IInv, PlanTypes
<1>5. s \in Abandoned' <=> run'[s] = "returned" /\ result'[s] = CancelledError
  BY DEF Abandoned
<1>6. Shown' = [Shown EXCEPT ![s] =
        IF run'[s] = "returned" /\ result'[s] = CancelledError
        THEN "abandoned" ELSE status'[s]]
  BY <1>4, <1>5 DEF Shown
<1> QED BY <1>2, <1>3, <1>6, RunStepFrame

LEMMA RunStepImplements ==
  ASSUME IInv, Engine!IInv, NEW s \in Step, RunStep(s)
  PROVE  [Contract!Next]_Contract!vars
<1> DEFINE to == IF run'[s] = "returned" /\ result'[s] = CancelledError
                 THEN "abandoned" ELSE status'[s]
<1>0. /\ planStatus = "running" /\ UNCHANGED <<plan, planStatus>>
      /\ Shown[s] = status[s] /\ Shown' = [Shown EXCEPT ![s] = to]
  BY RunStepShows
<1>1. \A from, v : status[s] \in from /\ v = to => Contract!Move(s, from, v)
  BY <1>0 DEF Contract!Move, Shown
<1>2. CASE CallTool(s)
  <2>1. run[s] # "idle" /\ status[s] \in {"pending", "retrying"} /\ to = "running"
    BY <1>2, EngineTypes
       DEF CallTool, Graph!Invoke, IInv, PlanTypes, StepFollowsNode, Unstarted, Backoff
  <2>2. Contract!Start(s)
    BY <1>1, <2>1, StartedIsFulfilled DEF Contract!Start
  <2> QED BY <2>2 DEF Contract!Next
<1>3. CASE SkipStep(s)
  <2>1. run[s] # "idle" /\ status[s] \in {"pending", "retrying"} /\ to = "success"
    BY <1>3, EngineTypes
       DEF SkipStep, Graph!Invoke, IInv, PlanTypes, StepFollowsNode, Unstarted, Backoff
  <2>2. Contract!Skip(s)
    BY <1>1, <2>1, StartedIsFulfilled DEF Contract!Skip
  <2> QED BY <2>2 DEF Contract!Next
<1>4. CASE ReturnSkipped(s)
  <2>1. status' = status /\ result'[s] = "__SKIPPED__"
    BY <1>4, EngineTypes DEF ReturnSkipped, Graph!Return, stepVars
  <2>2. to = Shown[s]
    BY <1>0, <2>1, CancelAssumption DEF StepResults
  <2>3. Shown' = Shown
    BY <1>0, <2>2 DEF Shown
  <2> QED BY <1>0, <2>3 DEF Contract!vars, Shown
<1>5. CASE ToolReturns(s)
  <2>1. status[s] \in {"running", "retrying"} /\ to = "success"
    BY <1>5, EngineTypes, CancelAssumption
       DEF ToolReturns, Graph!Return, IInv, PlanTypes, StepResults
  <2>2. Contract!Succeed(s)
    BY <1>1, <2>1 DEF Contract!Succeed
  <2> QED BY <2>2 DEF Contract!Next
<1>6. CASE ToolCancelled(s)
  <2>1. status[s] \in {"running"} /\ to = "abandoned"
    BY <1>6, EngineTypes DEF ToolCancelled, Graph!Cancel, Graph!Return
  <2>2. Contract!Abandon(s)
    BY <1>1, <2>1 DEF Contract!Abandon
  <2> QED BY <2>2 DEF Contract!Next
<1>7. CASE ToolFails(s)
  <2>1. status[s] = "running"
    BY <1>7 DEF ToolFails
  <2>2. CASE retryCount'[s] <= Retries[s]
    <3>1. to = "retrying"
      BY <1>7, <2>2, EngineTypes DEF ToolFails, Graph!Fail, IInv, PlanTypes
    <3>2. Contract!Retry(s)
      BY <1>1, <2>1, <3>1 DEF Contract!Retry
    <3> QED BY <3>2 DEF Contract!Next
  <2>3. CASE ~(retryCount'[s] <= Retries[s])
    <3>1. to = "failed"
      BY <1>7, <2>3, EngineTypes, CancelAssumption
         DEF ToolFails, Graph!Fail, Graph!Return, IInv, PlanTypes, StepResults
    <3>2. Contract!Fail(s)
      BY <1>1, <2>1, <3>1 DEF Contract!Fail
    <3> QED BY <3>2 DEF Contract!Next
  <2> QED BY <2>2, <2>3
<1> QED BY <1>2, <1>3, <1>4, <1>5, <1>6, <1>7 DEF RunStep

\* The loop starts nodes and settles them: no status moves.
LEMMA ArunImplements ==
  ASSUME IInv, Engine!IInv, Arun
  PROVE  [Contract!Next]_Contract!vars
<1>1. CASE Begin
  <2>1. UNCHANGED <<run, result, plan, status>> /\ planStatus = "pending" /\ planStatus' = "running"
    BY <1>1 DEF Begin, Graph!Build, Graph!nodeVars, stepVars
  <2>2. Shown' = Shown
    BY <2>1 DEF Shown, Abandoned
  <2>3. Contract!Begin
    BY <2>1, <2>2 DEF Contract!Begin, Shown
  <2> QED BY <2>3 DEF Contract!Next
<1>2. CASE GraphTurn
  <2>1. UNCHANGED <<result, plan, planStatus, status>>
    BY <1>2 DEF GraphTurn, Graph!StartRound, Graph!GiveUp, Graph!Finish, Graph!CollectRound,
       Graph!nodeVars, stepVars
  <2>2. \A s \in Step : run'[s] = "returned" <=> run[s] = "returned"
    <3>1. CASE Graph!StartRound
      <4> SUFFICES ASSUME NEW s \in Graph!Ready, phase = "loop" PROVE run[s] # "returned"
        BY <3>1, EngineTypes DEF Graph!StartRound
      <4>1. s \in Step /\ s \notin executed \union failed
        BY DEF Graph!Ready, Graph!Settled
      <4> QED BY <4>1, EngineSets
    <3>2. CASE ~Graph!StartRound
      BY <1>2, <3>2 DEF GraphTurn, Graph!GiveUp, Graph!Finish, Graph!CollectRound, Graph!nodeVars
    <3> QED BY <3>1, <3>2
  <2>3. Shown' = Shown
    BY <2>1, <2>2 DEF Shown, Abandoned
  <2> QED BY <2>1, <2>3 DEF Contract!vars, Shown
<1>3. CASE ClosePlan
  <2>1. /\ UNCHANGED <<run, result, plan, status>> /\ planStatus = "running" /\ phase = "done"
        /\ planStatus' = IF \A s \in Step : status[s] = "success" THEN "success" ELSE "failed"
    BY <1>3 DEF ClosePlan, graphVars, stepVars
  <2>2. Shown' = Shown
    BY <2>1 DEF Shown, Abandoned
  <2>3. \A s \in Step : Shown[s] \notin {"running", "retrying"}
    <3> SUFFICES ASSUME NEW s \in Step PROVE Shown[s] \notin {"running", "retrying"}
      OBVIOUS
    <3>1. run[s] \in {"idle", "returned", "raised"}
      BY <2>1, EngineSets
    <3> QED BY <3>1 DEF IInv, StepFollowsNode, Unstarted, HandedBack, Shown, Abandoned
  <2>4. Contract!InFlight = {}
    BY <2>3 DEF Contract!InFlight, Shown
  <2>5. (\A s \in Step : Shown[s] = "success") <=> (\A s \in Step : status[s] = "success")
    <3> SUFFICES ASSUME NEW s \in Step PROVE Shown[s] = "success" <=> status[s] = "success"
      OBVIOUS
    <3>1. s \in Abandoned => HandedBack(s) /\ result[s] = CancelledError
      BY DEF Abandoned, IInv, StepFollowsNode
    <3> QED BY <3>1, CancelAssumption DEF HandedBack, Shown, StepResults
  <2>6. Contract!Close
    BY <2>1, <2>2, <2>4, <2>5 DEF Contract!Close, Shown
  <2> QED BY <2>6 DEF Contract!Next
<1> QED BY <1>1, <1>2, <1>3 DEF Arun

\* arun moves the statuses of a plan only as the contract of plans allows,
\* whatever the plan, the failures and the interleaving of its steps.
THEOREM ArunImplementsContract == Spec => ImplementsContract
<1>1. Init => Contract!Init
  <2> SUFFICES ASSUME Init PROVE Contract!Init
    OBVIOUS
  <2>1. plan.dependsOn \in [Step -> SUBSET Name]
    BY PlanAssumption DEF Init
  <2>2. Shown = [s \in Step |-> "pending"]
    BY DEF Init, Graph!Init, Shown, Abandoned
  <2> QED BY <2>1, <2>2 DEF Init, Contract!Init, Shown
<1>2. IInv /\ Engine!IInv /\ [Next]_vars => [Contract!Next]_Contract!vars
  <2>1. UNCHANGED vars => UNCHANGED Contract!vars
    BY DEF vars, graphVars, stepVars, Contract!vars, Abandoned
  <2> QED BY <2>1, RunStepImplements, ArunImplements DEF Next, Over
<1> QED BY <1>1, <1>2, Invariance, PTL DEF Spec, ImplementsContract, Contract!Spec
=============================================================================
