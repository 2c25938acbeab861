---------------------------- MODULE PlanExecutor ----------------------------
(* agent/engine/executor.py: Executor.arun turns a Plan into a Graph (one    *)
(* node per step, an edge per dependency and per fallback) and lets          *)
(* Graph.execute drive the coroutine _node_func of each step, which keeps    *)
(* the step's own status and retry counter beside the graph's.               *)
EXTENDS Naturals, FiniteSets

CONSTANTS Step, Name,      \* the ids of the steps, and the ids a plan may mention
          Plans,           \* the plans arun may be given
          StepMaxRetries,  \* step.max_retries, 0 when unset
          MayCancel,       \* steps whose tool call may end in a cancellation
          CancelledError

ASSUME StepAssumption == IsFiniteSet(Step) /\ Step \subseteq Name
ASSUME PlanAssumption ==
  \A p \in Plans : /\ p.dependsOn \in [Step -> SUBSET Name]
                   /\ p.onFailure \in [Step -> {"abort", "retry"} \union Name]
                   /\ p.conditional \subseteq Step
                   /\ \A s \in Step : IsFiniteSet(p.dependsOn[s])
ASSUME RetriesAssumption == StepMaxRetries \in [Step -> Nat]

\* Executor.max_retries, used when a step does not set its own.
DefaultRetries == 2
Retries == [s \in Step |-> IF StepMaxRetries[s] > 0 THEN StepMaxRetries[s]
                                                   ELSE DefaultRetries]

\* _plan_to_graph.
HasFallback(p, s) == p.onFailure[s] \notin {"abort", "retry"}
DependencyEdges(p) ==
  UNION {{[source |-> d, target |-> s, cond |-> "dependency"] : d \in p.dependsOn[s]} :
           s \in Step}
FallbackEdges(p) ==
  {[source |-> s, target |-> p.onFailure[s], cond |-> "fallback"] :
     s \in {t \in Step : HasFallback(p, t)}}
PlanToGraph(p) == DependencyEdges(p) \union FallbackEdges(p)

StepResults == {"ok", "__SKIPPED__", "__FAILED__"}
ASSUME CancelAssumption == CancelledError \notin StepResults
\* The two lambdas: != "__FAILED__" on a dependency, == "__FAILED__" on a fallback.
EdgeVerdicts ==
  [p \in {"dependency", "fallback"} \X (StepResults \union {CancelledError}) |->
     IF (p[1] = "fallback") <=> (p[2] = "__FAILED__") THEN {"pass"} ELSE {"block"}]

VARIABLES edges, phase, iter, remaining, executed, failed, opened,
          run, attempts, result,  \* of Graph.execute
          plan,        \* dependsOn, onFailure and condition of the steps
          planStatus,  \* plan.status
          status,      \* step.status
          retryCount,  \* step.retry_count
          calls        \* history: the tool calls made for the step

Graph == INSTANCE WorkflowGraph WITH
  Node <- Step, Cond <- {"dependency", "fallback"}, Result <- StepResults,
  Topology <- {PlanToGraph(p) : p \in Plans},
  Verdicts <- EdgeVerdicts, MaxRetries <- Retries

graphVars == <<edges, phase, iter, remaining, executed, failed, opened,
               run, attempts, result>>
stepVars == <<status, retryCount, calls>>
vars == <<graphVars, plan, planStatus, stepVars>>

Init ==
  /\ plan \in Plans
  /\ Graph!Init /\ edges = PlanToGraph(plan)
  /\ planStatus = "pending"
  /\ status = [s \in Step |-> "pending"]
  /\ retryCount = [s \in Step |-> 0]
  /\ calls = [s \in Step |-> 0]

\* arun up to the first turn of the loop in execute.
Begin ==
  /\ planStatus = "pending" /\ Graph!Build
  /\ planStatus' = "running"
  /\ UNCHANGED <<plan, stepVars>>

\* The turns of the loop, which touch no step.
GraphTurn ==
  /\ planStatus = "running"
  /\ Graph!StartRound \/ Graph!GiveUp \/ Graph!Finish \/ Graph!CollectRound
  /\ UNCHANGED <<plan, planStatus, stepVars>>

\* _node_func is called and its condition, if it has one, holds.
CallTool(s) ==
  /\ Graph!Invoke(s)
  /\ status' = [status EXCEPT ![s] = "running"]
  /\ calls' = [calls EXCEPT ![s] = @ + 1]
  /\ UNCHANGED <<plan, planStatus, retryCount>>

\* The condition is false, or cannot be evaluated.
SkipStep(s) ==
  /\ s \in plan.conditional /\ Graph!Invoke(s)
  /\ status' = [status EXCEPT ![s] = "success"]
  /\ UNCHANGED <<plan, planStatus, retryCount, calls>>

\* The return of a skipped step, which follows without an await.
ReturnSkipped(s) ==
  /\ status[s] = "success" /\ Graph!Return(s, "__SKIPPED__")
  /\ UNCHANGED <<plan, planStatus, stepVars>>

\* Mutant: the step keeps its status.
ToolReturnsUnnoticed(s) ==
  /\ status[s] = "running" /\ Graph!Return(s, "ok")
  /\ UNCHANGED <<plan, planStatus, stepVars>>

ToolReturns(s) ==
  /\ status[s] = "running" /\ Graph!Return(s, "ok")
  /\ status' = [status EXCEPT ![s] = "success"]
  /\ UNCHANGED <<plan, planStatus, retryCount, calls>>

\* Mutants: the fallback is taken at the first failure, and the step allows
\* itself one retry more than the graph.
ToolFailsOver(s) ==
  /\ status[s] = "running"
  /\ retryCount' = [retryCount EXCEPT ![s] = @ + 1]
  /\ LET again == retryCount'[s] <= Retries[s] /\ ~HasFallback(plan, s)
     IN  /\ status' = [status EXCEPT ![s] = IF again THEN "retrying" ELSE "failed"]
         /\ IF ~again /\ HasFallback(plan, s)
            THEN Graph!Return(s, "__FAILED__") ELSE Graph!Fail(s)
  /\ UNCHANGED <<plan, planStatus, calls>>
ToolFailsOnceMore(s) ==
  /\ status[s] = "running"
  /\ retryCount' = [retryCount EXCEPT ![s] = @ + 1]
  /\ LET again == retryCount'[s] <= Retries[s] + 1
     IN  /\ status' = [status EXCEPT ![s] = IF again THEN "retrying" ELSE "failed"]
         /\ IF ~again /\ HasFallback(plan, s)
            THEN Graph!Return(s, "__FAILED__") ELSE Graph!Fail(s)
  /\ UNCHANGED <<plan, planStatus, calls>>

\* The except branch: RETRYING and raise, FAILED and raise, or FAILED and the
\* marker that lets the fallback edge through.
ToolFails(s) ==
  /\ status[s] = "running"
  /\ retryCount' = [retryCount EXCEPT ![s] = @ + 1]
  /\ LET again == retryCount'[s] <= Retries[s]
     IN  /\ status' = [status EXCEPT ![s] = IF again THEN "retrying" ELSE "failed"]
         /\ IF ~again /\ HasFallback(plan, s)
            THEN Graph!Return(s, "__FAILED__") ELSE Graph!Fail(s)
  /\ UNCHANGED <<plan, planStatus, calls>>

\* A CancelledError passes the except clause: the step keeps its status.
ToolCancelled(s) ==
  /\ status[s] = "running" /\ Graph!Cancel(s)
  /\ UNCHANGED <<plan, planStatus, stepVars>>

\* Mutant: a plan is a success unless a step failed.
ClosePlanUnlessFailed ==
  /\ planStatus = "running" /\ phase = "done"
  /\ planStatus' = IF \A s \in Step : status[s] # "failed"
                   THEN "success" ELSE "failed"
  /\ UNCHANGED <<graphVars, plan, stepVars>>

\* execute has returned.  When it raises, arun never gets here.
ClosePlan ==
  /\ planStatus = "running" /\ phase = "done"
  /\ planStatus' = IF \A s \in Step : status[s] = "success"
                   THEN "success" ELSE "failed"
  /\ UNCHANGED <<graphVars, plan, stepVars>>

Aborted == phase \in Graph!Ended \ {"done"}
Closed == planStatus \in {"success", "failed"}
Over == (Closed \/ Aborted) /\ UNCHANGED vars

RunStep(s) == \/ CallTool(s) \/ SkipStep(s) \/ ReturnSkipped(s)
              \/ ToolReturns(s) \/ ToolFails(s) \/ ToolCancelled(s)
Arun == Begin \/ GraphTurn \/ ClosePlan
Next == Arun \/ (\E s \in Step : RunStep(s)) \/ Over

Spec == Init /\ [][Next]_vars
\* The event loop runs arun, and every tool call ends.
FairSpec == Spec /\ WF_vars(Arun) /\ \A s \in Step : WF_vars(RunStep(s))

-----------------------------------------------------------------------------
\* A step whose coroutine ended in a CancelledError.
Abandoned == {s \in Step : run[s] = "returned" /\ result[s] = CancelledError}

\* A fallback step runs only when every step that names it has failed for good:
\* its tool was called once more than its retries allow, each time in vain.
FallbackAfterExhaustion ==
  \A s, t \in Step :
    (HasFallback(plan, s) /\ plan.onFailure[s] = t /\ status[t] # "pending") =>
      status[s] = "failed" /\ calls[s] = Retries[s] + 1

\* The graph's view and the plan's view of a step agree when execute returns:
\* a failed node is a FAILED step or one that never started, and an executed
\* node is a SUCCESS step, one that handed over to its fallback, or a cancelled one.
ViewsAgree ==
  phase = "done" =>
    /\ \A s \in failed : status[s] = IF s \in Graph!Started THEN "failed" ELSE "pending"
    /\ \A s \in executed : \/ status[s] = "success"
                           \/ status[s] = "failed" /\ result[s] = "__FAILED__"
                           \/ status[s] = "running" /\ s \in Abandoned

\* The step's retry counter and the graph's never drift apart, so that no step
\* says RETRYING after the graph has given it up, and none is called too often.
RetryCountersAgree ==
  \A s \in Step :
    /\ run[s] = "raised" => status[s] = "failed"
    /\ status[s] = "retrying" <=> run[s] = "sleeping"
    /\ calls[s] <= Retries[s] + 1

\* The status of each step and of the plan moves as a Plan promises.
Contract == INSTANCE PlanContract WITH
  deps <- plan.dependsOn,
  status <- [s \in Step |-> IF s \in Abandoned THEN "abandoned" ELSE status[s]]
ImplementsContract == Contract!Spec

\* arun ends every plan, except one whose graph is rejected or deadlocked.
PlanEnds == <>(Closed \/ phase \in {"unknownNode", "deadlock"})

\* docs/IMPLEMENTATION_PLAN_2026.md:233 -- a step that succeeds goes on to the
\* next step and not to its fallback step: a plan in which every step other
\* than a fallback succeeded has succeeded.
FallbackTargets == {plan.onFailure[s] : s \in {t \in Step : HasFallback(plan, t)}}
UnneededFallbackIsHarmless ==
  (Closed /\ \A s \in Step \ FallbackTargets : status[s] = "success")
    => planStatus = "success"
=============================================================================
