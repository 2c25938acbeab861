------------------------- MODULE AgentPlanExecutor -------------------------
(* agent/multi_agent/executor.py: the ExecutorAgent runs a Plan by polling   *)
(* it.  Each turn of _execute_plan gathers the PENDING steps whose           *)
(* dependencies are SUCCESS; _execute_step calls the tool and, when that     *)
(* fails, once more after a pause.  The executed plan goes back into         *)
(* working_memory, where the next process finds it.                          *)
EXTENDS Naturals, FiniteSets

CONSTANTS Step, Name,   \* the ids of the steps, and the ids a plan may mention
          DependsOn,    \* the depends_on lists the planner may produce
          MaxProcesses  \* bound: how often process is called

ASSUME StepAssumption == IsFiniteSet(Step) /\ Step \subseteq Name
ASSUME DependsOnAssumption == DependsOn \subseteq [Step -> SUBSET Name]

\* ExecutorAgent.max_retries
MaxRetries == 2

VARIABLES deps,        \* step.depends_on
          pc,          \* where _execute_plan stands
          planStatus,  \* plan.status
          status,      \* step.status
          retryCount,  \* step.retry_count
          call,        \* what _execute_step of each step is doing
          calls,       \* history: the tool calls made for the step
          processes    \* the calls of process so far

vars == <<deps, pc, planStatus, status, retryCount, call, calls, processes>>

\* Mutant: a failed dependency counts as done.
ReadyStepsDone ==
  {s \in Step : /\ status[s] = "pending"
                /\ \A d \in deps[s] : d \in Step /\ status[d] \in {"success", "failed"}}
\* Plan.get_ready_steps, Plan.is_complete and Plan.is_success.
ReadySteps ==
  {s \in Step : /\ status[s] = "pending"
                /\ \A d \in deps[s] : d \in Step /\ status[d] = "success"}
IsComplete == \A s \in Step : status[s] \in {"success", "failed"}
IsSuccess == \A s \in Step : status[s] = "success"
Alive == {s \in Step : call[s] # "none"}

Init ==
  /\ deps \in DependsOn
  /\ pc = "idle" /\ planStatus = "pending" /\ processes = 0
  /\ status = [s \in Step |-> "pending"]
  /\ retryCount = [s \in Step |-> 0]
  /\ call = [s \in Step |-> "none"]
  /\ calls = [s \in Step |-> 0]

\* process rebuilds the plan from working_memory: _dict_to_plan keeps the
\* statuses and the retry counts of an earlier execution.
Process ==
  /\ pc = "idle" /\ processes < MaxProcesses
  /\ processes' = processes + 1
  /\ pc' = "loop" /\ planStatus' = "running"
  /\ UNCHANGED <<deps, status, retryCount, call, calls>>

StartRound ==
  /\ pc = "loop" /\ ~IsComplete /\ ReadySteps # {}
  /\ pc' = "gather"
  /\ call' = [s \in Step |-> IF s \in ReadySteps THEN "scheduled" ELSE "none"]
  /\ UNCHANGED <<deps, planStatus, status, retryCount, calls, processes>>

\* _execute_step up to the await of the tool.
CallTool(s) ==
  /\ call[s] = "scheduled"
  /\ call' = [call EXCEPT ![s] = "calling"]
  /\ calls' = [calls EXCEPT ![s] = @ + 1]
  /\ status' = [status EXCEPT ![s] = "running"]
  /\ UNCHANGED <<deps, pc, planStatus, retryCount, processes>>

ToolReturns(s) ==
  /\ call[s] \in {"calling", "callingAgain"}
  /\ call' = [call EXCEPT ![s] = "none"]
  /\ status' = [status EXCEPT ![s] = "success"]
  /\ UNCHANGED <<deps, pc, planStatus, retryCount, calls, processes>>

ToolFails(s) ==
  /\ call[s] = "calling"
  /\ retryCount' = [retryCount EXCEPT ![s] = @ + 1]
  /\ LET again == retryCount'[s] <= MaxRetries
     IN  /\ status' = [status EXCEPT ![s] = IF again THEN "retrying" ELSE "failed"]
         /\ call' = [call EXCEPT ![s] = IF again THEN "sleeping" ELSE "none"]
  /\ UNCHANGED <<deps, pc, planStatus, calls, processes>>

\* The pause is over: the same tool again, with the status left at RETRYING.
CallAgain(s) ==
  /\ call[s] = "sleeping"
  /\ call' = [call EXCEPT ![s] = "callingAgain"]
  /\ calls' = [calls EXCEPT ![s] = @ + 1]
  /\ UNCHANGED <<deps, pc, planStatus, status, retryCount, processes>>

FailsAgain(s) ==
  /\ call[s] = "callingAgain"
  /\ call' = [call EXCEPT ![s] = "none"]
  /\ status' = [status EXCEPT ![s] = "failed"]
  /\ UNCHANGED <<deps, pc, planStatus, retryCount, calls, processes>>

RoundEnds ==
  /\ pc = "gather" /\ Alive = {}
  /\ pc' = "loop"
  /\ UNCHANGED <<deps, planStatus, status, retryCount, call, calls, processes>>

\* Mutants: the loop gives up while steps are ready, and it never does.
GiveUpTooSoon ==
  /\ pc = "loop" /\ ~IsComplete
  /\ status' = [s \in Step |-> IF status[s] = "pending" THEN "failed" ELSE status[s]]
  /\ pc' = "close"
  /\ UNCHANGED <<deps, planStatus, retryCount, call, calls, processes>>
NeverGiveUp ==
  /\ pc = "loop" /\ ~IsComplete /\ ReadySteps = {}
  /\ UNCHANGED vars

\* No step is ready: the PENDING ones are failed and the loop is left.
GiveUp ==
  /\ pc = "loop" /\ ~IsComplete /\ ReadySteps = {}
  /\ status' = [s \in Step |-> IF status[s] = "pending" THEN "failed" ELSE status[s]]
  /\ pc' = "close"
  /\ UNCHANGED <<deps, planStatus, retryCount, call, calls, processes>>

ClosePlan ==
  /\ pc = "close" \/ (pc = "loop" /\ IsComplete)
  /\ planStatus' = IF IsSuccess THEN "success" ELSE "failed"
  /\ pc' = "idle"
  /\ UNCHANGED <<deps, status, retryCount, call, calls, processes>>

ExecutePlan == StartRound \/ RoundEnds \/ GiveUp \/ ClosePlan
ExecuteStep(s) ==
  CallTool(s) \/ ToolReturns(s) \/ ToolFails(s) \/ CallAgain(s) \/ FailsAgain(s)
Idle == pc = "idle" /\ processes = MaxProcesses /\ UNCHANGED vars

Next == Process \/ ExecutePlan \/ (\E s \in Step : ExecuteStep(s)) \/ Idle
Spec == Init /\ [][Next]_vars
\* Every tool call and every pause ends; nothing obliges a user to call process.
FairSpec == Spec /\ WF_vars(ExecutePlan) /\ \A s \in Step : WF_vars(ExecuteStep(s))

-----------------------------------------------------------------------------
\* The status of each step and of the plan moves as a Plan promises, when the
\* plan is processed again too.
Contract == INSTANCE PlanContract
ImplementsContract == Contract!Spec

\* A step is written off as unsatisfiable only if that is so: a closed plan has
\* no FAILED step that was never called though all its dependencies succeeded,
\* and no step called, in however many processes, after it was settled.
WrittenOffOnlyIfBlocked ==
  pc = "idle" /\ processes > 0 =>
    \A s \in Step : /\ calls[s] = 0 => ~Contract!Fulfilled(s)
                    /\ calls[s] = 2 <=> retryCount[s] = 1

\* Every process that was begun comes to its end.
ProcessEnds == (planStatus = "running") ~> (pc = "idle")
=============================================================================
