-------------------------------- MODULE A2A --------------------------------
(* agent/a2a/server.py: the table of tasks, in front of the team.  A request *)
(* to /tasks/send or /tasks/sendSubscribe names its task, makes a Task for   *)
(* it and processes it in the registry; ids may be sent again.  A client     *)
(* that goes away cancels the generator of its stream.  Chains of handoffs   *)
(* are run beside it by other code.                                          *)
EXTENDS TeamRouting

CONSTANTS TaskId, NoTask

VARIABLES tasks,   \* _tasks: the Task object each id names, by its request
          task,    \* the state of each request's Task object
          id,      \* the task id of each request
          stream   \* whether the request is a subscription

tableVars == <<tasks, task, id, stream>>
allVars == <<vars, tableVars>>

ServerInit ==
  /\ Init
  /\ tasks = [i \in TaskId |-> NoTask]
  /\ task = [r \in Request |-> "none"]
  /\ id = [r \in Request |-> NoTask]
  /\ stream = [r \in Request |-> FALSE]

NewTask(r, i) ==
  /\ kind[r] = "ask" /\ stage[r] = "new" /\ task[r] = "none"
  /\ id' = [id EXCEPT ![r] = i]
  /\ tasks' = [tasks EXCEPT ![i] = r]

\* send_task: the Task is stored as WORKING, and process begins.
Send(r, i) ==
  /\ NewTask(r, i)
  /\ Arrive(r)
  /\ task' = [task EXCEPT ![r] = IF stage'[r] = "raised" THEN "failed" ELSE "working"]
  /\ UNCHANGED stream

\* send_task_subscribe: the same, but the first event is awaited in between.
Subscribe(r, i) ==
  /\ NewTask(r, i) /\ loop = Nobody
  /\ task' = [task EXCEPT ![r] = "working"]
  /\ stream' = [stream EXCEPT ![r] = TRUE]
  /\ UNCHANGED vars

\* Mutant: an exception is left to the server.
StoreAnswered(r) ==
  /\ UNCHANGED <<id, stream>>
  /\ IF task[r] = "working" /\ stage'[r] = "answered"
     THEN /\ task' = [task EXCEPT ![r] = "completed"]
          /\ tasks' = [tasks EXCEPT ![id[r]] = r]
     ELSE UNCHANGED <<tasks, task>>

\* Whatever process does, the Task is put back under its id, as COMPLETED or
\* as FAILED, in the stretch of code in which process returns or raises.
Store(r) ==
  /\ UNCHANGED <<id, stream>>
  /\ IF task[r] = "working" /\ stage'[r] \in {"answered", "raised"}
     THEN /\ task' = [task EXCEPT ![r] = IF stage'[r] = "raised" THEN "failed" ELSE "completed"]
          /\ tasks' = [tasks EXCEPT ![id[r]] = r]
     ELSE UNCHANGED <<tasks, task>>

\* The client of a stream is gone: GeneratorExit or CancelledError at the await
\* of the generator, which is no Exception, so the Task stays WORKING.
Disconnect(r) ==
  /\ stream[r]
  /\ \/ Cut(r)
     \/ stage[r] = "new" /\ loop = Nobody /\ Goto(r, "cut")
        /\ UNCHANGED <<routerVars, registryVars, leg, tierVars, planVars>>
  /\ UNCHANGED tableVars

Chain(r) == kind[r] = "chain" /\ Arrive(r) /\ UNCHANGED tableVars
Handle(r) == (Step(r) \/ (stream[r] /\ Arrive(r))) /\ Store(r)
Behind(r) == Background(r) /\ UNCHANGED tableVars

AllEnded == /\ \A r \in Request : stage[r] \in Ended /\ llm[r] \in {"idle", "returned"}
            /\ UNCHANGED allVars

Next == \/ \E r \in Request : \/ \E i \in TaskId : Send(r, i) \/ Subscribe(r, i)
                            \/ Chain(r) \/ Handle(r) \/ Behind(r) \/ Disconnect(r)
        \/ AllEnded
\* Clients, discovery and external agents have timeouts, a plan's execution
\* ends (AgentPlanExecutor), and the event loop serves whoever can go on.
Fairness == \A r \in Request : WF_allVars(Handle(r)) /\ WF_allVars(Behind(r))
FairSpec == ServerInit /\ [][Next]_allVars /\ Fairness

-----------------------------------------------------------------------------
TypeOK ==
  /\ TeamTypeOK
  /\ tasks \in [TaskId -> Request \union {NoTask}]
  /\ task \in [Request -> {"none", "working", "completed", "failed"}]
  /\ id \in [Request -> TaskId \union {NoTask}] /\ stream \in [Request -> BOOLEAN]

\* A task is never left WORKING for those who poll it, however many requests
\* were sent under its id and in whatever order they end -- unless the stream
\* of one of them was cut, which no code notices.
TasksSettle ==
  \A i \in TaskId :
    tasks[i] # NoTask ~> \/ \E r \in Request : tasks[i] = r /\ task[r] \in {"completed", "failed"}
                         \/ \E r \in Request : id[r] = i /\ stage[r] = "cut"
=============================================================================
