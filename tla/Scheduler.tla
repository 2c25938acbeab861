----------------------------- MODULE Scheduler -----------------------------
(* agent/engine/scheduler.py: the table of scheduled tasks, the jobs the     *)
(* APScheduler holds for them, and the file the table is saved in.  None of  *)
(* its operations awaits, so each is one step; any may meet a trigger that   *)
(* APScheduler refuses, and the process may end between or during them.      *)
EXTENDS Naturals, Sequences, SequencesExt

CONSTANTS TaskName,  \* task ids
          Text,      \* what users ask for
          NoEntry, NoJob, Torn

VARIABLES state,    \* "down", "made", "started", or "halfStarted": start() raised
          table,    \* _tasks
          order,    \* the order of its keys
          jobs,     \* the trigger of the job registered for each id
          saved     \* the contents of tasks.json

schedulerVars == <<state, table, order, jobs, saved>>

Nothing == [i \in TaskName |-> NoEntry]
NoJobs == [i \in TaskName |-> NoJob]

SchedulerInit ==
  /\ state = "down" /\ table = Nothing /\ order = <<>> /\ jobs = NoJobs
  /\ saved = [table |-> Nothing, order |-> <<>>]

\* _parse_chinese_time: hours after noon are counted on, up to twelve o'clock.
Hour(text) == IF text.afternoon /\ text.hour < 12 THEN text.hour + 12 ELSE text.hour
\* parse_natural_language: daily and weekly tasks get an hour, whatever it is.
Trigger(text) ==
  IF text.every = "interval" THEN [type |-> "interval", at |-> text.hour]
                             ELSE [type |-> "cron", at |-> Hour(text)]
Triggers == {Trigger(text) : text \in Text} \union {[type |-> "date", at |-> 0]}
Entry == [trigger : Triggers, enabled : BOOLEAN]
ASSUME SchedulerAssumption == NoEntry \notin Entry

\* What CronTrigger and IntervalTrigger accept.
Accepted(trigger) == trigger.type = "cron" => trigger.at < 24

\* _register_job: removes the job, then raises on a trigger APScheduler
\* refuses; a task of another type ("date") gets no job.
Registered(j, i, trigger) ==
  [j EXCEPT ![i] = IF trigger.type \in {"cron", "interval"} /\ Accepted(trigger)
                   THEN trigger ELSE NoJob]

\* _save_tasks opens the file in place and logs its errors.
SaveTasks(t, o) == saved' \in {[table |-> t, order |-> o], saved, Torn}

\* __init__ and _load_tasks: a file that cannot be read is an empty table.
Construct ==
  /\ state = "down"
  /\ state' = "made"
  /\ table' = IF saved = Torn THEN Nothing ELSE saved.table
  /\ order' = IF saved = Torn THEN <<>> ELSE saved.order
  /\ jobs' = NoJobs
  /\ UNCHANGED saved

Refuses(i) == table[i].enabled /\ ~Accepted(table[i].trigger)

\* start registers the enabled tasks in the order of the table, up to the
\* first that raises.
Start ==
  /\ state = "made"
  /\ LET bad == {k \in DOMAIN order : Refuses(order[k])}
         first == IF bad = {} THEN Len(order) + 1 ELSE CHOOSE k \in bad : \A l \in bad : k <= l
         reached == {order[k] : k \in {k \in DOMAIN order : k < first /\ table[order[k]].enabled}}
     IN /\ jobs' = [i \in TaskName |-> IF i \in reached THEN Registered(jobs, i, table[i].trigger)[i]
                                       ELSE jobs[i]]
        /\ state' = IF bad = {} THEN "started" ELSE "halfStarted"
  /\ UNCHANGED <<table, order, saved>>

\* shutdown empties the job store; the object can be started again.
Shutdown ==
  /\ state \in {"started", "halfStarted"}
  /\ state' = "made" /\ jobs' = NoJobs
  /\ UNCHANGED <<table, order, saved>>

\* The process ends, in the middle of a save or not.
Crash ==
  /\ state # "down"
  /\ state' = "down" /\ table' = Nothing /\ order' = <<>> /\ jobs' = NoJobs
  /\ saved' \in {saved, Torn}

Up == state # "down"

\* Mutant: a task that is known has its job already.
AddTaskOnce(i, e) ==
  /\ Up
  /\ table' = [table EXCEPT ![i] = e]
  /\ order' = IF Contains(order, i) THEN order ELSE Append(order, i)
  /\ SaveTasks(table', order')
  /\ jobs' = IF e.enabled /\ ~Contains(order, i) THEN Registered(jobs, i, e.trigger) ELSE jobs
  /\ UNCHANGED state
\* add_task stores and saves the task before it is registered, which may raise.
AddTask(i, e) ==
  /\ Up
  /\ table' = [table EXCEPT ![i] = e]
  /\ order' = IF Contains(order, i) THEN order ELSE Append(order, i)
  /\ SaveTasks(table', order')
  /\ jobs' = IF e.enabled THEN Registered(jobs, i, e.trigger) ELSE jobs
  /\ UNCHANGED state

\* remove_task: remove_job raises for a task without a job, which stays.
RemoveTask(i) ==
  /\ Up /\ table[i] # NoEntry /\ jobs[i] # NoJob
  /\ table' = [table EXCEPT ![i] = NoEntry]
  /\ order' = RemoveAt(order, CHOOSE k \in DOMAIN order : order[k] = i)
  /\ SaveTasks(table', order')
  /\ jobs' = [jobs EXCEPT ![i] = NoJob]
  /\ UNCHANGED state

\* enable_task: when registering raises, the table is not saved.
EnableTask(i) ==
  /\ Up /\ table[i] # NoEntry
  /\ table' = [table EXCEPT ![i].enabled = TRUE]
  /\ jobs' = Registered(jobs, i, table[i].trigger)
  /\ IF Accepted(table[i].trigger) THEN SaveTasks(table', order) ELSE UNCHANGED saved
  /\ UNCHANGED <<state, order>>

DisableTask(i) ==
  /\ Up /\ table[i] # NoEntry
  /\ table' = [table EXCEPT ![i].enabled = FALSE]
  /\ jobs' = [jobs EXCEPT ![i] = NoJob]
  /\ SaveTasks(table', order)
  /\ UNCHANGED <<state, order>>

\* _on_trigger: a job's time has come; if the task stored under its id is
\* enabled, its count of runs is saved, and it is handed to the callback, whose
\* errors are logged.
OnTrigger(i) ==
  /\ state \in {"started", "halfStarted"} /\ jobs[i] # NoJob
  /\ table[i] # NoEntry /\ table[i].enabled /\ SaveTasks(table, order)
  /\ UNCHANGED <<state, table, order, jobs>>

SchedulerNext == \/ Construct \/ Start \/ Shutdown \/ Crash
        \/ \E i \in TaskName : \/ RemoveTask(i) \/ EnableTask(i) \/ DisableTask(i) \/ OnTrigger(i)
                               \/ \E e \in Entry : AddTask(i, e)
SchedulerSpec == SchedulerInit /\ [][SchedulerNext]_schedulerVars

-----------------------------------------------------------------------------
SchedulerTypeOK ==
  /\ state \in {"down", "made", "started", "halfStarted"}
  /\ table \in [TaskName -> Entry \union {NoEntry}]
  /\ \A i \in TaskName : table[i] # NoEntry <=> Contains(order, i)
  /\ jobs \in [TaskName -> Triggers \union {NoJob}]

\* Whatever is added, replaced, enabled, disabled, removed, saved or lost, and
\* however often the process restarts: a scheduler whose start() did not raise
\* has for each enabled task a job with that task's trigger, if its trigger is
\* one that can be scheduled; and no job is left of a task that was removed.
EnabledAreScheduled ==
  /\ \A i \in TaskName :
       state = "started" /\ table[i] # NoEntry /\ table[i].enabled =>
         jobs[i] = Registered(NoJobs, i, table[i].trigger)[i]
  /\ \A i \in TaskName : jobs[i] # NoJob => table[i] # NoEntry
=============================================================================
