---------------------------- MODULE PlanContract ----------------------------
(* What both plan executors promise of a Plan (agent/planning/plan.py): how  *)
(* the status of a step and of the plan may move, whatever the scheduling.   *)
(* A step goes to work only on the results of its dependencies, is retried   *)
(* only from RUNNING, and the plan is closed with no step in flight.  A      *)
(* closed plan may be processed again, but its settled steps stay settled.   *)
EXTENDS FiniteSets

CONSTANTS Step,  \* the ids of the plan's steps
          Name   \* the ids a dependency may mention

VARIABLES deps,       \* step.depends_on
          status,     \* step.status; "abandoned" is RUNNING after a cancellation
          planStatus  \* plan.status

vars == <<deps, status, planStatus>>

InFlight == {s \in Step : status[s] \in {"running", "retrying"}}
Fulfilled(s) ==
  deps[s] \subseteq {d \in Step : status[d] \in {"success", "abandoned"}}

Init == /\ deps \in [Step -> SUBSET Name]
        /\ status = [s \in Step |-> "pending"]
        /\ planStatus = "pending"

Begin == /\ planStatus # "running"
         /\ planStatus' = "running"
         /\ UNCHANGED <<deps, status>>

Move(s, from, to) ==
  /\ planStatus = "running" /\ status[s] \in from
  /\ status' = [status EXCEPT ![s] = to]
  /\ UNCHANGED <<deps, planStatus>>

Start(s)   == Fulfilled(s) /\ Move(s, {"pending", "retrying"}, "running")
Skip(s)    == Fulfilled(s) /\ Move(s, {"pending", "retrying"}, "success")
Succeed(s) == Move(s, {"running", "retrying"}, "success")
Retry(s)   == Move(s, {"running"}, "retrying")
Fail(s)    == Move(s, {"running", "retrying"}, "failed")
Abandon(s) == Move(s, {"running"}, "abandoned")

\* Steps whose dependencies can no longer succeed may be failed unstarted.
FailBlocked ==
  /\ planStatus = "running" /\ InFlight = {}
  /\ LET blocked == {s \in Step : status[s] = "pending"}
     IN  /\ \A s \in blocked : ~Fulfilled(s)
         /\ status' = [s \in Step |-> IF s \in blocked THEN "failed" ELSE status[s]]
  /\ UNCHANGED <<deps, planStatus>>

Close ==
  /\ planStatus = "running" /\ InFlight = {}
  /\ planStatus' = IF \A s \in Step : status[s] = "success"
                   THEN "success" ELSE "failed"
  /\ UNCHANGED <<deps, status>>

Next ==
  \/ Begin \/ FailBlocked \/ Close
  \/ \E s \in Step : Start(s) \/ Skip(s) \/ Succeed(s) \/ Retry(s) \/ Fail(s) \/ Abandon(s)

Spec == Init /\ [][Next]_vars
=============================================================================
