--------------------------- MODULE MCPlanExecutor ---------------------------
(* Instance of PlanExecutor for TLC: a diamond with a conditional step, a    *)
(* fallback with and without a dependency of its own, a shared fallback, a   *)
(* fallback that is also a dependent, a cycle and an unknown dependency.     *)
EXTENDS PlanExecutor

CONSTANTS s1, s2, s3, s4, ghost

MCStep == {s1, s2, s3, s4}
MCName == {s1, s2, s3, s4, ghost}
MCStepMaxRetries == [s \in MCStep |-> IF s = s1 THEN 0 ELSE 1]

NoDeps == [s \in MCStep |-> {}]
Abort == [s \in MCStep |-> "abort"]
P(dependsOn, onFailure, conditional) ==
  [dependsOn |-> dependsOn, onFailure |-> onFailure, conditional |-> conditional]
On(f, s, v) == [f EXCEPT ![s] = v]

DiamondDeps == [NoDeps EXCEPT ![s2] = {s1}, ![s3] = {s1}, ![s4] = {s2, s3}]
ChainDeps == [NoDeps EXCEPT ![s2] = {s1}, ![s3] = {s2}, ![s4] = {s3}]

MCPlans ==
  { P(DiamondDeps, [Abort EXCEPT ![s2] = "retry"], {s2}),
    P(On(NoDeps, s4, {s2}), On(Abort, s1, s2), {}),
    P(On(NoDeps, s3, {s2}), [Abort EXCEPT ![s1] = s3, ![s2] = s4], {s3}),
    P(NoDeps, [Abort EXCEPT ![s1] = s3, ![s2] = s3], {}),
    P(On(NoDeps, s2, {s1}), On(Abort, s1, s2), {}),
    P([NoDeps EXCEPT ![s1] = {s2}, ![s2] = {s1}, ![s3] = {s4}, ![s4] = {s4}], Abort, {}),
    P(On(ChainDeps, s4, {s3, ghost}), Abort, {}) }
=============================================================================
