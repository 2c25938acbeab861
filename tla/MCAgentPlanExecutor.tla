------------------------ MODULE MCAgentPlanExecutor ------------------------
(* Instance of AgentPlanExecutor for TLC: every dependency graph over three  *)
(* steps, cycles, self-dependencies and an unknown id included.              *)
EXTENDS AgentPlanExecutor

CONSTANTS s1, s2, s3, ghost

MCStep == {s1, s2, s3}
MCName == {s1, s2, s3, ghost}
\* The first step depends on nothing or on the second; any list for the others.
MCDependsOn ==
  {d \in [MCStep -> SUBSET MCName] : d[s1] \in {{}, {s2}} /\ Cardinality(d[s2]) < 3}
=============================================================================
