-------------------------- MODULE MCWorkflowGraph --------------------------
(* Instance of WorkflowGraph for TLC: four nodes, the shapes of graph the    *)
(* tests of the repository build (chain, fan-out and fan-in, branches),      *)
(* and the ones they do not (a cycle behind a root, a cycle alone, parallel  *)
(* edges of one pair, an edge to an unknown node).                           *)
EXTENDS WorkflowGraph

CONSTANTS a, b, c, d, ghost

MCNode == {a, b, c, d}
MCName == {a, b, c, d, ghost}
MCCond == {"none", "isTrue", "isFalse", "fragile"}

E(s, t, k) == [source |-> s, target |-> t, cond |-> k]

Branch   == {E(a, b, "isTrue"), E(a, c, "isFalse"), E(b, d, "none"), E(c, d, "none")}
FanIn    == {E(a, d, "none"), E(b, d, "isTrue"), E(c, d, "isFalse")}
Diamond  == {E(a, b, "none"), E(a, c, "none"), E(b, d, "fragile"), E(c, d, "none")}
Parallel == {E(a, b, "isTrue"), E(a, b, "isFalse"), E(b, c, "none")}
RootedCycle == {E(a, b, "none"), E(b, c, "none"), E(c, b, "none"), E(c, d, "none")}
Cycle    == {E(a, b, "none"), E(b, c, "none"), E(c, a, "none"), E(d, d, "none")}
Dangling == {E(a, b, "none"), E(a, ghost, "none")}

MCTopology == {Branch, FanIn, Diamond, Parallel, RootedCycle, Cycle, Dangling}

MCVerdicts ==
  [p \in MCCond \X {TRUE, FALSE, CancelledError} |->
     CASE p[1] = "none" -> {"pass"}
       [] p[1] = "isTrue" -> IF p[2] = FALSE THEN {"block"} ELSE {"pass"}
       [] p[1] = "isFalse" -> IF p[2] = FALSE THEN {"pass"} ELSE {"block"}
       [] p[1] = "fragile" -> IF p[2] = CancelledError THEN {"raise"} ELSE {"pass"}]

MCMayCancel == {b}
MCMaxRetries == [n \in MCNode |-> IF n = b THEN 2 ELSE IF n = c THEN 0 ELSE 1]
=============================================================================
