--------------------------- MODULE WorkflowGraph ---------------------------
(* The execution engine of agent/workflow/graph.py: Graph.execute runs the   *)
(* nodes of a directed graph in rounds.  A round gathers every node whose    *)
(* counter of unopened incoming edges is zero, waits for all of them, and    *)
(* then settles them one after the other without an await, opening the       *)
(* outgoing edges whose condition holds.                                     *)
EXTENDS Naturals, FiniteSets

CONSTANTS Node,           \* the names in self.nodes
          Name,           \* the names an edge may mention, known or not
          Cond,           \* the kinds of edge conditions
          Result,         \* what a node's function may return
          CancelledError, \* what gather returns for a cancelled node
          MayCancel,      \* nodes whose function may end in a cancellation
          Topology,       \* the edge sets the graph may be built with
          Verdicts,       \* what a condition may do, given its source's result
          MaxRetries      \* Node.retry_count

Edge == [source : Name, target : Name, cond : Cond]

ASSUME NodeAssumption == IsFiniteSet(Node) /\ Node \subseteq Name
ASSUME TopologyAssumption ==
  \A edges \in Topology : edges \subseteq Edge /\ IsFiniteSet(edges)
ASSUME VerdictAssumption ==
  Verdicts \in [Cond \X (Result \union {CancelledError}) ->
                  SUBSET {"pass", "block", "raise"}]
ASSUME RetryAssumption == MaxRetries \in [Node -> Nat]

VARIABLES edges,      \* self.edges, fixed once execute has begun
          phase,      \* where execute stands, or how it ended
          iter,       \* iter_count
          remaining,  \* remaining_in_degree
          executed,   \* the set executed
          failed,     \* the set failed
          opened,     \* history: the edges whose condition has let them through
          run,        \* what the coroutine of each node is doing
          attempts,   \* retry_attempts
          result      \* state[name]

vars == <<edges, phase, iter, remaining, executed, failed, opened,
          run, attempts, result>>
nodeVars == <<run, attempts, result>>
loopVars == <<phase, iter, remaining, executed, failed, opened>>

-----------------------------------------------------------------------------
In(n)  == {e \in edges : e.target = n}
Out(S) == {e \in edges : e.source \in S}
Settled == executed \union failed
\* Mutant: nodes that are settled are found ready again.
ReadyAgain == {n \in Node : remaining[n] = 0}
Ready == {n \in Node \ Settled : remaining[n] = 0}
Finished == {n \in Node : run[n] \in {"returned", "raised"}}
Started  == {n \in Node : run[n] # "idle"}
Round == Started \ Settled
\* Mutant: halved instead of doubled.
MaxIterationsTooFew == Cardinality(Node) \div 2
MaxIterations == 2 * Cardinality(Node)
Ended == {"done", "unknownNode", "deadlock", "exceeded", "conditionError"}

Init ==
  /\ edges \in Topology
  /\ phase = "build"
  /\ iter = 0
  /\ remaining = [n \in Node |-> 0]
  /\ executed = {} /\ failed = {} /\ opened = {}
  /\ run = [n \in Node |-> "idle"]
  /\ attempts = [n \in Node |-> 0]
  /\ result = [n \in Node |-> CancelledError]

\* Mutant: the in-degree is counted over no edge.
BuildUncounted ==
  /\ phase = "build"
  /\ phase' = IF \E e \in edges : ~({e.source, e.target} \subseteq Node)
              THEN "unknownNode" ELSE "loop"
  /\ UNCHANGED <<edges, iter, remaining, executed, failed, opened, nodeVars>>

\* The adjacency and in-degree computation at the head of execute.
Build ==
  /\ phase = "build"
  /\ IF \E e \in edges : ~({e.source, e.target} \subseteq Node)
     THEN phase' = "unknownNode" /\ UNCHANGED remaining
     ELSE /\ phase' = "loop"
          /\ remaining' = [n \in Node |-> Cardinality(In(n))]
  /\ UNCHANGED <<edges, iter, executed, failed, opened, nodeVars>>

\* One turn of the while loop that finds ready nodes: gather starts them all.
StartRound ==
  /\ phase = "loop" /\ Ready # {}
  /\ iter' = iter + 1
  /\ IF iter' > MaxIterations
     THEN phase' = "exceeded" /\ UNCHANGED run
     ELSE /\ phase' = "gather"
          /\ run' = [n \in Node |-> IF n \in Ready THEN "scheduled" ELSE run[n]]
  /\ UNCHANGED <<edges, remaining, executed, failed, opened, attempts, result>>

\* Mutant: the nodes that can no longer run are left out of failed.
GiveUpUnmarked ==
  /\ phase = "loop" /\ Ready = {} /\ Settled # Node
  /\ iter' = iter + 1
  /\ phase' = IF iter' > MaxIterations THEN "exceeded"
              ELSE IF Settled = {} THEN "deadlock" ELSE "done"
  /\ UNCHANGED <<edges, remaining, executed, failed, opened, nodeVars>>

\* A turn that finds none: everything left fails, or nothing ever could run.
GiveUp ==
  /\ phase = "loop" /\ Ready = {} /\ Settled # Node
  /\ iter' = iter + 1
  /\ phase' = IF iter' > MaxIterations THEN "exceeded"
              ELSE IF Settled = {} THEN "deadlock" ELSE "done"
  /\ failed' = IF phase' = "done" THEN Node \ executed ELSE failed
  /\ UNCHANGED <<edges, remaining, executed, opened, nodeVars>>

\* The loop condition fails: every node is settled.
Finish ==
  /\ phase = "loop" /\ Settled = Node
  /\ phase' = "done"
  /\ UNCHANGED <<edges, iter, remaining, executed, failed, opened, nodeVars>>

\* _run_node enters its try block: the first time, or after the backoff sleep.
Invoke(n) ==
  /\ run[n] \in {"scheduled", "sleeping"}
  /\ run' = [run EXCEPT ![n] = "running"]
  /\ UNCHANGED <<edges, loopVars, attempts, result>>

Return(n, r) ==
  /\ run[n] = "running"
  /\ run' = [run EXCEPT ![n] = "returned"]
  /\ result' = [result EXCEPT ![n] = r]
  /\ UNCHANGED <<edges, loopVars, attempts>>

\* Mutants: one retry too few, and a retry that is not counted.
FailEarly(n) ==
  /\ run[n] = "running"
  /\ attempts' = [attempts EXCEPT ![n] = @ + 1]
  /\ run' = [run EXCEPT ![n] =
               IF attempts'[n] < MaxRetries[n] THEN "sleeping" ELSE "raised"]
  /\ UNCHANGED <<edges, loopVars, result>>
FailUncounted(n) ==
  /\ run[n] = "running"
  /\ run' = [run EXCEPT ![n] =
               IF attempts[n] < MaxRetries[n] THEN "sleeping" ELSE "raised"]
  /\ UNCHANGED <<edges, loopVars, attempts, result>>

\* An Exception, a timeout of wait_for included: retried or passed on.
Fail(n) ==
  /\ run[n] = "running"
  /\ attempts' = [attempts EXCEPT ![n] = @ + 1]
  /\ run' = [run EXCEPT ![n] =
               IF attempts'[n] <= MaxRetries[n] THEN "sleeping" ELSE "raised"]
  /\ UNCHANGED <<edges, loopVars, result>>

\* A CancelledError is not an Exception: it is not retried, and execute takes
\* it for the node's result.
Cancel(n) == n \in MayCancel /\ Return(n, CancelledError)

\* The verdict of the condition of e, whose source has returned.
MayBe(e, verdict) == verdict \in Verdicts[<<e.cond, result[e.source]>>]

\* gather has all its results, and the loop over them runs without an await.
Returned == {n \in Round : run[n] = "returned"}

\* The edges the conditions let through, one set per combination of verdicts.
TakenChoices ==
  {taken \in SUBSET Out(Returned) :
     \A e \in Out(Returned) : MayBe(e, IF e \in taken THEN "pass" ELSE "block")}

\* Mutants: every outgoing edge opens whatever its condition says, and the sets
\* of the earlier rounds are overwritten.
SettleUnconditionally(taken) ==
  /\ executed' = executed \union Returned
  /\ failed' = failed \union (Round \ Returned)
  /\ opened' = opened \union taken
  /\ remaining' = [n \in Node |->
       remaining[n] - Cardinality({e \in Out(Returned) : e.target = n})]
SettleAfresh(taken) ==
  /\ executed' = Returned
  /\ failed' = Round \ Returned
  /\ opened' = opened \union taken
  /\ remaining' = [n \in Node |->
       remaining[n] - Cardinality({e \in taken : e.target = n})]

Settle(taken) ==
  /\ executed' = executed \union Returned
  /\ failed' = failed \union (Round \ Returned)
  /\ opened' = opened \union taken
  /\ remaining' = [n \in Node |->
       remaining[n] - Cardinality({e \in taken : e.target = n})]

CollectRound ==
  /\ phase = "gather" /\ Round \subseteq Finished
  /\ \E taken \in TakenChoices : Settle(taken)
  /\ phase' = "loop"
  /\ UNCHANGED <<edges, iter, nodeVars>>

\* A condition that raises ends execute, and with it the bookkeeping.
ConditionRaises ==
  /\ phase = "gather" /\ Round \subseteq Finished
  /\ \E e \in Out(Returned) : MayBe(e, "raise")
  /\ phase' = "conditionError"
  /\ UNCHANGED <<edges, iter, remaining, executed, failed, opened, nodeVars>>

Loop == Build \/ StartRound \/ GiveUp \/ Finish \/ CollectRound \/ ConditionRaises
RunNode(n) == Invoke(n) \/ (\E r \in Result : Return(n, r)) \/ Fail(n) \/ Cancel(n)
Terminated == phase \in Ended /\ UNCHANGED vars

Next == Loop \/ (\E n \in Node : RunNode(n)) \/ Terminated
Spec == Init /\ [][Next]_vars

\* The event loop keeps running ready callbacks, and every node function ends.
Fairness == WF_vars(Loop) /\ \A n \in Node : WF_vars(RunNode(n))
FairSpec == Spec /\ Fairness

-----------------------------------------------------------------------------
TypeOK ==
  /\ edges \in Topology
  /\ phase \in {"build", "loop", "gather"} \union Ended
  /\ iter \in Nat
  /\ remaining \in [Node -> Nat]
  /\ executed \subseteq Node /\ failed \subseteq Node /\ opened \subseteq edges
  /\ run \in [Node -> {"idle", "scheduled", "running", "sleeping",
                       "returned", "raised"}]
  /\ attempts \in [Node -> Nat]
  /\ result \in [Node -> Result \union {CancelledError}]

\* A node starts only after every incoming edge has been let through by its
\* condition, hence after the source of each of them has executed; the counter
\* remaining_in_degree can hide a wrong decrement that starts it early.
DependencyOrder ==
  \A n \in Started : In(n) \subseteq opened /\ \A e \in In(n) : e.source \in executed

\* No node is skipped that could have run: when execute returns, each node that
\* failed without having started has an incoming edge that was never opened,
\* and each other failed node has used up its retries.
NothingSkipped ==
  phase = "done" =>
    \A n \in failed : IF n \in Started THEN attempts[n] = MaxRetries[n] + 1
                                       ELSE In(n) \ opened # {}

\* The two RuntimeErrors: the iteration limit is never reached, and "deadlock"
\* is reported only for a graph of which no node ever started.
AbortsAreGenuine ==
  /\ phase # "exceeded"
  /\ phase = "deadlock" => Started = {} /\ \A n \in Node : In(n) # {}

\* What a return means: every node is in exactly one of __executed and __failed,
\* and a node is in __executed exactly when its coroutine returned.
ReturnPartitions ==
  phase = "done" =>
    /\ executed \intersect failed = {} /\ Settled = Node
    /\ executed = {n \in Node : run[n] = "returned"}

\* A settled node is settled for good: no later round runs it again, moves it
\* from one set to the other, or overwrites its entry in the state.
SettledForGood ==
  [][/\ executed \subseteq executed' /\ failed \subseteq failed'
     /\ \A n \in Settled : run'[n] = run[n] /\ result'[n] = result[n]]_vars

\* execute always returns or raises, for cyclic graphs and failing nodes too.
Terminates == <>(phase \in Ended)
=============================================================================
