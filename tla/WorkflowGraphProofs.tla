------------------------ MODULE WorkflowGraphProofs ------------------------
(* The safety of Graph.execute, for every finite graph, every condition and  *)
(* every retry count.                                                        *)
EXTENDS WorkflowGraph, FiniteSetTheorems, TLAPS

\* The in-degree pass has accepted the graph.
Built == phase \notin {"build", "unknownNode"}

\* Between two rounds no coroutine of execute is alive.
BetweenRounds == phase \notin {"gather", "conditionError"} => Started \subseteq Settled

\* Until execute gives up, only nodes that ran are settled.
SettledHasRun == phase # "done" => Settled \subseteq Started

\* Before the loop nothing has happened.
Fresh == ~Built => /\ Started = {} /\ executed = {} /\ failed = {} /\ opened = {}
                   /\ iter = 0

\* The counter the code keeps is the number of incoming edges not yet opened.
CountsUnopened == Built => \A n \in Node : remaining[n] = Cardinality(In(n) \ opened)
KnowsEdges == Built => \A e \in edges : e.source \in Node /\ e.target \in Node
OpenedAfterSource == \A e \in opened : e.source \in executed

\* The two sets agree with what the coroutines did.
SetsMatchRuns ==
  /\ executed \intersect failed = {}
  /\ \A n \in executed : run[n] = "returned"
  /\ \A n \in failed \intersect Started : run[n] = "raised"

\* _run_node raises at its last attempt and not before.
RetryBudget ==
  \A n \in Node : IF run[n] = "raised" THEN attempts[n] = MaxRetries[n] + 1
                                       ELSE attempts[n] <= MaxRetries[n]

\* Every turn of the loop settles at least one node.
EveryRoundSettles ==
  /\ phase = "gather" => Round # {}
  /\ phase = "loop" => iter <= Cardinality(Settled)
  /\ phase = "gather" => iter <= Cardinality(Settled) + 1

IInv == /\ TypeOK /\ BetweenRounds /\ SettledHasRun /\ Fresh
        /\ CountsUnopened /\ KnowsEdges /\ OpenedAfterSource /\ DependencyOrder /\ SetsMatchRuns /\ RetryBudget
        /\ EveryRoundSettles /\ NothingSkipped /\ AbortsAreGenuine /\ ReturnPartitions
-----------------------------------------------------------------------------
\* Every set whose size the engine counts is finite.
LEMMA FiniteParts ==
  ASSUME TypeOK
  PROVE  /\ IsFiniteSet(edges)
         /\ \A T \in SUBSET edges : IsFiniteSet(T) /\ Cardinality(T) \in Nat
         /\ \A S \in SUBSET Node : IsFiniteSet(S) /\ Cardinality(S) \in Nat
<1>1. IsFiniteSet(edges)
  BY TopologyAssumption DEF TypeOK
<1>2. \A T \in SUBSET edges : IsFiniteSet(T) /\ Cardinality(T) \in Nat
  BY <1>1, FS_Subset, FS_CardinalityType
<1>3. \A S \in SUBSET Node : IsFiniteSet(S) /\ Cardinality(S) \in Nat
  BY NodeAssumption, FS_Subset, FS_CardinalityType
<1> QED BY <1>1, <1>2, <1>3

\* A proper part of a finite set is smaller.
LEMMA ProperSubsetIsSmaller ==
  ASSUME NEW S, IsFiniteSet(S), NEW T \in SUBSET S, T # S
  PROVE  Cardinality(T) < Cardinality(S)
<1>1. Cardinality(T) <= Cardinality(S) /\ Cardinality(S) # Cardinality(T)
  BY FS_Subset
<1>2. Cardinality(T) \in Nat /\ Cardinality(S) \in Nat
  BY FS_Subset, FS_CardinalityType
<1> QED BY <1>1, <1>2

\* What counting down a counter by a part of the set it counts leaves.
LEMMA RemovePart ==
  ASSUME NEW S, IsFiniteSet(S), NEW T \in SUBSET S
  PROVE  /\ Cardinality(S \ T) \in Nat
         /\ Cardinality(S \ T) = Cardinality(S) - Cardinality(T)
<1>1. IsFiniteSet(T) /\ IsFiniteSet(S \ T)
  BY FS_Subset
<1>2. Cardinality(S \ T) = Cardinality(S) - Cardinality(S \cap T)
  BY FS_Difference
<1>3. S \cap T = T
  OBVIOUS
<1> QED BY <1>1, <1>2, <1>3, FS_CardinalityType

LEMMA InitEstablishes == Init => IInv
<1> SUFFICES ASSUME Init PROVE IInv
  OBVIOUS
<1>1. TypeOK
  BY DEF Init, TypeOK, Ended
<1>2. Started = {} /\ Settled = {}
  BY DEF Init, Started, Settled
<1>3. RetryBudget
  BY RetryAssumption DEF Init, RetryBudget
<1> QED
  BY <1>1, <1>2, <1>3 DEF Init, IInv, BetweenRounds, SettledHasRun, Fresh, Built, CountsUnopened,
     KnowsEdges, OpenedAfterSource, DependencyOrder, SetsMatchRuns,
     EveryRoundSettles, NothingSkipped, AbortsAreGenuine, ReturnPartitions

LEMMA BuildPreserves == IInv /\ Build => IInv'
<1> SUFFICES ASSUME IInv, Build PROVE IInv'
  OBVIOUS
<1> USE DEF IInv
<1>0. /\ UNCHANGED <<edges, iter, executed, failed, opened, run, attempts, result>>
      /\ Started = {} /\ executed = {} /\ failed = {} /\ opened = {} /\ iter = 0
      /\ phase' \in {"unknownNode", "loop"}
  BY DEF Build, Fresh, Built, nodeVars
<1>1. phase' = "loop" =>
        /\ \A e \in edges : e.source \in Node /\ e.target \in Node
        /\ remaining' = [n \in Node |-> Cardinality(In(n))]
  BY DEF Build
<1>2. \A n \in Node : Cardinality(In(n)) \in Nat
  BY FiniteParts DEF In
<1>3. phase' # "loop" => remaining' = remaining
  BY DEF Build
<1>4. TypeOK'
  BY <1>0, <1>1, <1>2, <1>3 DEF TypeOK, Ended
<1>5. Started' = {} /\ Settled' = {} /\ Round' = {} /\ \A n : In(n)' = In(n)
  BY <1>0 DEF Started, Settled, Round, In
<1>6. CountsUnopened' /\ KnowsEdges' /\ BetweenRounds' /\ Fresh'
  <2>1. \A n \in Node : In(n) \ {} = In(n)
    OBVIOUS
  <2> QED
    BY <1>0, <1>1, <1>5, <2>1
       DEF CountsUnopened, KnowsEdges, BetweenRounds, Fresh, Built
<1>7. EveryRoundSettles'
  BY <1>0, <1>5, FS_EmptySet DEF EveryRoundSettles
<1>8. SetsMatchRuns' /\ RetryBudget' /\ OpenedAfterSource' /\ DependencyOrder'
  BY <1>0, <1>5 DEF SetsMatchRuns, RetryBudget, OpenedAfterSource, DependencyOrder
<1> QED
  BY <1>0, <1>4, <1>5, <1>6, <1>7, <1>8
     DEF SettledHasRun, NothingSkipped, AbortsAreGenuine, ReturnPartitions

\* Each ready node has all its incoming edges opened, and they come from
\* executed nodes.
LEMMA ReadyIsUnblocked ==
  ASSUME IInv, phase = "loop"
  PROVE  \A n \in Ready : /\ In(n) \subseteq opened
                         /\ \A e \in In(n) : e.source \in executed
<1> USE DEF IInv
<1> SUFFICES ASSUME NEW n \in Ready PROVE In(n) \subseteq opened
  BY DEF OpenedAfterSource
<1>1. n \in Node /\ Cardinality(In(n) \ opened) = 0
  BY DEF Ready, CountsUnopened, Built
<1>2. IsFiniteSet(In(n) \ opened)
  BY FiniteParts DEF In
<1> QED BY <1>1, <1>2, FS_EmptySet

LEMMA StartRoundPreserves == IInv /\ StartRound => IInv'
<1> SUFFICES ASSUME IInv, StartRound PROVE IInv'
  OBVIOUS
<1> USE DEF IInv
<1>0. /\ UNCHANGED <<edges, remaining, executed, failed, opened, attempts, result>>
      /\ phase = "loop" /\ Ready # {} /\ iter' = iter + 1
  BY DEF StartRound
<1>1. Settled' = Settled /\ (\A n : In(n)' = In(n)) /\ Started \subseteq Settled
  BY <1>0 DEF Settled, In, BetweenRounds
<1>2. iter' <= MaxIterations
  <2>1. Settled \in SUBSET Node /\ Settled # Node /\ IsFiniteSet(Node)
    BY <1>0, NodeAssumption DEF Ready, Settled, TypeOK
  <2>2. Cardinality(Settled) < Cardinality(Node)
    BY <2>1, ProperSubsetIsSmaller
  <2>3. Cardinality(Settled) \in Nat /\ Cardinality(Node) \in Nat
    BY <2>1, FiniteParts
  <2>4. iter <= Cardinality(Settled) /\ iter \in Nat
    BY <1>0 DEF EveryRoundSettles, TypeOK
  <2> QED BY <1>0, <2>2, <2>3, <2>4 DEF MaxIterations
<1>3. /\ phase' = "gather"
      /\ run' = [n \in Node |-> IF n \in Ready THEN "scheduled" ELSE run[n]]
  <2>1. ~(iter' > MaxIterations)
    <3>1. iter' \in Nat /\ MaxIterations \in Nat
      BY <1>0, NodeAssumption, FS_CardinalityType DEF TypeOK, MaxIterations
    <3> QED BY <1>2, <3>1
  <2> QED BY <2>1 DEF StartRound
<1>4. Started' = Started \union Ready /\ Ready \subseteq Node \ Settled
  BY <1>3 DEF Started, Ready, TypeOK
<1>5. TypeOK'
  BY <1>0, <1>3 DEF TypeOK
<1>6. Round' # {}
  BY <1>0, <1>1, <1>4 DEF Round
<1>7. EveryRoundSettles'
  <2>1. Cardinality(Settled) \in Nat
    BY FiniteParts DEF Settled, TypeOK
  <2>2. iter <= Cardinality(Settled) /\ iter \in Nat
    BY <1>0 DEF EveryRoundSettles, TypeOK
  <2> QED BY <1>0, <1>1, <1>3, <1>6, <2>1, <2>2 DEF EveryRoundSettles
<1>8. DependencyOrder'
  BY <1>0, <1>1, <1>4, ReadyIsUnblocked DEF DependencyOrder
<1>9. SetsMatchRuns' /\ RetryBudget'
  <2>1. \A n \in Settled : run'[n] = run[n]
    BY <1>3 DEF Ready, Settled, TypeOK
  <2>2. \A n \in Ready : run[n] # "raised"
    BY <1>1 DEF Ready, Started
  <2>3. SetsMatchRuns'
    BY <1>0, <1>1, <1>4, <2>1 DEF SetsMatchRuns, Settled, Started
  <2>4. RetryBudget'
    BY <1>0, <1>3, <2>2 DEF RetryBudget, TypeOK
  <2> QED BY <2>3, <2>4
<1>10. BetweenRounds' /\ Fresh' /\ CountsUnopened' /\ KnowsEdges' /\ OpenedAfterSource'
  BY <1>0, <1>1, <1>3
     DEF BetweenRounds, Fresh, Built, CountsUnopened, KnowsEdges, OpenedAfterSource
<1>11. SettledHasRun'
  BY <1>0, <1>1, <1>4 DEF SettledHasRun
<1> QED
  BY <1>3, <1>5, <1>7, <1>8, <1>9, <1>10, <1>11
     DEF NothingSkipped, AbortsAreGenuine, ReturnPartitions

\* Both ways out of the loop that do not start a round.
LEMMA LoopExitPreserves == IInv /\ (GiveUp \/ Finish) => IInv'
<1> SUFFICES ASSUME IInv, GiveUp \/ Finish PROVE IInv'
  OBVIOUS
<1> USE DEF IInv
<1>0. /\ UNCHANGED <<edges, remaining, executed, opened, run, attempts, result>>
      /\ phase = "loop" /\ Started \subseteq Settled
  BY DEF GiveUp, Finish, BetweenRounds, nodeVars
<1>1. Started' = Started /\ (\A n : In(n)' = In(n))
  BY <1>0 DEF Started, In
<1>2. CASE GiveUp
  <2>1. /\ Ready = {} /\ Settled # Node /\ iter' = iter + 1
        /\ phase' = IF iter' > MaxIterations THEN "exceeded"
                    ELSE IF Settled = {} THEN "deadlock" ELSE "done"
        /\ failed' = IF phase' = "done" THEN Node \ executed ELSE failed
    BY <1>2 DEF GiveUp
  <2>2. ~(iter' > MaxIterations)
    <3>1. Settled \in SUBSET Node /\ IsFiniteSet(Node)
      BY NodeAssumption DEF Settled, TypeOK
    <3>2. Cardinality(Settled) < Cardinality(Node)
      BY <2>1, <3>1, ProperSubsetIsSmaller
    <3>3. Cardinality(Settled) \in Nat /\ Cardinality(Node) \in Nat
      BY <3>1, FiniteParts
    <3>4. iter <= Cardinality(Settled) /\ iter \in Nat
      BY <1>0 DEF EveryRoundSettles, TypeOK
    <3> QED BY <2>1, <3>2, <3>3, <3>4 DEF MaxIterations
  <2>3. phase' \in {"deadlock", "done"} /\ (phase' = "deadlock" <=> Settled = {})
    BY <2>1, <2>2
  <2>4. \A n \in Node \ Settled : In(n) \ opened # {}
    <3> SUFFICES ASSUME NEW n \in Node \ Settled PROVE In(n) \ opened # {}
      OBVIOUS
    <3>1. remaining[n] # 0 /\ remaining[n] = Cardinality(In(n) \ opened)
      BY <1>0, <2>1 DEF Ready, CountsUnopened, Built
    <3> QED BY <3>1, FS_EmptySet
  <2>5. failed \subseteq failed' /\ failed' \subseteq Node /\ executed \intersect failed' = {}
    BY <2>1 DEF SetsMatchRuns, TypeOK
  <2>6. TypeOK'
    BY <1>0, <2>1, <2>3, <2>5 DEF TypeOK, Ended
  <2>7. \A n \in failed' \intersect Started : n \in failed
    BY <1>0, <2>5 DEF Settled
  <2>8. SetsMatchRuns' /\ RetryBudget'
    BY <1>0, <1>1, <2>5, <2>7 DEF SetsMatchRuns, RetryBudget
  <2>9. BetweenRounds' /\ EveryRoundSettles' /\ SettledHasRun'
    BY <1>0, <1>1, <2>1, <2>3, <2>5
       DEF BetweenRounds, EveryRoundSettles, SettledHasRun, Settled
  <2>10. NothingSkipped'
    <3> SUFFICES ASSUME phase' = "done", NEW n \in failed'
                 PROVE IF n \in Started THEN attempts[n] = MaxRetries[n] + 1
                                        ELSE In(n) \ opened # {}
      BY <1>0, <1>1 DEF NothingSkipped
    <3>1. CASE n \in Started
      BY <2>7, <3>1 DEF SetsMatchRuns, RetryBudget, TypeOK
    <3>2. CASE n \notin Started
      <4>1. n \in Node \ executed
        BY <2>5
      <4>2. n \notin failed \/ In(n) \ opened # {}
        \* A node that failed in an earlier round had started.
        BY <3>2, <1>0 DEF SettledHasRun, Settled
      <4> QED BY <2>4, <3>2, <4>1, <4>2 DEF Settled
    <3> QED BY <3>1, <3>2
  <2>11. AbortsAreGenuine' /\ ReturnPartitions'
    <3>1. phase' = "deadlock" => Started = {} /\ \A n \in Node : In(n) # {}
      BY <1>0, <2>3, <2>4
    <3>2. phase' = "done" => Settled' = Node
      BY <1>0, <2>1, <2>3 DEF Settled, TypeOK
    <3>3. phase' = "done" => executed = {n \in Node : run[n] = "returned"}
      BY <1>0 DEF Settled, SetsMatchRuns, Started, TypeOK
    <3> QED BY <1>0, <1>1, <2>3, <2>5, <3>1, <3>2, <3>3
            DEF AbortsAreGenuine, ReturnPartitions
  <2> QED
    BY <1>0, <1>1, <2>3, <2>6, <2>8, <2>9, <2>10, <2>11
       DEF Fresh, Built, CountsUnopened, KnowsEdges, OpenedAfterSource, DependencyOrder
<1>3. CASE Finish
  <2>1. Settled = Node /\ phase' = "done" /\ UNCHANGED <<iter, failed>>
    BY <1>3 DEF Finish
  <2>2. Settled' = Settled /\ TypeOK'
    BY <1>0, <2>1 DEF Settled, TypeOK, Ended
  <2>3. executed = {n \in Node : run[n] = "returned"}
    BY <1>0 DEF Settled, SetsMatchRuns, Started, TypeOK
  <2>4. NothingSkipped'
    BY <1>0, <1>1, <2>1
       DEF NothingSkipped, SettledHasRun, Settled, SetsMatchRuns, RetryBudget, TypeOK
  <2>5. ReturnPartitions' /\ AbortsAreGenuine'
    BY <1>0, <2>1, <2>2, <2>3 DEF ReturnPartitions, AbortsAreGenuine, SetsMatchRuns
  <2>6. BetweenRounds' /\ SettledHasRun' /\ EveryRoundSettles' /\ SetsMatchRuns' /\ RetryBudget'
    BY <1>0, <1>1, <2>1, <2>2
       DEF BetweenRounds, SettledHasRun, EveryRoundSettles, SetsMatchRuns, RetryBudget
  <2> QED
    BY <1>0, <1>1, <2>1, <2>2, <2>4, <2>5, <2>6
       DEF Fresh, Built, CountsUnopened, KnowsEdges, OpenedAfterSource, DependencyOrder
<1> QED BY <1>2, <1>3

\* A step of one node's coroutine: only its own progress changes.
LEMMA RunNodePreserves ==
  ASSUME NEW n \in Node
  PROVE  IInv /\ RunNode(n) => IInv'
<1> SUFFICES ASSUME IInv, RunNode(n) PROVE IInv'
  OBVIOUS
<1> USE DEF IInv
<1>0. UNCHANGED <<edges, phase, iter, remaining, executed, failed, opened>>
  BY DEF RunNode, Invoke, Return, Fail, Cancel, loopVars
<1>1. /\ run[n] \in {"scheduled", "sleeping", "running"}
      /\ \E state \in {"running", "returned", "sleeping", "raised"} :
           run' = [run EXCEPT ![n] = state]
  BY DEF RunNode, Invoke, Return, Fail, Cancel
<1>2. n \in Started /\ n \notin Settled
  BY <1>1 DEF Started, SetsMatchRuns, Settled
<1>3. /\ Started' = Started /\ Settled' = Settled /\ Round' = Round
      /\ \A m : In(m)' = In(m)
  <2>1. Started' = Started
    BY <1>1 DEF Started, TypeOK
  <2> QED BY <1>0, <2>1 DEF Settled, Round, In
<1>4. phase = "gather" \/ phase = "conditionError"
  BY <1>2 DEF BetweenRounds
<1>5. TypeOK' /\ RetryBudget'
  <2>1. CASE Invoke(n)
    BY <1>0, <1>1, <2>1 DEF Invoke, TypeOK, RetryBudget
  <2>2. CASE \E r \in Result \union {CancelledError} : Return(n, r)
    BY <1>0, <2>2 DEF Return, TypeOK, RetryBudget
  <2>3. CASE Fail(n)
    <3>1. attempts[n] <= MaxRetries[n] /\ attempts[n] \in Nat /\ MaxRetries[n] \in Nat
      BY <2>3, RetryAssumption DEF Fail, RetryBudget, TypeOK
    <3>2. /\ attempts' = [attempts EXCEPT ![n] = @ + 1]
          /\ run' = [run EXCEPT ![n] =
               IF attempts[n] + 1 <= MaxRetries[n] THEN "sleeping" ELSE "raised"]
          /\ result' = result
      BY <2>3 DEF Fail, TypeOK
    <3>3. TypeOK'
      BY <1>0, <3>1, <3>2 DEF TypeOK
    <3>4. RetryBudget'
      BY <3>1, <3>2 DEF TypeOK, RetryBudget
    <3> QED BY <3>3, <3>4
  <2> QED BY <2>1, <2>2, <2>3 DEF RunNode, Cancel
<1>6. SetsMatchRuns'
  BY <1>0, <1>1, <1>2, <1>3 DEF SetsMatchRuns, Settled, TypeOK
<1>7. DependencyOrder' /\ OpenedAfterSource' /\ CountsUnopened' /\ KnowsEdges'
  BY <1>0, <1>3
     DEF DependencyOrder, OpenedAfterSource, CountsUnopened, KnowsEdges, Built
<1> QED
  BY <1>0, <1>3, <1>4, <1>5, <1>6, <1>7
     DEF BetweenRounds, SettledHasRun, Fresh, Built, EveryRoundSettles,
         NothingSkipped, AbortsAreGenuine, ReturnPartitions

LEMMA CollectRoundPreserves == IInv /\ CollectRound => IInv'
<1> SUFFICES ASSUME IInv, phase = "gather", Round \subseteq Finished, phase' = "loop",
                    UNCHANGED <<edges, iter, nodeVars>>,
                    NEW taken \in TakenChoices, Settle(taken)
             PROVE  IInv'
  BY DEF CollectRound
<1> USE DEF IInv
<1>0. /\ UNCHANGED <<edges, iter, run, attempts, result>>
      /\ executed' = executed \union Returned
      /\ failed' = failed \union (Round \ Returned)
      /\ opened' = opened \union taken
      /\ taken \subseteq edges
  BY DEF nodeVars, Settle, TakenChoices, Out
<1>1. /\ \A e \in taken : e.source \in Returned
      /\ Returned \subseteq Round /\ Round \subseteq Node \ Settled
      /\ Round \subseteq Started
  BY DEF TakenChoices, Out, Returned, Round, Started
<1>2. /\ Started' = Started /\ Settled' = Settled \union Round
      /\ \A n : In(n)' = In(n)
  BY <1>0, <1>1 DEF Started, Settled, In
<1>3. Started \subseteq Settled' /\ Settled' \subseteq Started
  BY <1>2, <1>1 DEF Round, SettledHasRun
<1>4. \A n \in Node :
        LET into == {e \in taken : e.target = n}
        IN  /\ remaining'[n] = Cardinality((In(n) \ opened) \ into)
            /\ remaining'[n] \in Nat
  <2> SUFFICES ASSUME NEW n \in Node
               PROVE  LET into == {e \in taken : e.target = n}
                      IN  /\ remaining'[n] = Cardinality((In(n) \ opened) \ into)
                          /\ remaining'[n] \in Nat
    OBVIOUS
  <2> DEFINE into == {e \in taken : e.target = n}
  <2>1. into \in SUBSET (In(n) \ opened)
    BY <1>0, <1>1 DEF In, OpenedAfterSource, Settled
  <2>2. IsFiniteSet(In(n) \ opened)
    BY FiniteParts DEF In
  <2>3. /\ Cardinality((In(n) \ opened) \ into) \in Nat
        /\ Cardinality((In(n) \ opened) \ into)
             = Cardinality(In(n) \ opened) - Cardinality(into)
    BY <2>1, <2>2, RemovePart
  <2>4. remaining'[n] = Cardinality(In(n) \ opened) - Cardinality(into)
    BY DEF Settle, CountsUnopened, Built
  <2> QED BY <2>3, <2>4
<1>5. CountsUnopened'
  <2>1. \A n \in Node : (In(n) \ opened) \ {e \in taken : e.target = n} = In(n) \ opened'
    BY <1>0 DEF In
  <2> QED BY <1>2, <1>4, <2>1 DEF CountsUnopened
<1>6. TypeOK'
  <2>1. remaining' \in [Node -> Nat]
    BY <1>4 DEF Settle
  <2> QED BY <1>0, <1>1, <2>1 DEF TypeOK
<1>7. SetsMatchRuns'
  <2>1. \A n \in Round \ Returned : run[n] = "raised"
    BY DEF Returned, Finished
  <2> QED BY <1>0, <1>1, <1>2, <2>1 DEF SetsMatchRuns, Returned, Settled
<1>8. EveryRoundSettles'
  <2>1. Settled' \in SUBSET Node /\ Settled \in SUBSET Settled' /\ Settled # Settled'
    BY <1>1, <1>2 DEF EveryRoundSettles, TypeOK, Settled
  <2>2. IsFiniteSet(Settled')
    BY <2>1, NodeAssumption, FS_Subset
  <2>3. Cardinality(Settled) < Cardinality(Settled')
    BY <2>1, <2>2, ProperSubsetIsSmaller
  <2>4. Cardinality(Settled) \in Nat /\ Cardinality(Settled') \in Nat
    BY <2>1, <2>2, FS_Subset, FS_CardinalityType
  <2>5. iter <= Cardinality(Settled) + 1 /\ iter \in Nat
    BY DEF EveryRoundSettles, TypeOK
  <2>6. iter' <= Cardinality(Settled')
    BY <1>0, <2>3, <2>4, <2>5
  <2> QED BY <2>6 DEF EveryRoundSettles
<1>9. DependencyOrder' /\ OpenedAfterSource'
  BY <1>0, <1>1, <1>2 DEF DependencyOrder, OpenedAfterSource
<1>10. RetryBudget' /\ KnowsEdges' /\ BetweenRounds' /\ SettledHasRun' /\ Fresh'
  BY <1>0, <1>2, <1>3
     DEF RetryBudget, KnowsEdges, BetweenRounds, SettledHasRun, Fresh, Built
<1> QED
  BY <1>5, <1>6, <1>7, <1>8, <1>9, <1>10
     DEF NothingSkipped, AbortsAreGenuine, ReturnPartitions

LEMMA AbortPreserves == IInv /\ (ConditionRaises \/ UNCHANGED vars) => IInv'
<1> SUFFICES ASSUME IInv, ConditionRaises \/ UNCHANGED vars PROVE IInv'
  OBVIOUS
<1> USE DEF IInv
<1>0. UNCHANGED <<edges, iter, remaining, executed, failed, opened,
                 run, attempts, result>>
  BY DEF ConditionRaises, vars, nodeVars
<1>1. \/ phase' = phase
      \/ phase = "gather" /\ phase' = "conditionError"
  BY DEF ConditionRaises, vars
<1>2. /\ Started' = Started /\ Settled' = Settled /\ Round' = Round
      /\ \A n : In(n)' = In(n)
  BY <1>0 DEF Started, Settled, Round, In
<1>3. TypeOK'
  BY <1>0, <1>1 DEF TypeOK, Ended
<1>4. DependencyOrder' /\ OpenedAfterSource' /\ SetsMatchRuns' /\ RetryBudget'
  BY <1>0, <1>2 DEF DependencyOrder, OpenedAfterSource, SetsMatchRuns, RetryBudget
<1>5. BetweenRounds' /\ SettledHasRun' /\ EveryRoundSettles'
  BY <1>0, <1>1, <1>2 DEF BetweenRounds, SettledHasRun, EveryRoundSettles
<1>6. Fresh' /\ CountsUnopened' /\ KnowsEdges'
  BY <1>0, <1>1, <1>2 DEF Fresh, CountsUnopened, KnowsEdges, Built
<1> QED
  BY <1>0, <1>1, <1>2, <1>3, <1>4, <1>5, <1>6
     DEF NothingSkipped, AbortsAreGenuine, ReturnPartitions
-----------------------------------------------------------------------------
\* IInv is an inductive invariant of the engine.
THEOREM Safety == Spec => []IInv
<1>1. IInv /\ [Next]_vars => IInv'
  <2> SUFFICES ASSUME IInv, [Next]_vars PROVE IInv'
    OBVIOUS
  <2>1. CASE Loop
    BY <2>1, BuildPreserves, StartRoundPreserves, LoopExitPreserves,
       CollectRoundPreserves, AbortPreserves DEF Loop
  <2>2. CASE \E n \in Node : RunNode(n)
    BY <2>2, RunNodePreserves
  <2>3. CASE Terminated \/ UNCHANGED vars
    BY <2>3, AbortPreserves DEF Terminated
  <2> QED BY <2>1, <2>2, <2>3 DEF Next
<1> QED BY <1>1, InitEstablishes, PTL DEF Spec

\* The variables keep their types; in particular no counter of
\* remaining_in_degree ever becomes negative.
THEOREM TypeCorrect == Spec => []TypeOK
<1>1. IInv => TypeOK
  BY DEF IInv
<1> QED BY <1>1, Safety, PTL

\* No node starts before each of its incoming edges is open and the source of
\* each has executed.
THEOREM NodesRunInOrder == Spec => []DependencyOrder
<1>1. IInv => DependencyOrder
  BY DEF IInv
<1> QED BY <1>1, Safety, PTL

\* A node that a return of execute reports failed had used up its retries, or
\* was behind an edge that never opened.
THEOREM NoNodeIsSkipped == Spec => []NothingSkipped
<1>1. IInv => NothingSkipped
  BY DEF IInv
<1> QED BY <1>1, Safety, PTL

\* The iteration limit is dead code, and "deadlock" is raised only when every
\* node has an incoming edge.
THEOREM NoSpuriousAbort == Spec => []AbortsAreGenuine
<1>1. IInv => AbortsAreGenuine
  BY DEF IInv
<1> QED BY <1>1, Safety, PTL

\* A return of execute puts every node in exactly one of its two lists.
THEOREM ReturnIsComplete == Spec => []ReturnPartitions
<1>1. IInv => ReturnPartitions
  BY DEF IInv
<1> QED BY <1>1, Safety, PTL

\* What is settled stays settled, through every later round.
THEOREM SettledStays == Spec => SettledForGood
<1> DEFINE Keeps == /\ executed \subseteq executed' /\ failed \subseteq failed'
                    /\ \A n \in Settled : run'[n] = run[n] /\ result'[n] = result[n]
<1>1. IInv /\ [Next]_vars => [Keeps]_vars
  <2> SUFFICES ASSUME IInv, Next PROVE Keeps
    OBVIOUS
  <2>1. CASE \E n \in Node : RunNode(n)
    <3>1. PICK n \in Node : RunNode(n)
      BY <2>1
    <3>2. n \notin Settled
      BY <3>1 DEF IInv, SetsMatchRuns, Settled, Started,
                 RunNode, Invoke, Return, Fail, Cancel
    <3> QED
      BY <3>1, <3>2 DEF IInv, TypeOK, Settled, RunNode, Invoke, Return, Fail, Cancel, loopVars
  <2>2. CASE StartRound
    BY <2>2 DEF StartRound, Ready, Settled, IInv, TypeOK
  <2>3. CASE GiveUp
    BY <2>3 DEF GiveUp, nodeVars, IInv, SetsMatchRuns, TypeOK
  <2>4. CASE Build \/ Finish \/ CollectRound \/ ConditionRaises \/ Terminated
    BY <2>4 DEF Build, Finish, CollectRound, Settle, ConditionRaises, Terminated, vars, nodeVars
  <2> QED BY <2>1, <2>2, <2>3, <2>4 DEF Next, Loop
<1> QED BY <1>1, Safety, PTL DEF Spec, SettledForGood
=============================================================================
