----------------------------- MODULE TeamProofs -----------------------------
(* Whose usage a call is charged with and whose plan a chain runs, for any   *)
(* number of requests and tasks, any registry and any intents.  Both rest on *)
(* one fact: a coroutine that has something to do before its next await has  *)
(* the event loop to itself.                                                 *)
EXTENDS A2A, TLAPS

Settled == {"answered", "errorText", "failed"}

\* The coroutines that are between two awaits; at most one, for it has the loop.
Runs(r) ==
  stage[r] \in {"context", "ready", "handed"} \/ (llm[r] \in Settled /\ ~pool[r])
LoopHeld == \A r \in Request : Runs(r) => loop = r

\* A call in a pool thread is a summary's, and a call under way has a tier.
CallInOrder(r) ==
  /\ pool[r] => stage[r] \in {"summary", "cut"}
  /\ llm[r] # "idle" => stage[r] \in {"summary", "classify", "plan", "cut"}
  /\ llm[r] \in {"waiting"} \union Settled => tier[r] \in Tier
CallsInOrder == \A r \in Request : CallInOrder(r)

\* The plans that agents remember, and those the executor runs, were made.
PlansWereMade ==
  /\ \A a \in {"planner", "executor"} : wm[a] # NoPlan => made[wm[a]]
  /\ \A r \in Request : running[r] # NoPlan => made[running[r]]

\* A chain hands the plan over without an await, unless its context has one.
ChainInOrder(r) ==
  /\ leg[r] \in {"plan", "execute"}
  /\ stage[r] \notin {"discover", "classify", "handed", "external"}
  /\ leg[r] = "plan" => running[r] = NoPlan /\ (stage[r] \notin Ended => ~made[r])
  /\ stage[r] \in {"new", "plan"} => leg[r] = "plan"
  /\ leg[r] = "execute" /\ stage[r] = "context" =>
       running[r] = NoPlan /\ (made[r] => wm["executor"] = r)
  /\ leg[r] = "execute" /\ stage[r] \in {"summary", "ready"} => waited[r]
  /\ made[r] /\ ~waited[r] => running[r] \in {NoPlan, r}
ChainsInOrder == \A r \in Request : kind[r] = "chain" => ChainInOrder(r)

IInv == /\ TeamTypeOK /\ LoopHeld /\ CallsInOrder /\ UsageIsOwn
        /\ PlansWereMade /\ ChainsInOrder

\* The event loop is free, or the coroutine's own.
Acts(r) == loop \in {Nobody, r}

\* Nothing has begun.
LEMMA InitEstablishes == ServerInit => IInv
<1> SUFFICES ASSUME ServerInit PROVE IInv
  OBVIOUS
<1> USE DEF ServerInit, Init, RouterInit, NoTier, Lightweight, Standard, Heavy, Tier
<1>1. TeamTypeOK
  <2>1. RouterTypeOK
    BY DEF RouterTypeOK
  <2>2. kind \in [Request -> {"ask", "chain"}] /\ stage \in [Request -> {"new"}]
    OBVIOUS
  <2>3. leg \in [Request -> {"classify", "plan", "execute", "external"}]
    OBVIOUS
  <2>4. wm \in [{"planner", "executor"} -> Request \union {NoPlan}]
    OBVIOUS
  <2>5. modelTier \in Tier /\ prevTier \in [Request -> Tier \union {NoTier}]
    OBVIOUS
  <2>6. /\ running \in [Request -> Request \union {NoPlan}]
        /\ made \in [Request -> BOOLEAN] /\ waited \in [Request -> BOOLEAN]
    OBVIOUS
  <2>7. /\ agents \in Registries /\ pending \in BOOLEAN
        /\ cards \in BOOLEAN
    OBVIOUS
  <2> QED BY <2>1, <2>2, <2>3, <2>4, <2>5, <2>6, <2>7 DEF TeamTypeOK
<1>2. LoopHeld /\ CallsInOrder /\ UsageIsOwn
  BY DEF LoopHeld, Runs, CallsInOrder, CallInOrder, UsageIsOwn, Settled
<1>3. PlansWereMade
  BY DEF PlansWereMade
<1>4. ChainsInOrder
  BY DEF ChainsInOrder, ChainInOrder
<1> QED BY <1>1, <1>2, <1>3, <1>4 DEF IInv

\* What a step of one coroutine leaves alone.
OthersStay(r) ==
  \A q \in Request \ {r} :
    /\ stage'[q] = stage[q] /\ llm'[q] = llm[q]
    /\ pool'[q] = pool[q] /\ tier'[q] = tier[q]
    /\ leg'[q] = leg[q] /\ running'[q] = running[q]
    /\ made'[q] = made[q] /\ waited'[q] = waited[q]

\* A step of the coroutine that has the loop keeps everybody's calls in order.
LEMMA LoopAfter ==
  ASSUME IInv, NEW r \in Request, Acts(r), OthersStay(r), last' = last,
         Runs(r)' => loop' = r,
         llm'[r] = "answered" => pool'[r], CallInOrder(r)'
  PROVE  LoopHeld' /\ CallsInOrder' /\ UsageIsOwn'
<1>1. ASSUME NEW q \in Request, q # r PROVE ~Runs(q) /\ ~Runs(q)'
  BY <1>1, TeamAssumption DEF IInv, LoopHeld, Runs, Acts, OthersStay
<1>2. LoopHeld'
  BY <1>1 DEF LoopHeld
<1>3. CallsInOrder'
  BY DEF IInv, CallsInOrder, CallInOrder, OthersStay
<1>4. UsageIsOwn'
  <2> SUFFICES ASSUME NEW q \in Request, llm'[q] = "answered"
               PROVE  LET usage == last'[Client(tier'[q])]
                      IN usage.by = q \/ usage.inPool \/ pool'[q]
    BY DEF UsageIsOwn, Client
  <2>1. CASE q = r
    BY <2>1
  <2>2. CASE q # r
    BY <2>2 DEF IInv, UsageIsOwn, OthersStay, Client
  <2> QED BY <2>1, <2>2
<1> QED BY <1>2, <1>3, <1>4

\* Plans are made, remembered and run in three steps only.
LEMMA MadeAfter == IInv /\ UNCHANGED <<wm, made, running>> => PlansWereMade'
BY DEF IInv, PlansWereMade

\* A step concerns the plan of its own chain only: no other chain that carries
\* a plan is between two awaits.
LEMMA ChainAfter ==
  ASSUME IInv, NEW r \in Request, Acts(r), OthersStay(r), kind' = kind,
         kind[r] = "chain" => ChainInOrder(r)'
  PROVE  ChainsInOrder'
<1>1. ASSUME NEW q \in Request, q # r, kind[q] = "chain"
      PROVE  ChainInOrder(q)'
  <2>1. stage[q] # "context"
    BY <1>1, TeamAssumption DEF IInv, LoopHeld, Runs, Acts
  <2> QED BY <1>1, <2>1 DEF IInv, ChainsInOrder, ChainInOrder, OthersStay
<1> QED BY <1>1 DEF ChainsInOrder

\* What a step of a coroutine has to show.
LEMMA MoveAfter ==
  ASSUME IInv, NEW r \in Request, Acts(r), TeamTypeOK', OthersStay(r), last' = last,
         Runs(r)' => loop' = r,
         llm'[r] = "answered" => pool'[r], CallInOrder(r)',
         PlansWereMade', kind' = kind,
         kind[r] = "chain" => ChainInOrder(r)'
  PROVE  IInv'
BY LoopAfter, ChainAfter DEF IInv

\* The planner asks on the tier it finds.
LEMMA PlanningPreserves ==
  ASSUME IInv, NEW r \in Request, Acts(r),
         stage[r] \in {"new", "context", "ready", "handed"}, leg[r] = "plan",
         StartPlanning(r)
  PROVE  IInv'
<1> USE DEF StartPlanning, Ask, Goto, registryVars, tierVars, planVars
<1>1. TeamTypeOK'
  BY DEF IInv, TeamTypeOK, RouterTypeOK, Ended, ResolveTier, NoTier, Lightweight,
      Standard, Heavy, Tier
<1>2. OthersStay(r)
  BY DEF IInv, TeamTypeOK, RouterTypeOK, OthersStay
<1>3. /\ last' = last /\ CallInOrder(r)'
      /\ Runs(r)' => loop' = r
      /\ llm'[r] = "answered" => pool'[r]
  BY DEF IInv, TeamTypeOK, RouterTypeOK, CallsInOrder, CallInOrder, Runs, Settled,
      ResolveTier, NoTier, Lightweight, Standard, Heavy, Tier
<1>4. PlansWereMade'
  BY MadeAfter DEF planVars
<1>5. kind' = kind /\ (kind[r] = "chain" => ChainInOrder(r)')
  BY DEF IInv, TeamTypeOK, ChainsInOrder, ChainInOrder, Ended
<1> QED BY <1>1, <1>2, <1>3, <1>4, <1>5, MoveAfter

\* The executor takes the plan that is in its working memory.
LEMMA ExecutingPreserves ==
  ASSUME IInv, NEW r \in Request, Acts(r),
         stage[r] \in {"new", "context", "ready", "handed"}, leg[r] = "execute",
         StartExecuting(r)
  PROVE  IInv'
<1> USE DEF StartExecuting, Ends, Await, Goto, clientVars, registryVars, tierVars
<1>1. TeamTypeOK'
  BY DEF IInv, TeamTypeOK, RouterTypeOK, Ended
<1>2. OthersStay(r)
  BY DEF IInv, TeamTypeOK, RouterTypeOK, OthersStay
<1>3. /\ last' = last /\ CallInOrder(r)'
      /\ Runs(r)' => loop' = r
      /\ llm'[r] = "answered" => pool'[r]
  BY DEF IInv, TeamTypeOK, RouterTypeOK, CallsInOrder, CallInOrder, Runs, Settled
<1>4. PlansWereMade'
  BY DEF IInv, TeamTypeOK, PlansWereMade
<1>5. kind' = kind /\ (kind[r] = "chain" => ChainInOrder(r)')
  BY DEF IInv, TeamTypeOK, ChainsInOrder, ChainInOrder, Ended
<1> QED BY <1>1, <1>2, <1>3, <1>4, <1>5, MoveAfter

\* The router agent asks, on its own tier.
LEMMA ClassifyPreserves ==
  ASSUME IInv, NEW r \in Request, Acts(r),
         stage[r] \in {"new", "context", "ready", "handed"}, leg[r] = "classify",
         StartClassify(r)
  PROVE  IInv'
<1> USE DEF StartClassify, Ask, Goto, registryVars, planVars
<1>1. TeamTypeOK'
  BY DEF IInv, TeamTypeOK, RouterTypeOK, Ended, ResolveTier, NoTier, Lightweight,
      Standard, Heavy, Tier
<1>2. OthersStay(r)
  BY DEF IInv, TeamTypeOK, RouterTypeOK, OthersStay
<1>3. /\ last' = last /\ CallInOrder(r)'
      /\ Runs(r)' => loop' = r
      /\ llm'[r] = "answered" => pool'[r]
  BY DEF IInv, TeamTypeOK, RouterTypeOK, CallsInOrder, CallInOrder, Runs, Settled,
      ResolveTier, NoTier, Lightweight, Standard, Heavy, Tier
<1>4. PlansWereMade'
  BY MadeAfter
<1>5. kind' = kind /\ (kind[r] = "chain" => ChainInOrder(r)')
  BY DEF IInv, TeamTypeOK, ChainsInOrder, ChainInOrder, Ended
<1> QED BY <1>1, <1>2, <1>3, <1>4, <1>5, MoveAfter

\* A request that has its context goes on, to its first call or its end.
LEMMA GoPreserves ==
  ASSUME IInv, NEW r \in Request, Acts(r),
         stage[r] \in {"new", "context", "ready", "handed"}, Go(r)
  PROVE  IInv'
BY PlanningPreserves, ExecutingPreserves, ClassifyPreserves DEF Go

\* build_context raises.
LEMMA RaisePreserves ==
  ASSUME IInv, NEW r \in Request, Acts(r),
         stage[r] \in {"new", "context", "ready", "handed"},
         Await(r, "raised"),
         UNCHANGED <<clientVars, registryVars, leg, tierVars, planVars>>
  PROVE  IInv'
<1> USE DEF Await, Goto, clientVars, registryVars, tierVars, planVars
<1>1. TeamTypeOK'
  BY DEF IInv, TeamTypeOK, RouterTypeOK, Ended
<1>2. OthersStay(r)
  BY DEF IInv, TeamTypeOK, RouterTypeOK, OthersStay
<1>3. /\ last' = last /\ CallInOrder(r)'
      /\ Runs(r)' => loop' = r
      /\ llm'[r] = "answered" => pool'[r]
  BY DEF IInv, TeamTypeOK, RouterTypeOK, CallsInOrder, CallInOrder, Runs, Settled
<1>4. PlansWereMade'
  BY MadeAfter DEF planVars
<1>5. kind' = kind /\ (kind[r] = "chain" => ChainInOrder(r)')
  BY DEF IInv, TeamTypeOK, ChainsInOrder, ChainInOrder, Ended
<1> QED BY <1>1, <1>2, <1>3, <1>4, <1>5, MoveAfter

\* A summary that has to be awaited is remembered in waited.
LEMMA SummaryPreserves ==
  ASSUME IInv, NEW r \in Request, Acts(r),
         stage[r] \in {"new", "context"},
         AskInPool(r, defaultTier), Goto(r, "summary"),
         waited' = [waited EXCEPT ![r] = @ \/ leg[r] = "execute"],
         UNCHANGED <<registryVars, leg, tierVars, wm, made, running>>
  PROVE  IInv'
<1> USE DEF AskInPool, Ask, Goto, registryVars, tierVars
<1>1. TeamTypeOK'
  BY DEF IInv, TeamTypeOK, RouterTypeOK, Ended, ResolveTier, NoTier, Lightweight,
      Standard, Heavy, Tier
<1>2. OthersStay(r)
  BY DEF IInv, TeamTypeOK, RouterTypeOK, OthersStay
<1>3. /\ last' = last /\ CallInOrder(r)'
      /\ Runs(r)' => loop' = r
      /\ llm'[r] = "answered" => pool'[r]
  BY DEF IInv, TeamTypeOK, RouterTypeOK, CallsInOrder, CallInOrder, Runs, Settled,
      ResolveTier, NoTier, Lightweight, Standard, Heavy, Tier
<1>4. PlansWereMade'
  BY MadeAfter DEF planVars
<1>5. kind' = kind /\ (kind[r] = "chain" => ChainInOrder(r)')
  BY DEF IInv, TeamTypeOK, ChainsInOrder, ChainInOrder, Ended
<1> QED BY <1>1, <1>2, <1>3, <1>4, <1>5, MoveAfter

\* Whatever build_context does.
LEMMA ContextPreserves ==
  ASSUME IInv, NEW r \in Request, Acts(r), stage[r] \in {"new", "context"},
      BuildContext(r)
  PROVE  IInv'
<1>1. CASE Go(r)
  BY <1>1, GoPreserves
<1>2. CASE /\ Await(r, "raised")
           /\ UNCHANGED <<clientVars, registryVars, leg, tierVars, planVars>>
  BY <1>2, RaisePreserves
<1>3. CASE /\ AskInPool(r, defaultTier)
           /\ Goto(r, "summary")
           /\ waited' = [waited EXCEPT ![r] = @ \/ leg[r] = "execute"]
           /\ UNCHANGED <<registryVars, leg, tierVars, wm, made, running>>
  BY <1>3, SummaryPreserves
<1> QED BY <1>1, <1>2, <1>3 DEF BuildContext

\* The first request goes to discover.
LEMMA DiscoverPreserves ==
  ASSUME IInv, NEW r \in Request, Acts(r),
         stage[r] = "new",
         kind[r] = "ask", pending' = FALSE, Await(r, "discover"),
         UNCHANGED <<clientVars, agents, cards, kind, leg, tierVars, planVars>>
  PROVE  IInv'
<1> USE DEF Await, Goto, clientVars, tierVars, planVars
<1>1. TeamTypeOK'
  BY DEF IInv, TeamTypeOK, RouterTypeOK, Ended
<1>2. OthersStay(r)
  BY DEF IInv, TeamTypeOK, RouterTypeOK, OthersStay
<1>3. /\ last' = last /\ CallInOrder(r)'
      /\ Runs(r)' => loop' = r
      /\ llm'[r] = "answered" => pool'[r]
  BY DEF IInv, TeamTypeOK, RouterTypeOK, CallsInOrder, CallInOrder, Runs, Settled
<1>4. PlansWereMade'
  BY MadeAfter DEF planVars
<1>5. kind' = kind /\ (kind[r] = "chain" => ChainInOrder(r)')
  BY DEF IInv, TeamTypeOK, ChainsInOrder, ChainInOrder, Ended
<1> QED BY <1>1, <1>2, <1>3, <1>4, <1>5, MoveAfter

\* There is no planner to hand a chain to.
LEMMA RefusePreserves ==
  ASSUME IInv, NEW r \in Request, Acts(r),
         stage[r] = "new",
         Ends(r), UNCHANGED <<clientVars, registryVars, leg, tierVars, planVars>>
  PROVE  IInv'
<1> USE DEF Ends, Await, Goto, clientVars, registryVars, tierVars, planVars
<1>1. TeamTypeOK'
  BY DEF IInv, TeamTypeOK, RouterTypeOK, Ended
<1>2. OthersStay(r)
  BY DEF IInv, TeamTypeOK, RouterTypeOK, OthersStay
<1>3. /\ last' = last /\ CallInOrder(r)'
      /\ Runs(r)' => loop' = r
      /\ llm'[r] = "answered" => pool'[r]
  BY DEF IInv, TeamTypeOK, RouterTypeOK, CallsInOrder, CallInOrder, Runs, Settled
<1>4. PlansWereMade'
  BY MadeAfter DEF planVars
<1>5. kind' = kind /\ (kind[r] = "chain" => ChainInOrder(r)')
  BY DEF IInv, TeamTypeOK, ChainsInOrder, ChainInOrder, Ended
<1> QED BY <1>1, <1>2, <1>3, <1>4, <1>5, MoveAfter

\* A request up to its first await.
LEMMA ArrivePreserves == ASSUME IInv, NEW r \in Request, Arrive(r) PROVE IInv'
<1>1. Acts(r) /\ stage[r] = "new" /\ kind[r] \in {"ask", "chain"}
  BY DEF Arrive, Acts, IInv, TeamTypeOK
<1>2. CASE kind[r] = "ask" /\ pending
  BY <1>1, <1>2, DiscoverPreserves DEF Arrive
<1>3. CASE ~(kind[r] = "ask" /\ pending) /\ kind[r] = "chain" /\ "planner" \notin agents
  BY <1>1, <1>3, RefusePreserves DEF Arrive
<1>4. CASE /\ ~(kind[r] = "ask" /\ pending)
           /\ ~(kind[r] = "chain" /\ "planner" \notin agents)
  BY <1>1, <1>4, ContextPreserves DEF Arrive
<1> QED BY <1>2, <1>3, <1>4

\* The four awaits that end without a call: discovery, a summary, an external
\* agent, the executor.
LEMMA DiscoveredPreserves ==
  ASSUME IInv, NEW r \in Request, Acts(r),
         Discovered(r)
  PROVE  IInv'
<1> USE DEF Discovered, Hold, Goto, clientVars, tierVars, planVars
<1>1. TeamTypeOK'
  BY DEF IInv, TeamTypeOK, RouterTypeOK, Ended
<1>2. OthersStay(r)
  BY DEF IInv, TeamTypeOK, RouterTypeOK, OthersStay
<1>3. /\ last' = last /\ CallInOrder(r)'
      /\ Runs(r)' => loop' = r
      /\ llm'[r] = "answered" => pool'[r]
  BY DEF IInv, TeamTypeOK, RouterTypeOK, CallsInOrder, CallInOrder, Runs, Settled
<1>4. PlansWereMade'
  BY MadeAfter DEF planVars
<1>5. kind' = kind /\ (kind[r] = "chain" => ChainInOrder(r)')
  BY DEF IInv, TeamTypeOK, ChainsInOrder, ChainInOrder, Ended
<1> QED BY <1>1, <1>2, <1>3, <1>4, <1>5, MoveAfter

LEMMA SummarisedPreserves ==
  ASSUME IInv, NEW r \in Request, Acts(r),
         Summarised(r)
  PROVE  IInv'
<1> USE DEF Summarised, Hold, Goto, registryVars, tierVars, planVars
<1>1. TeamTypeOK'
  BY DEF IInv, TeamTypeOK, RouterTypeOK, Ended
<1>2. OthersStay(r)
  BY DEF IInv, TeamTypeOK, RouterTypeOK, OthersStay
<1>3. /\ last' = last /\ CallInOrder(r)'
      /\ Runs(r)' => loop' = r
      /\ llm'[r] = "answered" => pool'[r]
  BY DEF IInv, TeamTypeOK, RouterTypeOK, CallsInOrder, CallInOrder, Runs, Settled
<1>4. PlansWereMade'
  BY MadeAfter DEF planVars
<1>5. kind' = kind /\ (kind[r] = "chain" => ChainInOrder(r)')
  BY DEF IInv, TeamTypeOK, ChainsInOrder, ChainInOrder, Ended
<1> QED BY <1>1, <1>2, <1>3, <1>4, <1>5, MoveAfter

LEMMA ExternalPreserves ==
  ASSUME IInv, NEW r \in Request, Acts(r),
         ExternalReturns(r)
  PROVE  IInv'
<1> USE DEF ExternalReturns, Ends, Await, Goto, clientVars, registryVars, tierVars,
    planVars
<1>1. TeamTypeOK'
  BY DEF IInv, TeamTypeOK, RouterTypeOK, Ended
<1>2. OthersStay(r)
  BY DEF IInv, TeamTypeOK, RouterTypeOK, OthersStay
<1>3. /\ last' = last /\ CallInOrder(r)'
      /\ Runs(r)' => loop' = r
      /\ llm'[r] = "answered" => pool'[r]
  BY DEF IInv, TeamTypeOK, RouterTypeOK, CallsInOrder, CallInOrder, Runs, Settled
<1>4. PlansWereMade'
  BY MadeAfter DEF planVars
<1>5. kind' = kind /\ (kind[r] = "chain" => ChainInOrder(r)')
  BY DEF IInv, TeamTypeOK, ChainsInOrder, ChainInOrder, Ended
<1> QED BY <1>1, <1>2, <1>3, <1>4, <1>5, MoveAfter

LEMMA ExecutedPreserves ==
  ASSUME IInv, NEW r \in Request, Acts(r),
         Executed(r)
  PROVE  IInv'
<1> USE DEF Executed, Ends, Await, Goto, clientVars, registryVars, tierVars
<1>1. TeamTypeOK'
  BY DEF IInv, TeamTypeOK, RouterTypeOK, Ended
<1>2. OthersStay(r)
  BY DEF IInv, TeamTypeOK, RouterTypeOK, OthersStay
<1>3. /\ last' = last /\ CallInOrder(r)'
      /\ Runs(r)' => loop' = r
      /\ llm'[r] = "answered" => pool'[r]
  BY DEF IInv, TeamTypeOK, RouterTypeOK, CallsInOrder, CallInOrder, Runs, Settled
<1>4. PlansWereMade'
  BY DEF IInv, TeamTypeOK, PlansWereMade
<1>5. kind' = kind /\ (kind[r] = "chain" => ChainInOrder(r)')
  BY DEF IInv, TeamTypeOK, ChainsInOrder, ChainInOrder, Ended
<1> QED BY <1>1, <1>2, <1>3, <1>4, <1>5, MoveAfter

\* The registry awaits an external agent.
LEMMA AwaitExternalPreserves ==
  ASSUME IInv, NEW r \in Request, Acts(r),
         stage[r] = "handed",
         Await(r, "external"),
         UNCHANGED <<clientVars, registryVars, leg, tierVars, planVars>>
  PROVE  IInv'
<1> USE DEF Await, Goto, clientVars, registryVars, tierVars, planVars
<1>1. TeamTypeOK'
  BY DEF IInv, TeamTypeOK, RouterTypeOK, Ended
<1>2. OthersStay(r)
  BY DEF IInv, TeamTypeOK, RouterTypeOK, OthersStay
<1>3. /\ last' = last /\ CallInOrder(r)'
      /\ Runs(r)' => loop' = r
      /\ llm'[r] = "answered" => pool'[r]
  BY DEF IInv, TeamTypeOK, RouterTypeOK, CallsInOrder, CallInOrder, Runs, Settled
<1>4. PlansWereMade'
  BY MadeAfter DEF planVars
<1>5. kind' = kind /\ (kind[r] = "chain" => ChainInOrder(r)')
  BY DEF IInv, TeamTypeOK, ChainsInOrder, ChainInOrder, Ended
<1> QED BY <1>1, <1>2, <1>3, <1>4, <1>5, MoveAfter

\* A chain is never at the hands of the registry.
LEMMA HandedPreserves == ASSUME IInv, NEW r \in Request, Handed(r) PROVE IInv'
<1>1. stage[r] = "handed" /\ Acts(r)
  BY DEF Handed, Acts, IInv, LoopHeld, Runs
<1>2. CASE Go(r)
  BY <1>1, <1>2, GoPreserves
<1>3. CASE leg[r] = "external" /\ Await(r, "external")
           /\ UNCHANGED <<clientVars, registryVars, leg, tierVars, planVars>>
  BY <1>1, <1>3, AwaitExternalPreserves
<1> QED BY <1>2, <1>3 DEF Handed

\* The coroutine whose call has come back has the event loop.
LEMMA ReturnActs ==
  ASSUME IInv, NEW r \in Request, llm[r] \in Settled, stage[r] \in {"classify", "plan"}
  PROVE  ~pool[r] /\ loop = r /\ Acts(r)
BY DEF IInv, CallsInOrder, CallInOrder, LoopHeld, Runs, Acts

\* The request is put into an agent's hands, or has been answered already.
HandedOrEnded(r) ==
  \/ /\ Hold(r, "handed")
     /\ \E l \in {"plan", "execute", "external"} : leg' = [leg EXCEPT ![r] = l]
  \/ Ends(r) /\ UNCHANGED leg

\* classify ends with a tier for the next time, and with an agent that has the
\* request in its hands or has answered already.
LEMMA ClassifiedEffect ==
  ASSUME IInv, NEW r \in Request, Classified(r)
  PROVE  /\ Return(r, Restored(r)) /\ stage[r] = "classify"
         /\ modelTier' \in Tier /\ prevTier' = [prevTier EXCEPT ![r] = NoTier]
         /\ UNCHANGED <<registryVars, planVars>>
         /\ HandedOrEnded(r)
<1>1. ASSUME NEW a, Dispatch(r, a)
      PROVE  HandedOrEnded(r)
  BY <1>1 DEF HandedOrEnded, Dispatch, Companion, Coder, Researcher, Reviewer, CallLlm
<1>2. PICK i \in Intents, planning \in BOOLEAN :
        \/ /\ modelTier' = IntentTier(i)
           /\ \E target \in {IntentAgent(j) : j \in Intents} :
                \E a \in Select(i, target, planning) : Dispatch(r, a)
        \/ /\ UNCHANGED modelTier
           /\ \E a \in Select(i, IntentAgent(i), planning) : Dispatch(r, a)
  BY DEF Classified
<1>3. modelTier' \in Tier
  BY <1>2 DEF IntentTier, Tier, Lightweight, Standard, Heavy, IInv, TeamTypeOK
<1>4. \E a : Dispatch(r, a)
  BY <1>2
<1> QED BY <1>1, <1>3, <1>4 DEF Classified

\* The tier goes back and the request on.
LEMMA ClassifiedPreserves ==
  ASSUME IInv, NEW r \in Request, Acts(r),
         stage[r] = "classify", modelTier' \in Tier,
         prevTier' = [prevTier EXCEPT ![r] = NoTier], ~pool[r],
         Return(r, Restored(r)), UNCHANGED <<registryVars, planVars>>,
         HandedOrEnded(r)
  PROVE  IInv'
<1> USE DEF HandedOrEnded, Return, Hold, Ends, Await, Goto, registryVars, planVars
<1>1. TeamTypeOK'
  BY DEF IInv, TeamTypeOK, RouterTypeOK, Ended, Restored, NoTier, Lightweight,
      Standard, Heavy, Tier
<1>2. OthersStay(r)
  BY DEF IInv, TeamTypeOK, RouterTypeOK, OthersStay
<1>3. /\ last' = last /\ CallInOrder(r)'
      /\ Runs(r)' => loop' = r
      /\ llm'[r] = "answered" => pool'[r]
  BY DEF IInv, TeamTypeOK, RouterTypeOK, CallsInOrder, CallInOrder, Runs, Settled,
      NoTier, Lightweight, Standard, Heavy, Tier
<1>4. PlansWereMade'
  BY MadeAfter
<1>5. kind' = kind /\ (kind[r] = "chain" => ChainInOrder(r)')
  BY DEF IInv, TeamTypeOK, ChainsInOrder, ChainInOrder, Ended
<1> QED BY <1>1, <1>2, <1>3, <1>4, <1>5, MoveAfter

\* The planner hands its plan over in the stretch in which it has made it.
LEMMA PlannedPreserves ==
  ASSUME IInv, NEW r \in Request, Acts(r),
         stage[r] = "plan", ~pool[r],
         NEW success \in BOOLEAN, Return(r, defaultTier), PlanMade(r, success),
         UNCHANGED <<registryVars, tierVars, waited, running>>
  PROVE  IInv'
<1> USE DEF Return, PlanMade, Hold, Ends, Await, Goto, registryVars, tierVars
<1>1. TeamTypeOK'
  BY DEF IInv, TeamTypeOK, RouterTypeOK, Ended, NoTier, Lightweight, Standard, Heavy,
      Tier
<1>2. OthersStay(r)
  BY DEF IInv, TeamTypeOK, RouterTypeOK, OthersStay
<1>3. /\ last' = last /\ CallInOrder(r)'
      /\ Runs(r)' => loop' = r
      /\ llm'[r] = "answered" => pool'[r]
  BY DEF IInv, TeamTypeOK, RouterTypeOK, CallsInOrder, CallInOrder, Runs, Settled
<1>4. PlansWereMade'
  BY DEF IInv, TeamTypeOK, PlansWereMade
<1>5. kind' = kind /\ (kind[r] = "chain" => ChainInOrder(r)')
  <2>1. ASSUME kind[r] = "chain"
        PROVE  ChainInOrder(r)'
    <3>1. leg[r] = "plan" /\ running[r] = NoPlan /\ ~made[r]
      BY <2>1 DEF IInv, ChainsInOrder, ChainInOrder, Ended
    <3>2. CASE "executor" \in agents
      <4>1. /\ leg'[r] = "execute" /\ stage'[r] = "context"
            /\ running'[r] = NoPlan /\ made'[r] = success
        BY <2>1, <3>1, <3>2 DEF IInv, TeamTypeOK
      <4>2. success => wm'["executor"] = r
        BY <2>1, <3>2, TeamAssumption DEF IInv, TeamTypeOK
      <4> QED BY <4>1, <4>2 DEF ChainInOrder
    <3>3. CASE "executor" \notin agents
      <4>1. leg'[r] = "plan" /\ stage'[r] = "answered" /\ running'[r] = NoPlan
        BY <3>1, <3>3 DEF IInv, TeamTypeOK
      <4> QED BY <4>1 DEF ChainInOrder, Ended
    <3> QED BY <3>2, <3>3
  <2> QED BY <2>1 DEF IInv, TeamTypeOK
<1> QED BY <1>1, <1>2, <1>3, <1>4, <1>5, MoveAfter

\* A request that is cut at its await is in nobody's hands.
LEMMA CutPreserves ==
  ASSUME IInv, NEW r \in Request, Acts(r),
         Cut(r)
  PROVE  IInv'
<1> USE DEF Cut, Await, Goto, registryVars, planVars
<1>1. TeamTypeOK'
  BY DEF IInv, TeamTypeOK, RouterTypeOK, Ended, Restored, NoTier, Lightweight,
      Standard, Heavy, Tier
<1>2. OthersStay(r)
  BY DEF IInv, TeamTypeOK, RouterTypeOK, OthersStay
<1>3. /\ last' = last /\ CallInOrder(r)'
      /\ Runs(r)' => loop' = r
      /\ llm'[r] = "answered" => pool'[r]
  BY DEF IInv, TeamTypeOK, RouterTypeOK, CallsInOrder, CallInOrder, Runs, Settled,
      NoTier, Lightweight, Standard, Heavy, Tier
<1>4. PlansWereMade'
  BY MadeAfter
<1>5. kind' = kind /\ (kind[r] = "chain" => ChainInOrder(r)')
  BY DEF IInv, TeamTypeOK, ChainsInOrder, ChainInOrder, Ended
<1> QED BY <1>1, <1>2, <1>3, <1>4, <1>5, MoveAfter

\* A stream that is cut before its request was looked at.
LEMMA GoneEarlyPreserves ==
  ASSUME IInv, NEW r \in Request, Acts(r),
         stage[r] = "new",
         loop = Nobody, Goto(r, "cut"),
         UNCHANGED <<routerVars, registryVars, leg, tierVars, planVars>>
  PROVE  IInv'
<1> USE DEF Goto, routerVars, registryVars, tierVars, planVars
<1>1. TeamTypeOK'
  BY DEF IInv, TeamTypeOK, RouterTypeOK, Ended
<1>2. OthersStay(r)
  BY DEF IInv, TeamTypeOK, RouterTypeOK, OthersStay
<1>3. /\ last' = last /\ CallInOrder(r)'
      /\ Runs(r)' => loop' = r
      /\ llm'[r] = "answered" => pool'[r]
  BY DEF IInv, TeamTypeOK, RouterTypeOK, CallsInOrder, CallInOrder, Runs, Settled
<1>4. PlansWereMade'
  BY MadeAfter DEF planVars
<1>5. kind' = kind /\ (kind[r] = "chain" => ChainInOrder(r)')
  BY DEF IInv, TeamTypeOK, ChainsInOrder, ChainInOrder, Ended
<1> QED BY <1>1, <1>2, <1>3, <1>4, <1>5, MoveAfter

-----------------------------------------------------------------------------
(* The steps of the clients, which no coroutine takes.                       *)

\* The stages and plans of requests are not the clients' business.
LEMMA ClientLeaves ==
  ASSUME IInv, UNCHANGED teamVars, UNCHANGED defaultTier,
      \A r \in Request : loop = r => loop' = r
  PROVE  PlansWereMade' /\ ChainsInOrder'
<1> USE DEF teamVars, registryVars, tierVars, planVars
<1>1. PlansWereMade'
  BY MadeAfter
<1>2. ChainsInOrder'
  BY DEF IInv, ChainsInOrder, ChainInOrder
<1> QED BY <1>1, <1>2

\* The steps of clients keep the types, and the default tier.
LEMMA TypesOfCalls ==
  ASSUME IInv, NEW r \in Request, ClientStep(r) \/ SummaryCharged(r), UNCHANGED teamVars
  PROVE  TeamTypeOK' /\ defaultTier' = defaultTier
<1> USE DEF ClientStep, Answer, AnswerError, NextTier, AllTiersFailed, SummaryCharged,
    Resumes,
            Return, FinishLlmSpan, Client, Tier, NoTier, Lightweight, Standard, Heavy
<1>1. RouterTypeOK' /\ defaultTier' = defaultTier
  BY DEF IInv, TeamTypeOK, RouterTypeOK, CallsInOrder, CallInOrder, Settled
<1> QED BY <1>1 DEF IInv, TeamTypeOK, teamVars, registryVars, tierVars, planVars

\* An answer replaces the usage another call has left only if one of the two
\* was made in a pool thread, for the other coroutine has the loop.
LEMMA AnswerPreserves ==
  ASSUME IInv, NEW r \in Request, Answer(r), UNCHANGED teamVars
  PROVE  IInv'
<1>1. TeamTypeOK' /\ PlansWereMade' /\ ChainsInOrder'
  BY TypesOfCalls, ClientLeaves, TeamAssumption DEF ClientStep, Answer, Resumes
<1>2. CallsInOrder'
  BY DEF Answer, Resumes, IInv, CallsInOrder, CallInOrder, TeamTypeOK, RouterTypeOK,
      Settled, teamVars
<1>3. LoopHeld'
  BY TeamAssumption DEF Answer, Resumes, IInv, LoopHeld, Runs, TeamTypeOK,
      RouterTypeOK, Settled, teamVars
<1>4. UsageIsOwn'
  <2> SUFFICES ASSUME NEW q \in Request, llm'[q] = "answered"
               PROVE  LET usage == last'[Client(tier'[q])]
                      IN usage.by = q \/ usage.inPool \/ pool'[q]
    BY DEF UsageIsOwn, Client
  <2>1. /\ tier' = tier /\ pool' = pool /\ tier[q] \in Tier /\ tier[r] \in Tier
        /\ last' = [last EXCEPT ![Client(tier[r])] = [by |-> r, inPool |-> pool[r]]]
    BY DEF Answer, Resumes, FinishLlmSpan, IInv, CallsInOrder, CallInOrder, TeamTypeOK,
        RouterTypeOK, Settled
  <2>2. Client(tier[q]) \in Tier /\ last \in [Tier -> [by : Request,
      inPool : BOOLEAN] \union {Nobody}]
    BY <2>1 DEF Client, Tier, Standard, Heavy, Lightweight, IInv, TeamTypeOK,
        RouterTypeOK
  <2>3. CASE Client(tier[q]) # Client(tier[r])
    <3>1. q # r /\ llm[q] = "answered"
      BY <2>1, <2>3 DEF Answer, IInv, TeamTypeOK, RouterTypeOK
    <3>2. last'[Client(tier'[q])] = last[Client(tier[q])]
      BY <2>1, <2>2, <2>3 DEF Client
    <3> QED BY <2>1, <3>1, <3>2 DEF IInv, UsageIsOwn
  <2>4. CASE Client(tier[q]) = Client(tier[r])
    <3>1. last'[Client(tier'[q])] = [by |-> r, inPool |-> pool[r]]
      BY <2>1, <2>2, <2>4 DEF Client
    <3>2. q = r \/ pool[r] \/ pool[q]
      BY TeamAssumption DEF Answer, Resumes, IInv, LoopHeld, Runs, TeamTypeOK,
          RouterTypeOK, Settled
    <3> QED BY <2>1, <3>1, <3>2
  <2> QED BY <2>3, <2>4
<1> QED BY <1>1, <1>2, <1>3, <1>4 DEF IInv

\* Any other step of a client touches no usage.
LEMMA FailurePreserves ==
  ASSUME IInv, NEW r \in Request, UNCHANGED teamVars,
         AnswerError(r) \/ NextTier(r) \/ AllTiersFailed(r) \/ SummaryCharged(r)
  PROVE  IInv'
<1>1. \A q \in Request : loop = q => loop' = q
  BY TeamAssumption DEF AnswerError, NextTier, AllTiersFailed, SummaryCharged, Resumes
<1>2. TeamTypeOK' /\ PlansWereMade' /\ ChainsInOrder'
  BY <1>1, TypesOfCalls, ClientLeaves DEF ClientStep
<1> USE DEF AnswerError, NextTier, AllTiersFailed, SummaryCharged, Resumes, Return,
            Tier, NoTier, Lightweight, Standard, Heavy, Settled
<1>3. CallsInOrder'
  BY DEF IInv, CallsInOrder, CallInOrder, TeamTypeOK, RouterTypeOK, teamVars
<1>4. LoopHeld'
  BY TeamAssumption DEF IInv, LoopHeld, Runs, TeamTypeOK, RouterTypeOK, teamVars
<1>5. UsageIsOwn'
  BY DEF IInv, UsageIsOwn, Client, TeamTypeOK, RouterTypeOK
<1> QED BY <1>2, <1>3, <1>4, <1>5 DEF IInv

-----------------------------------------------------------------------------
\* Every step of a coroutine.
LEMMA StepPreserves == ASSUME IInv, NEW r \in Request, Step(r) PROVE IInv'
<1>1. CASE Discovered(r)
  BY <1>1, DiscoveredPreserves DEF Discovered, Acts
<1>2. CASE NeedsContext(r)
  BY <1>2, ContextPreserves DEF NeedsContext, Acts, IInv, LoopHeld, Runs
<1>3. CASE Summarised(r)
  BY <1>3, SummarisedPreserves DEF Summarised, Acts
<1>4. CASE Ready(r)
  BY <1>4, GoPreserves DEF Ready, Acts, IInv, LoopHeld, Runs
<1>5. CASE Classified(r)
  <2>1. llm[r] \in Settled
    BY <1>5 DEF Classified, Return, Settled
  <2> QED BY <1>5, <2>1, ClassifiedEffect, ReturnActs, ClassifiedPreserves
<1>6. CASE Handed(r)
  BY <1>6, HandedPreserves
<1>7. CASE ExternalReturns(r)
  BY <1>7, ExternalPreserves DEF ExternalReturns, Acts
<1>8. CASE Planned(r)
  <2>1. llm[r] \in Settled /\ stage[r] = "plan"
    BY <1>8 DEF Planned, Return, Settled
  <2> QED BY <1>8, <2>1, ReturnActs, PlannedPreserves DEF Planned
<1>9. CASE Executed(r)
  BY <1>9, ExecutedPreserves DEF Executed, Acts
<1> QED BY <1>1, <1>2, <1>3, <1>4, <1>5, <1>6, <1>7, <1>8, <1>9 DEF Step

\* The table of tasks only looks on.
LEMMA NextPreserves == IInv /\ [Next]_allVars => IInv'
<1> SUFFICES ASSUME IInv, [Next]_allVars PROVE IInv'
  OBVIOUS
<1>1. CASE UNCHANGED allVars
  <2>1. UNCHANGED teamVars /\ UNCHANGED routerVars
    BY <1>1 DEF allVars, vars
  <2>2. PlansWereMade' /\ ChainsInOrder'
    BY <2>1, ClientLeaves DEF routerVars
  <2> QED BY <2>1, <2>2 DEF routerVars, teamVars, registryVars, tierVars, planVars,
      IInv, TeamTypeOK,
             RouterTypeOK, LoopHeld, Runs, CallsInOrder, CallInOrder, UsageIsOwn, Client
<1>2. ASSUME NEW r \in Request, NEW i \in TaskId,
            Send(r, i) \/ Subscribe(r, i)
     PROVE  IInv'
  <2>1. CASE Send(r, i)
    BY <2>1, ArrivePreserves DEF Send
  <2>2. CASE UNCHANGED vars
    <3>1. UNCHANGED teamVars /\ UNCHANGED routerVars
      BY <2>2 DEF vars
    <3>2. PlansWereMade' /\ ChainsInOrder'
      BY <3>1, ClientLeaves DEF routerVars
    <3> QED BY <3>1, <3>2 DEF routerVars, teamVars, registryVars, tierVars, planVars,
        IInv, TeamTypeOK,
               RouterTypeOK, LoopHeld, Runs, CallsInOrder, CallInOrder, UsageIsOwn,
                   Client
  <2> QED BY <1>2, <2>1, <2>2 DEF Subscribe
<1>3. ASSUME NEW r \in Request, Chain(r) PROVE IInv'
  BY <1>3, ArrivePreserves DEF Chain
<1>4. ASSUME NEW r \in Request, Handle(r) PROVE IInv'
  BY <1>4, ArrivePreserves, StepPreserves DEF Handle
<1>5. ASSUME NEW r \in Request, Behind(r) PROVE IInv'
  <2>1. UNCHANGED teamVars /\ (ClientStep(r) \/ SummaryCharged(r))
    BY <1>5 DEF Behind, Background, SummaryCharged
  <2> QED BY <2>1, AnswerPreserves, FailurePreserves DEF ClientStep
<1>6. ASSUME NEW r \in Request, Disconnect(r) PROVE IInv'
  <2>1. CASE Cut(r)
    BY <2>1, CutPreserves DEF Cut, Acts
  <2>2. CASE stage[r] = "new" /\ loop = Nobody /\ Goto(r, "cut")
             /\ UNCHANGED <<routerVars, registryVars, leg, tierVars, planVars>>
    BY <2>2, GoneEarlyPreserves DEF Acts
  <2> QED BY <1>6, <2>1, <2>2 DEF Disconnect
<1>7. CASE AllEnded
  BY <1>1, <1>7 DEF AllEnded
<1> QED BY <1>1, <1>2, <1>3, <1>4, <1>5, <1>6, <1>7 DEF Next

\* The inductive invariant of the team, with or without fairness.
THEOREM Invariant == FairSpec => []IInv
BY InitEstablishes, NextPreserves, PTL DEF FairSpec

TableTypes ==
  /\ tasks \in [TaskId -> Request \union {NoTask}]
  /\ task \in [Request -> {"none", "working", "completed", "failed"}]
  /\ id \in [Request -> TaskId \union {NoTask}] /\ stream \in [Request -> BOOLEAN]

\* Only requests that were sent under an id store a task.
TableInv == TableTypes /\ \A r \in Request : task[r] # "none" => id[r] \in TaskId

\* The table of tasks keeps its types.
LEMMA TablePreserves == TableInv /\ [Next]_allVars => TableInv'
<1> SUFFICES ASSUME TableInv, [Next]_allVars PROVE TableInv'
  OBVIOUS
<1> USE DEF TableInv, TableTypes
<1>1. CASE UNCHANGED tableVars
  BY <1>1 DEF tableVars
<1>2. ASSUME NEW r \in Request, NEW i \in TaskId,
            Send(r, i) \/ Subscribe(r, i)
     PROVE  TableInv'
  BY <1>2 DEF Send, Subscribe, NewTask
<1>3. ASSUME NEW r \in Request, Handle(r) PROVE TableInv'
  BY <1>3 DEF Handle, Store
<1>4. UNCHANGED tableVars \/ \E r \in Request :
         Handle(r) \/ \E i \in TaskId : Send(r, i) \/ Subscribe(r, i)
  BY DEF Next, allVars, AllEnded, Chain, Behind, Disconnect
<1> QED BY <1>1, <1>2, <1>3, <1>4

\* The team's and the server's variables keep their types.
THEOREM TypeCorrect == FairSpec => []TypeOK
<1>1. ServerInit => TableInv
  BY DEF ServerInit, TableInv, TableTypes
<1>2. IInv /\ TableInv => TypeOK
  BY DEF IInv, TableInv, TableTypes, TypeOK
<1> QED BY <1>1, <1>2, TablePreserves, Invariant, PTL DEF FairSpec

\* A call is charged with its own usage, one client or several, unless one of
\* two calls was made in a pool thread (agent/llm/router.py, _track_cost).
THEOREM UsageOfItsCall == FairSpec => []UsageIsOwn
<1>1. IInv => UsageIsOwn
  BY DEF IInv
<1> QED BY <1>1, Invariant, PTL

\* The executor runs plans that were made, and that of its own chain if there is
\* one and nothing was awaited between the two (agent/multi_agent/handoff.py).
THEOREM OwnPlan == FairSpec => []PlanOfItsChain
<1>1. IInv => PlanOfItsChain
  BY DEF IInv, PlansWereMade, ChainsInOrder, ChainInOrder, PlanOfItsChain
<1> QED BY <1>1, Invariant, PTL
=============================================================================
