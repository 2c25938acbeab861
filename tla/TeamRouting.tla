---------------------------- MODULE TeamRouting ----------------------------
(* agent/multi_agent/: requests to the team, processed concurrently by the   *)
(* coroutines of one event loop.  "ask" is AgentRegistry.process: discover   *)
(* external agents once, build a context, classify, hand to one agent.       *)
(* "chain" is HandoffProtocol.handoff_chain from the planner to the          *)
(* executor, which carries the plan in the agents' working memories.  What   *)
(* the code does between two awaits is one action.                           *)
EXTENDS ModelRouter

CONSTANTS NoPlan,
          Registries,  \* the sets of agents a registry may hold
          Intents      \* the intents a classification may name

Agents == {"companion", "coder", "researcher", "planner", "executor", "reviewer"}
ASSUME TeamAssumption == Registries \subseteq SUBSET Agents /\ Request \intersect {NoPlan, Nobody} = {}

\* INTENT_AGENT_MAP; there is no agent called writer.
IntentAgent(i) ==
  CASE i \in {"code", "debug"} -> "coder" [] i = "research" -> "researcher"
    [] i = "write" -> "writer" [] i = "plan" -> "planner" [] i = "tool" -> "executor"
    [] OTHER -> "companion"
\* _set_model_tier
IntentTier(i) ==
  CASE i \in {"chat", "emotional"} -> Lightweight
    [] i \in {"code", "debug", "research", "plan"} -> Heavy
    [] OTHER -> Standard

\* can_handle of each agent, in hundredths.
CompanionHandles == {<<"companion", {"chat", "emotional"}, 90>>, <<"companion", {"write", "plan"}, 10>>}
CoderHandles == {<<"coder", {"code", "debug"}, 95>>, <<"coder", {"tool"}, 30>>}
ResearcherHandles == {<<"researcher", {"research"}, 95>>, <<"researcher", {"plan"}, 20>>}
PlannerHandles == {<<"planner", {"plan"}, 95>>, <<"planner", {"research", "write"}, 30>>}
ExecutorHandles == {<<"executor", {"plan", "execute"}, 90>>, <<"executor", {"tool"}, 70>>}
ReviewerHandles == {<<"reviewer", {"review"}, 95>>, <<"reviewer", {"plan", "write"}, 20>>}
Handles == UNION {CompanionHandles, CoderHandles, ResearcherHandles, PlannerHandles,
                  ExecutorHandles, ReviewerHandles}
\* The planner answers for anything, and more so for what needs_planning.
NeedsPlanning(planning) == IF planning THEN 80 ELSE 10
Scores(a, i, planning) ==
  {s[3] : s \in {x \in Handles : x[1] = a /\ i \in x[2]}}
    \union {IF a = "planner" THEN NeedsPlanning(planning) ELSE 0}
CanHandle(a, i, planning) == CHOOSE s \in Scores(a, i, planning) : \A x \in Scores(a, i, planning) : x <= s

VARIABLES agents,    \* the agents registered
          pending,   \* whether there are _pending_discovery_urls
          cards,     \* whether external agents are known
          kind,      \* "ask" or "chain"
          stage,     \* where each request waits, or how it ended
          leg,       \* what a request does when it has its context
          modelTier, \* the router agent's model_tier
          prevTier,  \* classify's prev_tier
          wm,        \* current_plan in an agent's working_memory
          made,      \* history: the planner made this request a plan
          waited,    \* history: the chain's second context had to be awaited
          running    \* the plan a request has the executor run, or had last

registryVars == <<agents, pending, cards, kind>>
planVars == <<wm, made, waited, running>>
tierVars == <<modelTier, prevTier>>
teamVars == <<registryVars, stage, leg, tierVars, planVars>>
vars == <<routerVars, teamVars>>

Ended == {"answered", "raised", "cut"}

Init ==
  /\ RouterInit
  /\ agents \in Registries
  /\ pending \in BOOLEAN /\ cards = FALSE
  /\ kind \in [Request -> {"ask", "chain"}]
  /\ stage = [r \in Request |-> "new"]
  /\ leg = [r \in Request |-> IF kind[r] = "ask" THEN "classify" ELSE "plan"]
  /\ modelTier = Lightweight /\ prevTier = [r \in Request |-> NoTier]
  /\ wm = [a \in {"planner", "executor"} |-> NoPlan]
  /\ running = [r \in Request |-> NoPlan]
  /\ made = [r \in Request |-> FALSE] /\ waited = [r \in Request |-> FALSE]

Goto(r, s) == stage' = [stage EXCEPT ![r] = s]
\* The coroutine goes on in the same stretch, awaits, or is at its end.
Hold(r, s) == Goto(r, s) /\ loop' = r
Await(r, s) == Goto(r, s) /\ loop' = Nobody
Ends(r) == Await(r, "answered")
\* The router is left alone but for the event loop.
clientVars == <<defaultTier, tier, pool, llm, last>>

\* classify up to its await: save the shared default tier and set it.
StartClassify(r) ==
  /\ Ask(r, modelTier, FALSE)
  /\ prevTier' = [prevTier EXCEPT ![r] = defaultTier]
  /\ Goto(r, "classify")
  /\ UNCHANGED <<registryVars, leg, modelTier, planVars>>

\* PlannerAgent.process up to its await: it asks on whatever the default tier is.
StartPlanning(r) ==
  /\ Ask(r, defaultTier, FALSE)
  /\ Goto(r, "plan")
  /\ UNCHANGED <<registryVars, leg, tierVars, planVars>>

\* ExecutorAgent.process: the plan in its own working memory, or no plan at all.
StartExecuting(r) ==
  /\ IF wm["executor"] = NoPlan THEN Ends(r) ELSE Await(r, "execute")
  /\ running' = [running EXCEPT ![r] = wm["executor"]]
  /\ UNCHANGED <<clientVars, registryVars, leg, tierVars, wm, made, waited>>

Go(r) ==
  \/ leg[r] = "classify" /\ StartClassify(r)
  \/ leg[r] = "plan" /\ StartPlanning(r)
  \/ leg[r] = "execute" /\ StartExecuting(r)

\* build_context, with nothing to await; or it raises (its directory cannot be
\* made), which nobody catches; or the recent turns are over their budget, and
\* a pool thread is given their older half to summarise.
BuildContext(r) ==
  \/ Go(r)
  \/ Await(r, "raised")
     /\ UNCHANGED <<clientVars, registryVars, leg, tierVars, planVars>>
  \/ /\ AskInPool(r, defaultTier)
     /\ Goto(r, "summary")
     /\ waited' = [waited EXCEPT ![r] = @ \/ leg[r] = "execute"]
     /\ UNCHANGED <<registryVars, leg, tierVars, wm, made, running>>

\* process and handoff up to their first await: the first request takes the
\* URLs, and those that come meanwhile go on without the external agents; a
\* handoff to an agent that is not registered returns an error.
Arrive(r) ==
  /\ stage[r] = "new" /\ loop = Nobody
  /\ IF kind[r] = "ask" /\ pending
     THEN /\ pending' = FALSE /\ Await(r, "discover")
          /\ UNCHANGED <<clientVars, agents, cards, kind, leg, tierVars, planVars>>
     ELSE IF kind[r] = "chain" /\ "planner" \notin agents
     THEN Ends(r) /\ UNCHANGED <<clientVars, registryVars, leg, tierVars, planVars>>
     ELSE BuildContext(r)

\* discover_all returns the cards of those that answered.
Discovered(r) ==
  /\ stage[r] = "discover" /\ loop = Nobody
  /\ cards' \in BOOLEAN
  /\ Hold(r, "context")
  /\ UNCHANGED <<clientVars, agents, pending, kind, leg, tierVars, planVars>>
NeedsContext(r) == stage[r] = "context" /\ BuildContext(r)

\* The pool thread charges its call; its summary, an error text included, goes
\* to the session summaries, and the request continues.
SummaryCharged(r) ==
  /\ pool[r]
  /\ Return(r, defaultTier)
  /\ UNCHANGED <<loop, teamVars>>
Summarised(r) ==
  /\ stage[r] = "summary" /\ llm[r] = "returned" /\ loop = Nobody
  /\ llm' = [llm EXCEPT ![r] = "idle"] /\ pool' = [pool EXCEPT ![r] = FALSE]
  /\ Hold(r, "ready")
  /\ UNCHANGED <<defaultTier, tier, last, registryVars, leg, tierVars, planVars>>
Ready(r) == stage[r] = "ready" /\ Go(r)

\* _select_agent: the target, else who scores best, else an external agent
\* that matches, else the companion.
Select(i, target, planning) ==
  LET able == {a \in agents : CanHandle(a, i, planning) > 0}
  IN IF target \in agents THEN {target}
     ELSE IF able # {}
     THEN {a \in able : \A b \in able : CanHandle(a, i, planning) >= CanHandle(b, i, planning)}
     ELSE (IF cards THEN {"external"} ELSE {}) \union {"companion"}

\* _call_llm fails before anything is awaited or the default tier is touched:
\* base.py does not import get_tracer.  The agents that call it say so.
CallLlm(r) == Ends(r)
Companion(r) == CallLlm(r)
Coder(r) == CallLlm(r)
Researcher(r) == CallLlm(r)
Reviewer(r) == CallLlm(r)

Dispatch(r, agent) ==
  \/ agent \in {"planner", "executor", "external"} /\ Hold(r, "handed")
     /\ leg' = [leg EXCEPT ![r] = IF agent = "planner" THEN "plan"
                                   ELSE IF agent = "executor" THEN "execute" ELSE "external"]
  \/ /\ \/ agent = "companion" /\ Companion(r)
        \/ agent = "coder" /\ Coder(r)
        \/ agent = "researcher" /\ Researcher(r)
        \/ agent = "reviewer" /\ Reviewer(r)
     /\ UNCHANGED leg

\* classify's finally: nothing is restored when there was no default tier, so
\* that the router agent's tier stays for everybody.
Restored(r) == IF prevTier[r] # NoTier THEN prevTier[r] ELSE defaultTier

\* classify after its await: an intent and a target that is one of the map's,
\* with the router's own tier set for the next time; or anything else, an error
\* text included, and the intent is guessed from the words of the request.
Classified(r) ==
  /\ stage[r] = "classify"
  /\ Return(r, Restored(r))
  /\ \E i \in Intents, planning \in BOOLEAN :
       \/ /\ Parsable(r)
          /\ modelTier' = IntentTier(i)
          /\ \E target \in {IntentAgent(j) : j \in Intents} :
               \E a \in Select(i, target, planning) : Dispatch(r, a)
       \/ /\ ~planning /\ UNCHANGED modelTier
          /\ \E a \in Select(i, IntentAgent(i), planning) : Dispatch(r, a)
  /\ prevTier' = [prevTier EXCEPT ![r] = NoTier]
  /\ UNCHANGED <<registryVars, planVars>>

\* The agent chosen starts in the same stretch of the coroutine.
Handed(r) ==
  /\ stage[r] = "handed"
  /\ \/ leg[r] \in {"plan", "execute"} /\ Go(r)
     \/ leg[r] = "external" /\ Await(r, "external")
        /\ UNCHANGED <<clientVars, registryVars, leg, tierVars, planVars>>

\* The external agent answers, refuses or times out: a reply all the same.
ExternalReturns(r) ==
  /\ stage[r] = "external" /\ loop = Nobody
  /\ Ends(r)
  /\ UNCHANGED <<clientVars, registryVars, leg, tierVars, planVars>>

\* Mutant: a plan of an earlier chain is not replaced in the executor.
PlanMadeKept(r, success) ==
  LET held == IF success THEN r ELSE wm["planner"]
      passes == kind[r] = "chain" /\ "executor" \in agents
  IN /\ made' = [made EXCEPT ![r] = @ \/ success]
     /\ wm' = [a \in DOMAIN wm |-> IF a = "planner" THEN held
                                   ELSE IF passes /\ wm[a] = NoPlan THEN held ELSE wm[a]]
     /\ IF passes THEN Hold(r, "context") /\ leg' = [leg EXCEPT ![r] = "execute"]
        ELSE Ends(r) /\ UNCHANGED leg

\* The planner has put a plan into its working memory, or found none needed.
\* An ask is answered; a chain copies the planner's working memory, whatever
\* plan it holds, and hands it to the executor.
PlanMade(r, success) ==
  LET held == IF success THEN r ELSE wm["planner"]
      passes == kind[r] = "chain" /\ "executor" \in agents
  IN /\ made' = [made EXCEPT ![r] = @ \/ success]
     /\ wm' = [a \in DOMAIN wm |-> IF a = "planner" THEN held
                                   ELSE IF passes /\ held # NoPlan THEN held ELSE wm[a]]
     /\ IF passes THEN Hold(r, "context") /\ leg' = [leg EXCEPT ![r] = "execute"]
        ELSE Ends(r) /\ UNCHANGED leg

Planned(r) ==
  /\ stage[r] = "plan"
  /\ Return(r, defaultTier)
  /\ \E success \in BOOLEAN : (success => Parsable(r)) /\ PlanMade(r, success)
  /\ UNCHANGED <<registryVars, tierVars, waited, running>>

\* The executor stores the plan it has run, or raises, which the registry and
\* the handoff turn into a reply.
Executed(r) ==
  /\ stage[r] = "execute" /\ loop = Nobody
  /\ wm' \in {wm, [wm EXCEPT !["executor"] = running[r]]}
  /\ Ends(r)
  /\ UNCHANGED <<clientVars, registryVars, leg, tierVars, made, waited, running>>

\* The request is cancelled at its await: classify restores the default tier,
\* a pool thread goes on by itself, and URLs taken for discovery are lost.
Cut(r) ==
  /\ stage[r] \in {"discover", "summary", "classify", "plan", "external", "execute"}
  /\ loop = Nobody
  /\ defaultTier' = IF stage[r] = "classify" THEN Restored(r) ELSE defaultTier
  /\ IF pool[r] THEN UNCHANGED <<tier, llm>>
     ELSE tier' = [tier EXCEPT ![r] = NoTier] /\ llm' = [llm EXCEPT ![r] = "idle"]
  /\ prevTier' = [prevTier EXCEPT ![r] = NoTier]
  /\ Await(r, "cut")
  /\ UNCHANGED <<pool, last, registryVars, leg, modelTier, planVars>>

Step(r) ==
  \/ Discovered(r) \/ NeedsContext(r) \/ Summarised(r) \/ Ready(r) \/ Classified(r)
  \/ Handed(r) \/ ExternalReturns(r) \/ Planned(r) \/ Executed(r)
Background(r) == (ClientStep(r) /\ UNCHANGED teamVars) \/ SummaryCharged(r)

-----------------------------------------------------------------------------
TeamTypeOK ==
  /\ RouterTypeOK
  /\ agents \in Registries /\ pending \in BOOLEAN /\ cards \in BOOLEAN
  /\ kind \in [Request -> {"ask", "chain"}]
  /\ stage \in [Request -> Ended \union {"new", "discover", "context", "summary", "ready",
                         "classify", "handed", "plan", "execute", "external"}]
  /\ leg \in [Request -> {"classify", "plan", "execute", "external"}]
  /\ modelTier \in Tier /\ prevTier \in [Request -> Tier \union {NoTier}]
  /\ wm \in [{"planner", "executor"} -> Request \union {NoPlan}]
  /\ running \in [Request -> Request \union {NoPlan}]
  /\ made \in [Request -> BOOLEAN] /\ waited \in [Request -> BOOLEAN]

\* The executor runs nothing but plans that the planner has made, for whatever
\* request.  A chain's executor runs the plan its own planner has just made,
\* although both agents are shared with every other chain and request, if the
\* planner made one and the second handoff did not have to wait for a summary
\* after it had put the plan there; else it may run what another chain left.
PlanOfItsChain ==
  \A r \in Request :
    /\ running[r] # NoPlan => made[running[r]]
    /\ kind[r] = "chain" /\ made[r] /\ ~waited[r] => running[r] \in {NoPlan, r}
=============================================================================
