---------------------------- MODULE ModelRouter ----------------------------
(* agent/llm/router.py over the clients of agent/llm/kimi_client.py: calls   *)
(* of coroutines, which share one event loop, and of pool threads.  A call   *)
(* tries the tiers upwards from the one it resolved, and after an answer     *)
(* charges the tier with the usage the client object holds at that moment.   *)
EXTENDS Naturals, FiniteSets

CONSTANTS Request,   \* who calls; one call at a time each
          Nobody,    \* no coroutine; a client that has answered nobody yet
          Shared     \* one client for all tiers (no model_tiers configured)

ASSUME RouterAssumption == Shared \in BOOLEAN

VARIABLES loop,        \* the coroutine that has the event loop, if any
          defaultTier, \* _default_tier
          tier,        \* the tier each call is trying
          pool,        \* whether each call runs in a pool thread
          llm,         \* how far each call is
          last         \* _last_prompt_tokens of each client: whose they are

routerVars == <<loop, defaultTier, tier, pool, llm, last>>

NoTier == 0  \* None
Lightweight == 1
Standard == 2
Heavy == 3
Tier == Lightweight..Heavy  \* tiers_order
Client(t) == IF Shared THEN Standard ELSE t

RouterInit ==
  /\ loop = Nobody
  /\ defaultTier = NoTier
  /\ tier = [r \in Request |-> NoTier]
  /\ pool = [r \in Request |-> FALSE]
  /\ llm = [r \in Request |-> "idle"]
  /\ last = [c \in Tier |-> Nobody]

\* _resolve_tier: the default tier, or what the text of the prompt suggests.
ResolveTier(default) == IF default # NoTier THEN {default} ELSE Tier

\* achat up to the call of the first client, which the coroutine awaits.
Ask(r, default, inPool) ==
  /\ llm[r] = "idle"
  /\ \E t \in ResolveTier(default) : tier' = [tier EXCEPT ![r] = t]
  /\ pool' = [pool EXCEPT ![r] = inPool]
  /\ llm' = [llm EXCEPT ![r] = "waiting"]
  /\ defaultTier' = default
  /\ loop' = Nobody
  /\ UNCHANGED last

\* quick_chat in a pool thread, on whose future the coroutine waits.
AskInPool(r, default) == Ask(r, default, TRUE)

\* Mutant: the usage is read after one more await.
ResumesLater(r) ==
  /\ llm[r] = "waiting"
  /\ UNCHANGED loop

\* The client is done: a coroutine gets the event loop back, a pool thread
\* needs none.
Resumes(r) ==
  /\ llm[r] = "waiting"
  /\ IF pool[r] THEN UNCHANGED loop ELSE loop = Nobody /\ loop' = r

\* _finish_llm_span leaves the usage on the client object.
FinishLlmSpan(r) ==
  last' = [last EXCEPT ![Client(tier[r])] = [by |-> r, inPool |-> pool[r]]]

\* The client answers.
Answer(r) ==
  /\ Resumes(r)
  /\ llm' = [llm EXCEPT ![r] = "answered"]
  /\ FinishLlmSpan(r)
  /\ UNCHANGED <<defaultTier, tier, pool>>

\* KimiLLMClient turns every exception into a text, which leaves the usage of
\* the call before; any other client raises, and the next tier is tried.
AnswerError(r) ==
  /\ Resumes(r)
  /\ llm' = [llm EXCEPT ![r] = "errorText"]
  /\ UNCHANGED <<defaultTier, tier, pool, last>>

\* Mutant: the order of tiers has an end of its own.
NextTierBeyond(r) ==
  /\ llm[r] = "waiting" /\ (pool[r] \/ loop = Nobody) /\ tier[r] <= Heavy
  /\ tier' = [tier EXCEPT ![r] = @ + 1]
  /\ UNCHANGED <<loop, defaultTier, pool, llm, last>>
NextTier(r) ==
  /\ llm[r] = "waiting" /\ (pool[r] \/ loop = Nobody) /\ tier[r] < Heavy
  /\ tier' = [tier EXCEPT ![r] = @ + 1]
  /\ UNCHANGED <<loop, defaultTier, pool, llm, last>>
AllTiersFailed(r) ==
  /\ Resumes(r) /\ tier[r] = Heavy
  /\ llm' = [llm EXCEPT ![r] = "failed"]
  /\ UNCHANGED <<defaultTier, tier, pool, last>>

\* _read_client_usage and _track_cost, or RuntimeError when no tier is left;
\* the caller's code runs on in the same step, which says what becomes of the
\* event loop and of the default tier.  (_costs, to which the usage is added, is
\* read by nobody.)
Return(r, default) ==
  /\ llm[r] \in {"answered", "errorText", "failed"}
  /\ llm' = [llm EXCEPT ![r] = IF pool[r] THEN "returned" ELSE "idle"]
  /\ tier' = [tier EXCEPT ![r] = NoTier]
  /\ defaultTier' = default
  /\ UNCHANGED <<pool, last>>

\* chat_structured: an answer that is no JSON is a StructuredOutputError, and an
\* error text is none.
Parsable(r) == llm[r] = "answered"

ClientStep(r) == Answer(r) \/ AnswerError(r) \/ NextTier(r) \/ AllTiersFailed(r)

\* A call is charged with its own usage: one client serves all requests, and
\* what it holds between the answer and the charge can be another call's only
\* if one of the two was made in a pool thread.
UsageIsOwn ==
  \A r \in Request : llm[r] = "answered" =>
    LET usage == last[Client(tier[r])] IN usage.by = r \/ usage.inPool \/ pool[r]

RouterTypeOK ==
  /\ loop \in Request \union {Nobody}
  /\ defaultTier \in Tier \union {NoTier}
  /\ tier \in [Request -> Tier \union {NoTier}]
  /\ pool \in [Request -> BOOLEAN]
  /\ llm \in [Request -> {"idle", "waiting", "answered", "errorText", "failed", "returned"}]
  /\ last \in [Tier -> [by : Request, inPool : BOOLEAN] \union {Nobody}]
=============================================================================
