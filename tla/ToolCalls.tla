----------------------------- MODULE ToolCalls -----------------------------
(* Calls of servers' tools: agent/mcp/client.py (sessions, tables of tools    *)
(* and schemas), agent/mcp/security.py (what a tool looked like when first   *)
(* seen, and what is decided about a call) and agent/mcp/approval.py (the    *)
(* queue of requests).  A call is vetted in one stretch of code, which a     *)
(* user's answer stops the whole event loop for; the rest awaits.  The       *)
(* client is connected again only when connect_all has returned: ainit_mcp   *)
(* awaits it.  A tool stands for its server and its name, which the server   *)
(* lists once.                                                               *)
EXTENDS Naturals, Sequences, SequencesExt

CONSTANTS Call, Server, Tool,
          ServerOf,        \* the server a tool is one of
          Schema,          \* what an inputSchema may be
          Empty,           \* the one that is {}
          SchemaRisk,      \* the risk audit_tool finds in a name and a schema
          DescriptionRisk, \* the risks that it may find in a description
          Blocked,         \* blocked_tools
          Sensitive,       \* tools whose action type is among sensitive_actions
          MaxPending,      \* max_pending
          NoSchema, NoTool

Low == 0
Medium == 1
High == 2
Critical == 3
Risk == Low..Critical

ASSUME ToolAssumption ==
  /\ MaxPending \in Nat \ {0}
  /\ ServerOf \in [Tool -> Server]
  /\ Empty \in Schema /\ NoSchema \notin Schema
  /\ SchemaRisk \in [Schema -> Risk] /\ DescriptionRisk \subseteq Risk
  /\ NoTool \notin Risk /\ NoSchema \notin [schema : Schema, risk : Risk]

VARIABLES doing,    \* where connect_all waits: "connecting", "listing", or "idle"
          todo,     \* the servers it has still to hear from
          some,     \* whether one of them has been connected to: any(results)
          gathered, \* all_tools of _refresh_tools: a tool's description, by its risk
          stack,    \* whether there is an _exit_stack
          sessions, \* the servers in _sessions
          tools,    \* _tools, like gathered
          schemas,  \* _tool_schemas
          seen,     \* _schema_hashes and _first_seen_risk
          stage,    \* how far each call is
          tool,     \* the tool each call names
          under,    \* history: what a call was vetted against, if there was a schema
          mode,     \* of the ApprovalManager
          pending,  \* _pending, oldest first
          aged      \* how many of its first are older than an hour

refreshVars == <<doing, todo, some, gathered>>
tableVars == <<stack, sessions, tools, schemas>>
connectionVars == <<refreshVars, tableVars>>
callVars == <<stage, tool, under>>
queueVars == <<mode, pending, aged>>
toolVars == <<connectionVars, seen, callVars, queueVars>>

NoSchemas == [t \in Tool |-> NoSchema]
NoTools == [t \in Tool |-> NoTool]

CallsInitIn(m) ==
  /\ mode = m
  /\ doing = "idle" /\ todo = {} /\ some = FALSE /\ gathered = NoTools
  /\ stack = FALSE /\ sessions = {} /\ tools = NoTools /\ schemas = NoSchemas
  /\ seen = NoSchemas
  /\ stage = [c \in Call |-> "new"]
  /\ tool = [c \in Call |-> NoTool]
  /\ under = [c \in Call |-> NoSchema]
  /\ pending = <<>> /\ aged = 0
CallsInit == \E m \in {"blocking", "nonblocking", "auto"} : CallsInitIn(m)

-----------------------------------------------------------------------------
\* audit_tool: what name, schema and description suggest, whichever is worse.
Audited(s, d) == IF SchemaRisk[s] > d THEN SchemaRisk[s] ELSE d

\* Mutant: the schema last seen is the one to compare with.
RegisterLastSchema(t, s, r) == [schema |-> s, risk |-> r]
\* register_tool_schema keeps what it saw first, and otherwise only reports.
RegisterToolSchema(t, s, r) ==
  IF seen[t] = NoSchema THEN [schema |-> s, risk |-> r] ELSE seen[t]

\* connect_all, which has the servers' answers one after the other.
ConnectAll ==
  /\ doing = "idle"
  /\ doing' = "connecting" /\ todo' = Server /\ some' = FALSE /\ stack' = TRUE
  /\ UNCHANGED <<gathered, sessions, tools, schemas, seen, callVars, queueVars>>

\* A server is connected to, or reported and left out; with the last one, the
\* schemas are cleared and the tools asked for, server by server.
ServerConnects(s) ==
  /\ doing = "connecting" /\ s \in todo
  /\ \/ sessions' = sessions \union {s} /\ some' = TRUE
     \/ UNCHANGED <<sessions, some>>
  /\ IF todo # {s}
     THEN todo' = todo \ {s} /\ UNCHANGED <<doing, tools, schemas>>
     ELSE IF some' /\ sessions' # {}
     THEN doing' = "listing" /\ todo' = sessions' /\ schemas' = NoSchemas /\ UNCHANGED tools
     ELSE /\ doing' = "idle" /\ todo' = {}
          /\ IF some' THEN tools' = NoTools /\ schemas' = NoSchemas
             ELSE UNCHANGED <<tools, schemas>>
  /\ UNCHANGED <<gathered, stack, seen, callVars, queueVars>>

\* What a server says of its tools; nothing when it fails to.
Listing(s) ==
  {l \in [Tool -> (Schema \X DescriptionRisk) \union {NoTool}] :
     \A t \in Tool : ServerOf[t] # s => l[t] = NoTool}

\* A server's schemas are there at once.  What the tools are like is known, and
\* registered, after the last server; and never, if the sessions have been
\* cleared under the loop over them: it raises, out of connect_all.
Listed(s) ==
  /\ doing = "listing" /\ s \in todo
  /\ \E l \in Listing(s) :
       /\ schemas' = [t \in Tool |-> IF l[t] # NoTool THEN l[t][1] ELSE schemas[t]]
       /\ LET all == [t \in Tool |-> IF l[t] # NoTool THEN l[t][2] ELSE gathered[t]]
          IN IF sessions # {} /\ todo # {s}
             THEN gathered' = all /\ todo' = todo \ {s} /\ UNCHANGED <<doing, tools, seen>>
             ELSE /\ doing' = "idle" /\ todo' = {} /\ gathered' = NoTools
                  /\ IF sessions = {} THEN UNCHANGED <<tools, seen>>
                     ELSE /\ tools' = all
                          /\ seen' = [t \in Tool |->
                               IF all[t] = NoTool THEN seen[t]
                               ELSE RegisterToolSchema(t, schemas'[t], Audited(schemas'[t], all[t]))]
  /\ UNCHANGED <<some, stack, sessions, callVars, queueVars>>

\* disconnect_all, also while connect_all waits: it hears from the server it is
\* waiting for, and then finds no exit stack, or no session, for another.
DisconnectAll ==
  /\ stack
  /\ stack' = FALSE /\ sessions' = {} /\ tools' = NoTools /\ schemas' = NoSchemas
  /\ IF todo = {} THEN UNCHANGED todo ELSE \E s \in todo : todo' = {s}
  /\ UNCHANGED <<doing, some, gathered, seen, callVars, queueVars>>

-----------------------------------------------------------------------------
\* Only a schema with something in it is looked at.
Known(s) == s \notin {NoSchema, Empty}
\* call_tool has the description from the tools listed last.
RiskNow(t) == Audited(schemas[t], IF tools[t] = NoTool THEN Low ELSE tools[t])

Alert(t) ==
  /\ seen[t] # NoSchema
  /\ seen[t].schema # schemas[t] \/ RiskNow(t) > seen[t].risk

\* check_tool, with the default policy and strict_mode ...
Decision(t) ==
  IF t \in Blocked THEN "block"
  ELSE IF ~Known(schemas[t]) THEN "requireApproval"
  ELSE IF Alert(t) \/ RiskNow(t) = Critical THEN "block"
  ELSE IF RiskNow(t) = High THEN "requireApproval" ELSE "allow"
\* ... registers a schema that is new to it, as risky as it looks.
Checked(t) ==
  IF t \in Blocked \/ ~Known(schemas[t]) THEN seen
  ELSE [seen EXCEPT ![t] = RegisterToolSchema(t, schemas[t], RiskNow(t))]
Vetted(t) == IF Known(schemas[t]) THEN [schema |-> schemas[t], risk |-> RiskNow(t)] ELSE NoSchema

\* _cleanup_expired: requests older than an hour are forgotten.
CleanedUp == SubSeq(pending, aged + 1, Len(pending))
\* Mutant: only what is expired makes room.
EnqueuedAnyway(c) == Append(CleanedUp, c)
\* The oldest request gives way when the queue is full.
Enqueued(c) ==
  Append(IF Len(CleanedUp) >= MaxPending THEN Tail(CleanedUp) ELSE CleanedUp, c)

Ends(c, t, how) ==
  /\ stage' = [stage EXCEPT ![c] = how]
  /\ tool' = [tool EXCEPT ![c] = t]

\* requires_approval
Asks(t) == mode # "auto" /\ t \in Sensitive

\* call_tool up to its await, to a server that is connected.
CallTool(c, t) ==
  /\ stage[c] = "new" /\ ServerOf[t] \in sessions
  /\ seen' = Checked(t)
  /\ \/ /\ Decision(t) = "block"
        /\ Ends(c, t, "failed") /\ UNCHANGED <<under, queueVars>>
     \/ /\ Decision(t) = "allow" \/ (Decision(t) = "requireApproval" /\ ~Asks(t))
        /\ Ends(c, t, "calling") /\ under' = [under EXCEPT ![c] = Vetted(t)]
        /\ UNCHANGED queueVars
     \/ /\ Decision(t) = "requireApproval" /\ Asks(t) /\ mode = "nonblocking"
        /\ Ends(c, t, "pending") /\ UNCHANGED under
        /\ pending' = Enqueued(c) /\ aged' = 0 /\ UNCHANGED mode
  /\ UNCHANGED connectionVars

\* The same in mode "blocking": the request is asked about at the terminal, and
\* is in the queue and out again within the stretch of code.
CallToolAsking(c, t) ==
  /\ stage[c] = "new" /\ ServerOf[t] \in sessions /\ mode = "blocking"
  /\ Decision(t) = "requireApproval" /\ Asks(t)
  /\ seen' = Checked(t)
  /\ \/ Ends(c, t, "failed") /\ UNCHANGED under
     \/ Ends(c, t, "calling") /\ under' = [under EXCEPT ![c] = Vetted(t)]
  /\ UNCHANGED <<connectionVars, queueVars>>

NotCalled(c, t) ==
  /\ stage[c] = "new"
  /\ Ends(c, t, "failed")
  /\ UNCHANGED <<connectionVars, seen, under, queueVars>>
NotConnected(c, t) == ServerOf[t] \notin sessions /\ NotCalled(c, t)
\* call_tool_by_name looks among the tools listed last.
CallToolByName(c, t) == tools[t] = NoTool /\ NotCalled(c, t)
\* A skill calls without awaiting, and has nothing but a coroutine to look for a
\* result in.
SkillCalls(c, t) == NotCalled(c, t)

\* The server's result, or its exception.
Result(c) ==
  /\ stage[c] = "calling"
  /\ \E how \in {"done", "failed"} : Ends(c, tool[c], how)
  /\ UNCHANGED <<connectionVars, seen, under, queueVars>>

\* approve and reject: the decision is reported to whoever took it; the call
\* itself has failed long ago and is not made again.
Decide(c, how) ==
  /\ stage[c] = "pending"
  /\ \E k \in DOMAIN pending :
       /\ pending[k] = c
       /\ pending' = RemoveAt(pending, k)
       /\ aged' = IF k <= aged THEN aged - 1 ELSE aged
  /\ stage' = [stage EXCEPT ![c] = how]
  /\ UNCHANGED <<connectionVars, seen, tool, under, mode>>

\* An hour passes for the oldest requests.
Age(k) ==
  /\ k \in DOMAIN pending /\ k > aged
  /\ aged' = k
  /\ UNCHANGED <<connectionVars, seen, callVars, mode, pending>>

CallsNext ==
  \/ ConnectAll \/ DisconnectAll
  \/ \E s \in Server : ServerConnects(s) \/ Listed(s)
  \/ \E c \in Call :
       \/ \E t \in Tool : \/ CallTool(c, t) \/ CallToolAsking(c, t) \/ NotConnected(c, t)
                          \/ CallToolByName(c, t) \/ SkillCalls(c, t)
       \/ Result(c)
       \/ \E how \in {"approved", "rejected"} : Decide(c, how)
  \/ \E k \in 1..MaxPending : Age(k)
CallsSpec == CallsInit /\ [][CallsNext]_toolVars

-----------------------------------------------------------------------------
CallsTypeOK ==
  /\ doing \in {"connecting", "listing", "idle"} /\ todo \subseteq Server
  /\ some \in BOOLEAN /\ stack \in BOOLEAN /\ sessions \subseteq Server
  /\ tools \in [Tool -> Risk \union {NoTool}] /\ gathered \in [Tool -> Risk \union {NoTool}]
  /\ schemas \in [Tool -> Schema \union {NoSchema}]
  /\ seen \in [Tool -> [schema : Schema, risk : Risk] \union {NoSchema}]
  /\ stage \in [Call -> {"new", "calling", "done", "failed", "pending", "approved", "rejected"}]
  /\ tool \in [Call -> Tool \union {NoTool}]
  /\ under \in [Call -> [schema : Schema, risk : Risk] \union {NoSchema}]
  /\ pending \in Seq(Call) /\ Len(pending) <= MaxPending /\ aged \in 0..Len(pending)

\* However a tool's schema and description change between connections, and calls
\* come before, between and after the lists of the servers: all calls of a tool
\* that are made under a schema with something in it are made under one and the
\* same, and none when the tool looks riskier than it did when first registered,
\* be that by a list or by a call.  (A call under an empty schema, or under none,
\* is held against nothing.)  And a request is in the queue only while nobody
\* has decided about it.
OneSchemaPerTool ==
  /\ \A c, d \in Call :
       tool[c] = tool[d] /\ under[c] # NoSchema /\ under[d] # NoSchema =>
         under[c].schema = under[d].schema
  /\ \A c \in Call : under[c] # NoSchema => under[c].risk <= seen[tool[c]].risk
  /\ \A c \in Call : Contains(pending, c) => stage[c] = "pending"
=============================================================================
