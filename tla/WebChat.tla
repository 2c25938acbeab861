------------------------------ MODULE WebChat ------------------------------
(* web/api.py: the coroutine of each websocket, over the two tables of the   *)
(* ConnectionManager, which know a connection only by the id its client has  *)
(* chosen.  Every answer is sent to whatever the table holds at that moment. *)
EXTENDS Naturals

CONSTANTS Conn, ClientId, NoConn, NoId

VARIABLES active,  \* active_connections
          agents,  \* agents: by the connection that made the agent
          chat,    \* where the coroutine of each connection is
          client,  \* its client id
          mine,    \* the agent the coroutine holds, by who made it
          closed,  \* connections whose socket is closed
          shared   \* history: connections that met another one of their id

webVars == <<active, agents, chat, client, mine, closed, shared>>

WebInit ==
  /\ active = [i \in ClientId |-> NoConn]
  /\ agents = [i \in ClientId |-> NoConn]
  /\ chat = [k \in Conn |-> "new"]
  /\ client = [k \in Conn |-> NoId]
  /\ mine = [k \in Conn |-> NoConn]
  /\ closed = {} /\ shared = {}

Goto(k, where) == chat' = [chat EXCEPT ![k] = where]
Present == {"init", "reading", "chat", "stream"}

Accept(k, i) ==
  /\ chat[k] = "new"
  /\ Goto(k, "accept")
  /\ client' = [client EXCEPT ![k] = i]
  /\ UNCHANGED <<active, agents, mine, closed, shared>>

\* connect after accept(): the socket is stored, then the agent is made, which
\* may raise and leave the socket in the table.
Register(k) ==
  /\ chat[k] = "accept"
  /\ active' = [active EXCEPT ![client[k]] = k]
  /\ LET met == {l \in Conn : chat[l] \in Present /\ client[l] = client[k]}
     IN shared' = IF met = {} THEN shared ELSE shared \union met \union {k}
  /\ \/ Goto(k, "init") /\ agents' = [agents EXCEPT ![client[k]] = k] /\ UNCHANGED closed
     \/ Goto(k, "gone") /\ closed' = closed \union {k} /\ UNCHANGED agents
  /\ UNCHANGED <<client, mine>>

\* After ainit_mcp, whose errors are logged, the agent is looked up by the id:
\* a KeyError, outside of the try, if another connection has left meanwhile.
Initialised(k) ==
  /\ chat[k] = "init"
  /\ mine' = [mine EXCEPT ![k] = agents[client[k]]]
  /\ IF agents[client[k]] = NoConn
     THEN Goto(k, "gone") /\ closed' = closed \union {k}
     ELSE Goto(k, "reading") /\ UNCHANGED closed
  /\ UNCHANGED <<active, agents, client, shared>>

\* Mutant: a connection that ends takes every other with it.
ForgetAll(k) == active' = [i \in ClientId |-> NoConn] /\ agents' = [i \in ClientId |-> NoConn]
\* disconnect: the entries of the id, whoever made them.
Forget(k) ==
  /\ active' = [active EXCEPT ![client[k]] = NoConn]
  /\ agents' = [agents EXCEPT ![client[k]] = NoConn]

Leaves(k) == Goto(k, "gone") /\ closed' = closed \union {k} /\ UNCHANGED <<client, mine, shared>>
Disconnects(k) == Forget(k) /\ Leaves(k)
\* The error could not be sent either: disconnect is skipped.
LeavesEntries(k) == Leaves(k) /\ UNCHANGED <<active, agents>>

\* send_json: to the socket in the table, if any; false if it is closed.
Sendable(k) == active[client[k]] \notin closed

Stays(k, where) == Goto(k, where) /\ UNCHANGED <<active, agents, client, mine, closed, shared>>

\* A failed send raises WebSocketDisconnect or another exception: then a text
\* about it is sent, which fails as well, in both handlers.
SendFails(k) == ~Sendable(k) /\ (Disconnects(k) \/ LeavesEntries(k))

\* A message is read: one with nothing in it, a command, whose answer is sent,
\* or one for the agent, to which "thinking" is the first answer.
Receive(k) ==
  /\ chat[k] = "reading" /\ k \notin closed
  /\ \/ Stays(k, "reading")
     \/ Sendable(k) /\ (Stays(k, "reading") \/ Stays(k, "chat"))
     \/ SendFails(k)
\* A text that is no JSON, or a command that raises: an error is sent, and the
\* connection is over.
Unreadable(k) ==
  /\ chat[k] = "reading" /\ k \notin closed
  /\ IF Sendable(k) THEN Disconnects(k) ELSE LeavesEntries(k)
\* receive_text raises WebSocketDisconnect.
PeerGone(k) == chat[k] = "reading" /\ k \in closed /\ Disconnects(k)

\* The agent answers with a text, a stream, or an exception, which is sent; one
\* chunk of the stream after the other is sent, then the whole, then the status.
Answer(k) ==
  /\ chat[k] \in {"chat", "stream"}
  /\ \/ Sendable(k) /\ \E where \in {"stream", "reading"} : Stays(k, where)
     \/ SendFails(k)

\* A client closes its socket, which its coroutine finds out later.
Closes(k) ==
  /\ chat[k] \in Present /\ k \notin closed
  /\ closed' = closed \union {k}
  /\ UNCHANGED <<active, agents, chat, client, mine, shared>>

Chat(k) ==
  \/ \E i \in ClientId : Accept(k, i)
  \/ Register(k) \/ Initialised(k) \/ Receive(k) \/ Unreadable(k)
  \/ PeerGone(k) \/ Answer(k) \/ Closes(k)
AllGone == (\A k \in Conn : chat[k] = "gone") /\ UNCHANGED webVars
WebNext == (\E k \in Conn : Chat(k)) \/ AllGone
WebSpec == WebInit /\ [][WebNext]_webVars

-----------------------------------------------------------------------------
WebTypeOK ==
  /\ active \in [ClientId -> Conn \union {NoConn}]
  /\ agents \in [ClientId -> Conn \union {NoConn}]
  /\ chat \in [Conn -> Present \union {"new", "accept", "gone"}]
  /\ client \in [Conn -> ClientId \union {NoId}]
  /\ mine \in [Conn -> Conn \union {NoConn}]
  /\ closed \subseteq Conn /\ shared \subseteq Conn

\* However other connections come, fail, leave or leave their entries behind:
\* one whose client id no other connection used at the same time has its own
\* socket and its own agent in the tables, and talks with its own agent.
OwnUnlessShared ==
  \A k \in Conn \ shared :
    /\ chat[k] \in Present => active[client[k]] = k /\ agents[client[k]] = k
    /\ chat[k] \in Present \ {"init"} => mine[k] = k
=============================================================================
