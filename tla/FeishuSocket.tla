---------------------------- MODULE FeishuSocket ----------------------------
(* bot/feishu_ws_client.py: coroutines of connect(), which go round token,   *)
(* socket, greeting and messages while the client is running, share its      *)
(* fields, and leave heartbeat tasks behind.  disconnect() may come at any   *)
(* time, and connect() again before an earlier one has ended.                *)
EXTENDS Naturals

CONSTANTS Connector,    \* the coroutines of connect()
          MaxBeats,     \* bound: heartbeat tasks that may be alive together
          NoConnector

ReconnectMin == 2
ReconnectMax == 60

VARIABLES running,  \* _running
          phase,    \* the await each connect() is at; "off": it is not running
          isOpen,   \* whether the socket of its last round is open
          ws,       \* the one whose socket _ws is
          delay,    \* _reconnect_delay
          beats,    \* heartbeat tasks alive
          lastBeat  \* whether one of them is _heartbeat_task

beatVars == <<beats, lastBeat>>
socketVars == <<running, phase, isOpen, ws, delay, beatVars>>

Init ==
  /\ running = FALSE /\ phase = [c \in Connector |-> "off"]
  /\ isOpen = [c \in Connector |-> FALSE] /\ ws = NoConnector
  /\ delay = ReconnectMin /\ beats = 0 /\ lastBeat = FALSE

Goto(c, p) == phase' = [phase EXCEPT ![c] = p]
Opens(c, open) == isOpen' = [isOpen EXCEPT ![c] = open]

Connect(c) ==
  /\ phase[c] = "off"
  /\ running' = TRUE /\ Goto(c, "token")
  /\ UNCHANGED <<isOpen, ws, delay, beatVars>>

\* Mutant: the loop goes round whoever has disconnected.
AgainAlways(c) == Goto(c, "token")
\* The head of the while loop, after a round.
Again(c) == Goto(c, IF running THEN "token" ELSE "off")

\* Any exception of a round: the socket is closed on the way to the sleep.
Raise(c) ==
  /\ Opens(c, FALSE) /\ Goto(c, "backoff")
  /\ UNCHANGED <<running, ws, delay, beatVars>>
\* The loop over messages is done: the delay is reset, and the next round
\* begins at once.
EndsCleanly(c) ==
  /\ Opens(c, FALSE) /\ delay' = ReconnectMin
  /\ Again(c)
  /\ UNCHANGED <<running, ws, beatVars>>

\* _get_access_token; running is not looked at again before a message comes.
GetToken(c) ==
  /\ phase[c] = "token"
  /\ \/ Goto(c, "open") /\ UNCHANGED <<running, isOpen, ws, delay, beatVars>>
     \/ Raise(c)

OpenSocket(c) ==
  /\ phase[c] = "open"
  /\ \/ /\ Goto(c, "greet") /\ Opens(c, TRUE) /\ ws' = c
        /\ UNCHANGED <<running, delay, beatVars>>
     \/ Raise(c)

\* _send_ping, and the task of the heartbeat; the tasks of earlier rounds live on.
Greet(c) ==
  /\ phase[c] = "greet" /\ beats < MaxBeats
  /\ \/ /\ Goto(c, "listen") /\ beats' = beats + 1 /\ lastBeat' = TRUE
        /\ UNCHANGED <<running, isOpen, ws, delay>>
     \/ Raise(c)

\* A message: an answer, an event, or an error.  aiohttp keeps the peer's PONGs
\* to itself, so that a peer with nothing to say lets connect() wait for ever.
Receive(c) ==
  /\ phase[c] = "listen" /\ isOpen[c]
  /\ IF running THEN Goto(c, "handle") /\ UNCHANGED <<running, isOpen, ws, delay, beatVars>>
                ELSE EndsCleanly(c)

\* _handle_message: events are awaited in the handler, however long it takes;
\* what it raises ends the round, as a text that is no object does.
HandleMessage(c) ==
  /\ phase[c] = "handle"
  /\ \/ Goto(c, "listen") /\ UNCHANGED <<running, isOpen, ws, delay, beatVars>>
     \/ Raise(c)

\* The peer closes the socket, or has not answered aiohttp's own heartbeat.
PeerCloses(c) ==
  /\ phase[c] \in {"greet", "listen", "handle"} /\ isOpen[c]
  /\ Opens(c, FALSE) /\ UNCHANGED <<running, phase, ws, delay, beatVars>>
SocketEnds(c) == phase[c] = "listen" /\ ~isOpen[c] /\ EndsCleanly(c)

\* _backoff_reconnect
BackOff(c) ==
  /\ phase[c] = "backoff"
  /\ delay' = IF delay * 2 > ReconnectMax THEN ReconnectMax ELSE delay * 2
  /\ Again(c)
  /\ UNCHANGED <<running, isOpen, ws, beatVars>>

\* A round of _heartbeat_loop: a task ends when its ping raises, or at the head
\* of its loop when the client is not running; otherwise it sleeps again.
Beat ==
  /\ beats > 0 /\ (~running \/ \E c \in Connector : ws = c /\ isOpen[c])
  /\ beats' = beats - 1
  /\ \/ lastBeat' = FALSE
     \/ lastBeat /\ beats > 1 /\ UNCHANGED lastBeat
  /\ UNCHANGED <<running, phase, isOpen, ws, delay>>

\* disconnect: of the heartbeats only the last is cancelled, and of the sockets
\* only the last is closed; of a round that has no socket yet nothing is.
Disconnect ==
  /\ running' = FALSE
  /\ beats' = IF lastBeat THEN beats - 1 ELSE beats
  /\ lastBeat' = FALSE
  /\ isOpen' = [c \in Connector |-> isOpen[c] /\ c # ws]
  /\ UNCHANGED <<phase, ws, delay>>

\* The awaits that end by themselves.
Goes(c) == GetToken(c) \/ OpenSocket(c) \/ Greet(c) \/ SocketEnds(c) \/ BackOff(c)
Next ==
  \/ \E c \in Connector : \/ Connect(c) \/ Goes(c) \/ Receive(c) \/ HandleMessage(c)
                          \/ PeerCloses(c)
  \/ Beat \/ Disconnect

\* aiohttp's timeouts end the requests for a token and a socket, a closed socket
\* ends the loop over its messages, and sleeps end; that a message comes, or a
\* handler returns, nothing sees to.  A heartbeat task of a client that is told
\* to stop wakes up and finds out.
Fairness == (\A c \in Connector : WF_socketVars(Goes(c))) /\ WF_socketVars(Beat /\ ~running)
Spec == Init /\ [][Next]_socketVars /\ Fairness

-----------------------------------------------------------------------------
TypeOK ==
  /\ running \in BOOLEAN /\ lastBeat \in BOOLEAN
  /\ phase \in [Connector -> {"off", "token", "open", "greet", "listen", "handle", "backoff"}]
  /\ isOpen \in [Connector -> BOOLEAN] /\ ws \in Connector \union {NoConnector}
  /\ delay \in {2, 4, 8, 16, 32, 60}
  /\ beats \in 0..MaxBeats /\ (lastBeat => beats > 0)

\* Unless the client is connected again, disconnect ends a connect() whose
\* socket is closed, by disconnect or by its peer, as it greets or listens, or
\* that sleeps before its next attempt; and all the heartbeats that earlier
\* rounds have left.  Nothing is promised of one whose socket is open: the round
\* that had none yet when disconnect came, and the earlier of two connects, wait
\* for a message of their peer, and one in an event handler for the handler.
DisconnectEnds ==
  /\ \A c \in Connector :
       ~running /\ ~isOpen[c] /\ phase[c] \in {"greet", "listen", "backoff"}
         ~> phase[c] = "off" \/ running
  /\ ~running ~> beats = 0 \/ running
=============================================================================
