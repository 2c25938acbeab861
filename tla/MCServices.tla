----------------------------- MODULE MCServices -----------------------------
(* The components that share no state with one another, one instance of each *)
(* in one run: part is the component a behaviour is about, and the others    *)
(* stay as they begin.                                                       *)
EXTENDS Scheduler, WebChat, AgentTurns, ToolCalls, FeishuChats

CONSTANTS s1, s2,                          \* Scheduler
          Connector, MaxBeats, NoConnector, \* FeishuSocket
          t1, v1, v2                       \* ToolCalls

ASSUME BeatsAssumption == MaxBeats \in Nat

TwoTasks == {s1, s2}
\* A daily task in the afternoon: at eight, or at an hour the day has not.
TwoTexts == {[every |-> "daily", afternoon |-> TRUE, hour |-> h] : h \in {8, 24}}
\* A tool of one of two servers, the other of which only has to be waited for:
\* its schema may be {} or one of two, and its description look risky.
OneTool == {t1}
TwoServers == {v1, v2}
Servers == [t \in OneTool |-> v1]
ThreeSchemas == 0..2
Risks == [s \in ThreeSchemas |-> IF s = 2 THEN 1 ELSE 0]
TwoRisks == {0, 2}

VARIABLES part,
          running, phase, isOpen, ws, delay, beats, lastBeat

Socket == INSTANCE FeishuSocket

socketVars == <<running, phase, isOpen, ws, delay, beats, lastBeat>>
servicesVars == <<part, schedulerVars, socketVars, chatVars, toolVars, webVars, turnVars>>

Init ==
  /\ part \in {"scheduler", "socket", "chats", "calls", "web", "turns"}
  /\ SchedulerInit /\ Socket!Init /\ ChatsInit /\ WebInit /\ TurnsInit
  /\ IF part = "calls" THEN CallsInit ELSE CallsInitIn("blocking")

Is(p) == part = p /\ UNCHANGED part
Next ==
  \/ /\ Is("scheduler") /\ SchedulerNext
     /\ UNCHANGED <<socketVars, chatVars, toolVars, webVars, turnVars>>
  \/ /\ Is("socket") /\ Socket!Next
     /\ UNCHANGED <<schedulerVars, chatVars, toolVars, webVars, turnVars>>
  \/ /\ Is("chats") /\ ChatsNext
     /\ UNCHANGED <<schedulerVars, socketVars, toolVars, webVars, turnVars>>
  \/ /\ Is("calls") /\ CallsNext
     /\ UNCHANGED <<schedulerVars, socketVars, chatVars, webVars, turnVars>>
  \/ /\ Is("web") /\ WebNext
     /\ UNCHANGED <<schedulerVars, socketVars, chatVars, toolVars, turnVars>>
  \/ /\ Is("turns") /\ TurnsNext
     /\ UNCHANGED <<schedulerVars, socketVars, chatVars, toolVars, webVars>>

Spec == Init /\ [][Next]_servicesVars /\ Socket!Fairness

-----------------------------------------------------------------------------
\* Every component keeps its types.
TypeOK ==
  /\ SchedulerTypeOK /\ Socket!TypeOK /\ ChatsTypeOK
  /\ CallsTypeOK /\ WebTypeOK /\ TurnsTypeOK

\* A client told to disconnect ends, once its socket is closed.
DisconnectEnds == Socket!DisconnectEnds
=============================================================================
