---------------------------- MODULE FeishuChats ----------------------------
(* The rest of the bot: the sessions of bot/session_lifecycle.py with their  *)
(* timers, the token cache of bot/feishu_adapter.py shared by its senders,   *)
(* and the webhook with the handler of bot/feishu_event_handler.py.  All of  *)
(* it runs in one event loop; no code passes a message from one to the other *)
EXTENDS Naturals

CONSTANTS User, Sender,
          MaxDue    \* bound: timeout tasks of a user created and not yet run

ASSUME DueAssumption == MaxDue \in Nat

VARIABLES session,  \* _sessions: none, or how old its last message is
          timer,    \* _timers
          due,      \* timeout tasks made by timers and not yet run
          token,    \* _token: none, good, or within 300 s of its end
          sending,  \* where each send_message is
          answer    \* what the webhook answered last

chatVars == <<session, timer, due, token, sending, answer>>

ChatsInit ==
  /\ session = [u \in User |-> "none"]
  /\ timer = [u \in User |-> "none"]
  /\ due = [u \in User |-> 0]
  /\ token = "none"
  /\ sending = [s \in Sender |-> "idle"]
  /\ answer = "none"

-----------------------------------------------------------------------------
\* _reset_timer: the old timer is cancelled, a task it has made is not.
ResetTimer(u) == timer' = [timer EXCEPT ![u] = "armed"]

\* on_message: a group's message that is not for the bot is skipped; an expired
\* session is ended and a new one started, any other renewed.  Nothing in it
\* suspends.
OnMessage(u, inGroup, mentionsBot) ==
  /\ inGroup => mentionsBot
  /\ session' = [session EXCEPT ![u] = "fresh"]
  /\ ResetTimer(u)
  /\ UNCHANGED <<due, token, sending, answer>>

\* The wall clock says that more than the TTL has passed (is_expired).
GrowsOld(u) ==
  /\ session[u] = "fresh"
  /\ session' = [session EXCEPT ![u] = "expired"]
  /\ UNCHANGED <<timer, due, token, sending, answer>>

\* The timer, which the loop's own clock drives, makes a task.
Fires(u) ==
  /\ timer[u] = "armed" /\ due[u] < MaxDue
  /\ timer' = [timer EXCEPT ![u] = "fired"]
  /\ due' = [due EXCEPT ![u] = @ + 1]
  /\ UNCHANGED <<session, token, sending, answer>>

\* Mutant: the task looks at the clock again.
TimeoutIfExpired(u) ==
  /\ due[u] > 0
  /\ due' = [due EXCEPT ![u] = @ - 1]
  /\ IF session[u] = "expired"
     THEN session' = [session EXCEPT ![u] = "none"] /\ timer' = [timer EXCEPT ![u] = "none"]
     ELSE UNCHANGED <<session, timer>>
  /\ UNCHANGED <<token, sending, answer>>
\* _on_session_timeout and _end_session: the session is ended and its timer
\* cancelled, whether or not a message has renewed it since the timer fired.
OnSessionTimeout(u) ==
  /\ due[u] > 0
  /\ due' = [due EXCEPT ![u] = @ - 1]
  /\ session' = [session EXCEPT ![u] = "none"]
  /\ timer' = [timer EXCEPT ![u] = "none"]
  /\ UNCHANGED <<token, sending, answer>>

-----------------------------------------------------------------------------
SendStep(s, from, to) ==
  /\ sending[s] = from
  /\ sending' = [sending EXCEPT ![s] = to]
  /\ UNCHANGED <<session, timer, due, answer>>

\* _get_tenant_access_token: a cached token is used at once; else every sender
\* fetches one of its own, and the last to arrive is kept.
StartSend(s) == /\ SendStep(s, "idle", IF token = "good" THEN "posting" ELSE "fetching")
                /\ UNCHANGED token
TokenArrives(s) == SendStep(s, "fetching", "posting") /\ token' = "good"
\* A refused token raises in the sender.
TokenRefused(s) == SendStep(s, "fetching", "idle") /\ UNCHANGED token
\* send_message: the message id, or an empty text with the error in the log.
Posted(s) == SendStep(s, "posting", "idle") /\ UNCHANGED token

TokenNearsEnd ==
  /\ token = "good" /\ token' = "stale"
  /\ UNCHANGED <<session, timer, due, sending, answer>>

\* from_feishu_message: none for an event that cannot be read.
FromFeishuMessage == {"message", "none"}
\* handle_event: each event gets a handler of its own, whose approval_handler
\* nobody has set, so that a card is answered with an error, as a message that
\* was not understood is; another event gets no answer.
HandleEvent == (FromFeishuMessage \ {"none"}) \union {"error", "challenge", "none"}
\* webhook: what raises is answered with an error, no answer with "ok".
Webhook ==
  /\ \E reply \in HandleEvent \union {"challenge", "error"} :
       answer' = IF reply = "none" THEN "ok" ELSE reply
  /\ UNCHANGED <<session, timer, due, token, sending>>

ChatsNext == \/ \E u \in User : \/ \E g, m \in BOOLEAN : OnMessage(u, g, m)
                           \/ GrowsOld(u) \/ Fires(u) \/ OnSessionTimeout(u)
        \/ \E s \in Sender : StartSend(s) \/ TokenArrives(s) \/ TokenRefused(s) \/ Posted(s)
        \/ TokenNearsEnd \/ Webhook
ChatsSpec == ChatsInit /\ [][ChatsNext]_chatVars

-----------------------------------------------------------------------------
ChatsTypeOK ==
  /\ session \in [User -> {"none", "fresh", "expired"}]
  /\ timer \in [User -> {"none", "armed", "fired"}]
  /\ due \in [User -> 0..MaxDue]
  /\ token \in {"none", "good", "stale"}
  /\ sending \in [Sender -> {"idle", "fetching", "posting"}]
  /\ answer \in {"none", "challenge", "message", "error", "ok"}

\* No session is left that nothing will end: however messages, timers and the
\* tasks the timers have made interleave, and though the timers and the age of
\* a session are told by different clocks, an open session has a timer armed or
\* a timeout task that is still to run; and no timer outlives its session.
SessionsAreTimed ==
  \A u \in User :
    /\ session[u] # "none" => timer[u] = "armed" \/ (timer[u] = "fired" /\ due[u] > 0)
    /\ timer[u] = "armed" => session[u] # "none"
=============================================================================
