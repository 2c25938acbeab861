---------------------------- MODULE AgentSession ----------------------------
(* agent/core/agent.py: the sessions of one EvolvingAgent.  Its caller, the  *)
(* REPL of main.py or the web socket handler of web/api.py, alternates chat  *)
(* turns and /bye, and goes away in the end.  Each ended session is archived *)
(* and handed to a background learner thread.  start_session and end_session *)
(* wait for the learner that _learning_thread names, but not for ever, and a *)
(* learner that ends clears _learning_thread, whichever thread it names.     *)
EXTENDS Naturals, FiniteSets

CONSTANTS Learner,   \* the learner threads, each started once
          NoThread,  \* _learning_thread is None
          MaxTurns,  \* bound: turns added to the short-term memory
          Callers,   \* who may drive the agent: "cli", "web"
          LearnAfterSession  \* the learn_after_session setting

ASSUME LearnerAssumption == IsFiniteSet(Learner) /\ NoThread \notin Learner
ASSUME BoundAssumption == MaxTurns \in Nat /\ LearnAfterSession \in BOOLEAN
ASSUME CallerAssumption == Callers \subseteq {"cli", "web"}

Turn == 1..MaxTurns

VARIABLES caller,    \* who drives this agent
          pc,        \* where the caller stands
          active,    \* session_active
          turns,     \* how many turns there have been
          shortTerm, \* memory.short_term
          messages,  \* end_session's copy of it
          archived,  \* the turns written to session files
          handle,    \* _learning_thread
          joining,   \* the thread start_session or end_session waits for
          learner,   \* what each learner thread is doing
          batch,     \* the messages each learner was started with
          logs,      \* _learning_logs: the learners whose report is in it
          timeouts   \* history: joins that ended by their timeout

vars == <<caller, pc, active, turns, shortTerm, messages, archived, handle, joining,
          learner, batch, logs, timeouts>>
memoryVars == <<turns, shortTerm, messages, archived>>
threadVars == <<handle, joining, learner, batch, timeouts>>

Alive == {t \in Learner : learner[t] \in {"learning", "reporting", "clearing"}}
Fresh == {t \in Learner : learner[t] = "unused"}

Init ==
  /\ caller \in Callers
  /\ pc = "idle" /\ active = FALSE /\ turns = 0
  /\ shortTerm = {} /\ messages = {} /\ archived = {}
  /\ handle = NoThread /\ joining = NoThread
  /\ learner = [t \in Learner |-> "unused"]
  /\ batch = [t \in Learner |-> {}]
  /\ logs = {} /\ timeouts = 0

\* What follows the wait for a learner in start_session and in end_session.
AfterWait == IF pc \in {"start", "startJoin"} THEN "startClear" ELSE "spawn"

\* Mutant: nobody is waited for.
WaitForNobody ==
  /\ pc \in {"start", "end"}
  /\ pc' = AfterWait
  /\ UNCHANGED <<caller, active, memoryVars, threadVars, logs>>

\* Both read _learning_thread under the lock, and wait for it if it is alive.
WaitForLearner ==
  /\ pc \in {"start", "end"}
  /\ IF handle \in Alive
     THEN joining' = handle /\ pc' = IF pc = "start" THEN "startJoin" ELSE "endJoin"
     ELSE pc' = AfterWait /\ UNCHANGED joining
  /\ UNCHANGED <<caller, active, memoryVars, handle, learner, batch, logs, timeouts>>

\* Mutant: a join without a timeout.
JoinForEver ==
  /\ pc \in {"startJoin", "endJoin"} /\ joining \notin Alive
  /\ pc' = AfterWait
  /\ joining' = NoThread
  /\ UNCHANGED <<caller, active, memoryVars, handle, learner, batch, logs, timeouts>>

\* join returns when the thread is dead, or else when its timeout has passed.
JoinEnds ==
  /\ pc \in {"startJoin", "endJoin"}
  /\ pc' = AfterWait
  /\ timeouts' = IF joining \in Alive THEN timeouts + 1 ELSE timeouts
  /\ joining' = NoThread
  /\ UNCHANGED <<caller, active, memoryVars, handle, learner, batch, logs>>

\* chat: start_session first, unless a session is active.
Chat ==
  /\ pc = "idle" /\ turns < MaxTurns
  /\ pc' = IF active THEN "flush" ELSE "start"
  /\ UNCHANGED <<caller, active, memoryVars, threadVars, logs>>

\* start_session forgets the thread, dead or not, and opens the session; the
\* reflection that may follow can raise, which leaves the session open.
OpenSession ==
  /\ pc = "startClear"
  /\ handle' = NoThread
  /\ active' = TRUE
  /\ pc' \in {"flush", "idle"}
  /\ UNCHANGED <<caller, memoryVars, joining, learner, batch, logs, timeouts>>

FlushLearningLogs ==
  /\ pc = "flush"
  /\ logs' = {}
  /\ pc' = "analyse"
  /\ UNCHANGED <<caller, active, memoryVars, threadVars>>

AddTurn(from, to) ==
  /\ pc = from /\ turns < MaxTurns
  /\ turns' = turns + 1
  /\ shortTerm' = shortTerm \union {turns + 1}
  /\ pc' = to
  /\ UNCHANGED <<caller, active, messages, archived, threadVars, logs>>

\* The user's turn is added after the emotion analysis, the assistant's after
\* the reply: by chat itself, or by finalize_response at the end of a stream.
AddUserTurn == AddTurn("analyse", "reply")
AddAssistantTurn == AddTurn("reply", "idle")

\* The analysis, the reply or its stream raises: the caller logs it and goes on.
ChatRaises ==
  /\ pc \in {"analyse", "reply"}
  /\ pc' = "idle"
  /\ UNCHANGED <<caller, active, memoryVars, threadVars, logs>>

\* Mutant: the copy takes in the system prompt at index 0.
EndSessionWithPrompt ==
  /\ pc = "idle" /\ active
  /\ messages' = shortTerm \union {0}
  /\ pc' = "archive"
  /\ UNCHANGED <<caller, active, turns, shortTerm, archived, threadVars, logs>>

\* end_session copies the messages ...
EndSession ==
  /\ pc = "idle" /\ active
  /\ messages' = shortTerm
  /\ pc' = "archive"
  /\ UNCHANGED <<caller, active, turns, shortTerm, archived, threadVars, logs>>

\* ... writes them to the session file and clears the short-term memory ...
Archive ==
  /\ pc = "archive"
  /\ archived' = archived \union shortTerm
  /\ shortTerm' = {}
  /\ pc' = "count"
  /\ UNCHANGED <<caller, active, turns, messages, threadVars, logs>>

\* (unless the relationship event or the file cannot be written: neither caller
\* catches that and goes on)
ArchiveRaises ==
  /\ pc = "archive" /\ messages # {}
  /\ pc' = "leaving"
  /\ messages' = {}
  /\ UNCHANGED <<caller, active, turns, shortTerm, archived, threadVars, logs>>

\* ... counts the session in the profile and closes it.
CountSession ==
  /\ pc = "count"
  /\ active' = FALSE
  /\ pc' = "end"
  /\ UNCHANGED <<caller, memoryVars, threadVars, logs>>

\* The profile cannot be saved: the session stays open, nobody learns from its
\* archived messages, and again neither caller goes on.
CountRaises ==
  /\ pc = "count"
  /\ messages' = {}
  /\ pc' = "leaving"
  /\ UNCHANGED <<caller, active, turns, shortTerm, archived, threadVars, logs>>

\* After /bye the REPL breaks its loop; a socket waits for the next message.
AfterBye == IF caller = "cli" THEN "leaving" ELSE "idle"

\* Mutant: a session that ends while a learner runs is not learned from.
StartLearnerUnlessBusy ==
  /\ pc = "spawn"
  /\ messages' = {}
  /\ IF LearnAfterSession /\ messages # {} /\ Alive = {}
     THEN \E t \in Fresh : /\ handle' = t
                           /\ learner' = [learner EXCEPT ![t] = "learning"]
                           /\ batch' = [batch EXCEPT ![t] = messages]
     ELSE UNCHANGED <<handle, learner, batch>>
  /\ pc' = AfterBye
  /\ UNCHANGED <<caller, active, turns, shortTerm, archived, joining, logs, timeouts>>

\* Creating, naming and starting the thread, all under _thread_lock.
StartLearner ==
  /\ pc = "spawn"
  /\ messages' = {}
  /\ IF LearnAfterSession /\ messages # {}
     THEN \E t \in Fresh : /\ handle' = t
                           /\ learner' = [learner EXCEPT ![t] = "learning"]
                           /\ batch' = [batch EXCEPT ![t] = messages]
     ELSE UNCHANGED <<handle, learner, batch>>
  /\ pc' = AfterBye
  /\ UNCHANGED <<caller, active, turns, shortTerm, archived, joining, logs, timeouts>>

\* _background_learn: learn_from_session returns or raises, then the finally
\* block reports it, and forgets _learning_thread under the lock.
LearnerStep(t, from, to) ==
  /\ learner[t] = from
  /\ learner' = [learner EXCEPT ![t] = to]
  /\ UNCHANGED <<caller, pc, active, memoryVars, joining, batch, timeouts>>

Learn(t) == LearnerStep(t, "learning", "reporting") /\ UNCHANGED <<handle, logs>>
Report(t) == /\ LearnerStep(t, "reporting", "clearing")
             /\ logs' = logs \union {t} /\ UNCHANGED handle
\* Mutant: the handle is left on the dead thread.
ClearNothing(t) == LearnerStep(t, "clearing", "dead") /\ UNCHANGED <<handle, logs>>
Clear(t) == /\ LearnerStep(t, "clearing", "dead")
            /\ handle' = NoThread /\ UNCHANGED logs

\* The socket closes or the REPL is interrupted in the middle of a reply, the
\* socket closes between messages, or the REPL is left without a session.
Disconnect ==
  /\ pc = "reply" \/ (pc = "idle" /\ (caller = "web" \/ ~active))
  /\ pc' = "leaving"
  /\ UNCHANGED <<caller, active, memoryVars, threadVars, logs>>

\* With the REPL its process ends, and the daemon threads with it; without its
\* socket an agent is dropped, but its learner runs on.
Leave ==
  /\ pc = "leaving"
  /\ pc' = "gone"
  /\ IF caller = "cli"
     THEN /\ learner' = [t \in Learner |-> IF t \in Alive THEN "killed" ELSE learner[t]]
          /\ handle' = NoThread
     ELSE UNCHANGED <<learner, handle>>
  /\ UNCHANGED <<caller, active, memoryVars, joining, batch, logs, timeouts>>

\* What a call under way does next, of itself.
Call == \/ WaitForLearner \/ JoinEnds \/ OpenSession
        \/ FlushLearningLogs \/ AddUserTurn \/ AddAssistantTurn \/ ChatRaises
        \/ Archive \/ ArchiveRaises \/ CountSession \/ CountRaises \/ StartLearner
        \/ Leave
Gone == pc = "gone" /\ UNCHANGED vars

Next == Chat \/ EndSession \/ Disconnect \/ Call \/ (\E t \in Learner : Learn(t) \/ Report(t) \/ Clear(t))
        \/ Gone
Spec == Init /\ [][Next]_vars
\* The caller goes on with its call; a learner may hang in its LLM call.
FairSpec == Spec /\ WF_vars(Call)

-----------------------------------------------------------------------------
TypeOK ==
  /\ pc \in {"idle", "start", "startJoin", "startClear", "flush", "analyse",
            "reply", "archive", "count", "end", "endJoin", "spawn", "leaving", "gone"}
  /\ caller \in Callers
  /\ active \in BOOLEAN /\ turns \in 0..MaxTurns
  /\ {shortTerm, messages, archived} \subseteq SUBSET Turn
  /\ {handle, joining} \subseteq Learner \union {NoThread}
  /\ learner \in [Learner -> {"unused", "learning", "reporting", "clearing", "dead", "killed"}]
  /\ batch \in [Learner -> SUBSET Turn]
  /\ logs \subseteq Learner /\ timeouts \in Nat

\* Learner threads pile up only by timeouts: however often one learner clears
\* the handle of another, at most one more is alive than joins have timed out.
LearnersBounded == Cardinality(Alive) <= timeouts + 1

\* _learning_thread never names a thread that is dead or not yet started, and
\* names none at all while a session is open: the wait in start_session leaves
\* nothing for the one in end_session to wait for, and no live handle is ever
\* overwritten by the next learner.
HandleIsAlive ==
  /\ handle # NoThread => handle \in Alive /\ ~active
  /\ pc \in {"end", "spawn"} => handle = NoThread
  /\ joining # NoThread => handle \in {joining, NoThread} /\ learner[joining] # "unused"

\* A turn is in the short-term memory or in a session file, never in both, and
\* no turn is handed to two learners.  If sessions are to be learned from, each
\* archived turn has been handed to a learner or is on its way to one: however
\* many learners hang, and wherever an analysis, a reply or an archive fails.
\* One session only can be archived and left out: one that the profile could
\* not count, which stays open and is the last of its agent.  (What a learner
\* does with its turns, and the turns that are in the short-term memory when
\* the agent is dropped, are not spoken of.)
HandedOverOnce ==
  /\ shortTerm \union archived = 1..turns /\ shortTerm \intersect archived = {}
  /\ \A t \in Learner : batch[t] \subseteq archived \ messages
  /\ \A t, u \in Learner : t = u \/ batch[t] \intersect batch[u] = {}
  /\ LearnAfterSession /\ ~(active /\ pc \in {"leaving", "gone"}) =>
       archived = (messages \ shortTerm) \union UNION {batch[t] : t \in Learner}

\* A learner that hangs never hangs the conversation: whatever call is under
\* way ends, for the two joins have timeouts.
CallsEnd == (pc \notin {"idle", "gone"}) ~> (pc \in {"idle", "gone"})

\* docs/ARCHITECTURE.md:138 -- /bye archives the session and triggers learning
\* in the background: what /bye has triggered is not cut off by the /bye itself.
ByeLearns == \A t \in Learner : learner[t] # "killed"
=============================================================================
