----------------------------- MODULE AgentTurns -----------------------------
(* What a session writes down: agent/core/agent.py with the learners of      *)
(* agent/cognition and the stores of agent/memory and agent/context.  The    *)
(* caller's coroutine goes through sessions and turns, the thread of the     *)
(* last session's learner runs beside it, and both change stores in memory   *)
(* and save them; every save may raise, and the process may end anywhere.    *)
(* AgentSession has the threads and messages, KnowledgeStore one store's     *)
(* contents; here a store is only as new as its file or not.                 *)
EXTENDS Naturals, FiniteSets

CONSTANT MaxFailed  \* bound: stores whose file is behind before one more save fails

Store == {"personality", "mood", "events", "meta", "profile", "graph", "rules",
          "reflections", "knowledge", "checkpoint"}
InPlace == {"graph", "checkpoint"}  \* written without LocalJsonStorage
Actor == {"turn", "learner"}

VARIABLES at,      \* where each actor is
          saving,  \* the saves in progress: whether they write the latest state
          orElse,  \* where the actor goes if its save raises
          file,    \* each file against its store: "current", "behind" or "torn"
          sessionActive,
          excused  \* history: stores of whose saves one failed, or two
                   \* overlapped, since the last that did not

turnVars == <<at, saving, orElse, file, sessionActive, excused>>

TurnsInit ==
  /\ at = [a \in Actor |-> "idle"]
  /\ saving = [a \in Actor |-> {}]
  /\ orElse = [a \in Actor |-> "idle"]
  /\ file = [s \in Store |-> "current"]
  /\ sessionActive = FALSE /\ excused = {}

-----------------------------------------------------------------------------
\* The store changes in memory and its save begins: a state that another actor
\* is writing is perhaps no longer the latest.
BeginSave(a, s, then, else) ==
  LET also == {b \in Actor \ {a} : \E x \in saving[b] : x.store = s} IN
  /\ saving' = [b \in Actor |-> IF b = a THEN {[store |-> s, latest |-> TRUE]}
                                ELSE IF b \in also THEN {[store |-> s, latest |-> FALSE]}
                                ELSE saving[b]]
  /\ file' = [file EXCEPT ![s] = IF s \in InPlace THEN "torn" ELSE "behind"]
  /\ excused' = IF also = {} THEN excused ELSE excused \union {s}
  /\ at' = [at EXCEPT ![a] = then]
  /\ orElse' = [orElse EXCEPT ![a] = else]
  /\ UNCHANGED sessionActive

GoOn(a, where) ==
  /\ at' = [at EXCEPT ![a] = where]
  /\ UNCHANGED <<saving, orElse, file, sessionActive, excused>>

Here(a, where) == at[a] = where /\ saving[a] = {}

OthersSave(a, s) == \E b \in Actor \ {a} : \E x \in saving[b] : x.store = s

\* save_json has replaced the file, or the file was written in place, where two
\* writers may leave no JSON at all.
Saved(a) ==
  \E x \in saving[a] :
    /\ saving' = [saving EXCEPT ![a] = {}]
    /\ \E now \in (IF x.latest THEN {"current"} ELSE {"current", "behind"}) \union
                  (IF x.store \in InPlace /\ x.store \in excused THEN {"torn"} ELSE {}) :
         /\ file' = [file EXCEPT ![x.store] = now]
         /\ excused' = IF now = "current" /\ ~OthersSave(a, x.store)
                       THEN excused \ {x.store} ELSE excused
    /\ UNCHANGED <<at, orElse, sessionActive>>

\* The disk, or something that cannot be written as JSON.
SaveRaises(a) ==
  \E x \in saving[a] :
    /\ Cardinality(excused) < MaxFailed
    /\ saving' = [saving EXCEPT ![a] = {}]
    /\ excused' = excused \union {x.store}
    /\ at' = [at EXCEPT ![a] = orElse[a]]
    /\ UNCHANGED <<orElse, file, sessionActive>>

-----------------------------------------------------------------------------
\* The stores.  adjust saves only if the value has changed, and within its
\* bounds; events and meta of the relationship are two files; the graph saves
\* nothing for a triple it knows with as much confidence.
Adjust(a, then, else) == BeginSave(a, "personality", then, else)
UpdateFromInteraction(a, then, else) == BeginSave(a, "mood", then, else)
AddEvent(a, then, else) == BeginSave(a, "events", then, else)
SaveMeta(a, then, else) == BeginSave(a, "meta", then, else)
UpdateProfile(a, then, else) == BeginSave(a, "profile", then, else)
AddReflection(a, then, else) == BeginSave(a, "reflections", then, else)
AddRule(a, then, else) == BeginSave(a, "rules", then, else)
AddTriple(a, then, else) == BeginSave(a, "graph", then, else)
AddKnowledge(a, then, else) == BeginSave(a, "knowledge", then, else)
SaveCheckpoint(a, then, else) == BeginSave(a, "checkpoint", then, else)
\* What is found is saved with the times it has been looked up.
SearchKnowledge(a, then, else) == BeginSave(a, "knowledge", then, else)

\* Mutant: the count is left to the next update of the profile.
IncrementOnly(a, then, else) ==
  /\ file' = [file EXCEPT !["profile"] = "behind"]
  /\ at' = [at EXCEPT ![a] = then]
  /\ UNCHANGED <<saving, orElse, sessionActive, excused>>
IncrementSessionCount(a, then, else) == BeginSave(a, "profile", then, else)

-----------------------------------------------------------------------------
\* start_session: the session is active before the reflection, which may raise.
StartSession(reflects) ==
  /\ Here("turn", "idle") /\ ~sessionActive
  /\ sessionActive' = TRUE
  /\ at' = [at EXCEPT !["turn"] = IF reflects THEN "reflect" ELSE "signals"]
  /\ UNCHANGED <<saving, orElse, file, excused>>

\* reflect: the reflection is stored, even one that could not be parsed; then
\* the profile; then the rules, whose errors are caught one by one; then stale
\* knowledge is removed.
Reflect ==
  \/ Here("turn", "reflect") /\ AddReflection("turn", "reflected", "failed")
  \/ Here("turn", "reflected")
     /\ (UpdateProfile("turn", "newRules", "failed") \/ GoOn("turn", "newRules"))
  \/ Here("turn", "newRules")
     /\ (AddRule("turn", "newRules", "newRules") \/ GoOn("turn", "cleanup"))
  \/ Here("turn", "cleanup")
     /\ (AddKnowledge("turn", "confidence", "failed") \/ GoOn("turn", "confidence"))
ConfidenceChange ==
  /\ Here("turn", "confidence")
  /\ Adjust("turn", "signals", "failed") \/ GoOn("turn", "signals")

StartChat == Here("turn", "idle") /\ sessionActive /\ GoOn("turn", "signals")

\* apply_signals, one adjustment after the other.
ApplySignals ==
  /\ Here("turn", "signals")
  /\ Adjust("turn", "signals", "failed") \/ GoOn("turn", "emotion")
\* analyze answers "calm" when the model fails; its style changes the personality.
Emotion ==
  /\ Here("turn", "emotion")
  /\ Adjust("turn", "emotion", "failed") \/ GoOn("turn", "mood")
Mood == Here("turn", "mood") /\ UpdateFromInteraction("turn", "route", "failed")

\* The user's message is remembered; it is planned, handled by a skill, or put
\* to the model, whose stream the caller reads, or not to its end.
Route == Here("turn", "route") /\ \E way \in {"plan", "skill", "model"} : GoOn("turn", way)
Plan == Here("turn", "plan") /\ \E way \in {"learnOnly", "skill", "failed"} : GoOn("turn", way)
Skill ==
  /\ Here("turn", "skill")
  /\ \/ AddKnowledge("turn", "learnOnly", "learnOnly")
     \/ \E way \in {"learnOnly", "model"} : GoOn("turn", way)
\* The prompt recalls what is known of the message, outside of any try.
BuildSystemPrompt ==
  /\ Here("turn", "model")
  /\ SearchKnowledge("turn", "stream", "failed") \/ GoOn("turn", "stream")
Model == Here("turn", "stream") /\ \E way \in {"signal", "failed"} : GoOn("turn", way)

\* adapt_from_feedback, one dimension after the other.
AdaptFromFeedback(here, after) == Adjust("turn", here, after)

\* _execute_action: what is to be known goes to the graph, or else to the
\* knowledge; who the user is to the profile; thanks and annoyance change the
\* personality, and working memory is not saved.
ExecuteAction(here, after) ==
  \/ AddTriple("turn", here, after) \/ AddKnowledge("turn", here, after)
  \/ UpdateProfile("turn", here, after) \/ AdaptFromFeedback(here, after)
\* _detect_feedback: a second time for a message that is a signal as well.
DetectFeedback(here, after) == AdaptFromFeedback(here, after)
\* scan_and_learn: the action of the intent that was recognised, those of the
\* patterns that match, and the feedback.
ScanAndLearn(here, after) == ExecuteAction(here, after) \/ DetectFeedback(here, after)
\* on_turn_complete: the scan, then perhaps the verbosity; an error ends it and
\* is caught.
OnTurnComplete(here, after) ==
  /\ Here("turn", here)
  /\ ScanAndLearn(here, after) \/ Adjust("turn", here, after) \/ GoOn("turn", after)
\* finalize_response goes on to learn; a skill's or a plan's answer does not.
FinalizeResponse == OnTurnComplete("signal", "recall") \/ OnTurnComplete("learnOnly", "idle")

\* _apply_to_memory: each item to the graph, then to the profile or the
\* knowledge; an error ends the batch and is caught.
ApplyToMemory(a, here, after) ==
  /\ Here(a, here)
  /\ \/ AddTriple(a, here, after) \/ UpdateProfile(a, here, after) \/ AddKnowledge(a, here, after)
     \/ GoOn(a, after)
\* learn_from_turn recalls what is known already; what it raises is caught.
LearnFromTurn ==
  \/ Here("turn", "recall")
     /\ (SearchKnowledge("turn", "learn", "rules") \/ GoOn("turn", "learn"))
  \/ ApplyToMemory("turn", "learn", "rules")

\* _apply_feedback_to_knowledge: rules are learned from praise only, for it calls
\* a correction "correction" and learn_from_feedback "corrected"; the knowledge
\* it saves is as it was, for it has changed copies.
LearnFromFeedback ==
  /\ Here("turn", "rules")
  /\ AddRule("turn", "feedback", "feedback") \/ GoOn("turn", "feedback")
ApplyFeedback ==
  \/ Here("turn", "feedback")
     /\ (AddKnowledge("turn", "lesson", "idle") \/ GoOn("turn", "lesson"))
  \/ Here("turn", "lesson")
     /\ (AddKnowledge("turn", "idle", "idle") \/ GoOn("turn", "idle"))

\* What chat or start_session raises is reported to the user.
Failed == Here("turn", "failed") /\ GoOn("turn", "idle")

\* end_session: what raises before the checkpoint leaves the session active.
EndSession ==
  /\ Here("turn", "idle") /\ sessionActive
  /\ \E way \in {"event", "count"} : GoOn("turn", way)
RecordRelationshipEvent ==
  \/ Here("turn", "event") /\ AddEvent("turn", "meta", "idle")
  \/ Here("turn", "meta") /\ SaveMeta("turn", "count", "idle")
CountSession == Here("turn", "count") /\ IncrementSessionCount("turn", "ended", "idle")
Inactive ==
  /\ Here("turn", "ended")
  /\ sessionActive' = FALSE
  /\ at' = [at EXCEPT !["turn"] = "checkpoint"]
  /\ UNCHANGED <<saving, orElse, file, excused>>
Checkpoint == Here("turn", "checkpoint") /\ SaveCheckpoint("turn", "launch", "launch")
\* The session's learner is started, after the last one or 30 s.
Launch ==
  /\ Here("turn", "launch") /\ saving["learner"] = {}
  /\ at' = [at EXCEPT !["turn"] = "idle", !["learner"] = "apply"]
  /\ UNCHANGED <<saving, orElse, file, sessionActive, excused>>
LearnFromSession == ApplyToMemory("learner", "apply", "idle")

\* The process ends and is started again: the stores are what the files hold,
\* a torn file an empty store.
Restart ==
  /\ at' = [a \in Actor |-> "idle"] /\ saving' = [a \in Actor |-> {}]
  /\ orElse' = [a \in Actor |-> "idle"]
  /\ file' = [s \in Store |-> IF file[s] = "torn" THEN "torn" ELSE "current"]
  /\ excused' = {s \in Store : file[s] = "torn"}
  /\ sessionActive' = FALSE

Turn == \/ \E r \in BOOLEAN : StartSession(r)
        \/ Reflect \/ ConfidenceChange \/ StartChat \/ ApplySignals \/ Emotion \/ Mood
        \/ Route \/ Plan \/ Skill \/ BuildSystemPrompt \/ Model \/ FinalizeResponse \/ LearnFromTurn
        \/ LearnFromFeedback \/ ApplyFeedback \/ Failed
        \/ EndSession \/ RecordRelationshipEvent \/ CountSession \/ Inactive \/ Checkpoint
        \/ Launch
TurnsNext == \/ Turn \/ LearnFromSession \/ Restart
        \/ \E a \in Actor : Saved(a) \/ SaveRaises(a)
TurnsSpec == TurnsInit /\ [][TurnsNext]_turnVars

-----------------------------------------------------------------------------
Places == {"idle", "reflect", "reflected", "newRules", "cleanup", "confidence", "signals",
           "emotion", "mood", "route", "plan", "skill", "model", "stream", "signal",
           "learnOnly", "recall", "learn", "rules", "feedback", "lesson", "failed", "event", "meta", "count",
           "ended", "checkpoint", "launch", "apply"}
TurnsTypeOK ==
  /\ at \in [Actor -> Places] /\ orElse \in [Actor -> Places]
  /\ saving \in [Actor -> SUBSET [store : Store, latest : BOOLEAN]]
  /\ \A a \in Actor : \A x, y \in saving[a] : x = y
  /\ file \in [Store -> {"current", "behind", "torn"}]
  /\ sessionActive \in BOOLEAN /\ excused \subseteq Store

\* Whatever a turn or a learner does, raises or leaves undone, and wherever the
\* process ends: what was learned in memory is in its file, so that a restart
\* keeps it -- unless it is being saved, or a save of that store has raised, or
\* met another one, and none has gone well since.
SavedUnlessFailed ==
  \A s \in Store : file[s] # "current" =>
    s \in excused \/ \E a \in Actor : \E x \in saving[a] : x.store = s
=============================================================================
