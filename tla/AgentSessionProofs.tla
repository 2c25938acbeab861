------------------------- MODULE AgentSessionProofs -------------------------
(* How many learner threads one agent can pile up, and which thread its      *)
(* handle can name, for any number of learners, turns and timeouts.          *)
EXTENDS AgentSession, FiniteSetTheorems, TLAPS

Types ==
  /\ handle \in Learner \union {NoThread} /\ joining \in Learner \union {NoThread}
  /\ learner \in [Learner -> {"unused", "learning", "reporting", "clearing", "dead", "killed"}]
  /\ timeouts \in Nat

\* Whom the caller is waiting for, and when a session is open.
Phases ==
  /\ joining # NoThread <=> pc = "startJoin"
  /\ pc # "endJoin"
  /\ active => pc \in {"idle", "flush", "analyse", "reply", "archive", "count",
                    "leaving", "gone"}
  /\ pc \in {"flush", "analyse", "reply", "archive", "count"} => active

\* The learners no handle leads to.  Each stands for one timeout; once a join
\* has been dealt with, the thread the handle names is counted among them, for
\* it is about to be forgotten or replaced.
Forgotten == IF pc \in {"startClear", "spawn"} THEN Alive ELSE Alive \ {handle}
ForgottenTimedOut == Cardinality(Forgotten) <= timeouts

IInv == Types /\ Phases /\ HandleIsAlive /\ ForgottenTimedOut

\* Sets of learners are finite, so that they can be counted.
LEMMA Counting ==
  ASSUME NEW S \in SUBSET Learner
  PROVE  /\ IsFiniteSet(S) /\ Cardinality(S) \in Nat
         /\ \A T \in SUBSET S : Cardinality(T) <= Cardinality(S)
         /\ \A t : /\ Cardinality(S \ {t}) \in Nat
                  /\ Cardinality(S) <= Cardinality(S \ {t}) + 1
<1>1. IsFiniteSet(S) /\ Cardinality(S) \in Nat
  BY LearnerAssumption, FS_Subset, FS_CardinalityType
<1>2. \A T \in SUBSET S : Cardinality(T) <= Cardinality(S)
  BY <1>1, FS_Subset
<1>3. ASSUME NEW t
      PROVE  /\ Cardinality(S \ {t}) \in Nat
             /\ Cardinality(S) <= Cardinality(S \ {t}) + 1
  <2>1. Cardinality(S \ {t}) = IF t \in S THEN Cardinality(S) - 1 ELSE Cardinality(S)
    BY <1>1, FS_RemoveElement
  <2>2. Cardinality(S \ {t}) \in Nat
    BY <1>1, FS_RemoveElement, FS_CardinalityType
  <2> QED BY <1>1, <2>1, <2>2
<1> QED BY <1>1, <1>2, <1>3

LEMMA AliveLearns == Alive \subseteq Learner /\ Alive' \subseteq Learner
BY DEF Alive

LEMMA InitEstablishes == Init => IInv
<1> SUFFICES ASSUME Init PROVE IInv
  OBVIOUS
<1>1. Alive = {} /\ Forgotten = {}
  BY DEF Init, Alive, Forgotten
<1>2. Cardinality({}) = 0
  BY FS_EmptySet
<1> QED BY <1>1, <1>2 DEF Init, IInv, Types, Phases, HandleIsAlive, ForgottenTimedOut

\* What holds of the steps that move neither a thread nor the handle.
LEMMA Unforgotten ==
  ASSUME IInv, UNCHANGED <<handle, learner, timeouts, joining>>, Phases',
         pc \notin {"startClear", "spawn"},
         pc' \in {"startClear", "spawn"} => handle \notin Alive,
         pc' \in {"end", "spawn"} \/ active' => handle = NoThread
  PROVE  IInv'
<1>1. Alive' = Alive
  BY DEF Alive
<1>2. Forgotten' = Forgotten
  BY <1>1 DEF Forgotten
<1> QED BY <1>1, <1>2 DEF IInv, Types, HandleIsAlive, ForgottenTimedOut

LEMMA WaitPreserves == IInv /\ WaitForLearner => IInv'
<1> SUFFICES ASSUME IInv, WaitForLearner PROVE IInv'
  OBVIOUS
<1> USE DEF WaitForLearner, AfterWait
<1>1. CASE handle \in Alive
  <2>1. handle # NoThread
    BY <1>1, LearnerAssumption DEF Alive
  <2>2. /\ pc = "start" /\ pc' = "startJoin" /\ joining' = handle
        /\ Alive' = Alive /\ UNCHANGED <<active, handle, learner, timeouts>>
    BY <1>1, <2>1 DEF Alive, IInv, HandleIsAlive
  <2>3. Forgotten' = Forgotten
    BY <2>2 DEF Forgotten
  <2>4. HandleIsAlive'
    BY <1>1, <2>1, <2>2 DEF HandleIsAlive, Alive, IInv
  <2>5. Phases'
    BY <2>1, <2>2 DEF IInv, Phases
  <2> QED BY <2>2, <2>3, <2>4, <2>5 DEF IInv, Types, ForgottenTimedOut
<1>2. CASE handle \notin Alive
  <2>1. /\ \/ pc = "start" /\ pc' = "startClear"
           \/ pc = "end" /\ pc' = "spawn"
        /\ UNCHANGED <<active, handle, learner, timeouts, joining>>
    BY <1>2
  <2>2. Phases'
    BY <2>1 DEF IInv, Phases
  <2>3. pc' = "spawn" \/ active' => handle = NoThread
    BY <2>1 DEF IInv, Phases, HandleIsAlive
  <2> QED BY <1>2, <2>1, <2>2, <2>3, Unforgotten
<1> QED BY <1>1, <1>2

\* A join that times out adds a timeout and, at most, a forgotten learner.
LEMMA JoinPreserves == IInv /\ JoinEnds => IInv'
<1> SUFFICES ASSUME IInv, JoinEnds PROVE IInv'
  OBVIOUS
<1> USE DEF JoinEnds, AfterWait
<1>1. /\ pc = "startJoin" /\ pc' = "startClear" /\ joining' = NoThread
      /\ Alive' = Alive /\ UNCHANGED <<active, handle, learner>>
      /\ Forgotten = Alive \ {handle} /\ Forgotten' = Alive
  BY DEF Alive, Forgotten, IInv, Phases
<1>2. Types' /\ Phases' /\ HandleIsAlive'
  BY <1>1 DEF IInv, Types, Phases, HandleIsAlive
<1>3. Cardinality(Alive) <= timeouts'
  <2>1. /\ Cardinality(Alive) \in Nat /\ Cardinality(Alive \ {handle}) \in Nat
        /\ Cardinality(Alive) <= Cardinality(Alive \ {handle}) + 1
    BY AliveLearns, Counting
  <2>2. CASE joining \in Alive
    BY <1>1, <2>1, <2>2 DEF IInv, Types, ForgottenTimedOut
  <2>3. CASE joining \notin Alive
    <3>1. handle = NoThread
      BY <1>1, <2>3 DEF IInv, Phases, HandleIsAlive
    <3>2. Alive \ {handle} = Alive
      BY <3>1, LearnerAssumption DEF Alive
    <3> QED BY <1>1, <2>1, <2>3, <3>2 DEF IInv, Types, ForgottenTimedOut
  <2> QED BY <2>2, <2>3
<1> QED BY <1>1, <1>2, <1>3 DEF IInv, ForgottenTimedOut

LEMMA OpenSessionPreserves == IInv /\ OpenSession => IInv'
<1> SUFFICES ASSUME IInv, OpenSession PROVE IInv'
  OBVIOUS
<1> USE DEF OpenSession
<1>1. Alive' = Alive
  BY DEF Alive
<1>2. Forgotten = Alive /\ Forgotten' = Alive
  BY <1>1, LearnerAssumption DEF Forgotten, Alive
<1> QED BY <1>1, <1>2 DEF IInv, Types, Phases, HandleIsAlive, ForgottenTimedOut

LEMMA StartLearnerPreserves == IInv /\ StartLearner => IInv'
<1> SUFFICES ASSUME IInv, StartLearner PROVE IInv'
  OBVIOUS
<1> USE DEF StartLearner
<1>0. Forgotten = Alive /\ pc' \in {"idle", "leaving"} /\ joining' = joining /\ joining = NoThread
  BY DEF Forgotten, IInv, Phases, AfterBye
<1>c. /\ Cardinality(Alive) \in Nat
      /\ \A T \in SUBSET Alive : Cardinality(T) \in Nat /\ Cardinality(T) <= Cardinality(Alive)
  BY AliveLearns, Counting
<1>1. CASE LearnAfterSession /\ messages # {}
  <2>1. PICK t \in Fresh : handle' = t /\ learner' = [learner EXCEPT ![t] = "learning"]
    BY <1>1
  <2>2. t \in Learner /\ learner[t] = "unused"
    BY <2>1 DEF Fresh
  <2>3. Alive' = Alive \union {t}
    BY <2>1, <2>2 DEF Alive, IInv, Types
  <2>4. Forgotten' \in SUBSET Alive
    BY <1>0, <2>1, <2>3 DEF Forgotten
  <2>5. ForgottenTimedOut'
    BY <1>0, <1>c, <2>4 DEF IInv, Types, ForgottenTimedOut
  <2> QED BY <1>0, <2>1, <2>2, <2>3, <2>5 DEF IInv, Types, Phases, HandleIsAlive
<1>2. CASE ~(LearnAfterSession /\ messages # {})
  <2>1. Alive' = Alive
    BY <1>2 DEF Alive
  <2>2. Forgotten' \in SUBSET Alive
    BY <1>0, <2>1 DEF Forgotten
  <2>3. ForgottenTimedOut'
    BY <1>0, <1>2, <1>c, <2>2 DEF IInv, Types, ForgottenTimedOut
  <2> QED BY <1>0, <1>2, <2>1, <2>3 DEF IInv, Types, Phases, HandleIsAlive
<1> QED BY <1>1, <1>2

\* The threads of the REPL die with it, and those of a socket run on.
LEMMA LeavePreserves == IInv /\ Leave => IInv'
<1> SUFFICES ASSUME IInv, Leave PROVE IInv'
  OBVIOUS
<1> USE DEF Leave
<1>0. joining = NoThread /\ joining' = NoThread /\ Phases' /\ UNCHANGED timeouts
  BY DEF IInv, Phases
<1>1. CASE caller = "cli"
  <2>1. Alive' = {} /\ Forgotten' = {} /\ handle' = NoThread
    BY <1>1 DEF Alive, Forgotten
  <2>2. Cardinality({}) = 0
    BY FS_EmptySet
  <2>3. Types'
    BY <1>0, <1>1 DEF IInv, Types
  <2> QED BY <1>0, <2>1, <2>2, <2>3 DEF IInv, Types, HandleIsAlive, ForgottenTimedOut
<1>2. CASE caller # "cli"
  <2>1. UNCHANGED <<handle, learner, timeouts, joining, active>>
    BY <1>2
  <2>2. active' => handle = NoThread
    BY <2>1 DEF IInv, HandleIsAlive
  <2> QED BY <1>0, <2>1, <2>2, Unforgotten
<1> QED BY <1>1, <1>2

LEMMA LearnerPreserves ==
  ASSUME IInv, NEW t \in Learner, Learn(t) \/ Report(t) \/ Clear(t)
  PROVE  IInv'
<1> USE DEF LearnerStep
<1>0. UNCHANGED <<pc, active, joining, timeouts>>
  BY DEF Learn, Report, Clear
<1>1. CASE Learn(t) \/ Report(t)
  <2>1. Alive' = Alive /\ handle' = handle
    BY <1>1 DEF Learn, Report, Alive, IInv, Types
  <2>2. Forgotten' = Forgotten
    BY <1>0, <2>1 DEF Forgotten
  <2>3. Types' /\ \A u \in Learner : learner[u] # "unused" => learner'[u] # "unused"
    BY <1>0, <1>1 DEF Learn, Report, IInv, Types
  <2>4. HandleIsAlive'
    BY <1>0, <2>1, <2>3 DEF IInv, Types, HandleIsAlive
  <2> QED BY <1>0, <2>1, <2>2, <2>3, <2>4 DEF IInv, Phases, ForgottenTimedOut
<1>2. CASE Clear(t)
  <2>1. Alive' = Alive \ {t} /\ handle' = NoThread /\ t \in Alive
    BY <1>2 DEF Clear, Alive, IInv, Types
  <2>2. Types' /\ \A u \in Learner : learner[u] # "unused" => learner'[u] # "unused"
    BY <1>0, <1>2 DEF Clear, IInv, Types
  <2>3. HandleIsAlive'
    BY <1>0, <2>1, <2>2 DEF IInv, Types, HandleIsAlive
  <2>4. Cardinality(Forgotten') <= Cardinality(Forgotten)
    <3>1. Forgotten' = Alive \ {t}
      BY <1>0, <2>1, AliveLearns, LearnerAssumption DEF Forgotten
    <3>2. IsFiniteSet(Alive) /\ Cardinality(Alive \ {t}) = Cardinality(Alive) - 1
          /\ Cardinality(Alive) \in Nat
      BY <2>1, AliveLearns, Counting, FS_RemoveElement
    <3>3. CASE Forgotten = Alive
      BY <3>1, <3>2, <3>3
    <3>4. CASE Forgotten = Alive \ {handle}
      <4>1. Cardinality(Alive) <= Cardinality(Alive \ {handle}) + 1
            /\ Cardinality(Alive \ {handle}) \in Nat
        BY AliveLearns, Counting
      <4> QED BY <3>1, <3>2, <3>4, <4>1
    <3> QED BY <3>3, <3>4 DEF Forgotten
  <2>5. ForgottenTimedOut'
    <3>1. Forgotten \subseteq Learner /\ Forgotten' \subseteq Learner
      BY AliveLearns DEF Forgotten
    <3>2. Cardinality(Forgotten) \in Nat /\ Cardinality(Forgotten') \in Nat
      BY <3>1, Counting
    <3> QED BY <1>0, <2>4, <3>2 DEF IInv, Types, ForgottenTimedOut
  <2> QED BY <1>0, <2>2, <2>3, <2>5 DEF IInv, Phases
<1> QED BY <1>1, <1>2

LEMMA StepPreserves == IInv /\ [Next]_vars => IInv'
<1> SUFFICES ASSUME IInv, [Next]_vars PROVE IInv'
  OBVIOUS
<1>1. CASE Chat \/ EndSession \/ FlushLearningLogs \/ AddUserTurn \/ AddAssistantTurn
           \/ ChatRaises \/ Archive \/ ArchiveRaises \/ CountSession \/ CountRaises
           \/ Disconnect
  <2> USE DEF Disconnect, Chat, EndSession, FlushLearningLogs, AddUserTurn, AddAssistantTurn,
       AddTurn, ChatRaises, Archive, ArchiveRaises, CountSession, CountRaises
  <2>1. UNCHANGED <<handle, learner, timeouts, joining>>
    BY <1>1 DEF threadVars
  <2>2. /\ pc \in {"idle", "flush", "analyse", "reply", "archive", "count"}
        /\ pc' \notin {"startClear", "spawn"}
        /\ active' \/ pc' = "end" => active
    BY <1>1 DEF IInv, Phases
  <2>3. Phases'
    BY <1>1, <2>1 DEF IInv, Phases
  <2>4. pc' \in {"end", "spawn"} \/ active' => handle = NoThread
    BY <2>2 DEF IInv, HandleIsAlive
  <2> QED BY <2>1, <2>2, <2>3, <2>4, Unforgotten
<1>2. CASE WaitForLearner \/ JoinEnds \/ OpenSession \/ StartLearner \/ Leave
  BY <1>2, WaitPreserves, JoinPreserves, OpenSessionPreserves, StartLearnerPreserves,
     LeavePreserves
<1>4. ASSUME NEW t \in Learner, Learn(t) \/ Report(t) \/ Clear(t) PROVE IInv'
  BY <1>4, LearnerPreserves
<1>3. CASE Gone \/ UNCHANGED vars
  <2>1. Alive' = Alive /\ Forgotten' = Forgotten
    BY <1>3 DEF Gone, vars, Alive, Forgotten
  <2> QED BY <1>3, <2>1 DEF Gone, vars, IInv, Types, Phases, HandleIsAlive, ForgottenTimedOut
<1> QED BY <1>1, <1>2, <1>3, <1>4 DEF Next, Call

THEOREM Invariance == Spec => []IInv
<1>1. Init => IInv
  BY InitEstablishes
<1>2. IInv /\ [Next]_vars => IInv'
  BY StepPreserves
<1> QED BY <1>1, <1>2, PTL DEF Spec

\* end_session and start_session of agent/core/agent.py: however the joins, the
\* timeouts and the learners' own clearing of the handle interleave, at most one
\* more learner thread is alive than joins have timed out.
THEOREM LearnersAreBounded == Spec => []LearnersBounded
<1>1. IInv => LearnersBounded
  <2> SUFFICES ASSUME IInv PROVE LearnersBounded
    OBVIOUS
  <2>1. /\ Cardinality(Alive) \in Nat /\ Cardinality(Alive \ {handle}) \in Nat
        /\ Cardinality(Alive) <= Cardinality(Alive \ {handle}) + 1
    BY AliveLearns, Counting
  <2>2. Forgotten = Alive \/ Forgotten = Alive \ {handle}
    BY DEF Forgotten
  <2> QED BY <2>1, <2>2 DEF IInv, Types, ForgottenTimedOut, LearnersBounded
<1> QED BY <1>1, Invariance, PTL

\* _learning_thread names only a thread that is alive, and none while a session
\* is open: the next learner never overwrites the handle of a live one.
THEOREM HandleStaysAlive == Spec => []HandleIsAlive
<1>1. IInv => HandleIsAlive
  BY DEF IInv
<1> QED BY <1>1, Invariance, PTL

-----------------------------------------------------------------------------
\* What becomes of the turns.

\* end_session's copy exists only on the way from there to the learner; it is
\* the whole short-term memory until that is archived, and cleared, with it.
CopyIsWhole ==
  /\ pc \notin {"archive", "count", "end", "endJoin", "spawn"} => messages = {}
  /\ pc = "archive" => messages = shortTerm
  /\ pc \in {"count", "end", "endJoin", "spawn"} => shortTerm = {}

\* A thread not yet started has been given nothing.
UnusedHaveNothing == \A t \in Learner : learner[t] = "unused" => batch[t] = {}

\* A session is open until it is counted.
OpenUntilCounted == pc \in {"archive", "count"} => active

\* An agent that is left with its session open is left for good.
LeftOpen == active /\ pc \in {"leaving", "gone"}

MemoryIInv == /\ TypeOK /\ HandedOverOnce /\ CopyIsWhole /\ UnusedHaveNothing
              /\ OpenUntilCounted

\* The steps of the threads, and those of the caller that only take it on.
LEMMA MemoryUntouched ==
  ASSUME MemoryIInv, UNCHANGED <<memoryVars, batch>>, TypeOK', CopyIsWhole',
         OpenUntilCounted', LeftOpen => LeftOpen',
         \A t \in Learner : learner'[t] = "unused" => learner[t] = "unused"
  PROVE  MemoryIInv'
BY DEF memoryVars, MemoryIInv, HandedOverOnce, UnusedHaveNothing, LeftOpen

LEMMA MemoryInitially == Init => MemoryIInv
<1> SUFFICES ASSUME Init PROVE MemoryIInv
  OBVIOUS
<1>1. UNION {batch[t] : t \in Learner} = {}
  BY DEF Init
<1>2. TypeOK
  <2>1. active \in BOOLEAN
    BY Zenon DEF Init
  <2>2. turns \in 0..MaxTurns
    BY BoundAssumption DEF Init
  <2> QED BY <2>1, <2>2 DEF Init, TypeOK
<1>3. 1..turns = {}
  BY DEF Init
<1> QED BY <1>1, <1>2, <1>3 DEF Init, MemoryIInv, HandedOverOnce, CopyIsWhole,
        UnusedHaveNothing, OpenUntilCounted

LEMMA CallerOnlyMoves ==
  ASSUME MemoryIInv,
         \/ Chat \/ WaitForLearner \/ JoinEnds \/ OpenSession \/ FlushLearningLogs
         \/ ChatRaises \/ CountSession \/ Disconnect \/ Leave
  PROVE  MemoryIInv'
<1> USE DEF Chat, WaitForLearner, JoinEnds, OpenSession, FlushLearningLogs, ChatRaises,
      CountSession, Disconnect, Leave, AfterWait, threadVars, memoryVars
<1>1. UNCHANGED <<memoryVars, batch, caller>>
  OBVIOUS
<1>2. \A t \in Learner : learner'[t] = "unused" => learner[t] = "unused"
  BY DEF MemoryIInv, TypeOK
<1>3. CopyIsWhole'
  BY <1>1 DEF MemoryIInv, CopyIsWhole
<1>4. TypeOK'
  <2>1. active' \in BOOLEAN
    BY Zenon DEF MemoryIInv, TypeOK
  <2>2. /\ {handle', joining'} \subseteq Learner \union {NoThread}
        /\ logs' \subseteq Learner /\ timeouts' \in Nat
    BY DEF MemoryIInv, TypeOK
  <2>3. learner' \in [Learner -> {"unused", "learning", "reporting", "clearing", "dead", "killed"}]
    BY DEF MemoryIInv, TypeOK
  <2>4. pc' \in {"idle", "start", "startJoin", "startClear", "flush", "analyse",
               "reply", "archive", "count", "end", "endJoin", "spawn", "leaving", "gone"}
    OBVIOUS
  <2> QED BY <1>1, <2>1, <2>2, <2>3, <2>4 DEF MemoryIInv, TypeOK
<1>5. OpenUntilCounted' /\ (LeftOpen => LeftOpen')
  BY DEF MemoryIInv, OpenUntilCounted, LeftOpen
<1> QED BY <1>1, <1>2, <1>3, <1>4, <1>5, MemoryUntouched

LEMMA LearnersOnlyMove ==
  ASSUME MemoryIInv, NEW t \in Learner, Learn(t) \/ Report(t) \/ Clear(t)
  PROVE  MemoryIInv'
<1> USE DEF Learn, Report, Clear, LearnerStep
<1>1. UNCHANGED <<caller, pc, active, memoryVars, joining, batch, timeouts>>
  OBVIOUS
<1>2. /\ \A u \in Learner : learner'[u] = "unused" => learner[u] = "unused"
      /\ learner' \in [Learner -> {"unused", "learning", "reporting", "clearing", "dead", "killed"}]
  BY DEF MemoryIInv, TypeOK
<1>3. CopyIsWhole'
  BY <1>1 DEF memoryVars, MemoryIInv, CopyIsWhole
<1>4. TypeOK'
  BY <1>1, <1>2 DEF memoryVars, MemoryIInv, TypeOK
<1>5. OpenUntilCounted' /\ (LeftOpen => LeftOpen')
  BY <1>1 DEF MemoryIInv, OpenUntilCounted, LeftOpen
<1> QED BY <1>1, <1>2, <1>3, <1>4, <1>5, MemoryUntouched

LEMMA AddTurnKeeps ==
  ASSUME MemoryIInv, AddUserTurn \/ AddAssistantTurn
  PROVE  MemoryIInv'
<1>1. /\ turns < MaxTurns /\ turns' = turns + 1 /\ shortTerm' = shortTerm \union {turns + 1}
      /\ UNCHANGED <<caller, active, messages, archived, threadVars, logs>>
      /\ pc \in {"analyse", "reply"} /\ pc' \in {"reply", "idle"}
  BY DEF AddUserTurn, AddAssistantTurn, AddTurn
<1>2. turns \in Nat /\ MaxTurns \in Nat /\ turns + 1 \in Turn /\ 1..(turns + 1) = 1..turns \union {turns + 1}
      /\ turns + 1 \notin 1..turns
  BY <1>1, BoundAssumption DEF MemoryIInv, TypeOK, Turn
<1>3. TypeOK'
  BY <1>1, <1>2, BoundAssumption DEF threadVars, MemoryIInv, TypeOK
<1>4. messages = {} /\ CopyIsWhole'
  BY <1>1 DEF MemoryIInv, CopyIsWhole
<1>5. HandedOverOnce'
  BY <1>1, <1>2, <1>4 DEF threadVars, MemoryIInv, HandedOverOnce
<1> QED BY <1>1, <1>3, <1>4, <1>5
       DEF threadVars, MemoryIInv, UnusedHaveNothing, OpenUntilCounted

LEMMA EndSessionKeeps == MemoryIInv /\ EndSession => MemoryIInv'
<1> SUFFICES ASSUME MemoryIInv, EndSession PROVE MemoryIInv'
  OBVIOUS
<1> USE DEF EndSession, threadVars
<1>1. TypeOK'
  BY DEF MemoryIInv, TypeOK
<1>2. messages = {} /\ CopyIsWhole'
  BY DEF MemoryIInv, CopyIsWhole
<1>3. \A t \in Learner : batch[t] \subseteq archived
  BY DEF MemoryIInv, HandedOverOnce
<1>4. HandedOverOnce'
  BY <1>2, <1>3 DEF MemoryIInv, HandedOverOnce
<1> QED BY <1>1, <1>2, <1>4 DEF MemoryIInv, UnusedHaveNothing, OpenUntilCounted

LEMMA ArchiveKeeps ==
  ASSUME MemoryIInv, Archive \/ ArchiveRaises
  PROVE  MemoryIInv'
<1> USE DEF Archive, ArchiveRaises, threadVars
<1>1. pc = "archive" /\ messages = shortTerm
  BY DEF MemoryIInv, CopyIsWhole
<1>2. TypeOK' /\ CopyIsWhole'
  BY <1>1 DEF MemoryIInv, TypeOK, CopyIsWhole
<1>3. LearnAfterSession /\ active => archived = UNION {batch[t] : t \in Learner}
  BY <1>1 DEF MemoryIInv, HandedOverOnce
<1>4. active /\ batch' = batch
  BY <1>1 DEF MemoryIInv, OpenUntilCounted
<1>5. /\ shortTerm' \union archived' = 1..turns' /\ shortTerm' \intersect archived' = {}
      /\ \A t \in Learner : batch'[t] \subseteq archived' \ messages'
  BY <1>1, <1>4 DEF MemoryIInv, HandedOverOnce
<1>6. LearnAfterSession /\ ~(active' /\ pc' \in {"leaving", "gone"}) =>
        archived' = (messages' \ shortTerm') \union UNION {batch'[t] : t \in Learner}
  BY <1>1, <1>3, <1>4
<1>7. HandedOverOnce'
  BY <1>4, <1>5, <1>6 DEF MemoryIInv, HandedOverOnce
<1> QED BY <1>2, <1>7 DEF MemoryIInv, UnusedHaveNothing, OpenUntilCounted

LEMMA CountRaisesKeeps == MemoryIInv /\ CountRaises => MemoryIInv'
<1> SUFFICES ASSUME MemoryIInv, CountRaises PROVE MemoryIInv'
  OBVIOUS
<1> USE DEF CountRaises, threadVars
<1>1. shortTerm = {} /\ CopyIsWhole'
  BY DEF MemoryIInv, CopyIsWhole
<1>2. TypeOK'
  BY DEF MemoryIInv, TypeOK
<1>3. HandedOverOnce'
  BY <1>1 DEF MemoryIInv, HandedOverOnce, OpenUntilCounted
<1> QED BY <1>1, <1>2, <1>3 DEF MemoryIInv, UnusedHaveNothing, OpenUntilCounted

\* The copy goes to one fresh thread, or to none.
LEMMA StartLearnerKeeps == MemoryIInv /\ StartLearner => MemoryIInv'
<1> SUFFICES ASSUME MemoryIInv, StartLearner PROVE MemoryIInv'
  OBVIOUS
<1>0. /\ pc = "spawn" /\ pc' \in {"idle", "leaving"} /\ messages' = {} /\ shortTerm = {}
      /\ UNCHANGED <<caller, active, turns, shortTerm, archived, joining, logs, timeouts>>
  BY DEF StartLearner, AfterBye, MemoryIInv, CopyIsWhole
<1>1. CopyIsWhole'
  BY <1>0 DEF CopyIsWhole
<1>2. CASE LearnAfterSession /\ messages # {}
  <2>1. PICK t \in Fresh : /\ handle' = t /\ learner' = [learner EXCEPT ![t] = "learning"]
                           /\ batch' = [batch EXCEPT ![t] = messages]
    BY <1>2 DEF StartLearner
  <2>2. t \in Learner /\ learner[t] = "unused" /\ batch[t] = {}
    BY <2>1 DEF Fresh, MemoryIInv, UnusedHaveNothing
  <2>3. \A u \in Learner : batch'[u] = IF u = t THEN messages ELSE batch[u]
    BY <2>1, <2>2 DEF MemoryIInv, TypeOK
  <2>4. TypeOK'
    BY <1>0, <2>1, <2>2 DEF MemoryIInv, TypeOK
  <2>5. HandedOverOnce'
    <3>1. UNION {batch'[u] : u \in Learner} = messages \union UNION {batch[u] : u \in Learner}
      BY <2>2, <2>3
    <3>2. archived = messages \union UNION {batch[u] : u \in Learner}
      BY <1>0, <1>2 DEF MemoryIInv, HandedOverOnce
    <3>3. archived' = (messages' \ shortTerm') \union UNION {batch'[u] : u \in Learner}
      BY <1>0, <3>1, <3>2
    <3>4. \A u \in Learner : batch'[u] \subseteq archived' \ messages'
      BY <1>0, <2>3, <3>2 DEF MemoryIInv, HandedOverOnce
    <3>5. \A u, v \in Learner : u = v \/ batch'[u] \intersect batch'[v] = {}
      BY <2>3 DEF MemoryIInv, HandedOverOnce
    <3> QED BY <1>0, <3>3, <3>4, <3>5 DEF MemoryIInv, HandedOverOnce
  <2>6. UnusedHaveNothing'
    BY <2>1, <2>2, <2>3 DEF MemoryIInv, TypeOK, UnusedHaveNothing
  <2> QED BY <1>0, <1>1, <2>4, <2>5, <2>6 DEF MemoryIInv, OpenUntilCounted
<1>3. CASE ~(LearnAfterSession /\ messages # {})
  <2>1. UNCHANGED <<handle, learner, batch>>
    BY <1>3 DEF StartLearner
  <2>2. TypeOK'
    BY <1>0, <2>1 DEF MemoryIInv, TypeOK
  <2>3. HandedOverOnce'
    BY <1>0, <1>3, <2>1 DEF MemoryIInv, HandedOverOnce
  <2> QED BY <1>0, <1>1, <2>1, <2>2, <2>3 DEF MemoryIInv, UnusedHaveNothing, OpenUntilCounted
<1> QED BY <1>2, <1>3

LEMMA MemoryInvariance == Spec => []MemoryIInv
<1>1. MemoryIInv /\ [Next]_vars => MemoryIInv'
  <2> SUFFICES ASSUME MemoryIInv, [Next]_vars PROVE MemoryIInv'
    OBVIOUS
  <2>1. CASE Gone \/ UNCHANGED vars
    BY <2>1 DEF Gone, vars, MemoryIInv, TypeOK, HandedOverOnce, CopyIsWhole,
       UnusedHaveNothing, OpenUntilCounted
  <2> QED BY <2>1, CallerOnlyMoves, LearnersOnlyMove, AddTurnKeeps, EndSessionKeeps,
          ArchiveKeeps, CountRaisesKeeps, StartLearnerKeeps DEF Next, Call
<1> QED BY <1>1, MemoryInitially, PTL DEF Spec

\* Every variable of an agent's sessions keeps its type.
THEOREM TypeCorrect == Spec => []TypeOK
BY MemoryInvariance, PTL DEF MemoryIInv

\* chat and end_session: for any number of turns, sessions and learners, no
\* turn is lost on its way to the session files, none is handed to two learners,
\* and an archived one is handed to none only if learning is off or the profile
\* could not be saved, after which the agent is left.
THEOREM TurnsAreHandedOver == Spec => []HandedOverOnce
BY MemoryInvariance, PTL DEF MemoryIInv
=============================================================================
