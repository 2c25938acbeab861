SPECIFICATION FairSpec
CONSTANTS
  Learner = {l1, l2, l3, l4}
  NoThread = NoThread
  MaxTurns = 4
  Callers = {"cli", "web"}
  LearnAfterSession = TRUE
INVARIANTS TypeOK LearnersBounded HandleIsAlive HandedOverOnce
PROPERTY CallsEnd
