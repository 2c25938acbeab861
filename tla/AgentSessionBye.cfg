SPECIFICATION Spec
CONSTANTS
  Learner = {l1, l2}
  NoThread = NoThread
  MaxTurns = 2
  Callers = {"cli"}
  LearnAfterSession = TRUE
INVARIANT ByeLearns
