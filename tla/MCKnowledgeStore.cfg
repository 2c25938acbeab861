SPECIFICATION Spec
CONSTANTS
  cats = cats
  kittens = kittens
  tea = tea
  Thread = {main, learner}
  Main = main
  Text = {cats, kittens, tea}
  Topic <- MCTopic
  MaxCalls = 4
  MaxFaults = 1
  MaxCrashes = 1
SYMMETRY MCSymmetry
INVARIANTS TypeOK AlignedUnlessDisturbed ReportedIsKept
CHECK_DEADLOCK FALSE
