SPECIFICATION Spec
CONSTANTS
  cats = cats
  kittens = kittens
  tea = tea
  Thread = {main}
  Main = main
  Text = {cats, kittens, tea}
  Topic <- MCTopic
  MaxCalls = 3
  MaxFaults = 1
  MaxCrashes = 0
INVARIANT MergesSimilar
CHECK_DEADLOCK FALSE
