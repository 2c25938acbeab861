SPECIFICATION FairSpec
CONSTANTS
  a = a
  b = b
  c = c
  d = d
  ghost = ghost
  CancelledError = CancelledError
  Node <- MCNode
  Name <- MCName
  Cond <- MCCond
  Result = {TRUE, FALSE}
  MayCancel <- MCMayCancel
  Topology <- MCTopology
  Verdicts <- MCVerdicts
  MaxRetries <- MCMaxRetries
INVARIANTS TypeOK DependencyOrder NothingSkipped AbortsAreGenuine ReturnPartitions
PROPERTIES SettledForGood Terminates
