SPECIFICATION FairSpec
CONSTANTS
  s1 = s1
  s2 = s2
  s3 = s3
  ghost = ghost
  Step <- MCStep
  Name <- MCName
  DependsOn <- MCDependsOn
  MaxProcesses = 2
INVARIANTS WrittenOffOnlyIfBlocked
PROPERTIES ImplementsContract ProcessEnds
