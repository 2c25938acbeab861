SPECIFICATION Spec
CONSTANTS
  s1 = s1
  s2 = s2
  s3 = s3
  s4 = s4
  ghost = ghost
  CancelledError = CancelledError
  Step <- MCStep
  Name <- MCName
  Plans <- MCPlans
  StepMaxRetries <- MCStepMaxRetries
  MayCancel = {s2}
INVARIANT UnneededFallbackIsHarmless
