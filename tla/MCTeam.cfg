SPECIFICATION FairSpec
CONSTANTS
  r1 = r1
  r2 = r2
  t1 = t1
  Request <- TwoRequests
  Nobody = Nobody
  NoPlan = NoPlan
  NoTask = NoTask
  Shared = TRUE
  TaskId = {t1}
  Registries <- AllOrOne
  Intents <- SomeIntents
INVARIANTS TypeOK UsageIsOwn PlanOfItsChain
PROPERTY TasksSettle
