SPECIFICATION Spec
CONSTANTS
  s1 = s1
  s2 = s2
  TaskName <- TwoTasks
  Text <- TwoTexts
  NoEntry = NoEntry
  NoJob = NoJob
  Torn = Torn
  Connector = {w1, w2}
  MaxBeats = 3
  NoConnector = NoConnector
  User = {u1, u2}
  Sender = {m1, m2}
  MaxDue = 2
  Call = {c1, c2}
  t1 = t1
  v1 = v1
  v2 = v2
  Tool <- OneTool
  Server <- TwoServers
  ServerOf <- Servers
  Sensitive <- OneTool
  Blocked = {}
  Schema <- ThreeSchemas
  Empty = 0
  SchemaRisk <- Risks
  DescriptionRisk <- TwoRisks
  MaxPending = 1
  NoSchema = NoSchema
  NoTool = NoTool
  Conn = {k1, k2, k3}
  ClientId = {i1, i2}
  NoConn = NoConn
  NoId = NoId
  MaxFailed = 2
INVARIANTS TypeOK EnabledAreScheduled SessionsAreTimed OneSchemaPerTool OwnUnlessShared SavedUnlessFailed
PROPERTY DisconnectEnds
