SPECIFICATION GateSpec
CONSTANTS
  d1 = d1  d2 = d2  r1 = r1  r2 = r2  i1 = i1  i2 = i2  x1 = x1
  \* Autonomy and AgentLoop
  NoId = NoId
  NoRequest = NoRequest
  NoRun = NoRun
  NoPlan = NoPlan
  SensitiveRoles <- MCSensitiveRoles
  TaggedRoles = {"pets"}
  Requests <- AllRequests
  SettingsRows <- AllRows
  GateRequests <- MCGateRequests
  GateRows <- MCGateRows
  LoopRequests <- MCRequests
  LoopRows <- MCSettingsRows
  Runs = {x1}
  Callers = {d1, d2}
  Resolvers = {r1, r2}
  ActionIds = {i1, i2}
  Plans <- MCPlans
  MaxSteps = 2
  ResultKinds <- MCPlainResults
  DbFaults = TRUE
  Crashes = TRUE
SYMMETRY ThreadSymmetry
INVARIANTS
  GateTypeOK UnapprovedSendsPermitted ProcessedStaysClosed LogIsTruthful DecidedAtMostOnce
  TaintRule RunIsTruthful RunKeepsItsBounds
PROPERTY RowsOnlyGrow
CHECK_DEADLOCK FALSE
