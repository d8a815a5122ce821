SPECIFICATION RunningSpec
CONSTANTS
  d1 = d1  d2 = d2  r1 = r1  r2 = r2  i1 = i1  i2 = i2  x1 = x1
  NoId = NoId
  NoRequest = NoRequest
  NoRun = NoRun
  NoPlan = NoPlan
  Requests <- MCRequests
  SensitiveRoles <- MCSensitiveRoles
  TaggedRoles = {}
  SettingsRows <- MCAllRows
  Runs = {x1}
  Resolvers = {r1}
  Callers = {d1, d2}
  ActionIds = {i1, i2}
  Plans <- MCPlans
  MaxSteps = 2
  ResultKinds <- MCPlainResults
  DbFaults = TRUE
  Crashes = FALSE
PROPERTIES DriveEnds ApprovedIsSent
