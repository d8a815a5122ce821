SPECIFICATION Spec
CONSTANTS
  c1 = c1  c2 = c2  r1 = r1  r2 = r2  i1 = i1  i2 = i2
  NoId = NoId
  NoRequest = NoRequest
  SensitiveRoles <- MCSensitiveRoles
  TaggedRoles <- MCTaggedRoles
  Callers = {c1}
  Resolvers = {r1, r2}
  ActionIds = {i1}
  Requests <- MCOneRequest
  SettingsRows <- MCSemiRows
  DbFaults = FALSE
  Crashes = FALSE
PROPERTIES RejectedIsCancelled
