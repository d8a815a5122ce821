SPECIFICATION Spec
CONSTANTS
  p1 = p1  p2 = p2  g1 = g1  f1 = f1  f2 = f2  h1 = h1  h2 = h2
  NoProc = NoProc
  None = None
  Procs = {p1, p2}
  Enabled = {p1, p2}
  MaxFaults = 0
  Grants = {g1}
  Paths = {f1}
  Hashes = {h1}
  MaxFiles = 1
  MAX_FAILURES = 1
  AutoApprove = FALSE
  DeleteRemoved = TRUE
  MaxDocs = 3
  MaxEdits = 0
INVARIANT IngestedOnce
