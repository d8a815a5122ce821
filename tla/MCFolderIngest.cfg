SPECIFICATION FairSpec
CONSTANTS
  p1 = p1  p2 = p2  g1 = g1  f1 = f1  f2 = f2  h1 = h1  h2 = h2
  NoProc = NoProc
  None = None
  Procs = {p1}
  Enabled = {p1}
  MaxFaults = 2
  Grants = {g1}
  Paths = {f1, f2}
  Hashes = {h1, h2}
  MaxFiles = 1
  MAX_FAILURES = 2
  AutoApprove = FALSE
  DeleteRemoved = TRUE
  MaxDocs = 4
  MaxEdits = 2
INVARIANTS IngestedOnce ApprovedFirst
PROPERTIES NoGap Converges
