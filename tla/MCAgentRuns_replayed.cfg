\* Two resumes of one run, which asks for two approvals.
SPECIFICATION AgSpec
CONSTANTS
  Threads = {t1, t2}
  RunIds = {1}
  RootRuns = {1}
  Calls = {"send", "post"}
  Taints = {}
  Outbound = {"send", "post"}
  AlwaysAsk = {"send", "post"}
  Delegates = {}
  StepLimit = 2
  MaxDepth = 1
  MaxDelegations = 1
  MaxChildSteps = 1
  MaxSaveFaults = 0
  NoRun = NoRun
  NoCall = NoCall
INVARIANT NoReplay
CHECK_DEADLOCK FALSE
