SPECIFICATION Spec
CONSTANTS
  p1 = p1  p2 = p2  t1 = t1  e1 = e1  cron = cron
  NoProc = NoProc
  None = None
  Procs = {p1, p2}
  Enabled = {p1, p2}
  MaxFaults = 1
  Ids = {t1}
  Editors = {e1}
  Minutes = {2}
  Crons = {cron}
  Slots <- MCSlots
  Day = 4
  MaxNow = 4
  MaxEdits = 0
  Stall = TRUE
INVARIANT SlotFiredOnce
