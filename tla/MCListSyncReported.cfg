CONSTANTS
  e1 = e1
  c1 = c1
  c2 = c2
  t1 = t1
  Entries <- One
  MalIds <- Unknown
  Calls <- TwoCalls
  Retriers <- Retrying
  BatchLimit = 1
  MaxChanges = 2
SPECIFICATION Spec
INVARIANTS
  ReportedQueuedIsQueued
