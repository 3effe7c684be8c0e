CONSTANTS
  e1 = e1
  e2 = e2
  c1 = c1
  t1 = t1
  d1 = d1
  p1 = p1
  k1 = k1
  k2 = k2
  a1 = a1
  o1 = o1
  None = None
  Entries <- Pair
  MalIds <- Unknown
  Calls <- OneCall
  Retriers <- Retrying
  BatchLimit = 1
  MaxChanges = 2
SPECIFICATION MCSpec
PROPERTIES
  CancelStopsWorker
  EveryRowIsTried
  CallsEnd
CHECK_DEADLOCK FALSE
