CONSTANTS
  s1 = s1
  s2 = s2
  u1 = u1
  e1 = e1
  l1 = l1
  f1 = f1
  None = None
  Sessions <- TwoSessions
  UiCalls <- OneCall
  Online <- Episode
  Library <- Local
  Files <- File
  Candidates = 1
  Length = 2
  Tail = 0
  Plans <- ThePlans
SPECIFICATION FairSpec
INVARIANTS
  TypeOK
  EndReportedOnce
  NoStrayPlayer
  CompletedIsReached
  LastPositionIsKept
CHECK_DEADLOCK FALSE
PROPERTIES EveryEndIsReported
