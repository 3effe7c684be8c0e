CONSTANTS
  r1 = r1
  r2 = r2
  r3 = r3
  a1 = a1
  a2 = a2
  Requests <- MCRequests
  AniListKeys <- Pair
  OtherKeys = {}
  AniListAttempts = 1
  OtherAttempts = 1
  TurnDelay = 2
  BackoffBase = 3
  BackoffStep = 1
  Threshold = 2
  Window = 2
  DegradeCooldown = 2
  MaxTime = 3
SPECIFICATION Spec
INVARIANTS
  TypeOK
  SingleFlight
  TurnsSpaced
PROPERTIES
  PenaltyIsServed
  FallbackNeedsBurst
  ReadThroughSpec
CHECK_DEADLOCK FALSE
SYMMETRY Symmetry
