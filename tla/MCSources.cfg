CONSTANTS
  t1 = t1
  t2 = t2
  t3 = t3
  x1 = x1
  x2 = x2
  b1 = b1
  b2 = b2
  b3 = b3
  m1 = m1
  m2 = m2
  bg = bg
  None = None
  Threads <- Threads3
  Sources <- Sources2
  Uses <- SameOrNot
  MaxRestarts = 1
  Calls <- Threads2
  Mirrors <- TwoMirrors
  Kind <- ListAndSearch
  LastPage <- TwoAndOne
  Forms = 1
  Parallel = 1
  MaxCookies = 2
  Listers <- Threads2
  Slugs = {m1, m2}
  Wanted <- OneOrBoth
  Browsers = {b1, b2, b3}
  MaxLists <- OneEach
  Readers <- Threads2
  Async = bg
  Chapters = {m1}
  MaxReads <- TwoAndOne
  MaxStarts = 1
  Fans <- Threads2
  Published <- Series
  Teasers <- MayShow
  Listed <- MayList
  MaxSeries <- TwoAndOne
  Searches <- Threads2
  Engines <- Sources2
  Asked <- BothOrOne
  Nothing = Nothing
SPECIFICATION MCSpec
INVARIANTS
  OneSolve
  SessionsSurviveRestart
  RefusedNotResent
  EpisodesAreWhole
  WaitersShare
PROPERTIES
  SliceIsNotList
  EveryCallReturns
CHECK_DEADLOCK FALSE
