CONSTANTS
  imp = imp
  scan = scan
  list = list
  repair = repair
  h1 = h1
  s1 = s1
  Shelf = Shelf
  None = None
  Tasks <- ListTasks
  Kind <- ListKind
  FilesOf <- ListFilesOf
  Dir <- ListDir
  Root <- ListRoot
  Videos <- OneVideo
  Archives = {}
  Parsed <- OneNumber
  Hints <- OneHint
  Match <- ListMatch
  Names <- NoNames
  Seasonal = {}
  WeakFolders = {}
  MaxAnime = 1
  MaxRestarts = 0
SPECIFICATION FairSpec
PROPERTY AutoScanRescans
CHECK_DEADLOCK FALSE
