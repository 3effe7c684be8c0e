CONSTANTS
  scan = scan
  again = again
  import = import
  repair = repair
  list = list
  page = page
  mangas = mangas
  s1 = s1
  hA = hA
  hB = hB
  lib = lib
  A = A
  OVA = OVA
  M = M
  c1 = c1
  c2 = c2
  r1 = r1
  m1 = m1
  k1 = k1
  a1 = a1
  t1 = t1
  t2 = t2
  gg = gg
  pahe = pahe
  None = None
  Tasks <- MCTasks
  Kind <- MCKind
  FilesOf <- MCFilesOf
  Dir <- MCDir
  Root <- MCRoot
  Videos <- MCVideos
  Archives = {9}
  Parsed <- MCParsed
  Hints <- MCHints
  Match <- MCMatch
  Names <- MCNames
  Seasonal = {}
  WeakFolders <- MCWeak
  MaxAnime = 2
  MaxRestarts = 1
  Kinds = {"plain", "chapters", "snapshot", "search", "detail"}
  Callers = {c1, c2}
  Refreshers = {r1}
  MaxKeyCalls = 3
  MaxKeyRestarts = 1
  Manga = {m1}
  AniListIds = {a1}
  MangaChapters = {k1}
  Of <- MCOf
  Lookups = {t1, t2}
  Confidence = {1, 2}
  MaxLookups = 2
  Viewers = {c1}
  Sources = {gg, pahe}
  ShortLived = {gg}
  Probed = {pahe}
  Offers <- MCOffers
  Wishes <- MCWishes
  Limit = 2
  MaxOpens <- MCMaxOpens
  Nothing = Nothing
  p1 = p1
  p2 = p2
  ok = ok
  za = za
  dd = dd
  mg = mg
  jk = jk
  ta = ta
  tb = tb
  j1 = j1
  v1 = v1
  v2 = v2
  d1 = d1
  d2 = d2
  d3 = d3
  e1 = e1
  e2 = e2
  e3 = e3
  e4 = e4
  w1 = w1
  f1 = f1
  f2 = f2
  n1 = n1
  n2 = n2
  n3 = n3
  b1 = b1
  b2 = b2
  i1 = i1
  i2 = i2
  i3 = i3
  i4 = i4
  x1 = x1
  x2 = x2
  Absent = Absent
  MatchCalls = {f1, f2}
  MatchEntries = {x1, x2}
  MatchItems = {i1, i2, i3, i4}
  TitleForms <- MCTitleForms
  Expand <- MCExpand
  Decorated <- MCDecorated
  NameBudget = 2
  ItemTitle <- MCItemTitle
  ItemNames <- MCItemNames
  EntryNames <- MCEntryNames
  SameYear <- MCSameYear
  Finds <- MCFinds
  Tables <- MCTables
  MaxAsks = 2
  Labels = {n1, n2}
  Labellings <- MCLabellings
  Media = {i1, i2, i3, i4}
  Anonymous = {i4}
  MediaRank <- MCMediaRank
  PerPage = 2
  MediaPages <- MCMediaPages
  MediaGrade <- MCMediaGrade
  OfSeason = {i1}
  Shelves = {n1, n2}
  Quarters <- MCQuarters
  ThisYear = 2
  Fields = {"title", "cover", "length"}
  AnimeFills = {"cover", "length"}
  MangaFills = {"cover"}
  People = {w1, f1, f2}
  Casts <- MCCasts
  CastLimit = 2
  Playing = {d1, d2}
  Resolving = {d3}
  Urls <- MCUrls
  KnownPages = {p1, p2, ok, za, dd, mg, jk}
  Trackers = {ta, tb}
  Junk = {j1}
  Wraps <- MCWraps
  HostOf <- MCHost
  PageShows <- MCShows
  PageVideos <- MCPageVideos
  PageLoads <- MCLoads
  FlvCalls = {f1, f2}
  FlvShows <- MCFlvShows
  FlvRank <- MCRank
  Parallel = 2
  AvEpisodes <- MCAvEpisodes
  Internal = {n1}
  Hls = {e1, e3}
  Deferred = {e4}
  AvStreams = {v1, v2}
  Qualities = {720, 1080}
  KaiServers <- MCKaiServers
  Watch = w1
  Plays <- MCPlays
  KaiTries = 2
  Enough = 2
  NinServers = {n1, n2, n3}
  NinEmbeds = {e1, e2, e3, e4}
  NinPages <- MCNinPages
  Foreign = {e4}
  NinTries = 2
  JkHints <- MCJkHints
  JkLists <- MCJkLists
  MaxPages = 2
  JkItems <- MCJkItems
  JkUrl <- MCJkUrl
  JkEmbeds <- MCJkEmbeds
  JkPriority <- MCJkPriority
  JkStreams = {v1, v2}
  JkDownloads <- MCJkDownloads
  JkHostRank <- MCJkPriority
  Mediafire = {b1, b2}
  GgPages <- MCGgPages
  GgEmbeds = {e1, e2}
  GgMedia = {v1, v2}
  GgListed <- MCGgListed
  GgInferred <- MCGgInferred
  GgQualities = {0, 480}
  Gated = {v1}
  Manifests = {v2}
SPECIFICATION MCSpec
INVARIANTS
  NotAllOneNumber
  ResultsSurviveMisses
  AnswersAreBehind
  NothingIsLeftUntried
  ChoicesAreRight
PROPERTIES
  WatchedIsKept
  MangaKnowledgeIsKept
  BestIsPlayed
CHECK_DEADLOCK FALSE
