SPECIFICATION Spec
CHECK_DEADLOCK FALSE
CONSTANTS
  HeaderLen = 2
  ChunkSize = 5
  Streams <- MCStreams
  Vectors <- MCVectors
  Bodies = {0, 1, 7, 8, 9, 100, 3000, 4000}
  ParamLists <- MCParamLists
  ServerSets <- MCServerSets
  LocationSets <- MCLocationSets
  WorkerCounts = {1, 2, 3, 4, 64}
  FdLimits = {4, 64, 256, 1024, 4096, 65536, 131072, 262144, 1048576}
  CacheRequests = 2
  CacheFds = {5, 6}
  CacheSize = 2
  MaxCounter = 4
  FileSizes = {0, 1, 2, 5}
  RangeNums = {0, 1, 4, 5, 6}
  PathBase = 6
  MaxPath = 9
  PathLens = {1, 2, 3, 4, 5, 8}
  ConfigLines <- MCConfigLines
  MaxLines = 4
  Lower <- MCLower
  Monkeys <- MCMonkeys
  HostNames = {"a", "b", "long", "p"}
  LongNames = {"long"}
  SiteSets <- MCSiteSets
  NewSites <- MCNewSites
  MimeCommon = 2
  MimeFiles <- MCMimeFiles
  MimeNames <- MCMimeNames
  MaxAdded = 2
  MaxLine = 7
  HeaderNames = {"host:", "length:", "xlength:", "other:"}
  MaxHeaders = 4
  TocLen = 3
  MaxUri = 6
  Dates = {1, 2, 3}
  GmtCaches = 2
  MaxHits = 3
  Numbers <- MCNumbers
  Blobs <- MCBlobs
  ThemeFiles <- MCThemeFiles
  Directories <- MCDirectories
  DirBuf = 3
  PluginFiles <- MCPluginFiles
  MaxPlugins = 3
  Transports = {"liana", "other", "none"}
  NoTransport = "none"
INVARIANT
  PackagesReceived
  
  Tables
  
  
  
  
