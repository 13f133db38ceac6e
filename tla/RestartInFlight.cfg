SPECIFICATION RestartSpec
CONSTANTS
  p1 = p1  p2 = p2  h1 = h1
  None = None  NoFile = NoFile
  URL <- PairURL
  Host = {h1}
  HostOf <- PairHost
  Links <- PairLinks
  Allowed <- PairURL
  Seeds = {p1}
  Asset = {}
  FalsePositive = {}
  MaxDepth = 2
  MaxTotalURLs = 9
  MaxURLsPerHost = 0
  MaxQueueSize = 9
  Concurrency = 1
  AssetConcurrency = 1
  HostConcurrency = 2
  MaxRetries = 1
  MaxResumers = 0
  ApiEnabled = FALSE
  MaxRuns = 2
INVARIANT NothingInFlightLost
