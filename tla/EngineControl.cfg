SPECIFICATION FairSpec
CONSTANTS
  p1 = p1  p2 = p2  p3 = p3  p4 = p4  a1 = a1  a2 = a2  h1 = h1  h2 = h2  h3 = h3
  None = None
  URL <- PairURL
  Host = {h1, h2}
  HostOf <- PairHost
  Links <- PairLinks
  Allowed <- PairURL
  Seeds = {p1}
  Asset = {}
  FalsePositive = {p1, p2}
  MaxDepth = 2
  MaxTotalURLs = 9
  MaxURLsPerHost = 0
  MaxQueueSize = 9
  Concurrency = 1
  AssetConcurrency = 1
  HostConcurrency = 1
  MaxRetries = 2
  MaxResumers = 2
  ApiEnabled = TRUE
INVARIANTS TypeOK NoLostResume PauseTakesHold
PROPERTIES StopEndsCrawl EndsUnlessPaused
