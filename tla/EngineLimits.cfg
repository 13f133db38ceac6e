SPECIFICATION Spec
CONSTANTS
  p1 = p1  p2 = p2  p3 = p3  p4 = p4  a1 = a1  a2 = a2  h1 = h1  h2 = h2  h3 = h3
  None = None
  URL <- CrowdURL
  Host = {h1, h2, h3}
  HostOf <- CrowdHost
  Links <- CrowdLinks
  Allowed <- CrowdURL
  Seeds = {p1, p2, p3, p4, a1, a2}
  Asset = {a1, a2}
  FalsePositive = {}
  MaxDepth = 2
  MaxTotalURLs = 1
  MaxURLsPerHost = 2
  MaxQueueSize = 9
  Concurrency = 2
  AssetConcurrency = 1
  HostConcurrency = 1
  MaxRetries = 1
  MaxResumers = 0
  ApiEnabled = FALSE
SYMMETRY CrowdSymmetry
INVARIANTS ConcurrencyLimits NoTokenLeak LimitOverrun HostLimitRespected
