SPECIFICATION Spec
CONSTANTS
  p1 = p1  p2 = p2  p3 = p3  p4 = p4  a1 = a1  a2 = a2  h1 = h1  h2 = h2  h3 = h3
  None = None
  URL <- TriangleURL
  Host = {h1, h2}
  HostOf <- TriangleHost
  Links <- TriangleLinks
  Allowed <- TriangleURL
  Seeds = {p1}
  Asset = {a1}
  FalsePositive = {}
  MaxDepth = 2
  MaxTotalURLs = 9
  MaxURLsPerHost = 0
  MaxQueueSize = 9
  Concurrency = 2
  AssetConcurrency = 1
  HostConcurrency = 2
  MaxRetries = 1
  MaxResumers = 0
  ApiEnabled = FALSE
INVARIANTS CountersExact MarkedIsQueued
PROPERTY ImplementsFrontier
