INIT MCInit
NEXT MCNext
CONSTANTS
  p1 = p1  p2 = p2  u1 = u1  u2 = u2  u3 = u3  v1 = v1  v2 = v2
  r1 = r1  r2 = r2  r3 = r3  r4 = r4  a1 = a1  a2 = a2  a3 = a3  a4 = a4
  f1 = f1  f2 = f2  f3 = f3  s1 = s1  m1 = m1  m2 = m2
  Browser = {b1, b2, b3}
  PoolSize = 2
  NoBrowser = NoBrowser
  Page = {p1, p2}
  Seed = p1
  Resource = {u1, u2, u3}
  Fetchable = {u1, u2}
  Route = {route}
  MaxResources = 2
  MaxSeen = 2
  NoPage = NoPage
  Interceptor = {i1}
  NoInterceptor = NoInterceptor
  Record = {r1, r2, r3}
  MaxRecords = 2
  CacheURL = {u1, u2}
  MaxETag = 2
  SnapURL = {v1, v2}
  SafeName <- MCSafeName
  HTML = {"x", "y"}
  MaxSnapshots = 2
  MaxSecond = 3
  Caller = {c1, c2}
  Limiter = {1, 2}
  Burst = 1
  BaseDelay = 1
  MinDelay = 1
  MaxDelay = 2
  MaxIdle = 1
  Token = 2
  NoLimiter = NoLimiter
  Reserver = {r1, r2, r3, r4}
  MaxBytes = 3
  Bytes <- MCBytes
  RingItem = {x, y}
  RingSize = 3
  LruKey = {1, 2, 3, 4}
  LruSize = 3
  LruHead = head
  LruTail = tail
  Asset = {a1, a2, a3, a4}
  Body = {"x", "y"}
  BodyOf <- MCBodyOf
  PathOf <- MCPathOf
  Collides = {}
  Script = {a1}
  MaxAgain = 1
  MaxHashes = 1
  NoFile = NoFile
  Request = {q1, q2, q3, q4}
  Downloader = {d1, d2}
  ChanSize = 1
  NoRequest = NoRequest
  Name = {"a", "b", "a..b", "%61", "%2E.", "a%2F", "%7E", "~", "a%", "a?b"}
  Dotted = {"b", "a..b", "%2E."}
  Twice = {"a..b"}
  Escape <- MCEscape
  Broken = {"a%"}
  Before <- MCBefore
  Tilde <- MCTilde
  MaxSegments = 4
  MaxLines = 5
  Pattern <- MCPattern
  Visitor = {p1, p2}
  Refresh = {t1, t2, t3}
  Lifetime = 2
  RetryCount = 2
  ParsesFound = TRUE
  NoToken = NoToken
  NoRefresh = NoRefresh
  Nobody = Nobody
  PageFile = {f1, f2, f3}
  Sheet = {s1}
  Media = {m1, m2}
  IndexPage = {f1, f3}
  Refs <- MCRefs
  Extends <- MCExtends
  ByQuery = {m2}
  DocOf <- MCDocOf
  WeightOf <- MCWeightOf
  NoisePage = {f3}
  PathOrder <- MCPathOrder
  Job = {job}
  Cron <- MCCron
  MaxStarts = 2
  MaxTick = 26
  Ticks = 2
  Minutes = 2
  Hours = 2
  Days = 2
  Months = 2
  Weekdays = 3
CONSTRAINT Bounds
INVARIANTS
  NoOrphanBrowser SeenIsHandled
  ArchiveComplete CacheNotStale HistoryTrue RateRespected BudgetExact StructuresKeepOrder
  StoredAndMapped NoRequestLost RulesAgree GroupsCount SpentOnce LinksLead JobsKeepTime
CHECK_DEADLOCK FALSE
