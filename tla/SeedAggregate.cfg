INIT CaptureInit
NEXT CaptureNext
CONSTANTS
  Page = {p1, p2}
  Seed = p1
  Resource = {u1}
  Route = {route}
  Fetchable = {u1}
  MaxSeen = 1
  MaxResources = 1
  NoPage = NoPage
  Interceptor = {i1, i2}
  NoInterceptor = NoInterceptor
PROPERTY SeedWins
CHECK_DEADLOCK FALSE
