SPECIFICATION Spec
CONSTANTS
  w1 = w1
  w2 = w2
  t1 = t1
  t2 = t2
  NoToken = NoToken
  Workers <- MCWorkers
  Tokens <- MCTokens
  Lifetimes <- MCLifetimes
  Margin = 4
  Latency = 1
  Hold = 1
INVARIANTS
  TypeOK
  CacheKeepsMargin
  PresentedInTime
  ShortLivedNotShared
PROPERTY
  RevokedLeavesCache
