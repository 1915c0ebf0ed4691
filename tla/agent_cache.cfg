CONSTANTS
  r1 = r1  r2 = r2  r3 = r3  r4 = r4
  d1 = d1  d2 = d2  d3 = d3  q1 = q1  q2 = q2  good = good  bad = bad
  Requests = {r1, r2, r3, r4}
  Docs = {d1, d2, d3}
  Queries = {q1, q2}
  Tokens = {good, bad}
  token = good
  Missing = Missing
  Empty = Empty
  None = None
  Messages <- LRUMessages
  Unpreparable = {}
  Failing <- NoFailing
  Digests = {d1, d2, d3}
  Digest <- NamedDigest
  MaxEntries = 2
  PoolThreads = 2
  ThreadLimit = 4
SYMMETRY CacheSymmetry
SPECIFICATION Spec
INVARIANT LeftoversBounded
PROPERTY NeverReplaced
PROPERTY LeastRecentlyUsed
