SPECIFICATION FairSpec
CONSTANTS
  r1 = r1  r2 = r2  r3 = r3  r4 = r4
  d1 = d1  d2 = d2  d3 = d3  q1 = q1  q2 = q2  good = good  bad = bad
  Requests = {r1, r2, r3}
  Docs = {d1, d2, d3}
  Queries = {q1, q2}
  Tokens = {good, bad}
  token = good
  Missing = Missing
  Empty = Empty
  None = None
  Messages <- LiveMessages
  Unpreparable = {d3}
  Failing <- LiveFailing
  Digests = {"s1", "s2", "s3"}
  Digest <- MCDigest
  MaxEntries = 1
  PoolThreads = 2
  ThreadLimit = 2
INVARIANT AgentInv
PROPERTY ImplementsService
PROPERTY EveryRequestAnswered
