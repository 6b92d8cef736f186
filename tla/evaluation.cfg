\* One run of up to two cases, with imports and restarts of both services between.
CONSTANTS
  Lifespan = lifespan
  Retries = 1
  asked = asked
  vague = vague
  refund = refund
  other = other
  run1 = run1
  c1 = c1
  c2 = c2
  d1 = d1
  d2 = d2
  handbook = handbook
  untitled = untitled
  MetaTitle <- MCMetaTitle
  Question = {asked, vague}
  Content = {refund, other}
  Match <- MCMatch
  RerankTopK = 3
  Threshold = 7000
  Query <- MCQuery
  Request <- MCRequest
  Batch <- MCBatch
  Suite <- MCSuite
  SampleCase <- MCSampleCase
  TopK = 2
  Probe = {}
  Unsteady = FALSE
  Run = {run1}
  User = {}
SPECIFICATION EvalFairSpec
INVARIANTS EvalTypeOK PointsAreEarned
PROPERTIES ImplementsRunLog RunsEnd
