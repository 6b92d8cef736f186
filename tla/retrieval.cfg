\* One request, two readiness probes, while the database and imports come and go.
CONSTANTS
  Lifespan = lifespan
  Retries = 3
  asked = asked
  vague = vague
  refund = refund
  other = other
  c1 = c1
  c2 = c2
  d1 = d1
  d2 = d2
  handbook = handbook
  untitled = untitled
  MetaTitle <- MCMetaTitle
  Question = {asked, vague}
  Content = {refund, other}
  Match <- MCMatch
  RerankTopK = 3
  Threshold = 7000
  Request <- MCRequest
  Batch <- MCBatch
  Query = {user}
  User = {user}
  Probe = {p1, p2}
  Unsteady = TRUE
SPECIFICATION RetFairSpec
INVARIANTS DbTypeOK ReportedWhileProbing SqlUnreachable
INVARIANTS RetrievalTypeOK CitesWhatItUsed AnswersShareWords
PROPERTIES FullMatchAnswered QueriesEnd ProbesAnswer
