\* No Redis: the memory ledger across a change of month, calls of every kind.
CONSTANTS
  Req = {r1, r2}
  User = {u1}
  Payload = {chat, stream, embed, get}
  chat = chat
  stream = stream
  embed = embed
  get = get
  Kind <- KindOf
  Limit = 1
  MaxCost = 1
  MaxMonth = 2
  RedisDeployed = FALSE
SPECIFICATION Spec
INVARIANTS TypeOK BudgetOvershootBounded RecordedWithinPriced
PROPERTIES ImplementsSpendControl
