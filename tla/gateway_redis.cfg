\* Redis reachable at start, rejecting commands, then possibly lost; chat completions
\* and health checks.
CONSTANTS
  Req = {r1, r2}
  User = {u1}
  Payload = {chat, get}
  chat = chat
  stream = stream
  embed = embed
  get = get
  Kind <- KindOf
  Limit = 1
  MaxCost = 1
  MaxMonth = 1
  RedisDeployed = TRUE
SPECIFICATION FairSpec
PROPERTIES Answered ImplementsSpendControl
