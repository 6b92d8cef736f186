\* Redis reachable: is the monthly limit enforced?
CONSTANTS
  Req = {r1}
  User = {u1}
  Payload = {chat}
  chat = chat
  stream = stream
  embed = embed
  get = get
  Kind <- KindOf
  Limit = 1
  MaxCost = 1
  MaxMonth = 1
  RedisDeployed = TRUE
SPECIFICATION Spec
PROPERTIES RedisEnforcesSpend
