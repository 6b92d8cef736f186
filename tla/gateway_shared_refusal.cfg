\* No Redis, two users: is a user refused only for the user's own spend?
CONSTANTS
  Req = {r1, r2}
  User = {u1, u2}
  Payload = {chat}
  chat = chat
  stream = stream
  embed = embed
  get = get
  Kind <- KindOf
  Limit = 1
  MaxCost = 1
  MaxMonth = 2
  RedisDeployed = FALSE
SPECIFICATION Spec
INVARIANTS RefusedForOwnSpend
