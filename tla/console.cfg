\* A list, an upload and two requests for a key, with every kind of token.
CONSTANTS
  list = list
  query = query
  upload = upload
  key1 = key1
  key2 = key2
  admin = admin
  viewer = viewer
  Create = {key1, key2}
  Call = {list, upload, query, key1, key2}
  Kind <- MCKind
  Token <- MCToken
  Email = {owner}
  NoToken = notoken
  DemoToken = demotoken
  DevAuth = TRUE
  Demo = demo
  Session <- MCSession
SPECIFICATION ConsoleFairSpec
INVARIANTS ConsoleTypeOK EffectsAuthorized ShownWasAccepted KeysOwned
PROPERTY CallsEnd
