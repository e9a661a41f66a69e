\* One request: a reader or a Do, and a closer.
SPECIFICATION GoFairSpec
CONSTANTS
  r1 = r1
  c1 = c1
  u1 = u1
  u2 = u2
  u3 = u3
  Threads = {u1, u2, c1}
  NoThread = NoThread
  NoRequest = NoRequest
  MaxId = 2
  BodyLen = 1
  MaxRead = 1
  Requests = {r1}
  Callback <- TheCallback
PROPERTY ContextFreesRequest
PROPERTY CallsComeBack
PROPERTY TableReleases
