\* Two goroutines on one client and one connection. To this package a ping
\* is a message like data, and any control frame it writes like a Close.
SPECIFICATION GoSpec
CONSTANTS
  u1 = u1
  u2 = u2
  c1 = c1
  c2 = c2
  Threads = {u1, u2, c1, c2}
  NoThread = NoThread
  MaxId = 2
  Fragments = 1
  PeerSays = {"data", "close"}
  MaxInbox = 1
  Callback <- Two
  Methods = {"read", "write", "close"}
SYMMETRY Alike
INVARIANT CausesNotSymptoms
INVARIANT NothingLeaks
PROPERTY SuccessKeepsConn
PROPERTY CancelledIsShut
PROPERTY PeerCloseSurvives
