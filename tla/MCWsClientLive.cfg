\* Two goroutines, and a peer that says nothing and can vanish.
SPECIFICATION GoFairSpec
CONSTANTS
  u1 = u1
  u2 = u2
  c1 = c1
  c2 = c2
  Threads = {u1, u2, c1, c2}
  NoThread = NoThread
  MaxId = 2
  Fragments = 1
  PeerSays = {}
  MaxInbox = 1
  Callback <- Two
  Methods = {"read", "write"}
PROPERTY CancelledCallsReturn
PROPERTY ClientCloseFrees
