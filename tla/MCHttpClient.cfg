\* One request with a body of two bytes; three goroutines send, read and close.
SPECIFICATION GoSpec
CONSTANTS
  r1 = r1
  c1 = c1
  u1 = u1
  u2 = u2
  u3 = u3
  Threads = {u1, u2, u3, c1}
  NoThread = NoThread
  NoRequest = NoRequest
  MaxId = 2
  BodyLen = 2
  MaxRead = 1
  Requests = {r1}
  Callback <- TheCallback
SYMMETRY CallersAlike
INVARIANT CausesNotSymptoms
INVARIANT NothingLeaks
INVARIANT ClosedMeansReleased
PROPERTY BodiesKeepContract
