\* Two threads on one connection.
SPECIFICATION DrainedSpec
CONSTANTS
  Threads = {t1, t2}
  NoThread = NoThread
  MaxId = 2
  Fragments = 2
  PeerSays = {"data", "ping", "close"}
  MaxInbox = 1
VIEW WithoutResults
PROPERTY ClosedCallsReturn
PROPERTY WritesReturn
