\* Three threads on one connection of one client, or two clients: a data
\* writer, a control writer and a reader, or any of them and a closer.
SPECIFICATION Spec
CONSTANTS
  Threads = {t1, t2, t3}
  NoThread = NoThread
  MaxId = 2
  Fragments = 2
  PeerSays = {"data", "ping", "close"}
  MaxInbox = 1
SYMMETRY Permuted
VIEW WithoutResults
INVARIANT MessagesWhole
INVARIANT ControlsComeNext
INVARIANT RegistryInv
INVARIANT ConnInv
PROPERTY PeerCloseDelivered
PROPERTY WritesSpareClose
PROPERTY TableSpec
