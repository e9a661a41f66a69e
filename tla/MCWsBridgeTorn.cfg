\* Two writers and a closer.
SPECIFICATION Spec
CONSTANTS
  Threads = {t1, t2, t3}
  NoThread = NoThread
  MaxId = 2
  Fragments = 2
  PeerSays = {}
  MaxInbox = 1
SYMMETRY Permuted
INVARIANT FragmentsContiguous
