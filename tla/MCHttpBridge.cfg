\* A client and a call, or two clients; three racing threads.
\* Whoever asks for a third handle finds the handle space exhausted.
SPECIFICATION Spec
CONSTANTS
  Threads = {t1, t2, t3}
  NoThread = NoThread
  MaxId = 2
  BodyLen = 2
  MaxRead = 1
SYMMETRY Permuted
INVARIANT RegistryInv
INVARIANT CallInv
PROPERTY TableSpec
