SPECIFICATION Spec
CONSTANTS
  src = src
  sub = sub
  f1 = f1
  f2 = f2
  f3 = f3
  pipe = pipe
  Workers = {w1, w2}
  Manager = manager
  Main = main
  NoThread = nothread
  NoFile = nofile
  Size = 2
  Root = src
  Names <- FlatNames
  Kind <- FlatKind
  Parent <- FlatParent
  Chunks <- FlatChunks
  Faults = {"opendir"}
  SignalThreads = {}
  HasBarrier = TRUE
INVARIANT AllCopied
CHECK_DEADLOCK FALSE
