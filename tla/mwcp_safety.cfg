SPECIFICATION Spec
CONSTANTS
  src = src
  sub = sub
  f1 = f1
  f2 = f2
  f3 = f3
  pipe = pipe
  Workers = {w1, w2}
  Manager = manager
  Main = main
  NoThread = nothread
  NoFile = nofile
  Size = 1
  Root = src
  Names <- PairNames
  Kind <- PairKind
  Parent <- PairParent
  Chunks <- PairChunks
  Faults = {"malloc", "lstat", "opendir", "mkdir", "open", "mkfifo", "read", "write"}
  SignalThreads = {w1, w2, manager, main}
  HasBarrier = FALSE
INVARIANT Custody
INVARIANT LeakAtMostOne
INVARIANT MutexOwner
INVARIANT NoMissedWakeup
CHECK_DEADLOCK FALSE
