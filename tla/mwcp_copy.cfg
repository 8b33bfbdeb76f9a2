SPECIFICATION FairSpec
CONSTANTS
  src = src
  sub = sub
  f1 = f1
  f2 = f2
  f3 = f3
  pipe = pipe
  Workers = {w1, w2}
  Manager = manager
  Main = main
  NoThread = nothread
  NoFile = nofile
  Size = 2
  Root = src
  Names <- TreeNames
  Kind <- TreeKind
  Parent <- TreeParent
  Chunks <- TreeChunks
  Faults = {"open", "mkfifo", "write"}
  SignalThreads = {w1, manager}
  HasBarrier = TRUE
INVARIANT TypeOK
INVARIANT AllCopied
INVARIANT TotalsAtBarrier
PROPERTY ImplementsQueue
PROPERTY Terminates
CHECK_DEADLOCK FALSE
