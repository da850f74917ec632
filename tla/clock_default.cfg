SPECIFICATION Spec
CONSTANTS
  p1 = p1
  p2 = p2
  t1 = t1
  t2 = t2
  t3 = t3
  Process <- TwoProcesses
  NoPid = NoPid
  Thread <- ThreeThreads
  ThreadProc <- PairAndOne
  EventThread = EventThread
  Requested <- SomeClocks
  Disciplined = TRUE
  ResetsFirst = FALSE
INVARIANTS
  DefaultUntilSet
