SPECIFICATION Spec
CONSTANTS
  p1 = p1
  p2 = p2
  t1 = t1
  t2 = t2
  t3 = t3
  b1 = b1
  b2 = b2
  b3 = b3
  Process <- TwoProcesses
  NoPid = NoPid
  Thread <- TwoThreads
  ThreadProc <- OneEach
  EventThread = EventThread
  Block <- OneBlock
  NoBlock = NoBlock
  BlockOwner <- OwnerOfOne
  ValidElf <- OneBlock
  MapId = {m1}
  NoMap = NoMap
  NoArg = NoArg
  ArgForms <- BlockOrNone
  CommHeapSize = 512
  CommParamSize = 12
  MaxNest = 2
  Exclusive <- NoDiscipline
  Disciplined = FALSE
INVARIANTS
  TypeOK
  SuspendLockReleased
  DeadOwnerCleaned
