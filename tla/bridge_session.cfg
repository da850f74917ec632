SPECIFICATION Spec
CONSTANTS
  p1 = p1
  p2 = p2
  t1 = t1
  t2 = t2
  t3 = t3
  b1 = b1
  b2 = b2
  b3 = b3
  Process <- TwoProcesses
  NoPid = NoPid
  Thread <- ThreeThreads
  ThreadProc <- PairAndOne
  EventThread = EventThread
  Block <- TwoBlocks
  NoBlock = NoBlock
  BlockOwner <- OwnerOfEach
  ValidElf <- TwoBlocks
  MapId = {m1, m2}
  NoMap = NoMap
  NoArg = NoArg
  ArgForms <- DocumentedArgs
  CommHeapSize = 512
  CommParamSize = 12
  MaxNest = 2
  Exclusive <- SessionDiscipline
  Disciplined = TRUE
INVARIANTS
  SessionIntact
  PinsBalanced
  ExecInsideSession
  SuspendGuarded
  SuspendLockBalance
  ExitSparesTheLiving
  OneInjection
  SessionInv
PROPERTIES
  SessionSpec
  SessionFrozen
SYMMETRY PairSymmetry
