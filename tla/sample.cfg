SPECIFICATION Spec
CONSTANTS
  p1 = p1
  p2 = p2
  Process <- TwoProcesses
  NoPid = NoPid
  NoThread = NoThread
INVARIANTS
  TypeOK
  SessionsWatched
  FaultsOnlyUnstarted
  CommParamOpen
  DrawsMapped
  RunsLeaveNothing
PROPERTIES
  KeepsSession
  OldEnds
  NewGoesOn
