SPECIFICATION Spec
CONSTANTS
  c1 = c1
  c2 = c2
  NoCall = NoCall
  Calls <- MCCalls
  MaxCancels = 4
INVARIANTS
  TypeOK
  CalledOnce
  ClosedBeforeReturn
  NothingSwallowed
  CloseFailureReported
PROPERTIES
  EveryCallEnds
CHECK_DEADLOCK FALSE
