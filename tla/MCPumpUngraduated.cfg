SPECIFICATION Spec
CONSTANTS
  Kinds <- MCKinds
  Fetchers = {f1}
  MaxDropped = 0
INVARIANT ProvenPhaseIsMirrored
CHECK_DEADLOCK FALSE
