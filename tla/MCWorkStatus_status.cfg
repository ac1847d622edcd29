SPECIFICATION Spec
CONSTANTS
  Object = {x, y}
  Version = {v1}
  Unparsed = Unparsed
  MaxManifests = 3
  MaxTime = 4
  Workloads <- MCWorkloads
INVARIANTS
  TypeOK
  StatusTellsOutcome
  AppliedIsKept
PROPERTIES
  TransitionTimeKept
  DroppedIsDeleted
CHECK_DEADLOCK FALSE
