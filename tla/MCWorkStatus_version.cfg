SPECIFICATION Spec
CONSTANTS
  Object = {x}
  Version = {v1, v2}
  Unparsed = Unparsed
  MaxManifests = 2
  MaxTime = 2
  Workloads <- MCWorkloads
INVARIANTS
  AppliedIsKept
CHECK_DEADLOCK FALSE
