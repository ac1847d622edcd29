SPECIFICATION Spec
CONSTANTS
  Absent = Absent
  Work = {w1}
  Resource = {r1, r2}
  BuiltIn = {r1}
  Content = {a}
  MaxConcurrent = 1
  FaultyCalls <- MostCalls
  Tampering = {"deleteObject", "deleteAppliedWork"}
  Creates = 2
  Edits = 1
  Deletes = 1
  Faults = 1
  Crashes = 1
  Tampers = 1
  Budget <- MCBudget
PROPERTIES
  EventuallyReflected
  DeletionCleansUp
CHECK_DEADLOCK FALSE
