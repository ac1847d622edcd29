SPECIFICATION Spec
CONSTANTS
  Absent = Absent
  Work = {w1}
  Resource = {r1, r2}
  BuiltIn = {r1}
  Content = {a}
  MaxConcurrent = 1
  FaultyCalls <- MostCalls
  Tampering = {}
  Creates = 1
  Edits = 2
  Deletes = 0
  Faults = 0
  Crashes = 0
  Tampers = 0
  Budget <- MCBudget
PROPERTIES
  DroppedIsRemoved
CHECK_DEADLOCK FALSE
