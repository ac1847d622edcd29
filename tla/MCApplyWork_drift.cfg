SPECIFICATION Spec
CONSTANTS
  Absent = Absent
  Work = {w1}
  Resource = {r1, r2}
  BuiltIn = {r1}
  Content = {a, b}
  MaxConcurrent = 1
  FaultyCalls <- MostCalls
  Tampering = {"editObject"}
  Creates = 1
  Edits = 0
  Deletes = 0
  Faults = 0
  Crashes = 0
  Tampers = 1
  Budget <- MCBudget
PROPERTIES
  EventuallyReflected
CHECK_DEADLOCK FALSE
