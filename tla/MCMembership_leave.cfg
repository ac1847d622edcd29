SPECIFICATION MSafeSpec
CONSTANTS
  Absent = Absent
  Work = {w1}
  Resource = {r1}
  BuiltIn = {r1}
  Content = {a}
  MaxConcurrent = 1
  FaultyCalls = {}
  Tampering = {}
  MaxLeaves = 1
  Creates = 1
  Edits = 0
  Deletes = 0
  Faults = 0
  Crashes = 0
  Tampers = 0
  Budget <- MCBudget
INVARIANTS
  LeaveRemovesAll
CHECK_DEADLOCK FALSE
