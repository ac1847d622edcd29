SPECIFICATION SafeSpec
CONSTANTS
  Absent = Absent
  Work = {w1, w2}
  Resource = {r1}
  BuiltIn = {r1}
  Content = {a}
  MaxConcurrent = 2
  FaultyCalls = {}
  Tampering = {}
  Creates = 2
  Edits = 2
  Deletes = 0
  Faults = 0
  Crashes = 0
  Tampers = 0
  Budget <- MCBudget
SYMMETRY Symmetry
PROPERTIES
  SharedIsKept
CHECK_DEADLOCK FALSE
