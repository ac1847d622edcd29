SPECIFICATION SafeSpec
CONSTANTS
  Absent = Absent
  Work = {w1, w2}
  Resource = {r1}
  BuiltIn = {r1}
  Content = {a}
  MaxConcurrent = 2
  FaultyCalls = {}
  Tampering = {}
  Creates = 3
  Edits = 1
  Deletes = 2
  Faults = 0
  Crashes = 0
  Tampers = 0
  Budget <- MCBudget
SYMMETRY Symmetry
INVARIANTS
  OwnedOnlyUnderFinalizer
  NeverOrphaned
PROPERTIES
  ReleaseSparesOthers
CHECK_DEADLOCK FALSE
