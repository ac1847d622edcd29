SPECIFICATION SafeSpec
CONSTANTS
  Absent = Absent
  Work = {w1}
  Resource = {r1, r2}
  BuiltIn = {r1}
  Content = {a}
  MaxConcurrent = 1
  FaultyCalls <- AllCalls
  Tampering = {}
  Creates = 1
  Edits = 0
  Deletes = 0
  Faults = 1
  Crashes = 0
  Tampers = 0
  Budget <- MCBudget
INVARIANTS
  NeverForgotten
CHECK_DEADLOCK FALSE
