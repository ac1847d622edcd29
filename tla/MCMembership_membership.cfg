SPECIFICATION MSpec
CONSTANTS
  Absent = Absent
  Work = {w1}
  Resource = {r1}
  BuiltIn = {r1}
  Content = {a, b}
  MaxConcurrent = 1
  FaultyCalls <- MostCalls
  Tampering = {}
  MaxLeaves = 2
  Creates = 1
  Edits = 1
  Deletes = 1
  Faults = 1
  Crashes = 1
  Tampers = 0
  Budget <- MCBudget
INVARIANTS
  MembershipTypeOK
  LeaveIsClean
  FinalizerGuardsAppliedWork
PROPERTIES
  Rejoined
CHECK_DEADLOCK FALSE
