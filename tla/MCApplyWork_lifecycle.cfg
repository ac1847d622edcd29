SPECIFICATION SafeSpec
CONSTANTS
  Absent = Absent
  Work = {w1}
  Resource = {r1, r2}
  BuiltIn = {r1}
  Content = {a, b}
  MaxConcurrent = 1
  FaultyCalls <- MostCalls
  Tampering = {"createObject", "editObject"}
  Creates = 2
  Edits = 1
  Deletes = 1
  Faults = 1
  Crashes = 1
  Tampers = 1
  Budget <- MCBudget
INVARIANTS
  TypeOK
  FinalizerGuardsAppliedWork
  AppliedIsTrue
  NeverForgotten
PROPERTIES
  UnmanagedUntouched
  FollowsLifecycle
SYMMETRY ContentSymmetry
CHECK_DEADLOCK FALSE
