SPECIFICATION Spec
CONSTANTS
  j1 = j1
  j2 = j2
  Job = {j1, j2}
  Reader = {r1}
  TypeOf <- MCTypes
  Countries = 1
  Faults = {"db", "crash", "delete"}
INVARIANTS
  TypeOK
  RowTrailsRunner
  OutcomeFields
  ShownOutcomeIsFinal
PROPERTY ImplementsLifecycle
CHECK_DEADLOCK FALSE
