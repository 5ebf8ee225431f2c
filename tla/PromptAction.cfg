CONSTANTS
  ActionId = {a1, a2, a3}
  None = None
  MaxTracked = 2
  MaxPending = 1
  MaxGeneration = 2
SPECIFICATION FairSpec
INVARIANTS
  PreviewExpected
PROPERTIES
  Promise
  OperationsSettle
