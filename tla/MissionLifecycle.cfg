SPECIFICATION Spec
CONSTANTS
  c1 = c1
  None = None
  Callers = {c1}
  Documents <- WorkDocuments
  InitialRoutes = {"ao-atlas"}
  DefaultMinNodes = 2
  LeaseMinimums = {0, 1}
  Keeps = {1}
  MaxIterations = 2
  MaxOperations = 5
INVARIANTS TypeOK AllowedIsEarned FinalReadyIsComplete SlicesInOrder
PROPERTIES ActiveIsResumable HaltHolds ResumeRestores
CHECK_DEADLOCK FALSE
