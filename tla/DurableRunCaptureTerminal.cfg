SPECIFICATION Spec
CONSTANTS
  NumEffects = 1
  Authorities = {a1}
  Reports = {pass, fail}
  Records = {okRecord, badRecord}
  NoDoc = NoDoc
  MaxProcs = 2
  Overlap = {}
  Mutating = {1}
  Passing = {pass}
  PassedRecords = {okRecord}
  Obstacles = {"crash"}
INVARIANT RecoveryPublishesItsReport
