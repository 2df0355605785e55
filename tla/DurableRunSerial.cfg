SPECIFICATION FairSpec
CONSTANTS
  NumEffects = 1
  Authorities = {a1}
  Reports = {pass, fail}
  Records = {okRecord, badRecord}
  NoDoc = NoDoc
  MaxProcs = 3
  Overlap = {}
  Mutating = {}
  Passing = {pass}
  PassedRecords = {okRecord}
  Obstacles = {"crash", "expiry"}
PROPERTIES ExpiryFreezesEffects RecoveryConcludes
