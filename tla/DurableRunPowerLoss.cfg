SPECIFICATION PowerSpec
CONSTANTS
  NumEffects = 1
  Authorities = {a1}
  Reports = {pass}
  Records = {okRecord}
  NoDoc = NoDoc
  MaxProcs = 2
  Overlap = {}
  Mutating = {1}
  Passing = {pass}
  PassedRecords = {okRecord}
  Obstacles = {"crash"}
INVARIANT ProviderAtMostOnce
