SPECIFICATION FairSpec
CONSTANTS
  NumEffects = 2
  Authorities = {a1}
  Reports = {pass}
  Records = {okRecord}
  NoDoc = NoDoc
  MaxProcs = 2
  Overlap = {}
  Mutating = {1, 2}
  Passing = {pass}
  PassedRecords = {okRecord}
  Obstacles = {"crash"}
PROPERTY CompletedEffectsAreReused
