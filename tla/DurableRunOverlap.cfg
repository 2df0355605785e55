SPECIFICATION Spec
CONSTANTS
  NumEffects = 2
  Authorities = {a1, a2}
  Reports = {pass, fail}
  Records = {okRecord, badRecord}
  NoDoc = NoDoc
  MaxProcs = 2
  Overlap = {"live", "recover"}
  Mutating = {1}
  Passing = {pass}
  PassedRecords = {okRecord}
  Obstacles = {"crash", "io", "expiry", "provider", "output", "engine", "effect", "exposure"}
VIEW View
INVARIANTS
  TypeOK
  EffectAtMostOnce
  ProviderAtMostOnce
  PassedIsEarned
  JournalTrailsDisk
  ForksSpareEffects
  VerifierSeesWholeTurn
PROPERTIES
  RefinesPromise
  UnknownIsFinal
