SPECIFICATION Spec
CONSTANTS
    Evidence <- MCEvidence
    Importers = {i1, i2}
    MaxChanges = 2
    LastDay = 1
    i1 = i1
    i2 = i2
SYMMETRY Symmetry
INVARIANTS
    DoneMeansDone
    HistoricalIsNotFinal
CHECK_DEADLOCK FALSE
