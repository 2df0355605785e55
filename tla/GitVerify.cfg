\* Repositories stored in every way, clean, edited or damaged; a few are edited
\* three times, by a user or by Git, while they are verified.
SPECIFICATION Spec
CONSTANTS
    Named <- MCNamed
    Trees <- MCTrees
    Requests <- MCRequests
    Writes <- MCWrites
    Removals <- MCRemovals
    Heads <- MCHeads
    Branches <- MCBranches
    Indexes <- MCIndexes
    MaxEdits = 3
    MaxReferences = 3
    MaxDepth = 3
    MaxEntries = 4
    MaxPacks = 2
    MaxObject = 5
    MaxFile = 4
    TotalBudget = 26
    FirstOffset = 2
    MaxWord = 255
    Radix = 4
    HeaderRadix = 2
    ByteRadix = 4
    SmallOffsets = 32
    WholeCopy = 4
INVARIANTS
    TypeOK
    QuietIsExact
    AcceptedWasThere
CHECK_DEADLOCK FALSE
