SPECIFICATION Spec
CONSTANTS
  Clients = {c1, c2, c3}
  None = None
  Faults = {"io", "crash"}
SYMMETRY Symmetry
INVARIANTS TypeOK SidecarsMatch NeverStuck
PROPERTY OperationsAreAtomic
