SPECIFICATION Spec
CONSTANTS
  rival = rival
  mine = mine
  theirs = theirs
  Workers = {w1, w2, rival}
  Leases = {mine, theirs}
  LeaseOf <- MCLeaseOf
  Expiry <- MCExpiry
  Budget <- MCBudget
  Contents = {x, y}
  None = None
  MaxTime = 2
  MaxRequests = 3
SYMMETRY Symmetry
INVARIANTS TypeOK RequestRecordedOnce RepliesAreTrue LostReplyIsRecovered ValidUnlessLateOrRestarted
