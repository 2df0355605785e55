--------------------------- MODULE MCIssueRepair ---------------------------
(***************************************************************************)
(* IssueRepair for TLC: interchangeable workers of one lease, as after a    *)
(* restart, and a rival under a lease of its own, whose run has a smaller   *)
(* budget than there are requests.  The clock passes before, at and after   *)
(* the leases' end.                                                         *)
(***************************************************************************)
EXTENDS IssueRepair

CONSTANTS rival, mine, theirs  \* the rival worker, and the two leases

MCLeaseOf == [w \in Workers |-> IF w = rival THEN theirs ELSE mine]
MCExpiry == [l \in Leases |-> 1]
MCBudget == [l \in Leases |-> IF l = theirs THEN 2 ELSE 3]

Symmetry == Permutations(Workers \ {rival}) \cup Permutations(Contents)
=============================================================================
