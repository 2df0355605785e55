--------------------------- MODULE MCTerminalImport ---------------------------
(* Evidence for TerminalImport: a mission of two nodes and a lease of 2 to 4     *)
(* minutes, with documents that agree, lag behind or contradict one another.     *)
EXTENDS TerminalImport

Of(mission) == [NoObservation EXCEPT !.mission = mission]
Leased(minimum, target, maximum) ==
    [Of(1) EXCEPT !.minimumNodes = 2, !.minimumSet = TRUE, !.minimum = minimum,
        !.target = target, !.maximum = maximum]
Ended(completed, elapsed) ==
    [Of(1) EXCEPT !.completed = completed, !.elapsed = elapsed, !.final = TRUE]

MCEvidence ==
    [lease |-> {Leased(2, 3, 4), Leased(2, 0, 4), Leased(3, 2, 1), [Of(1) EXCEPT !.target = 3]},
     root |-> {[Of(1) EXCEPT !.ready = 2, !.next = "work"],
               [Of(1) EXCEPT !.completed = 1, !.ready = 1, !.minimumNodes = 3,
                    !.minimumSet = TRUE, !.minimum = 1, !.maximum = 9],
               [Of(2) EXCEPT !.ready = 2]},
     duration |-> {[Of(1) EXCEPT !.elapsed = 3, !.completed = 2],
                   [Of(1) EXCEPT !.minimumSet = TRUE, !.minimum = 1,
                        !.next = "wait"]},
     terminal |-> {Ended(2, 3), Ended(2, 1), Ended(2, 5), Ended(0, 3),
                   [Ended(1, 3) EXCEPT !.failed = 1], [Ended(1, 3) EXCEPT !.ready = 1],
                   [Ended(2, 3) EXCEPT !.next = "work"], [Ended(2, 3) EXCEPT !.final = FALSE],
                   [Ended(2, 3) EXCEPT !.leaseStatus = "minimum_not_met"],
                   [Ended(2, 3) EXCEPT !.safe = FALSE], [Ended(3, 3) EXCEPT !.minimumNodes = 1]},
     session |-> {Of(0)}]

Symmetry == Permutations(Importers)
=============================================================================
