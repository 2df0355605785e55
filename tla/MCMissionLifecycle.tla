--------------------------- MODULE MCMissionLifecycle ---------------------------
(* Small instances of MissionLifecycle. *)
EXTENDS MissionLifecycle

Document(kind, path) ==
    [kind |-> kind, path |-> path, digest |-> path, role |-> kind, mine |-> "yes",
     status |-> "completed", total |-> 0, ready |-> 0, completed |-> 0,
     final |-> FALSE, attested |-> FALSE, promoter |-> FALSE, slice |-> 0,
     action |-> NoAction]

Wave(d, total, ready, completed) ==
    [d EXCEPT !.total = total, !.ready = ready, !.completed = completed]

\* A wave with work left, one without, and what Atlas and Foundry report of them.
ReadyWave == [Wave(Document("atlas-workgraph", "wave1"), 2, 1, 1) EXCEPT !.action = "node"]
FinishedWave == Wave(Document("atlas-workgraph", "wave2"), 2, 0, 2)
Completed ==
    [Wave(Document("atlas-recommendation-readback", "completed"), 2, 0, 2) EXCEPT
        !.final = TRUE, !.attested = TRUE]
BlockedSynthesis ==
    [Wave(Document("atlas-final-synthesis-readback", "blocked"), 2, 1, 1) EXCEPT
        !.status = "blocked"]
PromotedRollup == Wave(Document("foundry-final-rollup", "rollup"), 2, 0, 2)
RunLink == Document("foundry-run-link", "link")
Wakeup == Document("scheduler-readback", "wakeup")

\* A notice of the scheduler's whose next action is the text of the pause notice.
Recovery ==
    [Document("scheduler-recovery-readback", "recovery") EXCEPT !.action = PauseAction]
Candidate == Document("ao-next-terminal", "candidate")

\* Evidence of the first slice, the same bytes found again at another path for
\* another role, and evidence of the second.
Slice(n, path, digest) ==
    [Document("correlation-evidence", path) EXCEPT
        !.slice = n, !.digest = digest, !.role = path]
FirstSlice == Slice(1, "s1", "e1")
SameSlice == Slice(1, "s1copy", "e1")
OtherFirst == Slice(1, "s1other", "e1other")
SecondSlice == Slice(2, "s2", "e2")

WorkDocuments ==
    {ReadyWave, FinishedWave, Completed, BlockedSynthesis, PromotedRollup, RunLink,
     Wakeup, Recovery, Candidate, FirstSlice, SecondSlice}
SliceDocuments == {FirstSlice, SameSlice, OtherFirst, SecondSlice}
=============================================================================
