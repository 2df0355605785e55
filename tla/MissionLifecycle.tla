--------------------------- MODULE MissionLifecycle ---------------------------
(***************************************************************************)
(* The life of one Mission record: the loop that hands work off, pause,     *)
(* resume and stop, the documents imported into it, its checkpoints, its     *)
(* compaction and the gate that says whether the final response may be       *)
(* given.  Every operation is one transaction of the Mission store, so one   *)
(* step here (MissionStore shows that such a transaction is atomic); the     *)
(* Continue loop is a sequence of them.  Identities, digests of the record   *)
(* itself, timestamps and the reconciliation summary, which no operation     *)
(* reads back, are left out.                                                 *)
(***************************************************************************)
EXTENDS Integers, FiniteSets, Sequences, SequencesExt

CONSTANTS
    Callers,          \* processes that may run the Continue loop
    Documents,        \* the documents that may be imported
    InitialRoutes,    \* the routes an objective may be classified to
    DefaultMinNodes,  \* the lease minimum when no lease says otherwise
    LeaseMinimums,    \* the --min-nodes a caller may ask for, 0 for none
    Keeps,            \* how many entries a compaction may be told to keep
    MaxIterations,    \* bound: the largest --max-iterations of a caller
    MaxOperations,    \* bound: operations that operators ask for
    None

ASSUME BoundsAssumption ==
    /\ DefaultMinNodes \in Nat \ {0}
    /\ LeaseMinimums \subseteq Nat
    /\ Keeps \subseteq Nat \ {0}
    /\ {MaxIterations, MaxOperations} \subseteq Nat

NoAction == ""
PauseAction == "resume mission before continuation"
StopAction == "mission stopped by operator kill switch"
CompleteAction == "mission complete"

\* Kinds of documents by what importing one does to the record.
NoticeKinds == {"blueprint-authorization", "scheduler-readback",
                "scheduler-recovery-readback", "ledger-compaction-readback"}
Kinds == NoticeKinds \cup
         {"atlas-workgraph", "atlas-recommendation-readback",
          "atlas-final-synthesis-readback", "foundry-run-link",
          "foundry-final-rollup", "ao-next-terminal", "correlation-evidence"}

\* A document: where it lies ("path"), its bytes ("digest"), the run or correlation
\* role it is bound to ("role") and what is read out of it.  "attested" stands for
\* the conditions of its closing predicate that no field here tells apart,
\* "slice" for the slice whose evidence it is, 0 for none.
ASSUME DocumentsAssumption ==
    \A d \in Documents :
        /\ d.kind \in Kinds
        /\ d.mine \in {"yes", "no", "unsaid"}
        /\ {d.total, d.ready, d.completed, d.slice} \subseteq Nat
        /\ {d.final, d.attested, d.promoter} \subseteq BOOLEAN

\* No objective is classified as complete.
ASSUME RoutesAssumption == "complete" \notin InitialRoutes

VARIABLES
    mission,      \* the Mission record
    loops,        \* of each caller: what its Continue loop has left to do
    operations,   \* how many operations were asked for, to bound them
    interrupted   \* history: what the last pause interrupted, or None

vars == << mission, loops, operations, interrupted >>

NoGraph == [total |-> 0, ready |-> 0, completed |-> 0]
Idle == [left |-> 0, minNodes |-> 0]
Place(r, a) == [route |-> r, action |-> a]

-----------------------------------------------------------------------------
(* What the record says. *)

Larger(a, b) == IF a > b THEN a ELSE b

CompletedNodes(m) ==
    LET wave == IF m.recommendation = None THEN m.workgraph.completed
                ELSE Larger(m.workgraph.completed, m.recommendation.completed)
    IN  IF m.rollup = None THEN wave ELSE Larger(wave, m.rollup.completed)

ReadyNodes(m) ==
    IF m.recommendation # None THEN m.recommendation.ready ELSE m.workgraph.ready

HardBlocker(m) ==
    \/ m.status = "blocked"
    \/ m.blockers # {}
    \/ m.rollup # None /\ m.rollup.status \in {"blocked", "denied"}

MinNodes(m) == IF m.lease > 0 THEN m.lease ELSE DefaultMinNodes

FinalResponseAllowed(m) ==
    \/ HardBlocker(m)
    \/ /\ ReadyNodes(m) = 0
       /\ \/ m.status = "done"
          \/ /\ m.recommendation = None \/ m.recommendation.final
             /\ CompletedNodes(m) >= MinNodes(m)
             /\ m.action = NoAction

\* The record with its return gate evaluated afresh.
Gated(m) ==
    [m EXCEPT !.gate = IF FinalResponseAllowed(m) THEN "allowed" ELSE "denied"]

\* What the next command of the Mission is.
NextActionForRecord(m) ==
    IF m.contract \/ m.refs # {} THEN Place(m.route, m.action) ELSE m.origin

Logged(m, place, boundary) ==
    [m EXCEPT !.history = Append(@, [place |-> place, boundary |-> boundary])]

Result(name) == [name |-> name, slice |-> 0, digest |-> None]

Checkpoint(m, place, result) == [place |-> place, phase |-> m.phase, result |-> result]

Checkpointed(m, place, result) ==
    [m EXCEPT !.checkpoints = Append(@, Checkpoint(m, place, result))]

MissionInit ==
    \E route \in InitialRoutes, contract \in BOOLEAN :
        mission = [status |-> "active", route |-> route, phase |-> "routing",
                   action |-> "initial", origin |-> Place(route, "initial"),
                   contract |-> contract, refs |-> {},
                   history |-> << [place |-> Place(route, "initial"),
                                   boundary |-> FALSE] >>,
                   steps |-> << >>, checkpoints |-> << >>, blockers |-> {},
                   workgraph |-> NoGraph, recommendation |-> None,
                   rollup |-> None, candidate |-> None, lease |-> 0, gate |-> "none",
                   repairing |-> FALSE]

Init ==
    /\ MissionInit
    /\ loops = [c \in Callers |-> Idle]
    /\ operations = 0
    /\ interrupted = None

-----------------------------------------------------------------------------
(* The Continue loop. *)

\* A minimum below the leased one is refused unless the imported workgraph has
\* exactly that many nodes.
LeaseRefused(m, min) ==
    min > 0 /\ m.lease > min /\ m.workgraph.total # min

Leased(m, min) ==
    [m EXCEPT !.lease =
        IF @ = 0 THEN (IF min > 0 THEN min ELSE DefaultMinNodes)
        ELSE IF min > 0 /\ min < @ THEN min ELSE @]

HandedOff(m) ==
    LET next == NextActionForRecord(m)
        moved == [m EXCEPT !.steps = Append(@, next), !.route = next.route,
                           !.phase = "handoff_required", !.action = next.action]
    IN  Checkpointed(moved, next, Result("handoff_required"))

\* A call without --until-done, or with --max-iterations 1, iterates once.
ContinueCalled(c) ==
    /\ loops[c].left = 0
    /\ \E left \in 1..MaxIterations, min \in LeaseMinimums :
           loops' = [loops EXCEPT ![c] = [left |-> left, minNodes |-> min]]
    /\ UNCHANGED << mission, interrupted >>

\* The transaction is refused and the loop returns its error.
ContinueRefused(c) ==
    /\ loops[c].left > 0
    /\ \/ mission.status \in {"stopped", "paused"}
       \/ LeaseRefused(mission, loops[c].minNodes)
    /\ loops' = [loops EXCEPT ![c] = Idle]
    /\ UNCHANGED << mission, operations, interrupted >>

\* Mutant: a running loop does not look at the status again.
ContinueIterationUnchecked(c) ==
    LET leased == Leased(mission, loops[c].minNodes)
        adds == leased.status # "done" /\ ~HardBlocker(leased)
        new == Gated(IF adds THEN HandedOff(leased) ELSE leased)
    IN  /\ loops[c].left > 0
        /\ ~LeaseRefused(mission, loops[c].minNodes)
        /\ mission' = new
        /\ loops' = IF ~adds \/ loops[c].left = 1
                    THEN [loops EXCEPT ![c] = Idle] ELSE [loops EXCEPT ![c].left = @ - 1]
        /\ UNCHANGED << operations, interrupted >>

ContinueIteration(c) ==
    LET leased == Leased(mission, loops[c].minNodes)
        adds == leased.status # "done" /\ ~HardBlocker(leased)
        new == Gated(IF adds THEN HandedOff(leased) ELSE leased)
        satisfied == new.gate = "allowed" /\ Len(new.steps) >= new.lease
    IN  /\ loops[c].left > 0
        /\ mission.status \notin {"stopped", "paused"}
        /\ ~LeaseRefused(mission, loops[c].minNodes)
        /\ mission' = new
        /\ loops' = IF ~adds \/ satisfied \/ loops[c].left = 1
                    THEN [loops EXCEPT ![c] = Idle] ELSE [loops EXCEPT ![c].left = @ - 1]
        /\ UNCHANGED << operations, interrupted >>

\* The next command records the decision it prints.
NextAsked ==
    /\ mission' = Logged(mission, NextActionForRecord(mission), FALSE)
    /\ UNCHANGED << loops, interrupted >>

-----------------------------------------------------------------------------
(* Pause, resume, stop. *)

\* Mutant: the pause notice counts as an action to resume.
UsableWithPauseNotice(place, phase) ==
    /\ place.route # "complete"
    /\ phase \notin {"paused", "complete"}
    /\ place.action # NoAction

UsableResumeState(place, phase) ==
    /\ place.route # "complete"
    /\ phase \notin {"paused", "complete"}
    /\ place.action \notin {NoAction, PauseAction}

Pause ==
    LET here == Place(mission.route, mission.action)
        usable == UsableResumeState(here, mission.phase)
        marked == IF usable THEN Logged(mission, here, TRUE) ELSE mission
    IN  /\ mission' = Gated([marked EXCEPT !.status = "paused", !.phase = "paused",
                                           !.action = PauseAction])
        /\ interrupted' = IF usable THEN here
                          ELSE IF mission.status = "paused" THEN interrupted ELSE None
        /\ UNCHANGED loops

\* Mutant: the first pause boundary is taken, not the last.
ResumeStateFirst(m) ==
    LET boundary == SelectInSeq(m.history, LAMBDA e : e.boundary)
    IN  [place |-> IF boundary > 0 THEN m.history[boundary].place ELSE m.origin,
         phase |-> "routing"]

\* The last pause boundary, or else the last checkpoint, continuation step or
\* route decision that can be resumed, or else where the objective began.
ResumeState(m) ==
    LET routing(e) == UsableResumeState(e.place, "routing")
        boundary == SelectLastInSeq(m.history, LAMBDA e : e.boundary /\ routing(e))
        checkpoint == SelectLastInSeq(m.checkpoints,
                                      LAMBDA e : UsableResumeState(e.place, e.phase))
        step == SelectLastInSeq(m.steps,
                                LAMBDA p : UsableResumeState(p, "handoff_required"))
        decision == SelectLastInSeq(m.history, routing)
        at(place, phase) == [place |-> place, phase |-> phase]
    IN  IF boundary > 0 THEN at(m.history[boundary].place, "routing")
        ELSE IF checkpoint > 0
             THEN at(m.checkpoints[checkpoint].place, m.checkpoints[checkpoint].phase)
        ELSE IF step > 0 THEN at(m.steps[step], "handoff_required")
        ELSE IF decision > 0 THEN at(m.history[decision].place, "routing")
        ELSE at(m.origin, "routing")

Resume ==
    LET state == ResumeState(mission)
    IN  /\ mission' = Gated([mission EXCEPT !.status = "active",
                               !.route = state.place.route, !.phase = state.phase,
                               !.action = state.place.action])
        /\ UNCHANGED << loops, interrupted >>

Stop ==
    /\ mission' = [mission EXCEPT !.status = "stopped", !.phase = "stopped",
                                  !.action = StopAction]
    /\ UNCHANGED << loops, interrupted >>

-----------------------------------------------------------------------------
(* Imports. *)

\* Importing the same bytes at the same path again changes nothing and other
\* bytes there are refused.  Evidence of a correlation chain is bound to a role,
\* which is imported once, though the same bytes may serve several roles.
Importable(d) ==
    \A e \in {r \in mission.refs : r.kind = d.kind} :
        IF d.kind = "correlation-evidence"
        THEN e.role # d.role /\ (e.path = d.path => e.digest = d.digest)
        ELSE e.path # d.path

Recorded(d) == [mission EXCEPT !.refs = @ \cup {d}]

Imported(new) ==
    /\ mission' = Logged(new, Place(new.route, new.action), FALSE)
    /\ UNCHANGED << loops, interrupted >>

\* The same for the kinds after which the return gate is evaluated.
ImportedAndGated(new) ==
    /\ mission' = Gated(Logged(new, Place(new.route, new.action), FALSE))
    /\ UNCHANGED << loops, interrupted >>

ImportEvidence(d) ==
    /\ d.kind = "correlation-evidence" /\ Importable(d)
    /\ mission.contract
    /\ mission' = Recorded(d)
    /\ UNCHANGED << loops, interrupted >>

\* A candidate run of the engine is bound to the bytes it was first imported with.
ImportCandidate(d) ==
    /\ d.kind = "ao-next-terminal" /\ Importable(d)
    /\ mission.candidate # None =>
           mission.candidate.digest # d.digest /\ mission.candidate.role # d.role
    /\ mission' = [Recorded(d) EXCEPT
                     !.candidate = [role |-> d.role, digest |-> d.digest]]
    /\ UNCHANGED << loops, interrupted >>

ImportNotice(d) ==
    /\ d.kind \in NoticeKinds /\ Importable(d)
    /\ Imported([Recorded(d) EXCEPT
           !.route = IF d.kind = "blueprint-authorization" THEN "ao-atlas" ELSE @,
           !.phase = d.kind,
           !.action = IF d.kind = "scheduler-recovery-readback" /\ d.action # NoAction
                      THEN d.action ELSE d.kind])

\* Mutant: the return gate is not evaluated again.
ImportWorkgraphUngated(d) ==
    /\ d.kind = "atlas-workgraph" /\ Importable(d)
    /\ Imported([Recorded(d) EXCEPT
           !.status = IF d.ready > 0 THEN "active" ELSE @,
           !.blockers = IF d.ready > 0 THEN {} ELSE @,
           !.workgraph = [total |-> d.total, ready |-> d.ready, completed |-> d.completed],
           !.route = "ao-foundry", !.phase = "atlas_workgraph_ready", !.action = d.action])

\* Mutant: a new wave keeps the readback of the previous one.
ImportWorkgraphOver(d) ==
    /\ d.kind = "atlas-workgraph" /\ Importable(d)
    /\ ImportedAndGated([Recorded(d) EXCEPT
           !.status = IF d.ready > 0 THEN "active" ELSE @,
           !.blockers = IF d.ready > 0 THEN {} ELSE @,
           !.workgraph = [total |-> d.total, ready |-> d.ready, completed |-> d.completed],
           !.route = "ao-foundry", !.phase = "atlas_workgraph_ready", !.action = d.action])

\* A workgraph with ready nodes begins a new wave: it reactivates the Mission and
\* clears what the previous wave left.
ImportWorkgraph(d) ==
    LET counted == [Recorded(d) EXCEPT !.workgraph =
                      [total |-> d.total, ready |-> d.ready, completed |-> d.completed]]
        wave == [counted EXCEPT !.status = "active", !.blockers = {},
                                !.recommendation = None, !.rollup = None]
    IN  /\ d.kind = "atlas-workgraph" /\ Importable(d)
        /\ mission.contract => d.mine = "yes"
        /\ ImportedAndGated([(IF d.ready > 0 THEN wave ELSE counted) EXCEPT
               !.route = "ao-foundry", !.phase = "atlas_workgraph_ready",
               !.action = IF d.ready > 0 /\ d.action = NoAction THEN d.kind
                          ELSE d.action])

Readback(d) ==
    [status |-> d.status, total |-> d.total, ready |-> d.ready,
     completed |-> d.completed, final |-> d.final]

\* The record with the counts of a readback of Atlas, which replace both the
\* previous readback's and the workgraph's.
ReadBack(d) ==
    [Recorded(d) EXCEPT
        !.recommendation = Readback(d),
        !.workgraph = [total |-> d.total, ready |-> d.ready, completed |-> d.completed],
        !.action = d.action]

ReadbackCloses(d) ==
    /\ d.status = "completed" /\ d.total > 0 /\ d.completed = d.total
    /\ d.ready = 0 /\ d.final /\ d.attested

Closed(m) ==
    [m EXCEPT !.status = "done", !.route = "complete", !.phase = "complete",
              !.action = CompleteAction]

Blocked(m, d) ==
    [m EXCEPT !.status = "blocked", !.route = "ao-atlas", !.phase = d.kind,
              !.blockers = @ \cup {d.kind}, !.action = d.kind]

ImportRecommendation(d) ==
    LET read == ReadBack(d)
        foreign == d.mine = "no"
    IN  /\ d.kind = "atlas-recommendation-readback" /\ Importable(d)
        /\ ImportedAndGated(
               IF ~foreign /\ ReadbackCloses(d) THEN Closed(read)
               ELSE IF d.status \in {"denied", "blocked"} THEN Blocked(read, d)
               ELSE [read EXCEPT !.route = "ao-atlas", !.phase = d.kind,
                        !.action = IF foreign \/ @ = NoAction THEN d.kind ELSE @])

\* A synthesis must be consistent in itself, and closes only the Mission it names.
ValidSynthesis(d) ==
    /\ d.total >= d.completed + d.ready
    /\ d.final => d.total = d.completed /\ d.status = "completed" /\ d.attested

ImportSynthesis(d) ==
    LET read == ReadBack(d)
    IN  /\ d.kind = "atlas-final-synthesis-readback" /\ Importable(d)
        /\ ValidSynthesis(d)
        /\ ImportedAndGated(
               IF d.mine = "yes" /\ ReadbackCloses(d) /\ d.promoter
               THEN [Closed(read) EXCEPT
                        !.action = IF d.action = NoAction THEN @ ELSE d.action]
               ELSE IF d.status \in {"denied", "blocked"} THEN Blocked(read, d)
               ELSE [read EXCEPT !.route = "ao-atlas", !.phase = d.kind,
                        !.action = IF d.mine # "yes" \/ @ = NoAction THEN d.kind ELSE @])

ImportRunLink(d) ==
    /\ d.kind = "foundry-run-link" /\ Importable(d)
    /\ ImportedAndGated([Recorded(d) EXCEPT !.phase = d.kind, !.action = d.kind])

ImportRollup(d) ==
    LET read == [Recorded(d) EXCEPT !.rollup =
                   [status |-> d.status, total |-> d.total, completed |-> d.completed]]
        closes == /\ d.status \in {"completed", "promoted"}
                  /\ d.total > 0 /\ d.completed = d.total
    IN  /\ d.kind = "foundry-final-rollup" /\ Importable(d)
        /\ ImportedAndGated(
               IF closes THEN Closed(read)
               ELSE IF d.status \in {"denied", "blocked"} THEN Blocked(read, d)
               ELSE [read EXCEPT !.phase = d.kind, !.action = d.kind])

Import(d) ==
    \/ ImportEvidence(d)
    \/ ImportCandidate(d)
    \/ ImportNotice(d)
    \/ ImportWorkgraph(d)
    \/ ImportRecommendation(d)
    \/ ImportSynthesis(d)
    \/ ImportRunLink(d)
    \/ ImportRollup(d)

-----------------------------------------------------------------------------
(* Checkpoints, compaction and the issue-repair supervisor. *)

Here(m) == Place(m.route, m.action)

\* A checkpoint equal to the latest one is not written again.
CheckpointAsked ==
    LET new == Checkpoint(mission, Here(mission), Result("checkpoint_created"))
    IN  /\ mission.checkpoints # << >> => Last(mission.checkpoints) # new
        /\ mission' = [mission EXCEPT !.checkpoints = Append(@, new)]
        /\ UNCHANGED << loops, interrupted >>

SlicePass(n, digest) == [name |-> "slice_pass", slice |-> n, digest |-> digest]

\* Where in the checkpoints slices passed, and what is said of them there.
PassesAt(m) == {i \in DOMAIN m.checkpoints : m.checkpoints[i].result.name = "slice_pass"}
SlicePasses(m) == {m.checkpoints[i].result : i \in PassesAt(m)}

\* The evidence of a slice is the one artifact with its digest.
SliceEvidence(m, n, digest) ==
    LET held == {e \in m.refs : e.digest = digest}
    IN  Cardinality(held) = 1 /\ \A e \in held : e.slice = n /\ e.mine = "yes"

\* Mutant: the order of the slices is not checked.
SliceAnswerAnyOrder(m, n, digest) ==
    LET passed == SlicePasses(m)
    IN  IF ~SliceEvidence(m, n, digest) THEN "refused"
        ELSE IF SlicePass(n, digest) \in passed THEN "kept"
        ELSE IF n \in {p.slice : p \in passed} THEN "refused"
        ELSE "appended"

\* What a request to checkpoint slice n with this evidence comes to.
SliceAnswer(m, n, digest) ==
    LET passed == SlicePasses(m)
        slices == {p.slice : p \in passed}
    IN  IF ~SliceEvidence(m, n, digest) THEN "refused"
        ELSE IF SlicePass(n, digest) \in passed THEN "kept"
        ELSE IF n \in slices \/ n # Max(slices \cup {0}) + 1 THEN "refused"
        ELSE "appended"

SliceCheckpointAsked(n, digest) ==
    /\ SliceAnswer(mission, n, digest) = "appended"
    /\ mission' = Checkpointed(mission, Here(mission), SlicePass(n, digest))
    /\ UNCHANGED << loops, interrupted >>

\* Mutant: one entry too few is kept.
LatestButOne(seq, n) ==
    IF Len(seq) > n THEN SubSeq(seq, Len(seq) - n + 2, Len(seq)) ELSE seq

Latest(seq, n) == IF Len(seq) > n THEN SubSeq(seq, Len(seq) - n + 1, Len(seq)) ELSE seq

\* Compaction keeps the latest routes and steps, and every checkpoint.
Compact(routes, steps) ==
    LET kept == Latest(mission.history, routes)
    IN  /\ mission' = [mission EXCEPT !.history = kept, !.steps = Latest(@, steps)]
        /\ interrupted' = IF \E e \in Range(kept) : e.boundary THEN interrupted ELSE None
        /\ UNCHANGED loops

\* An event of the supervisor (IssueRepair models what it is) is a step of the
\* Mission, whatever its status; the first event takes a lease of one node.
IssueRepairEvent ==
    LET leased == IF mission.repairing THEN mission ELSE Leased(mission, 1)
        moved == [leased EXCEPT !.repairing = TRUE, !.route = "ao-mission",
                     !.phase = "issue_repair_supervision", !.action = "issue_repair",
                     !.steps = Append(@, Place("ao-mission", "issue_repair"))]
    IN  /\ ~mission.repairing => ~LeaseRefused(mission, 1)
        /\ mission' = Gated(Checkpointed(moved, Here(moved), Result("issue_repair")))
        /\ UNCHANGED << loops, interrupted >>

-----------------------------------------------------------------------------
Operate ==
    /\ operations < MaxOperations
    /\ operations' = operations + 1
    /\ \/ \E c \in Callers : ContinueCalled(c)
       \/ NextAsked
       \/ Pause
       \/ Resume
       \/ Stop
       \/ \E d \in Documents : Import(d)
       \/ CheckpointAsked
       \/ \E d \in mission.refs : SliceCheckpointAsked(d.slice, d.digest)
       \/ \E routes, steps \in Keeps : Compact(routes, steps)
       \/ IssueRepairEvent

Next ==
    \/ Operate
    \/ \E c \in Callers : ContinueRefused(c) \/ ContinueIteration(c)

Spec == Init /\ [][Next]_vars

-----------------------------------------------------------------------------
(* Properties. *)

TypeOK ==
    /\ mission.status \in {"active", "paused", "stopped", "blocked", "done"}
    /\ mission.gate \in {"none", "allowed", "denied"}
    /\ mission.refs \subseteq Documents
    /\ Len(mission.history) > 0 /\ operations <= MaxOperations
    /\ Len(mission.steps) <= Len(mission.checkpoints)
    /\ mission.lease \in LeaseMinimums \cup {0, 1, DefaultMinNodes}
    /\ \A c \in Callers : loops[c].left \in 0..MaxIterations

\* The stored gate, which the status surfaces show, allows the final response only
\* of a Mission that a hard blocker stops, or whose work is over: no node is ready
\* and the Mission was closed or has completed its lease's minimum.
AllowedIsEarned ==
    mission.gate = "allowed" =>
        \/ HardBlocker(mission)
        \/ /\ ReadyNodes(mission) = 0 /\ mission.workgraph.ready = 0
           /\ \/ mission.status \in {"done", "stopped"}
              \/ CompletedNodes(mission) >= MinNodes(mission)

\* What "final reconcile" answers with "ready".
FinalReady(m) ==
    /\ m.status = "done" /\ FinalResponseAllowed(m)
    /\ m.recommendation # None
    /\ m.recommendation.status = "completed" /\ m.recommendation.total > 0
    /\ m.recommendation.completed = m.recommendation.total
    /\ m.recommendation.ready = 0
    /\ m.rollup # None =>
           /\ m.rollup.completed = m.recommendation.completed
           /\ m.rollup.total = m.recommendation.total

\* Final reconciliation is ready only of a Mission with no work left in any wave it
\* holds: evidence of an earlier wave never hides the nodes of a later one.
FinalReadyIsComplete == FinalReady(mission) => mission.workgraph.ready = 0

\* The route of an active Mission is open, and the Mission presents the pause notice
\* only if it did before, or if a document imported just then names that very text as
\* its next action: no pause, compaction, continuation or resume leaves the notice.
ActiveIsResumable ==
    [][mission'.status = "active" =>
           /\ mission'.route # "complete"
           /\ mission'.action = PauseAction =>
                  \/ mission.status = "active" /\ mission.action = PauseAction
                  \/ \E d \in mission'.refs \ mission.refs : d.action = PauseAction]_vars

\* Slices pass one after the other from the first, each once, and their evidence
\* stays retained.
SlicesInOrder ==
    LET passes == PassesAt(mission)
        pass(i) == mission.checkpoints[i].result
    IN  \A i \in passes :
            /\ pass(i).slice = 1 \/ \E j \in passes : j < i /\ pass(j).slice = pass(i).slice - 1
            /\ \A j \in passes : j < i => pass(j).slice < pass(i).slice
            /\ \E e \in mission.refs : e.digest = pass(i).digest

\* Where in the checkpoints, which only grow, something was handed off.
Handoffs(m) ==
    {i \in DOMAIN m.checkpoints : m.checkpoints[i].result.name = "handoff_required"}

\* A Continue loop that is running when the Mission is paused or stopped hands
\* nothing off until it is resumed.
HaltHolds ==
    [][mission.status \in {"paused", "stopped"} =>
           Handoffs(mission') = Handoffs(mission)]_vars

\* Resuming a paused Mission returns it to the route and action that the pause
\* interrupted, whatever was imported, decided, checkpointed or compacted since, as
\* long as the pause's own entry is retained.
ResumeRestores ==
    [][Resume /\ mission.status = "paused" /\ interrupted # None =>
           Here(mission') = interrupted]_vars
=============================================================================
