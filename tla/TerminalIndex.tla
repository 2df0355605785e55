----------------------------- MODULE TerminalIndex -----------------------------
(* The canonical terminal index and its import (terminal_index.go): an index    *)
(* names the documents of a finished mission and draws conclusions; a reader    *)
(* recomputes every conclusion from the documents before it believes one. A     *)
(* digest of a document is the document; "signed" says that a record's own      *)
(* digest field matches it.                                                     *)
EXTENDS Integers, Sequences, FiniteSets, TLC

Roles == {"lease", "root", "checkpoint", "duration", "terminal", "closure", "session"}
MaxIndexArtifacts == 128

\* What a document says; 0 and "" stand for a field it does not have.
NoObservation ==
    [mission |-> 0, completed |-> 0, ready |-> 0, blocked |-> 0, failed |-> 0,
     minimumNodes |-> 0, minimumSet |-> FALSE, minimum |-> 0, target |-> 0, maximum |-> 0,
     elapsed |-> 0, leaseStatus |-> "", final |-> FALSE, next |-> "", safe |-> TRUE]

Observation(documents, role) ==
    IF role \in DOMAIN documents THEN documents[role] ELSE NoObservation

FirstPositive(a, b) == IF a > 0 THEN a ELSE IF b > 0 THEN b ELSE 0
NoAction(action) == action \in {"", "none", "complete"}
Nodes4(document) == document.completed + document.ready + document.blocked + document.failed
Conflict(condition, code) == IF condition THEN {code} ELSE {}
-----------------------------------------------------------------------------
(* recomputeTerminalIndex: the conclusions the documents carry. *)

MinimumFrom(documents) ==
    LET lease == Observation(documents, "lease")
        root == Observation(documents, "root")
        duration == Observation(documents, "duration")
        late == duration.minimumSet /\ "terminal" \notin DOMAIN documents
    IN  CASE lease.minimumSet -> lease
          [] ~lease.minimumSet /\ (root.minimumSet \/ ~late) -> root
          [] OTHER -> duration

Window(documents) ==
    LET lease == Observation(documents, "lease")
        root == Observation(documents, "root")
    IN  [set |-> MinimumFrom(documents).minimumSet, minimum |-> MinimumFrom(documents).minimum,
         target |-> FirstPositive(lease.target, root.target),
         maximum |-> FirstPositive(lease.maximum, root.maximum)]

MinimumNodes(documents) ==
    FirstPositive(Observation(documents, "lease").minimumNodes,
        FirstPositive(Observation(documents, "terminal").minimumNodes,
                      Observation(documents, "root").minimumNodes))

\* Mutant: the upper end of the lease is never looked at.
LeaseStatusOpenEnded(window, elapsed) ==
    CASE ~window.set \/ window.minimum < 0 \/ window.maximum < window.minimum -> "invalid"
      [] window.set /\ window.maximum >= window.minimum /\ elapsed < window.minimum ->
            "minimum_not_met"
      [] OTHER -> "within_window"

LeaseStatus(window, elapsed) ==
    CASE ~window.set \/ window.minimum < 0 \/ window.maximum <= 0
         \/ window.maximum < window.minimum -> "invalid"
      [] window.set /\ window.maximum >= window.minimum /\ elapsed < window.minimum ->
            "minimum_not_met"
      [] window.set /\ window.maximum >= window.minimum /\ elapsed > window.maximum ->
            "maximum_exceeded"
      [] OTHER -> "within_window"

CountsOf(document, minimum) ==
    [total |-> Nodes4(document), minimum |-> minimum, completed |-> document.completed,
     ready |-> document.ready, blocked |-> document.blocked, failed |-> document.failed]

\* Without a terminal document nothing is finished, whatever the others say.
WithoutTerminal(documents) ==
    LET root == Observation(documents, "root")
        duration == Observation(documents, "duration")
        window == Window(documents)
        elapsed == duration.elapsed
    IN  [counts |-> CountsOf(root, MinimumNodes(documents)),
         lease |-> [minimum |-> window.minimum,
                    target |-> FirstPositive(window.target, duration.target),
                    maximum |-> FirstPositive(window.maximum, duration.maximum),
                    elapsed |-> elapsed, status |-> "terminal_missing"],
         completion |-> FALSE, agreement |-> FALSE, readiness |-> FALSE, final |-> FALSE,
         codes |-> {"canonical_terminal_missing"}
            \union Conflict(elapsed <= 0, "timing_unresolved")
            \union Conflict("duration" \in DOMAIN documents /\ duration.next # ""
                            /\ duration.next # root.next, "duration_state_stale")
            \union Conflict("session" \in DOMAIN documents, "historical_snapshot_not_live"),
         next |-> "historical"]

TerminalConflicts(documents, window, status) ==
    LET terminal == documents["terminal"]
        duration == Observation(documents, "duration")
        unfinished == terminal.ready > 0 \/ terminal.blocked > 0
    IN  Conflict(status = "invalid", "lease_window_invalid")
        \union Conflict(status = "minimum_not_met", "lease_minimum_not_met")
        \union Conflict(status = "maximum_exceeded", "lease_maximum_exceeded")
        \union Conflict(window.target <= 0, "lease_target_missing")
        \union Conflict(terminal.leaseStatus \notin {"", status},
                        "terminal_lease_status_mismatch")
        \union Conflict(unfinished, "unfinished_work_final_response")
        \union Conflict(terminal.failed > 0, "failed_work_final_response")
        \union Conflict(terminal.final /\ (unfinished \/ terminal.failed > 0
                                           \/ status # "within_window"),
                        "terminal_final_response_allowed_despite_violation")
        \union Conflict(terminal.final /\ ~NoAction(terminal.next),
                        "terminal_exact_next_action_requires_execution")
        \union Conflict(\/ duration.completed \notin {0, terminal.completed}
                        \/ duration.elapsed \notin {0, terminal.elapsed},
                        "duration_state_stale")

WithTerminal(documents) ==
    LET terminal == documents["terminal"]
        window == Window(documents)
        minimum == MinimumNodes(documents)
        status == LeaseStatus(window, terminal.elapsed)
        codes == TerminalConflicts(documents, window, status)
        completion == minimum > 0 /\ terminal.completed >= minimum
        readiness == completion /\ codes = {} /\ terminal.safe
    IN  [counts |-> CountsOf(terminal, minimum),
         lease |-> [minimum |-> window.minimum, target |-> window.target,
                    maximum |-> window.maximum, elapsed |-> terminal.elapsed,
                    status |-> status],
         completion |-> completion, agreement |-> TRUE, readiness |-> readiness,
         final |-> readiness /\ terminal.final, codes |-> codes,
         next |-> IF readiness /\ terminal.final
                  THEN IF NoAction(terminal.next) THEN "none" ELSE terminal.next
                  ELSE "review"]

Recompute(documents) ==
    IF "terminal" \in DOMAIN documents THEN WithTerminal(documents)
    ELSE WithoutTerminal(documents)
-----------------------------------------------------------------------------
(* VerifyTerminalIndex. An index holds its artifacts in order, each with the    *)
(* document whose digest it names, and the conclusions.                         *)

Documents(index) ==
    [role \in {index.artifacts[i].role : i \in DOMAIN index.artifacts} |->
        index.artifacts[CHOOSE i \in DOMAIN index.artifacts :
                            index.artifacts[i].role = role].document]

Monotonic(index) ==
    LET artifacts == index.artifacts
    IN  /\ artifacts # <<>> /\ Len(artifacts) <= MaxIndexArtifacts
        /\ \A i \in DOMAIN artifacts :
            /\ artifacts[i].state =
                IF artifacts[i].role \in Roles THEN artifacts[i].role ELSE ""
            /\ artifacts[i].sequence >= 0
            /\ \A j \in 1..(i - 1) :
                /\ artifacts[j].sequence < artifacts[i].sequence
                /\ artifacts[j].role # artifacts[i].role
        /\ index.lineage = [i \in 1..(Len(artifacts) - 1) |->
                                <<artifacts[i].sequence, artifacts[i + 1].sequence>>]

\* The files still hold the documents the index was made from.
FilesAgree(index, files) ==
    \A i \in DOMAIN index.artifacts :
        LET artifact == index.artifacts[i]
        IN  /\ artifact.role \in DOMAIN files /\ files[artifact.role] = artifact.document
            /\ artifact.document.mission \in {0, index.mission}
            /\ artifact.document.safe

CountsMonotonic(documents) ==
    LET root == documents["root"]
        terminal == documents["terminal"]
    IN  /\ terminal.completed >= root.completed
        /\ Nodes4(root) \in {0, Nodes4(terminal)} \/ Nodes4(root) < 0

Verifies(index, files) ==
    /\ index.signed /\ index.mission # 0 /\ index.safe
    /\ Monotonic(index) /\ FilesAgree(index, files)
    /\ "root" \in DOMAIN Documents(index)
    /\ index.reference = ("terminal" \in DOMAIN Documents(index))
    /\ index.reference => CountsMonotonic(Documents(index))
    /\ index.conclusions = Recompute(Documents(index))
-----------------------------------------------------------------------------
(* ImportTerminalIndex and LoadTerminalIndexImport. *)

ImportStatus(conclusions) ==
    CASE conclusions.readiness -> "reconciled"
      [] ~conclusions.readiness /\ "canonical_terminal_missing" \in conclusions.codes ->
            "no_canonical_terminal"
      [] OTHER -> "reconciled_fail_closed"

OperatorStatus(final, counts) ==
    CASE final -> "done"
      [] ~final /\ (counts.blocked > 0 \/ counts.failed > 0) -> "blocked"
      [] OTHER -> "active"

Readback(index, surface) ==
    [surface |-> surface, mission |-> index.mission, index |-> index, signed |-> TRUE,
     generated |-> index.generated, status |-> ImportStatus(index.conclusions),
     projection |-> OperatorStatus(index.conclusions.final, index.conclusions.counts),
     timing |-> index.conclusions.lease.status = "within_window",
     conclusions |-> index.conclusions]

\* validateTerminalIndexImportReadback
ValidReadback(readback) ==
    LET said == readback.conclusions
        counts == said.counts
        lease == said.lease
    IN  /\ readback.signed
        /\ readback.projection = OperatorStatus(said.final, counts)
        /\ \A field \in DOMAIN counts : counts[field] >= 0
        /\ counts.minimum <= counts.total
        /\ counts.completed + counts.ready + counts.blocked + counts.failed = counts.total
        /\ lease.minimum >= 0 /\ lease.target >= lease.minimum
        /\ lease.maximum >= lease.target /\ lease.elapsed >= 0
        /\ lease.status \in {"within_window", "minimum_not_met", "maximum_exceeded"}
        /\ said.final =>
            /\ said.readiness /\ said.completion /\ readback.timing /\ said.agreement
            /\ counts.completed = counts.total /\ counts.ready = 0 /\ counts.blocked = 0
            /\ counts.failed = 0 /\ said.codes = {}

NoImport == [surface |-> "none"]

\* What importing an index answers, given the state file: the readback or a refusal.
ImportAnswer(index, files, state) ==
    CASE ~Verifies(index, files) -> "rejected"
      [] Verifies(index, files) /\ state = NoImport -> "imported"
      [] Verifies(index, files) /\ state # NoImport /\ ~ValidReadback(state) -> "unreadable"
      [] Verifies(index, files) /\ state # NoImport /\ ValidReadback(state)
         /\ state.index # index -> "conflicting"
      [] OTHER -> "existing"

Surfaces == {"inspect", "checkpoint", "event-index", "command-readback"}

\* ValidateTerminalSurfaceAgreement: four views, one per surface, of one payload.
SurfacesAgree(readbacks) ==
    /\ Cardinality(readbacks) = 4
    /\ {r.surface : r \in readbacks} = Surfaces
    /\ \A r \in readbacks : r.signed
    /\ \A r, s \in readbacks : [r EXCEPT !.surface = "", !.signed = TRUE]
                             = [s EXCEPT !.surface = "", !.signed = TRUE]

\* projectRecordWithTerminalState: what a Mission record shows under an import.
Project(record, state) ==
    LET terminal == OperatorStatus(state.conclusions.final, state.conclusions.counts)
    IN  [record EXCEPT
            !.phase = state.status,
            !.status = IF terminal = "active" /\ record.status # "active"
                       THEN record.status ELSE terminal,
            !.next = state.conclusions.next,
            !.mayReturn = state.conclusions.final]

CanProject(record, state) ==
    /\ ValidReadback(state) /\ state.surface = "import"
    /\ state.mission = record.mission /\ state.generated >= record.updated
=============================================================================
