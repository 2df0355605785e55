----------------------------- MODULE DurableRun -----------------------------
(***************************************************************************)
(* One N7 run of the engine: the processes that work on it one after the    *)
(* other, or at the same time, and the disk they share.  A process is one   *)
(* incarnation of `run-live` (mode "live") or of `recover-live` (mode       *)
(* "recover"); each reads the journal directory, decides, and only then     *)
(* creates the next event file, so another process may act in between, and  *)
(* each may die after any step.                                             *)
(*                                                                          *)
(* Sources: crates/ao-next-core/src/{recovery,engine,capture}.rs and        *)
(* crates/ao-next-cli/src/commands/{live,live_recover}.rs.                  *)
(***************************************************************************)
EXTENDS ExecutionJournal

CONSTANTS
    MaxProcs,       \* bound on the process incarnations of the run
    Overlap,        \* the modes a process may start in while another one runs
    Mutating,       \* the effects that change the product tree
    Passing,        \* the reports of a verifier that passed
    PassedRecords,  \* the records whose terminal state is Passed
    Obstacles       \* what the world may do to a run in this instance

(***************************************************************************)
(* crash: a process dies; io: creating an event file fails half way;        *)
(* expiry: an authority expires; provider: the provider process fails or    *)
(* is killed; output: its output fails the gate or cannot be normalized;    *)
(* engine: a denial, a limit, a blocked adapter or an interrupt ends the    *)
(* turn; effect: a native effect fails; exposure: hidden tests leaked into  *)
(* the workspace.                                                           *)
(***************************************************************************)
AllObstacles == { "crash", "io", "expiry", "provider", "output", "engine",
                  "effect", "exposure" }

Modes == {"live", "recover"}

\* Incarnations are numbered in the order they start; each is used once.
Procs == 1 .. MaxProcs

ASSUME RunAssumption ==
    /\ MaxProcs \in Nat
    /\ Overlap \subseteq Modes
    /\ Mutating \subseteq Effects
    /\ Passing \subseteq Reports
    /\ PassedRecords \subseteq Records
    /\ Obstacles \subseteq AllObstacles

VARIABLES
    \* the run's directories
    journal,          \* event files whose bytes are complete
    torn,             \* event files created but not completely written
    capture,          \* which names of the capture index exist
    output,           \* the provider output the capture retains
    captureTerminal,  \* capture-terminal.json exists
    terminals,        \* complete terminal-<digest>.json files
    tornTerminals,    \* the ones not completely written
    \* the world
    expired,          \* the authorities whose interval is over
    providerRuns,     \* how often a provider process ran
    executed,         \* how often each effect was performed
    \* the processes
    pc, mode, authority,
    seen,             \* event files an existing-only journal is bound to
    seenTerminals,    \* terminal files it is bound to
    pend,             \* the event file about to be created
    next,             \* the turn's next effect
    snap,             \* effect states read at the start of the turn
    report,           \* the report of this process's verifier, if it ran
    passed,           \* the engine's outcome is Passed
    record            \* the terminal record to be published

evidence == << capture, output, captureTerminal >>
terminalFiles == << terminals, tornTerminals >>
disk == << journal, torn, evidence, terminalFiles >>
world == << expired, providerRuns, executed >>
turn == << next, snap >>
result == << report, passed, record >>
bound == << mode, authority, seen, seenTerminals >>
procs == << pc, bound, pend, turn, result >>
vars == << disk, world, procs >>

\* One name per point of the code between two steps another process can see.
PCs == { "idle", "intent", "start", "provider", "stage", "retained", "restore",
         "link", "unlink", "published", "verified", "gate", "turn", "decide",
         "plan", "engine", "execute", "complete", "verify", "report", "seal",
         "publish", "termfile", "termsync", "termevent", "create", "sync",
         "done", "failed", "crashed" }

Stopped == {"done", "failed", "crashed"}

EffectStates == {"fresh", "unknown", "completed"}

NoFile == File(0, Event("none", 0, NoDoc))

TypeOK ==
    /\ journal \subseteq Files /\ IsFiniteSet(journal)
    /\ torn \subseteq Files
    /\ capture \in {"none", "staged", "both", "final"}
    /\ output \in {"none", "good", "rejected", "garbled"}
    /\ captureTerminal \in BOOLEAN
    /\ terminals \subseteq Records /\ tornTerminals \subseteq Records
    /\ expired \subseteq Authorities
    /\ providerRuns \in Nat
    /\ executed \in [Effects -> Nat]
    /\ pc \in [Procs -> PCs]
    /\ mode \in [Procs -> Modes]
    /\ authority \in [Procs -> Authorities \cup {NoDoc}]
    /\ seen \in [Procs -> SUBSET Files]
    /\ seenTerminals \in [Procs -> SUBSET Records]
    /\ pend \in [Procs -> Files \cup {NoFile}]
    /\ next \in [Procs -> 1 .. (NumEffects + 1)]
    /\ snap \in [Procs -> [Effects -> EffectStates]]
    /\ report \in [Procs -> Reports \cup {NoDoc}]
    /\ passed \in [Procs -> BOOLEAN]
    /\ record \in [Procs -> Records \cup {NoDoc}]

Init ==
    /\ journal = {} /\ torn = {}
    /\ capture = "none" /\ output = "none" /\ captureTerminal = FALSE
    /\ terminals = {} /\ tornTerminals = {}
    /\ expired = {} /\ providerRuns = 0
    /\ executed = [e \in Effects |-> 0]
    /\ pc = [p \in Procs |-> "idle"]
    /\ mode = [p \in Procs |-> "live"]
    /\ authority = [p \in Procs |-> NoDoc]
    /\ seen = [p \in Procs |-> {}]
    /\ seenTerminals = [p \in Procs |-> {}]
    /\ pend = [p \in Procs |-> NoFile]
    /\ next = [p \in Procs |-> 1]
    /\ snap = [p \in Procs |-> [e \in Effects |-> "fresh"]]
    /\ report = [p \in Procs |-> NoDoc]
    /\ passed = [p \in Procs |-> FALSE]
    /\ record = [p \in Procs |-> NoDoc]

-----------------------------------------------------------------------------
(* Reading the disk.                                                        *)

Running(p) == pc[p] \notin Stopped \cup {"idle"}

Current(p) == authority[p] \notin expired

\* load_execution_events: every file is whole, the sequence is lawful, and an
\* existing-only journal still holds exactly the files it was bound to.
Readable(p) ==
    /\ torn = {}
    /\ Lawful(journal)
    /\ mode[p] = "recover" => journal = seen[p]

\* terminal_record succeeds: at most one file, and the journal names no other.
TerminalReadable(p) ==
    /\ tornTerminals = {}
    /\ Cardinality(terminals) <= 1
    /\ TerminalDocs(journal) \subseteq terminals
    /\ mode[p] = "recover" => terminals = seenTerminals[p]

\* effect_states succeeds: after verification started no effect is fresh.
EffectsReadable(p) ==
    /\ Readable(p)
    /\ ProviderReady(journal)
    /\ VerificationSeen(journal) => Intended(journal) = Effects

Fresh == {e \in Effects : EffectState(journal, e) = "fresh"}

Unknown == {e \in Effects : EffectState(journal, e) = "unknown"}

\* verify_git_workspace with require_clean fails: an effect changed the tree.
Dirty == \E e \in Mutating : executed[e] > 0

-----------------------------------------------------------------------------
(* The common shape of a step.                                              *)

Goto(p, label) == pc' = [pc EXCEPT ![p] = label]

\* Where a process goes once the event it created is durable.
After(p, kind) ==
    CASE kind = "provider_request_intent" -> "start"
      [] kind = "provider_process_started" -> "provider"
      [] kind = "provider_output_retained" -> "link"
      [] kind = "provider_capture_index_published" -> "verified"
      [] kind = "provider_capture_verified" -> "gate"
      [] kind = "adapter_turn_normalized" ->
            IF mode[p] = "live" THEN "plan" ELSE "decide"
      [] kind = "effect_intent" -> "execute"
      [] kind = "effect_completed" -> "engine"
      [] kind = "verification_started" -> "verify"
      [] kind = "verifier_recorded" -> "seal"
      [] OTHER -> "done"

\* Where it goes when recording the event failed.  A live process that fails
\* before it holds a capture index, and a recovery that fails before it enters
\* the engine, report the failure and leave no terminal; every later failure
\* ends the engine's run and is sealed.
OnError(p, kind) ==
    IF \/ kind \in {ProviderSteps[i] : i \in 1 .. 4}
       \/ kind = "terminal_published"
       \/ kind \in ProviderKinds /\ mode[p] = "recover"
    THEN "failed" ELSE "seal"

\* append_execution_event up to its create: load, validate, name the file.
AppendEvent(p, ev) ==
    IF Readable(p) /\ Admits(journal, ev)
    THEN /\ pend' = [pend EXCEPT ![p] = File(Cardinality(journal), ev)]
         /\ Goto(p, "create")
    ELSE UNCHANGED pend /\ Goto(p, OnError(p, ev.kind))

\* A record_* call that appends an event without a document.
Recording(p, kind) ==
    /\ AppendEvent(p, Event(kind, 0, NoDoc))
    /\ UNCHANGED << disk, world, bound, turn, result >>

\* A step that only moves the process.
Moving(p, label) ==
    /\ Goto(p, label)
    /\ UNCHANGED << disk, world, bound, pend, turn, result >>

\* Faulty variant: the file is opened without create_new.
CreateEventOverwriting(p) ==
    /\ pc[p] = "create"
    /\ torn' = torn \cup {pend[p]} /\ Goto(p, "sync")
    /\ UNCHANGED << journal, evidence, terminalFiles, world, bound, pend, turn,
                    result >>

\* durable_create_new: create_new fails on an existing name ...
CreateEvent(p) ==
    /\ pc[p] = "create"
    /\ IF pend[p] \in journal \cup torn
       THEN UNCHANGED torn /\ Goto(p, OnError(p, pend[p].ev.kind))
       ELSE torn' = torn \cup {pend[p]} /\ Goto(p, "sync")
    /\ UNCHANGED << journal, evidence, terminalFiles, world, bound, pend, turn,
                    result >>

\* Faulty variant: the turn advances at every durable event.
AdvanceAlways(p, kind) == next[p] + 1

\* The engine moves on to its next effect after a completion.
Advance(p, kind) ==
    IF kind = "effect_completed" THEN next[p] + 1 ELSE next[p]

\* Faulty variant: any recorded report counts as a pass.
VerdictIgnored(p, kind) == passed[p] \/ (kind = "verifier_recorded")

\* The outcome is Passed once a passing report is on record.
Verdict(p, kind) ==
    \/ passed[p]
    \/ kind = "verifier_recorded" /\ report[p] \in Passing

\* ... and the event counts once it is written and synced.  An existing-only
\* journal registers the file it made.
SyncEvent(p) ==
    LET kind == pend[p].ev.kind IN
    /\ pc[p] = "sync"
    /\ journal' = journal \cup {pend[p]}
    /\ torn' = torn \ {pend[p]}
    /\ seen' = IF mode[p] = "recover"
               THEN [seen EXCEPT ![p] = @ \cup {pend[p]}] ELSE seen
    /\ next' = [next EXCEPT ![p] = Advance(p, kind)]
    /\ passed' = [passed EXCEPT ![p] = Verdict(p, kind)]
    /\ Goto(p, After(p, kind))
    /\ UNCHANGED << evidence, terminalFiles, world, mode, authority,
                    seenTerminals, pend, snap, report, record >>

-----------------------------------------------------------------------------
(* Starting.                                                                *)

MayStart(p, m) ==
    /\ pc[p] = "idle"
    /\ \A q \in Procs : q < p => pc[q] # "idle"
    /\ m \in Overlap \/ \A q \in Procs : ~Running(q)

\* validate_prepared_run: a current authority, a clean workspace, an empty
\* capture root and a journal without a single event entry.
StartLive(p) ==
    /\ MayStart(p, "live")
    /\ journal \cup torn = {}
    /\ capture = "none" /\ ~captureTerminal
    /\ ~Dirty
    /\ \E a \in Authorities \ expired :
           authority' = [authority EXCEPT ![p] = a]
    /\ Goto(p, "intent")
    /\ UNCHANGED << disk, world, mode, seen, seenTerminals, pend, turn, result >>

\* recover-live opens the existing journal, binds it to the files it finds, and
\* wants the very authority document of the provider intent, current or not,
\* and a retained provider output.
StartRecover(p) ==
    /\ MayStart(p, "recover")
    /\ Readable(p)
    /\ TerminalReadable(p)
    /\ Has(journal, "provider_request_intent")
    /\ ~OutcomeUnknown(journal)
    /\ \E f \in OfKind(journal, "provider_request_intent") :
           authority' = [authority EXCEPT ![p] = f.ev.doc]
    /\ mode' = [mode EXCEPT ![p] = "recover"]
    /\ seen' = [seen EXCEPT ![p] = journal]
    /\ seenTerminals' = [seenTerminals EXCEPT ![p] = terminals]
    /\ Goto(p, "restore")
    /\ UNCHANGED << disk, world, pend, turn, result >>

-----------------------------------------------------------------------------
(* CaptureFirstRunner: the provider process and its retained output.        *)

RecordRequestIntent(p) ==
    /\ pc[p] = "intent"
    /\ IF Current(p)
       THEN AppendEvent(p, Event("provider_request_intent", 0, authority[p]))
       ELSE UNCHANGED pend /\ Goto(p, "failed")
    /\ UNCHANGED << disk, world, bound, turn, result >>

RecordProcessStarted(p) ==
    pc[p] = "start" /\ Recording(p, "provider_process_started")

RunProvider(p) ==
    /\ pc[p] = "provider"
    /\ providerRuns' = providerRuns + 1
    /\ \/ Goto(p, "stage")
       \/ "provider" \in Obstacles /\ Goto(p, "failed")
    /\ UNCHANGED << disk, expired, executed, bound, pend, turn, result >>

Outputs == {"good"} \cup
    IF "output" \in Obstacles THEN {"rejected", "garbled"} ELSE {}

\* retain_raw_capture_files and stage_incomplete, all names create-only.
StageCapture(p) ==
    /\ pc[p] = "stage"
    /\ IF capture = "none"
       THEN capture' = "staged" /\ output' \in Outputs /\ Goto(p, "retained")
       ELSE UNCHANGED << capture, output >> /\ Goto(p, "failed")
    /\ UNCHANGED << journal, torn, captureTerminal, terminalFiles, world, bound,
                    pend, turn, result >>

RecordOutputRetained(p) ==
    pc[p] = "retained" /\ Recording(p, "provider_output_retained")

\* publish_final: hard-link the final name, then remove the incomplete one.
LinkCapture(p) ==
    /\ pc[p] = "link"
    /\ IF capture = "staged"
       THEN capture' = "both" /\ Goto(p, "unlink")
       ELSE UNCHANGED capture /\ Goto(p, "failed")
    /\ UNCHANGED << journal, torn, output, captureTerminal, terminalFiles, world,
                    bound, pend, turn, result >>

UnlinkStaged(p) ==
    /\ pc[p] = "unlink"
    /\ IF capture = "both"
       THEN capture' = "final" /\ Goto(p, "published")
       ELSE UNCHANGED capture /\ Goto(p, "failed")
    /\ UNCHANGED << journal, torn, output, captureTerminal, terminalFiles, world,
                    bound, pend, turn, result >>

\* CaptureIndexStore::recover: finish whichever half of the publication is left.
Repair ==
    CASE capture = "none" -> "failed"
      [] capture = "staged" -> "link"
      [] capture = "both" -> "unlink"
      [] capture = "final" -> "published"

RestoreCapture(p) == pc[p] = "restore" /\ Moving(p, Repair)

\* Recovery skips an event its journal already had when it was opened.
RecordCapturePublished(p) ==
    LET kind == "provider_capture_index_published" IN
    /\ pc[p] = "published"
    /\ IF mode[p] = "recover" /\ Has(seen[p], kind)
       THEN Moving(p, "verified")
       ELSE Recording(p, kind)

RecordCaptureVerified(p) ==
    LET kind == "provider_capture_verified" IN
    /\ pc[p] = "verified"
    /\ IF mode[p] = "recover" /\ Readable(p) /\ Has(journal, kind)
       THEN Moving(p, "gate")
       ELSE Recording(p, kind)

\* verify_and_gate_capture: a provider failure or an invalid usage envelope is
\* recorded as the capture's terminal, create-only, and the process gives up.
GateCapture(p) ==
    /\ pc[p] = "gate"
    /\ IF output = "rejected"
       THEN captureTerminal' = TRUE /\ Goto(p, "failed")
       ELSE UNCHANGED captureTerminal /\ Goto(p, "turn")
    /\ UNCHANGED << journal, torn, capture, output, terminalFiles, world, bound,
                    pend, turn, result >>

\* Normalization of the retained output fails: run-live leaves a capture
\* terminal, recover-live leaves nothing.
RejectTurn(p) ==
    /\ pc[p] = "turn" /\ output = "garbled"
    /\ captureTerminal' = (captureTerminal \/ mode[p] = "live")
    /\ Goto(p, "failed")
    /\ UNCHANGED << journal, torn, capture, output, terminalFiles, world, bound,
                    pend, turn, result >>

\* record_adapter_turn_normalized accepts the turn it already holds.
RecordTurn(p) ==
    LET kind == "adapter_turn_normalized" IN
    /\ pc[p] = "turn" /\ output # "garbled"
    /\ IF Readable(p) /\ Has(journal, kind)
       THEN Moving(p, After(p, kind))
       ELSE Recording(p, kind)

-----------------------------------------------------------------------------
(* recover-live's own decision, before it enters the engine.  An unknown    *)
(* effect comes before freshness; a fresh effect needs a current authority  *)
(* and an untouched workspace; without one a retained terminal is final.    *)

\* Faulty variant: a recovery always needs a current authority.
RefusedUnlessCurrent(p) == ~EffectsReadable(p) \/ Unknown # {} \/ ~Current(p)

Refused(p) ==
    \/ ~EffectsReadable(p)
    \/ Unknown # {}
    \/ Fresh # {} /\ (~Current(p) \/ Dirty)
    \/ Fresh = {} /\ ~TerminalReadable(p)
    \/ Fresh = {} /\ terminals # {} /\ ~VerificationComplete(journal)

Decide(p) ==
    /\ pc[p] = "decide"
    /\ IF Refused(p)
       THEN UNCHANGED record /\ Goto(p, "failed")
       ELSE IF Fresh = {} /\ terminals # {}
       THEN /\ \E r \in terminals : record' = [record EXCEPT ![p] = r]
            /\ Goto(p, "publish")
       ELSE UNCHANGED record /\ Goto(p, "plan")
    /\ UNCHANGED << disk, world, bound, pend, turn, report, passed >>

-----------------------------------------------------------------------------
(* DirectEngine::run_inner after the adapter's turn.                        *)

\* effect_states: one snapshot for the whole turn.
Plan(p) ==
    /\ pc[p] = "plan"
    /\ IF EffectsReadable(p)
       THEN /\ snap' = [snap EXCEPT ![p] =
                           [e \in Effects |-> EffectState(journal, e)]]
            /\ Goto(p, "engine")
       ELSE UNCHANGED snap /\ Goto(p, "seal")
    /\ UNCHANGED << disk, world, bound, pend, next, result >>

AtEffect(p, state) ==
    /\ pc[p] = "engine"
    /\ next[p] \in Effects
    /\ snap[p][next[p]] = state

SkipCompleted(p) ==
    /\ AtEffect(p, "completed")
    /\ next' = [next EXCEPT ![p] = @ + 1]
    /\ UNCHANGED << disk, world, pc, bound, pend, snap, result >>

\* Faulty variant: an intent is taken for the effect, and completed.
StopOnUnknownCompleting(p) == AtEffect(p, "unknown") /\ Moving(p, "complete")

StopOnUnknown(p) == AtEffect(p, "unknown") /\ Moving(p, "seal")

\* Faulty variant: the authority was checked when the process started.
AdmitEffectUnchecked(p) ==
    /\ AtEffect(p, "fresh")
    /\ AppendEvent(p, Event("effect_intent", next[p], NoDoc))
    /\ UNCHANGED << disk, world, bound, turn, result >>

\* The authority is checked again, then record_effect_intent.
AdmitEffect(p) ==
    /\ AtEffect(p, "fresh")
    /\ IF Current(p)
       THEN AppendEvent(p, Event("effect_intent", next[p], NoDoc))
       ELSE UNCHANGED pend /\ Goto(p, "seal")
    /\ UNCHANGED << disk, world, bound, turn, result >>

\* A policy denial, a limit, a blocked or interrupting adapter.
EngineStops(p) ==
    /\ "engine" \in Obstacles
    /\ pc[p] = "engine"
    /\ Moving(p, "seal")

\* execute_authorized: a failed native effect may have been performed.
Execute(p) ==
    /\ pc[p] = "execute"
    /\ \/ /\ executed' = [executed EXCEPT ![next[p]] = @ + 1]
          /\ Goto(p, "complete")
       \/ /\ "effect" \in Obstacles
          /\ executed' \in {executed, [executed EXCEPT ![next[p]] = @ + 1]}
          /\ Goto(p, "seal")
    /\ UNCHANGED << disk, expired, providerRuns, bound, pend, turn, result >>

RecordCompletion(p) ==
    /\ pc[p] = "complete"
    /\ AppendEvent(p, Event("effect_completed", next[p], NoDoc))
    /\ UNCHANGED << disk, world, bound, turn, result >>

\* Faulty variant: the last effect of the turn is forgotten.
TurnDoneEarly(p) == next[p] >= NumEffects

\* Every effect action is behind the loop; the turn's Verify is next.
TurnDone(p) == next[p] = NumEffects + 1

\* begin_verification resumes an attempt that was started and not recorded.
BeginVerification(p) ==
    /\ pc[p] = "engine"
    /\ TurnDone(p)
    /\ IF /\ Readable(p)
          /\ VerificationOpen(journal)
          /\ ~Has(journal, "terminal_published")
       THEN UNCHANGED pend /\ Goto(p, "verify")
       ELSE AppendEvent(p, Event("verification_started", VerifierRecords(journal), NoDoc))
    /\ UNCHANGED << disk, world, bound, turn, result >>

Verify(p) ==
    /\ pc[p] = "verify"
    /\ \E r \in Reports : report' = [report EXCEPT ![p] = r]
    /\ Goto(p, "report")
    /\ UNCHANGED << disk, world, bound, pend, turn, passed, record >>

RecordReport(p) ==
    /\ pc[p] = "report"
    /\ AppendEvent(p, Event("verifier_recorded", 0, report[p]))
    /\ UNCHANGED << disk, world, bound, turn, result >>

-----------------------------------------------------------------------------
(* The end of execute_with_prepared_runner_mode.                            *)

\* The record of this run; only a run that holds a report publishes it.
Compose(p) ==
    IF report[p] = NoDoc THEN UNCHANGED record /\ Goto(p, "done")
    ELSE /\ \E r \in Records :
               /\ (r \in PassedRecords) = passed[p]
               /\ record' = [record EXCEPT ![p] = r]
         /\ Goto(p, "publish")

SealSuccess(p) ==
    /\ pc[p] = "seal" /\ passed[p]
    /\ Compose(p)
    /\ UNCHANGED << disk, world, bound, pend, turn, report, passed >>

\* record_capture_terminal before anything else: a name that already exists
\* is an error, and nothing is published.
SealFailure(p) ==
    /\ pc[p] = "seal"
    /\ ~passed[p] \/ "exposure" \in Obstacles
    /\ IF captureTerminal
       THEN UNCHANGED record /\ Goto(p, "failed")
       ELSE Compose(p)
    /\ captureTerminal' = TRUE
    /\ UNCHANGED << journal, torn, capture, output, terminalFiles, world, bound,
                    pend, turn, report, passed >>

\* publish_terminal_record.
Publish(p) ==
    /\ pc[p] = "publish"
    /\ IF \/ ~Readable(p)
          \/ ~VerificationComplete(journal)
          \/ ~TerminalReadable(p)
          \/ terminals # {} /\ terminals # {record[p]}
       THEN UNCHANGED pend /\ Goto(p, "failed")
       ELSE IF terminals = {} THEN UNCHANGED pend /\ Goto(p, "termfile")
       ELSE IF Has(journal, "terminal_published")
       THEN UNCHANGED pend /\ Goto(p, "done")
       ELSE AppendEvent(p, Event("terminal_published", 0, record[p]))
    /\ UNCHANGED << disk, world, bound, turn, result >>

\* Faulty variant: the event is appended before the record is on disk.
CreateTerminalUnsynced(p) ==
    /\ pc[p] = "termfile"
    /\ tornTerminals' = tornTerminals \cup {record[p]} /\ Goto(p, "termevent")
    /\ UNCHANGED << journal, torn, evidence, terminals, world, bound, pend, turn,
                    result >>

CreateTerminal(p) ==
    /\ pc[p] = "termfile"
    /\ IF record[p] \in terminals \cup tornTerminals
       THEN UNCHANGED tornTerminals /\ Goto(p, "failed")
       ELSE tornTerminals' = tornTerminals \cup {record[p]} /\ Goto(p, "termsync")
    /\ UNCHANGED << journal, torn, evidence, terminals, world, bound, pend, turn,
                    result >>

SyncTerminal(p) ==
    /\ pc[p] = "termsync"
    /\ terminals' = terminals \cup {record[p]}
    /\ tornTerminals' = tornTerminals \ {record[p]}
    /\ seenTerminals' = IF mode[p] = "recover"
                        THEN [seenTerminals EXCEPT ![p] = @ \cup {record[p]}]
                        ELSE seenTerminals
    /\ Goto(p, "termevent")
    /\ UNCHANGED << journal, torn, evidence, world, mode, authority, seen, pend,
                    turn, result >>

RecordTerminal(p) ==
    /\ pc[p] = "termevent"
    /\ AppendEvent(p, Event("terminal_published", 0, record[p]))
    /\ UNCHANGED << disk, world, bound, turn, result >>

-----------------------------------------------------------------------------
(* What the world does.                                                     *)

Expire(a) ==
    /\ "expiry" \in Obstacles
    /\ a \notin expired
    /\ expired' = expired \cup {a}
    /\ UNCHANGED << disk, providerRuns, executed, procs >>

\* The process dies; a file it had created but not written stays torn.
Crash(p) ==
    /\ "crash" \in Obstacles
    /\ Running(p)
    /\ Moving(p, "crashed")

\* Creating or writing a file fails; what was created stays torn.
IoFails(p) ==
    /\ "io" \in Obstacles
    /\ \/ /\ pc[p] \in {"create", "sync"}
          /\ Moving(p, OnError(p, pend[p].ev.kind))
       \/ /\ pc[p] \in {"termfile", "termsync"}
          /\ Moving(p, "failed")

\* A process takes its next step.
Step(p) ==
    \/ RecordRequestIntent(p) \/ RecordProcessStarted(p) \/ RunProvider(p)
    \/ StageCapture(p) \/ RecordOutputRetained(p)
    \/ LinkCapture(p) \/ UnlinkStaged(p) \/ RestoreCapture(p)
    \/ RecordCapturePublished(p) \/ RecordCaptureVerified(p)
    \/ GateCapture(p) \/ RejectTurn(p) \/ RecordTurn(p) \/ Decide(p)
    \/ Plan(p) \/ SkipCompleted(p) \/ StopOnUnknown(p) \/ AdmitEffect(p)
    \/ EngineStops(p) \/ Execute(p) \/ RecordCompletion(p)
    \/ BeginVerification(p) \/ Verify(p) \/ RecordReport(p)
    \/ SealSuccess(p) \/ SealFailure(p)
    \/ Publish(p) \/ CreateTerminal(p) \/ SyncTerminal(p) \/ RecordTerminal(p)
    \/ CreateEvent(p) \/ SyncEvent(p)

\* Nobody runs; whether somebody still could is up to the operator.
Finished == (\A p \in Procs : ~Running(p)) /\ UNCHANGED vars

Next ==
    \/ \E p \in Procs : StartLive(p) \/ StartRecover(p)
    \/ \E p \in Procs : Step(p) \/ Crash(p) \/ IoFails(p)
    \/ \E a \in Authorities : Expire(a)
    \/ Finished

Spec == Init /\ [][Next]_vars

\* The operating system runs a started process until it stops.
FairSpec == Spec /\ \A p \in Procs : WF_vars(Step(p))

-----------------------------------------------------------------------------
(* Properties.                                                              *)

OnDisk == journal \cup torn

\* No native effect is performed twice, however many processes work on the run,
\* at whatever points they crash and however they interleave: run_durable's
\* promise that an effect with intent is never executed again automatically.
EffectAtMostOnce == \A e \in Effects : executed[e] <= 1

\* No second provider process ever runs for the run, recoveries included.
ProviderAtMostOnce == providerRuns <= 1

\* A process that verifies, or still has its report to record, judges the whole
\* turn: every effect was performed exactly once and its completion is durable.
VerifierSeesWholeTurn ==
    \A p \in Procs : pc[p] \in {"verify", "report"} =>
        \A e \in Effects : executed[e] = 1 /\ e \in Completed(journal)

\* A Passed terminal record exists only for a run whose output passed the gate,
\* whose every effect was performed exactly once, and which has a passing report
\* on record.
PassedIsEarned ==
    (terminals \cup tornTerminals) \cap PassedRecords # {} =>
        /\ output = "good"
        /\ \A e \in Effects : executed[e] = 1 /\ e \in Completed(journal)
        /\ \E f \in OfKind(journal, "verifier_recorded") : f.ev.doc \in Passing

\* The journal trails the disk: no event, written or half-written, claims what
\* is not there yet.  This is what lets recovery trust a bare event.
JournalTrailsDisk ==
    /\ Has(OnDisk, "provider_output_retained") => capture # "none"
    /\ Has(OnDisk, "provider_capture_index_published") => capture = "final"
    /\ Has(OnDisk, "adapter_turn_normalized") => output = "good"
    /\ \A e \in Completed(OnDisk) : executed[e] > 0
    /\ TerminalDocs(OnDisk) \subseteq terminals

\* Two processes may both take one sequence number, which no reader accepts
\* afterwards; but it never happens to an effect's intent or completion, nor to
\* a provider step after the request intent.
ForksSpareEffects ==
    \A f, g \in OnDisk : f # g /\ f.seq = g.seq =>
        f.ev.kind \in { "provider_request_intent", "verification_started",
                        "verifier_recorded", "terminal_published" }

\* Effect e has a durable intent, no completion, and no process that performs it
\* or is about to record its completion.
Abandoned(e) ==
    /\ EffectState(journal, e) = "unknown"
    /\ \A p \in Procs :
          /\ ~(pc[p] \in {"execute", "complete"} /\ next[p] = e)
          /\ ~(pc[p] \in {"create", "sync"} /\ pend[p].ev.n = e
               /\ pend[p].ev.kind = "effect_completed")

\* An abandoned effect stays unknown for ever: no process performs it and none
\* declares it completed.
UnknownIsFinal ==
    [][\A e \in Effects :
          Abandoned(e) => Abandoned(e)' /\ executed'[e] = executed[e]]_vars

\* The effects some process holds or has held an intent for.
Claimed ==
    Intended(OnDisk) \cup
    {pend[p].ev.n : p \in {q \in Procs : /\ pc[q] = "create"
                                       /\ pend[q].ev.kind = "effect_intent"}}

\* Once every authority has expired no further effect is claimed, by the live
\* process or by any recovery.
ExpiryFreezesEffects ==
    [][expired = Authorities => Claimed' \subseteq Claimed]_vars

\* A recovery that finds the output good, every effect completed and no failure
\* recorded beside the capture publishes the terminal record unless it crashes,
\* whether or not its authority has expired.
RecoveryConcludes ==
    \A p \in Procs :
        (/\ pc[p] = "restore" /\ output = "good" /\ ~captureTerminal
         /\ Completed(journal) = Effects)
        ~> \/ pc[p] = "crashed"
           \/ pc[p] = "done" /\ Has(journal, "terminal_published")

-----------------------------------------------------------------------------
(* The run implements its promise: what an observer of the journal, the     *)
(* workspace and the terminal files sees is a behaviour of RunPromise.      *)

ProviderSeen ==
    IF providerRuns > 0 THEN "ran"
    ELSE IF Has(journal, "provider_process_started") THEN "asked" ELSE "unasked"

EffectSeen(e) ==
    IF e \in Completed(journal) THEN "completed"
    ELSE IF executed[e] > 0 THEN "applied"
    ELSE IF e \in Intended(journal) THEN "intended" ELSE "absent"

EffectsSeen == [e \in Effects |-> EffectSeen(e)]

ReportsSeen == {f.ev.doc : f \in OfKind(journal, "verifier_recorded")}

Promise == INSTANCE RunPromise WITH
    provider <- ProviderSeen,
    effect <- EffectsSeen,
    verdicts <- ReportsSeen,
    published <- terminals

\* Every behaviour of the processes and their disk is one the promise allows.
RefinesPromise == Promise!Spec

-----------------------------------------------------------------------------
(* What the documents say of recovery.                                      *)

\* docs/superpowers/specs/2026-08-23-...-successor-design.md:236, "Effect
\* completed | Reuse completion observation": a recovery does not give up on a
\* readable run with a current authority and no unknown effect.
CompletedEffectsAreReused ==
    [][\A p \in Procs :
          pc[p] = "decide" /\ pc'[p] = "failed" =>
             \/ ~EffectsReadable(p) \/ ~TerminalReadable(p)
             \/ Unknown # {} \/ ~Current(p)]_vars

\* docs/live-evaluation-harness.md:36, "Expired authority can verify completed
\* effects and publish their terminal record": a recovery that verified does
\* not fail before it published.
RecoveryPublishesItsReport ==
    \A p \in Procs : mode[p] = "recover" /\ pc[p] = "failed" => report[p] = NoDoc
=============================================================================
