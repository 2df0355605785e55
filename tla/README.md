# Verification of ao-next

TLA+ models, model-checking runs and machine-checked proofs for ao-next: the
Rust execution engine (`src/crates/`) and the Go Mission ledger
(`src/mission/`). Paths below are relative to the repository; `recovery.rs`
means `src/crates/ao-next-core/src/recovery.rs`, and a bare Go file means
`src/mission/internal/mission/<file>`.

## 1. The system

ao-next has two halves that share no process. The *engine* executes one
prepared, authorised turn of a model worker: it asks a provider process for a
plan, captures its output, performs the plan's native effects in a workspace,
lets a verifier judge the result and publishes a terminal record. The *Mission*
ledger keeps, per Mission, a record of what was decided and imported, and
answers what should happen next; it never executes work. They exchange files:
the engine exports a verified journal prefix, Mission imports it.

### Inventory

| Component (source) | State | Operations | What is hard | What makes it correct |
|---|---|---|---|---|
| Execution journal (`recovery.rs`) | a directory of create-only event files, terminal records, a checkpoint pair | append one event, load and validate all, publish the terminal record, commit and resume a checkpoint | torn files, forks by two writers, power loss, existing-only readers | lawful event order; nothing claimed before it happened; a fork never concerns an effect |
| Durable engine turn (`engine.rs`) | position in the turn, a snapshot of effect states | plan, skip, intent, execute, completion, verification, outcome | state read once and used later; authority expiring inside the turn | each effect at most once; the verifier sees the whole turn |
| Capture store (`capture.rs`) | staged and final capture index, retained output | stage, link, unlink, recover | a crash between link and unlink | a retained output is never lost or replaced |
| Live and recovery commands (`live.rs`, `live_recover.rs`) | authority, capture terminal | `run-live`, `recover-live` | two incarnations at once; restart after any step | one provider process; recovery concludes what can be concluded |
| Native effects and policy (`effects.rs`, `policy.rs`) | workspace files | check, exchange, roll back | concurrent change of a file between check and exchange | a detected conflict leaves the old content |
| Engine lifecycle (`terminal.rs`, `engine.rs`) | lifecycle state, counters of turns, repairs, tokens, time | turn, repair, verify, end | limits at their boundary | Passed only through a passing verification; limits are never overrun |
| Evidence seal (`evidence.rs`) | blobs, index, seal file | collect, seal, verify | failure between two files | a bundle verifies only when it is complete |
| Mission store (`store.go`, `store_transaction.go`) | record, checkpoint bundle, event decision, transaction journal, lock | save, update, load, list, recover | a crash or I/O error at every write, recovery of a recovery | atomic operations; sidecars belong to the record |
| Mission lifecycle and imports (`continuation_lifecycle.go`, `campaign_lease.go`, `checkpoint_resume.go`, `ledger_compaction.go`, `imports.go`) | status, route, steps, checkpoints, lease, gate, evidence | continue, pause, resume, stop, checkpoint, compact, import | orders of calls nobody tested | the return gate agrees with the evidence; a stopped Mission stays stopped |
| Issue-repair supervisor (`issue_repair_supervisor.go`) | a run of events, a lease, a checkpoint digest | append under compare-and-swap, replay | lost replies, several workers of one lease, expiring lease | a request is recorded once; a reply is true |
| Artifact store (`artifact_store.go`) | content-addressed files | publish, open | two publishers of one name | content under a name never changes |
| Journal prefix (`mission_exchange.rs`, `ao_next_journal_prefix.go`) | the exchanged file, an import reference | export, import | a prefix grown or forked between two imports | an import is a prefix of the engine's journal |
| Soak plan (`soak_plan.go`) | none | build a plan of partitions with estimates, name its conflicts | nearest ranks, saturating sums, retries spent greedily | a plan that may be activated covers its worst case |
| Soak canary (`soak_canary.go`, `soak_canary_executor.go`, `cli_soak_canary.go`) | checkpoint file, evidence files, the files of a completion | activate, run one child per node, checkpoint, retry once, reconcile, publish | a crash or failing write at every step; a child that outlives its runner; restart validation | no test is started twice; what was stored can be read; a promoted summary is backed by evidence |
| Soak canary's Git verifier (`soak_canary_git.go`) | none on disk; a budget | verify HEAD, index, tree and worktree of a repository | a private reader of every Git encoding, beside a Git that packs and prunes | accepts only clean repositories, and each of them whose packs stay while it reads |
| Terminal index (`terminal_index.go`) | an index file, an import state file | build, verify, import, project on a record | documents replaced after they were indexed; a stored import over a newer record | a Mission is shown as done only if the evidence says so |
| Correlation chains, event index, gateway, scheduler, qualification, readbacks, CLI | mostly derived documents | see `PROJECT.json` | mostly pure functions | see the plan |

`PROJECT.json` lists every component with its sources and status, and under
`hazards` what in this code a test would hardly reach, each at its line with
the properties that would catch it.

### How the parts interact

- `run-live` and `recover-live` (any number of processes, one after the other
  or overlapping) share only the disk: journal directory, capture store,
  terminal files, workspace. Each process *reads* the journal, decides, and
  *then* creates a file; the create-only name (sequence number and digest) is
  the only synchronisation.
- The engine calls the journal before and after each native effect and the
  verifier; the CLI calls the engine, the capture store and the journal.
- Every Mission operation is one critical section under a file lock that the
  operating system releases when its holder dies; it first recovers the
  transaction journal it finds. The lifecycle, the imports and the issue-repair
  supervisor are mutations handed to that transaction.
- The soak canary is a third program beside the two: it plans from recorded
  durations, binds plan, command catalog, authority and repository snapshot into
  one activation, and runs it as a chain of checkpoints. It calls the Git verifier
  before and after every child, and ends by building a terminal index over its own
  documents and importing it. Terminal indexes of other producers are imported by
  the Mission commands, which project records under them.

## 2. Modules

| Module | Models | Kind |
|---|---|---|
| `ExecutionJournal` | the journal as a value: files, the lifecycle's admission rule, what readers conclude | operators |
| `DurableRun` | one N7 run: processes, disk, world | state machine; extends `ExecutionJournal` |
| `RunPromise` | what a run promises, without processes or files | abstract specification, implemented by `DurableRun` |
| `DurableRunPowerLoss` | `DurableRun` plus a loss of power | state machine |
| `MCDurableRun` | a view for the model checker | |
| `DurableRunSafety` | theorems about `DurableRun` | proofs |
| `MissionStore` | the files of one Mission, the lock, every write of every operation | state machine |
| `MissionLedger` | the atomic ledger the store promises | abstract specification, implemented by `MissionStore` |
| `MCMissionStore` | symmetry of clients | |
| `MissionStoreSafety` | theorems about `MissionStore` | proofs |
| `IssueRepair` | workers, leases, clock and the supervised run | state machine |
| `MCIssueRepair` | constants and symmetry | |
| `IssueRepairSafety` | theorems about `IssueRepair` | proofs |
| `MissionLifecycle` | the operations on one Mission record, and the Continue loops of its callers | state machine |
| `MCMissionLifecycle` | the documents that may be imported | |
| `MissionLifecycleSafety` | theorems about `MissionLifecycle` | proofs |
| `SoakPlan` | the planner as a function | operators |
| `SoakPlanSafety` | lemmas about sums, sorted lists and the plan | proofs |
| `SoakActivation` | the activation's construction and its validation | operators; extends `SoakPlan` |
| `SoakCanary` | one canary from its documents to its promoted summary | state machine; extends `SoakActivation`, uses `TerminalIndex` |
| `MCSoakCanary` | the documents that are planned, activated and run | |
| `SoakCanarySafety` | theorems about `SoakCanary` | proofs |
| `TerminalIndex` | the conclusions of an index, its verification, the readback of an import, the projection on a record | operators |
| `TerminalImport` | producers, importers, the index file and the state file | state machine; extends `TerminalIndex` |
| `MCTerminalImport` | the documents of a mission | |
| `TerminalImportSafety` | theorems about `TerminalImport` | proofs |
| `GitVerify` | the soak canary's Git client, one file at a time, on a repository that changes | state machine |
| `MCGitVerify` | repositories: how they are stored, damaged and edited | |
| `GitVerifySafety` | theorems about `GitVerify` | proofs |

### DurableRun

A journal is a *set* of files `[seq, ev]`, because two files may carry one
sequence number. Files whose bytes are complete are in `journal`, files that
exist and are not completely written in `torn`; any torn file blocks every
reader, as in `load_execution_events`. `Admits` is the match in
`validate_journal_lifecycle`, `Lawful` the whole loader.

A process is one incarnation of a command. `pc` names the points of the code
between two steps that another process can see:

- provider phase: `intent start provider stage retained link unlink published
  verified gate turn` (`run_durable_n7`'s caller in `live.rs`, the capture store),
- recovery: `restore decide`,
- turn: `plan engine execute complete verify report`,
- end: `seal publish termfile termsync termevent`,
- `create` and `sync`: the two halves of creating one event file. `AppendEvent`
  is the read (load, validate, pick the sequence number), `CreateEvent` the
  create-only open, `SyncEvent` the write; other processes act in between.

The mode of a process decides whether its journal is *existing-only*: a
recovery is bound to the files it has seen and refuses a journal that another
process extended (`seen`, `seenTerminals`).

What the world may do is the constant `Obstacles` (crash, I/O failure, expiring
authority, provider failure, rejected output, engine stop, effect failure,
hidden-test exposure), so that each run says what it assumes.

What is abstracted: the normalised turn is effects `1 .. N` and then Verify;
documents (authorities, reports, records) are model values; digests that all
processes share are implicit; the several loads of one call are read at one
moment, while the window between the last load and the create is kept; a start
that is refused is no step; a native effect is one step; the legacy
`EffectCommitted` event, which no run appends, is left out; nobody tampers with
the files.

### MissionStore

A record is the set of operations that contributed to it and the operation that
added its last step; a checkpoint bundle is the record it was built from; an
event decision is the step it was built from. That is exactly what the
consistency of the three files is about. Each `writeAtomicFile` and
`removeFileAndSync` is one step with its three outcomes: replaced and synced,
nothing happened, replaced but the sync failed. A crash may follow any step. A
client performs one operation: `update` (every import and lifecycle update),
`step` and `quiet` (Continue with and without a new step), `read`, `bundle`,
`first` and `replace` (Save). Left out: `SaveCheckpointBundle` and
`SaveEventLoopDecision`, which have no caller; the removal of temporary files;
the transaction of the journal-prefix import, which keeps the checkpoint. A
Mission may start with a record that has no sidecars, as older versions left
it. The second compare of the record before the write is not modelled: the lock
is held throughout.

### IssueRepair

A call of `SuperviseIssueRepair` has three steps that matter: it compares the
lease's expiry with the clock (`Arrive`), waits for the lock while the clock
runs and others append, and then replays, records or refuses in one transaction
(`Replay`, `Record`, `Refuse`). Atomicity of that transaction is what
`MissionStore` shows. The answer reaches the worker or is lost (also because the
process died after the commit); the worker may repeat the same request, or read
the record and ask anew. A checkpoint digest is represented by the events it was
computed over: every other field of a checkpoint is determined by them, and the
digests are taken to be injective. The replay path rebuilds the checkpoint before
the last event; `ReplayMatches` is what that reconstruction amounts to, and the
variant `SameStatusReplay` shows what it would be without the reset of the
status in `issueRepairReplayCheckpointMatches`.

### MissionLifecycle

One step is one transaction of the store, which `MissionStore` shows to be atomic,
so the module has one record, `mission`, and no files. Only Continue is several
transactions: a caller's `loops` entry says how many iterations it may still do,
and any other operation falls between two of them.

| Actions | Code |
|---|---|
| `ContinueCalled`, `ContinueIteration`, `ContinueRefused` | `Continue` with `ensureGoalLease` |
| `NextAsked` | the `next` command, which logs the decision it prints |
| `Pause`, `Resume`, `Stop` | the functions of those names; `ResumeState` is `durableResumeState` |
| `ImportEvidence` ... `ImportRollup` | one case of the switch in `importArtifact` each |
| `CheckpointAsked`, `SliceCheckpointAsked` | `CreateMissionCheckpoint`, `CreateSliceCheckpoint` |
| `Compact` | `CompactMissionLedger` |
| `IssueRepairEvent` | what `SuperviseIssueRepair` does to the record; an over-approximation of when |

`Gated` is `EvaluateReturnGate`, stored wherever the code stores it and nowhere
else. A document is a record of what an import reads out of it; `attested` stands
for the conditions of a closing predicate that nothing else tells apart. An action
is a name for its text, which is compared with the empty one and the pause notice
only. The history variable `interrupted` remembers what the last pause
interrupted, until its entry is compacted away.

Left out: the lease's minutes and its iteration limit (stored, never read back by an
operation), the route reconciliation (a projection), timestamps, iteration numbers
(after a compaction they repeat, but nothing reads them), parsing. Documents are
assumed to carry the Mission's own correlation identity, a workgraph with ready
nodes to have one whose dependencies are met: the code refuses others without a
change. No objective is classified as complete. Nothing is assumed of the text of a
document's next action, which may be that of the pause notice. Semantic imports with a
correlation chain and the journal prefix are left for the modules of those parts.

What the model taught about the code, none of it contradicted by a document unless
said so: `Resume` has no guard on the status, so it also restarts a stopped or closed
Mission; a Mission that is stopped, then paused, then resumed returns to the notice
of the stop as its action; what an import set while the Mission was paused is
overwritten by the resume; a workgraph with ready nodes reactivates a stopped Mission
(meant: a new wave); `docs/operator-next-actions.md:95` counts a stopped Mission
among the hard blockers, `hardBlockerExists` does not; a stored gate that allows may
outlive a later notice import that sets an action. A document's next action is copied
whatever its text (`imports.go:266`, 284, 326, 418): one that names the pause notice makes
an active Mission present it, and a pause then marks nothing to resume. This is the only
way to that state, which `ActiveIsResumable` says of every step.

### SoakPlan and SoakActivation

`BuildSoakPlan` and the validators of `soak_canary.go` are functions of their
documents, so they are operators, named after the conflict codes they raise.
Durations are small integers with `MaxInt` in the place of the largest int64, and
the saturating sums and products are translated as they are. A digest of a document
is the document, which makes every binding of the manifest an equation, and a
"signed" field says that a record's own digest matches.

### SoakCanary

`disk` is the checkpoint file, `mem` the runner's copy, `pc` its step, `turn` what it
holds of the attempt under way. `launches` is the world's record of children, which
run on when their runner has died; `evidence` the output files that can be read back.

| Actions | Code |
|---|---|
| `Start`, `Create`, `Resume` | `RunSoakCanary` up to its loop: documents, world, time window, a new or a loaded checkpoint |
| `RecordTransient`, `Reserve`, `Limit`, `Check`, `Launch`, `LaunchFails`, `RecordRunning` | one turn of the loop and the executor up to the child's start |
| `Heartbeat`, `ChildExits`, `Collect`, `Complete`, `Reap` | the executor's wait, the output it keeps, the judgement and its write |
| `Close`, `Reconcile` | the end of the loop, `ReconcileSoakCanary` |
| `Publish`, `ReuseImport` | `PersistSoakCanaryCompletion`, one file per step |
| `Crash`, `Pass`, `Disturb` | the world: the runner dies, time passes, the repository or an output changes |

Every checkpoint write may fail (`WriteFails`), which ends the invocation as in the
code; `ValidCheckpoint` is what `LoadSoakCanaryCheckpoint` demands of a file, so that
a restart is validated as strictly as the code does. Left out: the chain of
checkpoint digests (the file is replaced whole), the tree walk of a snapshot (its
result is a choice of the world), the command lines' contents, signals, document
parsing. One invocation runs at a time; nothing in the code excludes a second one,
see Observations.

### TerminalIndex and TerminalImport

A document is the record of what `observeTerminalIndexArtifact` reads out of it, an index the
list of its documents with the conclusions its producer drew. `Recompute` is
`recomputeTerminalIndex`; `Verifies` believes an index only if its conclusions are
the recomputed ones. The state machine lets producers publish hopeful conclusions,
replaces documents at any time and lets two importers interleave between the
load of the state file and its replacement, which no lock protects.

### GitVerify

Every step of the verifier reads one file or one directory: HEAD and the references
it leads to, the index, a loose object, the names of the packs, a pack that is searched, an
entry of a pack and the base of a delta, a file's status, its content, a directory of the walk.
Between two steps a user may edit HEAD, a branch, the index or the worktree, or Git may
pack references, add a pack, and remove loose objects and whole packs whose objects are
elsewhere (`Maintenance`), three times in all. The verifier lists the packs once for
each look-up (`ListPacks`) and opens them by these names later (`SearchPack`, `ReadEntry`);
`swept` records that one of them was removed in between. The recursion of the code is kept as state: the trees
that are still to be read are a list (`todo`), and whoever waits for an object, a delta or
a look-up that compares its digest, is a frame of a stack (`frames`). The constant
`Trees` says which files are below each tree, as equations (`FilesBelow`) that the verifier does not use.
Variable-length numbers keep their encodings, each with its own rule, over a radix
of 4 in the place of 128; budgets and depths are scaled down to values the instances
reach. An object's data is a sequence of entries or symbols, to which a delta's copy
and insert commands apply. A checksum that fails is a flag of the repository's
`damage`. `Clean` states what Git would say of a repository without a word on how it
is stored; it is the reference the verifier is held against. Not modelled: the
Windows variant, packed objects that Git makes loose again, and empty directories, which
Git does not see, but for one that loses its last file while the worktree is walked.

## 3. Runs

| Run | Properties | Instance | Distinct states |
|---|---|---|---|
| `overlap` | TypeOK, EffectAtMostOnce, ProviderAtMostOnce, PassedIsEarned, JournalTrailsDisk, ForksSpareEffects, VerifierSeesWholeTurn, RefinesPromise, UnknownIsFinal | 2 overlapping processes of any mode, 2 effects, 2 authorities, 2 reports, 2 records, every obstacle | 245,124 |
| `serial` | ExpiryFreezesEffects, RecoveryConcludes | 3 processes one after the other, fair, crashes and expiry | 35,658 |
| `mission_store` | TypeOK, SidecarsMatch, NeverStuck, OperationsAreAtomic | 3 interchangeable clients, I/O errors and crashes | 163,195 |
| `issue_repair` | TypeOK, RequestRecordedOnce, RepliesAreTrue, LostReplyIsRecovered, ValidUnlessLateOrRestarted | 2 workers of one lease and a rival, 3 requests, 2 contents, clock 0..2 | 2,787,699 |
| `mission_lifecycle` | TypeOK, AllowedIsEarned, FinalReadyIsComplete, ActiveIsResumable, SlicesInOrder, HaltHolds, ResumeRestores | 5 operations and a Continue loop of up to 2 iterations, 11 documents | 2,309,034 |
| `soak_canary` | TypeOK, LaunchedOnce, ReloadsItsOwn, CompletionIsEarned, PromotedIsBacked, PlanIsHonoured, AcceptedIsBuilt, PlanCoversWorstCase | a canary of 2 nodes and 1 retry, 2 starts, 1 fault, clock 0..6; 60 edits of its documents, over 40 inputs that are only planned | 508,916 |
| `terminal_index` | DoneMeansDone, HistoricalIsNotFinal | 2 importers, a mission of 5 documents in up to 11 variants, 2 changes | 154,272 |
| `git_verify` | TypeOK, QuietIsExact, AcceptedWasThere | 109 repositories, up to 3 edits while they are verified | 287,384 |
| `reuse`, `capture_terminal`, `power_loss`, `terminal_import` | one property each, violated | see Findings | |

Why these bounds are enough to be worth something:

- *Two effects* are the least with which one is completed while the next is
  fresh or unknown, which is where recovery decides. *Two processes* are the
  least that race; the *three incarnations* of `serial` are the least with which a
  recovery follows a recovery. Two reports and two records let two processes disagree
  on content under one sequence number. What `overlap` says of two processes, the
  theorems say of any number.
- In `mission_store` the third client is the one that finds what a crashed
  recovery of a crashed operation left. Each client performs one operation of
  every kind; longer histories only repeat the state a finished operation
  leaves.
- In `issue_repair` one lease's budget is below the number of requests and the
  other's is not; the clock takes a value before, at and after the end of the
  leases; two contents allow a second `run_started` that is not a replay.
- In `mission_lifecycle` five operations are enough for pause, import, import,
  compact, resume, and for two imports with two slice checkpoints. Compaction keeps
  one entry, the least the code allows, so that it bites at once. The default lease
  minimum is 2 instead of 10 and a caller may ask for 1, so that documents of two
  nodes reach the minimum, miss it and make its reduction legal. The documents are a
  wave with work left and one without, a closing readback, a blocked synthesis, a
  promoted rollup, a run link, a scheduler notice, a recovery notice whose
  next action is the text of the pause notice, a candidate and evidence for two slices.
- In `soak_canary` two nodes are the least of which one has passed while the other's
  fate is open, and the second is the one that may be retried. Two starts are a run and
  a restart; one fault, which may fall at any step, is what the restart finds. The hard
  wall (5 units), the lease (2 to 5), the timeout of an attempt (2) and the clock (6)
  let every limit be met, kept and broken. Requests other than the good one differ from
  it in one field of one document, which is how a binding can be missing; the inputs
  that are only planned vary samples (lengths at which the nearest rank moves),
  retries, budgets and leases at the values where a plan becomes affordable.
- In `terminal_index` the documents agree, lag behind, contradict one another or name
  another mission; two changes are a publication and one replacement after it.
- In `git_verify` the same commit is stored loose and packed, whole, and as deltas by
  offset and by reference, in chains and beside decoys, with numbers at the edges
  of their encodings; each damage, each difference of index and worktree and each limit
  has a repository of its own. Six of them (`Edited`) change while they are verified: two
  are stored in one pack that is written again and removed, before, between or amid the look-ups.
- Deadlock is not checked in `mission_lifecycle`, `soak_canary`, `terminal_index`,
  `terminal_import` and `git_verify`, which end when the bounded operations, starts or
  edits are used up; the programs then wait for an operator or have answered.
  Elsewhere `Finished` (nobody runs) is the only state in which nothing else happens.

Views and symmetry: the safety runs of `DurableRun` use a view that drops the
memory of a stopped process, which no action and no property reads; the
liveness run uses neither view nor symmetry. Clients of the store, workers of one
lease and contents are interchangeable and used as symmetry in runs of safety
properties only (the refinement in `mission_store` has no liveness part).

Fairness: `FairSpec` assumes weak fairness of each started process's own steps:
the operating system runs a process until it stops. Nothing is assumed of
starts, crashes, expiry or the provider. `RecoveryConcludes` needs no more. The
step of a live provider is part of a process's steps because the command bounds
it with a timeout. The temporal violation in `reuse` is an action property, and
its cfg states the same fairness.

Every property of a passing run has a mutant in `PROJECT.json`: a faulty
variant, defined next to the definition it replaces, under which the run finds
the property violated.

## 4. Proofs

Seven components have machine-checked proofs, for every value of their constants:

| Module | Theorems | State |
|---|---|---|
| `DurableRunSafety` | `TypeCorrect`, `EffectsOnce`, `ProviderOnce`, `ForksHarmless`, `WholeTurnVerified` | `TypeOK`, `EffectAtMostOnce`, `ProviderAtMostOnce`, `ForksSpareEffects`, `VerifierSeesWholeTurn` |
| the same | `EventsAreTrue`, `PassedEarned`, `AbandonedStays`, `ExpiryFreezes`, `RunKeepsPromise` | `JournalTrailsDisk`, `PassedIsEarned`, `UnknownIsFinal`, `ExpiryFreezesEffects`, and that a run implements `RunPromise` |
| `MissionStoreSafety` | `TypeCorrect`, `SidecarsBelong`, `AlwaysRecoverable`, `Atomic` | `TypeOK`, `SidecarsMatch`, `NeverStuck`, and that the store implements `MissionLedger` |
| `IssueRepairSafety` | `TypeCorrect`, `RecordedOnce`, `RepliesTrue`, `LostReplyRecovered`, `OnlyTwoWaysToInvalid` | all properties of `issue_repair` |
| `MissionLifecycleSafety` | `TypeCorrect`, `AllowedEarned`, `FinalReadyComplete`, `HaltIsHeld`, `ActivePresentsWork`, `SlicesPassInOrder`, `ResumeReturns` | all properties of `mission_lifecycle` |
| `SoakCanarySafety` | `StartedOnce` | `LaunchedOnce` |
| the same | `ReloadsItsOwnHolds`, `CompletionIsEarnedHolds`, `AcceptedIsBuiltHolds`, `PromotedIsBackedHolds`, `CanaryTyped`, `AttemptIsLeftHolds` | `ReloadsItsOwn`, `CompletionIsEarned`, `AcceptedIsBuilt`, `PromotedIsBacked`, `TypeOK`, and `AttemptIsLeft`, a part of `ReloadsItsOwn` |
| the same | `PlanCoversWorstCaseHolds`, `PlanIsHonouredHolds` | `PlanCoversWorstCase`, `PlanIsHonoured`; they rest on the lemmas of `SoakPlanSafety` |
| `TerminalImportSafety` | `DoneMeansDoneHolds`, `HistoricalIsNotFinalHolds` | all properties of `terminal_index` |
| `GitVerifySafety` | `AcceptedWasThereHolds`, `TypeCorrect` | `AcceptedWasThere`, `TypeOK` |

### A durable run

None of the properties is inductive by itself. `TypeOK` is proved with `ProcOK`, which
says what a process at each point holds (a file to create is an event file, an
effect in hand is an effect of the turn). The safety invariant is

    SafeInv == PlaceInv /\ KnownInv /\ WriterInv /\ EffectInv /\ ProviderInv

and its idea is a *slot argument*. The journal has no lock, so why can two
processes not both perform an effect? Because every event before the
verification has exactly one sequence number it can ever be created under: the
i-th provider event has number i - 1, the intent of effect e has 4 + 2e, its
completion 5 + 2e, and everything after has at least 6 + 2N (`PlaceInv`). Two
processes that both find effect e fresh therefore try to create *the same file
name*, and create-only lets one of them through (`WriterInv`). `KnownInv` says
that a process past effect e knows its completion on disk, `EffectInv` that an
effect is performed only by the creator of its intent and before its completion,
`ProviderInv` the same for the provider process. The lemmas `NextNumber`,
`StepPlace` and `EffectSlot` do the counting: a contiguous journal in which the
right events are present has just the size that makes the next number the
event's slot. Forks are possible exactly where slots are not unique: the first
event, whose authority differs, and the verification and terminal events.

`TruthInv` adds that what is written is true. Its idea is that the facts an event
tells of (a retained output, a performed effect, a recorded report, a published
record) are facts that stay (`Grows`), so an event that was true when its process
decided to write it is true when it reaches the disk, however many others acted in
between: every file is `Honest`, every process `KnowsTruth` of what it is about to
write, and a Passed record is `Earned`.

For the refinement, `StepKinds` divides the steps into those that an observer cannot
see (`QuietStep`) and six that he can: the provider's run, an execution, the
creation and the completion of an event file, the publication of a record, an expiry. Each
of the six is mapped to a step of `RunPromise` or to a stutter with the invariants above.

### The Mission store

A crash may come at any moment, so the invariant describes every moment as what a
crash would leave there:

    IInv == TypeOK /\ Resting /\ \A c \in Clients : ClientInv(c)

`Resting` says of the files alone that without a journal the record has its
sidecars, that a committed marker names what is on disk, and that a prepared journal
can be undone however far its operation, or an earlier undo, got. `ClientInv` says, per
label, what the holder of the lock has done so far. `Atomic` rests on the observation
that what the journal exposes (the pre-image while it is prepared, the record
otherwise) changes in one step of each writing operation, the commit marker or the
first record, and in no other.

### The issue-repair supervisor

The event of a request sits right after the events its checkpoint names, so a request
that is found again is found there and nowhere else (`RequestInv`); what a worker
knows is a prefix of the run (`KnowInv`); an answered worker finds its event (`AnswerInv`).
`OnlyTwoWaysToInvalid` shows that a late event and a second `run_started` are the only
ways to a state that the supervisor's own validation rejects.

### The Mission lifecycle

`GateInv(mission)`: the record is `Coherent` (a blocked Mission says by what, the counts of a
readback are those of the wave on record unless that wave has nothing ready) and an
allowed gate is `Justified`. Operations that evaluate the gate make a coherent record
a justified one (`GatedIsJustified`); the others leave alone everything the gate weighs
(`UnweighedKeeps`), except Stop, which only ends what was left to do.

`LoopInv` is about the ledgers. Most operations are `Moves`: at most one more entry in
each ledger, none of them a pause or a slice, and `Presents`, which compares the record before and
after: an active one is on an open route and shows the pause notice only if it did, or if a
document that was not held names it. One lemma (`MovesKeep`) then covers them all, and
`StepPresents` adds what the operations that are no moves make of the presented place.
An import may announce what its document names because `Importable` refuses a document
that is held (`ImportPresents`). Resume is a move because each of the places it
tries has passed the test of a usable place (`ResumeStateIsUsable`). What remains are the
three operations that are no moves. A pause writes the only kind of entry that resume looks for first, and
only when the place is usable, so the last such entry is the one of this pause
(`Marked`); compaction keeps the end of the ledger, so if it keeps any pause it keeps the last; a
slice is one more than the largest that passed, and the largest exists because the
slice passed at a position is at most that position (`Ordered`).

### The soak canary

Why does no restart start a test twice, when a child outlives its runner and a write may
fail after it happened? The invariant `IInv` of `SoakCanarySafety` says that every child
has an attempt on disk that was reserved (`Holds`), that no attempt of a node has passed
while its child runs (`Unpassed`), and that in memory a node with a passed attempt is
completed (`Settled`). A restart that finds nothing to block it has only passed attempts
and the transient failure, which was never reserved; so every child has passed, none
runs, and every node with a child is completed and its turn does not come (`ResumeKeeps`).
Within a run, a turn begins with no child running and every child's node completed
(`TurnInv`), and the current node is not, so its child is the only one.

Why can a restart load what a crash left? The checkpoint is a list of attempts and a
log of events that each carry a digest of their attempt; the validator recomputes those
digests from the attempt as it is *now*. The second part of the module therefore keeps, beside
`IInv`, that of every stored checkpoint each attempt is reserved, running or ended, with
just the sequence numbers, result and outcome of that state (`AttemptKept`), that no two
attempts are the same (`Distinct`), that each event says what its attempt would still say of
that moment (`EventsKept`), and that the derived fields agree with the attempts (`Counted`):
together `Shape`. A transition goes on with an attempt that has not ended, or adds one
(`Proper`); it changes only fields that the events already written do not
mention (`RecordsKept`), so it makes a `Shape` of a `Shape` (`ShapeMade`). What a
`Shape` lacks of a valid checkpoint is exactly `Unreadable` (`ShapeIsValid`). `Numbered` gives
what the executor relies on silently: the attempt it is about to reserve has no twin, because
only the transient failure leaves a first attempt without its node being completed.

`CompletionIsEarned` adds to this where a passing outcome comes from: what the runner
collected is what the child did (`CollectedInv`), and the judgement of an attempt is one of
known outcomes and never better than what was observed (`Judgement`). So a stored
passing attempt has a child that ran to its end with the planned number of passes (`Truthful`),
and the reconciliation, which counts attempts, counts children.

`AcceptedIsBuilt` is about the documents alone: what is admitted is what no check objects to,
and each conflict that did not occur binds some fields of the manifest to the other
documents. Together they bind all of them (`AdmittedIsBuilt`), also the two that no check
compares with the input: the dimension, because the command of a partition agrees with the one
catalog entry of its test (`BoundIsPlanned`), and the flags that the activation fills from the
plan, because a plan that may be activated has no conflict of its own (`AllowedIsQuiet`).

`PromotedIsBacked` needs two things. The first is that a canary which kept its lease and completed
all its nodes *succeeds on paper* (`Succeeds`): the terminal index computed from its documents is
ordered, its documents agree and their counts grow, so the index verifies and its import
is readable and done (`IndexOrdered`, `DocumentsAgree`, `CountsGrow`, `IndexVerifies`,
`ImportReads`); an admitted canary that reconciles without a finding does succeed
(`FinishedSucceeds`). The second is that what is published is determined by the
checkpoint on disk: `PublishedInv` says that every published file is absent or the one of that
checkpoint, whichever run wrote it; that once the first file of a completion is there the checkpoint no
longer changes; that a run has published what the files it has done need (`Underway`); and that
the final summary never stands alone. A publication repeated after a crash therefore writes
the same files over the same files.

`TypeOK` and `AttemptIsLeft`, the second part of `ReloadsItsOwn`, count. An attempt is known by its key, its node and number
(`Distinct`); an admitted canary has as many keys as planned nodes, and one more for the
second attempt of the retry node (`AdmittedCounts`, `FewKeys`), so a checkpoint, whose
attempts map one to one into the keys, has at most `MaximumAttempts` (`AttemptsFit`), and
children, which have distinct nodes, are at most as many as planned (`FewChildren`). The
attempt that a turn is about to make has a key that is admitted and not used yet
(`NextKey`): so there is one fewer attempt than keys, and it is left. The retry node is a regular
one because the manifest's check binds it to a regular partition, which is why a retry of the scale test
is never asked for. `TimeInv` says beside this that what the runner measures lies
between two instants of the clock, and `AroundInv` what the runner's surroundings may be.

`PlanCoversWorstCase` is about sums of any length, so `SoakPlanSafety` first proves by
induction over the subsets of a finite set (`EverySubset`) what sums do: they grow with their parts,
a part of a sum of naturals is at most the whole (`SumOfPart`), and an injection does not change
them (`SumInjective`). The planner's arithmetic saturates, but remembers that it did: a total
without an overflow is the sum (`TotalSum`). Counting the samples up to a place of the sorted list
shows that the estimate is the nearest rank (`NearestRank`). The retry budget is
spent greedily, on the costliest partitions first. Any other placement of as many retries costs no
more, because wherever it puts a retry that the greedy one does not, the greedy one has put one that
is at least as costly (`CostliestFirst`, `SpendCovers`); so what the plan counts with covers the worst case.

`PlanIsHonoured` rests on that. `HonourInv` says of every attempt on disk or in memory that a
passed one took no longer than its estimate, that the transient failure took no time, and that only an
attempt that took longer is held against the plan. It is inductive because of what lies
behind the attempt at work (`Passes`, `NothingSpent`): the others that share its node's or the
whole canary's budget are of other nodes and passed, or are the transient failure. Their time is
then at most the sum of their estimates, at most one for each partition (`OthersFit`), and the
plan covers the estimates of all partitions (`AdmittedFits`); so a child within its own estimate
exceeds no limit of the plan (`Unexceeded`). Of the limits only those of the window, the lease's end
and the hard wall, are about the clock; these are what a child's context may be cut to beside its estimate (`EstimateIsGiven`).

### The terminal index

Documents are replaced at any time, so nothing can be said of the evidence as it is when a
Mission is shown as done. `IInv` says instead that an index that an importer holds, and
the one behind the state file, was verified against *some* documents (`Sound`). A verified index
carries its documents with it, by their digests (`DocumentsVerified`), its conclusions are
recomputed from them, and `FinalNeeds` and `FinalIsFinished` show that the conclusion "final" leaves no
document that says otherwise. `HistoricalVerifies` and `HistoricalConclusions` evaluate the
verification and the conclusions on the index that the historical build makes.

### The Git verifier

`AcceptedWasThere` is about a verifier that never sees the repository at one moment. Its
invariant is one part for each phase, and says what of the final acceptance is settled by then:

    IInv == WorldInv /\ VerifierInv
    VerifierInv == ShapeInv /\ HeadInv /\ IndexInv /\ AskInv /\ TreeInv /\ WorkInv
                   /\ WalkInv /\ AcceptedWasThere

`WorldInv` says that every repository that was seen decodes and that no edit touches its
configuration or its layout, so that places and modes mean the same throughout. `HeadInv`: the references
that were seen lead from a HEAD that was seen to where the verifier stands, in as many hops as it
counted. `AskInv` is about the stack of frames: its last frame is the look-up of the commit or
tree that was asked for, so whatever deltas and packs the object came through, its
digest is compared with that ID before it is used. `TreeInv`: the files of the commit are those found and those
below the trees still to be read, an equation that each tree keeps because its files are its
own and those of its directories (`BelowTree`, `FilesAdded`). `WorkInv`: the index names exactly those files,
which needs that its strict order makes its paths distinct (`BeforeTransitive`,
`OrderedIsDistinct`, `Agreement`), and each file behind the cursor was seen with its kind and its
content. `WalkInv`: a path that stayed during the walk is found, or below what is still to be listed
(`ChildCovers`); what is found is tracked. At the end nothing is left to list and as many are
found as tracked, so what is found is all that is tracked (finite sets of equal size), and a file that is not
tracked was not there all the time. `ShapeInv` bounds the stack by twice the depth: each level costs one
look-up and one delta.

### Assumptions, and what is left to the model checker

The theorems assume what the modules assume of their constants and nothing else: for
`DurableRun` that the number of effects is natural and that sets are disjoint where
their roles are, for `MissionStore` and `IssueRepair` that `None` is none of the
values it is compared with, for `MissionLifecycle` that counts in documents are natural
and that no objective is classified as complete, for `SoakCanary` that a manifest has the fields its type declares, with flags
that are truth values, partitions that are lists and times that are integers, that a phase starts
before the model's clock stops and the bounds of the model are natural, that the input of a plan
has lists, truth values and integers where the code declares them (`PlanInput`), that an input which
identifies itself names its Mission, and that a minute is a positive number of units, and for `TerminalImport` that documents have
integers and truth values where the code declares them. For `GitVerify` they are that the limits are positive numbers,
that `Trees` solves the equations of `FilesBelow`, and that repositories are what file systems and
decoders can give (`Repository`): no file is below another, entries are lists, sizes are numbers. They say
nothing of whether a repository is sound.
The proofs about `DurableRun` use the create-only semantics of the file system and what the
model says of a torn file; they do not hold under a power loss that takes names
back, which is what `power_loss` shows.

Only model-checked: `RecoveryConcludes`, a liveness property under fairness and outside
the prover's reach; and `QuietIsExact`, that the verifier accepts exactly the clean
repositories, no pack being removed while it looks one up. Its half that an acceptance is right follows, for a repository nobody touches, the
lines of `AcceptedWasThere`; the half that nothing clean is rejected needs what the folds over
bytes, delta commands and binary searches compute for every input, which is induction over data.

## 5. Findings

Four runs show where the code does something else than what the repository says.
Each is quoted with its line in `PROJECT.json`.

1. `reuse`: a recovery of a turn of which one effect completed and the next never
   started wants a clean workspace, which the completed effect made impossible; the
   design says to reuse the completed effect's observation.
2. `capture_terminal`: a failed run that crashes between its capture terminal and
   its terminal record can never be concluded by a recovery.
3. `power_loss`: event files are synced, the directory that names them is not; a
   power loss can take the provider intent back while the provider runs.
4. `terminal_import`: an index without a terminal document, or with a lease target below
   its minimum, verifies and is imported, but its state file is refused by every later
   import and read; the consumer contract calls imports idempotent.

### Observations

What else the models showed, none of it a run of its own.

- With a report on record and no terminal, a recovery verifies again and publishes what
  the second report says; the successor design
  (`docs/superpowers/specs/2026-08-23-...-successor-design.md:238`) says to publish the same
  result idempotently. The properties that hold (`PassedIsEarned`,
  `VerifierSeesWholeTurn`) do not depend on which report it is.
- A second `run_started` that is not a replay is appended to an active issue-repair run and
  leaves a state that every later call rejects; so does an event that waited for the
  Mission's lock past the end of its lease. `ValidUnlessLateOrRestarted` shows, and
  `OnlyTwoWaysToInvalid` proves, that these two are the only ways.
- A slice checkpoint validates its evidence before it recognises a replay, and wants
  exactly one reference with the digest; once the same bytes were imported for a second
  role, the exact replay is refused, which the release notes
  (`docs/release/V0.1.6-RELEASE-NOTES.md:22`) call idempotent.
- A soak checkpoint whose attempt is stored as `running` never validates, so a restart
  after a crash during a child answers `checkpoint_semantic_mismatch`, and the executor's
  branch for running attempts is unreachable. The same happens to attempts that ended with
  `repository_git_state_mismatch_before_launch`, which the validator's list of unlaunched
  outcomes lacks; to launched attempts whose snapshot afterwards could not be read, or
  had changed while another outcome took precedence; and after a crash between the last
  pass and the time of completion. `Unreadable` lists these states; `ReloadsItsOwn`
  shows there are no others. In each the canary fails closed.
- No lock excludes a second canary over the same checkpoint, so two could launch the same
  test; `LaunchedOnce`, and the theorem, is about one invocation at a time and any number
  of restarts.
- A child's time limit is computed before the snapshot and Git checks, so a child
  that starts after slow checks may outlive the wall by their duration.
- A canary that completed but was not promoted cannot be finalised once the 45-minute
  window is over, and one that finished before the lease's minimum stays
  `lease_minimum_not_met` for good.
- No lock spans the load of an import state and its replacement: of two overlapping
  imports the later wins. An import of a historical index is never readable afterwards,
  for the reason of finding 4.
- The Git verifier rejects some clean repositories: an index of version 4 or with
  extended entries, or extensions other than TREE, alternates, or a file replaced
  in the moment it is opened. It errs on the safe side; `QuietIsExact` is about the
  encodings it supports.
- Nor does the Git verifier look past a pack that is removed. It lists the packs once for
  each look-up (`soak_canary_git.go:935`) and opens index and pack later by name, the
  pack again for every delta (lines 967, 1128 and 1180). Git's own readers list the packs
  again when one is gone; this one rejects, so `git repack -d` or `git gc` in the middle of
  a look-up ends the verification of a clean repository that nobody edited. No wrong one is
  accepted. `QuietIsExact` excludes this case by `swept`, and only this one.

## 6. Plan

Done: the engine's durable run, the Mission store, the issue-repair supervisor, the
Mission lifecycle with its imports, the terminal index, the soak plan and canary
with its Git verifier, and the proofs and both refinements listed above. Next:

1. `DirectEngine`: lifecycle states, turns, repairs and limits of `run` and
   `run_durable`; Passed only after a passing verification of the last turn.
2. `CheckpointPair`, `NativeWrite`, `EvidenceSeal`, `ArtifactStore`: small file
   protocols with a crash after every step.
3. `JournalPrefix`: export of a verified prefix composed with its import.
4. Gateway archives and campaign slots.
5. Bounded-input modules for the pure parts: correlation chains, the event index,
   evaluation metrics, scheduler decisions.

Worth proving next: that the Git verifier is right about a repository nobody touches, the
sound half of `QuietIsExact`, from the invariant of `GitVerifySafety`.

### Not modelled

Adapters and decoding, strict JSON, argument parsing and the formatting of readbacks
are I/O or stateless checks of documents; their results appear in the models as chosen
outcomes. The components under "Next" are not modelled yet. `PROJECT.json` says of each
component what of it is left out.
