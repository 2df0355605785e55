------------------------------ MODULE SoakCanary ------------------------------
(* One soak canary from its documents to its promoted summary: RunSoakCanary,   *)
(* its checkpoint file, the children it launches and PersistSoakCanaryCompletion*)
(* (soak_canary.go, soak_canary_executor.go, cli_soak_canary.go). The runner    *)
(* may crash between any two steps and any checkpoint write may fail; a child   *)
(* outlives its runner. The chain of checkpoint digests is left out: the file   *)
(* is replaced whole, so a loaded chain is the one that was written.            *)
EXTENDS SoakActivation

T == INSTANCE TerminalIndex

CONSTANTS
    Requests,           \* the documents that may be asked to run, a sequence
    LastInstant,        \* bound: the clock stops here
    MaxStarts,          \* bound: invocations of the command
    MaxFaults,          \* bound: crashes, failing writes, changes to the surroundings
    MaxHeartbeats,      \* bound: heartbeats of one attempt
    Minute              \* the plan's units in a minute of the terminal documents

ASSUME MinuteAssumption == Minute \in Nat \ {0}

\* The bounds of the model are counts.
ASSUME BoundsAssumption == {LastInstant, MaxStarts, MaxFaults} \subseteq Nat

\* A manifest has the fields it declares; its partitions and those of the plan are lists,
\* flags are truth values, its phase starts before the clock stops, and the input of the
\* plan is of its types. An input that identifies itself names its mission.
ASSUME RequestsAssumption ==
    /\ Requests \in Seq(Range(Requests))
    /\ \A r \in DOMAIN Requests :
        LET activation == Requests[r].activation
            input == Requests[r].input
        IN  /\ activation = [field \in ManifestFields |-> activation[field]]
            /\ \A flag \in ManifestFlags : activation[flag] \in BOOLEAN
            /\ activation.partitions \in Seq(Range(activation.partitions))
            /\ activation.phaseStart \in 0..LastInstant
            /\ Requests[r].plan.partitions \in Seq(Range(Requests[r].plan.partitions))
            /\ Requests[r].authority.local \in BOOLEAN
            /\ PlanInput(input)
            /\ input.identified => input.mission # Blank

VARIABLES
    asked,              \* which of the requests this canary runs on
    run,                \* what the runner reads of it
    now,                \* the clock, in the plan's unit
    world,              \* what is wrong around the runner: "approved" if nothing
    disk,               \* the checkpoint file
    pc,                 \* the runner's step; "idle" when none runs
    mem,                \* the runner's checkpoint
    turn,               \* what the runner holds of the current attempt
    launches,           \* every child ever started, in order
    evidence,           \* the output files that can be read back: attempt |-> content
    summary,            \* what the last invocation answered
    published,          \* the files of the completion
    starts, faults

runner == <<pc, mem, turn>>
request == <<asked, run>>
bounds == <<starts, faults>>
vars == <<request, now, world, disk, runner, launches, evidence, summary, published, bounds>>
-----------------------------------------------------------------------------
(* Attempts, events and checkpoints. *)

RunOf(documents) ==
    [conflicts |-> DocumentConflicts(documents),
     canary |-> documents.activation.canary, mission |-> documents.input.mission,
     partitions |-> documents.activation.partitions,
     retryNode |-> documents.activation.retryNode,
     retryReason |-> documents.activation.retryReason,
     phaseStart |-> documents.activation.phaseStart,
     attempts |-> documents.authority.attempts,
     totalWithRetry |-> documents.plan.totalWithRetry, lease |-> documents.input.lease]

Partitions == run.partitions
Nodes == {Partitions[i].node : i \in DOMAIN Partitions}
PartitionOf(node) ==
    Partitions[CHOOSE i \in DOMAIN Partitions : Partitions[i].node = node]
RetryNode == run.retryNode

NoResult == [exit |-> 0, passes |-> 0, childElapsed |-> 0, elapsed |-> 0, after |-> "none"]

NewAttempt(partition, number) ==
    [node |-> partition.node, number |-> number, class |-> partition.class,
     state |-> "reserved", outcome |-> "launch_reserved",
     launched |-> FALSE, completed |-> FALSE, result |-> NoResult, stdout |-> FALSE,
     seq |-> 0, reserved |-> 0, running |-> 0, completion |-> 0]

NoCheckpoint == [present |-> FALSE]
EmptyCheckpoint ==
    [present |-> TRUE, manifest |-> run.canary, attempts |-> <<>>,
     events |-> <<>>, completed |-> {}, retryConsumed |-> FALSE,
     scaleConsumed |-> FALSE, completedAt |-> -1]

AttemptsOf(checkpoint) == Range(checkpoint.attempts)
NodeAttempts(checkpoint, node) == {a \in AttemptsOf(checkpoint) : a.node = node}

\* soakCanaryAttemptSnapshotDigest: what an attempt was when the event was written.
SnapshotAt(attempt, event, sequence) ==
    CASE event = "reserved" ->
            [attempt EXCEPT !.state = "reserved", !.outcome = "launch_reserved",
                !.launched = FALSE, !.completed = FALSE, !.result = NoResult,
                !.stdout = FALSE, !.running = 0, !.completion = 0, !.seq = attempt.reserved]
      [] event \in {"running", "heartbeat"} ->
            [attempt EXCEPT !.state = "running", !.outcome = "running",
                !.completed = FALSE, !.result = NoResult, !.stdout = FALSE,
                !.completion = 0,
                !.seq = IF event = "heartbeat" THEN sequence ELSE attempt.running]
      [] OTHER -> attempt

\* persistSoakCanaryAttemptTransition up to the write: index 0 appends.
Transition(checkpoint, index, given, event) ==
    LET sequence == Len(checkpoint.events) + 1
        attempt ==
            CASE event = "reserved" -> [given EXCEPT !.seq = sequence, !.reserved = sequence]
              [] event = "running" -> [given EXCEPT !.seq = sequence, !.running = sequence]
              [] event = "completed" ->
                    [given EXCEPT !.seq = sequence, !.completion = sequence]
              [] OTHER -> [given EXCEPT !.seq = sequence]
        entry == [name |-> event, node |-> attempt.node, number |-> attempt.number,
                  snapshot |-> SnapshotAt(attempt, event, sequence)]
    IN  [checkpoint EXCEPT
            !.attempts = IF index = 0 THEN Append(@, attempt) ELSE [@ EXCEPT ![index] = attempt],
            !.events = Append(@, entry),
            !.retryConsumed = @ \/ (event = "completed"
                                    /\ attempt.outcome = "transient_infrastructure"),
            !.scaleConsumed = @ \/ (event = "reserved" /\ attempt.class = "scale"),
            !.completed = IF event = "completed" /\ attempt.outcome = "passed"
                          THEN @ \union {attempt.node} ELSE @]
-----------------------------------------------------------------------------
(* What a restart believes of a stored checkpoint: LoadSoakCanaryCheckpoint and *)
(* validateSoakCanaryCheckpoint.                                                *)

\* Mutant: an attempt whose child did not start is not known to be unlaunched.
NeverLaunchedShort ==
    {"repository_snapshot_mismatch_before_launch",
     "executable_provenance_mismatch_before_launch", "execution_budget_exhausted"}

NeverLaunched == {"child_process_start_failed", "repository_snapshot_mismatch_before_launch",
                  "executable_provenance_mismatch_before_launch", "execution_budget_exhausted"}

ValidNumber(attempt) ==
    attempt.number \in IF attempt.node = RetryNode THEN 1..2 ELSE {1}

ValidCompletion(attempt) ==
    CASE attempt.outcome = "transient_infrastructure" ->
            /\ attempt.node = RetryNode /\ attempt.number = 1
            /\ ~attempt.launched /\ attempt.reserved = 0 /\ attempt.running = 0
      [] attempt.outcome \in NeverLaunched ->
            ~attempt.launched /\ attempt.reserved > 0 /\ attempt.running = 0
      [] OTHER ->
            /\ attempt.launched /\ attempt.reserved > 0
            /\ attempt.running > attempt.reserved /\ attempt.completion > attempt.running
            /\ attempt.result.after # "none"
            /\ attempt.result.elapsed >= attempt.result.childElapsed
            /\ attempt.outcome = "passed" =>
                /\ attempt.result.exit = 0
                /\ attempt.result.passes = PartitionOf(attempt.node).repeat

ValidState(attempt) ==
    CASE attempt.state = "reserved" ->
            /\ attempt.outcome = "launch_reserved" /\ ~attempt.launched
            /\ attempt.reserved > 0 /\ attempt.running = 0 /\ attempt.completion = 0
            /\ ~attempt.completed /\ attempt.seq = attempt.reserved
      [] attempt.state = "running" ->
            /\ attempt.outcome = "running" /\ attempt.launched /\ attempt.reserved > 0
            /\ attempt.running > attempt.reserved /\ attempt.completion = 0
            /\ ~attempt.completed
      [] OTHER ->
            /\ attempt.completion > 0 /\ attempt.completed
            /\ attempt.seq = attempt.completion /\ ValidCompletion(attempt)

ValidAttempt(attempt, checkpoint) ==
    /\ attempt.node \in Nodes /\ attempt.class = PartitionOf(attempt.node).class
    /\ attempt.seq \in 1..Len(checkpoint.events)
    /\ attempt.class = "scale" => attempt.number = 1
    /\ ValidNumber(attempt) /\ ValidState(attempt)
    /\ ~attempt.launched => attempt.result.after = "none"
    /\ attempt.launched /\ attempt.outcome # "repository_snapshot_mismatch"
        => attempt.result.after = "approved"

ValidEvent(i, checkpoint) ==
    LET event == checkpoint.events[i]
    IN  \E attempt \in AttemptsOf(checkpoint) :
            /\ attempt.node = event.node /\ attempt.number = event.number
            /\ event.snapshot = SnapshotAt(attempt, event.name, i)
            /\ CASE event.name = "reserved" -> attempt.reserved = i
                 [] event.name = "running" -> attempt.running = i
                 [] event.name = "heartbeat" ->
                        /\ i > attempt.running
                        /\ attempt.completion > 0 => i < attempt.completion
                 [] OTHER -> attempt.completion = i

Passed(checkpoint) ==
    {a.node : a \in {b \in AttemptsOf(checkpoint) : b.outcome = "passed"}}

ValidCheckpoint(checkpoint) ==
    /\ checkpoint.manifest = run.canary
    /\ \A i, j \in DOMAIN checkpoint.attempts : i # j =>
        \/ checkpoint.attempts[i].node # checkpoint.attempts[j].node
        \/ /\ checkpoint.attempts[i].number # checkpoint.attempts[j].number
           /\ "passed" \notin {checkpoint.attempts[i].outcome} \intersect
                              {checkpoint.attempts[j].outcome}
    /\ \A attempt \in AttemptsOf(checkpoint) : ValidAttempt(attempt, checkpoint)
    /\ \A i \in DOMAIN checkpoint.events : ValidEvent(i, checkpoint)
    /\ checkpoint.completed = Passed(checkpoint)
    /\ checkpoint.retryConsumed =
        \E a \in AttemptsOf(checkpoint) : a.outcome = "transient_infrastructure"
    /\ checkpoint.scaleConsumed =
        \E a \in AttemptsOf(checkpoint) : a.class = "scale" /\ a.reserved > 0
    /\ (checkpoint.completedAt >= 0) = (checkpoint.completed = Nodes)

Retryable(attempt) ==
    /\ attempt.node = RetryNode /\ attempt.number = 1 /\ attempt.state = "completed"
    /\ attempt.outcome = run.retryReason
    /\ ~attempt.launched /\ attempt.reserved = 0 /\ attempt.running = 0

\* The first attempt in the file that forbids going on, and why.
Blocks(attempt) ==
    \/ attempt.state \in {"reserved", "running"}
    \/ attempt.outcome # "passed" /\ ~Retryable(attempt)

BlockCode(attempt) ==
    IF attempt.state = "completed" THEN "failed_attempt_terminal"
    ELSE IF attempt.class = "scale" THEN "indeterminate_scale_launch"
    ELSE "indeterminate_child_launch"
-----------------------------------------------------------------------------
(* The limits of one attempt. *)

Least(a, b) == IF a <= b THEN a ELSE b
Most(a, b) == IF a >= b THEN a ELSE b
Elapsed(attempt) == attempt.result.elapsed
TotalElapsed(attempts) == SumFunction([a \in attempts |-> Elapsed(a)])
SinceStart == now - run.phaseStart
LeaseMaximum == run.lease.max

\* soakCanaryAttemptContextLimit: the time the child is given.
ContextLimit(checkpoint, node) ==
    LET partition == PartitionOf(node)
        spent == TotalElapsed({a \in NodeAttempts(checkpoint, node) : a.state = "completed"})
        base == Least(partition.perAttempt,
                  Least(Least(HardWall, LeaseMaximum) - SinceStart,
                        Least(partition.totalNode, partition.nodeBudget) - spent))
    IN  IF Cardinality(NodeAttempts(checkpoint, node)) > 1
        THEN Least(base, partition.retryAllowance) ELSE base

\* evaluateSoakCanaryLimits, in the order soakCanaryPrimaryLimitConflict picks one.
LimitCodes ==
    <<"hard_wall_reached", "lease_maximum_exceeded", "per_attempt_timeout_exceeded",
      "retry_allowance_exceeded", "total_node_timeout_exceeded", "node_budget_exceeded",
      "aggregate_duration_exceeded">>

Exceeds(checkpoint, attempt, code) ==
    LET partition == PartitionOf(attempt.node)
        others == {a \in AttemptsOf(checkpoint) :
                    /\ a.state = "completed"
                    /\ a.node # attempt.node \/ a.number # attempt.number}
        node == Elapsed(attempt) + TotalElapsed({a \in others : a.node = attempt.node})
        aggregate == Elapsed(attempt) + TotalElapsed({a \in others : a.launched})
    IN  CASE code = "hard_wall_reached" -> SinceStart > HardWall
          [] code = "lease_maximum_exceeded" -> SinceStart > LeaseMaximum
          [] code = "per_attempt_timeout_exceeded" ->
                attempt.result.childElapsed > partition.perAttempt
          [] code = "retry_allowance_exceeded" ->
                attempt.number > 1 /\ Elapsed(attempt) > partition.retryAllowance
          [] code = "total_node_timeout_exceeded" -> node > partition.totalNode
          [] code = "node_budget_exceeded" -> node > partition.nodeBudget
          [] OTHER -> run.totalWithRetry > 0 /\ aggregate > run.totalWithRetry

ExceededLimits(checkpoint, attempt) ==
    {i \in DOMAIN LimitCodes : Exceeds(checkpoint, attempt, LimitCodes[i])}

\* Mutant: an attempt that takes all of its time has taken too much.
JudgeAtLimit(checkpoint, attempt, observed) ==
    IF Elapsed(attempt) >= PartitionOf(attempt.node).perAttempt
    THEN "per_attempt_timeout_exceeded" ELSE observed

\* A later reason replaces an earlier one: the attempt's result, its elapsed
\* time against the plan, then the limits.
Judge(checkpoint, attempt, observed) ==
    LET partition == PartitionOf(attempt.node)
        exceeded == ExceededLimits(checkpoint, attempt)
        first == CHOOSE i \in exceeded : \A j \in exceeded : i <= j
    IN  CASE exceeded # {} -> LimitCodes[first]
          [] exceeded = {} /\ Elapsed(attempt) > partition.perAttempt ->
                "per_attempt_timeout_exceeded"
          [] exceeded = {} /\ Elapsed(attempt) \in (partition.estimate + 1)..partition.perAttempt ->
                "actual_duration_above_estimate"
          [] OTHER -> observed
-----------------------------------------------------------------------------
(* Answers. *)

NoSummary == [status |-> "none"]
Answer(status, codes) == [status |-> status, codes |-> codes]

Finish(status, codes) ==
    /\ summary' = Answer(status, codes)
    /\ pc' = "idle" /\ mem' = NoCheckpoint /\ turn' = [index |-> 0]

Fail(code) == Finish("failed", {code})

\* A write of the checkpoint: it happens, it fails, or it happens and fails.
Written(checkpoint) == disk' = checkpoint /\ UNCHANGED faults
WriteFails(checkpoint) ==
    /\ faults < MaxFaults
    /\ faults' = faults + 1
    /\ disk' \in {disk, checkpoint}

\* A transition that must be stored before the runner goes on to step `next'.
StoreOrStop(checkpoint, next, keep) ==
    \/ /\ Written(checkpoint)
       /\ mem' = checkpoint /\ pc' = next /\ turn' = keep
       /\ UNCHANGED summary
    \/ /\ WriteFails(checkpoint)
       /\ Finish("failed", {"checkpoint_write_failed"})

Surroundings == <<request, now, world, launches, evidence, published, starts>>
-----------------------------------------------------------------------------
(* Starting: the documents, the surroundings and the window are checked, then   *)
(* the checkpoint is loaded or created.                                         *)

WorldConflicts ==
    When(world \in {"tree", "unreadable"}, "repository_snapshot_digest_mismatch")
    \union When(world = "git", "repository_git_state_mismatch")
    \union When(world = "executable", "unapproved_executable")

OutsideWindow == SinceStart < 0 \/ SinceStart > HardWall

Start ==
    /\ pc = "idle" /\ starts < MaxStarts
    /\ starts' = starts + 1
    /\ LET codes == run.conflicts \union WorldConflicts
       IN  \/ /\ codes # {}
              /\ Finish("rejected", codes)
           \/ /\ codes = {} /\ OutsideWindow
              /\ Finish("rejected", {"authority_time_window_expired"})
           \/ /\ codes = {} /\ ~OutsideWindow
              /\ pc' = "load"
              /\ UNCHANGED <<mem, turn, summary>>
    /\ UNCHANGED <<request, now, world, disk, launches, evidence, published, faults>>

\* The checkpoint is created empty when there is none.
Create ==
    /\ pc = "load" /\ ~disk.present
    /\ \/ /\ Written(EmptyCheckpoint)
          /\ mem' = EmptyCheckpoint /\ pc' = "turn"
          /\ UNCHANGED <<turn, summary>>
       \/ /\ WriteFails(EmptyCheckpoint)
          /\ Finish("rejected", {"checkpoint_invalid"})
    /\ UNCHANGED Surroundings

AfterLoad == IF disk.completed = Nodes THEN "reconcile" ELSE "turn"

\* A stored checkpoint must be valid, and no attempt in it may be open or failed.
Resume ==
    /\ pc = "load" /\ disk.present
    /\ LET blocking == {i \in DOMAIN disk.attempts : Blocks(disk.attempts[i])}
           first == CHOOSE i \in blocking : \A j \in blocking : i <= j
       IN  \/ /\ ~ValidCheckpoint(disk)
              /\ Finish("rejected", {"checkpoint_semantic_mismatch"})
           \/ /\ ValidCheckpoint(disk) /\ blocking # {}
              /\ Finish("failed", {BlockCode(disk.attempts[first])})
           \/ /\ ValidCheckpoint(disk) /\ blocking = {}
              /\ mem' = disk
              /\ pc' = AfterLoad
              /\ UNCHANGED <<turn, summary>>
    /\ UNCHANGED <<Surroundings, disk, faults>>
-----------------------------------------------------------------------------
(* The turn of a node: the first partition that has not passed.                 *)

Open == {i \in DOMAIN Partitions : Partitions[i].node \notin mem.completed}
Current == Partitions[CHOOSE i \in Open : \A j \in Open : i <= j]

HardWallReached ==
    /\ pc = "turn" /\ Open # {} /\ SinceStart >= HardWall
    /\ Fail("hard_wall_reached")
    /\ UNCHANGED <<Surroundings, disk, faults>>

TakesRetry == Current.node = RetryNode /\ ~mem.retryConsumed

\* The designated node's first attempt is recorded as a transient failure that
\* never started a child.
RecordTransient ==
    /\ pc = "turn" /\ Open # {} /\ SinceStart < HardWall /\ TakesRetry
    /\ LET attempt == [NewAttempt(Current, 1) EXCEPT
                !.state = "completed", !.completed = TRUE,
                !.outcome = "transient_infrastructure", !.result.exit = -1]
       IN  StoreOrStop(Transition(mem, 0, attempt, "completed"), "reserve", turn)
    /\ UNCHANGED Surroundings

\* Mutant: attempts are numbered from zero.
NextNumberFromZero == Cardinality(NodeAttempts(mem, Current.node))

NextNumber == Cardinality(NodeAttempts(mem, Current.node)) + 1
AttemptLeft ==
    /\ NextNumber <= IF Current.class = "scale" THEN 1 ELSE 2
    /\ Len(mem.attempts) < run.attempts

\* The launch is reserved on disk before anything else. The code also refuses a
\* node without an attempt left, which AttemptIsLeft shows never to happen.
Reserves ==
    \/ pc = "reserve"
    \/ pc = "turn" /\ Open # {} /\ SinceStart < HardWall /\ ~TakesRetry

\* Mutant: the reservation is kept in memory only.
ReserveInMemory ==
    /\ Reserves /\ AttemptLeft
    /\ mem' = Transition(mem, 0, NewAttempt(Current, NextNumber), "reserved")
    /\ pc' = "limit" /\ turn' = [index |-> Len(mem.attempts) + 1, started |-> now]
    /\ UNCHANGED <<Surroundings, disk, summary, faults>>

Reserve ==
    /\ Reserves /\ AttemptLeft
    /\ StoreOrStop(Transition(mem, 0, NewAttempt(Current, NextNumber), "reserved"),
                   "limit", [index |-> Len(mem.attempts) + 1, started |-> now])
    /\ UNCHANGED Surroundings

Attempt == mem.attempts[turn.index]

\* An attempt that ends before its child starts.
EndUnlaunched(outcome, elapsed, code) ==
    LET attempt == [Attempt EXCEPT
            !.state = "completed", !.completed = TRUE, !.outcome = outcome,
            !.result.exit = -1, !.result.elapsed = elapsed]
        checkpoint == Transition(mem, turn.index, attempt, "completed")
    IN  \/ Written(checkpoint) /\ Finish("failed", {code})
        \/ WriteFails(checkpoint) /\ Finish("failed", {"checkpoint_write_failed"})

\* The time left is computed once, before the repository is checked again.
Limit ==
    /\ pc = "limit"
    /\ LET limit == ContextLimit(mem, Attempt.node)
       IN  \/ /\ limit <= 0
              /\ EndUnlaunched("execution_budget_exhausted", 0, "execution_budget_exhausted")
           \/ /\ limit > 0
              /\ pc' = "check"
              /\ turn' = [index |-> turn.index, started |-> turn.started, limit |-> limit]
              /\ UNCHANGED <<mem, disk, summary, faults>>
    /\ UNCHANGED Surroundings

PreLaunchOutcome ==
    CASE world = "executable" ->
            [outcome |-> "executable_provenance_mismatch_before_launch",
             code |-> "executable_provenance_mismatch", elapsed |-> 0]
      [] world = "git" ->
            [outcome |-> "repository_git_state_mismatch_before_launch",
             code |-> "repository_git_state_mismatch", elapsed |-> now - turn.started]
      [] OTHER ->
            [outcome |-> "repository_snapshot_mismatch_before_launch",
             code |-> "repository_snapshot_mismatch", elapsed |-> now - turn.started]

Check ==
    /\ pc = "check"
    /\ \/ /\ world = "approved"
          /\ pc' = "launch"
          /\ UNCHANGED <<mem, turn, disk, summary, faults>>
       \/ /\ world # "approved"
          /\ EndUnlaunched(PreLaunchOutcome.outcome, PreLaunchOutcome.elapsed,
                           PreLaunchOutcome.code)
    /\ UNCHANGED Surroundings

NewChild == [node |-> Attempt.node, number |-> Attempt.number, started |-> now,
             deadline |-> now + turn.limit, exited |-> FALSE, exit |-> 0, passes |-> 0,
             elapsed |-> 0]

Launch ==
    /\ pc = "launch"
    /\ launches' = Append(launches, NewChild)
    /\ pc' = "launched"
    /\ turn' = [index |-> turn.index, started |-> turn.started,
                child |-> Len(launches) + 1, late |-> FALSE]
    /\ UNCHANGED <<request, now, world, disk, mem, evidence, summary, published, bounds>>

LaunchFails ==
    /\ pc = "launch" /\ faults < MaxFaults
    /\ LET attempt == [Attempt EXCEPT
                !.state = "completed", !.completed = TRUE,
                !.outcome = "child_process_start_failed",
                !.result.exit = -1, !.result.elapsed = now - turn.started]
           checkpoint == Transition(mem, turn.index, attempt, "completed")
       IN  \/ /\ disk' = checkpoint
              /\ Finish("failed", {"child_process_start_failed"})
           \/ /\ UNCHANGED disk
              /\ Finish("failed", {"checkpoint_write_failed"})
    /\ faults' = faults + 1
    /\ UNCHANGED Surroundings

\* The running checkpoint. When it cannot be stored the child is cancelled, and
\* collected all the same.
RecordRunning ==
    /\ pc = "launched"
    /\ LET attempt == [Attempt EXCEPT
                !.launched = TRUE, !.state = "running", !.outcome = "running"]
           checkpoint == Transition(mem, turn.index, attempt, "running")
       IN  /\ mem' = checkpoint
           /\ \/ Written(checkpoint) /\ pc' = "wait" /\ UNCHANGED launches
              \/ /\ WriteFails(checkpoint) /\ pc' = "reap"
                 /\ launches' = [launches EXCEPT ![turn.child].deadline = Least(@, now)]
    /\ UNCHANGED <<request, now, world, turn, evidence, summary, published, starts>>

Beats == {i \in DOMAIN mem.events :
            mem.events[i].name = "heartbeat" /\ mem.events[i].node = Attempt.node}

\* A heartbeat rewrites the checkpoint; after one failure no more are written.
Heartbeat ==
    /\ pc = "wait" /\ ~turn.late /\ Cardinality(Beats) < MaxHeartbeats
    /\ LET checkpoint == Transition(mem, turn.index, Attempt, "heartbeat")
       IN  /\ mem' = checkpoint
           /\ \/ Written(checkpoint) /\ UNCHANGED turn
              \/ WriteFails(checkpoint) /\ turn' = [turn EXCEPT !.late = TRUE]
    /\ UNCHANGED <<Surroundings, pc, summary>>

\* The child ends by itself or is killed once its time is up.
ChildExits(i) ==
    /\ i \in DOMAIN launches /\ ~launches[i].exited
    /\ \E exit \in {0, 1}, passes \in {0, PartitionOf(launches[i].node).repeat} :
        /\ exit = 1 => passes = 0
        /\ now > launches[i].deadline => exit = 1
        /\ launches' = [launches EXCEPT ![i] = [@ EXCEPT
                !.exited = TRUE, !.exit = exit, !.passes = passes,
                !.elapsed = now - launches[i].started, !.started = 0, !.deadline = 0]]
    /\ UNCHANGED <<request, now, world, disk, runner, evidence, summary, published, bounds>>
-----------------------------------------------------------------------------
(* Collecting: outputs are stored, the surroundings checked, the outcome judged *)
(* and the completion stored.                                                   *)

AfterSnapshot ==
    CASE world = "unreadable" -> "none" [] world = "tree" -> "changed" [] OTHER -> "approved"

\* The later check decides: exit and passes, then snapshot, Git and executable.
Observed(attempt, wrote) ==
    CASE world \in {"tree", "unreadable"} -> "repository_snapshot_mismatch"
      [] world = "git" -> "repository_git_state_mismatch"
      [] world = "executable" -> "executable_provenance_mismatch"
      [] ~wrote -> "stdout_evidence_write_failed"
      [] wrote /\ turn.late -> "heartbeat_checkpoint_write_failed"
      [] wrote /\ ~turn.late /\ attempt.result.exit # 0 -> "test_failure"
      [] wrote /\ ~turn.late /\ attempt.result.exit = 0
         /\ attempt.result.passes # PartitionOf(attempt.node).repeat ->
            "go_event_count_mismatch"
      [] OTHER -> "passed"

Key(attempt) == <<attempt.node, attempt.number>>

\* An output file is created, or written over.
EvidenceWith(key, content) ==
    [other \in DOMAIN evidence \union {key} |->
        IF other = key THEN content ELSE evidence[other]]

Collect ==
    /\ pc \in {"wait", "reap"} /\ launches[turn.child].exited
    /\ \E wrote \in BOOLEAN :
        /\ wrote \/ faults < MaxFaults
        /\ faults' = IF wrote THEN faults ELSE faults + 1
        /\ LET child == launches[turn.child]
               attempt == [Attempt EXCEPT !.stdout = wrote,
                    !.result = [exit |-> child.exit, passes |-> child.passes,
                                childElapsed |-> child.elapsed, elapsed |-> 0,
                                after |-> AfterSnapshot]]
           IN  /\ turn' = [index |-> turn.index, started |-> turn.started, attempt |-> attempt,
                           observed |-> IF pc = "reap"
                                        THEN "running_checkpoint_write_failed_reaped"
                                        ELSE Observed(attempt, wrote)]
               /\ evidence' = IF wrote THEN EvidenceWith(Key(attempt), child.passes) ELSE evidence
    /\ pc' = IF pc = "reap" THEN "reaped" ELSE "judge"
    /\ UNCHANGED <<request, now, world, disk, mem, launches, summary, published, starts>>

Timed(attempt) ==
    [attempt EXCEPT !.state = "completed", !.completed = TRUE,
        !.result.elapsed = Most(now - turn.started, attempt.result.childElapsed)]

Complete ==
    /\ pc = "judge"
    /\ LET timed == Timed(turn.attempt)
           attempt == [timed EXCEPT !.outcome = Judge(mem, timed, turn.observed)]
           checkpoint == Transition(mem, turn.index, attempt, "completed")
       IN  \/ /\ attempt.outcome = "passed"
              /\ StoreOrStop(checkpoint, "turn", [index |-> 0])
           \/ /\ attempt.outcome # "passed"
              /\ \/ Written(checkpoint) /\ Finish("failed", {attempt.outcome})
                 \/ /\ WriteFails(checkpoint)
                    /\ Finish("failed", {"checkpoint_write_failed"})
    /\ UNCHANGED Surroundings

\* The reaped attempt is stored if it can be; the run has failed either way.
Reap ==
    /\ pc = "reaped"
    /\ LET attempt == [Timed(turn.attempt) EXCEPT !.outcome = turn.observed]
           checkpoint == Transition(mem, turn.index, attempt, "completed")
       IN  /\ Written(checkpoint) \/ WriteFails(checkpoint)
           /\ Finish("failed", {"checkpoint_write_failed"})
    /\ UNCHANGED Surroundings
-----------------------------------------------------------------------------
(* The end: completion time, reconciliation, publication.                       *)

Close ==
    /\ pc = "turn" /\ Open = {}
    /\ StoreOrStop([mem EXCEPT !.completedAt = now], "reconcile", turn)
    /\ UNCHANGED Surroundings

\* Mutant: the outputs are not read again.
EvidenceUnread(checkpoint) ==
    \A attempt \in AttemptsOf(checkpoint) :
        attempt.launched => attempt.result.passes = PartitionOf(attempt.node).repeat

\* VerifySoakCanaryEvidence: every output is read again.
EvidenceAgrees(checkpoint) ==
    \A attempt \in AttemptsOf(checkpoint) :
        attempt.launched =>
            /\ attempt.stdout /\ Key(attempt) \in DOMAIN evidence
            /\ evidence[Key(attempt)] = attempt.result.passes
            /\ attempt.result.passes = PartitionOf(attempt.node).repeat

Reconciled(checkpoint) ==
    LET attempts == AttemptsOf(checkpoint)
        launched == {a \in attempts : a.launched}
        of(node) == {a \in attempts : a.node = node}
        elapsed(node) == TotalElapsed(of(node))
        phase == checkpoint.completedAt - run.phaseStart
    IN  When(\E node \in Nodes : Cardinality({a \in of(node) : a.outcome = "passed"}) # 1,
             "attempt_omission_or_duplicate_completion")
        \union When(\E node \in Nodes : elapsed(node) > PartitionOf(node).totalNode,
                    "total_node_timeout_exceeded")
        \union When(\E node \in Nodes : elapsed(node) > PartitionOf(node).nodeBudget,
                    "node_budget_exceeded")
        \union When(\E node \in Nodes :
                        TotalElapsed({a \in of(node) : a.number > 1})
                            > PartitionOf(node).retryAllowance, "retry_allowance_exceeded")
        \union When(\/ Cardinality(Nodes) # PlannedNodes
                    \/ Cardinality(checkpoint.completed) # PlannedNodes
                    \/ Len(checkpoint.attempts) # MaximumAttempts
                    \/ Cardinality(launched) # PlannedNodes
                    \/ Cardinality({a \in launched : a.class = "scale"}) # 1
                    \/ Cardinality({a \in attempts :
                                        a.outcome = "transient_infrastructure"}) # 1,
                    "canary_count_mismatch")
        \union When(TotalElapsed(launched) > run.totalWithRetry,
                    "aggregate_duration_exceeded")
        \union When(phase < run.lease.min, "lease_minimum_not_met")
        \union When(phase < 0 \/ phase > LeaseMaximum \/ phase > HardWall,
                    "lease_maximum_exceeded")

Reconcile ==
    /\ pc = "reconcile"
    /\ \/ /\ ~EvidenceAgrees(mem)
          /\ Fail("attempt_output_digest_mismatch")
       \/ /\ EvidenceAgrees(mem) /\ Reconciled(mem) # {}
          /\ Finish("failed", Reconciled(mem))
       \/ /\ EvidenceAgrees(mem) /\ Reconciled(mem) = {}
          /\ pc' = "publish" /\ turn' = [done |-> {}]
          /\ UNCHANGED <<mem, summary>>
    /\ UNCHANGED <<Surroundings, disk, faults>>
-----------------------------------------------------------------------------
(* PersistSoakCanaryCompletion: every file is a function of the summary, and    *)
(* the promoted one is written last.                                            *)

Minutes(ms) == (ms + Minute - 1) \div Minute
Completion(checkpoint) ==
    [status |-> "completed", codes |-> {}, at |-> checkpoint.completedAt,
     attempts |-> checkpoint.attempts]

LeaseMinutes(checkpoint) ==
    LET lease == run.lease
        minimum == Most(Minutes(lease.min), 1)
        target == Most(Minutes(lease.target), minimum)
    IN  [minimum |-> minimum, target |-> target,
         maximum |-> Most(Minutes(lease.max), target),
         elapsed |-> Most(Minutes(checkpoint.completedAt - run.phaseStart),
                          minimum),
         status |-> "within_window"]

Artifacts == <<"lease", "root", "terminal">>

\* buildSoakCanaryTerminalIndex: the three documents and what the index says.
Document(role, checkpoint) ==
    LET minutes == LeaseMinutes(checkpoint)
        blank == [T!NoObservation EXCEPT !.mission = run.mission]
    IN  CASE role = "lease" ->
                [blank EXCEPT !.minimumNodes = PlannedNodes, !.minimumSet = TRUE,
                    !.minimum = minutes.minimum, !.target = minutes.target,
                    !.maximum = minutes.maximum]
          [] role = "root" -> [blank EXCEPT !.ready = PlannedNodes, !.next = "complete"]
          [] OTHER ->
                [blank EXCEPT !.completed = Cardinality(checkpoint.completed),
                    !.elapsed = minutes.elapsed, !.leaseStatus = "within_window",
                    !.final = TRUE, !.next = "complete"]

CanaryIndex(checkpoint) ==
    [signed |-> TRUE, safe |-> TRUE, mission |-> run.mission,
     generated |-> checkpoint.completedAt, reference |-> TRUE,
     artifacts |-> [i \in DOMAIN Artifacts |->
        [role |-> Artifacts[i], state |-> Artifacts[i], sequence |-> i - 1,
         document |-> Document(Artifacts[i], checkpoint)]],
     lineage |-> <<<<0, 1>>, <<1, 2>>>>,
     conclusions |->
        [counts |-> [total |-> PlannedNodes, minimum |-> PlannedNodes,
                     completed |-> Cardinality(checkpoint.completed),
                     ready |-> 0, blocked |-> 0, failed |-> 0],
         lease |-> LeaseMinutes(checkpoint), completion |-> TRUE, agreement |-> TRUE,
         readiness |-> TRUE, final |-> TRUE, codes |-> {}, next |-> "none"]]

Files == {"provisional", "lease", "root", "terminal", "index", "import", "ledger", "final"}

\* Mutant: the summary is promoted before the ledger is there.
NeedsLess(file) ==
    CASE file = "provisional" -> {}
      [] file \in Range(Artifacts) -> {"provisional"}
      [] file = "index" -> Range(Artifacts)
      [] file = "import" -> {"index"}
      [] OTHER -> {"import"}

Needs(file) ==
    CASE file = "provisional" -> {}
      [] file \in Range(Artifacts) -> {"provisional"}
      [] file = "index" -> Range(Artifacts)
      [] file = "import" -> {"index"}
      [] file = "ledger" -> {"import"}
      [] OTHER -> {"ledger"}

Content(file) ==
    CASE file \in Range(Artifacts) -> Document(file, mem)
      [] file = "index" -> CanaryIndex(mem)
      [] file = "import" -> T!Readback(CanaryIndex(mem), "import")
      [] file = "ledger" ->
            {T!Readback(published["import"][1].index, surface) : surface \in T!Surfaces}
      [] OTHER -> Completion(mem)

\* The bundle as it can be read back, and the answer of importing it.
Bundle == [role \in {r \in Range(Artifacts) : published[r] # <<>>} |-> published[role][1]]
Import ==
    T!ImportAnswer(published["index"][1], Bundle,
        IF published["import"] = <<>> THEN T!NoImport ELSE published["import"][1])

\* What is checked after a file's predecessors are there and before it is written.
Publishable(file) ==
    CASE file = "import" -> Import = "imported"
      [] file = "ledger" -> T!SurfacesAgree(Content("ledger"))
      [] OTHER -> TRUE

Pending == Finish("terminal_reconciliation_pending", {})

Publish(file) ==
    /\ pc = "publish" /\ file \notin turn.done /\ Needs(file) \subseteq turn.done
    /\ LET written == [published EXCEPT ![file] = <<Content(file)>>]
       IN  \/ /\ Publishable(file)
              /\ published' = written /\ UNCHANGED faults
              /\ IF file = "final"
                 THEN pc' = "promoted" /\ UNCHANGED <<mem, turn, summary>>
                 ELSE turn' = [done |-> turn.done \union {file}] /\ UNCHANGED <<pc, mem, summary>>
           \/ /\ Publishable(file) /\ faults < MaxFaults
              /\ faults' = faults + 1 /\ published' \in {published, written}
              /\ Pending
    /\ UNCHANGED <<request, now, world, disk, launches, evidence, starts>>

\* An import that finds its own state goes on; any other refusal ends the run.
ReuseImport ==
    /\ pc = "publish" /\ Needs("import") \subseteq turn.done /\ "import" \notin turn.done
    /\ Import # "imported"
    /\ \/ /\ Import = "existing"
          /\ turn' = [done |-> turn.done \union {"import"}]
          /\ UNCHANGED <<pc, mem, summary>>
       \/ Import # "existing" /\ Pending
    /\ UNCHANGED <<Surroundings, disk, faults>>

\* The provisional summary goes away and the command answers.
Promoted ==
    /\ pc = "promoted"
    /\ published' = [published EXCEPT !["provisional"] = <<>>]
    /\ summary' = Completion(mem)
    /\ pc' = "idle" /\ mem' = NoCheckpoint /\ turn' = [index |-> 0]
    /\ UNCHANGED <<request, now, world, disk, launches, evidence, bounds>>
-----------------------------------------------------------------------------
(* The surroundings. *)

Crash ==
    /\ pc # "idle" /\ faults < MaxFaults
    /\ pc' = "idle" /\ mem' = NoCheckpoint /\ turn' = [index |-> 0]
    /\ faults' = faults + 1
    /\ UNCHANGED <<Surroundings, disk, summary>>

\* Bound: time passes only where the runner waits or next reads the clock.
Waits == pc \in {"turn", "limit", "check", "wait"}
Running == {i \in DOMAIN launches : ~launches[i].exited}

Pass ==
    /\ now < LastInstant /\ now' = now + 1
    /\ \/ Waits
       \/ pc = "idle" /\ (starts < MaxStarts \/ Running # {})
    /\ UNCHANGED <<request, world, disk, runner, launches, evidence, summary, published,
                   bounds>>

Disturb ==
    /\ faults < MaxFaults
    /\ faults' = faults + 1
    /\ \/ /\ world' \in {"approved", "tree", "unreadable", "git", "executable"} \ {world}
          /\ UNCHANGED evidence
       \/ /\ \E lost \in DOMAIN evidence :
                evidence' = [key \in DOMAIN evidence \ {lost} |-> evidence[key]]
          /\ UNCHANGED world
    /\ UNCHANGED <<request, now, disk, runner, launches, summary, published, starts>>

Init ==
    /\ asked \in DOMAIN Requests /\ run = RunOf(Requests[asked])
    /\ now = run.phaseStart
    /\ world = "approved" /\ disk = NoCheckpoint
    /\ pc = "idle" /\ mem = NoCheckpoint /\ turn = [index |-> 0]
    /\ launches = <<>> /\ evidence = <<>> /\ summary = NoSummary
    /\ published = [file \in Files |-> <<>>]
    /\ starts = 0 /\ faults = 0

RunnerStep ==
    \/ Create \/ Resume \/ HardWallReached \/ RecordTransient \/ Reserve \/ Limit \/ Check
    \/ Launch \/ RecordRunning \/ Collect \/ Complete \/ Reap \/ Close \/ Reconcile
    \/ (\E file \in Files : Publish(file)) \/ ReuseImport \/ Promoted

Next ==
    \/ Start \/ RunnerStep \/ LaunchFails \/ Heartbeat \/ Crash \/ Pass \/ Disturb
    \/ \E i \in DOMAIN launches : ChildExits(i)

Spec == Init /\ [][Next]_vars
-----------------------------------------------------------------------------
(* Properties. *)

Outcomes ==
    {"child_process_start_failed", "repository_snapshot_mismatch_before_launch",
     "executable_provenance_mismatch_before_launch", "execution_budget_exhausted",
     "launch_reserved", "running", "passed", "transient_infrastructure", "test_failure",
     "go_event_count_mismatch", "repository_snapshot_mismatch",
     "repository_git_state_mismatch", "repository_git_state_mismatch_before_launch",
     "executable_provenance_mismatch", "stdout_evidence_write_failed",
     "heartbeat_checkpoint_write_failed", "running_checkpoint_write_failed_reaped",
     "actual_duration_above_estimate", "hard_wall_reached", "lease_maximum_exceeded",
     "per_attempt_timeout_exceeded", "retry_allowance_exceeded",
     "total_node_timeout_exceeded", "node_budget_exceeded", "aggregate_duration_exceeded"}

AttemptOK(attempt, checkpoint) ==
    /\ attempt.node \in Nodes /\ attempt.number \in 1..2
    /\ attempt.state \in {"reserved", "running", "completed"}
    /\ attempt.outcome \in Outcomes
    /\ attempt.result.elapsed \in 0..LastInstant
    /\ attempt.result.childElapsed \in 0..LastInstant
    /\ attempt.seq \in 1..Len(checkpoint.events)

CheckpointOK(checkpoint) ==
    checkpoint.present =>
        /\ Len(checkpoint.attempts) <= MaximumAttempts
        /\ \A attempt \in AttemptsOf(checkpoint) : AttemptOK(attempt, checkpoint)
        /\ checkpoint.completed \subseteq Nodes
        /\ checkpoint.completedAt \in -1..LastInstant

\* Types: checkpoints, children and files of the completion.
TypeOK ==
    /\ asked \in Nat \ {0} /\ now \in 0..LastInstant
    /\ world \in {"approved", "tree", "unreadable", "git", "executable"}
    /\ CheckpointOK(disk) /\ CheckpointOK(mem)
    /\ pc \in {"idle", "load", "turn", "reserve", "limit", "check", "launch", "launched",
               "wait", "reap", "judge", "reaped", "reconcile", "publish", "promoted"}
    /\ Len(launches) <= PlannedNodes /\ DOMAIN evidence \subseteq Nodes \X (1..2)
    /\ DOMAIN published = Files /\ \A file \in Files : Len(published[file]) <= 1
    /\ starts \in 0..MaxStarts /\ faults \in 0..MaxFaults

\* No test is started twice, however often the command is, and no two children run
\* at once: the reservation outlives the runner (RunSoakCanary's restart scan).
LaunchedOnce ==
    /\ \A i, j \in DOMAIN launches : i # j => launches[i].node # launches[j].node
    /\ Cardinality(Running) <= 1

\* Stored states a restart is known to reject although the runner wrote them.
Unreadable(checkpoint) ==
    \/ checkpoint.completed = Nodes /\ checkpoint.completedAt < 0
    \/ \E attempt \in AttemptsOf(checkpoint) :
        \/ attempt.state = "running"
        \/ attempt.outcome = "repository_git_state_mismatch_before_launch"
        \/ /\ attempt.launched /\ attempt.state = "completed"
           /\ \/ attempt.result.after = "none"
              \/ /\ attempt.result.after = "changed"
                 /\ attempt.outcome # "repository_snapshot_mismatch"

\* A node whose turn comes has an attempt left: scale_retry_requested and
\* second_retry_requested are never answered.
AttemptIsLeft == Reserves => AttemptLeft

\* Apart from those, every checkpoint the runner leaves behind passes the
\* validation of LoadSoakCanaryCheckpoint, so that a restart can name what failed. One
\* that goes on finds an attempt left for every node whose turn comes, also when the
\* runner died between the recorded transient failure and the retry.
ReloadsItsOwn ==
    /\ pc = "idle" /\ disk.present => ValidCheckpoint(disk) \/ Unreadable(disk)
    /\ AttemptIsLeft

\* A completion is reconciled only when every planned test has a child that ran,
\* exited with 0 and passed as often as planned, its output can be read back, the
\* designated transient failure was recorded, and the lease was kept.
CompletionIsEarned ==
    [][pc = "reconcile" /\ pc' = "publish" =>
        /\ \A node \in Nodes :
            \E i \in DOMAIN launches :
                /\ launches[i].node = node /\ launches[i].exited /\ launches[i].exit = 0
                /\ launches[i].passes = PartitionOf(node).repeat
                /\ \E number \in 1..2 : <<node, number>> \in DOMAIN evidence
        /\ \E attempt \in AttemptsOf(disk) : attempt.outcome = "transient_infrastructure"
        /\ disk.completedAt - run.phaseStart \in run.lease.min..run.lease.max]_vars

\* Whatever is reconciled can be published: its terminal index verifies, says that the
\* response is final, and its import is one that later readers accept. A promoted
\* summary is the last file to appear, the bundle it stands for verifies, its import
\* reads back as done, and the four surfaces agree, also if a crashed publication
\* is repeated over the files of the first.
PromotedIsBacked ==
    /\ pc = "publish" =>
        LET index == CanaryIndex(mem)
        IN  /\ T!Verifies(index, [role \in Range(Artifacts) |-> Document(role, mem)])
            /\ T!ValidReadback(T!Readback(index, "import"))
            /\ T!Readback(index, "import").projection = "done"
    /\ published["final"] # <<>> =>
        /\ \A file \in Files \ {"provisional"} : published[file] # <<>>
        /\ T!Verifies(published["index"][1], Bundle)
        /\ T!ValidReadback(published["import"][1])
        /\ published["import"][1].projection = "done"
        /\ published["import"][1].index = published["index"][1]
        /\ T!SurfacesAgree(published["ledger"][1])

PlannerLimits ==
    {"per_attempt_timeout_exceeded", "retry_allowance_exceeded",
     "total_node_timeout_exceeded", "node_budget_exceeded", "aggregate_duration_exceeded"}

\* A child that keeps to its planned estimate never breaks a limit of the plan, and
\* is given its estimate unless the window is nearly over.
PlanIsHonoured ==
    /\ disk.present => \A attempt \in AttemptsOf(disk) :
        attempt.outcome \in PlannerLimits => Elapsed(attempt) > PartitionOf(attempt.node).estimate
    /\ pc = "limit" =>
        ContextLimit(mem, Attempt.node) >=
            Least(PartitionOf(Attempt.node).estimate, Least(HardWall, LeaseMaximum) - SinceStart)

\* The documents are only looked at before the first start.
Untouched == starts = 0 /\ faults = 0 /\ now = run.phaseStart

\* Documents that are admitted are bound to one another: the manifest is the one
\* BuildSoakCanaryActivation makes of the other documents.
AcceptedIsBuilt ==
    Untouched /\ run.conflicts = {} =>
        LET documents == Requests[asked]
        IN  documents.activation =
                BuildActivation(documents, documents.authority.created, run.retryNode)

\* How the retries may fall on the partitions of a plan.
Extra(input, plan) == [DOMAIN plan.partitions -> 0..RetrySlots(input)]

\* The nearest rank: the least duration that 95 of 100 recorded runs kept.
KeptBy(samples, ms) == 100 * Cardinality({i \in DOMAIN samples : samples[i] <= ms})
IsRank95(samples, ms) ==
    /\ ms \in Range(samples) /\ KeptBy(samples, ms) >= 95 * Len(samples)
    /\ \A less \in Range(samples) : less < ms => KeptBy(samples, less) < 95 * Len(samples)

\* A plan that may be activated covers its worst case: it counts with the 95th
\* percentile of every test, and whichever partitions use the retries the policy
\* allows, the whole stays within the lease, and every node within its budget and
\* its total timeout.
PlanCoversWorstCase ==
    Untouched =>
        LET input == Requests[asked].input
            plan == BuildSoakPlan(input)
            cost(extra) ==
                [i \in DOMAIN plan.partitions |-> (extra[i] + 1) * plan.partitions[i].estimate]
        IN  plan.allowed =>
            /\ \A i \in DOMAIN input.history :
                IsRank95(input.history[i].samples, Estimate(input, input.history[i].test))
            /\ \A extra \in Extra(input, plan) :
                    /\ ~LimitsRetries(input) \/ SumFunction(extra) <= input.retry.total
                        => SumFunction(cost(extra)) <= input.lease.max
                    /\ \A i \in DOMAIN plan.partitions :
                        cost(extra)[i] <= Least(input.totalNode, plan.partitions[i].nodeBudget)

=============================================================================
