---------------------------- MODULE SoakActivation ----------------------------
(* The documents a soak canary runs on (authority, command catalog, activation  *)
(* manifest) and the validation that admits them: BuildSoakCanaryActivation and *)
(* ValidateSoakCanaryActivation of soak_canary.go. A digest of a document is    *)
(* the document; "signed" says that its own digest field matches it.            *)
EXTENDS SoakPlan

CONSTANTS
    ApprovedTests,      \* the compiled-in tests: identifier |-> classification
    ApprovedScale,      \* the one scale dimension the catalog may name
    RegularRepeat,      \* how often a regular test runs (3 in the code)
    HardWall,           \* the hard wall of every canary (45 minutes in the code)
    PlannedNodes        \* the nodes of every canary (10 in the code)

ASSUME ActivationConstants ==
    /\ HardWall \in Nat \ {0} /\ PlannedNodes \in Nat \ {0}
    /\ Cardinality(DOMAIN ApprovedTests) = PlannedNodes

MaximumAttempts == PlannedNodes + 1
ApprovedRepeat(class) == IF class = "scale" THEN 1 ELSE RegularRepeat
ApprovedDimension(class) == IF class = "scale" THEN ApprovedScale ELSE Blank

\* A planned partition as the manifest binds it.
Binding(input, partition) ==
    [id |-> partition.id, node |-> partition.node, test |-> partition.tests[1],
     class |-> partition.class, requested |-> partition.requested,
     repeat |-> partition.repeat,
     dimension |-> Catalog(input)[partition.tests[1]].dimension,
     estimate |-> partition.estimate, retryAllowance |-> partition.retryAllowance,
     perAttempt |-> input.perAttempt, totalNode |-> input.totalNode,
     nodeBudget |-> partition.nodeBudget]

\* What a manifest records beside its partitions, and which of it are flags.
ManifestFlags ==
    {"signed", "eligible", "authorized", "boundBefore", "classifiedFirst", "safe"}
ManifestFields ==
    ManifestFlags \union
    {"state", "canary", "mission", "planId", "fixture", "planInput", "policy", "head",
     "snapshot", "profile", "catalog", "authority", "phaseStart", "retryNode",
     "retryReason", "partitions"}

CanActivate(plan) == \A i \in DOMAIN plan.partitions : Len(plan.partitions[i].tests) = 1

BuildActivation(request, phaseStart, retryNode) ==
    LET input == request.input
        plan == request.plan
    IN  [signed |-> TRUE, state |-> "activated",
         canary |-> request.authority.canary, mission |-> input.mission,
         planId |-> input.planId, fixture |-> request.fixture,
         planInput |-> plan.input, policy |-> plan.policy, head |-> input.head,
         snapshot |-> request.snapshot, profile |-> input.profile,
         catalog |-> request.catalog, authority |-> request.authority,
         eligible |-> plan.allowed, authorized |-> request.authority.local,
         boundBefore |-> input.boundBefore, classifiedFirst |-> input.classifiedFirst,
         phaseStart |-> phaseStart, retryNode |-> retryNode,
         retryReason |-> "transient_infrastructure", safe |-> request.authority.safe,
         partitions |-> [i \in DOMAIN plan.partitions |->
                            Binding(input, plan.partitions[i])]]
-----------------------------------------------------------------------------
(* The conflicts each validator can raise. *)

AuthorityConflicts(request) ==
    LET authority == request.authority
    IN  When(~authority.signed, "authority_record_digest_mismatch")
        \union When(authority.canary = Blank \/ authority.mission # request.input.mission
                    \/ authority.head # request.input.head \/ ~authority.identified,
                    "authority_identity_mismatch")
        \union When(~authority.handoff, "handoff_digest_mismatch")
        \union When(authority.wall # HardWall, "authority_time_window_invalid")
        \union When(authority.nodes # PlannedNodes \/ authority.attempts # MaximumAttempts
                    \/ authority.launches # PlannedNodes \/ authority.scales # 1
                    \/ authority.retries # 1 \/ ~authority.local, "authority_scope_broadened")
        \union When(~authority.safe, "unsafe_authority_boundary")

\* A command the compiled-in catalog approves, checked field by field.
CommandConflicts(request, command) ==
    LET approved == ApprovedTests[command.test]
        repeat == ApprovedRepeat(command.class)
    IN  When(command.class # approved, "command_test_identity_mismatch")
        \union When(command.dimension # ApprovedDimension(command.class),
                    "command_scale_dimension_mismatch")
        \union When(command.repeat # repeat \/ command.effective # repeat,
                    "repeat_above_approved")
        \union When(command.timeout # request.input.perAttempt, "command_timeout_mismatch")
        \union command.defects

CatalogConflicts(request) ==
    LET commands == request.catalog.commands
        planned == {i \in FirstWith(commands, LAMBDA c : c.test) :
                        commands[i].test \in DOMAIN ApprovedTests}
    IN  When(~request.catalog.signed, "command_catalog_digest_mismatch")
        \union When(request.catalog.head # request.input.head
                    \/ request.catalog.profile # request.input.profile,
                    "execution_profile_digest_mismatch")
        \union When(Len(commands) # PlannedNodes, "command_catalog_count_mismatch")
        \union When(planned # DOMAIN commands, "unplanned_test_id")
        \union UNION {CommandConflicts(request, commands[i]) : i \in planned}

\* What the manifest repeats of the other documents.
BindingConflicts(request) ==
    LET activation == request.activation
        input == request.input
    IN  When(~activation.signed, "activation_manifest_digest_mismatch")
        \union When(activation.canary # request.authority.canary
                    \/ activation.mission # input.mission \/ activation.planId # input.planId
                    \/ activation.state # "activated", "activation_identity_mismatch")
        \union When(activation.head # input.head, "source_head_mismatch")
        \union When(activation.snapshot # request.snapshot,
                    "activation_repository_binding_mismatch")
        \union When(activation.profile # input.profile, "execution_profile_digest_mismatch")
        \union When(activation.catalog # request.catalog, "command_catalog_digest_mismatch")
        \union When(activation.authority # request.authority,
                    "authority_record_digest_mismatch")
        \union When(~(activation.eligible /\ activation.authorized /\ activation.boundBefore
                        /\ activation.classifiedFirst), "activation_predates_binding")
        \union When(activation.phaseStart # request.authority.created, "phase_clock_reset")
        \union When(~activation.safe \/ activation.safe # request.authority.safe,
                    "unsafe_authority_boundary")

\* Mutant: the budget of the node is not compared.
PlannedAsBudgetFree(request, i) ==
    LET planned == request.plan.partitions[i]
        bound == request.activation.partitions[i]
    IN  /\ Len(planned.tests) = 1
        /\ bound = [Binding(request.input, planned) EXCEPT !.dimension = bound.dimension,
                        !.nodeBudget = bound.nodeBudget]

\* The manifest's partitions are the plan's, one test each.
PlannedAs(request, i) ==
    LET planned == request.plan.partitions[i]
        bound == request.activation.partitions[i]
    IN  /\ Len(planned.tests) = 1
        /\ bound = [Binding(request.input, planned) EXCEPT !.dimension = bound.dimension]

PartitionsPlanned(request) ==
    /\ Len(request.activation.partitions) = Len(request.plan.partitions)
    /\ Len(request.activation.partitions) = PlannedNodes
    /\ \A i \in DOMAIN request.plan.partitions : PlannedAs(request, i)

\* Partitions, plan tests and commands stand in a bijection, the scale test first.
CommandsOf(request, test) ==
    {i \in DOMAIN request.catalog.commands : request.catalog.commands[i].test = test}
TestsOf(request, test) ==
    {i \in DOMAIN request.input.tests : request.input.tests[i].id = test}

Agree(request, bound) ==
    \A i \in TestsOf(request, bound.test), j \in CommandsOf(request, bound.test) :
        LET test == request.input.tests[i]
            command == request.catalog.commands[j]
        IN  /\ test.class = bound.class /\ command.class = bound.class
            /\ command.repeat = bound.requested /\ command.effective = bound.repeat
            /\ command.dimension = bound.dimension /\ test.dimension = bound.dimension

Bijective(request) ==
    LET bounds == request.activation.partitions
        tests == {bounds[i].test : i \in DOMAIN bounds}
    IN  /\ \A i, j \in DOMAIN bounds : i # j =>
            /\ bounds[i].test # bounds[j].test /\ bounds[i].id # bounds[j].id
            /\ bounds[i].node # bounds[j].node
        /\ \A i \in DOMAIN bounds :
            /\ Cardinality(TestsOf(request, bounds[i].test)) = 1
            /\ Cardinality(CommandsOf(request, bounds[i].test)) = 1
            /\ Agree(request, bounds[i])
        /\ tests = {request.input.tests[i].id : i \in DOMAIN request.input.tests}
        /\ tests = {request.catalog.commands[i].test : i \in DOMAIN request.catalog.commands}

ScaleFirst(bounds) ==
    {i \in DOMAIN bounds : bounds[i].class = "scale"} = {1}

RetryBound(activation) ==
    /\ \E i \in DOMAIN activation.partitions :
        /\ activation.partitions[i].node = activation.retryNode
        /\ activation.partitions[i].class = "regular"
    /\ activation.retryReason = "transient_infrastructure"

ManifestConflicts(request) ==
    BindingConflicts(request)
    \union When(~PartitionsPlanned(request), "activation_partition_mismatch")
    \union When(~Bijective(request), "activation_catalog_bijection_mismatch")
    \union When(~ScaleFirst(request.activation.partitions), "scale_partition_not_first")
    \union When(~RetryBound(request.activation), "controlled_retry_binding_invalid")

PlanConflicts(request) ==
    LET rebuilt == BuildSoakPlan(request.input)
        retry == request.input.retry
    IN  When(rebuilt # request.plan, "planner_readback_mismatch")
        \union When(~request.plan.allowed, "planner_activation_not_allowed")
        \union When(request.plan.input # request.activation.planInput,
                    "plan_input_digest_mismatch")
        \union When(request.plan.policy # request.activation.policy
                    \/ request.input.policy # request.activation.policy,
                    "policy_digest_mismatch")
        \union When(retry.present /\ retry.limited
                    /\ retry.total # request.authority.retries,
                    "retry_budget_authority_mismatch")
        \union When(request.fixture # request.activation.fixture,
                    "plan_fixture_digest_mismatch")

\* The documents' own conflicts. What the disk and the repository say when the
\* run starts (snapshot, Git, executable, paths) is SoakCanary's.
DocumentConflicts(request) ==
    PlanConflicts(request) \union AuthorityConflicts(request)
    \union CatalogConflicts(request) \union ManifestConflicts(request)
=============================================================================
