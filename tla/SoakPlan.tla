------------------------------- MODULE SoakPlan -------------------------------
(* The soak planner: BuildSoakPlan of soak_plan.go, a pure function from a plan *)
(* input to a read-only plan and the conflict codes that forbid its activation. *)
(* Identifiers are naturals, 0 standing for a blank one; a digest is the value  *)
(* it is taken over; durations are in an arbitrary unit, MaxInt standing for    *)
(* the largest int64.                                                           *)
EXTENDS Integers, Sequences, FiniteSets, TLC, SequencesExt

CONSTANTS
    MaxInt,             \* the largest duration the arithmetic can hold
    MaxSample           \* the longest duration sample accepted

ASSUME PlanConstants == MaxInt \in Nat /\ MaxSample \in 1..MaxInt

Blank == 0
MinHistorySamples == 3
MaxHistorySamples == 64
MaxCatalog == 128
MaxRequested == 64
MaxScaleValue == 1000000000

When(condition, code) == IF condition THEN {code} ELSE {}

\* An input as its types declare it: lists, truth values and whole numbers.
PlanInput(input) ==
    /\ \A list \in {"tests", "history", "requests", "nodeBudgets"} :
            input[list] \in Seq(Range(input[list]))
    /\ {input.boundBefore, input.classifiedFirst, input.retry.present,
            input.retry.limited} \subseteq BOOLEAN
    /\ {input.setup, input.safety, input.perAttempt, input.totalNode, input.lease.min,
            input.lease.target, input.lease.max, input.retry.attempts,
            input.retry.total} \subseteq Int
    /\ \A i \in DOMAIN input.tests : input.tests[i].repeat \in Int
    /\ \A i \in DOMAIN input.history : input.history[i].samples \in Seq(Int)
    /\ \A i \in DOMAIN input.requests : input.requests[i].tests \in Seq(Nat)
    /\ \A i \in DOMAIN input.nodeBudgets : input.nodeBudgets[i].ms \in Int

\* The keys a sequence of entries holds for the first time.
FirstWith(entries, key(_)) ==
    {i \in DOMAIN entries : \A j \in 1..(i - 1) : key(entries[j]) # key(entries[i])}

\* sort.Slice on numbers: the place of an entry is the number of entries that do not
\* come after it.
Place(numbers, i) ==
    Cardinality({j \in DOMAIN numbers :
        numbers[j] < numbers[i] \/ (numbers[j] = numbers[i] /\ j <= i)})

Ascending(numbers) ==
    [k \in DOMAIN numbers |->
        numbers[CHOOSE i \in DOMAIN numbers : Place(numbers, i) = k]]
-----------------------------------------------------------------------------
(* Arithmetic that saturates and remembers that it did. *)

Amount(ms) == [ms |-> ms, overflow |-> FALSE]

CheckedAdd(amount, ms) ==
    IF amount.ms < 0 \/ ms < 0 \/ ms > MaxInt - amount.ms
    THEN [ms |-> MaxInt, overflow |-> TRUE]
    ELSE [amount EXCEPT !.ms = @ + ms]

CheckedMultiply(ms, times) ==
    IF ms < 0 \/ times < 0 \/ (ms # 0 /\ times > MaxInt \div ms)
    THEN [ms |-> MaxInt, overflow |-> TRUE]
    ELSE Amount(ms * times)

Plus(left, right) ==
    LET sum == CheckedAdd(left, right.ms)
    IN  [sum EXCEPT !.overflow = @ \/ left.overflow \/ right.overflow]

Total(amounts) == FoldLeft(Plus, Amount(0), amounts)
-----------------------------------------------------------------------------
(* The parts of the input, each with the conflicts it can raise. *)

PolicyDigest(input) ==
    [budgets |-> <<input.maxTests, input.maxPartitions, input.setup, input.safety>>,
     nodes |-> input.nodeBudgets,
     repeats |-> <<input.maxRepeat, input.scaleRepeat, input.repeatAll>>,
     retry |-> input.retry,
     timeouts |-> <<input.perAttempt, input.totalNode>>,
     lease |-> input.lease]

InputDigest(input) ==
    LET sorted == [i \in DOMAIN input.history |->
            [input.history[i] EXCEPT !.samples = Ascending(@)]]
    IN  [input EXCEPT !.history = SortSeq(sorted, LAMBDA a, b : a.test < b.test)]

RetryConflicts(retry) ==
    IF ~retry.present
    THEN {"retry_policy_missing"}
    ELSE When(retry.attempts \notin 1..4 \/ ~retry.described, "retry_policy_incomplete")
            \union retry.broken

EnvelopeConflicts(input) ==
    When(~input.identified, "plan_identity_incomplete")
    \union When(input.tests = <<>> \/ input.maxTests <= 0
                \/ Len(input.tests) > input.maxTests \/ Len(input.tests) > MaxCatalog,
                "test_catalog_limit_exceeded")
    \union When(input.requests = <<>> \/ input.maxPartitions <= 0
                \/ Len(input.requests) > input.maxPartitions
                \/ Len(input.requests) > MaxRequested, "partition_limit_exceeded")
    \union When(input.setup < 0 \/ input.safety < 0, "partition_overhead_invalid")
    \union When(input.maxRepeat < 1 \/ input.scaleRepeat # 1, "repeat_policy_invalid")
    \union When(input.repeatAll, "mixed_partition_scale_amplification")
    \union RetryConflicts(input.retry)
    \union When(input.perAttempt <= 0 \/ input.totalNode <= 0, "timeout_policy_incomplete")
    \union When(input.lease.min <= 0 \/ input.lease.min > input.lease.target
                \/ input.lease.target > input.lease.max, "lease_budget_invalid")
    \union When(input.policy # PolicyDigest(input) \/ input.boundPolicy # PolicyDigest(input),
                "activation_policy_digest_mismatch")
    \union When(~input.boundBefore, "activation_predates_policy")
    \union When(~input.safe, "unsafe_authority_boundary")

\* The tests the plan knows: of two entries with one identifier, the first.
CatalogEntries(input) ==
    {i \in FirstWith(input.tests, LAMBDA t : t.id) : input.tests[i].id # Blank}

Catalog(input) ==
    [id \in {input.tests[i].id : i \in CatalogEntries(input)} |->
        input.tests[CHOOSE i \in CatalogEntries(input) : input.tests[i].id = id]]

TestConflicts(test, input) ==
    CASE test.class = "regular" ->
            When(test.dimension # Blank, "classification_contradictory")
            \union When(test.repeat \notin 1..input.maxRepeat, "repeat_limit_exceeded")
      [] test.class = "scale" ->
            When(test.dimension \notin 1..MaxScaleValue, "scale_dimension_invalid")
            \union When(test.repeat # 1, "scale_repeat_amplification")
      [] OTHER -> {"classification_unknown"}

ClassificationConflicts(input) ==
    When(~input.classifiedFirst, "classification_after_partitioning")
    \union When(CatalogEntries(input) # DOMAIN input.tests, "test_catalog_identity_invalid")
    \union UNION {TestConflicts(input.tests[i], input) : i \in CatalogEntries(input)}
-----------------------------------------------------------------------------
(* Duration history: the 95th percentile by nearest rank of each test's samples. *)

SampleConflicts(samples) ==
    CASE samples = <<>> -> {"duration_history_empty"}
      [] Len(samples) \in 1..(MinHistorySamples - 1) -> {"duration_history_insufficient"}
      [] Len(samples) > MaxHistorySamples -> {"duration_history_sample_limit_exceeded"}
      [] OTHER ->
            When(\E i \in DOMAIN samples : samples[i] <= 0, "duration_history_non_positive")
            \union When(\E i \in DOMAIN samples : samples[i] > MaxSample,
                        "duration_history_overflow_risk")

UsableHistory(input) ==
    {i \in DOMAIN input.history : SampleConflicts(input.history[i].samples) = {}}

RepeatedHistory(input) ==
    {i \in DOMAIN input.history :
        \E j \in UsableHistory(input) :
            j < i /\ input.history[j].test = input.history[i].test}

\* Mutant: the rank is rounded down.
NearestRankBelow(samples) ==
    Ascending(samples)[(95 * Len(samples)) \div 100]

NearestRank95(samples) ==
    Ascending(samples)[(95 * Len(samples) + 99) \div 100]

\* The estimate of one run of every test with a usable history; 0 without one.
Estimate(input, test) ==
    LET entries == {i \in UsableHistory(input) \ RepeatedHistory(input) :
                        input.history[i].test = test}
    IN  IF entries = {} THEN 0
        ELSE NearestRank95(input.history[CHOOSE i \in entries : TRUE].samples)

HistoryConflicts(input) ==
    LET first == DOMAIN input.history \ RepeatedHistory(input)
    IN  When(RepeatedHistory(input) # {}, "duration_history_duplicate")
        \union When(\E i \in first : ~input.history[i].bound, "duration_history_mismatch")
        \union UNION {SampleConflicts(input.history[i].samples) : i \in first}
        \union When(\E i \in DOMAIN input.tests :
                        \A j \in UsableHistory(input) :
                            input.history[j].test # input.tests[i].id,
                    "duration_history_missing")
-----------------------------------------------------------------------------
(* Partitions: every scale test gets one of its own, the regular tests of a     *)
(* request share one.                                                           *)

UsableBudgets(input) ==
    {i \in DOMAIN input.nodeBudgets :
        input.nodeBudgets[i].partition # Blank /\ input.nodeBudgets[i].ms > 0}

BudgetsOf(input, partition) ==
    {i \in UsableBudgets(input) : input.nodeBudgets[i].partition = partition}

\* A later budget of the same partition replaces an earlier one.
NodeBudget(input, partition) ==
    LET mine == BudgetsOf(input, partition)
    IN  IF mine = {} THEN 0
        ELSE input.nodeBudgets[CHOOSE i \in mine : \A j \in mine : j <= i].ms

OfClass(input, request, class) ==
    LET catalog == Catalog(input)
    IN  Ascending(SetToSeq({id \in Range(request.tests) \intersect DOMAIN catalog :
                              catalog[id].class = class}))

\* A scale partition is named for its test, the regular one for its request alone.
Partition(input, request, class, tests, repeat) ==
    LET runs == [i \in DOMAIN tests |-> CheckedMultiply(Estimate(input, tests[i]), repeat)]
        cost == CheckedAdd(Total(runs), input.setup)
        whole == CheckedAdd(cost, input.safety)
        named == IF class = "scale" THEN tests ELSE <<>>
    IN  [id |-> <<request.id, class, named>>, node |-> <<request.node, class, named>>,
         class |-> class, tests |-> tests,
         requested |-> Catalog(input)[tests[1]].repeat, repeat |-> repeat,
         estimate |-> whole.ms,
         overflow |-> Total(runs).overflow \/ cost.overflow \/ whole.overflow,
         nodeBudget |-> NodeBudget(input, request.id), retryAllowance |-> 0]

PartitionsOf(input, request) ==
    LET scales == OfClass(input, request, "scale")
        regular == OfClass(input, request, "regular")
    IN  [i \in DOMAIN scales |-> Partition(input, request, "scale", <<scales[i]>>, 1)]
        \o IF regular = <<>> THEN <<>>
           ELSE <<Partition(input, request, "regular", regular,
                            Catalog(input)[regular[1]].repeat)>>

PlannedPartitions(input) ==
    FlattenSeq([i \in DOMAIN input.requests |-> PartitionsOf(input, input.requests[i])])

RequestConflicts(input, request) ==
    LET catalog == Catalog(input)
        regular == OfClass(input, request, "regular")
    IN  When(request.id = Blank \/ request.node = Blank \/ request.tests = <<>>,
             "partition_identity_invalid")
        \union When(BudgetsOf(input, request.id) = {}, "partition_budget_missing")
        \union When(Len(request.tests) # Cardinality(Range(request.tests)),
                    "partition_test_duplicate")
        \union When(~(Range(request.tests) \subseteq DOMAIN catalog), "partition_test_unknown")
        \union When(\E i \in DOMAIN regular :
                        catalog[regular[i]].repeat # catalog[regular[1]].repeat,
                    "regular_repeat_partition_mismatch")

PartitionConflicts(input, partitions) ==
    LET assigned(id) == {i \in DOMAIN input.requests : id \in Range(input.requests[i].tests)}
        known == DOMAIN Catalog(input)
    IN  When(UsableBudgets(input) # DOMAIN input.nodeBudgets, "partition_budget_invalid")
        \union When(\E i \in UsableBudgets(input) :
                        Cardinality(BudgetsOf(input, input.nodeBudgets[i].partition)) > 1,
                    "partition_budget_duplicate")
        \union UNION {RequestConflicts(input, input.requests[i]) : i \in DOMAIN input.requests}
        \union When(\E id \in known : assigned(id) = {}, "partition_test_missing")
        \union When(\E id \in known : Cardinality(assigned(id)) > 1, "partition_test_duplicate")
        \union When(Len(partitions) > input.maxPartitions,
                    "planned_partition_limit_exceeded")
-----------------------------------------------------------------------------
(* The plan: what the partitions cost, with the retries the policy lets happen. *)

Attempts(input) == IF input.retry.present THEN input.retry.attempts ELSE 0
RetrySlots(input) == IF Attempts(input) > 1 THEN Attempts(input) - 1 ELSE 0
LimitsRetries(input) == input.retry.present /\ input.retry.limited

RetryCapacity(input, count) ==
    IF count = 0 THEN 0
    ELSE IF RetrySlots(input) > MaxInt \div count THEN MaxInt
    ELSE count * RetrySlots(input)

\* A total retry budget is spent on the costliest partitions first.
Spend(input, state, cost) ==
    LET slots == IF RetrySlots(input) > state.left THEN state.left ELSE RetrySlots(input)
    IN  [amount |-> Plus(state.amount, CheckedMultiply(cost, slots)),
         left |-> state.left - slots]

SpendRetries(input, total, estimates) ==
    FoldLeft(LAMBDA state, cost : Spend(input, state, cost),
             [amount |-> total, left |-> input.retry.total],
             Reverse(Ascending(estimates))).amount

\* Every partition once; every partition as often as it may be tried; and what the
\* retries left to the plan can come to.
Costs(input, partitions) ==
    LET estimates == [i \in DOMAIN partitions |-> partitions[i].estimate]
        total == Total([i \in DOMAIN partitions |-> Amount(estimates[i])])
        everyRetry == Total([i \in DOMAIN partitions |->
                                CheckedMultiply(estimates[i], Attempts(input))])
    IN  [total |-> total, everyRetry |-> everyRetry,
         spent |-> IF LimitsRetries(input)
                      /\ input.retry.total \in 0..RetryCapacity(input, Len(partitions))
                   THEN SpendRetries(input, total, estimates)
                   ELSE everyRetry]

WithRetry(input, partition) == CheckedMultiply(partition.estimate, Attempts(input)).ms

CostConflicts(input, partitions, costs) ==
    LET some(exceeds(_)) == \E i \in DOMAIN partitions : exceeds(partitions[i])
    IN  When(\/ some(LAMBDA p : p.overflow)
             \/ costs.total.overflow \/ costs.everyRetry.overflow \/ costs.spent.overflow,
             "duration_arithmetic_overflow")
        \union When(some(LAMBDA p : p.estimate > input.perAttempt), "timeout_below_estimate")
        \union When(some(LAMBDA p : WithRetry(input, p) > input.totalNode),
                    "retry_total_timeout_exceeded")
        \union When(some(LAMBDA p : p.estimate > p.nodeBudget),
                    "partition_node_budget_exceeded")
        \union When(some(LAMBDA p : WithRetry(input, p) > p.nodeBudget),
                    "retry_node_budget_exceeded")
        \union When(LimitsRetries(input) /\ input.retry.total < 0, "retry_budget_invalid")
        \union When(LimitsRetries(input)
                    /\ input.retry.total > RetryCapacity(input, Len(partitions)),
                    "retry_budget_exceeds_attempt_capacity")
        \union When(costs.spent.ms > input.lease.max, "lease_budget_exceeded")

Plan(input, partitions, costs, codes) ==
    [input |-> InputDigest(input), policy |-> PolicyDigest(input),
     partitions |-> [i \in DOMAIN partitions |->
         [partitions[i] EXCEPT !.retryAllowance = WithRetry(input, partitions[i])]],
     total |-> costs.total.ms, totalWithRetry |-> costs.spent.ms,
     codes |-> codes, allowed |-> codes = {}]

PlanOver(input, partitions) ==
    LET costs == Costs(input, partitions)
    IN  Plan(input, partitions, costs,
             EnvelopeConflicts(input) \union ClassificationConflicts(input)
             \union HistoryConflicts(input) \union PartitionConflicts(input, partitions)
             \union CostConflicts(input, partitions, costs))

BuildSoakPlan(input) == PlanOver(input, PlannedPartitions(input))
=============================================================================
