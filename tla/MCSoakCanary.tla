----------------------------- MODULE MCSoakCanary -----------------------------
(* A small instance of SoakCanary: one canary of two nodes, the scale test first *)
(* and the retry designated on the second; beside it, documents in which one     *)
(* field was changed after they were bound, and plan inputs that are only planned.*)
EXTENDS SoakCanary

Classes == <<"scale", "regular", "regular">>
MCApproved == [id \in 1..2 |-> Classes[id]]
MCScale == 10

Retry == [present |-> TRUE, attempts |-> 2, limited |-> TRUE, total |-> 1,
          described |-> TRUE, broken |-> {}]

\* An input of `count' tests, one partition each.
Draft(count) ==
    [identified |-> TRUE, mission |-> 1, planId |-> 1, head |-> 1, profile |-> 1,
     tests |-> [id \in 1..count |->
        [id |-> id, class |-> Classes[id], repeat |-> ApprovedRepeat(Classes[id]),
         dimension |-> ApprovedDimension(Classes[id])]],
     history |-> [id \in 1..count |-> [test |-> id, bound |-> TRUE, samples |-> <<1, 1, 1>>]],
     requests |-> [id \in 1..count |-> [id |-> id, node |-> id, tests |-> <<id>>]],
     nodeBudgets |-> [id \in 1..count |-> [partition |-> id, ms |-> 4]],
     maxTests |-> 3, maxPartitions |-> 3, setup |-> 0, safety |-> 0,
     maxRepeat |-> 3, scaleRepeat |-> 1, repeatAll |-> FALSE, retry |-> Retry,
     perAttempt |-> 2, totalNode |-> 4, lease |-> [min |-> 2, target |-> 3, max |-> 5],
     boundBefore |-> TRUE, safe |-> TRUE, classifiedFirst |-> TRUE]

\* The policy digest is written into the input once the policy is settled.
Bound(draft) ==
    draft @@ [policy |-> PolicyDigest(draft), boundPolicy |-> PolicyDigest(draft)]

Authority ==
    [signed |-> TRUE, canary |-> 1, mission |-> 1, head |-> 1, identified |-> TRUE,
     handoff |-> TRUE, wall |-> HardWall, nodes |-> PlannedNodes,
     attempts |-> MaximumAttempts, launches |-> PlannedNodes, scales |-> 1, retries |-> 1,
     local |-> TRUE, safe |-> TRUE, created |-> 0]

CommandFor(input, test) ==
    [test |-> test.id, class |-> test.class, dimension |-> test.dimension,
     repeat |-> test.repeat, effective |-> test.repeat, timeout |-> input.perAttempt,
     defects |-> {}]

Documents(input, authority) ==
    [input |-> input, plan |-> BuildSoakPlan(input), fixture |-> 1, snapshot |-> 1,
     authority |-> authority,
     catalog |-> [signed |-> TRUE, head |-> 1, profile |-> 1,
                  commands |-> [i \in DOMAIN input.tests |->
                                    CommandFor(input, input.tests[i])]]]

\* The retry is designated on the last partition.
LastNode(partitions) ==
    IF partitions = <<>> THEN <<>> ELSE partitions[Len(partitions)].node

Activated(documents) ==
    documents @@ [activation |->
        BuildActivation(documents, 0, LastNode(documents.plan.partitions))]

RequestFor(input, authority) == Activated(Documents(input, authority))

Good == RequestFor(Bound(Draft(2)), Authority)
-----------------------------------------------------------------------------
(* Documents changed after they were bound. *)

Flags == {"signed", "identified", "handoff", "local", "safe", "eligible", "authorized",
          "boundBefore", "classifiedFirst", "allowed"}
Words == {"state", "class", "retryReason"}
Other(field, value) ==
    CASE field \in Flags -> ~value
      [] field \in Words -> "other"
      [] field \in {"id", "node", "retryNode"} -> <<0, "other", <<0>>>>
      [] field = "catalog" -> [value EXCEPT !.head = 2]
      [] field = "authority" -> [value EXCEPT !.identified = FALSE]
      [] field = "policy" -> [value EXCEPT !.timeouts = <<3, 4>>]
      [] field = "planInput" -> [value EXCEPT !.planId = 2]
      [] OTHER -> value + 1

Change(record, field) == [record EXCEPT ![field] = Other(field, record[field])]

AuthorityFields == <<"signed", "canary", "mission", "head", "identified", "handoff", "wall",
    "nodes", "attempts", "launches", "scales", "retries", "local", "safe", "created">>
CatalogFields == <<"signed", "head", "profile">>
CommandFields == <<"test", "class", "dimension", "repeat", "effective", "timeout">>
ActivationFields == <<"signed", "state", "canary", "mission", "planId", "fixture",
    "planInput", "policy", "head", "snapshot", "profile", "catalog", "authority", "eligible",
    "authorized", "boundBefore", "classifiedFirst", "phaseStart", "retryNode", "retryReason",
    "safe">>
BindingFields == <<"id", "node", "test", "class", "requested", "repeat", "dimension",
    "estimate", "retryAllowance", "perAttempt", "totalNode", "nodeBudget">>
PlanFields == <<"total", "totalWithRetry", "allowed">>

Edits ==
    LET of(document, fields) == [i \in DOMAIN fields |-> <<document, fields[i]>>]
    IN  of("authority", AuthorityFields) \o of("catalog", CatalogFields)
        \o of("command", CommandFields) \o of("activation", ActivationFields)
        \o of("binding", BindingFields) \o of("plan", PlanFields)

Changed(good, document, field) ==
    CASE document = "authority" -> [good EXCEPT !.authority = Change(@, field)]
      [] document = "catalog" -> [good EXCEPT !.catalog = Change(@, field)]
      [] document = "command" -> [good EXCEPT !.catalog.commands[2] = Change(@, field)]
      [] document = "activation" -> [good EXCEPT !.activation = Change(@, field)]
      [] document = "binding" -> [good EXCEPT !.activation.partitions[2] = Change(@, field)]
      [] OTHER -> [good EXCEPT !.plan = Change(@, field)]
-----------------------------------------------------------------------------
(* Inputs that are planned and not run: their authority is not signed. *)

Samples(draft, test, samples) == [draft EXCEPT !.history[test].samples = samples]
Roomy(draft) ==
    [draft EXCEPT !.perAttempt = 40, !.totalNode = 90, !.lease.max = 90,
        !.nodeBudgets = [i \in DOMAIN @ |-> [@[i] EXCEPT !.ms = 90]]]
UpTo(n) == [i \in 1..n |-> n + 1 - i]
Uneven == Samples(Samples(Draft(3), 1, <<4, 4, 4>>), 3, <<2, 3, 1>>)
Leased(max) == [Roomy(Uneven) EXCEPT !.lease.max = max]
Thrice(total, max) ==
    [Leased(max) EXCEPT !.retry.attempts = 3, !.retry.total = total]

Planned ==
    <<Draft(3), [Draft(2) EXCEPT !.lease.max = 4], [Draft(2) EXCEPT !.perAttempt = 1],
      [Draft(2) EXCEPT !.totalNode = 3], [Draft(2) EXCEPT !.nodeBudgets[2].ms = 3],
      [Draft(2) EXCEPT !.setup = 1], [Draft(2) EXCEPT !.setup = -1],
      [Draft(2) EXCEPT !.requests[2].tests = <<1, 2>>],
      [Draft(2) EXCEPT !.requests[2].tests = <<2, 2>>],
      [Draft(2) EXCEPT !.requests[2].tests = <<3>>],
      [Draft(2) EXCEPT !.requests[2].id = 0], [Draft(2) EXCEPT !.tests[2].class = "other"],
      [Draft(2) EXCEPT !.tests[2].repeat = 4], [Draft(2) EXCEPT !.tests[1].repeat = 2],
      [Draft(2) EXCEPT !.tests[1].dimension = 0], [Draft(2) EXCEPT !.tests[2].id = 1],
      [Draft(2) EXCEPT !.history[2].test = 1], [Draft(2) EXCEPT !.history[2].bound = FALSE],
      Samples(Draft(2), 2, <<1, 1>>), Samples(Draft(2), 2, <<>>),
      Samples(Draft(2), 2, <<1, 0, 1>>), Samples(Draft(2), 2, <<1, 101, 1>>),
      Samples(Draft(2), 2, UpTo(65)), [Draft(2) EXCEPT !.retry.attempts = 5],
      [Draft(2) EXCEPT !.retry.total = 3], [Draft(2) EXCEPT !.retry.total = -1],
      [Draft(2) EXCEPT !.retry.present = FALSE], [Draft(2) EXCEPT !.retry.limited = FALSE],
      [Draft(2) EXCEPT !.repeatAll = TRUE], [Draft(2) EXCEPT !.maxTests = 1],
      [Draft(2) EXCEPT !.maxPartitions = 1], [Draft(2) EXCEPT !.lease.min = 4],
      Samples(Roomy(Draft(2)), 2, UpTo(20)), Samples(Roomy(Draft(2)), 2, UpTo(19)),
      Samples(Roomy(Draft(2)), 2, UpTo(3)), Leased(17), Leased(18),
      Thrice(3, 27), Thrice(3, 28), Thrice(4, 31), Thrice(4, 32),
      [Thrice(4, 35) EXCEPT !.retry.limited = FALSE],
      [Thrice(4, 36) EXCEPT !.retry.limited = FALSE],
      [Roomy(Draft(3)) EXCEPT
        !.requests = <<[id |-> 1, node |-> 1, tests |-> <<1>>],
                       [id |-> 2, node |-> 2, tests |-> <<3, 2>>]>>]>>

Unsigned == [Authority EXCEPT !.signed = FALSE]

MCRequests ==
    [i \in 1..(1 + Len(Edits) + Len(Planned)) |->
        CASE i = 1 -> Good
          [] i \in 2..(1 + Len(Edits)) -> Changed(Good, Edits[i - 1][1], Edits[i - 1][2])
          [] OTHER -> RequestFor(Bound(Planned[i - 1 - Len(Edits)]), Unsigned)]
=============================================================================
