---------------------------- MODULE TerminalImport ----------------------------
(* The terminal-index commands on one state file: evidence is published with an *)
(* index over it, or indexed as historical; imports verify the index against    *)
(* the evidence and persist a readback; other commands project a Mission record *)
(* under it (ImportTerminalIndex, LoadTerminalIndexImport,                      *)
(* BuildHistoricalMissionTerminalIndex, projectRecordWithTerminalState). No     *)
(* lock is taken: two imports may overlap.                                      *)
EXTENDS TerminalIndex, SequencesExt

CONSTANTS
    Evidence,           \* the documents a producer may write: role |-> set of documents
    Importers,          \* the processes that import
    MaxChanges,         \* bound: publications and changes of the evidence
    LastDay             \* bound: dates of indexes and of records

\* The numbers of a document may have either sign.
Numbers == {"mission", "completed", "ready", "blocked", "failed", "minimumNodes", "minimum",
            "target", "maximum", "elapsed"}
IsDocument(document) ==
    /\ \A field \in Numbers : document[field] \in Int
    /\ \A field \in {"minimumSet", "final", "safe"} : document[field] \in BOOLEAN

ASSUME EvidenceAssumption ==
    /\ {"lease", "root", "duration", "terminal", "session"} \subseteq DOMAIN Evidence
    /\ \A role \in DOMAIN Evidence : \A document \in Evidence[role] : IsDocument(document)

VARIABLES
    files,              \* the evidence root: role |-> document
    index,              \* the published index file
    state,              \* the import state file
    importer,           \* what each importer is at: step, the index it read
    changes

vars == <<files, index, state, importer, changes>>

NoIndex == [signed |-> FALSE]
Idle == [step |-> "idle"]
HistoricalMission == 1
-----------------------------------------------------------------------------
(* Producers of an index. *)

Order == <<"lease", "root", "duration", "terminal", "session">>

IndexOver(roles, documents, mission, day, conclusions) ==
    [signed |-> TRUE, safe |-> TRUE, mission |-> mission, generated |-> day,
     reference |-> "terminal" \in DOMAIN documents,
     artifacts |-> [i \in DOMAIN roles |->
        [role |-> roles[i], state |-> roles[i], sequence |-> i - 1,
         document |-> documents[roles[i]]]],
     lineage |-> [i \in 1..(Len(roles) - 1) |-> <<i - 1, i>>],
     conclusions |-> conclusions]

RolesOf(documents) == SelectSeq(Order, LAMBDA role : role \in DOMAIN documents)

\* A producer draws the conclusions of the evidence, or more hopeful ones.
Hopeful(documents) ==
    [Recompute(documents) EXCEPT !.completion = TRUE, !.agreement = TRUE,
        !.readiness = TRUE, !.final = TRUE, !.codes = {}, !.next = "none"]

Publish ==
    /\ changes < MaxChanges /\ changes' = changes + 1
    /\ \E conclusions \in {Recompute(files), Hopeful(files)}, day \in 0..LastDay :
        index' = IndexOver(RolesOf(files), files, 1, day, conclusions)
    /\ UNCHANGED <<files, state, importer>>

\* BuildHistoricalMissionTerminalIndex: three documents, whatever else is there.
HistoricalOrder == <<"root", "duration", "session">>
HistoricalRoles == Range(HistoricalOrder)

\* Mutant: a terminal document that happens to be there is indexed too.
HistoricalIndexOfAll(documents, day) ==
    IndexOver(RolesOf(documents), documents, HistoricalMission, day, Recompute(documents))

HistoricalIndex(documents, day) ==
    LET chosen == [role \in HistoricalRoles |-> documents[role]]
    IN  IndexOver(HistoricalOrder, chosen, HistoricalMission, day, Recompute(chosen))

Historical ==
    /\ changes < MaxChanges /\ changes' = changes + 1
    /\ HistoricalRoles \subseteq DOMAIN files
    /\ \E day \in 0..LastDay : index' = HistoricalIndex(files, day)
    /\ UNCHANGED <<files, state, importer>>

Replace(role) ==
    /\ changes < MaxChanges /\ changes' = changes + 1
    /\ \E document \in Evidence[role] :
        files' = [r \in DOMAIN files \union {role} |->
                    IF r = role THEN document ELSE files[r]]
    /\ UNCHANGED <<index, state, importer>>
-----------------------------------------------------------------------------
(* ImportTerminalIndex: verify, look for an earlier import, write. *)

\* A refused index leaves nothing behind.
Read(i) ==
    /\ importer[i].step = "idle" /\ index # NoIndex /\ Verifies(index, files)
    /\ importer' = [importer EXCEPT ![i] = [step |-> "look", index |-> index]]
    /\ UNCHANGED <<files, index, state, changes>>

Answer(i) == importer' = [importer EXCEPT ![i] = Idle]

\* A state file that is there ends the import: unreadable, conflicting or the answer.
Look(i) ==
    /\ importer[i].step = "look"
    /\ \/ state = NoImport /\ importer' = [importer EXCEPT ![i].step = "write"]
       \/ state # NoImport /\ Answer(i)
    /\ UNCHANGED <<files, index, state, changes>>

\* The state file is replaced, or the write fails before or after the rename.
Write(i) ==
    /\ importer[i].step = "write"
    /\ state' \in {state, Readback(importer[i].index, "import")}
    /\ Answer(i)
    /\ UNCHANGED <<files, index, changes>>
-----------------------------------------------------------------------------
Init ==
    /\ \E lease \in Evidence["lease"], root \in Evidence["root"],
          duration \in Evidence["duration"], terminal \in Evidence["terminal"],
          session \in Evidence["session"], roles \in {Range(Order), Range(Order) \ {"terminal"}} :
        files = Restrict([lease |-> lease, root |-> root, duration |-> duration,
                          terminal |-> terminal, session |-> session], roles)
    /\ index = NoIndex /\ state = NoImport
    /\ importer = [i \in Importers |-> Idle]
    /\ changes = 0

Next ==
    \/ Publish \/ Historical
    \/ \E role \in DOMAIN Evidence : Replace(role)
    \/ \E i \in Importers : Read(i) \/ Look(i) \/ Write(i)

Spec == Init /\ [][Next]_vars
-----------------------------------------------------------------------------
(* Properties. *)

\* What finished means, told from the documents alone.
FirstStated(values) ==
    LET stated == {i \in DOMAIN values : values[i] > 0}
    IN  IF stated = {} THEN 0
        ELSE values[CHOOSE i \in stated : \A j \in stated : i <= j]
Finished(documents) ==
    /\ {"root", "terminal"} \subseteq DOMAIN documents
    /\ LET terminal == documents["terminal"]
           root == documents["root"]
           lease == IF "lease" \in DOMAIN documents THEN documents["lease"] ELSE NoObservation
           nodes == FirstStated(<<lease.minimumNodes, terminal.minimumNodes, root.minimumNodes>>)
           most == FirstStated(<<lease.maximum, root.maximum>>)
           least == IF lease.minimumSet THEN lease.minimum ELSE root.minimum
       IN  /\ terminal.final /\ terminal.next \in {"", "none", "complete"}
           /\ terminal.ready = 0 /\ terminal.blocked = 0 /\ terminal.failed = 0
           /\ nodes > 0 /\ terminal.completed >= nodes
           /\ lease.minimumSet \/ root.minimumSet
           /\ terminal.elapsed \in least..most
           /\ terminal.completed >= root.completed

\* A record is shown as allowed to return only if the evidence that was verified,
\* whatever its index concluded and whatever was replaced since, says that all the
\* work is finished within the lease, and the record did not move on after it.
DoneMeansDone ==
    state # NoImport =>
        \A status \in {"active", "paused", "stopped"}, updated \in 0..LastDay :
            LET record == [mission |-> 1, status |-> status, updated |-> updated,
                           phase |-> "", next |-> "", mayReturn |-> FALSE]
                shown == Project(record, state)
            IN  CanProject(record, state) /\ (shown.mayReturn \/ shown.status = "done") =>
                    /\ Finished(Documents(state.index))
                    /\ updated <= state.generated
                    /\ shown.status = "done" /\ shown.mayReturn /\ shown.next = "none"

\* A historical index verifies against its evidence, and never lets a Mission return,
\* even when a terminal document lies beside the three it names.
HistoricalIsNotFinal ==
    HistoricalRoles \subseteq DOMAIN files =>
        LET historical == HistoricalIndex(files, 0)
        IN  /\ Verifies(historical, files) \/ \E role \in HistoricalRoles :
                    files[role].mission \notin {0, HistoricalMission} \/ ~files[role].safe
            /\ ~historical.conclusions.final
            /\ Readback(historical, "import").projection # "done"
            /\ Readback(historical, "import").status = "no_canonical_terminal"

\* canonical-terminal-index-consumer.md: "Imports are durable and idempotent by index
\* digest." An index that was imported, and is still the published one over the same
\* evidence, is answered from the state file when it is imported again.
ImportIsIdempotent ==
    state # NoImport /\ index = state.index /\ Verifies(index, files)
        => ImportAnswer(index, files, state) = "existing"
=============================================================================
