------------------------ MODULE TerminalImportSafety ------------------------
(***************************************************************************)
(* TerminalImport shows a Mission as done only if the evidence says so.     *)
(* Whatever the importers hold was verified against evidence that was there *)
(* once (Sound); the theorems then follow from what a verified index is,    *)
(* however the evidence changes afterwards.                                 *)
(***************************************************************************)
EXTENDS TerminalImport, TLAPS

FilesOK(documents) ==
    \A role \in DOMAIN documents : IsDocument(documents[role])

\* An index that was verified against some evidence.
Sound(ix) == \E documents : FilesOK(documents) /\ Verifies(ix, documents)

Importing(i) == importer[i].step \in {"look", "write"}

IInv ==
    /\ FilesOK(files)
    /\ DOMAIN importer = Importers
    /\ \A i \in Importers : Importing(i) => Sound(importer[i].index)
    /\ state # NoImport => \E ix : Sound(ix) /\ state = Readback(ix, "import")

-----------------------------------------------------------------------------
(* The documents of an index, and the conclusions they carry.              *)

\* The documents of a verified index are documents of the evidence.
LEMMA DocumentsVerified ==
    ASSUME NEW ix, NEW documents, FilesOK(documents), Verifies(ix, documents)
    PROVE  FilesOK(Documents(ix))
<1> DEFINE roles == {ix.artifacts[i].role : i \in DOMAIN ix.artifacts}
           at(role) == CHOOSE i \in DOMAIN ix.artifacts : ix.artifacts[i].role = role
<1>1. Documents(ix) = [role \in roles |-> ix.artifacts[at(role)].document]
  BY DEF Documents
<1>2. ASSUME NEW role \in roles
      PROVE  at(role) \in DOMAIN ix.artifacts
  BY <1>2
<1>3. \A i \in DOMAIN ix.artifacts : IsDocument(ix.artifacts[i].document)
  BY DEF Verifies, FilesAgree, FilesOK
<1> HIDE DEF at, roles
<1> QED BY <1>1, <1>2, <1>3 DEF FilesOK

LEMMA ObservationOK ==
    ASSUME NEW documents, FilesOK(documents), NEW role
    PROVE  IsDocument(Observation(documents, role))
<1>1. IsDocument(NoObservation)
  BY DEF NoObservation, IsDocument, Numbers
<1> QED BY <1>1 DEF Observation, FilesOK

\* What a final response takes, condition by condition.
LEMMA FinalNeeds ==
    ASSUME NEW documents, FilesOK(documents), Recompute(documents).final
    PROVE  LET terminal == documents["terminal"]
               window == Window(documents)
           IN  /\ "terminal" \in DOMAIN documents
               /\ terminal.final /\ NoAction(terminal.next)
               /\ ~ (terminal.ready > 0) /\ ~ (terminal.blocked > 0) /\ ~ (terminal.failed > 0)
               /\ LeaseStatus(window, terminal.elapsed) = "within_window"
               /\ MinimumNodes(documents) > 0
               /\ terminal.completed >= MinimumNodes(documents)
               /\ Recompute(documents).next = "none"
<1> DEFINE terminal == documents["terminal"]
           window == Window(documents)
           minimum == MinimumNodes(documents)
           status == LeaseStatus(window, terminal.elapsed)
           codes == TerminalConflicts(documents, window, status)
<1>1. "terminal" \in DOMAIN documents
  BY DEF Recompute, WithoutTerminal
<1>2. Recompute(documents) = WithTerminal(documents)
  BY <1>1 DEF Recompute
<1> HIDE DEF window, minimum, status, codes
<1>3. /\ WithTerminal(documents).final =
            (minimum > 0 /\ terminal.completed >= minimum /\ codes = {} /\ terminal.safe
             /\ terminal.final)
      /\ WithTerminal(documents).next =
            IF minimum > 0 /\ terminal.completed >= minimum /\ codes = {} /\ terminal.safe
               /\ terminal.final
            THEN IF NoAction(terminal.next) THEN "none" ELSE terminal.next
            ELSE "review"
  BY DEF WithTerminal, window, minimum, status, codes
<1>4. /\ minimum > 0 /\ terminal.completed >= minimum /\ codes = {} /\ terminal.final
  BY <1>2, <1>3
<1>5. /\ ~ (terminal.ready > 0 \/ terminal.blocked > 0) /\ ~ (terminal.failed > 0)
      /\ ~ (terminal.final /\ ~ NoAction(terminal.next))
      /\ ~ (terminal.final /\ (\/ terminal.ready > 0 \/ terminal.blocked > 0
                               \/ terminal.failed > 0 \/ status # "within_window"))
  <2>1. \A condition, code : Conflict(condition, code) = {} <=> ~ condition
    BY DEF Conflict
  <2> QED BY <1>4, <2>1 DEF codes, TerminalConflicts
<1> QED BY <1>1, <1>2, <1>3, <1>4, <1>5 DEF window, minimum, status

LEMMA WithinWindow ==
    ASSUME NEW window, NEW elapsed \in Int, window.minimum \in Int, window.maximum \in Int,
           LeaseStatus(window, elapsed) = "within_window"
    PROVE  /\ window.set
           /\ elapsed \in window.minimum .. window.maximum
<1> QED BY DEF LeaseStatus

LEMMA FirstOfThree ==
    ASSUME NEW a \in Int, NEW b \in Int, NEW c \in Int
    PROVE  FirstStated(<<a, b, c>>) = FirstPositive(a, FirstPositive(b, c))
<1> DEFINE values == <<a, b, c>>
           stated == {i \in DOMAIN values : values[i] > 0}
           first == CHOOSE i \in stated : \A j \in stated : i <= j
<1>1. FirstStated(values) = IF stated = {} THEN 0 ELSE values[first]
  BY DEF FirstStated
<1>2. DOMAIN values = 1..3 /\ values[1] = a /\ values[2] = b /\ values[3] = c
  OBVIOUS
<1> HIDE DEF values
<1>3. CASE a > 0
  <2>1. 1 \in stated /\ \A j \in stated : 1 <= j
    BY <1>2, <1>3
  <2>2. first \in stated /\ first <= 1
    BY <2>1
  <2>3. first = 1
    BY <1>2, <2>1, <2>2
  <2> QED BY <1>1, <1>2, <1>3, <2>1, <2>3 DEF FirstPositive, values
<1>4. CASE ~ (a > 0) /\ b > 0
  <2>1. 2 \in stated /\ \A j \in stated : 2 <= j
    BY <1>2, <1>4
  <2>2. first \in stated /\ first <= 2
    BY <2>1
  <2>3. first = 2
    BY <1>2, <2>1, <2>2
  <2> QED BY <1>1, <1>2, <1>4, <2>1, <2>3 DEF FirstPositive, values
<1>5. CASE ~ (a > 0) /\ ~ (b > 0) /\ c > 0
  <2>1. 3 \in stated /\ \A j \in stated : 3 <= j
    BY <1>2, <1>5
  <2>2. first \in stated /\ first <= 3
    BY <2>1
  <2>3. first = 3
    BY <1>2, <2>1, <2>2
  <2> QED BY <1>1, <1>2, <1>5, <2>1, <2>3 DEF FirstPositive, values
<1>6. CASE ~ (a > 0) /\ ~ (b > 0) /\ ~ (c > 0)
  <2>1. stated = {}
    BY <1>2, <1>6
  <2> QED BY <1>1, <1>6, <2>1 DEF FirstPositive, values
<1> QED BY <1>3, <1>4, <1>5, <1>6

LEMMA FirstOfTwo ==
    ASSUME NEW a \in Int, NEW b \in Int
    PROVE  FirstStated(<<a, b>>) = FirstPositive(a, b)
<1> DEFINE values == <<a, b>>
           stated == {i \in DOMAIN values : values[i] > 0}
           first == CHOOSE i \in stated : \A j \in stated : i <= j
<1>1. FirstStated(values) = IF stated = {} THEN 0 ELSE values[first]
  BY DEF FirstStated
<1>2. DOMAIN values = 1..2 /\ values[1] = a /\ values[2] = b
  OBVIOUS
<1> HIDE DEF values
<1>3. CASE a > 0
  <2>1. 1 \in stated /\ \A j \in stated : 1 <= j
    BY <1>2, <1>3
  <2>2. first \in stated /\ first <= 1
    BY <2>1
  <2>3. first = 1
    BY <1>2, <2>1, <2>2
  <2> QED BY <1>1, <1>2, <1>3, <2>1, <2>3 DEF FirstPositive, values
<1>4. CASE ~ (a > 0) /\ b > 0
  <2>1. 2 \in stated /\ \A j \in stated : 2 <= j
    BY <1>2, <1>4
  <2>2. first \in stated /\ first <= 2
    BY <2>1
  <2>3. first = 2
    BY <1>2, <2>1, <2>2
  <2> QED BY <1>1, <1>2, <1>4, <2>1, <2>3 DEF FirstPositive, values
<1>5. CASE ~ (a > 0) /\ ~ (b > 0)
  <2>1. stated = {}
    BY <1>2, <1>5
  <2> QED BY <1>1, <1>5, <2>1 DEF FirstPositive, values
<1> QED BY <1>3, <1>4, <1>5

LEMMA FinalIsFinished ==
    ASSUME NEW documents, FilesOK(documents), "root" \in DOMAIN documents,
           "terminal" \in DOMAIN documents => CountsMonotonic(documents),
           Recompute(documents).final,
           \A field \in {"ready", "blocked", "failed"} :
                Recompute(documents).counts[field] >= 0
    PROVE  Finished(documents)
<1> DEFINE terminal == documents["terminal"]
           root == documents["root"]
           lease == Observation(documents, "lease")
           window == Window(documents)
<1>1. /\ "terminal" \in DOMAIN documents
      /\ terminal.final /\ NoAction(terminal.next)
      /\ ~ (terminal.ready > 0) /\ ~ (terminal.blocked > 0) /\ ~ (terminal.failed > 0)
      /\ LeaseStatus(window, terminal.elapsed) = "within_window"
      /\ MinimumNodes(documents) > 0
      /\ terminal.completed >= MinimumNodes(documents)
  BY FinalNeeds
<1>2. /\ IsDocument(terminal) /\ IsDocument(root) /\ IsDocument(lease)
      /\ Observation(documents, "terminal") = terminal
      /\ Observation(documents, "root") = root
  BY <1>1, ObservationOK DEF FilesOK, Observation
<1>3. /\ terminal.ready = 0 /\ terminal.blocked = 0 /\ terminal.failed = 0
  <2>1. Recompute(documents).counts = CountsOf(terminal, MinimumNodes(documents))
    BY <1>1 DEF Recompute, WithTerminal
  <2>2. /\ Recompute(documents).counts.ready = terminal.ready
        /\ Recompute(documents).counts.blocked = terminal.blocked
        /\ Recompute(documents).counts.failed = terminal.failed
    BY <2>1 DEF CountsOf
  <2>3. terminal.ready \in Int /\ terminal.blocked \in Int /\ terminal.failed \in Int
    BY <1>2 DEF IsDocument, Numbers
  <2> QED BY <1>1, <2>2, <2>3
<1>4. /\ lease.minimumNodes \in Int /\ terminal.minimumNodes \in Int
      /\ root.minimumNodes \in Int /\ lease.maximum \in Int /\ root.maximum \in Int
      /\ lease.minimum \in Int /\ root.minimum \in Int /\ terminal.elapsed \in Int
      /\ lease.minimumSet \in BOOLEAN /\ root.minimumSet \in BOOLEAN
  BY <1>2 DEF IsDocument, Numbers
<1>5. FirstStated(<<lease.minimumNodes, terminal.minimumNodes, root.minimumNodes>>)
        = MinimumNodes(documents)
  BY <1>2, <1>4, FirstOfThree DEF MinimumNodes
<1>6. /\ window.maximum = FirstPositive(lease.maximum, root.maximum)
      /\ window.maximum = FirstStated(<<lease.maximum, root.maximum>>)
      /\ window.maximum \in Int
  <2>1. window.maximum = FirstPositive(lease.maximum, root.maximum)
    BY <1>2 DEF Window
  <2> QED BY <2>1, <1>4, FirstOfTwo DEF FirstPositive
<1>7. /\ window.set = (lease.minimumSet \/ root.minimumSet)
      /\ window.minimum = IF lease.minimumSet THEN lease.minimum ELSE root.minimum
  <2>1. MinimumFrom(documents) = IF lease.minimumSet THEN lease ELSE root
    BY <1>1, <1>2, <1>4 DEF MinimumFrom
  <2>2. window.set = MinimumFrom(documents).minimumSet
        /\ window.minimum = MinimumFrom(documents).minimum
    BY DEF Window
  <2> QED BY <2>1, <2>2, <1>4
<1>8. window.set /\ terminal.elapsed \in window.minimum .. window.maximum
  BY <1>1, <1>4, <1>6, <1>7, WithinWindow
<1>9. terminal.completed >= root.completed
  BY <1>1 DEF CountsMonotonic
<1>10. lease = IF "lease" \in DOMAIN documents THEN documents["lease"] ELSE NoObservation
  BY DEF Observation
<1>11. terminal.next \in {"", "none", "complete"}
  BY <1>1 DEF NoAction
<1> DEFINE nodes == FirstStated(<<lease.minimumNodes, terminal.minimumNodes,
                                  root.minimumNodes>>)
           most == FirstStated(<<lease.maximum, root.maximum>>)
           least == IF lease.minimumSet THEN lease.minimum ELSE root.minimum
<1>12. Finished(documents) <=>
        /\ {"root", "terminal"} \subseteq DOMAIN documents
        /\ terminal.final /\ terminal.next \in {"", "none", "complete"}
        /\ terminal.ready = 0 /\ terminal.blocked = 0 /\ terminal.failed = 0
        /\ nodes > 0 /\ terminal.completed >= nodes
        /\ lease.minimumSet \/ root.minimumSet
        /\ terminal.elapsed \in least..most
        /\ terminal.completed >= root.completed
  BY DEF Finished, Observation
<1>13. nodes = MinimumNodes(documents) /\ most = window.maximum /\ least = window.minimum
  BY <1>5, <1>6, <1>7
<1> HIDE DEF terminal, root, lease, window, nodes, most, least
<1> QED BY <1>1, <1>3, <1>7, <1>8, <1>9, <1>11, <1>12, <1>13

\* The records DoneMeansDone looks at.
RecordOf(status, updated) ==
    [mission |-> 1, status |-> status, updated |-> updated, phase |-> "", next |-> "",
     mayReturn |-> FALSE]

\* A readback of a verified index shows a record as done only over finished work.
LEMMA ShownMeansFinished ==
    ASSUME NEW ix, Sound(ix), NEW status \in {"active", "paused", "stopped"}, NEW updated,
           CanProject(RecordOf(status, updated), Readback(ix, "import")),
           NEW shown, shown = Project(RecordOf(status, updated), Readback(ix, "import")),
           shown.mayReturn \/ shown.status = "done"
    PROVE  /\ Finished(Documents(ix))
           /\ updated <= ix.generated
           /\ shown.status = "done" /\ shown.mayReturn /\ shown.next = "none"
<1> DEFINE record == RecordOf(status, updated)
           back == Readback(ix, "import")
           said == ix.conclusions
           terminal == OperatorStatus(said.final, said.counts)
           documents == Documents(ix)
<1>1. /\ back.conclusions = said /\ back.generated = ix.generated
      /\ back.status = ImportStatus(said)
  BY DEF Readback
<1>0. /\ shown = Project(record, back) /\ CanProject(record, back)
      /\ DOMAIN record = {"mission", "status", "updated", "phase", "next", "mayReturn"}
      /\ record.status \in {"active", "paused", "stopped"} /\ record.updated = updated
  BY DEF RecordOf
<1> HIDE DEF record
<1>2. /\ shown.mayReturn = said.final
      /\ shown.next = said.next
      /\ shown.status = IF terminal = "active" /\ record.status # "active"
                        THEN record.status ELSE terminal
  <2> HIDE DEF back, said
  <2>1. shown = [record EXCEPT !.phase = back.status,
                    !.status = IF terminal = "active" /\ record.status # "active"
                               THEN record.status ELSE terminal,
                    !.next = said.next, !.mayReturn = said.final]
    BY <1>1, <1>0 DEF Project
  <2> HIDE DEF terminal
  <2> QED BY <2>1, <1>0
<1>3. PICK files0 : FilesOK(files0) /\ Verifies(ix, files0)
  BY DEF Sound
<1>4. /\ FilesOK(documents) /\ said = Recompute(documents)
      /\ "root" \in DOMAIN documents
      /\ "terminal" \in DOMAIN documents => CountsMonotonic(documents)
  BY <1>3, DocumentsVerified DEF Verifies
<1>5. said.final
  BY <1>2, <1>0 DEF OperatorStatus
<1>6. terminal = "done"
  BY <1>5 DEF OperatorStatus
<1>7. \A field \in {"ready", "blocked", "failed"} : said.counts[field] >= 0
  <2>1. "terminal" \in DOMAIN documents
    BY <1>4, <1>5, FinalNeeds
  <2>2. said.counts = CountsOf(documents["terminal"], MinimumNodes(documents))
    BY <1>4, <2>1 DEF Recompute, WithTerminal
  <2>3. {"ready", "blocked", "failed"} \subseteq DOMAIN said.counts
    BY <2>2 DEF CountsOf
  <2>4. \A field \in DOMAIN said.counts : said.counts[field] >= 0
    BY <1>1 DEF CanProject, ValidReadback
  <2> QED BY <2>3, <2>4
<1>8. Finished(documents) /\ said.next = "none"
  BY <1>4, <1>5, <1>7, FinalIsFinished, FinalNeeds
<1>9. updated <= ix.generated
  BY <1>1, <1>0 DEF CanProject
<1> QED BY <1>2, <1>5, <1>6, <1>8, <1>9
-----------------------------------------------------------------------------
(* The historical index.                                                   *)

LEMMA HistoricalShape ==
    ASSUME NEW documents, NEW day
    PROVE  LET ix == HistoricalIndex(documents, day)
               chosen == [role \in HistoricalRoles |-> documents[role]]
           IN  /\ ix.artifacts = [i \in 1..3 |->
                        [role |-> HistoricalOrder[i], state |-> HistoricalOrder[i],
                         sequence |-> i - 1, document |-> documents[HistoricalOrder[i]]]]
               /\ ix.lineage = [i \in 1..2 |-> <<i - 1, i>>]
               /\ ix.signed /\ ix.safe /\ ix.mission = HistoricalMission
               /\ ~ ix.reference /\ ix.reference = ("terminal" \in DOMAIN Documents(ix))
               /\ ix.conclusions = Recompute(chosen)
               /\ Documents(ix) = chosen
<1> DEFINE ix == HistoricalIndex(documents, day)
           chosen == [role \in HistoricalRoles |-> documents[role]]
<1>1. /\ HistoricalOrder \in Seq({"root", "duration", "session"})
      /\ DOMAIN HistoricalOrder = 1..3 /\ Len(HistoricalOrder) = 3
      /\ HistoricalOrder[1] = "root" /\ HistoricalOrder[2] = "duration"
      /\ HistoricalOrder[3] = "session"
  BY DEF HistoricalOrder
<1>2. HistoricalRoles = {"root", "duration", "session"}
  BY <1>1 DEF HistoricalRoles, Range
<1>3. ix = IndexOver(HistoricalOrder, chosen, HistoricalMission, day, Recompute(chosen))
  BY DEF HistoricalIndex
<1>4. \A i \in 1..3 : chosen[HistoricalOrder[i]] = documents[HistoricalOrder[i]]
  BY <1>1, <1>2
<1>5. ix.artifacts = [i \in 1..3 |->
                [role |-> HistoricalOrder[i], state |-> HistoricalOrder[i],
                 sequence |-> i - 1, document |-> documents[HistoricalOrder[i]]]]
  <2> HIDE DEF chosen
  <2> QED BY <1>1, <1>3, <1>4 DEF IndexOver
<1>6. /\ ix.lineage = [i \in 1..2 |-> <<i - 1, i>>]
      /\ ix.signed /\ ix.safe /\ ix.mission = HistoricalMission
      /\ ix.conclusions = Recompute(chosen)
      /\ ix.reference = ("terminal" \in DOMAIN chosen)
  <2> HIDE DEF chosen
  <2> QED BY <1>1, <1>3 DEF IndexOver
<1>7. "terminal" \notin DOMAIN chosen
  BY <1>2
<1>8. Documents(ix) = chosen
  <2> DEFINE artifacts == ix.artifacts
             roles == {artifacts[i].role : i \in DOMAIN artifacts}
             at(role) == CHOOSE i \in DOMAIN artifacts : artifacts[i].role = role
  <2>1. /\ DOMAIN artifacts = 1..3
        /\ \A i \in 1..3 : artifacts[i].role = HistoricalOrder[i]
        /\ \A i \in 1..3 : artifacts[i].document = documents[HistoricalOrder[i]]
    BY <1>5
  <2>2. Documents(ix) = [role \in roles |-> artifacts[at(role)].document]
    BY DEF Documents
  <2> HIDE DEF artifacts
  <2>3. roles = HistoricalRoles
    BY <2>1, <1>1, <1>2
  <2>4. ASSUME NEW role \in HistoricalRoles
        PROVE  artifacts[at(role)].document = documents[role]
    <3>1. \E i \in DOMAIN artifacts : artifacts[i].role = role
      BY <2>1, <1>1, <1>2
    <3>2. at(role) \in DOMAIN artifacts /\ artifacts[at(role)].role = role
      BY <3>1
    <3> QED BY <3>2, <2>1
  <2> HIDE DEF at, roles
  <2> QED BY <2>2, <2>3, <2>4
<1>9. ~ ix.reference /\ ix.reference = ("terminal" \in DOMAIN Documents(ix))
  BY <1>6, <1>7, <1>8, Zenon
<1> QED BY ONLY <1>5, <1>6, <1>8, <1>9

LEMMA HistoricalVerifies ==
    ASSUME NEW documents, NEW day, HistoricalRoles \subseteq DOMAIN documents,
           \A role \in HistoricalRoles :
                documents[role].mission \in {0, HistoricalMission} /\ documents[role].safe
    PROVE  Verifies(HistoricalIndex(documents, day), documents)
<1> DEFINE ix == HistoricalIndex(documents, day)
           chosen == [role \in HistoricalRoles |-> documents[role]]
           artifacts == ix.artifacts
<1>1. /\ artifacts = [i \in 1..3 |->
                [role |-> HistoricalOrder[i], state |-> HistoricalOrder[i],
                 sequence |-> i - 1, document |-> documents[HistoricalOrder[i]]]]
      /\ ix.lineage = [i \in 1..2 |-> <<i - 1, i>>]
      /\ ix.signed /\ ix.safe /\ ix.mission = HistoricalMission
      /\ ~ ix.reference /\ ix.reference = ("terminal" \in DOMAIN Documents(ix))
      /\ ix.conclusions = Recompute(chosen)
      /\ Documents(ix) = chosen
  BY HistoricalShape
<1>2. /\ HistoricalOrder[1] = "root" /\ HistoricalOrder[2] = "duration"
      /\ HistoricalOrder[3] = "session"
      /\ \A i \in 1..3 : HistoricalOrder[i] \in HistoricalRoles
      /\ HistoricalRoles = {"root", "duration", "session"}
  <2>1. DOMAIN HistoricalOrder = 1..3
    BY DEF HistoricalOrder
  <2>2. /\ HistoricalOrder[1] = "root" /\ HistoricalOrder[2] = "duration"
        /\ HistoricalOrder[3] = "session"
    BY DEF HistoricalOrder
  <2> HIDE DEF artifacts, ix, chosen
  <2> QED BY <2>1, <2>2 DEF HistoricalRoles, Range
<1> HIDE DEF ix, chosen, artifacts
<1>3. /\ Len(artifacts) = 3 /\ DOMAIN artifacts = 1..3 /\ artifacts # <<>>
      /\ \A i \in 1..3 : /\ artifacts[i].role = HistoricalOrder[i]
                         /\ artifacts[i].state = HistoricalOrder[i]
                         /\ artifacts[i].sequence = i - 1
                         /\ artifacts[i].document = documents[HistoricalOrder[i]]
  <2>1. artifacts \in Seq({artifacts[i] : i \in 1..3}) /\ DOMAIN artifacts = 1..3
    BY <1>1
  <2> QED BY <1>1, <2>1
<1>4. Monotonic(ix)
  <2>1. \A i \in 1..3 : artifacts[i].state =
                IF artifacts[i].role \in Roles THEN artifacts[i].role ELSE ""
    BY <1>2, <1>3 DEF Roles
  <2>2. \A i \in 1..3 : \A j \in 1..(i - 1) :
                /\ artifacts[j].sequence < artifacts[i].sequence
                /\ artifacts[j].role # artifacts[i].role
    <3>1. ASSUME NEW i \in 1..3, NEW j \in 1..(i - 1)
          PROVE  /\ artifacts[j].sequence < artifacts[i].sequence
                 /\ artifacts[j].role # artifacts[i].role
      <4>1. j \in 1..3 /\ j < i
        OBVIOUS
      <4>2. artifacts[j].sequence = j - 1 /\ artifacts[i].sequence = i - 1
        BY <4>1, <1>3
      <4>3. HistoricalOrder[j] # HistoricalOrder[i]
        BY <4>1, <1>2
      <4> QED BY <4>1, <4>2, <4>3, <1>3
    <3> QED BY <3>1
  <2>3. ix.lineage = [i \in 1..(Len(artifacts) - 1) |->
                        <<artifacts[i].sequence, artifacts[i + 1].sequence>>]
    <3>1. \A i \in 1..2 : artifacts[i].sequence = i - 1 /\ artifacts[i + 1].sequence = i
      BY <1>3
    <3> QED BY <3>1, <1>1, <1>3
  <2>4. \A i \in 1..3 : artifacts[i].sequence >= 0
    BY <1>3
  <2>5. Monotonic(ix) <=>
            /\ artifacts # <<>> /\ Len(artifacts) <= MaxIndexArtifacts
            /\ \A i \in DOMAIN artifacts :
                /\ artifacts[i].state =
                    IF artifacts[i].role \in Roles THEN artifacts[i].role ELSE ""
                /\ artifacts[i].sequence >= 0
                /\ \A j \in 1..(i - 1) :
                    /\ artifacts[j].sequence < artifacts[i].sequence
                    /\ artifacts[j].role # artifacts[i].role
            /\ ix.lineage = [i \in 1..(Len(artifacts) - 1) |->
                                <<artifacts[i].sequence, artifacts[i + 1].sequence>>]
    BY DEF Monotonic, artifacts
  <2>6. Len(artifacts) <= MaxIndexArtifacts
    BY <1>3 DEF MaxIndexArtifacts
  <2> QED BY <1>3, <2>1, <2>2, <2>3, <2>4, <2>5, <2>6
<1>5. FilesAgree(ix, documents)
  <2>1. \A i \in 1..3 :
            /\ HistoricalOrder[i] \in DOMAIN documents
            /\ documents[HistoricalOrder[i]].mission \in {0, HistoricalMission}
            /\ documents[HistoricalOrder[i]].safe
    BY <1>2
  <2> QED BY <2>1, <1>1, <1>3 DEF FilesAgree, artifacts
<1>6. "root" \in DOMAIN chosen /\ "terminal" \notin DOMAIN chosen
  BY <1>2 DEF chosen
<1>7. Verifies(ix, documents)
  <2>1. ix.signed /\ ix.safe /\ ix.mission # 0
    BY <1>1 DEF HistoricalMission
  <2>2. "root" \in DOMAIN Documents(ix) /\ ix.conclusions = Recompute(Documents(ix))
    BY <1>1, <1>6
  <2> QED BY <1>1, <1>4, <1>5, <2>1, <2>2, Zenon DEF Verifies
<1> QED BY <1>7 DEF ix

LEMMA HistoricalConclusions ==
    ASSUME NEW documents, "terminal" \notin DOMAIN documents
    PROVE  /\ Recompute(documents).final = FALSE
           /\ Recompute(documents).readiness = FALSE
           /\ "canonical_terminal_missing" \in Recompute(documents).codes
<1>1. Recompute(documents) = WithoutTerminal(documents)
  BY DEF Recompute
<1>2. /\ WithoutTerminal(documents).final = FALSE
      /\ WithoutTerminal(documents).readiness = FALSE
      /\ "canonical_terminal_missing" \in WithoutTerminal(documents).codes
  BY DEF WithoutTerminal
<1> QED BY <1>1, <1>2

LEMMA HistoricalHolds == HistoricalIsNotFinal
<1> SUFFICES ASSUME HistoricalRoles \subseteq DOMAIN files
    PROVE  LET historical == HistoricalIndex(files, 0)
           IN  /\ Verifies(historical, files) \/ \E role \in HistoricalRoles :
                        files[role].mission \notin {0, HistoricalMission} \/ ~files[role].safe
               /\ ~historical.conclusions.final
               /\ Readback(historical, "import").projection # "done"
               /\ Readback(historical, "import").status = "no_canonical_terminal"
  BY DEF HistoricalIsNotFinal
<1> DEFINE historical == HistoricalIndex(files, 0)
           chosen == [role \in HistoricalRoles |-> files[role]]
           said == historical.conclusions
<1>1. Verifies(historical, files) \/ \E role \in HistoricalRoles :
            files[role].mission \notin {0, HistoricalMission} \/ ~files[role].safe
  BY HistoricalVerifies
<1>2. said = Recompute(chosen)
  BY HistoricalShape
<1>3. "terminal" \notin DOMAIN chosen
  <2>1. "terminal" \notin HistoricalRoles
    <3>1. DOMAIN HistoricalOrder = 1..3 /\ HistoricalOrder[1] = "root"
          /\ HistoricalOrder[2] = "duration" /\ HistoricalOrder[3] = "session"
      BY DEF HistoricalOrder
    <3> QED BY <3>1 DEF HistoricalRoles, Range
  <2> QED BY <2>1
<1> HIDE DEF chosen
<1>4. said.final = FALSE /\ said.readiness = FALSE /\ "canonical_terminal_missing" \in said.codes
  BY <1>2, <1>3, HistoricalConclusions
<1> HIDE DEF historical
<1>5. /\ Readback(historical, "import").projection # "done"
      /\ Readback(historical, "import").status = "no_canonical_terminal"
  <2>1. OperatorStatus(said.final, said.counts) # "done"
    BY <1>4 DEF OperatorStatus
  <2>2. ImportStatus(said) = "no_canonical_terminal"
    BY <1>4 DEF ImportStatus
  <2> QED BY <2>1, <2>2 DEF Readback
<1> QED BY <1>1, <1>4, <1>5 DEF historical
-----------------------------------------------------------------------------
(* The invariant.                                                          *)

LEMMA InitIInv == Init => IInv
<1> SUFFICES ASSUME Init PROVE IInv
  OBVIOUS
<1>1. PICK lease \in Evidence["lease"], root \in Evidence["root"],
           duration \in Evidence["duration"], terminal \in Evidence["terminal"],
           session \in Evidence["session"],
           roles \in {Range(Order), Range(Order) \ {"terminal"}} :
        files = Restrict([lease |-> lease, root |-> root, duration |-> duration,
                          terminal |-> terminal, session |-> session], roles)
  BY DEF Init
<1>2. FilesOK(files)
  <2> DEFINE all == [lease |-> lease, root |-> root, duration |-> duration,
                     terminal |-> terminal, session |-> session]
  <2>1. /\ IsDocument(lease) /\ IsDocument(root) /\ IsDocument(duration)
        /\ IsDocument(terminal) /\ IsDocument(session)
    BY EvidenceAssumption
  <2>2. roles \subseteq {"lease", "root", "duration", "terminal", "session"}
    <3>1. DOMAIN Order = 1..5 /\ Order[1] = "lease" /\ Order[2] = "root"
          /\ Order[3] = "duration" /\ Order[4] = "terminal" /\ Order[5] = "session"
      BY DEF Order
    <3> QED BY <3>1 DEF Range
  <2>3. files = [role \in roles |-> all[role]]
    BY <1>1 DEF Restrict
  <2>4. \A role \in roles : IsDocument(all[role])
    BY <2>1, <2>2
  <2> HIDE DEF all
  <2> QED BY <2>3, <2>4 DEF FilesOK
<1>3. /\ DOMAIN importer = Importers /\ state = NoImport
      /\ \A i \in Importers : importer[i].step = "idle"
  BY DEF Init, Idle
<1> QED BY <1>2, <1>3 DEF IInv, Importing

LEMMA NextIInv == IInv /\ [Next]_vars => IInv'
<1> SUFFICES ASSUME IInv, [Next]_vars PROVE IInv'
  OBVIOUS
<1> USE DEF IInv
<1>1. CASE Publish
  BY <1>1 DEF Publish, Importing
<1>2. CASE Historical
  BY <1>2 DEF Historical, Importing
<1>3. ASSUME NEW role \in DOMAIN Evidence, Replace(role)
      PROVE  IInv'
  <2>1. PICK document \in Evidence[role] :
            files' = [r \in DOMAIN files \union {role} |->
                        IF r = role THEN document ELSE files[r]]
    BY <1>3 DEF Replace
  <2>2. IsDocument(document)
    BY EvidenceAssumption
  <2>3. FilesOK(files')
    BY <2>1, <2>2 DEF FilesOK
  <2> QED BY <2>3, <1>3 DEF Replace, FilesOK, Importing
<1>4. ASSUME NEW i \in Importers, Read(i)
      PROVE  IInv'
  <2>1. Sound(index)
    BY <1>4 DEF Read, Sound
  <2>2. /\ DOMAIN importer' = Importers
        /\ \A j \in Importers : importer'[j] =
                IF j = i THEN [step |-> "look", index |-> index] ELSE importer[j]
    BY <1>4 DEF Read
  <2>3. \A j \in Importers : Importing(j)' => Sound(importer'[j].index)
    BY <2>1, <2>2 DEF Importing
  <2> QED BY <2>2, <2>3, <1>4 DEF Read, FilesOK
<1>5. ASSUME NEW i \in Importers, Look(i)
      PROVE  IInv'
  <2>1. CASE importer' = [importer EXCEPT ![i].step = "write"]
    <3>1. /\ DOMAIN importer' = Importers
          /\ importer'[i].index = importer[i].index
          /\ \A j \in Importers \ {i} : importer'[j] = importer[j]
      BY <2>1
    <3>2. Importing(i)
      BY <1>5 DEF Look, Importing
    <3>3. \A j \in Importers : Importing(j)' => Sound(importer'[j].index)
      BY <3>1, <3>2 DEF Importing
    <3> QED BY <3>1, <3>3, <1>5 DEF Look, FilesOK
  <2>2. CASE importer' = [importer EXCEPT ![i] = Idle]
    <3>1. /\ DOMAIN importer' = Importers
          /\ \A j \in Importers : importer'[j] \in {importer[j], Idle}
      BY <2>2
    <3>2. \A j \in Importers : Importing(j)' => Sound(importer'[j].index)
      BY <3>1 DEF Importing, Idle
    <3> QED BY <3>1, <3>2, <1>5 DEF Look, FilesOK
  <2> QED BY <1>5, <2>1, <2>2 DEF Look, Answer
<1>6. ASSUME NEW i \in Importers, Write(i)
      PROVE  IInv'
  <2>1. /\ DOMAIN importer' = Importers
        /\ \A j \in Importers : importer'[j] \in {importer[j], Idle}
    BY <1>6 DEF Write, Answer
  <2>2. \A j \in Importers : Importing(j)' => Sound(importer'[j].index)
    BY <2>1 DEF Importing, Idle
  <2>3. state' # NoImport => \E ix : Sound(ix) /\ state' = Readback(ix, "import")
    BY <1>6 DEF Write, Importing
  <2> QED BY <2>1, <2>2, <2>3, <1>6 DEF Write, FilesOK
<1>7. CASE UNCHANGED vars
  BY <1>7 DEF vars, FilesOK, Importing
<1> QED BY <1>1, <1>2, <1>3, <1>4, <1>5, <1>6, <1>7 DEF Next

LEMMA IInvDone == IInv => DoneMeansDone
<1> SUFFICES ASSUME IInv, state # NoImport,
                    NEW status \in {"active", "paused", "stopped"}, NEW updated \in 0..LastDay,
                    LET record == [mission |-> 1, status |-> status, updated |-> updated,
                                   phase |-> "", next |-> "", mayReturn |-> FALSE]
                        shown == Project(record, state)
                    IN  CanProject(record, state) /\ (shown.mayReturn \/ shown.status = "done")
             PROVE  LET record == [mission |-> 1, status |-> status, updated |-> updated,
                                   phase |-> "", next |-> "", mayReturn |-> FALSE]
                        shown == Project(record, state)
                    IN  /\ Finished(Documents(state.index))
                        /\ updated <= state.generated
                        /\ shown.status = "done" /\ shown.mayReturn /\ shown.next = "none"
  BY DEF DoneMeansDone
<1> DEFINE shown == Project(RecordOf(status, updated), state)
<1>1. PICK ix : Sound(ix) /\ state = Readback(ix, "import")
  BY DEF IInv
<1>2. state.index = ix /\ state.generated = ix.generated
  BY <1>1 DEF Readback
<1>3. /\ CanProject(RecordOf(status, updated), Readback(ix, "import"))
      /\ shown = Project(RecordOf(status, updated), Readback(ix, "import"))
      /\ shown.mayReturn \/ shown.status = "done"
  BY <1>1 DEF RecordOf
<1> HIDE DEF shown
<1>4. /\ Finished(Documents(ix))
      /\ updated <= ix.generated
      /\ shown.status = "done" /\ shown.mayReturn /\ shown.next = "none"
  BY <1>1, <1>3, ShownMeansFinished
<1>5. /\ Finished(Documents(state.index))
      /\ updated <= state.generated
      /\ shown.status = "done" /\ shown.mayReturn /\ shown.next = "none"
  BY <1>2, <1>4
<1> QED BY <1>5 DEF shown, RecordOf

\* Whatever is published, replaced, imported or lost on the way, a record is shown as
\* done or as allowed to return only over an import whose evidence says that all the
\* work was finished within the lease, and only if the record did not move on since.
THEOREM DoneMeansDoneHolds == Spec => []DoneMeansDone
<1>1. IInv => DoneMeansDone
  BY IInvDone
<1> QED BY InitIInv, NextIInv, <1>1, PTL DEF Spec

\* The index a historical Mission gets verifies against its evidence, and concludes
\* and shows nothing final, even with a terminal document beside the three it names.
THEOREM HistoricalIsNotFinalHolds == Spec => []HistoricalIsNotFinal
BY HistoricalHolds, PTL DEF Spec
=============================================================================
