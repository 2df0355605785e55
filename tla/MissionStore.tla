---------------------------- MODULE MissionStore ----------------------------
(***************************************************************************)
(* The files of one Mission and the processes that work on them:            *)
(* mission/internal/mission/store.go and store_transaction.go.  A record    *)
(* and its two sidecars, the checkpoint bundle and the event-loop decision, *)
(* change together through a journal of pre-images; every operation takes   *)
(* the Mission's file lock, which the operating system releases when its    *)
(* holder dies, and first recovers the journal it finds.                    *)
(*                                                                          *)
(* A client performs one operation.  A record is the set of operations that *)
(* contributed to it and the operation that added its last continuation     *)
(* step; a checkpoint bundle is the record it was built from; an event      *)
(* decision is the step it was built from.                                  *)
(***************************************************************************)
EXTENDS FiniteSets

CONSTANTS
    Clients,  \* processes, each of which performs one operation
    None,     \* no file, no step, nobody
    Faults    \* what may go wrong: "io", a call fails; "crash", a process dies

ASSUME StoreAssumption ==
    /\ None \notin Clients
    /\ Faults \subseteq {"io", "crash"}

VARIABLES
    record, checkpoint, event, journal,  \* the files
    lock,                                \* the client that holds the file lock
    pc, kind,
    want,                                \* the record a client means to write
    got                                  \* the record a reader returned

files == << record, checkpoint, event, journal >>
vars == << files, lock, pc, kind, want, got >>

Records == [ops : SUBSET Clients, step : Clients \cup {None}]

\* A record saved before sidecars were written beside it.
LegacyRecord == [ops |-> {}, step |-> None]

Images ==
    [ record : Records, checkpoint : Records \cup {None},
      event : Clients \cup {None} ]

Journals ==
    [ state : {"prepared", "committed"}, before : Images, after : Images,
      events : BOOLEAN ]

(***************************************************************************)
(* Update and the imports ("update"), Continue with a new step ("step") and *)
(* without one ("quiet"), Load and List ("read"), LoadCheckpointBundle      *)
(* ("bundle"), and Save, which is a "first" save or one that replaces the   *)
(* record.                                                                  *)
(***************************************************************************)
Updates == {"update", "step", "quiet", "replace"}
Reads == {"read", "bundle"}
Kinds == Updates \cup Reads \cup {"first"}

ASSUME NoneAssumption == None \notin Kinds \cup Records \cup Journals

Critical ==
    { "recover", "undo record", "undo checkpoint", "undo event", "undo journal",
      "work", "write record", "write checkpoint", "write event", "commit",
      "cleanup", "clear checkpoint", "clear event", "new checkpoint",
      "new event", "new record", "drop checkpoint", "drop event" }

Stopped == {"done", "failed", "crashed"}

\* The last conjunct is mutual exclusion: only the holder of the lock is at work.
TypeOK ==
    /\ record \in Records \cup {None}
    /\ checkpoint \in Records \cup {None}
    /\ event \in Clients \cup {None}
    /\ journal \in Journals \cup {None}
    /\ lock \in Clients \cup {None}
    /\ pc \in [Clients -> Critical \cup Stopped \cup {"idle", "lock"}]
    /\ kind \in [Clients -> Kinds \cup {None}]
    /\ want \in [Clients -> Records \cup {None}]
    /\ got \in [Clients -> Records \cup {None}]
    /\ \A c \in Clients : pc[c] \in Critical <=> lock = c

Init ==
    /\ record \in {None, LegacyRecord}
    /\ checkpoint = None /\ event = None /\ journal = None
    /\ lock = None
    /\ pc = [c \in Clients |-> "idle"]
    /\ kind = [c \in Clients |-> None]
    /\ want = [c \in Clients |-> None]
    /\ got = [c \in Clients |-> None]

-----------------------------------------------------------------------------
(* Steps, locks and writes.                                                 *)

\* Faulty variant: only a successful operation gives its lock back.
ReleaseOnSuccess(c, label) == IF label = "done" THEN None ELSE lock

\* The deferred unlock of withMissionLockMode, on every way out.
Release(c, label) ==
    IF label \in Stopped /\ lock = c THEN None ELSE lock

Goto(c, label) ==
    /\ pc' = [pc EXCEPT ![c] = label]
    /\ lock' = Release(c, label)

\* writeAtomicFile and removeFileAndSync: the file is replaced and its directory
\* synced; or nothing happens; or it is replaced and the sync fails.
Outcomes(old, new, label, onError) ==
    {[file |-> new, label |-> label]} \cup
    IF "io" \in Faults
    THEN {[file |-> old, label |-> onError], [file |-> new, label |-> onError]}
    ELSE {}

\* A write or removal whose error is ignored.
BestEffort(old, new) == IF "io" \in Faults THEN {old, new} ELSE {new}

-----------------------------------------------------------------------------
(* Calls and the lock.                                                      *)

\* An update decides what to write under the lock, a save brings its record
\* along and looks whether there is one already before it takes the lock.
Start(c) ==
    /\ pc[c] = "idle"
    /\ \/ \E k \in Reads \cup {"update", "step", "quiet"} :
              /\ kind' = [kind EXCEPT ![c] = k]
              /\ UNCHANGED want
       \/ /\ kind' = [kind EXCEPT ![c] =
                         IF record = None THEN "first" ELSE "replace"]
          /\ \E s \in {None, c} :
                want' = [want EXCEPT ![c] = [ops |-> {c}, step |-> s]]
    /\ Goto(c, "lock")
    /\ UNCHANGED << files, got >>

Acquire(c) ==
    /\ pc[c] = "lock"
    /\ lock = None
    /\ pc' = [pc EXCEPT ![c] = "recover"]
    /\ lock' = c
    /\ UNCHANGED << files, kind, want, got >>

-----------------------------------------------------------------------------
(* recoverMissionTransactionLocked.                                         *)

\* A sidecar that exists belongs to the record.
Sidecars(r, cp, ev) ==
    /\ cp # None => cp = r
    /\ ev # None => ev = r.step

\* The journal's pre-images validate, and the files on disk are either the
\* committed ones or ones that the prepared transaction explains.
Recoverable ==
    \/ journal = None
    \/ /\ Sidecars(journal.before.record, journal.before.checkpoint,
                   journal.before.event)
       /\ \/ /\ journal.state = "committed"
             /\ record = journal.after.record
             /\ checkpoint = journal.after.checkpoint
             /\ checkpoint = record
             /\ journal.events => event = journal.after.event
          \/ /\ journal.state = "prepared"
             /\ record \in {journal.before.record, journal.after.record}

Recover(c) ==
    /\ pc[c] = "recover"
    /\ IF ~Recoverable THEN Goto(c, "failed") /\ UNCHANGED journal
       ELSE IF journal = None THEN Goto(c, "work") /\ UNCHANGED journal
       ELSE IF journal.state = "committed"
       THEN Goto(c, "work") /\ journal' \in BestEffort(journal, None)
       ELSE Goto(c, "undo record") /\ UNCHANGED journal
    /\ UNCHANGED << record, checkpoint, event, kind, want, got >>

UndoRecord(c) ==
    /\ pc[c] = "undo record"
    /\ \E o \in Outcomes(record, journal.before.record, "undo checkpoint", "failed") :
           record' = o.file /\ Goto(c, o.label)
    /\ UNCHANGED << checkpoint, event, journal, kind, want, got >>

UndoCheckpoint(c) ==
    LET then == IF journal.events THEN "undo event" ELSE "undo journal" IN
    /\ pc[c] = "undo checkpoint"
    /\ \E o \in Outcomes(checkpoint, journal.before.checkpoint, then, "failed") :
           checkpoint' = o.file /\ Goto(c, o.label)
    /\ UNCHANGED << record, event, journal, kind, want, got >>

UndoEvent(c) ==
    /\ pc[c] = "undo event"
    /\ \E o \in Outcomes(event, journal.before.event, "undo journal", "failed") :
           event' = o.file /\ Goto(c, o.label)
    /\ UNCHANGED << record, checkpoint, journal, kind, want, got >>

UndoJournal(c) ==
    /\ pc[c] = "undo journal"
    /\ \E o \in Outcomes(journal, None, "work", "failed") :
           journal' = o.file /\ Goto(c, o.label)
    /\ UNCHANGED << record, checkpoint, event, kind, want, got >>

-----------------------------------------------------------------------------
(* Load, List and LoadCheckpointBundle.                                     *)

Read(c) ==
    /\ pc[c] = "work" /\ kind[c] \in Reads
    /\ IF record = None \/ (kind[c] = "bundle" /\ checkpoint # record)
       THEN Goto(c, "failed") /\ UNCHANGED got
       ELSE Goto(c, "done") /\ got' = [got EXCEPT ![c] = record]
    /\ UNCHANGED << files, kind, want >>

-----------------------------------------------------------------------------
(* updateMissionTransactionWithTimestamp.                                   *)

\* What the mutation makes of the record it is given.
Mutated(c) ==
    CASE kind[c] \in {"update", "quiet"} -> [record EXCEPT !.ops = @ \cup {c}]
      [] kind[c] = "step" -> [ops |-> record.ops \cup {c}, step |-> c]
      [] kind[c] = "replace" -> want[c]

\* Faulty variant: an update without a decision of its own leaves the event out.
TransactionalOnStep(c) == kind[c] = "step"

\* Only a continuation that adds no step leaves the event decision alone.
Transactional(c) == kind[c] # "quiet"

Prepared(c) ==
    [ state |-> "prepared",
      before |-> [ record |-> record, checkpoint |-> checkpoint,
                   event |-> IF Transactional(c) THEN event ELSE None ],
      after |-> [ record |-> Mutated(c), checkpoint |-> Mutated(c),
                  event |-> Mutated(c).step ],
      events |-> Transactional(c) ]

\* The mutation is refused, or there is nothing to mutate.
Refuse(c) ==
    /\ pc[c] = "work" /\ kind[c] \in Updates
    /\ Goto(c, "failed")
    /\ UNCHANGED << files, kind, want, got >>

Prepare(c) ==
    /\ pc[c] = "work" /\ kind[c] \in Updates
    /\ record # None
    /\ want' = [want EXCEPT ![c] = Mutated(c)]
    /\ \E o \in Outcomes(journal, Prepared(c), "write record", "failed") :
           journal' = o.file /\ Goto(c, o.label)
    /\ UNCHANGED << record, checkpoint, event, kind, got >>

WriteRecord(c) ==
    /\ pc[c] = "write record"
    /\ \E o \in Outcomes(record, want[c], "write checkpoint", "failed") :
           record' = o.file /\ Goto(c, o.label)
    /\ UNCHANGED << checkpoint, event, journal, kind, want, got >>

\* Faulty variant: the transaction is committed before the event is written.
AfterCheckpointEarly == "commit"

AfterCheckpoint == IF journal.events THEN "write event" ELSE "commit"

WriteCheckpoint(c) ==
    /\ pc[c] = "write checkpoint"
    /\ \E o \in Outcomes(checkpoint, want[c], AfterCheckpoint, "failed") :
           checkpoint' = o.file /\ Goto(c, o.label)
    /\ UNCHANGED << record, event, journal, kind, want, got >>

WriteEvent(c) ==
    /\ pc[c] = "write event"
    /\ \E o \in Outcomes(event, want[c].step, "commit", "failed") :
           event' = o.file /\ Goto(c, o.label)
    /\ UNCHANGED << record, checkpoint, journal, kind, want, got >>

\* Faulty variant: the marker is in place, and the operation reports an error.
MarkerReplacedFails == "failed"

\* writeCommittedTransactionJournal: once the marker is in place the operation
\* succeeds, but it leaves the marker there if the sync failed.
MarkerReplaced == "done"

Commit(c) ==
    LET marker == [journal EXCEPT !.state = "committed"] IN
    /\ pc[c] = "commit"
    /\ \E o \in { [file |-> marker, label |-> "cleanup"] } \cup
                IF "io" \in Faults
                THEN { [file |-> journal, label |-> "failed"],
                       [file |-> marker, label |-> MarkerReplaced] }
                ELSE {} :
           journal' = o.file /\ Goto(c, o.label)
    /\ UNCHANGED << record, checkpoint, event, kind, want, got >>

Cleanup(c) ==
    /\ pc[c] = "cleanup"
    /\ journal' \in BestEffort(journal, None)
    /\ Goto(c, "done")
    /\ UNCHANGED << record, checkpoint, event, kind, want, got >>

-----------------------------------------------------------------------------
(* Save of a Mission that has no record: the sidecars first, then the       *)
(* record, without a journal.                                               *)

BeginFirst(c) ==
    /\ pc[c] = "work" /\ kind[c] = "first"
    /\ Goto(c, IF record = None THEN "clear checkpoint" ELSE "failed")
    /\ UNCHANGED << files, kind, want, got >>

\* What an earlier first save left behind is removed.
ClearCheckpoint(c) ==
    /\ pc[c] = "clear checkpoint"
    /\ \E o \in Outcomes(checkpoint, None, "clear event", "failed") :
           checkpoint' = o.file /\ Goto(c, o.label)
    /\ UNCHANGED << record, event, journal, kind, want, got >>

ClearEvent(c) ==
    /\ pc[c] = "clear event"
    /\ \E o \in Outcomes(event, None, "new checkpoint", "failed") :
           event' = o.file /\ Goto(c, o.label)
    /\ UNCHANGED << record, checkpoint, journal, kind, want, got >>

\* writeInitialMissionFile counts as done once the file is replaced.
Initial(old, new, label) ==
    {[file |-> new, label |-> label]} \cup
    IF "io" \in Faults THEN {[file |-> old, label |-> "drop checkpoint"]} ELSE {}

NewCheckpoint(c) ==
    LET then == IF want[c].step # None THEN "new event" ELSE "new record" IN
    /\ pc[c] = "new checkpoint"
    /\ \E o \in Initial(checkpoint, want[c], then) :
           checkpoint' = o.file /\ Goto(c, o.label)
    /\ UNCHANGED << record, event, journal, kind, want, got >>

NewEvent(c) ==
    /\ pc[c] = "new event"
    /\ \E o \in Initial(event, want[c].step, "new record") :
           event' = o.file /\ Goto(c, o.label)
    /\ UNCHANGED << record, checkpoint, journal, kind, want, got >>

NewRecord(c) ==
    /\ pc[c] = "new record"
    /\ \E o \in Initial(record, want[c], "done") :
           record' = o.file /\ Goto(c, o.label)
    /\ UNCHANGED << checkpoint, event, journal, kind, want, got >>

DropCheckpoint(c) ==
    /\ pc[c] = "drop checkpoint"
    /\ checkpoint' \in BestEffort(checkpoint, None)
    /\ Goto(c, "drop event")
    /\ UNCHANGED << record, event, journal, kind, want, got >>

DropEvent(c) ==
    /\ pc[c] = "drop event"
    /\ event' \in BestEffort(event, None)
    /\ Goto(c, "failed")
    /\ UNCHANGED << record, checkpoint, journal, kind, want, got >>

-----------------------------------------------------------------------------

Crash(c) ==
    /\ "crash" \in Faults
    /\ pc[c] \notin Stopped \cup {"idle"}
    /\ Goto(c, "crashed")
    /\ UNCHANGED << files, kind, want, got >>

Step(c) ==
    \/ Acquire(c) \/ Recover(c)
    \/ UndoRecord(c) \/ UndoCheckpoint(c) \/ UndoEvent(c) \/ UndoJournal(c)
    \/ Read(c) \/ Refuse(c) \/ Prepare(c)
    \/ WriteRecord(c) \/ WriteCheckpoint(c) \/ WriteEvent(c)
    \/ Commit(c) \/ Cleanup(c)
    \/ BeginFirst(c) \/ ClearCheckpoint(c) \/ ClearEvent(c)
    \/ NewCheckpoint(c) \/ NewEvent(c) \/ NewRecord(c)
    \/ DropCheckpoint(c) \/ DropEvent(c)

\* Every operation has ended.
Finished == (\A c \in Clients : pc[c] \in Stopped) /\ UNCHANGED vars

Next == (\E c \in Clients : Start(c) \/ Step(c) \/ Crash(c)) \/ Finished

Spec == Init /\ [][Next]_vars

-----------------------------------------------------------------------------
(* Properties.                                                              *)

\* Whoever reads or changes the Mission, wherever earlier operations died or
\* failed, finds sidecars that belong to the record it finds.
SidecarsMatch ==
    \A c \in Clients : pc[c] = "work" /\ record # None =>
        /\ checkpoint = record \/ (record = LegacyRecord /\ checkpoint = None)
        /\ event = record.step

\* Whenever the lock is free, or has just been taken, the journal on disk can be
\* recovered: no failure and no crash shuts a Mission for good.
NeverStuck ==
    lock = None \/ pc[lock] = "recover" => Recoverable

\* The record that the journal's recovery exposes.
Exposed ==
    IF journal # None /\ journal.state = "prepared"
    THEN journal.before.record ELSE record

PhaseSeen(label) ==
    CASE label \in Stopped \cup {"idle"} -> label
      [] label = "cleanup" -> "applied"
      [] OTHER -> "open"

AskedSeen(operation) ==
    CASE operation = "quiet" -> "update"
      [] operation = "bundle" -> "read"
      [] operation \in {"first", "replace"} -> "save"
      [] OTHER -> operation

Phases == [c \in Clients |-> PhaseSeen(pc[c])]
Asks == [c \in Clients |-> AskedSeen(kind[c])]

Ledger == INSTANCE MissionLedger WITH
    ledger <- Exposed, phase <- Phases, asked <- Asks

\* Operations on a Mission are atomic: each takes effect in one instant or, when
\* it reports a failure, not at all, and readers see only such states.
OperationsAreAtomic == Ledger!Spec
=============================================================================
