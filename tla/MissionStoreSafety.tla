------------------------- MODULE MissionStoreSafety -------------------------
(***************************************************************************)
(* MissionStore for every number of clients: its invariants, and that it     *)
(* implements MissionLedger.  What a crash or a failure leaves on disk is    *)
(* described for every moment (Resting), since either may happen at any; the  *)
(* rest says what the holder of the lock has done so far.                    *)
(***************************************************************************)
EXTENDS MissionStore, TLAPS

\* A record with the sidecars that an operation expects to find beside it.
Matching(r, cp, ev) ==
    /\ r \in Records
    /\ cp = r \/ (r = LegacyRecord /\ cp = None)
    /\ ev = r.step

\* No transaction is pending: the record, if there is one, has its sidecars.
NoJournal ==
    journal = None => record = None \/ Matching(record, checkpoint, event)

\* A marker left behind says what is on disk.
CommittedJournal ==
    journal # None /\ journal.state = "committed" =>
        /\ Matching(record, checkpoint, event) /\ checkpoint = record
        /\ journal.after.record = record /\ journal.after.checkpoint = record
        /\ journal.after.event = event
        /\ Sidecars(journal.before.record, journal.before.checkpoint, journal.before.event)

\* A pending transaction can be undone, however far it got, and however far an
\* earlier recovery got with undoing it.
PreparedJournal ==
    journal # None /\ journal.state = "prepared" =>
        LET before == journal.before  after == journal.after IN
        /\ Matching(before.record, before.checkpoint, before.record.step)
        /\ after.record \in Records
        /\ after.checkpoint = after.record /\ after.event = after.record.step
        /\ record \in {before.record, after.record}
        /\ checkpoint \in {before.checkpoint, after.checkpoint}
        /\ IF journal.events
           THEN /\ before.event = before.record.step
                /\ event \in {before.event, after.event}
           ELSE /\ before.event = None
                /\ event = before.record.step /\ after.event = before.record.step

Resting == NoJournal /\ CommittedJournal /\ PreparedJournal

Undoing == {"undo record", "undo checkpoint", "undo event", "undo journal"}
Writing == {"write record", "write checkpoint", "write event", "commit"}
Making == { "clear checkpoint", "clear event", "new checkpoint", "new event",
            "new record", "drop checkpoint", "drop event" }

\* What c makes of a record.
Made(c, old, new) ==
    /\ kind[c] \in {"update", "quiet"} => new = [old EXCEPT !.ops = @ \cup {c}]
    /\ kind[c] = "step" => new = [ops |-> old.ops \cup {c}, step |-> c]
    /\ kind[c] = "replace" => new.ops = {c} /\ new.step \in {None, c}

\* The parts of an operation, by the label its client is at.
WorkInv(c) ==
    pc[c] \in {"work", "cleanup"} => journal = None \/ journal.state = "committed"

UndoInv(c) ==
    pc[c] \in Undoing =>
        /\ journal # None /\ journal.state = "prepared"
        /\ pc[c] # "undo record" => record = journal.before.record
        /\ pc[c] \in {"undo event", "undo journal"} =>
               checkpoint = journal.before.checkpoint
        /\ pc[c] = "undo event" => journal.events
        /\ pc[c] = "undo journal" => event = journal.before.record.step

WriteInv(c) ==
    pc[c] \in Writing =>
        /\ journal # None /\ journal.state = "prepared" /\ kind[c] \in Updates
        /\ want[c] = journal.after.record
        /\ Made(c, journal.before.record, journal.after.record)
        /\ pc[c] # "write record" => record = journal.after.record
        /\ pc[c] \in {"write event", "commit"} => checkpoint = journal.after.checkpoint
        /\ pc[c] = "write event" => journal.events
        /\ pc[c] = "commit" => event = journal.after.event

MakeInv(c) ==
    pc[c] \in Making =>
        /\ journal = None /\ record = None /\ kind[c] = "first"
        /\ pc[c] \in {"clear event", "new checkpoint"} => checkpoint = None
        /\ pc[c] \in {"new checkpoint", "new event"} => event = None
        /\ pc[c] \in {"new event", "new record"} => checkpoint = want[c]
        /\ pc[c] = "new record" => event = want[c].step

\* What a save brings along, and what everybody was asked.
KindInv(c) ==
    /\ pc[c] # "idle" => kind[c] \in Kinds
    /\ kind[c] \in {"first", "replace"} =>
           want[c] \in Records /\ want[c].ops = {c} /\ want[c].step \in {None, c}

ClientInv(c) ==
    WorkInv(c) /\ UndoInv(c) /\ WriteInv(c) /\ MakeInv(c) /\ KindInv(c)

IInv == TypeOK /\ Resting /\ \A c \in Clients : ClientInv(c)

-----------------------------------------------------------------------------
(* What every step has in common.                                           *)

Labels == Critical \cup Stopped \cup {"idle", "lock"}

\* A write ends as intended, or with an error and the old or the new file.
LEMMA OutcomesOK ==
    ASSUME NEW old, NEW new, NEW label, NEW onError,
           NEW o \in Outcomes(old, new, label, onError)
    PROVE  \/ o.file = new /\ o.label = label
           \/ o.file \in {old, new} /\ o.label = onError
BY DEF Outcomes

\* Moving the client that holds the lock keeps the lock, or gives it back when the
\* client stops; moving another leaves it alone.
LEMMA GotoOK ==
    ASSUME TypeOK, NEW c \in Clients, NEW label \in Labels, Goto(c, label),
           pc[c] \in Critical => label \in Critical \cup Stopped,
           pc[c] \notin Critical => label \notin Critical
    PROVE  /\ pc' \in [Clients -> Labels] /\ pc'[c] = label
           /\ \A d \in Clients \ {c} : pc'[d] = pc[d]
           /\ lock' \in Clients \cup {None}
           /\ \A d \in Clients : pc'[d] \in Critical <=> lock' = d
<1> USE StoreAssumption
<1>1. /\ pc \in [Clients -> Labels] /\ lock \in Clients \cup {None}
      /\ \A d \in Clients : pc[d] \in Critical <=> lock = d
  BY DEF TypeOK, Labels
<1>2. pc' = [pc EXCEPT ![c] = label] /\ lock' = Release(c, label)
  BY DEF Goto
<1>3. /\ pc' \in [Clients -> Labels] /\ pc'[c] = label
      /\ \A d \in Clients \ {c} : pc'[d] = pc[d]
  BY <1>1, <1>2
<1>4. \A l \in Stopped : l \notin Critical
  BY DEF Stopped, Critical
<1>5. CASE label \in Stopped /\ lock = c
  <2>1. lock' = None
    BY <1>2, <1>5 DEF Release
  <2> QED
    BY <1>1, <1>3, <1>4, <1>5, <2>1
<1>6. CASE ~(label \in Stopped /\ lock = c)
  <2>1. lock' = lock
    BY <1>2, <1>6 DEF Release
  <2>2. pc[c] \in Critical <=> label \in Critical
    BY <1>1, <1>4, <1>6
  <2> QED
    BY <1>1, <1>3, <2>1, <2>2
<1> QED
  BY <1>5, <1>6

\* While one client works under the lock, nothing is asked of the others.
LEMMA OthersWait ==
    ASSUME IInv, NEW c \in Clients, pc[c] \in Critical,
           \A d \in Clients \ {c} :
               pc'[d] = pc[d] /\ kind'[d] = kind[d] /\ want'[d] = want[d]
    PROVE  \A d \in Clients \ {c} : ClientInv(d)'
<1> SUFFICES ASSUME NEW d \in Clients \ {c} PROVE ClientInv(d)'
  OBVIOUS
<1>1. pc'[d] \notin Critical
  BY DEF IInv, TypeOK
<1>2. WorkInv(d)' /\ UndoInv(d)' /\ WriteInv(d)' /\ MakeInv(d)'
  BY <1>1 DEF WorkInv, UndoInv, WriteInv, MakeInv, Undoing, Writing, Making, Critical
<1>3. KindInv(d)'
  BY DEF IInv, ClientInv, KindInv
<1> QED
  BY <1>2, <1>3 DEF ClientInv

FilesOK ==
    /\ record \in Records \cup {None}
    /\ checkpoint \in Records \cup {None}
    /\ event \in Clients \cup {None}
    /\ journal \in Journals \cup {None}

\* A step under the lock that asks nobody for anything new.
LEMMA CriticalStep ==
    ASSUME IInv, NEW c \in Clients, NEW label \in Critical \cup Stopped,
           pc[c] \in Critical, Goto(c, label), UNCHANGED << kind, want >>,
           got' \in [Clients -> Records \cup {None}], FilesOK', Resting',
           label \notin Stopped =>
               WorkInv(c)' /\ UndoInv(c)' /\ WriteInv(c)' /\ MakeInv(c)'
    PROVE  IInv'
<1>1. TypeOK
  BY DEF IInv
<1>2. label \in Labels
  BY DEF Labels
<1>3. /\ pc' \in [Clients -> Labels] /\ pc'[c] = label
      /\ \A d \in Clients \ {c} : pc'[d] = pc[d]
      /\ lock' \in Clients \cup {None}
      /\ \A d \in Clients : pc'[d] \in Critical <=> lock' = d
  BY <1>1, <1>2, GotoOK
<1>4. TypeOK'
  BY <1>1, <1>3 DEF TypeOK, FilesOK, Labels
<1>5. \A d \in Clients \ {c} : ClientInv(d)'
  BY <1>3, OthersWait
<1>6. KindInv(c)'
  <2>1. pc[c] # "idle" /\ KindInv(c)
    BY DEF Critical, IInv, ClientInv
  <2> QED
    BY <2>1 DEF KindInv
<1>7. label \in Stopped => WorkInv(c)' /\ UndoInv(c)' /\ WriteInv(c)' /\ MakeInv(c)'
  BY <1>3 DEF Stopped, WorkInv, UndoInv, WriteInv, MakeInv, Undoing, Writing, Making
<1>8. ClientInv(c)'
  BY <1>6, <1>7 DEF ClientInv
<1> QED
  BY <1>4, <1>5, <1>8 DEF IInv

\* The same for a step that writes one file and stops on an error.
LEMMA AfterWrite ==
    ASSUME NEW c \in Clients, pc[c] \in Critical, TypeOK,
           NEW old, NEW new, NEW label \in Critical \cup Stopped,
           NEW o \in Outcomes(old, new, label, "failed"), Goto(c, o.label)
    PROVE  /\ o.label \in Critical \cup Stopped /\ pc'[c] = o.label
           /\ o.file \in {old, new}
           /\ o.label \notin Stopped => o.label = label /\ o.file = new
<1>1. \/ o.file = new /\ o.label = label
      \/ o.file \in {old, new} /\ o.label = "failed"
  BY OutcomesOK
<1>2. "failed" \in Stopped
  BY DEF Stopped
<1>3. pc'[c] = o.label
  BY DEF Goto, TypeOK
<1> QED
  BY <1>1, <1>2, <1>3

\* Where the client at a label of one kind is not.
LEMMA LabelKinds ==
    /\ Undoing \subseteq Critical /\ Writing \subseteq Critical /\ Making \subseteq Critical
    /\ Undoing \cap Writing = {} /\ Undoing \cap Making = {} /\ Writing \cap Making = {}
    /\ \A l \in Undoing \cup Writing \cup Making : l \notin {"recover", "work", "cleanup"}
    /\ {"recover", "work", "cleanup"} \subseteq Critical
BY DEF Undoing, Writing, Making, Critical

-----------------------------------------------------------------------------
(* Recovery.                                                                *)

\* Whatever lies on disk can be recovered.
LEMMA RestingRecoverable ==
    ASSUME TypeOK, Resting
    PROVE  Recoverable
<1>1. CASE journal = None
  BY <1>1 DEF Recoverable
<1>2. CASE journal # None /\ journal.state = "committed"
  BY <1>2 DEF Resting, CommittedJournal, Recoverable
<1>3. CASE journal # None /\ journal.state = "prepared"
  <2>1. Sidecars(journal.before.record, journal.before.checkpoint, journal.before.event)
    BY <1>3, NoneAssumption DEF Resting, PreparedJournal, Matching, Sidecars
  <2> QED
    BY <1>3, <2>1 DEF Resting, PreparedJournal, Recoverable
<1> QED
  BY <1>1, <1>2, <1>3 DEF TypeOK, Journals

LEMMA RecoverStep ==
    ASSUME IInv, NEW c \in Clients, Recover(c)
    PROVE  IInv'
<1>1. TypeOK /\ Resting /\ Recoverable /\ pc[c] \in Critical
  BY RestingRecoverable DEF IInv, Recover, Critical
<1>2. /\ UNCHANGED << record, checkpoint, event, kind, want, got >>
      /\ \/ journal = None /\ journal' = None /\ Goto(c, "work")
         \/ /\ journal # None /\ journal.state = "committed"
            /\ journal' \in {journal, None} /\ Goto(c, "work")
         \/ /\ journal # None /\ journal.state = "prepared"
            /\ journal' = journal /\ Goto(c, "undo record")
  BY <1>1 DEF Recover, BestEffort, TypeOK, Journals
<1>3. FilesOK' /\ got' \in [Clients -> Records \cup {None}]
  BY <1>1, <1>2 DEF FilesOK, TypeOK
<1>4. Resting'
  <2>1. CASE journal' = journal
    BY <1>1, <1>2, <2>1 DEF Resting, NoJournal, CommittedJournal, PreparedJournal
  <2>2. CASE journal' # journal
    BY <1>1, <1>2, <2>2 DEF Resting, NoJournal, CommittedJournal, PreparedJournal
  <2> QED
    BY <2>1, <2>2
<1>5. PICK label \in {"work", "undo record"} :
          /\ Goto(c, label)
          /\ label = "work" => journal' = None \/ journal'.state = "committed"
          /\ label = "undo record" => journal' # None /\ journal'.state = "prepared"
  BY <1>2
<1>6. label \in Critical /\ pc'[c] = label
  BY <1>1, <1>5 DEF Critical, Goto, TypeOK
<1>7. WorkInv(c)' /\ UndoInv(c)' /\ WriteInv(c)' /\ MakeInv(c)'
  BY <1>5, <1>6 DEF WorkInv, UndoInv, WriteInv, MakeInv, Undoing, Writing, Making
<1> QED
  BY <1>1, <1>2, <1>3, <1>4, <1>5, <1>6, <1>7, CriticalStep

\* What a client finds that undoes a transaction.
LEMMA UndoFacts ==
    ASSUME IInv, NEW c \in Clients, pc[c] \in Undoing
    PROVE  /\ TypeOK /\ pc[c] \in Critical /\ UndoInv(c) /\ PreparedJournal
           /\ journal \in Journals /\ journal # None /\ journal.state = "prepared"
           /\ journal.before.record \in Records
           /\ journal.before.checkpoint \in Records \cup {None}
           /\ journal.before.event \in Clients \cup {None}
<1>1. TypeOK /\ UndoInv(c) /\ PreparedJournal /\ pc[c] \in Critical
  BY LabelKinds DEF IInv, ClientInv, Resting
<1>2. journal # None /\ journal.state = "prepared" /\ journal \in Journals
  BY <1>1 DEF UndoInv, TypeOK
<1> QED
  BY <1>1, <1>2 DEF Journals, Images

LEMMA UndoRecordStep ==
    ASSUME IInv, NEW c \in Clients, UndoRecord(c)
    PROVE  IInv'
<1>1. /\ TypeOK /\ pc[c] \in Critical /\ UndoInv(c) /\ PreparedJournal
      /\ journal \in Journals /\ journal # None /\ journal.state = "prepared"
      /\ journal.before.record \in Records
  BY UndoFacts DEF UndoRecord, Undoing
<1>2. PICK o \in Outcomes(record, journal.before.record, "undo checkpoint", "failed") :
          record' = o.file /\ Goto(c, o.label)
  BY DEF UndoRecord
<1>3. UNCHANGED << checkpoint, event, journal, kind, want, got >>
  BY DEF UndoRecord
<1>4. /\ o.label \in Critical \cup Stopped /\ pc'[c] = o.label
      /\ o.file \in {record, journal.before.record}
      /\ o.label \notin Stopped =>
             o.label = "undo checkpoint" /\ o.file = journal.before.record
  <2> DEFINE image == journal.before.record
  <2>1. "undo checkpoint" \in Critical \cup Stopped
    BY DEF Critical
  <2>2. o \in Outcomes(record, image, "undo checkpoint", "failed")
    OBVIOUS
  <2> HIDE DEF image
  <2>3. /\ o.label \in Critical \cup Stopped /\ pc'[c] = o.label
        /\ o.file \in {record, image}
        /\ o.label \notin Stopped => o.label = "undo checkpoint" /\ o.file = image
    BY <1>1, <1>2, <2>1, <2>2, AfterWrite
  <2> QED
    BY <2>3 DEF image
<1>5. FilesOK' /\ got' \in [Clients -> Records \cup {None}]
  BY <1>1, <1>2, <1>3, <1>4 DEF FilesOK, TypeOK
<1>6. Resting'
  BY <1>1, <1>2, <1>3, <1>4 DEF Resting, NoJournal, CommittedJournal, PreparedJournal
<1>7. o.label \notin Stopped => WorkInv(c)' /\ UndoInv(c)' /\ WriteInv(c)' /\ MakeInv(c)'
  BY <1>1, <1>2, <1>3, <1>4 DEF WorkInv, UndoInv, WriteInv, MakeInv, Undoing, Writing, Making
<1> QED
  BY <1>1, <1>2, <1>3, <1>4, <1>5, <1>6, <1>7, CriticalStep

LEMMA UndoCheckpointStep ==
    ASSUME IInv, NEW c \in Clients, UndoCheckpoint(c)
    PROVE  IInv'
<1> DEFINE then == IF journal.events THEN "undo event" ELSE "undo journal"
<1>1. /\ TypeOK /\ pc[c] \in Critical /\ UndoInv(c) /\ PreparedJournal
      /\ journal \in Journals /\ journal # None /\ journal.state = "prepared"
      /\ journal.before.checkpoint \in Records \cup {None}
      /\ record = journal.before.record
  BY UndoFacts DEF UndoCheckpoint, Undoing, UndoInv
<1>2. PICK o \in Outcomes(checkpoint, journal.before.checkpoint, then, "failed") :
          checkpoint' = o.file /\ Goto(c, o.label)
  BY DEF UndoCheckpoint
<1>3. UNCHANGED << record, event, journal, kind, want, got >>
  BY DEF UndoCheckpoint
<1>4. /\ o.label \in Critical \cup Stopped /\ pc'[c] = o.label
      /\ o.file \in {checkpoint, journal.before.checkpoint}
      /\ o.label \notin Stopped => o.label = then /\ o.file = journal.before.checkpoint
  <2> DEFINE image == journal.before.checkpoint
  <2>1. then \in Critical \cup Stopped
    BY DEF Critical
  <2>2. o \in Outcomes(checkpoint, image, then, "failed")
    OBVIOUS
  <2> HIDE DEF image, then
  <2>3. /\ o.label \in Critical \cup Stopped /\ pc'[c] = o.label
        /\ o.file \in {checkpoint, image}
        /\ o.label \notin Stopped => o.label = then /\ o.file = image
    BY <1>1, <1>2, <2>1, <2>2, AfterWrite
  <2> QED
    BY <2>3 DEF image
<1>5. FilesOK' /\ got' \in [Clients -> Records \cup {None}]
  BY <1>1, <1>2, <1>3, <1>4 DEF FilesOK, TypeOK
<1>6. Resting'
  BY <1>1, <1>2, <1>3, <1>4 DEF Resting, NoJournal, CommittedJournal, PreparedJournal
<1>7. o.label \notin Stopped => WorkInv(c)' /\ UndoInv(c)' /\ WriteInv(c)' /\ MakeInv(c)'
  <2> SUFFICES ASSUME o.label \notin Stopped
               PROVE  WorkInv(c)' /\ UndoInv(c)' /\ WriteInv(c)' /\ MakeInv(c)'
    OBVIOUS
  <2>1. pc'[c] = then /\ checkpoint' = journal.before.checkpoint
    BY <1>2, <1>4
  <2>2. CASE journal.events
    BY <1>1, <1>3, <2>1, <2>2
       DEF WorkInv, UndoInv, WriteInv, MakeInv, Undoing, Writing, Making
  <2>3. CASE ~journal.events
    <3>1. event = journal.before.record.step
      BY <1>1, <2>3 DEF PreparedJournal
    <3> QED
      BY <1>1, <1>3, <2>1, <2>3, <3>1
         DEF WorkInv, UndoInv, WriteInv, MakeInv, Undoing, Writing, Making
  <2> QED
    BY <2>2, <2>3
<1> QED
  BY <1>1, <1>2, <1>3, <1>4, <1>5, <1>6, <1>7, CriticalStep

LEMMA UndoEventStep ==
    ASSUME IInv, NEW c \in Clients, UndoEvent(c)
    PROVE  IInv'
<1>1. /\ TypeOK /\ pc[c] \in Critical /\ UndoInv(c) /\ PreparedJournal
      /\ journal \in Journals /\ journal # None /\ journal.state = "prepared"
      /\ journal.before.event \in Clients \cup {None}
      /\ record = journal.before.record /\ checkpoint = journal.before.checkpoint
      /\ journal.events
  BY UndoFacts DEF UndoEvent, Undoing, UndoInv
<1>2. PICK o \in Outcomes(event, journal.before.event, "undo journal", "failed") :
          event' = o.file /\ Goto(c, o.label)
  BY DEF UndoEvent
<1>3. UNCHANGED << record, checkpoint, journal, kind, want, got >>
  BY DEF UndoEvent
<1>4. /\ o.label \in Critical \cup Stopped /\ pc'[c] = o.label
      /\ o.file \in {event, journal.before.event}
      /\ o.label \notin Stopped => o.label = "undo journal" /\ o.file = journal.before.event
  <2>1. "undo journal" \in Critical \cup Stopped
    BY DEF Critical
  <2> QED
    BY <1>1, <1>2, <2>1, AfterWrite
<1>5. FilesOK' /\ got' \in [Clients -> Records \cup {None}]
  BY <1>1, <1>2, <1>3, <1>4 DEF FilesOK, TypeOK
<1>6. Resting'
  BY <1>1, <1>2, <1>3, <1>4 DEF Resting, NoJournal, CommittedJournal, PreparedJournal
<1>7. o.label \notin Stopped => WorkInv(c)' /\ UndoInv(c)' /\ WriteInv(c)' /\ MakeInv(c)'
  <2>1. journal.before.event = journal.before.record.step
    BY <1>1 DEF PreparedJournal
  <2> QED
    BY <1>1, <1>2, <1>3, <1>4, <2>1
       DEF WorkInv, UndoInv, WriteInv, MakeInv, Undoing, Writing, Making
<1> QED
  BY <1>1, <1>2, <1>3, <1>4, <1>5, <1>6, <1>7, CriticalStep

LEMMA UndoJournalStep ==
    ASSUME IInv, NEW c \in Clients, UndoJournal(c)
    PROVE  IInv'
<1>1. /\ TypeOK /\ pc[c] \in Critical /\ UndoInv(c) /\ PreparedJournal
      /\ journal \in Journals /\ journal # None /\ journal.state = "prepared"
      /\ record = journal.before.record /\ checkpoint = journal.before.checkpoint
      /\ event = journal.before.record.step
  BY UndoFacts DEF UndoJournal, Undoing, UndoInv
<1>2. PICK o \in Outcomes(journal, None, "work", "failed") :
          journal' = o.file /\ Goto(c, o.label)
  BY DEF UndoJournal
<1>3. UNCHANGED << record, checkpoint, event, kind, want, got >>
  BY DEF UndoJournal
<1>4. /\ o.label \in Critical \cup Stopped /\ pc'[c] = o.label
      /\ o.file \in {journal, None}
      /\ o.label \notin Stopped => o.label = "work" /\ o.file = None
  <2>1. "work" \in Critical \cup Stopped
    BY DEF Critical
  <2> QED
    BY <1>1, <1>2, <2>1, AfterWrite
<1>5. FilesOK' /\ got' \in [Clients -> Records \cup {None}]
  BY <1>1, <1>2, <1>3, <1>4 DEF FilesOK, TypeOK
<1>6. Resting'
  BY <1>1, <1>2, <1>3, <1>4 DEF Resting, NoJournal, CommittedJournal, PreparedJournal
<1>7. o.label \notin Stopped => WorkInv(c)' /\ UndoInv(c)' /\ WriteInv(c)' /\ MakeInv(c)'
  BY <1>2, <1>3, <1>4 DEF WorkInv, UndoInv, WriteInv, MakeInv, Undoing, Writing, Making
<1> QED
  BY <1>1, <1>2, <1>3, <1>4, <1>5, <1>6, <1>7, CriticalStep

-----------------------------------------------------------------------------
(* Reading, and transactions.                                               *)

\* A step that leaves the files alone leaves them recoverable.
LEMMA SameFiles ==
    ASSUME IInv, UNCHANGED files
    PROVE  FilesOK' /\ Resting'
BY DEF IInv, TypeOK, FilesOK, Resting, NoJournal, CommittedJournal, PreparedJournal, files

LEMMA ReadStep ==
    ASSUME IInv, NEW c \in Clients, Read(c)
    PROVE  IInv'
<1>1. /\ pc[c] \in Critical /\ UNCHANGED << files, kind, want >>
      /\ got' \in [Clients -> Records \cup {None}]
      /\ \E label \in {"failed", "done"} : Goto(c, label)
  BY DEF Read, Critical, IInv, TypeOK
<1>2. PICK label \in {"failed", "done"} : Goto(c, label)
  BY <1>1
<1>3. label \in Stopped
  BY DEF Stopped
<1>4. FilesOK' /\ Resting' /\ UNCHANGED << kind, want >>
  BY <1>1, SameFiles
<1> QED
  BY <1>1, <1>2, <1>3, <1>4, CriticalStep

LEMMA RefuseStep ==
    ASSUME IInv, NEW c \in Clients, Refuse(c)
    PROVE  IInv'
<1>1. /\ pc[c] \in Critical /\ UNCHANGED << files, kind, want, got >>
      /\ got' \in [Clients -> Records \cup {None}] /\ Goto(c, "failed")
  BY DEF Refuse, Critical, IInv, TypeOK
<1>2. "failed" \in Stopped
  BY DEF Stopped
<1>3. FilesOK' /\ Resting' /\ UNCHANGED << kind, want >>
  BY <1>1, SameFiles
<1> QED
  BY <1>1, <1>2, <1>3, CriticalStep

\* The record that a transaction writes.
LEMMA MutatedOK ==
    ASSUME NEW c \in Clients, kind[c] \in Updates, KindInv(c), record \in Records
    PROVE  /\ Mutated(c) \in Records
           /\ Made(c, record, Mutated(c))
           /\ kind[c] = "quiet" => Mutated(c).step = record.step
<1>1. CASE kind[c] \in {"update", "quiet"}
  <2>1. Mutated(c) = [record EXCEPT !.ops = @ \cup {c}]
    BY <1>1 DEF Mutated
  <2>2. kind[c] # "step" /\ kind[c] # "replace"
    BY <1>1
  <2> QED
    BY <1>1, <2>1, <2>2 DEF Made, Records
<1>2. CASE kind[c] = "step"
  <2>1. Mutated(c) = [ops |-> record.ops \cup {c}, step |-> c]
    BY <1>2 DEF Mutated
  <2>2. kind[c] \notin {"update", "quiet", "replace"}
    BY <1>2
  <2> QED
    BY <1>2, <2>1, <2>2 DEF Made, Records
<1>3. CASE kind[c] = "replace"
  <2>1. Mutated(c) = want[c]
    BY <1>3 DEF Mutated
  <2>2. kind[c] \notin {"update", "quiet", "step"}
    BY <1>3
  <2>3. want[c] \in Records /\ want[c].ops = {c} /\ want[c].step \in {None, c}
    BY <1>3 DEF KindInv
  <2> QED
    BY <1>3, <2>1, <2>2, <2>3 DEF Made
<1> QED
  BY <1>1, <1>2, <1>3 DEF Updates

\* The journal that a transaction begins with.
LEMMA PreparedOK ==
    ASSUME IInv, NEW c \in Clients, pc[c] = "work", kind[c] \in Updates, record # None
    PROVE  /\ Matching(record, checkpoint, event)
           /\ Mutated(c) \in Records /\ Made(c, record, Mutated(c))
           /\ Prepared(c) \in Journals /\ Prepared(c) # None
           /\ Prepared(c).state = "prepared"
           /\ Prepared(c).before.record = record
           /\ Prepared(c).before.checkpoint = checkpoint
           /\ Prepared(c).after.record = Mutated(c)
           /\ Prepared(c).after.checkpoint = Mutated(c)
           /\ Prepared(c).after.event = Mutated(c).step
           /\ Prepared(c).events => Prepared(c).before.event = event
           /\ ~Prepared(c).events =>
                  Prepared(c).before.event = None /\ Mutated(c).step = record.step
<1>1. TypeOK /\ Resting /\ WorkInv(c) /\ KindInv(c)
  BY DEF IInv, ClientInv
<1>2. record \in Records /\ checkpoint \in Records \cup {None} /\ event \in Clients \cup {None}
  BY <1>1 DEF TypeOK
<1>3. Matching(record, checkpoint, event)
  BY <1>1 DEF WorkInv, Resting, NoJournal, CommittedJournal
<1>4. /\ Mutated(c) \in Records /\ Made(c, record, Mutated(c))
      /\ kind[c] = "quiet" => Mutated(c).step = record.step
  BY <1>1, <1>2, MutatedOK
<1> DEFINE m == Mutated(c)
           before == [ record |-> record, checkpoint |-> checkpoint,
                       event |-> IF Transactional(c) THEN event ELSE None ]
           after == [ record |-> m, checkpoint |-> m, event |-> m.step ]
<1>5. m.step \in Clients \cup {None}
  BY <1>4 DEF Records
<1> HIDE DEF m
<1>6. before \in Images /\ after \in Images
  BY <1>2, <1>4, <1>5 DEF Images, m
<1>7. Transactional(c) \in BOOLEAN /\ (~Transactional(c) <=> kind[c] = "quiet")
  BY DEF Transactional
<1>8. Prepared(c) = [ state |-> "prepared", before |-> before, after |-> after,
                      events |-> Transactional(c) ]
  BY DEF Prepared, m
<1>9. Prepared(c) \in Journals
  BY <1>6, <1>7, <1>8 DEF Journals
<1>10. /\ Prepared(c).state = "prepared" /\ Prepared(c).before = before
       /\ Prepared(c).after = after /\ (Prepared(c).events <=> Transactional(c))
  <2> HIDE DEF before, after
  <2> QED
    BY <1>8
<1>11. /\ before.record = record /\ before.checkpoint = checkpoint
       /\ Transactional(c) => before.event = event
       /\ ~Transactional(c) => before.event = None
       /\ after.record = m /\ after.checkpoint = m /\ after.event = m.step
  OBVIOUS
<1> HIDE DEF before, after
<1> QED
  BY <1>3, <1>4, <1>7, <1>9, <1>10, <1>11, NoneAssumption DEF m

LEMMA PrepareStep ==
    ASSUME IInv, NEW c \in Clients, Prepare(c)
    PROVE  IInv'
<1> DEFINE new == Prepared(c)
<1>1. /\ pc[c] = "work" /\ kind[c] \in Updates /\ record # None
      /\ want' = [want EXCEPT ![c] = Mutated(c)]
      /\ UNCHANGED << record, checkpoint, event, kind, got >>
  BY DEF Prepare
<1>2. TypeOK /\ Resting /\ KindInv(c) /\ pc[c] \in Critical
  BY <1>1 DEF IInv, ClientInv, Critical
<1>3. /\ Matching(record, checkpoint, event)
      /\ Mutated(c) \in Records /\ Made(c, record, Mutated(c))
      /\ new \in Journals /\ new # None /\ new.state = "prepared"
      /\ new.before.record = record /\ new.before.checkpoint = checkpoint
      /\ new.after.record = Mutated(c) /\ new.after.checkpoint = Mutated(c)
      /\ new.after.event = Mutated(c).step
      /\ new.events => new.before.event = event
      /\ ~new.events => new.before.event = None /\ Mutated(c).step = record.step
  BY <1>1, PreparedOK
<1>4. PICK o \in Outcomes(journal, new, "write record", "failed") :
          journal' = o.file /\ Goto(c, o.label)
  BY DEF Prepare
<1> HIDE DEF new
<1>5. /\ o.label \in Critical \cup Stopped /\ pc'[c] = o.label
      /\ o.file \in {journal, new}
      /\ o.label \notin Stopped => o.label = "write record" /\ o.file = new
  <2>1. "write record" \in Critical \cup Stopped
    BY DEF Critical
  <2> QED
    BY <1>2, <1>4, <2>1, AfterWrite
<1>6. FilesOK'
  BY <1>1, <1>2, <1>3, <1>4, <1>5 DEF FilesOK, TypeOK
<1>7. Resting'
  <2>1. CASE journal' = journal
    BY <1>1, <1>2, <2>1 DEF Resting, NoJournal, CommittedJournal, PreparedJournal
  <2>2. CASE journal' = new
    <3>1. NoJournal' /\ CommittedJournal'
      BY <1>3, <2>2 DEF NoJournal, CommittedJournal
    <3>2. Matching(record, checkpoint, record.step) /\ event = record.step
      BY <1>3 DEF Matching
    <3>3. PreparedJournal'
      BY <1>1, <1>3, <2>2, <3>2 DEF PreparedJournal
    <3> QED
      BY <3>1, <3>3 DEF Resting
  <2> QED
    BY <1>4, <1>5, <2>1, <2>2
<1>8. /\ want' \in [Clients -> Records \cup {None}] /\ want'[c] = Mutated(c)
      /\ \A d \in Clients \ {c} : want'[d] = want[d]
  BY <1>1, <1>2, <1>3 DEF TypeOK
<1>9. o.label \in Labels
  BY <1>5 DEF Labels
<1>10. /\ pc' \in [Clients -> Labels] /\ pc'[c] = o.label
       /\ \A d \in Clients \ {c} : pc'[d] = pc[d]
       /\ lock' \in Clients \cup {None}
       /\ \A d \in Clients : pc'[d] \in Critical <=> lock' = d
  BY <1>2, <1>4, <1>5, <1>9, GotoOK
<1>11. TypeOK'
  BY <1>1, <1>2, <1>6, <1>8, <1>10 DEF TypeOK, FilesOK, Labels
<1>12. \A d \in Clients \ {c} : ClientInv(d)'
  BY <1>1, <1>2, <1>8, <1>10, OthersWait
<1>13. KindInv(c)'
  <2>1. pc[c] # "idle" /\ kind' = kind /\ kind[c] # "first"
    BY <1>1 DEF Updates
  <2>2. kind[c] = "replace" => Mutated(c).ops = {c} /\ Mutated(c).step \in {None, c}
    BY <1>3 DEF Made
  <2> QED
    BY <1>2, <1>3, <1>8, <2>1, <2>2 DEF KindInv
<1>14. WorkInv(c)' /\ UndoInv(c)' /\ WriteInv(c)' /\ MakeInv(c)'
  <2>1. CASE o.label \in Stopped
    BY <1>5, <2>1
       DEF WorkInv, UndoInv, WriteInv, MakeInv, Undoing, Writing, Making, Stopped
  <2>2. CASE o.label \notin Stopped
    <3>1. pc'[c] = "write record" /\ journal' = new
      BY <1>4, <1>5, <2>2
    <3>2. Made(c, journal.before.record, journal.after.record)'
      BY <1>1, <1>3, <3>1 DEF Made
    <3>3. WriteInv(c)'
      BY <1>1, <1>3, <1>8, <3>1, <3>2 DEF WriteInv, Writing
    <3> QED
      BY <3>1, <3>3 DEF WorkInv, UndoInv, MakeInv, Undoing, Making
  <2> QED
    BY <2>1, <2>2
<1> QED
  BY <1>7, <1>11, <1>12, <1>13, <1>14 DEF IInv, ClientInv

\* What a client finds that is in the middle of a transaction.
LEMMA WriteFacts ==
    ASSUME IInv, NEW c \in Clients, pc[c] \in Writing
    PROVE  /\ TypeOK /\ pc[c] \in Critical /\ WriteInv(c) /\ PreparedJournal
           /\ journal \in Journals /\ journal # None /\ journal.state = "prepared"
           /\ journal.after.record \in Records /\ want[c] = journal.after.record
           /\ journal.after.checkpoint = want[c] /\ journal.after.event = want[c].step
           /\ want[c].step \in Clients \cup {None}
           /\ kind[c] \in Updates
           /\ Made(c, journal.before.record, journal.after.record)
<1>1. TypeOK /\ WriteInv(c) /\ PreparedJournal /\ pc[c] \in Critical
  BY LabelKinds DEF IInv, ClientInv, Resting
<1>2. journal # None /\ journal.state = "prepared" /\ journal \in Journals
  BY <1>1 DEF WriteInv, TypeOK
<1>3. /\ journal.after.record \in Records /\ want[c] = journal.after.record
      /\ journal.after.checkpoint = want[c] /\ journal.after.event = want[c].step
      /\ kind[c] \in Updates /\ Made(c, journal.before.record, journal.after.record)
  BY <1>1, <1>2 DEF WriteInv, PreparedJournal
<1>4. want[c].step \in Clients \cup {None}
  BY <1>3 DEF Records
<1> QED
  BY <1>1, <1>2, <1>3, <1>4

LEMMA WriteRecordStep ==
    ASSUME IInv, NEW c \in Clients, WriteRecord(c)
    PROVE  IInv'
<1> DEFINE image == want[c]
<1>1. /\ TypeOK /\ pc[c] \in Critical /\ PreparedJournal
      /\ journal \in Journals /\ journal # None /\ journal.state = "prepared"
      /\ image \in Records /\ image = journal.after.record /\ image = want[c]
      /\ kind[c] \in Updates /\ Made(c, journal.before.record, journal.after.record)
  BY WriteFacts DEF WriteRecord, Writing
<1>2. PICK o \in Outcomes(record, image, "write checkpoint", "failed") :
          record' = o.file /\ Goto(c, o.label)
  BY DEF WriteRecord
<1>3. UNCHANGED << checkpoint, event, journal, kind, want, got >>
  BY DEF WriteRecord
<1> HIDE DEF image
<1>4. /\ o.label \in Critical \cup Stopped /\ pc'[c] = o.label
      /\ o.file \in {record, image}
      /\ o.label \notin Stopped => o.label = "write checkpoint" /\ o.file = image
  <2>1. "write checkpoint" \in Critical \cup Stopped
    BY DEF Critical
  <2> QED
    BY <1>1, <1>2, <2>1, AfterWrite
<1>5. FilesOK' /\ got' \in [Clients -> Records \cup {None}]
  BY <1>1, <1>2, <1>3, <1>4 DEF FilesOK, TypeOK
<1>6. Resting'
  BY <1>1, <1>2, <1>3, <1>4 DEF Resting, NoJournal, CommittedJournal, PreparedJournal
<1>7. o.label \notin Stopped => WorkInv(c)' /\ UndoInv(c)' /\ WriteInv(c)' /\ MakeInv(c)'
  <2> SUFFICES ASSUME o.label \notin Stopped
               PROVE  WorkInv(c)' /\ UndoInv(c)' /\ WriteInv(c)' /\ MakeInv(c)'
    OBVIOUS
  <2>1. pc'[c] = "write checkpoint" /\ record' = journal.after.record
    BY <1>1, <1>2, <1>4
  <2>2. Made(c, journal.before.record, journal.after.record)'
    BY <1>1, <1>3 DEF Made
  <2>3. WriteInv(c)'
    BY <1>1, <1>3, <2>1, <2>2 DEF WriteInv, Writing
  <2> QED
    BY <2>1, <2>3 DEF WorkInv, UndoInv, MakeInv, Undoing, Making
<1> QED
  BY <1>1, <1>2, <1>3, <1>4, <1>5, <1>6, <1>7, CriticalStep

LEMMA WriteCheckpointStep ==
    ASSUME IInv, NEW c \in Clients, WriteCheckpoint(c)
    PROVE  IInv'
<1> DEFINE image == want[c]
           then == AfterCheckpoint
<1>1. /\ TypeOK /\ pc[c] \in Critical /\ PreparedJournal
      /\ journal \in Journals /\ journal # None /\ journal.state = "prepared"
      /\ image \in Records /\ image = journal.after.record /\ image = want[c]
      /\ journal.after.checkpoint = image /\ record = journal.after.record
      /\ kind[c] \in Updates /\ Made(c, journal.before.record, journal.after.record)
  BY WriteFacts DEF WriteCheckpoint, Writing, WriteInv
<1>2. PICK o \in Outcomes(checkpoint, image, then, "failed") :
          checkpoint' = o.file /\ Goto(c, o.label)
  BY DEF WriteCheckpoint
<1>3. UNCHANGED << record, event, journal, kind, want, got >>
  BY DEF WriteCheckpoint
<1>4. then \in Critical \cup Stopped
  BY DEF Critical, AfterCheckpoint
<1>5. /\ journal.events => then = "write event"
      /\ ~journal.events => then = "commit"
  BY DEF AfterCheckpoint
<1> HIDE DEF image, then
<1>6. /\ o.label \in Critical \cup Stopped /\ pc'[c] = o.label
      /\ o.file \in {checkpoint, image}
      /\ o.label \notin Stopped => o.label = then /\ o.file = image
  BY <1>1, <1>2, <1>4, AfterWrite
<1>7. FilesOK' /\ got' \in [Clients -> Records \cup {None}]
  BY <1>1, <1>2, <1>3, <1>6 DEF FilesOK, TypeOK
<1>8. Resting'
  BY <1>1, <1>2, <1>3, <1>6 DEF Resting, NoJournal, CommittedJournal, PreparedJournal
<1>9. o.label \notin Stopped => WorkInv(c)' /\ UndoInv(c)' /\ WriteInv(c)' /\ MakeInv(c)'
  <2> SUFFICES ASSUME o.label \notin Stopped
               PROVE  WorkInv(c)' /\ UndoInv(c)' /\ WriteInv(c)' /\ MakeInv(c)'
    OBVIOUS
  <2>1. pc'[c] = then /\ checkpoint' = journal.after.checkpoint
    BY <1>1, <1>2, <1>6
  <2>2. Made(c, journal.before.record, journal.after.record)'
    BY <1>1, <1>3 DEF Made
  <2>3. ~journal.events => event = journal.after.event
    BY <1>1 DEF PreparedJournal
  <2>4. WriteInv(c)'
    BY <1>1, <1>3, <1>5, <2>1, <2>2, <2>3 DEF WriteInv, Writing
  <2> QED
    BY <1>5, <2>1, <2>4 DEF WorkInv, UndoInv, MakeInv, Undoing, Making
<1> QED
  BY <1>1, <1>2, <1>3, <1>6, <1>7, <1>8, <1>9, CriticalStep

LEMMA WriteEventStep ==
    ASSUME IInv, NEW c \in Clients, WriteEvent(c)
    PROVE  IInv'
<1> DEFINE image == want[c].step
<1>1. /\ TypeOK /\ pc[c] \in Critical /\ PreparedJournal
      /\ journal \in Journals /\ journal # None /\ journal.state = "prepared"
      /\ image \in Clients \cup {None} /\ journal.after.event = image
      /\ want[c] = journal.after.record
      /\ record = journal.after.record /\ checkpoint = journal.after.checkpoint
      /\ journal.events
      /\ kind[c] \in Updates /\ Made(c, journal.before.record, journal.after.record)
  BY WriteFacts DEF WriteEvent, Writing, WriteInv
<1>2. PICK o \in Outcomes(event, image, "commit", "failed") :
          event' = o.file /\ Goto(c, o.label)
  BY DEF WriteEvent
<1>3. UNCHANGED << record, checkpoint, journal, kind, want, got >>
  BY DEF WriteEvent
<1> HIDE DEF image
<1>4. /\ o.label \in Critical \cup Stopped /\ pc'[c] = o.label
      /\ o.file \in {event, image}
      /\ o.label \notin Stopped => o.label = "commit" /\ o.file = image
  <2>1. "commit" \in Critical \cup Stopped
    BY DEF Critical
  <2> QED
    BY <1>1, <1>2, <2>1, AfterWrite
<1>5. FilesOK' /\ got' \in [Clients -> Records \cup {None}]
  BY <1>1, <1>2, <1>3, <1>4 DEF FilesOK, TypeOK
<1>6. Resting'
  BY <1>1, <1>2, <1>3, <1>4 DEF Resting, NoJournal, CommittedJournal, PreparedJournal
<1>7. o.label \notin Stopped => WorkInv(c)' /\ UndoInv(c)' /\ WriteInv(c)' /\ MakeInv(c)'
  <2> SUFFICES ASSUME o.label \notin Stopped
               PROVE  WorkInv(c)' /\ UndoInv(c)' /\ WriteInv(c)' /\ MakeInv(c)'
    OBVIOUS
  <2>1. pc'[c] = "commit" /\ event' = journal.after.event
    BY <1>1, <1>2, <1>4
  <2>2. Made(c, journal.before.record, journal.after.record)'
    BY <1>1, <1>3 DEF Made
  <2>3. WriteInv(c)'
    BY <1>1, <1>3, <2>1, <2>2 DEF WriteInv, Writing
  <2> QED
    BY <2>1, <2>3 DEF WorkInv, UndoInv, MakeInv, Undoing, Making
<1> QED
  BY <1>1, <1>2, <1>3, <1>4, <1>5, <1>6, <1>7, CriticalStep

\* The marker that commits a transaction.
LEMMA MarkerOK ==
    ASSUME journal \in Journals, NEW marker,
           marker = [journal EXCEPT !.state = "committed"], None \notin Journals
    PROVE  /\ marker \in Journals /\ marker # None /\ marker.state = "committed"
           /\ marker.before = journal.before /\ marker.after = journal.after
BY DEF Journals

LEMMA CommitStep ==
    ASSUME IInv, NEW c \in Clients, Commit(c)
    PROVE  IInv'
<1> DEFINE marker == [journal EXCEPT !.state = "committed"]
<1>1. /\ TypeOK /\ pc[c] \in Critical /\ PreparedJournal
      /\ journal \in Journals /\ journal # None /\ journal.state = "prepared"
      /\ journal.after.record \in Records
      /\ journal.after.checkpoint = journal.after.record
      /\ journal.after.event = journal.after.record.step
      /\ record = journal.after.record /\ checkpoint = journal.after.checkpoint
      /\ event = journal.after.event
  BY WriteFacts DEF Commit, Writing, WriteInv
<1>2. UNCHANGED << record, checkpoint, event, kind, want, got >>
  BY DEF Commit
<1>3. \/ journal' = marker /\ Goto(c, "cleanup")
      \/ journal' = journal /\ Goto(c, "failed")
      \/ journal' = marker /\ Goto(c, "done")
  BY DEF Commit, MarkerReplaced
<1>4. /\ marker \in Journals /\ marker # None /\ marker.state = "committed"
      /\ marker.before = journal.before /\ marker.after = journal.after
  BY <1>1, MarkerOK, NoneAssumption
<1> HIDE DEF marker
<1>5. PICK label \in {"cleanup", "failed", "done"} :
          /\ Goto(c, label)
          /\ label = "cleanup" => journal' = marker
  BY <1>3
<1>6. label \in Critical \cup Stopped /\ pc'[c] = label /\ (label \notin Stopped => label = "cleanup")
  BY <1>1, <1>5 DEF Critical, Stopped, Goto, TypeOK
<1>7. FilesOK' /\ got' \in [Clients -> Records \cup {None}]
  BY <1>1, <1>2, <1>3, <1>4 DEF FilesOK, TypeOK
<1>8. Resting'
  <2>1. CASE journal' = journal
    BY <1>1, <1>2, <2>1 DEF Resting, NoJournal, CommittedJournal, PreparedJournal
  <2>2. CASE journal' = marker
    <3>1. Sidecars(journal.before.record, journal.before.checkpoint, journal.before.event)
      BY <1>1, NoneAssumption DEF PreparedJournal, Matching, Sidecars
    <3>2. Matching(record, checkpoint, event)
      BY <1>1 DEF Matching
    <3>3. Sidecars(marker.before.record, marker.before.checkpoint, marker.before.event)
      BY <1>4, <3>1
    <3>4. CommittedJournal'
      BY <1>1, <1>2, <1>4, <2>2, <3>2, <3>3 DEF CommittedJournal, Matching, Sidecars
    <3>5. NoJournal' /\ PreparedJournal'
      BY <1>4, <2>2 DEF NoJournal, PreparedJournal
    <3> QED
      BY <3>4, <3>5 DEF Resting
  <2> QED
    BY <1>3, <2>1, <2>2
<1>9. label \notin Stopped => WorkInv(c)' /\ UndoInv(c)' /\ WriteInv(c)' /\ MakeInv(c)'
  BY <1>4, <1>5, <1>6 DEF WorkInv, UndoInv, WriteInv, MakeInv, Undoing, Writing, Making
<1> QED
  BY <1>1, <1>2, <1>5, <1>6, <1>7, <1>8, <1>9, CriticalStep

LEMMA CleanupStep ==
    ASSUME IInv, NEW c \in Clients, Cleanup(c)
    PROVE  IInv'
<1>1. /\ TypeOK /\ pc[c] \in Critical /\ Resting
      /\ journal = None \/ journal.state = "committed"
  BY DEF Cleanup, Critical, IInv, ClientInv, WorkInv
<1>2. /\ UNCHANGED << record, checkpoint, event, kind, want, got >>
      /\ journal' \in {journal, None} /\ Goto(c, "done")
  BY DEF Cleanup, BestEffort
<1>3. "done" \in Stopped
  BY DEF Stopped
<1>4. FilesOK' /\ got' \in [Clients -> Records \cup {None}]
  BY <1>1, <1>2 DEF FilesOK, TypeOK
<1>5. Resting'
  <2>1. CASE journal' = journal
    BY <1>1, <1>2, <2>1 DEF Resting, NoJournal, CommittedJournal, PreparedJournal
  <2>2. CASE journal' # journal
    BY <1>1, <1>2, <2>2 DEF Resting, NoJournal, CommittedJournal, PreparedJournal
  <2> QED
    BY <2>1, <2>2
<1> QED
  BY <1>1, <1>2, <1>3, <1>4, <1>5, CriticalStep

-----------------------------------------------------------------------------
(* The first save.                                                          *)

\* With no journal and no record, nothing is asked of the sidecars.
LEMMA NothingYet ==
    ASSUME journal' = None, record' = None
    PROVE  Resting'
BY DEF Resting, NoJournal, CommittedJournal, PreparedJournal

\* What a client finds that makes the first record.
LEMMA MakeFacts ==
    ASSUME IInv, NEW c \in Clients, pc[c] \in Making
    PROVE  /\ TypeOK /\ pc[c] \in Critical /\ MakeInv(c)
           /\ journal = None /\ record = None /\ kind[c] = "first"
           /\ want[c] \in Records /\ want[c].step \in Clients \cup {None}
<1>1. TypeOK /\ pc[c] \in Critical /\ MakeInv(c) /\ KindInv(c)
  BY LabelKinds DEF IInv, ClientInv
<1>2. journal = None /\ record = None /\ kind[c] = "first"
  BY <1>1 DEF MakeInv
<1>3. want[c] \in Records
  BY <1>1, <1>2 DEF KindInv
<1>4. want[c].step \in Clients \cup {None}
  BY <1>3 DEF Records
<1> QED
  BY <1>1, <1>2, <1>3, <1>4

LEMMA BeginFirstStep ==
    ASSUME IInv, NEW c \in Clients, BeginFirst(c)
    PROVE  IInv'
<1>1. /\ TypeOK /\ pc[c] = "work" /\ pc[c] \in Critical /\ kind[c] = "first"
      /\ Resting /\ WorkInv(c) /\ UNCHANGED << files, kind, want, got >>
  BY DEF BeginFirst, Critical, IInv, ClientInv
<1>2. \/ Goto(c, "failed")
      \/ Goto(c, "clear checkpoint") /\ record = None
  BY DEF BeginFirst
<1>3. FilesOK' /\ Resting' /\ got' \in [Clients -> Records \cup {None}]
      /\ UNCHANGED << kind, want >>
  BY <1>1, SameFiles DEF TypeOK
<1>4. CASE Goto(c, "failed")
  <2>1. "failed" \in Stopped
    BY DEF Stopped
  <2> QED
    BY <1>1, <1>3, <1>4, <2>1, CriticalStep
<1>5. CASE Goto(c, "clear checkpoint") /\ record = None
  <2>1. "clear checkpoint" \in Critical /\ pc'[c] = "clear checkpoint"
    BY <1>1, <1>5 DEF Critical, Goto, TypeOK
  <2>2. journal = None
    BY <1>1, <1>5, NoneAssumption
       DEF Resting, CommittedJournal, Matching, WorkInv
  <2>3. WorkInv(c)' /\ UndoInv(c)' /\ WriteInv(c)' /\ MakeInv(c)'
    BY <1>1, <1>5, <2>1, <2>2
       DEF WorkInv, UndoInv, WriteInv, MakeInv, Undoing, Writing, Making, files
  <2> QED
    BY <1>1, <1>3, <1>5, <2>1, <2>3, CriticalStep
<1> QED
  BY <1>2, <1>4, <1>5

LEMMA ClearCheckpointStep ==
    ASSUME IInv, NEW c \in Clients, ClearCheckpoint(c)
    PROVE  IInv'
<1>1. /\ TypeOK /\ pc[c] \in Critical
      /\ journal = None /\ record = None /\ kind[c] = "first"
  BY MakeFacts DEF ClearCheckpoint, Making
<1>2. PICK o \in Outcomes(checkpoint, None, "clear event", "failed") :
          checkpoint' = o.file /\ Goto(c, o.label)
  BY DEF ClearCheckpoint
<1>3. UNCHANGED << record, event, journal, kind, want, got >>
  BY DEF ClearCheckpoint
<1>4. /\ o.label \in Critical \cup Stopped /\ pc'[c] = o.label
      /\ o.file \in {checkpoint, None}
      /\ o.label \notin Stopped => o.label = "clear event" /\ o.file = None
  <2>1. "clear event" \in Critical \cup Stopped
    BY DEF Critical
  <2> QED
    BY <1>1, <1>2, <2>1, AfterWrite
<1>5. FilesOK' /\ got' \in [Clients -> Records \cup {None}]
  BY <1>1, <1>2, <1>3, <1>4 DEF FilesOK, TypeOK
<1>6. Resting'
  BY <1>1, <1>3, NothingYet
<1>7. o.label \notin Stopped => WorkInv(c)' /\ UndoInv(c)' /\ WriteInv(c)' /\ MakeInv(c)'
  BY <1>1, <1>2, <1>3, <1>4 DEF WorkInv, UndoInv, WriteInv, MakeInv, Undoing, Writing, Making
<1> QED
  BY <1>1, <1>2, <1>3, <1>4, <1>5, <1>6, <1>7, CriticalStep

LEMMA ClearEventStep ==
    ASSUME IInv, NEW c \in Clients, ClearEvent(c)
    PROVE  IInv'
<1>1. /\ TypeOK /\ pc[c] \in Critical
      /\ journal = None /\ record = None /\ kind[c] = "first" /\ checkpoint = None
  BY MakeFacts DEF ClearEvent, Making, MakeInv
<1>2. PICK o \in Outcomes(event, None, "new checkpoint", "failed") :
          event' = o.file /\ Goto(c, o.label)
  BY DEF ClearEvent
<1>3. UNCHANGED << record, checkpoint, journal, kind, want, got >>
  BY DEF ClearEvent
<1>4. /\ o.label \in Critical \cup Stopped /\ pc'[c] = o.label
      /\ o.file \in {event, None}
      /\ o.label \notin Stopped => o.label = "new checkpoint" /\ o.file = None
  <2>1. "new checkpoint" \in Critical \cup Stopped
    BY DEF Critical
  <2> QED
    BY <1>1, <1>2, <2>1, AfterWrite
<1>5. FilesOK' /\ got' \in [Clients -> Records \cup {None}]
  BY <1>1, <1>2, <1>3, <1>4 DEF FilesOK, TypeOK
<1>6. Resting'
  BY <1>1, <1>3, NothingYet
<1>7. o.label \notin Stopped => WorkInv(c)' /\ UndoInv(c)' /\ WriteInv(c)' /\ MakeInv(c)'
  BY <1>1, <1>2, <1>3, <1>4 DEF WorkInv, UndoInv, WriteInv, MakeInv, Undoing, Writing, Making
<1> QED
  BY <1>1, <1>2, <1>3, <1>4, <1>5, <1>6, <1>7, CriticalStep

\* Where a first save goes that could not write a file.
Undone == "drop checkpoint"

LEMMA TwoEnds ==
    ASSUME NEW file1, NEW label1, NEW file2, NEW label2,
           NEW o \in { [file |-> file1, label |-> label1],
                       [file |-> file2, label |-> label2] }
    PROVE  \/ o.file = file1 /\ o.label = label1
           \/ o.file = file2 /\ o.label = label2
OBVIOUS

\* The file is there and the save goes on, or it is not and the save is undone.
LEMMA InitialEnds ==
    ASSUME NEW old, NEW new, NEW label, NEW o \in Initial(old, new, label)
    PROVE  \/ o.file = new /\ o.label = label
           \/ o.file = old /\ o.label = Undone
<1>1. o \in { [file |-> new, label |-> label], [file |-> old, label |-> Undone] }
  BY DEF Initial, Undone
<1>2. \/ o.file = new /\ o.label = label
      \/ o.file = old /\ o.label = Undone
  BY <1>1, TwoEnds
<1> QED
  BY <1>2

LEMMA InitialOK ==
    ASSUME NEW c \in Clients, pc[c] \in Critical, TypeOK,
           NEW old, NEW new, NEW label \in Critical \cup Stopped,
           NEW o \in Initial(old, new, label), Goto(c, o.label)
    PROVE  /\ o.label \in Critical \cup Stopped /\ pc'[c] = o.label
           /\ \/ o.file = new /\ o.label = label
              \/ o.file = old /\ o.label = Undone
<1>1. Undone \in Critical
  BY DEF Critical, Undone
<1>2. \/ o.file = new /\ o.label = label
      \/ o.file = old /\ o.label = Undone
  BY InitialEnds
<1>3. pc'[c] = o.label
  BY DEF Goto, TypeOK
<1>4. o.label \in Critical \cup Stopped
  BY <1>1, <1>2
<1> QED
  BY <1>2, <1>3, <1>4

LEMMA NewCheckpointStep ==
    ASSUME IInv, NEW c \in Clients, NewCheckpoint(c)
    PROVE  IInv'
<1> DEFINE image == want[c]
           then == IF want[c].step # None THEN "new event" ELSE "new record"
<1>1. /\ TypeOK /\ pc[c] \in Critical
      /\ journal = None /\ record = None /\ kind[c] = "first" /\ event = None
      /\ image \in Records /\ image = want[c]
  BY MakeFacts DEF NewCheckpoint, Making, MakeInv
<1>2. PICK o \in Initial(checkpoint, image, then) :
          checkpoint' = o.file /\ Goto(c, o.label)
  BY DEF NewCheckpoint
<1>3. UNCHANGED << record, event, journal, kind, want, got >>
  BY DEF NewCheckpoint
<1>4. /\ then \in Critical \cup Stopped
      /\ \/ then = "new event"
         \/ then = "new record" /\ image.step = None
  BY DEF Critical
<1> HIDE DEF image, then
<1>5. /\ o.label \in Critical \cup Stopped /\ pc'[c] = o.label
      /\ \/ o.file = image /\ o.label = then
         \/ o.file = checkpoint /\ o.label = Undone
  <2>1. \/ o.file = image /\ o.label = then
        \/ o.file = checkpoint /\ o.label = Undone
    BY <1>2, InitialEnds
  <2>2. Undone \in Critical /\ pc'[c] = o.label
    BY <1>1, <1>2 DEF Undone, Critical, Goto, TypeOK
  <2>3. o.label \in Critical \cup Stopped
    BY <1>4, <2>1, <2>2
  <2> QED
    BY <2>1, <2>2, <2>3
<1>6. FilesOK' /\ got' \in [Clients -> Records \cup {None}]
  BY <1>1, <1>2, <1>3, <1>5 DEF FilesOK, TypeOK
<1>7. Resting'
  BY <1>1, <1>3, NothingYet
<1>8. o.label \notin Stopped => WorkInv(c)' /\ UndoInv(c)' /\ WriteInv(c)' /\ MakeInv(c)'
  <2>1. CASE o.label = Undone
    BY <1>1, <1>3, <1>5, <2>1
       DEF WorkInv, UndoInv, WriteInv, MakeInv, Undoing, Writing, Making, Undone
  <2>2. CASE o.file = image /\ o.label = then
    BY <1>1, <1>2, <1>3, <1>4, <1>5, <2>2
       DEF WorkInv, UndoInv, WriteInv, MakeInv, Undoing, Writing, Making
  <2> QED
    BY <1>5, <2>1, <2>2
<1> QED
  BY <1>1, <1>2, <1>3, <1>5, <1>6, <1>7, <1>8, CriticalStep

LEMMA NewEventStep ==
    ASSUME IInv, NEW c \in Clients, NewEvent(c)
    PROVE  IInv'
<1> DEFINE image == want[c].step
           then == "new record"
<1>1. /\ TypeOK /\ pc[c] \in Critical
      /\ journal = None /\ record = None /\ kind[c] = "first"
      /\ image \in Clients \cup {None} /\ checkpoint = want[c] /\ image = want[c].step
  BY MakeFacts DEF NewEvent, Making, MakeInv
<1>2. PICK o \in Initial(event, image, then) :
          event' = o.file /\ Goto(c, o.label)
  BY DEF NewEvent
<1>3. UNCHANGED << record, checkpoint, journal, kind, want, got >>
  BY DEF NewEvent
<1>4. then \in Critical \cup Stopped
  BY DEF Critical
<1> HIDE DEF image, then
<1>5. /\ o.label \in Critical \cup Stopped /\ pc'[c] = o.label
      /\ \/ o.file = image /\ o.label = then
         \/ o.file = event /\ o.label = Undone
  <2>1. \/ o.file = image /\ o.label = then
        \/ o.file = event /\ o.label = Undone
    BY <1>2, InitialEnds
  <2>2. Undone \in Critical /\ pc'[c] = o.label
    BY <1>1, <1>2 DEF Undone, Critical, Goto, TypeOK
  <2>3. o.label \in Critical \cup Stopped
    BY <1>4, <2>1, <2>2
  <2> QED
    BY <2>1, <2>2, <2>3
<1>6. FilesOK' /\ got' \in [Clients -> Records \cup {None}]
  BY <1>1, <1>2, <1>3, <1>5 DEF FilesOK, TypeOK
<1>7. Resting'
  BY <1>1, <1>3, NothingYet
<1>8. o.label \notin Stopped => WorkInv(c)' /\ UndoInv(c)' /\ WriteInv(c)' /\ MakeInv(c)'
  <2>1. CASE o.label = Undone
    BY <1>1, <1>3, <1>5, <2>1
       DEF WorkInv, UndoInv, WriteInv, MakeInv, Undoing, Writing, Making, Undone
  <2>2. CASE o.file = image /\ o.label = then
    BY <1>1, <1>2, <1>3, <1>5, <2>2
       DEF WorkInv, UndoInv, WriteInv, MakeInv, Undoing, Writing, Making, then
  <2> QED
    BY <1>5, <2>1, <2>2
<1> QED
  BY <1>1, <1>2, <1>3, <1>5, <1>6, <1>7, <1>8, CriticalStep

LEMMA NewRecordStep ==
    ASSUME IInv, NEW c \in Clients, NewRecord(c)
    PROVE  IInv'
<1> DEFINE image == want[c]
<1>1. /\ TypeOK /\ pc[c] \in Critical
      /\ journal = None /\ record = None /\ kind[c] = "first"
      /\ image \in Records /\ checkpoint = image /\ event = image.step
  BY MakeFacts DEF NewRecord, Making, MakeInv
<1>2. PICK o \in Initial(record, image, "done") :
          record' = o.file /\ Goto(c, o.label)
  BY DEF NewRecord
<1>3. UNCHANGED << checkpoint, event, journal, kind, want, got >>
  BY DEF NewRecord
<1>4. "done" \in Critical \cup Stopped /\ "done" \in Stopped
  BY DEF Stopped
<1> HIDE DEF image
<1>5. /\ o.label \in Critical \cup Stopped /\ pc'[c] = o.label
      /\ \/ o.file = image /\ o.label = "done"
         \/ o.file = record /\ o.label = Undone
  BY <1>1, <1>2, <1>4, InitialOK
<1>6. FilesOK' /\ got' \in [Clients -> Records \cup {None}]
  BY <1>1, <1>2, <1>3, <1>5 DEF FilesOK, TypeOK
<1>7. Resting'
  <2>1. CASE o.file = record
    BY <1>1, <1>2, <1>3, <2>1, NothingYet
  <2>2. CASE o.file = image
    <3>1. Matching(record, checkpoint, event)'
      BY <1>1, <1>2, <1>3, <2>2 DEF Matching
    <3> QED
      BY <1>1, <1>3, <3>1 DEF Resting, NoJournal, CommittedJournal, PreparedJournal
  <2> QED
    BY <1>5, <2>1, <2>2
<1>8. o.label \notin Stopped => WorkInv(c)' /\ UndoInv(c)' /\ WriteInv(c)' /\ MakeInv(c)'
  BY <1>1, <1>2, <1>3, <1>4, <1>5
     DEF WorkInv, UndoInv, WriteInv, MakeInv, Undoing, Writing, Making, Undone
<1> QED
  BY <1>1, <1>2, <1>3, <1>5, <1>6, <1>7, <1>8, CriticalStep

LEMMA DropCheckpointStep ==
    ASSUME IInv, NEW c \in Clients, DropCheckpoint(c)
    PROVE  IInv'
<1>1. /\ TypeOK /\ pc[c] \in Critical
      /\ journal = None /\ record = None /\ kind[c] = "first"
  BY MakeFacts DEF DropCheckpoint, Making
<1>2. /\ checkpoint' \in {checkpoint, None} /\ Goto(c, "drop event")
      /\ UNCHANGED << record, event, journal, kind, want, got >>
  BY DEF DropCheckpoint, BestEffort
<1>3. "drop event" \in Critical /\ pc'[c] = "drop event"
  BY <1>1, <1>2 DEF Critical, Goto, TypeOK
<1>4. FilesOK' /\ Resting' /\ got' \in [Clients -> Records \cup {None}]
  BY <1>1, <1>2, NothingYet DEF FilesOK, TypeOK
<1>5. WorkInv(c)' /\ UndoInv(c)' /\ WriteInv(c)' /\ MakeInv(c)'
  BY <1>1, <1>2, <1>3 DEF WorkInv, UndoInv, WriteInv, MakeInv, Undoing, Writing, Making
<1> QED
  BY <1>1, <1>2, <1>3, <1>4, <1>5, CriticalStep

LEMMA DropEventStep ==
    ASSUME IInv, NEW c \in Clients, DropEvent(c)
    PROVE  IInv'
<1>1. /\ TypeOK /\ pc[c] \in Critical
      /\ journal = None /\ record = None /\ kind[c] = "first"
  BY MakeFacts DEF DropEvent, Making
<1>2. /\ event' \in {event, None} /\ Goto(c, "failed")
      /\ UNCHANGED << record, checkpoint, journal, kind, want, got >>
  BY DEF DropEvent, BestEffort
<1>3. "failed" \in Stopped
  BY DEF Stopped
<1>4. FilesOK' /\ Resting' /\ got' \in [Clients -> Records \cup {None}]
  BY <1>1, <1>2, NothingYet DEF FilesOK, TypeOK
<1> QED
  BY <1>1, <1>2, <1>3, <1>4, CriticalStep

-----------------------------------------------------------------------------
(* Calls, the lock and crashes.                                             *)

\* A client that does not move keeps what it relies on while the files stay.
LEMMA Unmoved ==
    ASSUME NEW d \in Clients, ClientInv(d), UNCHANGED files,
           pc'[d] = pc[d], kind'[d] = kind[d], want'[d] = want[d]
    PROVE  ClientInv(d)'
<1>1. UNCHANGED << record, checkpoint, event, journal >>
  BY DEF files
<1>2. WorkInv(d)' /\ UndoInv(d)'
  BY <1>1 DEF ClientInv, WorkInv, UndoInv
<1>3. Made(d, journal.before.record, journal.after.record)
          => Made(d, journal.before.record, journal.after.record)'
  BY <1>1 DEF Made
<1>4. WriteInv(d)'
  BY <1>1, <1>3 DEF ClientInv, WriteInv
<1>5. MakeInv(d)' /\ KindInv(d)'
  BY <1>1 DEF ClientInv, MakeInv, KindInv
<1> QED
  BY <1>2, <1>4, <1>5 DEF ClientInv

\* What a call is asked.
LEMMA StartKinds ==
    ASSUME IInv, NEW c \in Clients, Start(c)
    PROVE  /\ kind' \in [Clients -> Kinds \cup {None}]
           /\ want' \in [Clients -> Records \cup {None}]
           /\ KindInv(c)'
           /\ \A d \in Clients \ {c} : kind'[d] = kind[d] /\ want'[d] = want[d]
<1>1. /\ kind \in [Clients -> Kinds \cup {None}]
      /\ want \in [Clients -> Records \cup {None}]
      /\ KindInv(c)
  BY DEF IInv, TypeOK, ClientInv
<1>2. CASE \E k \in Reads \cup {"update", "step", "quiet"} :
               kind' = [kind EXCEPT ![c] = k] /\ want' = want
  <2>1. PICK k \in Reads \cup {"update", "step", "quiet"} :
            kind' = [kind EXCEPT ![c] = k] /\ want' = want
    BY <1>2
  <2>2. k \in Kinds /\ k \notin {"first", "replace"}
    BY DEF Kinds, Reads, Updates
  <2>3. kind'[c] = k
    BY <1>1, <2>1
  <2>4. KindInv(c)'
    BY <2>2, <2>3 DEF KindInv
  <2> QED
    BY <1>1, <2>1, <2>2, <2>4
<1>3. CASE /\ kind' = [kind EXCEPT ![c] = IF record = None THEN "first" ELSE "replace"]
           /\ \E s \in {None, c} : want' = [want EXCEPT ![c] = [ops |-> {c}, step |-> s]]
  <2>1. PICK s \in {None, c} : want' = [want EXCEPT ![c] = [ops |-> {c}, step |-> s]]
    BY <1>3
  <2>2. PICK k \in {"first", "replace"} : kind' = [kind EXCEPT ![c] = k]
    BY <1>3
  <2> DEFINE r == [ops |-> {c}, step |-> s]
  <2>3. r \in Records /\ r.ops = {c} /\ r.step \in {None, c}
    BY DEF Records
  <2>4. want' = [want EXCEPT ![c] = r]
    BY <2>1
  <2> HIDE DEF r
  <2>5. k \in Kinds
    BY DEF Kinds, Updates
  <2>6. /\ kind' \in [Clients -> Kinds \cup {None}] /\ kind'[c] = k
        /\ want' \in [Clients -> Records \cup {None}] /\ want'[c] = r
        /\ \A d \in Clients \ {c} : kind'[d] = kind[d] /\ want'[d] = want[d]
    BY <1>1, <2>2, <2>3, <2>4, <2>5
  <2>7. KindInv(c)'
    BY <2>3, <2>5, <2>6 DEF KindInv
  <2> QED
    BY <2>6, <2>7
<1> QED
  BY <1>2, <1>3 DEF Start

LEMMA StartStep ==
    ASSUME IInv, NEW c \in Clients, Start(c)
    PROVE  IInv'
<1>1. TypeOK /\ pc[c] = "idle" /\ Goto(c, "lock") /\ UNCHANGED << files, got >>
  BY DEF IInv, Start
<1>2. "idle" \notin Critical /\ "lock" \notin Critical /\ "lock" \in Labels
  BY DEF Critical, Labels
<1>3. /\ pc' \in [Clients -> Labels] /\ pc'[c] = "lock"
      /\ \A d \in Clients \ {c} : pc'[d] = pc[d]
      /\ lock' \in Clients \cup {None}
      /\ \A d \in Clients : pc'[d] \in Critical <=> lock' = d
  BY <1>1, <1>2, GotoOK
<1>4. /\ kind' \in [Clients -> Kinds \cup {None}]
      /\ want' \in [Clients -> Records \cup {None}]
      /\ KindInv(c)'
      /\ \A d \in Clients \ {c} : kind'[d] = kind[d] /\ want'[d] = want[d]
  BY StartKinds
<1>5. FilesOK' /\ Resting'
  BY <1>1, SameFiles
<1>6. TypeOK'
  BY <1>1, <1>3, <1>4, <1>5 DEF TypeOK, FilesOK, Labels
<1>7. \A d \in Clients \ {c} : ClientInv(d)'
  BY <1>1, <1>3, <1>4, Unmoved DEF IInv
<1>8. ClientInv(c)'
  BY <1>3, <1>4
     DEF ClientInv, WorkInv, UndoInv, WriteInv, MakeInv, Undoing, Writing, Making
<1> QED
  BY <1>5, <1>6, <1>7, <1>8 DEF IInv

LEMMA AcquireStep ==
    ASSUME IInv, NEW c \in Clients, Acquire(c)
    PROVE  IInv'
<1>1. /\ TypeOK /\ pc[c] = "lock" /\ lock = None
      /\ pc' = [pc EXCEPT ![c] = "recover"] /\ lock' = c
      /\ UNCHANGED << files, kind, want, got >>
  BY DEF IInv, Acquire
<1>2. "recover" \in Critical
  BY DEF Critical
<1>3. \A d \in Clients : pc[d] \notin Critical
  BY <1>1, StoreAssumption DEF TypeOK
<1>4. /\ pc' \in [Clients -> Labels] /\ pc'[c] = "recover"
      /\ \A d \in Clients \ {c} : pc'[d] = pc[d]
  BY <1>1, <1>2 DEF TypeOK, Labels
<1>5. \A d \in Clients : pc'[d] \in Critical <=> lock' = d
  BY <1>1, <1>2, <1>3, <1>4
<1>6. FilesOK' /\ Resting'
  BY <1>1, SameFiles
<1>7. TypeOK'
  BY <1>1, <1>4, <1>5, <1>6 DEF TypeOK, FilesOK, Labels
<1>8. \A d \in Clients \ {c} : ClientInv(d)'
  BY <1>1, <1>4, Unmoved DEF IInv
<1>9. KindInv(c)'
  BY <1>1 DEF IInv, ClientInv, KindInv
<1>10. ClientInv(c)'
  BY <1>4, <1>9
     DEF ClientInv, WorkInv, UndoInv, WriteInv, MakeInv, Undoing, Writing, Making
<1> QED
  BY <1>6, <1>7, <1>8, <1>10 DEF IInv

LEMMA CrashStep ==
    ASSUME IInv, NEW c \in Clients, Crash(c)
    PROVE  IInv'
<1>1. /\ TypeOK /\ pc[c] # "idle" /\ Goto(c, "crashed")
      /\ UNCHANGED << files, kind, want, got >>
  BY DEF IInv, Crash
<1>2. "crashed" \in Stopped /\ "crashed" \in Labels /\ "crashed" \notin Critical
  BY DEF Stopped, Labels, Critical
<1>3. /\ pc' \in [Clients -> Labels] /\ pc'[c] = "crashed"
      /\ \A d \in Clients \ {c} : pc'[d] = pc[d]
      /\ lock' \in Clients \cup {None}
      /\ \A d \in Clients : pc'[d] \in Critical <=> lock' = d
  BY <1>1, <1>2, GotoOK
<1>4. FilesOK' /\ Resting'
  BY <1>1, SameFiles
<1>5. TypeOK'
  BY <1>1, <1>3, <1>4 DEF TypeOK, FilesOK, Labels
<1>6. \A d \in Clients \ {c} : ClientInv(d)'
  BY <1>1, <1>3, Unmoved DEF IInv
<1>7. KindInv(c)'
  BY <1>1 DEF IInv, ClientInv, KindInv
<1>8. ClientInv(c)'
  BY <1>3, <1>7
     DEF ClientInv, WorkInv, UndoInv, WriteInv, MakeInv, Undoing, Writing, Making
<1> QED
  BY <1>4, <1>5, <1>6, <1>8 DEF IInv

-----------------------------------------------------------------------------
(* The theorems.                                                            *)

LEMMA Initially ==
    ASSUME Init
    PROVE  IInv
<1>1. LegacyRecord \in Records
  BY DEF LegacyRecord, Records
<1>2. /\ record \in Records \cup {None} /\ checkpoint = None /\ event = None
      /\ journal = None /\ lock = None
      /\ pc = [c \in Clients |-> "idle"] /\ kind = [c \in Clients |-> None]
      /\ want = [c \in Clients |-> None] /\ got = [c \in Clients |-> None]
  BY <1>1 DEF Init
<1>3. "idle" \notin Critical
  BY DEF Critical
<1>4. TypeOK
  BY <1>2, <1>3, StoreAssumption DEF TypeOK
<1>5. Resting
  <2>1. record = None \/ record = LegacyRecord
    BY DEF Init
  <2>2. LegacyRecord.step = None
    BY DEF LegacyRecord
  <2>3. record = None \/ Matching(record, checkpoint, event)
    BY <1>1, <1>2, <2>1, <2>2 DEF Matching
  <2> QED
    BY <1>2, <2>3 DEF Resting, NoJournal, CommittedJournal, PreparedJournal
<1>6. \A c \in Clients : ClientInv(c)
  <2> SUFFICES ASSUME NEW c \in Clients PROVE ClientInv(c)
    OBVIOUS
  <2>1. pc[c] = "idle" /\ kind[c] = None
    BY <1>2
  <2>2. None \notin {"first", "replace"}
    BY NoneAssumption DEF Kinds, Updates
  <2> QED
    BY <2>1, <2>2
       DEF ClientInv, WorkInv, UndoInv, WriteInv, MakeInv, KindInv, Undoing, Writing, Making
<1> QED
  BY <1>4, <1>5, <1>6 DEF IInv

LEMMA StepKeeps ==
    ASSUME IInv, NEW c \in Clients, Step(c)
    PROVE  IInv'
<1>1. CASE Acquire(c) \/ Recover(c)
  BY <1>1, AcquireStep, RecoverStep
<1>2. CASE UndoRecord(c) \/ UndoCheckpoint(c) \/ UndoEvent(c) \/ UndoJournal(c)
  BY <1>2, UndoRecordStep, UndoCheckpointStep, UndoEventStep, UndoJournalStep
<1>3. CASE Read(c) \/ Refuse(c) \/ Prepare(c)
  BY <1>3, ReadStep, RefuseStep, PrepareStep
<1>4. CASE WriteRecord(c) \/ WriteCheckpoint(c) \/ WriteEvent(c) \/ Commit(c) \/ Cleanup(c)
  BY <1>4, WriteRecordStep, WriteCheckpointStep, WriteEventStep, CommitStep, CleanupStep
<1>5. CASE BeginFirst(c) \/ ClearCheckpoint(c) \/ ClearEvent(c)
  BY <1>5, BeginFirstStep, ClearCheckpointStep, ClearEventStep
<1>6. CASE NewCheckpoint(c) \/ NewEvent(c) \/ NewRecord(c)
  BY <1>6, NewCheckpointStep, NewEventStep, NewRecordStep
<1>7. CASE DropCheckpoint(c) \/ DropEvent(c)
  BY <1>7, DropCheckpointStep, DropEventStep
<1> QED
  BY <1>1, <1>2, <1>3, <1>4, <1>5, <1>6, <1>7 DEF Step

LEMMA Inductive ==
    ASSUME IInv, [Next]_vars
    PROVE  IInv'
<1>1. CASE \E c \in Clients : Start(c) \/ Step(c) \/ Crash(c)
  BY <1>1, StartStep, StepKeeps, CrashStep
<1>2. CASE UNCHANGED vars
  <2>1. UNCHANGED << files, lock, pc, kind, want, got >>
    BY <1>2 DEF vars
  <2>2. FilesOK' /\ Resting'
    BY <2>1, SameFiles
  <2>3. TypeOK'
    BY <2>1, <2>2 DEF IInv, TypeOK, FilesOK
  <2>4. \A c \in Clients : ClientInv(c)'
    BY <2>1, Unmoved DEF IInv
  <2> QED
    BY <2>2, <2>3, <2>4 DEF IInv
<1> QED
  BY <1>1, <1>2 DEF Next, Finished

THEOREM Invariant == Spec => []IInv
<1>1. Init => IInv
  BY Initially
<1>2. IInv /\ [Next]_vars => IInv'
  BY Inductive
<1> QED
  BY <1>1, <1>2, PTL DEF Spec

\* The variables keep their types, and only the holder of a Mission's lock is at
\* work on its files, however many processes there are.
THEOREM TypeCorrect == Spec => []TypeOK
<1>1. IInv => TypeOK
  BY DEF IInv
<1> QED
  BY <1>1, Invariant, PTL

\* Whoever gets to work on a Mission finds a record with its own sidecars, after
\* any crash of a transaction, of a recovery or of a first save.
THEOREM SidecarsBelong == Spec => []SidecarsMatch
<1>1. IInv => SidecarsMatch
  <2> SUFFICES ASSUME IInv, NEW c \in Clients, pc[c] = "work", record # None
               PROVE  /\ checkpoint = record \/ (record = LegacyRecord /\ checkpoint = None)
                      /\ event = record.step
    BY DEF SidecarsMatch
  <2>1. journal = None \/ (journal # None /\ journal.state = "committed")
    BY DEF IInv, ClientInv, WorkInv
  <2>2. Matching(record, checkpoint, event)
    BY <2>1 DEF IInv, Resting, NoJournal, CommittedJournal
  <2> QED
    BY <2>2 DEF Matching
<1> QED
  BY <1>1, Invariant, PTL

\* No failure and no crash leaves a Mission that recovery refuses.
THEOREM AlwaysRecoverable == Spec => []NeverStuck
<1>1. IInv => NeverStuck
  BY RestingRecoverable DEF IInv, NeverStuck
<1> QED
  BY <1>1, Invariant, PTL

-----------------------------------------------------------------------------
(* MissionStore implements MissionLedger: what the journal exposes changes in  *)
(* one step of each operation that changes the record, at the commit marker   *)
(* or at the first record, and in no other.                                   *)

(* The phase of an operation and what it was asked, from label and kind.    *)

LEMMA PhaseOf ==
    /\ PhaseSeen("idle") = "idle" /\ PhaseSeen("done") = "done"
    /\ PhaseSeen("failed") = "failed" /\ PhaseSeen("crashed") = "crashed"
    /\ PhaseSeen("cleanup") = "applied" /\ PhaseSeen("lock") = "open"
    /\ \A label \in Critical \ {"cleanup"} : PhaseSeen(label) = "open"
<1>1. PhaseSeen("idle") = "idle" /\ PhaseSeen("done") = "done"
  BY DEF PhaseSeen, Stopped
<1>2. PhaseSeen("failed") = "failed" /\ PhaseSeen("crashed") = "crashed"
  BY DEF PhaseSeen, Stopped
<1>3. ASSUME NEW label, label \notin Stopped \cup {"idle", "cleanup"}
      PROVE  PhaseSeen(label) = "open"
  BY <1>3 DEF PhaseSeen
<1>4. PhaseSeen("cleanup") = "applied"
  BY DEF PhaseSeen, Stopped
<1>5. \A label \in Critical \ {"cleanup"} : label \notin Stopped \cup {"idle", "cleanup"}
  BY DEF Critical, Stopped
<1>6. "lock" \notin Stopped \cup {"idle", "cleanup"}
  BY DEF Stopped
<1> QED
  BY <1>1, <1>2, <1>3, <1>4, <1>5, <1>6

LEMMA AskedOf ==
    /\ AskedSeen("update") = "update" /\ AskedSeen("quiet") = "update"
    /\ AskedSeen("step") = "step"
    /\ AskedSeen("read") = "read" /\ AskedSeen("bundle") = "read"
    /\ AskedSeen("first") = "save" /\ AskedSeen("replace") = "save"
    /\ AskedSeen(None) = None
<1>1. AskedSeen("update") = "update" /\ AskedSeen("quiet") = "update"
  BY DEF AskedSeen
<1>2. AskedSeen("step") = "step"
  BY DEF AskedSeen
<1>3. AskedSeen("read") = "read" /\ AskedSeen("bundle") = "read"
  BY DEF AskedSeen
<1>4. AskedSeen("first") = "save" /\ AskedSeen("replace") = "save"
  BY DEF AskedSeen
<1>5. None \notin {"quiet", "bundle", "first", "replace"}
  BY NoneAssumption DEF Kinds, Updates, Reads
<1>6. AskedSeen(None) = None
  BY <1>5 DEF AskedSeen
<1> QED
  BY <1>1, <1>2, <1>3, <1>4, <1>6

\* One client moves to a label.
LEMMA PhasesMove ==
    ASSUME TypeOK, NEW c \in Clients, NEW label, pc' = [pc EXCEPT ![c] = label]
    PROVE  /\ Phases[c] = PhaseSeen(pc[c])
           /\ Phases' = [Phases EXCEPT ![c] = PhaseSeen(label)]
<1> DEFINE old == [d \in Clients |-> PhaseSeen(pc[d])]
           new == [d \in Clients |-> PhaseSeen(pc'[d])]
<1>1. Phases = old /\ Phases' = new
  BY DEF Phases
<1>2. pc'[c] = label /\ \A d \in Clients \ {c} : pc'[d] = pc[d]
  BY DEF TypeOK
<1>3. new = [old EXCEPT ![c] = PhaseSeen(label)]
  <2>1. new[c] = PhaseSeen(label) /\ \A d \in Clients \ {c} : new[d] = old[d]
    BY <1>2
  <2>2. new = [d \in Clients |-> new[d]] /\ old = [d \in Clients |-> old[d]]
    OBVIOUS
  <2> HIDE DEF old, new
  <2> QED
    BY <2>1, <2>2
<1> QED
  BY <1>1, <1>3

\* The same client is asked something.
LEMMA AsksMove ==
    ASSUME TypeOK, NEW c \in Clients, NEW k, kind' = [kind EXCEPT ![c] = k]
    PROVE  Asks' = [Asks EXCEPT ![c] = AskedSeen(k)]
<1> DEFINE old == [d \in Clients |-> AskedSeen(kind[d])]
           new == [d \in Clients |-> AskedSeen(kind'[d])]
<1>1. Asks = old /\ Asks' = new
  BY DEF Asks
<1>2. kind'[c] = k /\ \A d \in Clients \ {c} : kind'[d] = kind[d]
  BY DEF TypeOK
<1>3. new = [old EXCEPT ![c] = AskedSeen(k)]
  <2>1. new[c] = AskedSeen(k) /\ \A d \in Clients \ {c} : new[d] = old[d]
    BY <1>2
  <2>2. new = [d \in Clients |-> new[d]] /\ old = [d \in Clients |-> old[d]]
    OBVIOUS
  <2> HIDE DEF old, new
  <2> QED
    BY <2>1, <2>2
<1> QED
  BY <1>1, <1>3

LEMMA AsksOf ==
    ASSUME NEW c \in Clients
    PROVE  Asks[c] = AskedSeen(kind[c]) /\ (kind' = kind => Asks' = Asks)
BY DEF Asks

-----------------------------------------------------------------------------
(* What the steps of an operation look like from outside.                   *)

\* A step under the lock that is not seen, or is seen as a failure.
LEMMA Unseen ==
    ASSUME TypeOK, NEW c \in Clients,
           NEW label \in (Critical \ {"cleanup"}) \cup {"failed"},
           pc[c] \in Critical \ {"cleanup"}, Goto(c, label),
           UNCHANGED << kind, got >>, Exposed' = Exposed
    PROVE  [Ledger!Next]_Ledger!vars
<1>1. pc' = [pc EXCEPT ![c] = label]
  BY DEF Goto
<1>2. /\ Phases[c] = "open"
      /\ Phases' = [Phases EXCEPT ![c] = PhaseSeen(label)] /\ Asks' = Asks
  BY <1>1, PhasesMove, PhaseOf, AsksOf
<1>3. CASE label = "failed"
  <2>1. Phases' = [Phases EXCEPT ![c] = "failed"]
    BY <1>2, <1>3, PhaseOf
  <2>2. Ledger!Fail(c)
    BY <1>2, <2>1 DEF Ledger!Fail
  <2> QED
    BY <2>2 DEF Ledger!Next
<1>4. CASE label # "failed"
  <2>1. Phases' = [Phases EXCEPT ![c] = "open"]
    BY <1>2, <1>4, PhaseOf
  <2>2. Phases' = Phases
    BY <1>2, <2>1 DEF Phases
  <2> QED
    BY <1>2, <2>2 DEF Ledger!vars
<1> QED
  BY <1>3, <1>4

\* The step at which an operation takes effect.
LEMMA TakesEffect ==
    ASSUME TypeOK, NEW c \in Clients, NEW label \in {"cleanup", "done"},
           pc[c] \in Critical \ {"cleanup"}, Goto(c, label),
           UNCHANGED << kind, got >>, Ledger!Changed(c, Exposed')
    PROVE  [Ledger!Next]_Ledger!vars
<1>1. pc' = [pc EXCEPT ![c] = label]
  BY DEF Goto
<1>2. /\ Phases[c] = "open"
      /\ Phases' = [Phases EXCEPT ![c] = PhaseSeen(label)] /\ Asks' = Asks
  BY <1>1, PhasesMove, PhaseOf, AsksOf
<1>3. PhaseSeen(label) \in {"applied", "done"}
  BY PhaseOf
<1>4. Ledger!Apply(c)
  BY <1>2, <1>3 DEF Ledger!Apply
<1> QED
  BY <1>4 DEF Ledger!Next

\* A step that goes on to a label, or fails.
LEMMA UnseenWrite ==
    ASSUME TypeOK, NEW c \in Clients, pc[c] \in Critical \ {"cleanup"},
           NEW old, NEW new, NEW label \in Critical \ {"cleanup"},
           NEW o \in Outcomes(old, new, label, "failed"), Goto(c, o.label),
           UNCHANGED << kind, got >>, Exposed' = Exposed
    PROVE  [Ledger!Next]_Ledger!vars
<1>1. o.label = label \/ o.label = "failed"
  BY OutcomesOK
<1>2. o.label \in (Critical \ {"cleanup"}) \cup {"failed"}
  BY <1>1
<1> QED
  BY <1>2, Unseen

-----------------------------------------------------------------------------
(* Every action.                                                            *)

LEMMA StartMaps ==
    ASSUME IInv, NEW c \in Clients, Start(c)
    PROVE  [Ledger!Next]_Ledger!vars
<1>1. /\ TypeOK /\ pc[c] = "idle" /\ pc' = [pc EXCEPT ![c] = "lock"]
      /\ UNCHANGED << files, got >>
  BY DEF IInv, Start, Goto
<1>2. Phases[c] = "idle" /\ Phases' = [Phases EXCEPT ![c] = "open"]
  <2> DEFINE then == "lock"
  <2>1. pc' = [pc EXCEPT ![c] = then] /\ PhaseSeen(then) = "open"
    BY <1>1, PhaseOf
  <2> HIDE DEF then
  <2>2. Phases[c] = PhaseSeen(pc[c]) /\ Phases' = [Phases EXCEPT ![c] = PhaseSeen(then)]
    BY <1>1, <2>1, PhasesMove
  <2> QED
    BY <1>1, <2>1, <2>2, PhaseOf
<1>3. PICK k \in Reads \cup {"update", "step", "quiet", "first", "replace"} :
          kind' = [kind EXCEPT ![c] = k]
  BY DEF Start
<1>4. Asks' = [Asks EXCEPT ![c] = AskedSeen(k)]
  BY <1>1, <1>3, AsksMove
<1>5. AskedSeen(k) \in {"update", "step", "save", "read"}
  BY AskedOf DEF Reads
<1>6. Exposed' = Exposed /\ got' = got
  BY <1>1 DEF Exposed, files
<1>7. Ledger!Call(c)
  BY <1>2, <1>4, <1>5, <1>6 DEF Ledger!Call
<1> QED
  BY <1>7 DEF Ledger!Next

LEMMA AcquireMaps ==
    ASSUME IInv, NEW c \in Clients, Acquire(c)
    PROVE  [Ledger!Next]_Ledger!vars
<1>1. /\ TypeOK /\ pc[c] = "lock" /\ pc' = [pc EXCEPT ![c] = "recover"]
      /\ UNCHANGED << files, kind, got >>
  BY DEF IInv, Acquire
<1>2. PhaseSeen("lock") = "open" /\ PhaseSeen("recover") = "open"
  BY PhaseOf DEF Critical
<1>3. Phases' = Phases
  <2> DEFINE then == "recover"
  <2>1. pc' = [pc EXCEPT ![c] = then] /\ PhaseSeen(then) = PhaseSeen(pc[c])
    BY <1>1, <1>2
  <2> HIDE DEF then
  <2>2. Phases[c] = PhaseSeen(then) /\ Phases' = [Phases EXCEPT ![c] = PhaseSeen(then)]
    BY <1>1, <2>1, PhasesMove
  <2> QED
    BY <2>2 DEF Phases
<1>4. Exposed' = Exposed /\ Asks' = Asks
  BY <1>1, AsksOf DEF Exposed, files
<1> QED
  BY <1>1, <1>3, <1>4 DEF Ledger!vars

LEMMA RecoverMaps ==
    ASSUME IInv, NEW c \in Clients, Recover(c)
    PROVE  [Ledger!Next]_Ledger!vars
<1>1. TypeOK /\ Recoverable /\ pc[c] \in Critical \ {"cleanup"} /\ UNCHANGED << kind, got >>
  BY RestingRecoverable DEF IInv, Recover, Critical
<1>2. /\ record' = record
      /\ \/ journal' = journal
         \/ journal # None /\ journal.state = "committed" /\ journal' = None
      /\ Goto(c, "work") \/ Goto(c, "undo record")
  BY <1>1 DEF Recover, BestEffort
<1>3. Exposed' = Exposed
  BY <1>2 DEF Exposed
<1>4. "work" \in Critical \ {"cleanup"} /\ "undo record" \in Critical \ {"cleanup"}
  BY DEF Critical
<1> QED
  BY <1>1, <1>2, <1>3, <1>4, Unseen

LEMMA UndoMaps ==
    ASSUME IInv, NEW c \in Clients,
           UndoRecord(c) \/ UndoCheckpoint(c) \/ UndoEvent(c) \/ UndoJournal(c)
    PROVE  [Ledger!Next]_Ledger!vars
<1>1. pc[c] \in Undoing /\ pc[c] # "cleanup"
  BY DEF UndoRecord, UndoCheckpoint, UndoEvent, UndoJournal, Undoing
<1>2. /\ TypeOK /\ pc[c] \in Critical \ {"cleanup"} /\ UndoInv(c)
      /\ journal # None /\ journal.state = "prepared"
  BY <1>1, UndoFacts
<1>3. CASE UndoRecord(c)
  <2> DEFINE then == "undo checkpoint"
  <2>1. PICK o \in Outcomes(record, journal.before.record, then, "failed") :
            record' = o.file /\ Goto(c, o.label)
    BY <1>3 DEF UndoRecord
  <2>2. UNCHANGED << journal, kind, got >>
    BY <1>3 DEF UndoRecord
  <2>3. Exposed' = Exposed
    BY <1>2, <2>2 DEF Exposed
  <2>4. then \in Critical \ {"cleanup"}
    BY DEF Critical
  <2> HIDE DEF then
  <2> QED
    BY <1>2, <2>1, <2>2, <2>3, <2>4, UnseenWrite
<1>4. CASE UndoCheckpoint(c)
  <2> DEFINE then == IF journal.events THEN "undo event" ELSE "undo journal"
  <2>1. PICK o \in Outcomes(checkpoint, journal.before.checkpoint, then, "failed") :
            checkpoint' = o.file /\ Goto(c, o.label)
    BY <1>4 DEF UndoCheckpoint
  <2>2. UNCHANGED << record, journal, kind, got >>
    BY <1>4 DEF UndoCheckpoint
  <2>3. Exposed' = Exposed
    BY <2>2 DEF Exposed
  <2>4. then \in Critical \ {"cleanup"}
    BY DEF Critical
  <2> HIDE DEF then
  <2> QED
    BY <1>2, <2>1, <2>2, <2>3, <2>4, UnseenWrite
<1>5. CASE UndoEvent(c)
  <2> DEFINE then == "undo journal"
  <2>1. PICK o \in Outcomes(event, journal.before.event, then, "failed") :
            event' = o.file /\ Goto(c, o.label)
    BY <1>5 DEF UndoEvent
  <2>2. UNCHANGED << record, journal, kind, got >>
    BY <1>5 DEF UndoEvent
  <2>3. Exposed' = Exposed
    BY <2>2 DEF Exposed
  <2>4. then \in Critical \ {"cleanup"}
    BY DEF Critical
  <2> HIDE DEF then
  <2> QED
    BY <1>2, <2>1, <2>2, <2>3, <2>4, UnseenWrite
<1>6. CASE UndoJournal(c)
  <2> DEFINE then == "work"
  <2>1. PICK o \in Outcomes(journal, None, then, "failed") :
            journal' = o.file /\ Goto(c, o.label)
    BY <1>6 DEF UndoJournal
  <2>2. UNCHANGED << record, kind, got >>
    BY <1>6 DEF UndoJournal
  <2>3. record = journal.before.record
    BY <1>2, <1>6 DEF UndoInv, UndoJournal, Undoing
  <2>4. journal' = journal \/ journal' = None
    BY <2>1, OutcomesOK
  <2>5. Exposed' = Exposed
    BY <1>2, <2>2, <2>3, <2>4 DEF Exposed
  <2>6. then \in Critical \ {"cleanup"}
    BY DEF Critical
  <2> HIDE DEF then
  <2> QED
    BY <1>2, <2>1, <2>2, <2>5, <2>6, UnseenWrite
<1> QED
  BY <1>3, <1>4, <1>5, <1>6

\* Outside a pending transaction the record itself is exposed.
LEMMA ExposedRecord ==
    ASSUME journal = None \/ journal.state = "committed"
    PROVE  Exposed = record
BY DEF Exposed

LEMMA ReadMaps ==
    ASSUME IInv, NEW c \in Clients, Read(c)
    PROVE  [Ledger!Next]_Ledger!vars
<1>1. /\ TypeOK /\ pc[c] \in Critical \ {"cleanup"} /\ kind[c] \in Reads
      /\ UNCHANGED << files, kind, want >>
      /\ journal = None \/ journal.state = "committed"
  BY DEF Read, Critical, IInv, ClientInv, WorkInv
<1>2. Exposed = record /\ Exposed' = Exposed /\ Asks' = Asks
  BY <1>1, ExposedRecord, AsksOf DEF Exposed, files
<1>3. \/ Goto(c, "failed") /\ got' = got
      \/ Goto(c, "done") /\ got' = [got EXCEPT ![c] = record]
  BY DEF Read
<1>4. CASE Goto(c, "failed") /\ got' = got
  BY <1>1, <1>2, <1>4, Unseen
<1>5. CASE Goto(c, "done") /\ got' = [got EXCEPT ![c] = record]
  <2> DEFINE then == "done"
  <2>1. pc' = [pc EXCEPT ![c] = then] /\ PhaseSeen(then) = "done"
    BY <1>5, PhaseOf DEF Goto
  <2> HIDE DEF then
  <2>2. Phases[c] = "open" /\ Phases' = [Phases EXCEPT ![c] = "done"]
    <3>1. Phases[c] = PhaseSeen(pc[c]) /\ Phases' = [Phases EXCEPT ![c] = PhaseSeen(then)]
      BY <1>1, <2>1, PhasesMove
    <3> QED
      BY <1>1, <2>1, <3>1, PhaseOf
  <2>3. Asks[c] = "read"
    BY <1>1, AsksOf, AskedOf DEF Reads
  <2>4. Ledger!Read(c)
    BY <1>2, <1>5, <2>2, <2>3 DEF Ledger!Read
  <2> QED
    BY <2>4 DEF Ledger!Next
<1> QED
  BY <1>3, <1>4, <1>5

LEMMA RefuseMaps ==
    ASSUME IInv, NEW c \in Clients, Refuse(c)
    PROVE  [Ledger!Next]_Ledger!vars
<1>1. /\ TypeOK /\ pc[c] \in Critical \ {"cleanup"} /\ Goto(c, "failed")
      /\ UNCHANGED << files, kind, got >>
  BY DEF Refuse, Critical, IInv
<1>2. Exposed' = Exposed
  BY <1>1 DEF Exposed, files
<1> QED
  BY <1>1, <1>2, Unseen

LEMMA PrepareMaps ==
    ASSUME IInv, NEW c \in Clients, Prepare(c)
    PROVE  [Ledger!Next]_Ledger!vars
<1> DEFINE new == Prepared(c)
           then == "write record"
<1>1. /\ TypeOK /\ pc[c] = "work" /\ pc[c] \in Critical \ {"cleanup"}
      /\ kind[c] \in Updates /\ record # None
      /\ journal = None \/ journal.state = "committed"
      /\ UNCHANGED << record, kind, got >>
  BY DEF Prepare, Critical, IInv, ClientInv, WorkInv
<1>2. PICK o \in Outcomes(journal, new, then, "failed") :
          journal' = o.file /\ Goto(c, o.label)
  BY DEF Prepare
<1>3. new # None /\ new.state = "prepared" /\ new.before.record = record
  BY <1>1, PreparedOK
<1>4. then \in Critical \ {"cleanup"}
  BY DEF Critical
<1> HIDE DEF new, then
<1>5. journal' = journal \/ journal' = new
  BY <1>2, OutcomesOK
<1>6. Exposed' = Exposed
  BY <1>1, <1>3, <1>5 DEF Exposed
<1> QED
  BY <1>1, <1>2, <1>4, <1>6, UnseenWrite

LEMMA WriteMaps ==
    ASSUME IInv, NEW c \in Clients, WriteRecord(c) \/ WriteCheckpoint(c) \/ WriteEvent(c)
    PROVE  [Ledger!Next]_Ledger!vars
<1>1. pc[c] \in Writing /\ pc[c] # "cleanup"
  BY DEF WriteRecord, WriteCheckpoint, WriteEvent, Writing
<1>2. /\ TypeOK /\ pc[c] \in Critical \ {"cleanup"}
      /\ journal # None /\ journal.state = "prepared"
  BY <1>1, WriteFacts
<1>3. UNCHANGED << journal, kind, got >>
  BY DEF WriteRecord, WriteCheckpoint, WriteEvent
<1>4. Exposed' = Exposed
  BY <1>2, <1>3 DEF Exposed
<1>5. CASE WriteRecord(c)
  <2> DEFINE then == "write checkpoint"
  <2>1. PICK o \in Outcomes(record, want[c], then, "failed") : Goto(c, o.label)
    BY <1>5 DEF WriteRecord
  <2>2. then \in Critical \ {"cleanup"}
    BY DEF Critical
  <2> HIDE DEF then
  <2> QED
    BY <1>2, <1>3, <1>4, <2>1, <2>2, UnseenWrite
<1>6. CASE WriteCheckpoint(c)
  <2>1. PICK o \in Outcomes(checkpoint, want[c], AfterCheckpoint, "failed") :
            Goto(c, o.label)
    BY <1>6 DEF WriteCheckpoint
  <2>2. AfterCheckpoint \in Critical \ {"cleanup"}
    BY DEF Critical, AfterCheckpoint
  <2> QED
    BY <1>2, <1>3, <1>4, <2>1, <2>2, UnseenWrite
<1>7. CASE WriteEvent(c)
  <2> DEFINE then == "commit"
  <2>1. PICK o \in Outcomes(event, want[c].step, then, "failed") : Goto(c, o.label)
    BY <1>7 DEF WriteEvent
  <2>2. then \in Critical \ {"cleanup"}
    BY DEF Critical
  <2> HIDE DEF then
  <2> QED
    BY <1>2, <1>3, <1>4, <2>1, <2>2, UnseenWrite
<1> QED
  BY <1>5, <1>6, <1>7

\* What a transaction makes of the exposed record is what it was asked for.
LEMMA MadeIsChanged ==
    ASSUME NEW c \in Clients, NEW old, NEW new \in Records, Exposed = old, old \in Records,
           Made(c, old, new), kind[c] \in Updates, Exposed' = new
    PROVE  Ledger!Changed(c, Exposed')
<1>1. old # None
  BY NoneAssumption
<1>2. CASE kind[c] \in {"update", "quiet"}
  <2>1. Asks[c] = "update"
    BY <1>2, AsksOf, AskedOf
  <2>2. new = [old EXCEPT !.ops = @ \cup {c}]
    BY <1>2 DEF Made
  <2> QED
    BY <1>1, <2>1, <2>2 DEF Ledger!Changed
<1>3. CASE kind[c] = "step"
  <2>1. Asks[c] = "step"
    BY <1>3, AsksOf, AskedOf
  <2>2. new = [ops |-> old.ops \cup {c}, step |-> c]
    BY <1>3 DEF Made
  <2> QED
    BY <1>1, <2>1, <2>2 DEF Ledger!Changed
<1>4. CASE kind[c] = "replace"
  <2>1. Asks[c] = "save"
    BY <1>4, AsksOf, AskedOf
  <2>2. new.ops = {c} /\ new.step \in {None, c}
    BY <1>4 DEF Made
  <2>3. new = [ops |-> {c}, step |-> new.step]
    BY <2>2 DEF Records
  <2> QED
    BY <2>1, <2>2, <2>3 DEF Ledger!Changed
<1> QED
  BY <1>2, <1>3, <1>4 DEF Updates

LEMMA CommitMaps ==
    ASSUME IInv, NEW c \in Clients, Commit(c)
    PROVE  [Ledger!Next]_Ledger!vars
<1> DEFINE marker == [journal EXCEPT !.state = "committed"]
<1>1. /\ TypeOK /\ pc[c] \in Critical /\ pc[c] = "commit"
      /\ journal \in Journals /\ journal # None /\ journal.state = "prepared"
      /\ journal.after.record \in Records /\ record = journal.after.record
      /\ kind[c] \in Updates /\ Made(c, journal.before.record, journal.after.record)
      /\ PreparedJournal
  BY WriteFacts DEF Commit, Writing, WriteInv
<1>2. UNCHANGED << record, kind, got >> /\ pc[c] \in Critical \ {"cleanup"}
  BY <1>1 DEF Commit
<1>3. \/ journal' = marker /\ Goto(c, "cleanup")
      \/ journal' = journal /\ Goto(c, "failed")
      \/ journal' = marker /\ Goto(c, "done")
  BY DEF Commit, MarkerReplaced
<1>4. marker # None /\ marker.state = "committed"
  BY <1>1, MarkerOK, NoneAssumption
<1>5. Exposed = journal.before.record /\ journal.before.record \in Records
  BY <1>1 DEF Exposed, PreparedJournal, Matching
<1> HIDE DEF marker
<1>6. CASE journal' = journal /\ Goto(c, "failed")
  <2>1. Exposed' = Exposed
    BY <1>2, <1>6 DEF Exposed
  <2> QED
    BY <1>1, <1>2, <1>6, <2>1, Unseen
<1>7. CASE journal' = marker /\ (Goto(c, "cleanup") \/ Goto(c, "done"))
  <2>1. Exposed' = journal.after.record
    BY <1>1, <1>2, <1>4, <1>7 DEF Exposed
  <2> DEFINE old == journal.before.record
             new == journal.after.record
  <2>2. /\ new \in Records /\ old \in Records /\ Exposed = old /\ Exposed' = new
        /\ Made(c, old, new) /\ kind[c] \in Updates
    BY <1>1, <1>5, <2>1
  <2> HIDE DEF old, new
  <2>3. Ledger!Changed(c, Exposed')
    BY <2>2, MadeIsChanged
  <2>4. PICK label \in {"cleanup", "done"} : Goto(c, label)
    BY <1>7
  <2> QED
    BY <1>1, <1>2, <2>3, <2>4, TakesEffect
<1> QED
  BY <1>3, <1>6, <1>7

LEMMA CleanupMaps ==
    ASSUME IInv, NEW c \in Clients, Cleanup(c)
    PROVE  [Ledger!Next]_Ledger!vars
<1>1. /\ TypeOK /\ pc[c] = "cleanup"
      /\ journal = None \/ journal.state = "committed"
      /\ journal' \in {journal, None} /\ pc' = [pc EXCEPT ![c] = "done"]
      /\ UNCHANGED << record, kind, got >>
  BY DEF Cleanup, BestEffort, Goto, IInv, ClientInv, WorkInv
<1>2. Exposed' = Exposed /\ Asks' = Asks
  BY <1>1, AsksOf DEF Exposed
<1> DEFINE then == "done"
<1>3. pc' = [pc EXCEPT ![c] = then] /\ PhaseSeen(then) = "done"
  BY <1>1, PhaseOf
<1> HIDE DEF then
<1>4. Phases[c] = PhaseSeen(pc[c]) /\ Phases' = [Phases EXCEPT ![c] = PhaseSeen(then)]
  BY <1>1, <1>3, PhasesMove
<1>5. Phases[c] = "applied" /\ Phases' = [Phases EXCEPT ![c] = "done"]
  BY <1>1, <1>3, <1>4, PhaseOf
<1>6. Ledger!Succeed(c)
  BY <1>1, <1>2, <1>5 DEF Ledger!Succeed
<1> QED
  BY <1>6 DEF Ledger!Next

LEMMA NewRecordMaps ==
    ASSUME IInv, NEW c \in Clients, NewRecord(c)
    PROVE  [Ledger!Next]_Ledger!vars
<1> DEFINE image == want[c]
           then == "done"
<1>1. /\ TypeOK /\ pc[c] = "new record" /\ pc[c] \in Critical \ {"cleanup"}
      /\ journal = None /\ record = None /\ kind[c] = "first"
      /\ image \in Records /\ image.ops = {c} /\ image.step \in {None, c}
  BY MakeFacts DEF NewRecord, Making, Critical, IInv, ClientInv, KindInv
<1>2. UNCHANGED << journal, kind, got >>
  BY DEF NewRecord
<1>3. PICK o \in Initial(record, image, then) : record' = o.file /\ Goto(c, o.label)
  BY DEF NewRecord
<1>4. then \in {"cleanup", "done"}
  OBVIOUS
<1> HIDE DEF image, then
<1>5. \/ o.file = image /\ o.label = then
      \/ o.file = record /\ o.label = Undone
  BY <1>3, InitialEnds
<1>6. CASE o.file = record /\ o.label = Undone
  <2>1. Undone \in (Critical \ {"cleanup"}) \cup {"failed"}
    BY DEF Critical, Undone
  <2>2. Exposed' = Exposed
    BY <1>2, <1>3, <1>6 DEF Exposed
  <2> QED
    BY <1>1, <1>2, <1>3, <1>6, <2>1, <2>2, Unseen
<1>7. CASE o.file = image /\ o.label = then
  <2>1. Exposed' = image
    BY <1>1, <1>2, <1>3, <1>7 DEF Exposed
  <2>2. Asks[c] = "save"
    BY <1>1, AsksOf, AskedOf
  <2>3. image = [ops |-> {c}, step |-> image.step]
    BY <1>1 DEF Records
  <2>4. Ledger!Changed(c, Exposed')
    BY <1>1, <2>1, <2>2, <2>3 DEF Ledger!Changed
  <2>5. Goto(c, then)
    BY <1>3, <1>7
  <2> QED
    BY <1>1, <1>2, <1>4, <2>4, <2>5, TakesEffect
<1> QED
  BY <1>5, <1>6, <1>7

LEMMA MakeMaps ==
    ASSUME IInv, NEW c \in Clients,
           \/ BeginFirst(c) \/ ClearCheckpoint(c) \/ ClearEvent(c) \/ NewCheckpoint(c)
           \/ NewEvent(c) \/ DropCheckpoint(c) \/ DropEvent(c)
    PROVE  [Ledger!Next]_Ledger!vars
<1>1. TypeOK /\ pc[c] \in Critical \ {"cleanup"}
  BY DEF IInv, Critical, BeginFirst, ClearCheckpoint, ClearEvent, NewCheckpoint,
         NewEvent, DropCheckpoint, DropEvent
<1>2. UNCHANGED << record, journal, kind, got >>
  BY DEF files, BeginFirst, ClearCheckpoint, ClearEvent, NewCheckpoint, NewEvent,
         DropCheckpoint, DropEvent
<1>3. Exposed' = Exposed
  BY <1>2 DEF Exposed
<1>4. CASE BeginFirst(c) \/ DropCheckpoint(c) \/ DropEvent(c)
  <2>1. PICK label \in {"clear checkpoint", "drop event", "failed"} : Goto(c, label)
    BY <1>4 DEF BeginFirst, DropCheckpoint, DropEvent
  <2>2. label \in (Critical \ {"cleanup"}) \cup {"failed"}
    BY DEF Critical
  <2> QED
    BY <1>1, <1>2, <1>3, <2>1, <2>2, Unseen
<1>5. CASE ClearCheckpoint(c)
  <2> DEFINE then == "clear event"
  <2>1. PICK o \in Outcomes(checkpoint, None, then, "failed") : Goto(c, o.label)
    BY <1>5 DEF ClearCheckpoint
  <2>2. then \in Critical \ {"cleanup"}
    BY DEF Critical
  <2> HIDE DEF then
  <2> QED
    BY <1>1, <1>2, <1>3, <2>1, <2>2, UnseenWrite
<1>6. CASE ClearEvent(c)
  <2> DEFINE then == "new checkpoint"
  <2>1. PICK o \in Outcomes(event, None, then, "failed") : Goto(c, o.label)
    BY <1>6 DEF ClearEvent
  <2>2. then \in Critical \ {"cleanup"}
    BY DEF Critical
  <2> HIDE DEF then
  <2> QED
    BY <1>1, <1>2, <1>3, <2>1, <2>2, UnseenWrite
<1>7. ASSUME NEW old, NEW new, NEW label \in Critical \ {"cleanup"},
             NEW o \in Initial(old, new, label), Goto(c, o.label)
      PROVE  [Ledger!Next]_Ledger!vars
  <2>1. o.label = label \/ o.label = Undone
    BY InitialEnds
  <2>2. Undone \in Critical \ {"cleanup"}
    BY DEF Critical, Undone
  <2>3. o.label \in (Critical \ {"cleanup"}) \cup {"failed"}
    BY <2>1, <2>2
  <2> QED
    BY <1>1, <1>2, <1>3, <1>7, <2>3, Unseen
<1>8. CASE NewCheckpoint(c)
  <2> DEFINE then == IF want[c].step # None THEN "new event" ELSE "new record"
  <2>1. PICK o \in Initial(checkpoint, want[c], then) : Goto(c, o.label)
    BY <1>8 DEF NewCheckpoint
  <2>2. then \in Critical \ {"cleanup"}
    BY DEF Critical
  <2> HIDE DEF then
  <2> QED
    BY <1>7, <2>1, <2>2
<1>9. CASE NewEvent(c)
  <2> DEFINE then == "new record"
  <2>1. PICK o \in Initial(event, want[c].step, then) : Goto(c, o.label)
    BY <1>9 DEF NewEvent
  <2>2. then \in Critical \ {"cleanup"}
    BY DEF Critical
  <2> HIDE DEF then
  <2> QED
    BY <1>7, <2>1, <2>2
<1> QED
  BY <1>4, <1>5, <1>6, <1>8, <1>9

LEMMA CrashMaps ==
    ASSUME IInv, NEW c \in Clients, Crash(c)
    PROVE  [Ledger!Next]_Ledger!vars
<1>1. /\ TypeOK /\ pc[c] \in Critical \cup {"lock"}
      /\ pc' = [pc EXCEPT ![c] = "crashed"] /\ UNCHANGED << files, kind, got >>
  BY DEF IInv, TypeOK, Crash, Goto
<1>2. Exposed' = Exposed /\ Asks' = Asks
  BY <1>1, AsksOf DEF Exposed, files
<1> DEFINE then == "crashed"
<1>3. pc' = [pc EXCEPT ![c] = then] /\ PhaseSeen(then) = "crashed"
  BY <1>1, PhaseOf
<1> HIDE DEF then
<1>4. Phases[c] = PhaseSeen(pc[c]) /\ Phases' = [Phases EXCEPT ![c] = PhaseSeen(then)]
  BY <1>1, <1>3, PhasesMove
<1>5. PhaseSeen(pc[c]) \in {"open", "applied"}
  BY <1>1, PhaseOf
<1>6. Ledger!Die(c)
  BY <1>1, <1>2, <1>3, <1>4, <1>5 DEF Ledger!Die
<1> QED
  BY <1>6 DEF Ledger!Next

-----------------------------------------------------------------------------
(* The theorem.                                                             *)

LEMMA InitMaps ==
    ASSUME Init
    PROVE  Ledger!Init
<1>1. Phases = [c \in Clients |-> "idle"]
  BY PhaseOf DEF Init, Phases
<1>2. Asks = [c \in Clients |-> None]
  BY AskedOf DEF Init, Asks
<1>3. Exposed = record /\ record \in {None, [ops |-> {}, step |-> None]}
  BY DEF Init, Exposed, LegacyRecord
<1> QED
  BY <1>1, <1>2, <1>3 DEF Init, Ledger!Init

LEMMA NextMaps ==
    ASSUME IInv, [Next]_vars
    PROVE  [Ledger!Next]_Ledger!vars
<1>1. ASSUME NEW c \in Clients, Step(c)
      PROVE  [Ledger!Next]_Ledger!vars
  BY <1>1, AcquireMaps, RecoverMaps, UndoMaps, ReadMaps, RefuseMaps, PrepareMaps,
     WriteMaps, CommitMaps, CleanupMaps, NewRecordMaps, MakeMaps DEF Step
<1>2. CASE UNCHANGED vars
  BY <1>2 DEF vars, files, Exposed, Phases, Asks, Ledger!vars
<1> QED
  BY <1>1, <1>2, StartMaps, CrashMaps DEF Next, Finished

\* Every operation on a Mission is atomic: it takes effect in one step between its
\* call and its return, or not at all if it reports a failure, and a reader
\* returns the record as it is at one such moment; for every number of processes,
\* of failing writes and of crashes.
THEOREM Atomic == Spec => OperationsAreAtomic
<1>1. Init => Ledger!Init
  BY InitMaps
<1>2. IInv /\ [Next]_vars => [Ledger!Next]_Ledger!vars
  BY NextMaps
<1> QED
  BY <1>1, <1>2, Invariant, PTL DEF Spec, OperationsAreAtomic, Ledger!Spec
=============================================================================
