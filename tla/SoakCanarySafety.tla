--------------------------- MODULE SoakCanarySafety ---------------------------
(***************************************************************************)
(* Proofs about SoakCanary, for every plan and every number of starts,      *)
(* crashes and failing writes.                                              *)
(*                                                                          *)
(* First, no test is started twice.  A child is known by its attempt: on    *)
(* disk before it starts, never taken back, and not passed while it runs, so *)
(* that a restart that finds nothing to block it finds no child running and  *)
(* every node with a child completed.                                       *)
(*                                                                          *)
(* Then, what a canary leaves behind is true: a checkpoint on disk can      *)
(* be loaded again, and a canary that completes was earned by its children. *)
(* The state of an attempt says which of its events are where (AttemptKept), *)
(* and every event tells what its attempt was then (Records); a transition   *)
(* only ever goes on with an attempt that has not ended, so what the earlier *)
(* events told stays true (RecordsKept).  An attempt is stored as passed     *)
(* only when the exit of a child of its node was observed (CollectedInv).    *)
(* What is published is of one checkpoint, whatever happened between two     *)
(* files (PublishedInv). Attempts are counted by their keys, of which an     *)
(* admitted canary has one for each node and one for the retry (FewKeys).    *)
(* No attempt is held against the plan that kept to its estimate: the others *)
(* that share its budgets kept to theirs (HonourInv), and the plan covers    *)
(* the sum of the estimates (AdmittedFits).                                  *)
(***************************************************************************)
EXTENDS SoakCanary, SoakPlanSafety

-----------------------------------------------------------------------------
(* What checkpoints, children and the runner's memory say of one another.  *)

CheckpointFields ==
    {"present", "manifest", "attempts", "events", "completed", "retryConsumed",
     "scaleConsumed", "completedAt"}
AttemptFields ==
    {"node", "number", "class", "state", "outcome", "launched", "completed", "result",
     "stdout", "seq", "reserved", "running", "completion"}
ChildFields ==
    {"node", "number", "started", "deadline", "exited", "exit", "passes", "elapsed"}

IsSequence(s) == \E S : s \in Seq(S)

\* A checkpoint as the runner makes it.
Stored(c) ==
    /\ DOMAIN c = CheckpointFields /\ c.present = TRUE
    /\ IsSequence(c.attempts) /\ IsSequence(c.events)
    /\ \A k \in DOMAIN c.attempts : DOMAIN c.attempts[k] = AttemptFields

\* Every child has an attempt that was reserved.
Holds(c) ==
    \A i \in DOMAIN launches : \E k \in DOMAIN c.attempts :
        c.attempts[k].node = launches[i].node /\ c.attempts[k].reserved # 0

\* No attempt at the node of a running child has passed.
Unpassed(c) ==
    \A i \in Running : \A k \in DOMAIN c.attempts :
        c.attempts[k].node = launches[i].node => c.attempts[k].outcome # "passed"

\* A node of which an attempt passed is completed.
Settled(c) ==
    \A k \in DOMAIN c.attempts :
        c.attempts[k].outcome = "passed" => c.attempts[k].node \in c.completed

Done(c) == \A i \in DOMAIN launches : launches[i].node \in c.completed

LaunchInv ==
    /\ IsSequence(launches)
    /\ \A i \in DOMAIN launches : DOMAIN launches[i] = ChildFields
    /\ \A i, j \in DOMAIN launches : i # j => launches[i].node # launches[j].node
    /\ Running \subseteq {Len(launches)}

DiskInv ==
    \/ disk = NoCheckpoint /\ DOMAIN launches = {}
    \/ Stored(disk) /\ Holds(disk) /\ Unpassed(disk)

\* Between the nodes every child has exited and its node is completed.
TurnInv ==
    pc \in {"turn", "reserve"} =>
        /\ Stored(mem) /\ disk = mem /\ Settled(mem) /\ Done(mem) /\ Running = {}
        /\ pc = "reserve" => Open # {}

AtIndex == turn.index \in DOMAIN mem.attempts /\ Attempt.reserved # 0

\* A reserved node has no child yet.
ReservedInv ==
    pc \in {"limit", "check", "launch"} =>
        /\ Stored(mem) /\ disk = mem /\ Settled(mem) /\ Done(mem) /\ Running = {}
        /\ AtIndex /\ Attempt.node \notin mem.completed

\* The last child is the one the runner waits for.
ChildInv ==
    pc \in {"launched", "wait", "reap"} =>
        /\ Stored(mem) /\ Holds(mem) /\ Settled(mem)
        /\ AtIndex /\ Attempt.node \notin mem.completed
        /\ DOMAIN turn = {"index", "started", "child", "late"}
        /\ turn.child = Len(launches) /\ turn.child \in DOMAIN launches
        /\ launches[turn.child].node = Attempt.node
        /\ \A i \in DOMAIN launches : launches[i].node \in mem.completed \/ i = turn.child

JudgeInv ==
    pc \in {"judge", "reaped"} =>
        /\ Stored(mem) /\ Holds(mem) /\ Settled(mem) /\ AtIndex /\ Running = {}
        /\ DOMAIN turn.attempt = AttemptFields
        /\ turn.attempt.node = Attempt.node /\ turn.attempt.reserved = Attempt.reserved
        /\ \A i \in DOMAIN launches :
               launches[i].node \in mem.completed \/ launches[i].node = Attempt.node

IInv ==
    /\ run = RunOf(Requests[asked]) /\ asked \in DOMAIN Requests
    /\ LaunchInv /\ DiskInv /\ TurnInv /\ ReservedInv /\ ChildInv /\ JudgeInv

-----------------------------------------------------------------------------
(* Sequences whose elements are of no particular set, and transitions.     *)

LEMMA Appended ==
    ASSUME NEW s, IsSequence(s), NEW e
    PROVE  /\ IsSequence(Append(s, e))
           /\ DOMAIN Append(s, e) = 1 .. (Len(s) + 1) /\ DOMAIN s = 1 .. Len(s)
           /\ Len(s) \in Nat /\ Append(s, e)[Len(s) + 1] = e
           /\ Len(Append(s, e)) = Len(s) + 1
           /\ \A i \in DOMAIN s : Append(s, e)[i] = s[i]
<1>1. PICK S : s \in Seq(S)
  BY DEF IsSequence
<1>2. s \in Seq(S \cup {e})
  BY <1>1
<1>3. Append(s, e) \in Seq(S \cup {e})
  BY <1>2
<1> QED BY <1>2, <1>3 DEF IsSequence

LEMMA Replaced ==
    ASSUME NEW s, IsSequence(s), NEW k \in DOMAIN s, NEW e
    PROVE  /\ IsSequence([s EXCEPT ![k] = e]) /\ DOMAIN [s EXCEPT ![k] = e] = DOMAIN s
           /\ [s EXCEPT ![k] = e][k] = e /\ Len([s EXCEPT ![k] = e]) = Len(s)
           /\ \A i \in DOMAIN s : i # k => [s EXCEPT ![k] = e][i] = s[i]
<1>1. PICK S : s \in Seq(S)
  BY DEF IsSequence
<1>2. s \in Seq(S \cup {e})
  BY <1>1
<1>3. [s EXCEPT ![k] = e] \in Seq(S \cup {e})
  BY <1>2
<1> QED BY <1>2, <1>3 DEF IsSequence

\* Where a transition puts the attempt.
At(m, index) == IF index = 0 THEN Len(m.attempts) + 1 ELSE index

\* What it makes of a checkpoint.
Makes(m, index, given, event, c) ==
    LET at == At(m, index)
    IN  /\ Stored(c) /\ at # 0
        /\ index = 0 => at \notin DOMAIN m.attempts
        /\ index # 0 => at = index
        /\ DOMAIN c.attempts = DOMAIN m.attempts \cup {at}
        /\ \A k \in DOMAIN m.attempts : k # at => c.attempts[k] = m.attempts[k]
        /\ c.attempts[at].node = given.node /\ c.attempts[at].outcome = given.outcome
        /\ event = "reserved" => c.attempts[at].reserved # 0
        /\ event # "reserved" => c.attempts[at].reserved = given.reserved
        /\ c.completed = IF event = "completed" /\ given.outcome = "passed"
                         THEN m.completed \cup {given.node} ELSE m.completed

LEMMA TransitionMakes ==
    ASSUME NEW m, Stored(m), NEW index, index = 0 \/ index \in DOMAIN m.attempts,
           NEW given, DOMAIN given = AttemptFields, NEW event
    PROVE  Makes(m, index, given, event, Transition(m, index, given, event))
<1> DEFINE sequence == Len(m.events) + 1
           attempt ==
            CASE event = "reserved" -> [given EXCEPT !.seq = sequence, !.reserved = sequence]
              [] event = "running" -> [given EXCEPT !.seq = sequence, !.running = sequence]
              [] event = "completed" ->
                    [given EXCEPT !.seq = sequence, !.completion = sequence]
              [] OTHER -> [given EXCEPT !.seq = sequence]
           entry == [name |-> event, node |-> attempt.node, number |-> attempt.number,
                     snapshot |-> SnapshotAt(attempt, event, sequence)]
           attempts == IF index = 0 THEN Append(m.attempts, attempt)
                       ELSE [m.attempts EXCEPT ![index] = attempt]
           retry == m.retryConsumed \/ (event = "completed"
                                    /\ attempt.outcome = "transient_infrastructure")
           scale == m.scaleConsumed \/ (event = "reserved" /\ attempt.class = "scale")
           completed == IF event = "completed" /\ attempt.outcome = "passed"
                        THEN m.completed \cup {attempt.node} ELSE m.completed
           c == Transition(m, index, given, event)
           at == At(m, index)
<1>1. c = [m EXCEPT !.attempts = attempts, !.events = Append(m.events, entry),
                    !.retryConsumed = retry, !.scaleConsumed = scale,
                    !.completed = completed]
  BY DEF Transition
<1>2. /\ DOMAIN attempt = AttemptFields
      /\ attempt.node = given.node /\ attempt.outcome = given.outcome
      /\ attempt.reserved = IF event = "reserved" THEN sequence ELSE given.reserved
  BY DEF AttemptFields
<1> HIDE DEF attempt, entry, retry, scale
<1>3. IsSequence(Append(m.events, entry)) /\ Len(m.events) \in Nat
  BY Appended DEF Stored
<1>4. /\ IsSequence(attempts) /\ DOMAIN attempts = DOMAIN m.attempts \cup {at}
      /\ at # 0 /\ (index = 0 => at \notin DOMAIN m.attempts) /\ (index # 0 => at = index)
      /\ attempts[at] = attempt
      /\ \A k \in DOMAIN m.attempts : k # at => attempts[k] = m.attempts[k]
  <2>1. IsSequence(m.attempts)
    BY DEF Stored
  <2>2. DOMAIN m.attempts = 1 .. Len(m.attempts) /\ Len(m.attempts) \in Nat
    BY <2>1, Appended
  <2>3. CASE index = 0
    <3>1. attempts = Append(m.attempts, attempt) /\ at = Len(m.attempts) + 1
      BY <2>3 DEF At
    <3>2. \A k \in DOMAIN m.attempts : attempts[k] = m.attempts[k]
      BY <2>1, <3>1, Appended
    <3>3. DOMAIN attempts = 1 .. (Len(m.attempts) + 1)
      BY <2>1, <3>1, Appended
    <3>4. IsSequence(attempts) /\ attempts[at] = attempt
      BY <2>1, <3>1, Appended
    <3> HIDE DEF attempts, at
    <3> QED BY <2>2, <2>3, <3>1, <3>2, <3>3, <3>4
  <2>4. CASE index # 0
    <3>1. attempts = [m.attempts EXCEPT ![index] = attempt] /\ at = index
      BY <2>4 DEF At
    <3>2. index \in DOMAIN m.attempts
      BY <2>4
    <3> HIDE DEF attempts, at
    <3> QED BY <2>1, <2>4, <3>1, <3>2, Replaced
  <2> QED BY <2>3, <2>4
<1> HIDE DEF attempts
<1>5. /\ DOMAIN c = CheckpointFields /\ c.present = TRUE /\ c.attempts = attempts
      /\ c.events = Append(m.events, entry) /\ c.completed = completed
  BY <1>1 DEF Stored, CheckpointFields
<1> HIDE DEF c, at
<1>6. \A k \in DOMAIN attempts : DOMAIN attempts[k] = AttemptFields
  BY <1>2, <1>4 DEF Stored
<1>7. Stored(c)
  BY <1>3, <1>4, <1>5, <1>6 DEF Stored
<1>8. Len(m.events) + 1 # 0
  BY <1>3
<1>9. Makes(m, index, given, event, c)
  BY <1>2, <1>4, <1>5, <1>7, <1>8 DEF Makes, at
<1> QED BY <1>9 DEF c

LEMMA HoldsKept ==
    ASSUME NEW m, Stored(m), Holds(m), NEW index, NEW given, DOMAIN given = AttemptFields,
           \/ index = 0
           \/ /\ index \in DOMAIN m.attempts /\ given.node = m.attempts[index].node
              /\ given.reserved # 0,
           NEW event
    PROVE  Holds(Transition(m, index, given, event))
<1> DEFINE c == Transition(m, index, given, event)
           at == At(m, index)
<1>1. Makes(m, index, given, event, c)
  BY TransitionMakes
<1> HIDE DEF c
<1>3. \A k \in DOMAIN m.attempts :
         /\ k \in DOMAIN c.attempts /\ c.attempts[k].node = m.attempts[k].node
         /\ m.attempts[k].reserved # 0 => c.attempts[k].reserved # 0
  BY <1>1 DEF Makes
<1>4. Holds(c)
  BY <1>3 DEF Holds
<1> QED BY <1>4 DEF c

LEMMA SettledKept ==
    ASSUME NEW m, Stored(m), Settled(m), NEW index, index = 0 \/ index \in DOMAIN m.attempts,
           NEW given, DOMAIN given = AttemptFields, NEW event,
           given.outcome = "passed" => event = "completed"
    PROVE  Settled(Transition(m, index, given, event))
<1> DEFINE c == Transition(m, index, given, event)
<1>1. Makes(m, index, given, event, c)
  BY TransitionMakes
<1> HIDE DEF c
<1>2. Settled(c)
  BY <1>1 DEF Settled, Makes
<1> QED BY <1>2 DEF c

-----------------------------------------------------------------------------
(* The parts of the invariant that many steps keep.                        *)

\* The disk is what it was or a checkpoint that holds what it must.
LEMMA DiskKept ==
    ASSUME DiskInv, UNCHANGED launches, NEW c, disk' \in {disk, c},
           Stored(c), Holds(c), Unpassed(c)
    PROVE  DiskInv'
<1>1. Holds(c)' /\ Unpassed(c)' /\ Stored(c)
  BY DEF Holds, Unpassed, Running
<1>2. CASE disk' = c
  BY <1>1, <1>2 DEF DiskInv, Holds, Unpassed, Running
<1>3. CASE disk' = disk
  BY <1>3 DEF DiskInv, Holds, Unpassed, Running
<1> QED BY <1>2, <1>3

\* When no runner is left only the children and the disk matter.
LEMMA Stops ==
    ASSUME IInv, UNCHANGED request, UNCHANGED launches, DiskInv',
           pc' \in {"idle", "load", "reconcile", "publish", "promoted"}
    PROVE  IInv'
<1> QED BY DEF IInv, request, LaunchInv, Running, TurnInv, ReservedInv, ChildInv, JudgeInv

LEMMA NothingRuns ==
    ASSUME Running = {}, NEW c
    PROVE  Unpassed(c)
<1> QED BY DEF Unpassed

\* A step after which the runner has stopped, and stored c or not.
LEMMA StopsWith ==
    ASSUME IInv, UNCHANGED request, UNCHANGED launches, pc' = "idle",
           NEW c, disk' \in {disk, c}, Stored(c), Holds(c), Unpassed(c)
    PROVE  IInv'
<1>1. DiskInv'
  BY DiskKept DEF IInv
<1> QED BY <1>1, Stops

LEMMA FirstOpen ==
    ASSUME run = RunOf(Requests[asked]), asked \in DOMAIN Requests, Open # {}
    PROVE  /\ Current.node \notin mem.completed
           /\ \E i \in DOMAIN Partitions : Current = Partitions[i]
<1> DEFINE R == OpToRel(<, Nat)
<1>1. IsSequence(Partitions)
  BY RequestsAssumption DEF IsSequence, Partitions, RunOf
<1>2. Open \subseteq Nat
  BY <1>1, Appended DEF Open
<1>3. PICK x \in Open : \A y \in Open : ~ (<<y, x>> \in R)
  <2>1. \E i : i \in Open
    OBVIOUS
  <2>2. PICK i : i \in Open
    BY <2>1
  <2> QED BY <1>2, <2>2, NatLessThanWellFounded, WFMin
<1>4. \A y \in Open : x <= y
  <2>1. \A y \in Open : ~ (y < x)
    BY <1>2, <1>3 DEF OpToRel
  <2> QED BY <1>2, <2>1
<1>5. (CHOOSE i \in Open : \A j \in Open : i <= j) \in Open
  BY <1>4
<1> QED BY <1>5 DEF Open, Current

-----------------------------------------------------------------------------
(* Starting.                                                               *)

LEMMA StartKeeps == ASSUME IInv, Start PROVE IInv'
<1>1. UNCHANGED request /\ UNCHANGED launches /\ UNCHANGED disk
  BY DEF Start
<1>2. pc' \in {"idle", "load"}
  BY DEF Start, Finish
<1>3. DiskInv'
  BY <1>1 DEF IInv, DiskInv, Holds, Unpassed, Running
<1> QED BY <1>1, <1>2, <1>3, Stops

LEMMA EmptyIsStored == Stored(EmptyCheckpoint) /\ DOMAIN EmptyCheckpoint.attempts = {}
<1> DEFINE none == << >>
<1>1. none \in Seq({}) /\ DOMAIN none = {}
  OBVIOUS
<1>2. IsSequence(none)
  <2> HIDE DEF none
  <2> QED BY <1>1 DEF IsSequence
<1>3. /\ DOMAIN EmptyCheckpoint = CheckpointFields /\ EmptyCheckpoint.present = TRUE
      /\ EmptyCheckpoint.attempts = none /\ EmptyCheckpoint.events = none
  BY DEF EmptyCheckpoint, CheckpointFields
<1> HIDE DEF none
<1> QED BY <1>1, <1>2, <1>3 DEF Stored

LEMMA CreateKeeps == ASSUME IInv, Create PROVE IInv'
<1> DEFINE e == EmptyCheckpoint
<1>1. UNCHANGED request /\ UNCHANGED launches /\ disk' \in {disk, e}
  BY DEF Create, Surroundings, Written, WriteFails
<1>2. DOMAIN launches = {}
  BY DEF IInv, DiskInv, Create, Stored
<1>3. Stored(e) /\ DOMAIN e.attempts = {}
  BY EmptyIsStored
<1>4. Holds(e) /\ Unpassed(e) /\ Running = {}
  BY <1>2 DEF Holds, Unpassed, Running
<1> HIDE DEF e
<1>5. DiskInv'
  BY <1>1, <1>3, <1>4, DiskKept DEF IInv
<1>6. CASE pc' = "idle"
  BY <1>1, <1>5, <1>6, Stops
<1>7. CASE pc' # "idle"
  <2>1. mem' = e /\ disk' = e /\ pc' = "turn"
    BY <1>7 DEF Create, Written, Finish, e
  <2>2. TurnInv'
    BY <1>1, <1>2, <1>3, <1>4, <2>1 DEF TurnInv, Settled, Done, Running
  <2> QED BY <1>1, <1>5, <2>1, <2>2
          DEF IInv, request, LaunchInv, Running, ReservedInv, ChildInv, JudgeInv
<1> QED BY <1>6, <1>7

\* A loaded checkpoint that blocks nothing has only passed and transient attempts.
LEMMA ResumeKeeps == ASSUME IInv, Resume PROVE IInv'
<1>1. UNCHANGED request /\ UNCHANGED launches /\ UNCHANGED disk
  BY DEF Resume, Surroundings
<1>2. DiskInv'
  BY <1>1 DEF IInv, DiskInv, Holds, Unpassed, Running
<1>3. CASE pc' # "turn"
  <2>1. pc' \in {"idle", "reconcile"}
    BY <1>3 DEF Resume, Finish, AfterLoad
  <2> QED BY <1>1, <1>2, <2>1, Stops
<1>4. CASE pc' = "turn"
  <2>1. /\ ValidCheckpoint(disk) /\ mem' = disk
        /\ {i \in DOMAIN disk.attempts : Blocks(disk.attempts[i])} = {}
    BY <1>4 DEF Resume, Finish
  <2>2. Stored(disk) /\ Holds(disk) /\ Unpassed(disk)
    BY DEF IInv, DiskInv, Resume, NoCheckpoint
  <2>3. \A k \in DOMAIN disk.attempts : ~ Blocks(disk.attempts[k])
    BY <2>1
  <2>4. disk.completed = Passed(disk)
    BY <2>1 DEF ValidCheckpoint
  <2>5. \A k \in DOMAIN disk.attempts :
           disk.attempts[k].outcome = "passed" => disk.attempts[k].node \in disk.completed
    BY <2>4 DEF Passed, AttemptsOf, Range
  <2>6. \A k \in DOMAIN disk.attempts :
           disk.attempts[k].reserved # 0 => disk.attempts[k].outcome = "passed"
    BY <2>3 DEF Blocks, Retryable
  <2>7. \A i \in DOMAIN launches : \E k \in DOMAIN disk.attempts :
           /\ disk.attempts[k].node = launches[i].node
           /\ disk.attempts[k].outcome = "passed"
    BY <2>2, <2>6 DEF Holds
  <2>8. Done(disk) /\ Settled(disk)
    BY <2>5, <2>7 DEF Done, Settled
  <2>9. Running = {}
    BY <2>2, <2>7 DEF Unpassed, Running
  <2>10. TurnInv'
    BY <1>1, <1>4, <2>1, <2>2, <2>8, <2>9 DEF TurnInv, Done, Settled, Running
  <2> QED BY <1>1, <1>2, <1>4, <2>10
          DEF IInv, request, LaunchInv, Running, ReservedInv, ChildInv, JudgeInv
<1> QED BY <1>3, <1>4

\* A step that stores c, or stops because it could not.
LEMMA StoresOrStops ==
    ASSUME IInv, UNCHANGED Surroundings, NEW c, NEW next, NEW keep,
           StoreOrStop(c, next, keep), Stored(c), Holds(c), Unpassed(c)
    PROVE  /\ UNCHANGED request /\ UNCHANGED launches /\ DiskInv'
           /\ IInv' \/ (mem' = c /\ disk' = c /\ pc' = next /\ turn' = keep)
<1>1. UNCHANGED request /\ UNCHANGED launches
  BY DEF Surroundings
<1>2. \/ disk' = c /\ mem' = c /\ pc' = next /\ turn' = keep
      \/ disk' \in {disk, c} /\ pc' = "idle"
  BY DEF StoreOrStop, Written, WriteFails, Finish
<1>3. DiskInv'
  BY <1>1, <1>2, DiskKept DEF IInv
<1> QED BY <1>1, <1>2, <1>3, Stops

\* The invariant in a state whose place only one part speaks of.
LEMMA Rest ==
    ASSUME IInv, UNCHANGED request, LaunchInv', DiskInv',
           TurnInv', ReservedInv', ChildInv', JudgeInv'
    PROVE  IInv'
<1> QED BY DEF IInv, request

LEMMA SameLaunches ==
    ASSUME IInv, UNCHANGED launches
    PROVE  LaunchInv' /\ Running' = Running
<1> QED BY DEF IInv, LaunchInv, Running

-----------------------------------------------------------------------------
(* The turn of a node, until its child starts.                             *)

LEMMA HardWallKeeps == ASSUME IInv, HardWallReached PROVE IInv'
<1>1. UNCHANGED request /\ UNCHANGED launches /\ UNCHANGED disk /\ pc' = "idle"
  BY DEF HardWallReached, Surroundings, Fail, Finish
<1>2. DiskInv'
  BY <1>1 DEF IInv, DiskInv, Holds, Unpassed, Running
<1> QED BY <1>1, <1>2, Stops

LEMMA TransientKeeps == ASSUME IInv, RecordTransient PROVE IInv'
<1> DEFINE given == [NewAttempt(Current, 1) EXCEPT
                !.state = "completed", !.completed = TRUE,
                !.outcome = "transient_infrastructure", !.result.exit = -1]
           event == "completed"
           index == 0
           c == Transition(mem, index, given, event)
           next == "reserve"
           keep == turn
<1>1. StoreOrStop(c, next, keep) /\ UNCHANGED Surroundings /\ pc = "turn" /\ Open # {}
  BY DEF RecordTransient
<1>2. DOMAIN given = AttemptFields /\ given.outcome = "transient_infrastructure"
  BY DEF NewAttempt, AttemptFields
<1>3. /\ Stored(mem) /\ disk = mem /\ Settled(mem) /\ Done(mem) /\ Running = {}
      /\ Holds(mem)
  BY <1>1 DEF IInv, TurnInv, DiskInv, Stored, NoCheckpoint
<1>4. event # "reserved" /\ index = 0 /\ next = "reserve"
  OBVIOUS
<1> HIDE DEF given, event, index, next, keep
<1>5. Makes(mem, index, given, event, c) /\ Holds(c) /\ Settled(c)
  BY <1>2, <1>3, <1>4, TransitionMakes, HoldsKept, SettledKept
<1> HIDE DEF c
<1>6. Stored(c) /\ c.completed = mem.completed /\ Unpassed(c)
  BY <1>2, <1>3, <1>5, NothingRuns DEF Makes
<1>7. /\ UNCHANGED request /\ UNCHANGED launches /\ DiskInv'
      /\ IInv' \/ (mem' = c /\ disk' = c /\ pc' = next /\ turn' = keep)
  BY <1>1, <1>5, <1>6, StoresOrStops
<1>8. ASSUME mem' = c, disk' = c, pc' = next PROVE IInv'
  <2>1. LaunchInv' /\ Running' = {}
    BY <1>3, <1>7, SameLaunches
  <2>2. Open' = Open
    BY <1>6, <1>7, <1>8 DEF Open, Partitions, request
  <2>3. TurnInv'
    BY <1>1, <1>3, <1>5, <1>6, <1>7, <1>8, <2>1, <2>2 DEF TurnInv, Settled, Done
  <2> QED BY <1>4, <1>7, <1>8, <2>1, <2>3, Rest DEF ReservedInv, ChildInv, JudgeInv
<1> QED BY <1>7, <1>8

LEMMA ReserveKeeps == ASSUME IInv, Reserve PROVE IInv'
<1> DEFINE given == NewAttempt(Current, NextNumber)
           event == "reserved"
           index == 0
           c == Transition(mem, index, given, event)
           next == "limit"
           keep == [index |-> Len(mem.attempts) + 1, started |-> now]
<1>1. StoreOrStop(c, next, keep) /\ UNCHANGED Surroundings
  BY DEF Reserve
<1>2. pc \in {"turn", "reserve"} /\ Open # {}
  BY DEF IInv, TurnInv, Reserve, Reserves
<1>3. /\ DOMAIN given = AttemptFields /\ given.node = Current.node
      /\ given.outcome = "launch_reserved"
  BY DEF NewAttempt, AttemptFields
<1>4. /\ Stored(mem) /\ disk = mem /\ Settled(mem) /\ Done(mem) /\ Running = {}
      /\ Holds(mem)
  BY <1>2 DEF IInv, TurnInv, DiskInv, Stored, NoCheckpoint
<1>5. Current.node \notin mem.completed
  BY <1>2, FirstOpen DEF IInv
<1>6. event = "reserved" /\ index = 0 /\ next = "limit" /\ keep.index = At(mem, index)
  BY DEF At
<1> HIDE DEF given, event, index, next, keep
<1>7. Makes(mem, index, given, event, c) /\ Holds(c) /\ Settled(c)
  BY <1>3, <1>4, <1>6, TransitionMakes, HoldsKept, SettledKept
<1> HIDE DEF c
<1>8. Stored(c) /\ c.completed = mem.completed /\ Unpassed(c)
  BY <1>3, <1>4, <1>6, <1>7, NothingRuns DEF Makes
<1>9. /\ UNCHANGED request /\ UNCHANGED launches /\ DiskInv'
      /\ IInv' \/ (mem' = c /\ disk' = c /\ pc' = next /\ turn' = keep)
  BY <1>1, <1>7, <1>8, StoresOrStops
<1>10. ASSUME mem' = c, disk' = c, pc' = next, turn' = keep PROVE IInv'
  <2>1. LaunchInv' /\ Running' = {}
    BY <1>4, <1>9, SameLaunches
  <2>2. /\ turn'.index \in DOMAIN c.attempts /\ c.attempts[turn'.index].reserved # 0
        /\ c.attempts[turn'.index].node = Current.node
    BY <1>3, <1>6, <1>7, <1>10 DEF Makes
  <2>3. ReservedInv'
    BY <1>4, <1>5, <1>7, <1>8, <1>9, <1>10, <2>1, <2>2
       DEF ReservedInv, Settled, Done, AtIndex, Attempt
  <2> QED BY <1>6, <1>9, <1>10, <2>1, <2>3, Rest DEF TurnInv, ChildInv, JudgeInv
<1> QED BY <1>9, <1>10

\* An attempt that ends without a child is stored or not, and the runner stops.
LEMMA EndsUnlaunched ==
    ASSUME IInv, pc \in {"limit", "check", "launch"}, UNCHANGED request, UNCHANGED launches,
           NEW given, DOMAIN given = AttemptFields, given.node = Attempt.node,
           given.reserved = Attempt.reserved,
           disk' \in {disk, Transition(mem, turn.index, given, "completed")}, pc' = "idle"
    PROVE  IInv'
<1> DEFINE index == turn.index
           event == "completed"
           c == Transition(mem, index, given, event)
<1>1. Stored(mem) /\ disk = mem /\ Running = {} /\ AtIndex /\ Holds(mem)
  BY DEF IInv, ReservedInv, DiskInv, Stored, NoCheckpoint
<1>2. /\ index \in DOMAIN mem.attempts /\ given.node = mem.attempts[index].node
      /\ given.reserved # 0
  BY <1>1 DEF AtIndex, Attempt
<1> HIDE DEF index, event
<1>3. Holds(c) /\ Makes(mem, index, given, event, c)
  BY <1>1, <1>2, HoldsKept, TransitionMakes
<1>4. disk' \in {disk, c}
  BY DEF index, event
<1> HIDE DEF c
<1>5. Unpassed(c) /\ Stored(c)
  BY <1>1, <1>3, NothingRuns DEF Makes
<1> QED BY <1>3, <1>4, <1>5, StopsWith

LEMMA AttemptTyped ==
    ASSUME Stored(mem), AtIndex
    PROVE  DOMAIN Attempt = AttemptFields
<1> QED BY DEF Stored, AtIndex, Attempt

LEMMA EndUnlaunchedKeeps ==
    ASSUME IInv, pc \in {"limit", "check"}, UNCHANGED Surroundings,
           NEW outcome, NEW elapsed, NEW code, EndUnlaunched(outcome, elapsed, code)
    PROVE  IInv'
<1> DEFINE given == [Attempt EXCEPT
            !.state = "completed", !.completed = TRUE, !.outcome = outcome,
            !.result.exit = -1, !.result.elapsed = elapsed]
<1>1. DOMAIN Attempt = AttemptFields
  BY AttemptTyped DEF IInv, ReservedInv
<1>2. /\ DOMAIN given = AttemptFields /\ given.node = Attempt.node
      /\ given.reserved = Attempt.reserved
  BY <1>1 DEF AttemptFields
<1>3. disk' \in {disk, Transition(mem, turn.index, given, "completed")} /\ pc' = "idle"
  BY DEF EndUnlaunched, Written, WriteFails, Finish
<1>4. UNCHANGED request /\ UNCHANGED launches
  BY DEF Surroundings
<1>5. pc \in {"limit", "check", "launch"}
  OBVIOUS
<1> HIDE DEF given
<1> QED BY ONLY IInv, <1>2, <1>3, <1>4, <1>5, EndsUnlaunched

\* The invariant when the runner goes from one step before the launch to the next.
LEMMA GoesOn ==
    ASSUME IInv, pc \in {"limit", "check"}, pc' \in {"check", "launch"},
           UNCHANGED Surroundings, UNCHANGED mem, UNCHANGED disk, turn'.index = turn.index
    PROVE  IInv'
<1>1. UNCHANGED request /\ UNCHANGED launches
  BY DEF Surroundings
<1>2. LaunchInv' /\ Running' = Running
  BY <1>1, SameLaunches
<1>3. DiskInv'
  BY <1>1 DEF IInv, DiskInv, Holds, Unpassed, Running
<1>4. ReservedInv'
  BY <1>1, <1>2 DEF IInv, ReservedInv, Settled, Done, AtIndex, Attempt
<1> QED BY <1>1, <1>2, <1>3, <1>4, Rest DEF TurnInv, ChildInv, JudgeInv

LEMMA LimitKeeps == ASSUME IInv, Limit PROVE IInv'
<1>1. pc = "limit" /\ UNCHANGED Surroundings
  BY DEF Limit
<1>2. \/ EndUnlaunched("execution_budget_exhausted", 0, "execution_budget_exhausted")
      \/ pc' = "check" /\ turn'.index = turn.index /\ UNCHANGED << mem, disk >>
  BY DEF Limit
<1>3. CASE EndUnlaunched("execution_budget_exhausted", 0, "execution_budget_exhausted")
  BY <1>1, <1>3, EndUnlaunchedKeeps
<1> QED BY <1>1, <1>2, <1>3, GoesOn

LEMMA CheckKeeps == ASSUME IInv, Check PROVE IInv'
<1> DEFINE outcome == PreLaunchOutcome.outcome
           elapsed == PreLaunchOutcome.elapsed
           code == PreLaunchOutcome.code
<1>1. pc = "check" /\ UNCHANGED Surroundings
  BY DEF Check
<1>2. \/ EndUnlaunched(outcome, elapsed, code)
      \/ pc' = "launch" /\ turn'.index = turn.index /\ UNCHANGED << mem, disk >>
  BY DEF Check
<1> HIDE DEF outcome, elapsed, code
<1>3. CASE EndUnlaunched(outcome, elapsed, code)
  BY <1>1, <1>3, EndUnlaunchedKeeps
<1> QED BY <1>1, <1>2, <1>3, GoesOn

LEMMA LaunchFailsKeeps == ASSUME IInv, LaunchFails PROVE IInv'
<1> DEFINE given == [Attempt EXCEPT
                !.state = "completed", !.completed = TRUE,
                !.outcome = "child_process_start_failed",
                !.result.exit = -1, !.result.elapsed = now - turn.started]
<1>1. pc \in {"limit", "check", "launch"} /\ UNCHANGED request /\ UNCHANGED launches
  BY DEF LaunchFails, Surroundings
<1>2. DOMAIN Attempt = AttemptFields
  BY <1>1, AttemptTyped DEF IInv, ReservedInv
<1>3. /\ DOMAIN given = AttemptFields /\ given.node = Attempt.node
      /\ given.reserved = Attempt.reserved
  BY <1>2 DEF AttemptFields
<1>4. disk' \in {disk, Transition(mem, turn.index, given, "completed")} /\ pc' = "idle"
  BY DEF LaunchFails, Finish
<1> HIDE DEF given
<1> QED BY ONLY IInv, <1>1, <1>3, <1>4, EndsUnlaunched

LEMMA LaunchKeeps == ASSUME IInv, Launch PROVE IInv'
<1> DEFINE child == NewChild
           at == Len(launches) + 1
<1>1. /\ pc = "launch" /\ launches' = Append(launches, child) /\ pc' = "launched"
      /\ UNCHANGED request /\ UNCHANGED << disk, mem >>
  BY DEF Launch
<1>2. /\ turn'.index = turn.index /\ turn'.child = at
      /\ DOMAIN turn' = {"index", "started", "child", "late"}
  BY DEF Launch
<1>3. DOMAIN child = ChildFields /\ child.node = Attempt.node
  BY DEF NewChild, ChildFields
<1>4. /\ Stored(mem) /\ disk = mem /\ Settled(mem) /\ Done(mem) /\ Running = {}
      /\ Holds(mem) /\ AtIndex /\ Attempt.node \notin mem.completed
  BY <1>1 DEF IInv, ReservedInv, DiskInv, Stored, NoCheckpoint
<1> HIDE DEF child
<1>5. /\ IsSequence(launches') /\ DOMAIN launches' = 1 .. at /\ DOMAIN launches = 1 .. Len(launches)
      /\ Len(launches) \in Nat /\ launches'[at] = child /\ Len(launches') = at
      /\ \A i \in DOMAIN launches : launches'[i] = launches[i]
  <2>1. IsSequence(launches)
    BY DEF IInv, LaunchInv
  <2> QED BY <1>1, <2>1, Appended
<1> HIDE DEF at
<1>6. DOMAIN launches' = DOMAIN launches \cup {at} /\ at \notin DOMAIN launches
  BY <1>5 DEF at
<1>7. Running' \subseteq {at}
  BY <1>4, <1>5, <1>6 DEF Running
<1>8. LaunchInv'
  <2>1. \A i \in DOMAIN launches : launches[i].node # Attempt.node
    BY <1>4 DEF Done
  <2>2. \A i, j \in DOMAIN launches' : i # j => launches'[i].node # launches'[j].node
    BY <1>3, <1>5, <1>6, <2>1 DEF IInv, LaunchInv
  <2>3. \A i \in DOMAIN launches' : DOMAIN launches'[i] = ChildFields
    BY <1>3, <1>5, <1>6 DEF IInv, LaunchInv
  <2> QED BY <1>5, <1>7, <2>2, <2>3 DEF LaunchInv
<1>9. Stored(mem)' /\ Holds(mem)' /\ Unpassed(mem)' /\ Settled(mem)'
  <2>1. Holds(mem)'
    BY <1>1, <1>3, <1>4, <1>5, <1>6 DEF Holds, AtIndex, Attempt
  <2>2. Unpassed(mem)'
    BY <1>1, <1>3, <1>4, <1>5, <1>7 DEF Unpassed, Settled
  <2> QED BY <1>1, <1>4, <2>1, <2>2 DEF Settled
<1>10. DiskInv'
  BY <1>1, <1>4, <1>9 DEF DiskInv, Holds, Unpassed
<1>11. ChildInv'
  BY <1>1, <1>2, <1>3, <1>4, <1>5, <1>6, <1>9 DEF ChildInv, Done, AtIndex, Attempt
<1> QED BY <1>1, <1>8, <1>10, <1>11, Rest DEF TurnInv, ReservedInv, JudgeInv

-----------------------------------------------------------------------------
(* A child runs.                                                           *)

\* The children are the same, of which some may have exited.
ChildrenKept ==
    /\ IsSequence(launches') /\ DOMAIN launches' = DOMAIN launches
    /\ Len(launches') = Len(launches) /\ Running' \subseteq Running
    /\ \A i \in DOMAIN launches :
           DOMAIN launches'[i] = ChildFields /\ launches'[i].node = launches[i].node

LEMMA LaunchesKept ==
    ASSUME IInv, ChildrenKept
    PROVE  LaunchInv'
<1> QED BY DEF IInv, LaunchInv, ChildrenKept

LEMMA CheckpointKept ==
    ASSUME ChildrenKept, NEW c
    PROVE  /\ Holds(c) => Holds(c)'
           /\ Unpassed(c) => Unpassed(c)'
           /\ Done(c) => Done(c)'
<1> QED BY DEF ChildrenKept, Holds, Unpassed, Done, Running

LEMMA FileKept ==
    ASSUME IInv, ChildrenKept, NEW c, disk' \in {disk, c}, Stored(c), Holds(c), Unpassed(c)
    PROVE  DiskInv'
<1>1. CASE disk' = c
  <2>1. Holds(c)' /\ Unpassed(c)'
    BY CheckpointKept
  <2> QED BY <1>1, <2>1 DEF DiskInv, Holds, Unpassed, Running
<1>2. CASE disk' = disk
  BY <1>2 DEF IInv, DiskInv, Holds, Unpassed, ChildrenKept, Running
<1> QED BY <1>1, <1>2

LEMMA FileStays ==
    ASSUME IInv, ChildrenKept, UNCHANGED disk
    PROVE  DiskInv'
<1> QED BY DEF IInv, DiskInv, Holds, Unpassed, ChildrenKept, Running

LEMMA SameChildren ==
    ASSUME IInv, UNCHANGED launches
    PROVE  ChildrenKept
<1> QED BY DEF IInv, LaunchInv, ChildrenKept, Running

\* The attempt of a child that runs is written again.
LEMMA RecordKeeps ==
    ASSUME IInv, pc \in {"launched", "wait"}, ChildrenKept, UNCHANGED request,
           NEW given, DOMAIN given = AttemptFields, given.node = Attempt.node,
           given.reserved = Attempt.reserved, given.outcome # "passed",
           NEW event, event \notin {"reserved", "completed"},
           mem' = Transition(mem, turn.index, given, event), disk' \in {disk, mem'},
           pc' \in {"wait", "reap"}, turn'.index = turn.index, turn'.child = turn.child,
           DOMAIN turn' = DOMAIN turn
    PROVE  IInv'
<1> DEFINE index == turn.index
           c == Transition(mem, index, given, event)
<1>1. /\ Stored(mem) /\ Holds(mem) /\ Settled(mem)
      /\ index \in DOMAIN mem.attempts /\ mem.attempts[index].reserved # 0
      /\ given.node = mem.attempts[index].node /\ given.node \notin mem.completed
      /\ given.reserved # 0 /\ index # 0
  <2>1. AtIndex /\ Stored(mem) /\ Holds(mem) /\ Settled(mem) /\ Attempt.node \notin mem.completed
    BY DEF IInv, ChildInv
  <2>2. DOMAIN mem.attempts = 1 .. Len(mem.attempts)
    BY <2>1, Appended DEF Stored
  <2> QED BY <2>1, <2>2 DEF AtIndex, Attempt
<1>2. mem' = c /\ disk' \in {disk, c} /\ turn'.index = index
  OBVIOUS
<1> HIDE DEF index
<1>3. Makes(mem, index, given, event, c) /\ Holds(c) /\ Settled(c)
  BY <1>1, TransitionMakes, HoldsKept, SettledKept
<1> HIDE DEF c
<1>4. /\ Stored(c) /\ c.completed = mem.completed
      /\ index \in DOMAIN c.attempts /\ c.attempts[index].reserved # 0
      /\ c.attempts[index].node = given.node
  BY <1>1, <1>3 DEF Makes, At
<1>5. Running \subseteq {turn.child} /\ launches[turn.child].node = given.node
  BY DEF IInv, LaunchInv, ChildInv
<1>6. Unpassed(c)
  BY <1>1, <1>3, <1>4, <1>5 DEF Unpassed, Settled
<1>7. LaunchInv' /\ DiskInv' /\ Holds(mem)'
  <2>1. LaunchInv'
    BY LaunchesKept
  <2>2. DiskInv'
    BY <1>2, <1>3, <1>4, <1>6, FileKept
  <2>3. Holds(mem)'
    BY <1>2, <1>3 DEF Holds, ChildrenKept
  <2> QED BY <2>1, <2>2, <2>3
<1>8. ChildInv'
  BY <1>1, <1>2, <1>3, <1>4, <1>7
     DEF IInv, ChildInv, ChildrenKept, AtIndex, Attempt, Settled, Holds
<1> QED BY <1>7, <1>8, Rest DEF TurnInv, ReservedInv, JudgeInv

LEMMA RecordRunningKeeps == ASSUME IInv, RecordRunning PROVE IInv'
<1> DEFINE given == [Attempt EXCEPT
                !.launched = TRUE, !.state = "running", !.outcome = "running"]
           event == "running"
<1>1. /\ pc = "launched" /\ UNCHANGED request /\ UNCHANGED turn
      /\ mem' = Transition(mem, turn.index, given, event) /\ disk' \in {disk, mem'}
      /\ pc' \in {"wait", "reap"}
      /\ \/ UNCHANGED launches
         \/ launches' = [launches EXCEPT ![turn.child].deadline = Least(@, now)]
  BY DEF RecordRunning, Written, WriteFails
<1>2. Stored(mem) /\ AtIndex /\ turn.child \in DOMAIN launches
  BY <1>1 DEF IInv, ChildInv
<1>3. DOMAIN Attempt = AttemptFields
  BY <1>2, AttemptTyped
<1>4. /\ DOMAIN given = AttemptFields /\ given.node = Attempt.node
      /\ given.reserved = Attempt.reserved /\ given.outcome # "passed"
  BY <1>3 DEF AttemptFields
<1>5. event \notin {"reserved", "completed"}
  OBVIOUS
<1> HIDE DEF given, event
<1>6. ChildrenKept
  <2>1. CASE UNCHANGED launches
    BY <2>1, SameChildren
  <2>2. CASE launches' = [launches EXCEPT ![turn.child].deadline = Least(@, now)]
    <3> DEFINE child == [launches[turn.child] EXCEPT !.deadline = Least(@, now)]
    <3>1. launches' = [launches EXCEPT ![turn.child] = child]
      BY <2>2
    <3>2. DOMAIN launches[turn.child] = ChildFields
      BY <1>2 DEF IInv, LaunchInv
    <3>3. /\ DOMAIN child = ChildFields /\ child.node = launches[turn.child].node
          /\ child.exited = launches[turn.child].exited
      BY <3>2 DEF ChildFields
    <3> HIDE DEF child
    <3>4. IsSequence(launches) /\ \A i \in DOMAIN launches : DOMAIN launches[i] = ChildFields
      BY DEF IInv, LaunchInv
    <3>5. /\ IsSequence(launches') /\ DOMAIN launches' = DOMAIN launches
          /\ Len(launches') = Len(launches) /\ launches'[turn.child] = child
          /\ \A i \in DOMAIN launches : i # turn.child => launches'[i] = launches[i]
      <4> DEFINE more == [launches EXCEPT ![turn.child] = child]
      <4>1. /\ IsSequence(more) /\ DOMAIN more = DOMAIN launches
            /\ Len(more) = Len(launches) /\ more[turn.child] = child
            /\ \A i \in DOMAIN launches : i # turn.child => more[i] = launches[i]
        BY <1>2, <3>4, Replaced
      <4>2. launches' = more
        BY <3>1
      <4> HIDE DEF more
      <4> QED BY <4>1, <4>2
    <3> QED BY <3>3, <3>4, <3>5 DEF ChildrenKept, Running
  <2> QED BY <1>1, <2>1, <2>2
<1> QED BY ONLY IInv, <1>1, <1>4, <1>5, <1>6, RecordKeeps

LEMMA HeartbeatKeeps == ASSUME IInv, Heartbeat PROVE IInv'
<1> DEFINE given == Attempt
           event == "heartbeat"
<1>1. /\ pc = "wait" /\ pc' = "wait" /\ UNCHANGED request /\ UNCHANGED launches
      /\ mem' = Transition(mem, turn.index, given, event) /\ disk' \in {disk, mem'}
      /\ UNCHANGED turn \/ turn' = [turn EXCEPT !.late = TRUE]
  BY DEF Heartbeat, Surroundings, Written, WriteFails
<1>2. /\ Stored(mem) /\ AtIndex /\ Settled(mem) /\ Attempt.node \notin mem.completed
      /\ DOMAIN turn = {"index", "started", "child", "late"}
  BY <1>1 DEF IInv, ChildInv
<1>3. turn'.index = turn.index /\ turn'.child = turn.child /\ DOMAIN turn' = DOMAIN turn
  BY <1>1, <1>2
<1>4. DOMAIN given = AttemptFields
  BY <1>2, AttemptTyped
<1>5. given.outcome # "passed"
  BY <1>2 DEF Settled, AtIndex, Attempt
<1>6. given.node = Attempt.node /\ given.reserved = Attempt.reserved
  OBVIOUS
<1>7. event \notin {"reserved", "completed"} /\ ChildrenKept
  BY <1>1, SameChildren
<1> HIDE DEF given, event
<1> QED BY ONLY IInv, <1>1, <1>3, <1>4, <1>5, <1>6, <1>7, RecordKeeps

LEMMA ChildExitsKeeps ==
    ASSUME IInv, NEW i \in DOMAIN launches, ChildExits(i)
    PROVE  IInv'
<1>1. PICK exit \in {0, 1}, passes \in {0, PartitionOf(launches[i].node).repeat} :
          launches' = [launches EXCEPT ![i] = [@ EXCEPT
                !.exited = TRUE, !.exit = exit, !.passes = passes,
                !.elapsed = now - launches[i].started, !.started = 0, !.deadline = 0]]
  BY DEF ChildExits
<1> DEFINE child == [launches[i] EXCEPT
                !.exited = TRUE, !.exit = exit, !.passes = passes,
                !.elapsed = now - launches[i].started, !.started = 0, !.deadline = 0]
<1>2. launches' = [launches EXCEPT ![i] = child]
  BY <1>1
<1>3. IsSequence(launches) /\ \A j \in DOMAIN launches : DOMAIN launches[j] = ChildFields
  BY DEF IInv, LaunchInv
<1>4. DOMAIN child = ChildFields /\ child.node = launches[i].node /\ child.exited = TRUE
  BY <1>3 DEF ChildFields
<1> HIDE DEF child
<1>5. /\ IsSequence(launches') /\ DOMAIN launches' = DOMAIN launches
      /\ Len(launches') = Len(launches) /\ launches'[i] = child
      /\ \A j \in DOMAIN launches : j # i => launches'[j] = launches[j]
  <2> DEFINE more == [launches EXCEPT ![i] = child]
  <2>1. /\ IsSequence(more) /\ DOMAIN more = DOMAIN launches
        /\ Len(more) = Len(launches) /\ more[i] = child
        /\ \A j \in DOMAIN launches : j # i => more[j] = launches[j]
    BY <1>3, Replaced
  <2>2. launches' = more
    BY <1>2
  <2> HIDE DEF more
  <2> QED BY <2>1, <2>2
<1>6. ChildrenKept
  BY <1>3, <1>4, <1>5 DEF ChildrenKept, Running
<1>7. UNCHANGED request /\ UNCHANGED disk /\ UNCHANGED << pc, mem, turn >>
  BY DEF ChildExits, runner
<1>8. LaunchInv' /\ DiskInv'
  BY <1>6, <1>7, LaunchesKept, FileStays
<1>9. /\ TurnInv' /\ ReservedInv' /\ ChildInv' /\ JudgeInv'
  <2>1. TurnInv'
    BY <1>6, <1>7
       DEF IInv, TurnInv, ChildrenKept, Settled, Done, Open, Partitions, request
  <2>2. ReservedInv'
    BY <1>6, <1>7 DEF IInv, ReservedInv, ChildrenKept, Settled, Done, AtIndex, Attempt
  <2>3. ChildInv'
    BY <1>6, <1>7 DEF IInv, ChildInv, ChildrenKept, Settled, Holds, AtIndex, Attempt
  <2>4. JudgeInv'
    BY <1>6, <1>7 DEF IInv, JudgeInv, ChildrenKept, Settled, Holds, AtIndex, Attempt
  <2> QED BY <2>1, <2>2, <2>3, <2>4
<1> QED BY <1>7, <1>8, <1>9, Rest

-----------------------------------------------------------------------------
(* Its end, and the end of the canary.                                     *)

LEMMA CollectKeeps == ASSUME IInv, Collect PROVE IInv'
<1> DEFINE child == launches[turn.child]
<1>1. PICK wrote \in BOOLEAN :
        turn' = [index |-> turn.index, started |-> turn.started,
                 attempt |-> [Attempt EXCEPT !.stdout = wrote,
                    !.result = [exit |-> child.exit, passes |-> child.passes,
                                childElapsed |-> child.elapsed, elapsed |-> 0,
                                after |-> AfterSnapshot]],
                 observed |-> IF pc = "reap"
                              THEN "running_checkpoint_write_failed_reaped"
                              ELSE Observed([Attempt EXCEPT !.stdout = wrote,
                    !.result = [exit |-> child.exit, passes |-> child.passes,
                                childElapsed |-> child.elapsed, elapsed |-> 0,
                                after |-> AfterSnapshot]], wrote)]
  BY DEF Collect
<1>2. /\ pc \in {"wait", "reap"} /\ child.exited /\ pc' \in {"judge", "reaped"}
      /\ UNCHANGED request /\ UNCHANGED launches /\ UNCHANGED << disk, mem >>
  BY DEF Collect
<1>3. /\ Stored(mem) /\ Holds(mem) /\ Settled(mem) /\ AtIndex
      /\ turn.child = Len(launches) /\ launches[turn.child].node = Attempt.node
      /\ \A i \in DOMAIN launches : launches[i].node \in mem.completed \/ i = turn.child
  BY <1>2 DEF IInv, ChildInv
<1>4. DOMAIN Attempt = AttemptFields
  BY <1>3, AttemptTyped
<1>5. Running = {}
  BY <1>2, <1>3 DEF IInv, LaunchInv, Running
<1>6. /\ turn'.index = turn.index /\ DOMAIN turn'.attempt = AttemptFields
      /\ turn'.attempt.node = Attempt.node /\ turn'.attempt.reserved = Attempt.reserved
  BY <1>1, <1>4 DEF AttemptFields
<1>7. LaunchInv' /\ Running' = {} /\ DiskInv'
  BY <1>2, <1>5, SameLaunches, SameChildren, FileStays
<1>8. JudgeInv'
  BY <1>2, <1>3, <1>6, <1>7 DEF JudgeInv, Settled, Holds, AtIndex, Attempt
<1> QED BY <1>2, <1>7, <1>8, Rest DEF TurnInv, ReservedInv, ChildInv

\* What the runner stores when a collected attempt ends.
LEMMA Ended ==
    ASSUME IInv, pc \in {"judge", "reaped"}, NEW given, DOMAIN given = AttemptFields,
           given.node = Attempt.node, given.reserved = Attempt.reserved,
           NEW c, c = Transition(mem, turn.index, given, "completed")
    PROVE  /\ Stored(c) /\ Holds(c) /\ Unpassed(c) /\ Settled(c) /\ Running = {}
           /\ given.outcome = "passed" => Done(c)
<1> DEFINE index == turn.index
           event == "completed"
<1>1. /\ Stored(mem) /\ Holds(mem) /\ Settled(mem) /\ Running = {}
      /\ index \in DOMAIN mem.attempts /\ given.node = mem.attempts[index].node
      /\ given.reserved # 0
      /\ \A i \in DOMAIN launches :
             launches[i].node \in mem.completed \/ launches[i].node = given.node
  BY DEF IInv, JudgeInv, AtIndex, Attempt
<1>2. event = "completed" /\ c = Transition(mem, index, given, event)
  OBVIOUS
<1> HIDE DEF index, event
<1>3. Makes(mem, index, given, event, c) /\ Holds(c) /\ Settled(c)
  BY <1>1, <1>2, TransitionMakes, HoldsKept, SettledKept
<1>4. Stored(c) /\ Unpassed(c)
  BY <1>1, <1>3, NothingRuns DEF Makes
<1>5. given.outcome = "passed" => Done(c)
  BY <1>1, <1>2, <1>3 DEF Makes, Done
<1> QED BY <1>1, <1>3, <1>4, <1>5

LEMMA TimedFields ==
    ASSUME NEW attempt, DOMAIN attempt = AttemptFields, NEW outcome
    PROVE  LET given == [Timed(attempt) EXCEPT !.outcome = outcome]
           IN  /\ DOMAIN given = AttemptFields /\ given.node = attempt.node
               /\ given.reserved = attempt.reserved /\ given.outcome = outcome
<1> QED BY DEF Timed, AttemptFields

LEMMA CompleteKeeps == ASSUME IInv, Complete PROVE IInv'
<1> DEFINE outcome == Judge(mem, Timed(turn.attempt), turn.observed)
           given == [Timed(turn.attempt) EXCEPT !.outcome = outcome]
           c == Transition(mem, turn.index, given, "completed")
           next == "turn"
           keep == [index |-> 0]
<1>1. /\ pc \in {"judge", "reaped"} /\ UNCHANGED Surroundings
      /\ \/ given.outcome = "passed" /\ StoreOrStop(c, next, keep)
         \/ disk' \in {disk, c} /\ pc' = "idle"
  BY DEF Complete, Written, WriteFails, Finish
<1>2. DOMAIN turn.attempt = AttemptFields
  BY <1>1 DEF IInv, JudgeInv
<1> HIDE DEF outcome
<1>3. /\ DOMAIN given = AttemptFields /\ given.node = turn.attempt.node
      /\ given.reserved = turn.attempt.reserved
  BY <1>2, TimedFields
<1>4. given.node = Attempt.node /\ given.reserved = Attempt.reserved
  BY <1>1, <1>3 DEF IInv, JudgeInv
<1>5. next = "turn"
  OBVIOUS
<1> HIDE DEF given, next, keep
<1>6. /\ Stored(c) /\ Holds(c) /\ Unpassed(c) /\ Settled(c) /\ Running = {}
      /\ given.outcome = "passed" => Done(c)
  BY <1>1, <1>3, <1>4, Ended
<1> HIDE DEF c
<1>7. UNCHANGED request /\ UNCHANGED launches
  BY <1>1 DEF Surroundings
<1>8. CASE disk' \in {disk, c} /\ pc' = "idle"
  BY <1>6, <1>7, <1>8, StopsWith
<1>9. CASE given.outcome = "passed" /\ StoreOrStop(c, next, keep)
  <2>1. DiskInv' /\ (IInv' \/ (mem' = c /\ disk' = c /\ pc' = "turn"))
    BY <1>1, <1>5, <1>6, <1>9, StoresOrStops
  <2>2. ASSUME mem' = c, disk' = c, pc' = "turn" PROVE IInv'
    <3>1. LaunchInv' /\ Running' = {}
      BY <1>6, <1>7, SameLaunches
    <3>2. TurnInv'
      BY <1>6, <1>7, <1>9, <2>2, <3>1 DEF TurnInv, Settled, Done
    <3> QED BY <1>7, <2>1, <2>2, <3>1, <3>2, Rest DEF ReservedInv, ChildInv, JudgeInv
  <2> QED BY <2>1, <2>2
<1> QED BY <1>1, <1>8, <1>9

LEMMA ReapKeeps == ASSUME IInv, Reap PROVE IInv'
<1> DEFINE outcome == turn.observed
           given == [Timed(turn.attempt) EXCEPT !.outcome = outcome]
           c == Transition(mem, turn.index, given, "completed")
<1>1. /\ pc \in {"judge", "reaped"} /\ UNCHANGED request /\ UNCHANGED launches
      /\ disk' \in {disk, c} /\ pc' = "idle"
  BY DEF Reap, Written, WriteFails, Finish, Surroundings
<1>2. DOMAIN turn.attempt = AttemptFields
  BY <1>1 DEF IInv, JudgeInv
<1> HIDE DEF outcome
<1>3. /\ DOMAIN given = AttemptFields /\ given.node = turn.attempt.node
      /\ given.reserved = turn.attempt.reserved
  BY <1>2, TimedFields
<1>4. given.node = Attempt.node /\ given.reserved = Attempt.reserved
  BY <1>1, <1>3 DEF IInv, JudgeInv
<1> HIDE DEF given
<1>5. Stored(c) /\ Holds(c) /\ Unpassed(c)
  BY <1>1, <1>3, <1>4, Ended
<1> HIDE DEF c
<1> QED BY <1>1, <1>5, StopsWith

LEMMA CloseKeeps == ASSUME IInv, Close PROVE IInv'
<1> DEFINE c == [mem EXCEPT !.completedAt = now]
           next == "reconcile"
<1>1. pc = "turn" /\ UNCHANGED Surroundings /\ StoreOrStop(c, next, turn)
  BY DEF Close
<1>2. Stored(mem) /\ disk = mem /\ Running = {} /\ Holds(mem)
  BY <1>1 DEF IInv, TurnInv, DiskInv, Stored, NoCheckpoint
<1>3. /\ DOMAIN c = CheckpointFields /\ c.present = mem.present
      /\ c.attempts = mem.attempts /\ c.events = mem.events
  BY <1>2 DEF Stored, CheckpointFields
<1>4. next = "reconcile"
  OBVIOUS
<1> HIDE DEF c, next
<1>5. Stored(c) /\ Holds(c) /\ Unpassed(c)
  BY <1>2, <1>3, NothingRuns DEF Stored, Holds
<1>6. UNCHANGED request /\ UNCHANGED launches /\ DiskInv' /\ (IInv' \/ pc' = "reconcile")
  BY <1>1, <1>4, <1>5, StoresOrStops
<1> QED BY <1>6, Stops

\* Steps that touch neither the children nor the checkpoint.
LEMMA EndKeeps ==
    ASSUME IInv, Reconcile \/ (\E file \in Files : Publish(file)) \/ ReuseImport \/ Promoted \/ Crash
    PROVE  IInv'
<1>1. /\ UNCHANGED request /\ UNCHANGED launches /\ UNCHANGED disk
      /\ pc' \in {"idle", "publish", "promoted"}
  BY DEF Reconcile, Publish, ReuseImport, Promoted, Crash, Surroundings, Fail, Finish, Pending
<1>2. DiskInv'
  BY <1>1, SameChildren, FileStays
<1> QED BY <1>1, <1>2, Stops

LEMMA NothingMoves ==
    ASSUME IInv, UNCHANGED << request, launches, disk, runner >>
    PROVE  IInv'
<1> QED BY DEF IInv, request, runner, LaunchInv, DiskInv, TurnInv, ReservedInv, ChildInv,
               JudgeInv, Holds, Unpassed, Running, Settled, Done, Open, Partitions, AtIndex,
               Attempt

-----------------------------------------------------------------------------
(* The theorem.                                                            *)

LEMMA Initially == Init => IInv
<1> SUFFICES ASSUME Init PROVE IInv
  OBVIOUS
<1>1. IsSequence(launches) /\ DOMAIN launches = {}
  <2>1. << >> \in Seq({})
    OBVIOUS
  <2>2. launches \in Seq({})
    BY <2>1 DEF Init
  <2> QED BY <2>2 DEF IsSequence, Init
<1> QED BY <1>1 DEF Init, IInv, LaunchInv, DiskInv, TurnInv, ReservedInv, ChildInv,
                    JudgeInv, Running

LEMMA Inductive ==
    ASSUME IInv, [Next]_vars
    PROVE  IInv'
<1>1. CASE RunnerStep
  BY <1>1, CreateKeeps, ResumeKeeps, HardWallKeeps, TransientKeeps, ReserveKeeps,
     LimitKeeps, CheckKeeps, LaunchKeeps, RecordRunningKeeps, CollectKeeps, CompleteKeeps,
     ReapKeeps, CloseKeeps, EndKeeps DEF RunnerStep
<1>2. CASE Pass \/ Disturb \/ UNCHANGED vars
  <2>1. UNCHANGED << request, launches, disk, runner >>
    BY <1>2 DEF Pass, Disturb, vars
  <2> QED BY <2>1, NothingMoves
<1>3. CASE \E i \in DOMAIN launches : ChildExits(i)
  BY <1>3, ChildExitsKeeps
<1> QED BY <1>1, <1>2, <1>3, StartKeeps, LaunchFailsKeeps, HeartbeatKeeps, EndKeeps
        DEF Next

\* No node of the plan has two children, and no two children run at once, for every
\* request, every number of starts, crashes and failing writes, and every clock.
THEOREM StartedOnce == Spec => []LaunchedOnce
<1>1. IInv => LaunchedOnce
  <2> SUFFICES ASSUME IInv PROVE Cardinality(Running) <= 1
    BY DEF IInv, LaunchInv, LaunchedOnce
  <2>1. Running \subseteq {Len(launches)}
    BY DEF IInv, LaunchInv
  <2>2. IsFiniteSet({Len(launches)}) /\ Cardinality({Len(launches)}) = 1
    BY FS_Singleton
  <2>3. Cardinality(Running) <= Cardinality({Len(launches)})
    BY <2>1, <2>2, FS_Subset
  <2> QED BY <2>2, <2>3
<1>2. IInv /\ [Next]_vars => IInv'
  BY Inductive
<1> QED BY <1>1, <1>2, Initially, PTL DEF Spec

-----------------------------------------------------------------------------
(* What a checkpoint keeps.                                                *)

Unstarted == NeverLaunched \cup {"repository_git_state_mismatch_before_launch"}

JudgedOutcomes ==
    {"passed", "test_failure", "go_event_count_mismatch", "repository_snapshot_mismatch",
     "repository_git_state_mismatch", "executable_provenance_mismatch",
     "stdout_evidence_write_failed", "heartbeat_checkpoint_write_failed",
     "running_checkpoint_write_failed_reaped", "actual_duration_above_estimate",
     "hard_wall_reached", "lease_maximum_exceeded", "per_attempt_timeout_exceeded",
     "retry_allowance_exceeded", "total_node_timeout_exceeded", "node_budget_exceeded",
     "aggregate_duration_exceeded"}

\* An attempt that is reserved, that runs, that has ended.
Awaits(a) ==
    /\ a.state = "reserved" /\ a.outcome = "launch_reserved" /\ a.launched = FALSE
    /\ a.completed = FALSE /\ a.result = NoResult /\ a.stdout = FALSE
    /\ a.reserved > 0 /\ a.running = 0 /\ a.completion = 0 /\ a.seq = a.reserved

Runs(a) ==
    /\ a.state = "running" /\ a.outcome = "running" /\ a.launched = TRUE
    /\ a.completed = FALSE /\ a.result = NoResult /\ a.stdout = FALSE
    /\ a.reserved > 0 /\ a.running > a.reserved /\ a.completion = 0

EndsWell(a) ==
    \/ /\ a.outcome = "transient_infrastructure" /\ a.node = RetryNode /\ a.number = 1
       /\ a.launched = FALSE /\ a.reserved = 0 /\ a.running = 0 /\ a.result.after = "none"
    \/ /\ a.outcome \in Unstarted
       /\ a.launched = FALSE /\ a.reserved > 0 /\ a.running = 0 /\ a.result.after = "none"
    \/ /\ a.outcome \in JudgedOutcomes
       /\ a.launched = TRUE /\ a.reserved > 0
       /\ a.running > a.reserved /\ a.completion > a.running
       /\ a.result.after \in {"none", "changed", "approved"}
       /\ a.result.elapsed >= a.result.childElapsed
       /\ a.outcome = "passed" =>
            a.result.exit = 0 /\ a.result.passes = PartitionOf(a.node).repeat

Ends(a) ==
    /\ a.state = "completed" /\ a.completed = TRUE /\ a.completion > 0
    /\ a.seq = a.completion /\ EndsWell(a)

Planned(a) ==
    /\ a.node \in Nodes /\ a.class = PartitionOf(a.node).class
    /\ a.class = "scale" => a.number = 1
    /\ a.number \in IF a.node = RetryNode THEN 1..2 ELSE {1}

AttemptKept(a, n) ==
    /\ Planned(a)
    /\ a.seq \in 1..n /\ a.reserved \in 0..n /\ a.running \in 0..n /\ a.completion \in 0..n
    /\ Awaits(a) \/ Runs(a) \/ Ends(a)

\* The event e, the i-th, tells what the attempt was then.
Records(a, e, i) ==
    /\ a.node = e.node /\ a.number = e.number
    /\ e.snapshot = SnapshotAt(a, e.name, i)
    /\ \/ e.name = "reserved" /\ a.reserved = i
       \/ e.name = "running" /\ a.running = i
       \/ /\ e.name = "heartbeat" /\ a.running > 0 /\ i > a.running
          /\ a.completion > 0 => i < a.completion
       \/ e.name = "completed" /\ a.completion = i

AttemptsKept(c) == \A k \in DOMAIN c.attempts : AttemptKept(c.attempts[k], Len(c.events))

Distinct(c) ==
    \A j, k \in DOMAIN c.attempts : j # k =>
        \/ c.attempts[j].node # c.attempts[k].node
        \/ /\ c.attempts[j].number # c.attempts[k].number
           /\ ~ (c.attempts[j].outcome = "passed" /\ c.attempts[k].outcome = "passed")

EventsKept(c) ==
    \A i \in DOMAIN c.events : \E k \in DOMAIN c.attempts :
        Records(c.attempts[k], c.events[i], i)

Counted(c) ==
    /\ \A node : node \in c.completed <=>
            \E k \in DOMAIN c.attempts :
                c.attempts[k].outcome = "passed" /\ c.attempts[k].node = node
    /\ c.retryConsumed \in BOOLEAN
    /\ c.retryConsumed <=> \E k \in DOMAIN c.attempts :
            c.attempts[k].outcome = "transient_infrastructure"
    /\ c.scaleConsumed \in BOOLEAN
    /\ c.scaleConsumed <=> \E k \in DOMAIN c.attempts :
            c.attempts[k].class = "scale" /\ c.attempts[k].reserved > 0

Shape(c) ==
    /\ Stored(c) /\ c.manifest = run.canary /\ c.completedAt \in Int
    /\ AttemptsKept(c) /\ Distinct(c) /\ EventsKept(c) /\ Counted(c)
    /\ c.completedAt >= 0 => Nodes \subseteq c.completed

-----------------------------------------------------------------------------
(* A kept checkpoint is valid, unless a restart is known to reject it.     *)

LEMMA EndsAreValid ==
    ASSUME NEW a, NEW n \in Nat, AttemptKept(a, n), Ends(a),
           a.outcome # "repository_git_state_mismatch_before_launch",
           ~ (a.launched /\ a.result.after = "none"),
           ~ (a.launched /\ a.result.after = "changed"
              /\ a.outcome # "repository_snapshot_mismatch")
    PROVE  /\ ValidState(a)
           /\ ~ a.launched => a.result.after = "none"
           /\ a.launched /\ a.outcome # "repository_snapshot_mismatch"
                => a.result.after = "approved"
<1>1. /\ a.seq \in Int /\ a.reserved \in Int /\ a.running \in Int /\ a.completion \in Int
  BY DEF AttemptKept
<1>2. CASE a.outcome = "transient_infrastructure"
  <2>1. ValidCompletion(a) /\ a.launched = FALSE /\ a.result.after = "none"
    BY <1>2 DEF Ends, EndsWell, ValidCompletion, Unstarted, NeverLaunched, JudgedOutcomes
  <2> QED BY <2>1, <1>1 DEF Ends, ValidState
<1>3. CASE a.outcome \in NeverLaunched
  <2>1. ValidCompletion(a) /\ a.launched = FALSE /\ a.result.after = "none"
    BY <1>3 DEF Ends, EndsWell, ValidCompletion, Unstarted, NeverLaunched, JudgedOutcomes
  <2> QED BY <2>1, <1>1 DEF Ends, ValidState
<1>4. CASE a.outcome \in JudgedOutcomes
  <2>1. /\ a.launched = TRUE /\ a.reserved > 0
        /\ a.running > a.reserved /\ a.completion > a.running
        /\ a.result.after \in {"none", "changed", "approved"}
        /\ a.result.elapsed >= a.result.childElapsed
        /\ a.outcome = "passed" =>
             a.result.exit = 0 /\ a.result.passes = PartitionOf(a.node).repeat
    BY <1>4 DEF Ends, EndsWell, Unstarted, NeverLaunched, JudgedOutcomes
  <2>2. a.outcome # "transient_infrastructure" /\ a.outcome \notin NeverLaunched
    BY <1>4 DEF NeverLaunched, JudgedOutcomes
  <2>3. ValidCompletion(a)
    BY <2>1, <2>2 DEF ValidCompletion
  <2> QED BY <2>1, <2>3, <1>1 DEF Ends, ValidState
<1> QED BY <1>2, <1>3, <1>4 DEF Ends, EndsWell, Unstarted

LEMMA ShapeIsValid ==
    ASSUME NEW c, Shape(c), ~ Unreadable(c)
    PROVE  ValidCheckpoint(c)
<1> DEFINE n == Len(c.events)
<1>1. n \in Nat /\ DOMAIN c.events = 1..n /\ DOMAIN c.attempts = 1 .. Len(c.attempts)
  BY Appended DEF Shape, Stored
<1>2. \A attempt : attempt \in AttemptsOf(c) <=> \E k \in DOMAIN c.attempts : attempt = c.attempts[k]
  BY DEF AttemptsOf, Range
<1>3. ASSUME NEW attempt \in AttemptsOf(c)
      PROVE  ValidAttempt(attempt, c)
  <2>1. AttemptKept(attempt, n)
    BY <1>2, <1>3 DEF Shape, AttemptsKept
  <2>2. /\ attempt.state # "running"
        /\ attempt.outcome # "repository_git_state_mismatch_before_launch"
        /\ ~ (/\ attempt.launched /\ attempt.state = "completed"
              /\ \/ attempt.result.after = "none"
                 \/ /\ attempt.result.after = "changed"
                    /\ attempt.outcome # "repository_snapshot_mismatch")
    BY <1>3 DEF Unreadable
  <2>3. CASE Awaits(attempt)
    <3>1. attempt.result.after = "none" /\ ~ attempt.launched
      BY <2>3 DEF Awaits, NoResult
    <3>2. ValidState(attempt)
      BY <2>3 DEF Awaits, ValidState
    <3> QED BY <2>1, <3>1, <3>2 DEF ValidAttempt, AttemptKept, Planned, ValidNumber
  <2>4. CASE Ends(attempt)
    <3>1. /\ ValidState(attempt)
          /\ ~ attempt.launched => attempt.result.after = "none"
          /\ attempt.launched /\ attempt.outcome # "repository_snapshot_mismatch"
               => attempt.result.after = "approved"
      BY <1>1, <2>1, <2>2, <2>4, EndsAreValid DEF Ends
    <3> QED BY <2>1, <3>1 DEF ValidAttempt, AttemptKept, Planned, ValidNumber
  <2> QED BY <2>1, <2>2, <2>3, <2>4 DEF AttemptKept, Runs
<1>4. ASSUME NEW i \in DOMAIN c.events
      PROVE  ValidEvent(i, c)
  <2>1. PICK k \in DOMAIN c.attempts : Records(c.attempts[k], c.events[i], i)
    BY DEF Shape, EventsKept
  <2>2. c.attempts[k] \in AttemptsOf(c)
    BY <1>2
  <2> QED BY <2>1, <2>2 DEF Records, ValidEvent
<1>5. c.completed = Passed(c)
  BY <1>2 DEF Shape, Counted, Passed
<1>6. c.completed \subseteq Nodes
  BY DEF Shape, Counted, AttemptsKept, AttemptKept, Planned
<1>7. (c.completedAt >= 0) <=> (c.completed = Nodes)
  <2>1. c.completedAt \in Int /\ ~ (c.completed = Nodes /\ c.completedAt < 0)
    BY DEF Shape, Unreadable
  <2>2. c.completedAt >= 0 => Nodes \subseteq c.completed
    BY DEF Shape
  <2>3. ASSUME c.completedAt >= 0 PROVE c.completed = Nodes
    <3>1. Nodes \subseteq c.completed
      BY <2>2, <2>3
    <3> QED BY <1>6, <3>1
  <2>4. ASSUME c.completed = Nodes PROVE c.completedAt >= 0
    BY ONLY <2>1, <2>4
  <2> QED BY <2>3, <2>4
<1>8. /\ c.retryConsumed = \E a \in AttemptsOf(c) : a.outcome = "transient_infrastructure"
      /\ c.scaleConsumed = \E a \in AttemptsOf(c) : a.class = "scale" /\ a.reserved > 0
  <2>1. /\ c.retryConsumed \in BOOLEAN /\ c.scaleConsumed \in BOOLEAN
        /\ c.retryConsumed <=> \E a \in AttemptsOf(c) : a.outcome = "transient_infrastructure"
        /\ c.scaleConsumed <=> \E a \in AttemptsOf(c) : a.class = "scale" /\ a.reserved > 0
    BY <1>2 DEF Shape, Counted
  <2> DEFINE R == \E a \in AttemptsOf(c) : a.outcome = "transient_infrastructure"
             S == \E a \in AttemptsOf(c) : a.class = "scale" /\ a.reserved > 0
  <2>2. R \in BOOLEAN /\ S \in BOOLEAN
    OBVIOUS
  <2>3. (c.retryConsumed <=> R) /\ (c.scaleConsumed <=> S)
    BY <2>1
  <2> HIDE DEF R, S
  <2>4. c.retryConsumed = R /\ c.scaleConsumed = S
    BY <2>1, <2>2, <2>3
  <2> QED BY <2>4 DEF R, S
<1>9. \A i, j \in DOMAIN c.attempts : i # j =>
        \/ c.attempts[i].node # c.attempts[j].node
        \/ /\ c.attempts[i].number # c.attempts[j].number
           /\ "passed" \notin {c.attempts[i].outcome} \intersect {c.attempts[j].outcome}
  BY DEF Shape, Distinct
<1> QED BY <1>3, <1>4, <1>5, <1>7, <1>8, <1>9 DEF ValidCheckpoint, Shape

-----------------------------------------------------------------------------
(* What the events of an attempt told stays true while it is not ended.    *)

LEMMA ReservedSnapshot ==
    ASSUME NEW a, DOMAIN a = AttemptFields, NEW i
    PROVE  SnapshotAt(a, "reserved", i) =
            [node |-> a.node, number |-> a.number, class |-> a.class, state |-> "reserved",
             outcome |-> "launch_reserved", launched |-> FALSE, completed |-> FALSE,
             result |-> NoResult, stdout |-> FALSE, seq |-> a.reserved,
             reserved |-> a.reserved, running |-> 0, completion |-> 0]
<1> HIDE DEF NoResult
<1> QED BY DEF SnapshotAt, AttemptFields

LEMMA RunningSnapshot ==
    ASSUME NEW a, DOMAIN a = AttemptFields, NEW i, NEW event \in {"running", "heartbeat"}
    PROVE  SnapshotAt(a, event, i) =
            [node |-> a.node, number |-> a.number, class |-> a.class, state |-> "running",
             outcome |-> "running", launched |-> a.launched, completed |-> FALSE,
             result |-> NoResult, stdout |-> FALSE,
             seq |-> IF event = "heartbeat" THEN i ELSE a.running,
             reserved |-> a.reserved, running |-> a.running, completion |-> 0]
<1> QED BY DEF SnapshotAt, AttemptFields

\* How an attempt that has not ended may go on at the sequence number n + 1.
GoesOnAs(a, b, n) ==
    /\ b.node = a.node /\ b.number = a.number /\ b.class = a.class /\ b.reserved = a.reserved
    /\ Runs(a) => b.launched = a.launched /\ b.running = a.running
    /\ b.completion \in {0, n + 1}

LEMMA RecordsKept ==
    ASSUME NEW n \in Nat, NEW i \in 1..n, NEW a, NEW b, NEW e,
           DOMAIN a = AttemptFields, DOMAIN b = AttemptFields,
           Awaits(a) \/ Runs(a), GoesOnAs(a, b, n), Records(a, e, i)
    PROVE  Records(b, e, i)
<1>1. b.node = e.node /\ b.number = e.number
  BY DEF Records, GoesOnAs
<1>2. CASE e.name = "reserved"
  <2>1. SnapshotAt(a, "reserved", i) = SnapshotAt(b, "reserved", i)
    BY ReservedSnapshot DEF GoesOnAs
  <2> QED BY <1>1, <1>2, <2>1 DEF Records, GoesOnAs
<1>3. CASE e.name \in {"running", "heartbeat"}
  <2>1. a.running > 0
    BY <1>3 DEF Records
  <2>2. Runs(a)
    BY <2>1 DEF Awaits
  <2>3. SnapshotAt(a, e.name, i) = SnapshotAt(b, e.name, i)
    <3> DEFINE event == e.name
    <3>1. /\ b.node = a.node /\ b.number = a.number /\ b.class = a.class
          /\ b.reserved = a.reserved /\ b.launched = a.launched /\ b.running = a.running
      BY <2>2 DEF GoesOnAs
    <3>2. event \in {"running", "heartbeat"}
      BY <1>3
    <3> HIDE DEF event
    <3>3. SnapshotAt(a, event, i) = SnapshotAt(b, event, i)
      <4> DEFINE said(x) ==
            [node |-> x.node, number |-> x.number, class |-> x.class, state |-> "running",
             outcome |-> "running", launched |-> x.launched, completed |-> FALSE,
             result |-> NoResult, stdout |-> FALSE,
             seq |-> IF event = "heartbeat" THEN i ELSE x.running,
             reserved |-> x.reserved, running |-> x.running, completion |-> 0]
      <4>1. SnapshotAt(a, event, i) = said(a) /\ SnapshotAt(b, event, i) = said(b)
        BY <3>2, RunningSnapshot
      <4>2. said(a) = said(b)
        BY <3>1
      <4> HIDE DEF said
      <4> QED BY <4>1, <4>2
    <3> QED BY <3>3 DEF event
  <2>4. b.completion > 0 => i < b.completion
    BY DEF GoesOnAs
  <2> QED BY <1>1, <1>3, <2>1, <2>2, <2>3, <2>4 DEF Records, GoesOnAs
<1>4. CASE e.name = "completed"
  BY <1>4 DEF Records, Awaits, Runs
<1> QED BY <1>2, <1>3, <1>4 DEF Records

-----------------------------------------------------------------------------
(* What a transition adds to a checkpoint.                                 *)

Adds(m, index, given, event, c) ==
    LET n == Len(m.events)
        b == c.attempts[At(m, index)]
    IN  /\ n \in Nat /\ Len(c.events) = n + 1
        /\ DOMAIN m.events = 1..n /\ DOMAIN c.events = 1..(n + 1)
        /\ \A i \in 1..n : c.events[i] = m.events[i]
        /\ c.events[n + 1] = [name |-> event, node |-> b.node, number |-> b.number,
                             snapshot |-> SnapshotAt(b, event, n + 1)]
        /\ DOMAIN b = AttemptFields
        /\ b.node = given.node /\ b.number = given.number /\ b.class = given.class
        /\ b.state = given.state /\ b.outcome = given.outcome
        /\ b.launched = given.launched /\ b.completed = given.completed
        /\ b.result = given.result /\ b.stdout = given.stdout
        /\ b.seq = n + 1
        /\ b.reserved = IF event = "reserved" THEN n + 1 ELSE given.reserved
        /\ b.running = IF event = "running" THEN n + 1 ELSE given.running
        /\ b.completion = IF event = "completed" THEN n + 1 ELSE given.completion
        /\ c.manifest = m.manifest /\ c.completedAt = m.completedAt
        /\ c.retryConsumed = (m.retryConsumed \/ (event = "completed"
                                    /\ given.outcome = "transient_infrastructure"))
        /\ c.scaleConsumed = (m.scaleConsumed \/ (event = "reserved" /\ given.class = "scale"))

LEMMA TransitionAdds ==
    ASSUME NEW m, Stored(m), NEW index, index = 0 \/ index \in DOMAIN m.attempts,
           NEW given, DOMAIN given = AttemptFields,
           NEW event \in {"reserved", "running", "heartbeat", "completed"}
    PROVE  Adds(m, index, given, event, Transition(m, index, given, event))
<1> DEFINE n == Len(m.events)
           sequence == n + 1
           attempt ==
            CASE event = "reserved" -> [given EXCEPT !.seq = sequence, !.reserved = sequence]
              [] event = "running" -> [given EXCEPT !.seq = sequence, !.running = sequence]
              [] event = "completed" ->
                    [given EXCEPT !.seq = sequence, !.completion = sequence]
              [] OTHER -> [given EXCEPT !.seq = sequence]
           entry == [name |-> event, node |-> attempt.node, number |-> attempt.number,
                     snapshot |-> SnapshotAt(attempt, event, sequence)]
           attempts == IF index = 0 THEN Append(m.attempts, attempt)
                       ELSE [m.attempts EXCEPT ![index] = attempt]
           retry == m.retryConsumed \/ (event = "completed"
                                    /\ attempt.outcome = "transient_infrastructure")
           scale == m.scaleConsumed \/ (event = "reserved" /\ attempt.class = "scale")
           completed == IF event = "completed" /\ attempt.outcome = "passed"
                        THEN m.completed \cup {attempt.node} ELSE m.completed
           c == Transition(m, index, given, event)
           at == At(m, index)
<1>1. c = [m EXCEPT !.attempts = attempts, !.events = Append(m.events, entry),
                    !.retryConsumed = retry, !.scaleConsumed = scale,
                    !.completed = completed]
  BY DEF Transition
<1>2. /\ DOMAIN attempt = AttemptFields
      /\ attempt.node = given.node /\ attempt.number = given.number
      /\ attempt.class = given.class /\ attempt.state = given.state
      /\ attempt.outcome = given.outcome /\ attempt.launched = given.launched
      /\ attempt.completed = given.completed /\ attempt.result = given.result
      /\ attempt.stdout = given.stdout /\ attempt.seq = sequence
      /\ attempt.reserved = IF event = "reserved" THEN sequence ELSE given.reserved
      /\ attempt.running = IF event = "running" THEN sequence ELSE given.running
      /\ attempt.completion = IF event = "completed" THEN sequence ELSE given.completion
  BY DEF AttemptFields
<1> HIDE DEF attempt, attempts
<1>3. c.attempts[at] = attempt
  <2>1. IsSequence(m.attempts)
    BY DEF Stored
  <2>2. CASE index = 0
    <3>1. Append(m.attempts, attempt)[Len(m.attempts) + 1] = attempt
      BY <2>1, Appended
    <3>2. c.attempts = attempts
      BY <1>1 DEF Stored, CheckpointFields
    <3> QED BY <2>2, <3>1, <3>2 DEF attempts, At
  <2>3. CASE index # 0
    <3>1. index \in DOMAIN m.attempts
      BY <2>3
    <3>2. [m.attempts EXCEPT ![index] = attempt][index] = attempt
      BY <2>1, <3>1, Replaced
    <3>3. c.attempts = attempts
      BY <1>1 DEF Stored, CheckpointFields
    <3> QED BY <2>3, <3>2, <3>3 DEF attempts, At
  <2> QED BY <2>2, <2>3
<1> HIDE DEF entry
<1>4. /\ n \in Nat /\ Len(Append(m.events, entry)) = n + 1
      /\ DOMAIN m.events = 1..n /\ DOMAIN Append(m.events, entry) = 1..(n + 1)
      /\ \A i \in 1..n : Append(m.events, entry)[i] = m.events[i]
      /\ Append(m.events, entry)[n + 1] = entry
  BY Appended DEF Stored
<1> HIDE DEF retry, scale, completed
<1>5. /\ c.events = Append(m.events, entry) /\ c.manifest = m.manifest
      /\ c.completedAt = m.completedAt /\ c.retryConsumed = retry /\ c.scaleConsumed = scale
  BY <1>1 DEF Stored, CheckpointFields
<1>6. /\ retry = (m.retryConsumed \/ (event = "completed"
                                    /\ given.outcome = "transient_infrastructure"))
      /\ scale = (m.scaleConsumed \/ (event = "reserved" /\ given.class = "scale"))
  BY <1>2 DEF retry, scale
<1> HIDE DEF c, at
<1>7. Adds(m, index, given, event, c)
  BY <1>2, <1>3, <1>4, <1>5, <1>6 DEF Adds, at, entry
<1> QED BY <1>7 DEF c

\* The attempt given to a transition is a new one, or goes on with the one there.
Proper(m, index, given, event) ==
    LET n == Len(m.events)
        a == m.attempts[index]
    IN  /\ index = 0 \/ index \in DOMAIN m.attempts
        /\ DOMAIN given = AttemptFields /\ event \in {"reserved", "running", "heartbeat", "completed"}
        /\ Planned(given)
        /\ given.reserved \in 0..n /\ given.running \in 0..n /\ given.completion = 0
        /\ index = 0 =>
            /\ \A k \in DOMAIN m.attempts :
                m.attempts[k].node # given.node \/ m.attempts[k].number # given.number
            /\ event \in {"reserved", "completed"} /\ given.reserved = 0
        /\ index # 0 =>
            /\ Awaits(a) \/ Runs(a)
            /\ event # "reserved"
            /\ given.node = a.node /\ given.number = a.number /\ given.class = a.class
            /\ given.reserved = a.reserved
            /\ Runs(a) => /\ given.launched = a.launched /\ given.running = a.running
                          /\ event # "running"
            /\ event = "heartbeat" => Runs(a)
        /\ event = "reserved" => given.outcome = "launch_reserved"
        /\ given.outcome = "passed" => event = "completed" /\ given.node \notin m.completed
        /\ given.outcome = "transient_infrastructure" => event = "completed"

LEMMA Or ==
    ASSUME NEW old \in BOOLEAN, NEW more \in BOOLEAN, NEW new, new = (old \/ more)
    PROVE  new \in BOOLEAN /\ (new <=> old \/ more)
<1> QED OBVIOUS

LEMMA ShapeMade ==
    ASSUME NEW m, Shape(m), NEW index, NEW given, NEW event, Proper(m, index, given, event),
           NEW c, c = Transition(m, index, given, event),
           LET b == c.attempts[At(m, index)] IN Awaits(b) \/ Runs(b) \/ Ends(b)
    PROVE  Shape(c)
<1> DEFINE n == Len(m.events)
           at == At(m, index)
           a == m.attempts[index]
           b == c.attempts[at]
<1>1. Stored(m) /\ Makes(m, index, given, event, c) /\ Adds(m, index, given, event, c)
  BY TransitionMakes, TransitionAdds DEF Shape, Proper
<1>2. /\ Stored(c) /\ at # 0
      /\ index = 0 => at \notin DOMAIN m.attempts
      /\ index # 0 => at = index
      /\ DOMAIN c.attempts = DOMAIN m.attempts \cup {at}
      /\ \A k \in DOMAIN m.attempts : k # at => c.attempts[k] = m.attempts[k]
      /\ c.completed = IF event = "completed" /\ given.outcome = "passed"
                       THEN m.completed \cup {given.node} ELSE m.completed
  BY <1>1 DEF Makes
<1>3. /\ n \in Nat /\ Len(c.events) = n + 1
      /\ DOMAIN m.events = 1..n /\ DOMAIN c.events = 1..(n + 1)
      /\ \A i \in 1..n : c.events[i] = m.events[i]
      /\ c.events[n + 1] = [name |-> event, node |-> b.node, number |-> b.number,
                           snapshot |-> SnapshotAt(b, event, n + 1)]
  BY <1>1 DEF Adds
<1>4. /\ DOMAIN b = AttemptFields
      /\ b.node = given.node /\ b.number = given.number /\ b.class = given.class
      /\ b.outcome = given.outcome /\ b.launched = given.launched
      /\ b.seq = n + 1
      /\ b.reserved = IF event = "reserved" THEN n + 1 ELSE given.reserved
      /\ b.running = IF event = "running" THEN n + 1 ELSE given.running
      /\ b.completion = IF event = "completed" THEN n + 1 ELSE given.completion
  BY <1>1 DEF Adds
<1>5. /\ c.manifest = m.manifest /\ c.completedAt = m.completedAt
      /\ c.retryConsumed = (m.retryConsumed \/ (event = "completed"
                                    /\ given.outcome = "transient_infrastructure"))
      /\ c.scaleConsumed = (m.scaleConsumed \/ (event = "reserved" /\ given.class = "scale"))
  BY <1>1 DEF Adds
<1>6. Awaits(b) \/ Runs(b) \/ Ends(b)
  OBVIOUS
<1>7. Proper(m, index, given, event)
  OBVIOUS
<1> HIDE DEF at, b
<1>8. AttemptsKept(c)
  <2>1. ASSUME NEW k \in DOMAIN c.attempts, k # at
        PROVE  AttemptKept(c.attempts[k], n + 1)
    <3>1. AttemptKept(m.attempts[k], n) /\ c.attempts[k] = m.attempts[k]
      BY <1>2, <2>1 DEF Shape, AttemptsKept
    <3> QED BY <1>3, <3>1 DEF AttemptKept
  <2>2. AttemptKept(b, n + 1)
    <3>1. Planned(b)
      BY <1>4, <1>7 DEF Proper, Planned
    <3>2. /\ given.reserved \in 0..n /\ given.running \in 0..n /\ given.completion = 0
      BY <1>7 DEF Proper
    <3> QED BY <1>3, <1>4, <1>6, <3>1, <3>2 DEF AttemptKept
  <2> QED BY <1>2, <1>3, <2>1, <2>2 DEF AttemptsKept, b
<1>9. b.outcome = "passed" =>
        \A k \in DOMAIN m.attempts :
            m.attempts[k].node = b.node => m.attempts[k].outcome # "passed"
  <2>1. b.outcome = "passed" => b.node \notin m.completed
    BY <1>4, <1>7 DEF Proper
  <2> QED BY <2>1 DEF Shape, Counted
<1>10. Distinct(c)
  <2>1. ASSUME NEW k \in DOMAIN m.attempts, k # at
        PROVE  \/ m.attempts[k].node # b.node
               \/ /\ m.attempts[k].number # b.number
                  /\ ~ (m.attempts[k].outcome = "passed" /\ b.outcome = "passed")
    <3>1. CASE index = 0
      BY <1>4, <1>7, <1>9, <3>1 DEF Proper
    <3>2. CASE index # 0
      <4>1. index \in DOMAIN m.attempts /\ at = index /\ b.node = a.node /\ b.number = a.number
        BY <1>2, <1>4, <1>7, <3>2 DEF Proper
      <4>2. m.attempts[k].node # a.node \/ m.attempts[k].number # a.number
        BY <2>1, <4>1 DEF Shape, Distinct
      <4> QED BY <1>9, <4>1, <4>2
    <3> QED BY <3>1, <3>2
  <2>2. ASSUME NEW j \in DOMAIN c.attempts, NEW k \in DOMAIN c.attempts, j # k
        PROVE  \/ c.attempts[j].node # c.attempts[k].node
               \/ /\ c.attempts[j].number # c.attempts[k].number
                  /\ ~ (c.attempts[j].outcome = "passed" /\ c.attempts[k].outcome = "passed")
    <3>1. CASE j # at /\ k # at
      <4>1. /\ j \in DOMAIN m.attempts /\ k \in DOMAIN m.attempts
            /\ c.attempts[j] = m.attempts[j] /\ c.attempts[k] = m.attempts[k]
        BY <1>2, <3>1
      <4> QED BY <2>2, <4>1 DEF Shape, Distinct
    <3>2. CASE j = at
      <4>1. k \in DOMAIN m.attempts /\ k # at /\ c.attempts[k] = m.attempts[k] /\ c.attempts[j] = b
        BY <1>2, <2>2, <3>2 DEF b
      <4> QED BY <2>1, <4>1
    <3>3. CASE k = at
      <4>1. j \in DOMAIN m.attempts /\ j # at /\ c.attempts[j] = m.attempts[j] /\ c.attempts[k] = b
        BY <1>2, <2>2, <3>3 DEF b
      <4> QED BY <2>1, <4>1
    <3> QED BY <3>1, <3>2, <3>3
  <2> QED BY <2>2 DEF Distinct
<1>11. EventsKept(c)
  <2>1. ASSUME NEW i \in 1..n
        PROVE  \E k \in DOMAIN c.attempts : Records(c.attempts[k], c.events[i], i)
    <3>1. PICK k \in DOMAIN m.attempts : Records(m.attempts[k], m.events[i], i)
      BY <1>3 DEF Shape, EventsKept
    <3>2. c.events[i] = m.events[i]
      BY <1>3
    <3>3. CASE k # at
      BY <1>2, <3>1, <3>2, <3>3
    <3>4. CASE k = at
      <4>1. index # 0 /\ at = index /\ k = index
        BY <1>2, <3>4
      <4>2. Awaits(a) \/ Runs(a)
        BY <1>7, <4>1 DEF Proper
      <4>3. GoesOnAs(a, b, n)
        <5>1. /\ given.node = a.node /\ given.number = a.number /\ given.class = a.class
              /\ given.reserved = a.reserved /\ event # "reserved" /\ given.completion = 0
              /\ Runs(a) => /\ given.launched = a.launched /\ given.running = a.running
                            /\ event # "running"
          BY <1>7, <4>1 DEF Proper
        <5> QED BY <1>4, <5>1 DEF GoesOnAs
      <4>4. DOMAIN a = AttemptFields
        BY <1>1, <3>1, <4>1 DEF Stored
      <4>5. Records(b, m.events[i], i)
        BY <1>3, <1>4, <3>1, <4>1, <4>2, <4>3, <4>4, RecordsKept
      <4> QED BY <1>2, <3>2, <4>5 DEF b
    <3> QED BY <3>3, <3>4
  <2>2. Records(b, c.events[n + 1], n + 1)
    <3> DEFINE e == c.events[n + 1]
    <3>1. /\ e.name = event /\ e.node = b.node /\ e.number = b.number
          /\ e.snapshot = SnapshotAt(b, event, n + 1)
      BY <1>3
    <3>2. event \in {"reserved", "running", "heartbeat", "completed"}
      BY <1>7 DEF Proper
    <3>3. event = "heartbeat" =>
            b.running > 0 /\ n + 1 > b.running /\ ~ (b.completion > 0)
      <4>1. event = "heartbeat" =>
                /\ Runs(a) /\ given.running = a.running /\ given.completion = 0
                /\ given.running \in 0..n /\ a.running \in Int /\ a.reserved \in Int
        <5>1. event = "heartbeat" => index \in DOMAIN m.attempts /\ Runs(a)
                                        /\ given.running = a.running
          BY <1>2, <1>7 DEF Proper
        <5>2. event = "heartbeat" => AttemptKept(a, n)
          BY <5>1 DEF Shape, AttemptsKept
        <5> QED BY <1>7, <5>1, <5>2 DEF Proper, AttemptKept
      <4> QED BY <1>3, <1>4, <4>1 DEF Runs
    <3> HIDE DEF e
    <3>4. Records(b, e, n + 1)
      BY <1>4, <3>1, <3>2, <3>3 DEF Records
    <3> QED BY <3>4 DEF e
  <2>3. at \in DOMAIN c.attempts
    BY <1>2
  <2>4. \A i \in DOMAIN c.events : i \in 1..n \/ i = n + 1
    BY <1>3
  <2> QED BY <2>1, <2>2, <2>3, <2>4 DEF EventsKept, b
<1>12. Counted(c)
  <2>1. ASSUME NEW k \in DOMAIN m.attempts, k = at
        PROVE  /\ m.attempts[k].outcome \notin {"passed", "transient_infrastructure"}
               /\ m.attempts[k].class = b.class /\ m.attempts[k].reserved = b.reserved
    <3>1. index # 0 /\ k = index
      BY <1>2, <2>1
    <3>2. /\ Awaits(a) \/ Runs(a)
          /\ event # "reserved" /\ given.class = a.class /\ given.reserved = a.reserved
      BY <1>7, <3>1 DEF Proper
    <3> QED BY <1>4, <3>1, <3>2 DEF Awaits, Runs
  <2>2. \A node : node \in c.completed <=>
            \E k \in DOMAIN c.attempts :
                c.attempts[k].outcome = "passed" /\ c.attempts[k].node = node
    <3>1. \A node : node \in m.completed <=>
            \E k \in DOMAIN m.attempts :
                m.attempts[k].outcome = "passed" /\ m.attempts[k].node = node
      BY DEF Shape, Counted
    <3>2. (event = "completed" /\ given.outcome = "passed") <=> b.outcome = "passed"
      BY <1>4, <1>7 DEF Proper
    <3> QED BY <1>2, <1>4, <2>1, <3>1, <3>2 DEF b
  <2>3. /\ c.retryConsumed \in BOOLEAN
        /\ c.retryConsumed <=> \E k \in DOMAIN c.attempts :
                c.attempts[k].outcome = "transient_infrastructure"
    <3> DEFINE was == \E k \in DOMAIN m.attempts :
                        m.attempts[k].outcome = "transient_infrastructure"
               is == \E k \in DOMAIN c.attempts :
                        c.attempts[k].outcome = "transient_infrastructure"
               new == event = "completed" /\ given.outcome = "transient_infrastructure"
    <3>1. m.retryConsumed \in BOOLEAN /\ (m.retryConsumed <=> was)
      BY DEF Shape, Counted
    <3>2. new <=> b.outcome = "transient_infrastructure"
      BY <1>4, <1>7 DEF Proper
    <3>3. is <=> was \/ b.outcome = "transient_infrastructure"
      <4>1. ASSUME NEW k \in DOMAIN c.attempts,
                   c.attempts[k].outcome = "transient_infrastructure"
            PROVE  was \/ b.outcome = "transient_infrastructure"
        BY <1>2, <4>1 DEF b
      <4>2. ASSUME NEW k \in DOMAIN m.attempts,
                   m.attempts[k].outcome = "transient_infrastructure"
            PROVE  is
        BY <1>2, <2>1, <4>2
      <4>3. b.outcome = "transient_infrastructure" => is
        BY <1>2 DEF b
      <4> QED BY <4>1, <4>2, <4>3
    <3>4. c.retryConsumed = (m.retryConsumed \/ new) /\ new \in BOOLEAN
      BY <1>5
    <3> HIDE DEF was, is, new
    <3>5. c.retryConsumed \in BOOLEAN /\ (c.retryConsumed <=> m.retryConsumed \/ new)
      BY <3>1, <3>4, Or
    <3>6. c.retryConsumed <=> is
      BY <3>1, <3>2, <3>3, <3>5
    <3> QED BY <3>5, <3>6 DEF is
  <2>4. /\ c.scaleConsumed \in BOOLEAN
        /\ c.scaleConsumed <=> \E k \in DOMAIN c.attempts :
                c.attempts[k].class = "scale" /\ c.attempts[k].reserved > 0
    <3> DEFINE was == \E k \in DOMAIN m.attempts :
                        m.attempts[k].class = "scale" /\ m.attempts[k].reserved > 0
               is == \E k \in DOMAIN c.attempts :
                        c.attempts[k].class = "scale" /\ c.attempts[k].reserved > 0
               new == event = "reserved" /\ given.class = "scale"
    <3>1. m.scaleConsumed \in BOOLEAN /\ (m.scaleConsumed <=> was)
      BY DEF Shape, Counted
    <3>2. is <=> was \/ (b.class = "scale" /\ b.reserved > 0)
      <4>1. ASSUME NEW k \in DOMAIN c.attempts,
                   c.attempts[k].class = "scale", c.attempts[k].reserved > 0
            PROVE  was \/ (b.class = "scale" /\ b.reserved > 0)
        BY <1>2, <4>1 DEF b
      <4>2. ASSUME NEW k \in DOMAIN m.attempts,
                   m.attempts[k].class = "scale", m.attempts[k].reserved > 0
            PROVE  is
        <5>1. k # at => is
          BY <1>2, <4>2
        <5>2. k = at => c.attempts[at].class = "scale" /\ c.attempts[at].reserved > 0
          BY <2>1, <4>2 DEF b
        <5> QED BY <1>2, <5>1, <5>2
      <4>3. b.class = "scale" /\ b.reserved > 0 => is
        BY <1>2 DEF b
      <4> QED BY <4>1, <4>2, <4>3
    <3>3. (b.class = "scale" /\ b.reserved > 0) => was \/ new
      <4>1. CASE event = "reserved"
        BY <1>4, <4>1
      <4>2. CASE event # "reserved"
        <5>1. index = 0 => ~ (b.reserved > 0)
          BY <1>4, <1>7, <4>2 DEF Proper
        <5>2. index # 0 => at \in DOMAIN m.attempts
          BY <1>2, <1>7 DEF Proper
        <5>3. at \in DOMAIN m.attempts =>
                m.attempts[at].class = b.class /\ m.attempts[at].reserved = b.reserved
          BY <2>1
        <5> QED BY <5>1, <5>2, <5>3
      <4> QED BY <4>1, <4>2
    <3>4. new => b.class = "scale" /\ b.reserved > 0
      BY <1>3, <1>4
    <3>5. c.scaleConsumed = (m.scaleConsumed \/ new) /\ new \in BOOLEAN
      BY <1>5
    <3> HIDE DEF was, is, new
    <3>6. c.scaleConsumed \in BOOLEAN /\ (c.scaleConsumed <=> m.scaleConsumed \/ new)
      BY <3>1, <3>5, Or
    <3>7. c.scaleConsumed <=> is
      BY <3>1, <3>2, <3>3, <3>4, <3>6
    <3> QED BY <3>6, <3>7 DEF is
  <2> QED BY <2>2, <2>3, <2>4 DEF Counted
<1>13. c.completedAt >= 0 => Nodes \subseteq c.completed
  <2>1. m.completed \subseteq c.completed
    BY <1>2
  <2> QED BY <1>5, <2>1 DEF Shape
<1> QED BY <1>2, <1>5, <1>8, <1>10, <1>11, <1>12, <1>13 DEF Shape

-----------------------------------------------------------------------------
(* The runner's checkpoint and the file are kept, and what passed was earned. *)

\* A child of the node ran to its end and passed as often as planned.
Earned(node) ==
    \E i \in DOMAIN launches :
        /\ launches[i].node = node /\ launches[i].exited /\ launches[i].exit = 0
        /\ launches[i].passes = PartitionOf(node).repeat

Truthful(c) ==
    \A k \in DOMAIN c.attempts :
        c.attempts[k].outcome = "passed" => Earned(c.attempts[k].node)

\* An attempt that lets the canary go on.
Past(a) == a.outcome \in {"passed", "transient_infrastructure"}

ClockInv ==
    /\ now \in Int
    /\ \A i \in DOMAIN launches : launches[i].started \in Int /\ launches[i].elapsed \in Int

AdmittedInv == pc # "idle" => run.conflicts = {}

FileInv == disk = NoCheckpoint \/ (Shape(disk) /\ Truthful(disk))

BetweenInv ==
    pc \in {"turn", "reserve"} => \A k \in DOMAIN mem.attempts : Past(mem.attempts[k])

AtWork ==
    pc \in {"limit", "check", "launch", "launched", "wait", "reap", "judge", "reaped"}

MemoryInv ==
    AtWork =>
        /\ Shape(mem) /\ Truthful(mem)
        /\ \A k \in DOMAIN mem.attempts : k # turn.index => Past(mem.attempts[k])

AttemptInv ==
    /\ pc \in {"limit", "check", "launch", "launched"} => Awaits(Attempt)
    /\ pc \in {"wait", "reap", "judge", "reaped"} => Runs(Attempt)

\* What was collected is the attempt that runs, with a result.
Collected(a) ==
    /\ a.number = Attempt.number /\ a.class = Attempt.class /\ a.launched = Attempt.launched
    /\ a.running = Attempt.running /\ a.completion = Attempt.completion
    /\ a.result.after \in {"none", "changed", "approved"}
    /\ a.result.childElapsed \in Int
    /\ DOMAIN a.result = {"exit", "passes", "childElapsed", "elapsed", "after"}

CollectedInv ==
    pc \in {"judge", "reaped"} =>
        /\ Collected(turn.attempt) /\ Attempt.node \notin mem.completed
        /\ turn.observed \in JudgedOutcomes
        /\ turn.observed = "passed" =>
            /\ turn.attempt.result.exit = 0
            /\ turn.attempt.result.passes = PartitionOf(Attempt.node).repeat
            /\ Earned(Attempt.node)
        /\ pc = "reaped" => turn.observed = "running_checkpoint_write_failed_reaped"

ReconcileInv == pc = "reconcile" => mem = disk /\ Stored(mem)

EInv ==
    /\ ClockInv /\ AdmittedInv /\ FileInv /\ BetweenInv /\ MemoryInv /\ AttemptInv
    /\ CollectedInv /\ ReconcileInv

-----------------------------------------------------------------------------
(* A checkpoint stays kept while the documents are the same and no child is *)
(* forgotten.                                                              *)

LEMMA KeptStays ==
    ASSUME UNCHANGED run, NEW a, NEW n, AttemptKept(a, n)
    PROVE  AttemptKept(a, n)'
<1>1. Planned(a)'
  BY DEF AttemptKept, Planned, Nodes, Partitions, PartitionOf, RetryNode
<1>2. Ends(a) => Ends(a)'
  BY DEF Ends, EndsWell, Partitions, PartitionOf, RetryNode
<1> QED BY <1>1, <1>2 DEF AttemptKept

LEMMA ShapeStays ==
    ASSUME UNCHANGED run, NEW c, Shape(c)
    PROVE  Shape(c)'
<1>1. AttemptsKept(c)'
  BY KeptStays DEF Shape, AttemptsKept
<1>2. Nodes' = Nodes
  BY DEF Nodes, Partitions
<1> QED BY <1>1, <1>2 DEF Shape

FinishedKept ==
    \A i \in DOMAIN launches :
        /\ i \in DOMAIN launches' /\ launches'[i].node = launches[i].node
        /\ launches[i].exited =>
            /\ launches'[i].exited /\ launches'[i].exit = launches[i].exit
            /\ launches'[i].passes = launches[i].passes

LEMMA TruthStays ==
    ASSUME UNCHANGED run, FinishedKept, NEW c, Truthful(c)
    PROVE  Truthful(c)'
<1>1. \A node : Earned(node) => Earned(node)'
  BY DEF Earned, FinishedKept, PartitionOf, Partitions
<1> QED BY <1>1 DEF Truthful

LEMMA FileMade ==
    ASSUME FileInv, UNCHANGED run, FinishedKept,
           NEW c, Shape(c), Truthful(c), disk' \in {disk, c}
    PROVE  FileInv'
<1>1. Shape(c)' /\ Truthful(c)'
  BY ShapeStays, TruthStays
<1>2. CASE disk' = c
  BY <1>1, <1>2 DEF FileInv
<1>3. CASE disk' = disk
  <2>1. CASE disk = NoCheckpoint
    BY <1>3, <2>1 DEF FileInv
  <2>2. CASE disk # NoCheckpoint
    <3>1. PICK d : d = disk
      OBVIOUS
    <3>2. Shape(d) /\ Truthful(d)
      BY <2>2, <3>1 DEF FileInv
    <3>3. Shape(d)' /\ Truthful(d)'
      BY <3>2, ShapeStays, TruthStays
    <3> QED BY <1>3, <3>1, <3>3 DEF FileInv
  <2> QED BY <2>1, <2>2
<1> QED BY <1>2, <1>3

LEMMA SameFinished ==
    ASSUME UNCHANGED launches
    PROVE  FinishedKept
<1> QED BY DEF FinishedKept

LEMMA FileUntouched ==
    ASSUME FileInv, UNCHANGED run, FinishedKept, UNCHANGED disk
    PROVE  FileInv'
<1>1. CASE disk = NoCheckpoint
  BY <1>1 DEF FileInv
<1>2. CASE disk # NoCheckpoint
  <2>1. PICK d : d = disk
    OBVIOUS
  <2>2. Shape(d) /\ Truthful(d)
    BY <1>2, <2>1 DEF FileInv
  <2>3. disk' \in {disk, d}
    OBVIOUS
  <2> QED BY <2>2, <2>3, FileMade
<1> QED BY <1>1, <1>2

\* When no runner is left only the clock, the documents and the file matter.
LEMMA EndsTruly ==
    ASSUME ClockInv', FileInv', pc' \in {"idle", "load", "publish", "promoted"},
           pc' # "idle" => run'.conflicts = {}
    PROVE  EInv'
<1> QED BY DEF EInv, AdmittedInv, BetweenInv, AtWork, MemoryInv, AttemptInv, CollectedInv,
               ReconcileInv

LEMMA ClockStays ==
    ASSUME ClockInv, UNCHANGED now, UNCHANGED launches
    PROVE  ClockInv'
<1> QED BY DEF ClockInv

-----------------------------------------------------------------------------
(* What the documents of an admitted canary say.                           *)

LEMMA OwnPartition ==
    ASSUME run = RunOf(Requests[asked]), run.conflicts = {}, NEW i \in DOMAIN Partitions
    PROVE  PartitionOf(Partitions[i].node) = Partitions[i]
<1> DEFINE request_ == Requests[asked]
<1>1. DocumentConflicts(request_) = {} /\ Partitions = request_.activation.partitions
  BY DEF RunOf, Partitions
<1>2. When(~Bijective(request_), "activation_catalog_bijection_mismatch") = {}
  BY <1>1 DEF DocumentConflicts, ManifestConflicts
<1>3. Bijective(request_)
  BY <1>2 DEF When
<1>4. \A j \in DOMAIN Partitions : j # i => Partitions[j].node # Partitions[i].node
  BY <1>1, <1>3 DEF Bijective
<1>5. (CHOOSE j \in DOMAIN Partitions : Partitions[j].node = Partitions[i].node) = i
  BY <1>4
<1> QED BY <1>5 DEF PartitionOf

LEMMA CurrentPlanned ==
    ASSUME run = RunOf(Requests[asked]), asked \in DOMAIN Requests, run.conflicts = {},
           Open # {}
    PROVE  Current.node \in Nodes /\ PartitionOf(Current.node) = Current
<1>1. PICK i \in DOMAIN Partitions : Current = Partitions[i]
  BY FirstOpen
<1> QED BY <1>1, OwnPartition DEF Nodes

-----------------------------------------------------------------------------
(* Starting, and the turn of a node.                                       *)

LEMMA StartEarns == ASSUME IInv, EInv, Start PROVE EInv'
<1>1. UNCHANGED run /\ UNCHANGED launches /\ UNCHANGED disk /\ UNCHANGED now
  BY DEF Start, request
<1>2. pc' = "idle" \/ (pc' = "load" /\ run'.conflicts = {})
  BY <1>1 DEF Start, Finish
<1>3. FileInv' /\ ClockInv'
  BY <1>1, SameFinished, FileUntouched, ClockStays DEF EInv
<1> QED BY <1>2, <1>3, EndsTruly

LEMMA EmptyIsKept == Shape(EmptyCheckpoint) /\ Truthful(EmptyCheckpoint)
<1> DEFINE e == EmptyCheckpoint
<1>1. /\ Stored(e) /\ DOMAIN e.attempts = {} /\ DOMAIN e.events = {}
      /\ e.manifest = run.canary /\ e.completed = {} /\ e.completedAt = -1
      /\ ~ e.retryConsumed /\ ~ e.scaleConsumed
      /\ e.retryConsumed \in BOOLEAN /\ e.scaleConsumed \in BOOLEAN
  BY EmptyIsStored DEF EmptyCheckpoint
<1> HIDE DEF e
<1>2. Counted(e)
  BY <1>1 DEF Counted
<1>3. ~ (e.completedAt >= 0) /\ e.completedAt \in Int
  BY <1>1
<1>4. Shape(e) /\ Truthful(e)
  BY <1>1, <1>2, <1>3 DEF Shape, AttemptsKept, Distinct, EventsKept, Truthful
<1> QED BY <1>4 DEF e

LEMMA CreateEarns == ASSUME IInv, EInv, Create PROVE EInv'
<1> DEFINE e == EmptyCheckpoint
<1>1. /\ UNCHANGED run /\ UNCHANGED launches /\ UNCHANGED now /\ disk' \in {disk, e}
      /\ pc = "load" /\ (pc' = "idle" \/ (pc' = "turn" /\ mem' = e))
  BY DEF Create, Surroundings, request, Written, WriteFails, Finish
<1>2. Shape(e) /\ Truthful(e) /\ DOMAIN e.attempts = {}
  BY EmptyIsKept, EmptyIsStored
<1> HIDE DEF e
<1>3. FileInv' /\ ClockInv'
  BY <1>1, <1>2, SameFinished, FileMade, ClockStays DEF EInv
<1>4. CASE pc' = "idle"
  BY <1>3, <1>4, EndsTruly
<1>5. CASE pc' = "turn"
  <2>1. AdmittedInv' /\ BetweenInv'
    BY <1>1, <1>2, <1>5 DEF EInv, AdmittedInv, BetweenInv
  <2> QED BY <1>3, <1>5, <2>1
          DEF EInv, AtWork, MemoryInv, AttemptInv, CollectedInv, ReconcileInv
<1> QED BY <1>1, <1>4, <1>5

\* What blocks nothing has passed or is the transient failure.
LEMMA NotBlocked ==
    ASSUME NEW c, Shape(c), NEW k \in DOMAIN c.attempts, ~ Blocks(c.attempts[k])
    PROVE  Past(c.attempts[k])
<1> DEFINE a == c.attempts[k]
<1>1. AttemptKept(a, Len(c.events)) /\ ~ Blocks(a)
  BY DEF Shape, AttemptsKept
<1> HIDE DEF a
<1>2. Ends(a)
  BY <1>1 DEF AttemptKept, Blocks, Awaits, Runs
<1>3. a.outcome = "passed" \/ (~ a.launched /\ a.reserved = 0)
  BY <1>1 DEF Blocks, Retryable
<1>4. Past(a)
  BY <1>2, <1>3 DEF Ends, EndsWell, Past
<1> QED BY <1>4 DEF a

LEMMA ResumeEarns == ASSUME IInv, EInv, Resume PROVE EInv'
<1>1. /\ UNCHANGED run /\ UNCHANGED launches /\ UNCHANGED now /\ UNCHANGED disk
      /\ pc = "load"
  BY DEF Resume, Surroundings, request
<1>2. \/ pc' = "idle"
      \/ /\ pc' \in {"turn", "reconcile"} /\ mem' = disk
         /\ \A k \in DOMAIN disk.attempts : ~ Blocks(disk.attempts[k])
  BY DEF Resume, Finish, AfterLoad
<1>3. FileInv' /\ ClockInv'
  BY <1>1, SameFinished, FileUntouched, ClockStays DEF EInv
<1>4. CASE pc' = "idle"
  BY <1>3, <1>4, EndsTruly
<1>5. CASE pc' \in {"turn", "reconcile"}
  <2>1. AdmittedInv'
    BY <1>1, <1>5 DEF EInv, AdmittedInv
  <2>2. PICK d : d = disk
    OBVIOUS
  <2>3. Shape(d)
    BY <2>2 DEF EInv, FileInv, Resume, NoCheckpoint
  <2>4. \A k \in DOMAIN d.attempts : Past(d.attempts[k])
    BY <1>2, <1>5, <2>2, <2>3, NotBlocked
  <2>5. BetweenInv' /\ ReconcileInv'
    BY <1>1, <1>2, <1>5, <2>2, <2>3, <2>4 DEF BetweenInv, ReconcileInv, Shape
  <2> QED BY <1>3, <1>5, <2>1, <2>5
          DEF EInv, AtWork, MemoryInv, AttemptInv, CollectedInv
<1> QED BY <1>2, <1>4, <1>5

LEMMA HardWallEarns == ASSUME IInv, EInv, HardWallReached PROVE EInv'
<1>1. /\ UNCHANGED run /\ UNCHANGED launches /\ UNCHANGED disk /\ UNCHANGED now
      /\ pc' = "idle"
  BY DEF HardWallReached, Surroundings, request, Fail, Finish
<1>2. FileInv' /\ ClockInv'
  BY <1>1, SameFinished, FileUntouched, ClockStays DEF EInv
<1> QED BY <1>1, <1>2, EndsTruly

\* A step that stores c, which is kept, or stops because it could not.
LEMMA StoresKept ==
    ASSUME EInv, UNCHANGED Surroundings, NEW c, NEW next, NEW keep,
           StoreOrStop(c, next, keep), Shape(c), Truthful(c)
    PROVE  /\ UNCHANGED run /\ UNCHANGED launches /\ FileInv' /\ ClockInv'
           /\ EInv' \/ (mem' = c /\ disk' = c /\ pc' = next /\ turn' = keep)
<1>1. UNCHANGED run /\ UNCHANGED launches /\ UNCHANGED now
  BY DEF Surroundings, request
<1>2. \/ disk' = c /\ mem' = c /\ pc' = next /\ turn' = keep
      \/ disk' \in {disk, c} /\ pc' = "idle"
  BY DEF StoreOrStop, Written, WriteFails, Finish
<1>3. FileInv' /\ ClockInv'
  BY <1>1, <1>2, SameFinished, FileMade, ClockStays DEF EInv
<1> QED BY <1>1, <1>2, <1>3, EndsTruly

\* A transition keeps what was kept.
LEMMA Made ==
    ASSUME NEW m, Shape(m), Truthful(m), NEW index, NEW given, NEW event,
           Proper(m, index, given, event),
           NEW c, c = Transition(m, index, given, event),
           NEW b, b = c.attempts[At(m, index)], Awaits(b) \/ Runs(b) \/ Ends(b),
           given.outcome = "passed" => Earned(given.node)
    PROVE  /\ Shape(c) /\ Truthful(c)
           /\ DOMAIN c.attempts = DOMAIN m.attempts \cup {At(m, index)}
           /\ \A k \in DOMAIN m.attempts : k # At(m, index) => c.attempts[k] = m.attempts[k]
<1>1. Stored(m) /\ Makes(m, index, given, event, c)
  BY TransitionMakes DEF Shape, Proper
<1>2. Shape(c)
  BY ShapeMade
<1>3. Truthful(c)
  BY <1>1 DEF Truthful, Makes
<1> QED BY <1>1, <1>2, <1>3 DEF Makes

\* What the attempt of a transition is afterwards.
LEMMA MadeAttempt ==
    ASSUME NEW m, Shape(m), NEW index, NEW given, NEW event, Proper(m, index, given, event),
           NEW c, c = Transition(m, index, given, event),
           NEW b, b = c.attempts[At(m, index)]
    PROVE  LET n == Len(m.events) IN
           /\ n \in Nat
           /\ b.node = given.node /\ b.number = given.number /\ b.class = given.class
           /\ b.state = given.state /\ b.outcome = given.outcome
           /\ b.launched = given.launched /\ b.completed = given.completed
           /\ b.result = given.result /\ b.stdout = given.stdout
           /\ b.seq = n + 1
           /\ b.reserved = IF event = "reserved" THEN n + 1 ELSE given.reserved
           /\ b.running = IF event = "running" THEN n + 1 ELSE given.running
           /\ b.completion = IF event = "completed" THEN n + 1 ELSE given.completion
           /\ given.reserved \in 0..n /\ given.running \in 0..n /\ given.completion = 0
<1>1. Adds(m, index, given, event, c)
  BY TransitionAdds DEF Shape, Proper
<1> QED BY <1>1 DEF Adds, Proper

\* What the runner holds between the attempts, and when a node's turn has come.
LEMMA TurnHeld ==
    ASSUME IInv, EInv, pc \in {"turn", "reserve"}
    PROVE  /\ Shape(mem) /\ Truthful(mem) /\ Stored(mem) /\ disk = mem /\ Settled(mem)
           /\ \A k \in DOMAIN mem.attempts : Past(mem.attempts[k])
<1>1. Stored(mem) /\ disk = mem /\ Settled(mem)
  BY DEF IInv, TurnInv
<1>2. disk # NoCheckpoint
  BY <1>1 DEF Stored, NoCheckpoint
<1>3. PICK d : d = disk
  OBVIOUS
<1>4. Shape(d) /\ Truthful(d)
  BY <1>2, <1>3 DEF EInv, FileInv
<1>5. Shape(mem) /\ Truthful(mem)
  BY <1>1, <1>3, <1>4
<1> QED BY <1>1, <1>5 DEF EInv, BetweenInv

LEMMA TurnKnows ==
    ASSUME IInv, EInv, pc \in {"turn", "reserve"}, Open # {}
    PROVE  /\ Shape(mem) /\ Truthful(mem)
           /\ \A k \in DOMAIN mem.attempts : Past(mem.attempts[k])
           /\ Current.node \in Nodes /\ PartitionOf(Current.node) = Current
           /\ \A k \in DOMAIN mem.attempts : mem.attempts[k].node = Current.node =>
                /\ mem.attempts[k].outcome = "transient_infrastructure"
                /\ mem.attempts[k].number = 1 /\ Current.node = RetryNode
<1>1. /\ Shape(mem) /\ Truthful(mem) /\ Settled(mem)
      /\ \A k \in DOMAIN mem.attempts : Past(mem.attempts[k])
  BY TurnHeld
<1>2. Current.node \in Nodes /\ PartitionOf(Current.node) = Current
  BY CurrentPlanned DEF IInv, EInv, AdmittedInv
<1>3. Current.node \notin mem.completed
  BY FirstOpen DEF IInv
<1>4. ASSUME NEW k \in DOMAIN mem.attempts, mem.attempts[k].node = Current.node
      PROVE  /\ mem.attempts[k].outcome = "transient_infrastructure"
             /\ mem.attempts[k].number = 1 /\ Current.node = RetryNode
  <2> DEFINE a == mem.attempts[k]
  <2>1. AttemptKept(a, Len(mem.events)) /\ a.node = Current.node
    BY <1>1, <1>4 DEF Shape, AttemptsKept
  <2>2. a.outcome = "transient_infrastructure"
    BY <1>1, <1>3, <1>4 DEF Settled, Past
  <2> HIDE DEF a
  <2>3. Ends(a)
    BY <2>1, <2>2 DEF AttemptKept, Awaits, Runs
  <2>4. a.number = 1 /\ a.node = RetryNode
    BY <2>2, <2>3 DEF Ends, EndsWell, Unstarted, NeverLaunched, JudgedOutcomes
  <2> QED BY <2>1, <2>2, <2>4 DEF a
<1> QED BY <1>1, <1>2, <1>4

LEMMA TransientEarns == ASSUME IInv, EInv, RecordTransient PROVE EInv'
<1> DEFINE given == [NewAttempt(Current, 1) EXCEPT
                !.state = "completed", !.completed = TRUE,
                !.outcome = "transient_infrastructure", !.result.exit = -1]
           event == "completed"
           index == 0
           c == Transition(mem, index, given, event)
           next == "reserve"
           keep == turn
           b == c.attempts[At(mem, index)]
           n == Len(mem.events)
<1>1. StoreOrStop(c, next, keep) /\ UNCHANGED Surroundings
  BY DEF RecordTransient
<1>2. /\ pc \in {"turn", "reserve"} /\ Open # {} /\ Current.node = RetryNode
      /\ ~ mem.retryConsumed
  BY DEF RecordTransient, TakesRetry
<1>3. /\ DOMAIN given = AttemptFields /\ given.node = Current.node /\ given.number = 1
      /\ given.class = Current.class
      /\ given.state = "completed" /\ given.outcome = "transient_infrastructure"
      /\ given.launched = FALSE /\ given.completed = TRUE /\ given.result.after = "none"
      /\ given.reserved = 0 /\ given.running = 0 /\ given.completion = 0
  BY DEF NewAttempt, AttemptFields, NoResult
<1>4. event = "completed" /\ index = 0 /\ next = "reserve"
  OBVIOUS
<1> HIDE DEF given, event, index, next, keep
<1>5. /\ Shape(mem) /\ Truthful(mem)
      /\ \A k \in DOMAIN mem.attempts : Past(mem.attempts[k])
      /\ Current.node \in Nodes /\ PartitionOf(Current.node) = Current
      /\ \A k \in DOMAIN mem.attempts : mem.attempts[k].node = Current.node =>
            mem.attempts[k].outcome = "transient_infrastructure"
  BY <1>2, TurnKnows
<1>6. \A k \in DOMAIN mem.attempts : mem.attempts[k].node # Current.node
  BY <1>2, <1>5 DEF Shape, Counted
<1>7. n \in Nat
  BY <1>5, Appended DEF Shape, Stored
<1>8. Planned(given)
  BY <1>2, <1>3, <1>5 DEF Planned
<1>9. Proper(mem, index, given, event)
  BY <1>3, <1>4, <1>6, <1>7, <1>8 DEF Proper
<1> HIDE DEF c, b
<1>10. /\ b.node = given.node /\ b.number = given.number /\ b.state = given.state
       /\ b.outcome = given.outcome /\ b.launched = given.launched
       /\ b.completed = given.completed /\ b.result = given.result
       /\ b.seq = n + 1 /\ b.reserved = 0 /\ b.running = 0 /\ b.completion = n + 1
  BY <1>3, <1>4, <1>5, <1>9, MadeAttempt DEF c, b
<1>11. Ends(b)
  BY <1>2, <1>3, <1>7, <1>10 DEF Ends, EndsWell
<1>12. /\ Shape(c) /\ Truthful(c)
       /\ DOMAIN c.attempts = DOMAIN mem.attempts \cup {At(mem, index)}
       /\ \A k \in DOMAIN mem.attempts : k # At(mem, index) => c.attempts[k] = mem.attempts[k]
  BY <1>3, <1>5, <1>9, <1>11, Made DEF c, b
<1>13. \A k \in DOMAIN c.attempts : Past(c.attempts[k])
  BY <1>3, <1>5, <1>10, <1>12 DEF Past, b
<1>14. /\ UNCHANGED run /\ FileInv' /\ ClockInv'
       /\ EInv' \/ (mem' = c /\ disk' = c /\ pc' = next /\ turn' = keep)
  BY <1>1, <1>12, StoresKept
<1>15. ASSUME mem' = c, pc' = next PROVE EInv'
  <2>1. BetweenInv' /\ AdmittedInv'
    BY <1>2, <1>13, <1>14, <1>15 DEF BetweenInv, EInv, AdmittedInv
  <2> QED BY <1>4, <1>14, <1>15, <2>1
          DEF EInv, AtWork, MemoryInv, AttemptInv, CollectedInv, ReconcileInv
<1> QED BY <1>14, <1>15

\* A node is attempted once, and a second time after the transient failure only.
LEMMA Numbered ==
    ASSUME IInv, EInv, pc \in {"turn", "reserve"}, Open # {}
    PROVE  \/ /\ NextNumber = 1
              /\ \A k \in DOMAIN mem.attempts : mem.attempts[k].node # Current.node
           \/ /\ NextNumber = 2 /\ Current.node = RetryNode
              /\ \A k \in DOMAIN mem.attempts :
                    mem.attempts[k].node = Current.node => mem.attempts[k].number = 1
<1> DEFINE own == NodeAttempts(mem, Current.node)
<1>1. /\ Shape(mem)
      /\ \A k \in DOMAIN mem.attempts : mem.attempts[k].node = Current.node =>
            mem.attempts[k].number = 1 /\ Current.node = RetryNode
  BY TurnKnows
<1>2. \A x : x \in own <=> \E k \in DOMAIN mem.attempts :
                              x = mem.attempts[k] /\ mem.attempts[k].node = Current.node
  BY DEF NodeAttempts, AttemptsOf, Range
<1>3. NextNumber = Cardinality(own) + 1
  BY DEF NextNumber
<1> HIDE DEF own
<1>4. CASE own = {}
  BY <1>2, <1>3, <1>4, FS_EmptySet
<1>5. CASE own # {}
  <2>1. PICK j \in DOMAIN mem.attempts : mem.attempts[j].node = Current.node
    BY <1>2, <1>5
  <2>2. \A k \in DOMAIN mem.attempts : mem.attempts[k].node = Current.node => k = j
    BY <1>1, <2>1 DEF Shape, Distinct
  <2>3. own = {mem.attempts[j]}
    BY <1>2, <2>1, <2>2
  <2>4. Cardinality(own) = 1
    BY <2>3, FS_Singleton
  <2> QED BY <1>1, <1>3, <2>1, <2>4
<1> QED BY <1>4, <1>5

\* The runner's checkpoint after a step that changes one attempt of it.
LEMMA MemoryMade ==
    ASSUME UNCHANGED run, FinishedKept, NEW c, Shape(c), Truthful(c), mem' = c,
           \A k \in DOMAIN c.attempts : k # turn'.index => Past(c.attempts[k])
    PROVE  MemoryInv'
<1>1. Shape(c)' /\ Truthful(c)'
  BY ShapeStays, TruthStays
<1> QED BY <1>1 DEF MemoryInv

LEMMA ReserveEarns == ASSUME IInv, EInv, Reserve PROVE EInv'
<1> DEFINE given == NewAttempt(Current, NextNumber)
           event == "reserved"
           index == 0
           c == Transition(mem, index, given, event)
           next == "limit"
           at == At(mem, index)
           keep == [index |-> at, started |-> now]
           b == c.attempts[at]
           n == Len(mem.events)
<1>1. StoreOrStop(c, next, keep) /\ UNCHANGED Surroundings
  BY DEF Reserve, At
<1>2. /\ pc \in {"turn", "reserve"} /\ Open # {}
      /\ Current.class = "scale" => NextNumber <= 1
  BY DEF IInv, TurnInv, Reserve, Reserves, AttemptLeft
<1>3. /\ DOMAIN given = AttemptFields /\ given.node = Current.node
      /\ given.number = NextNumber /\ given.class = Current.class
      /\ given.state = "reserved" /\ given.outcome = "launch_reserved"
      /\ given.launched = FALSE /\ given.completed = FALSE /\ given.result = NoResult
      /\ given.stdout = FALSE /\ given.reserved = 0 /\ given.running = 0
      /\ given.completion = 0
  BY DEF NewAttempt, AttemptFields
<1>4. event = "reserved" /\ index = 0 /\ next = "limit" /\ keep.index = at
  OBVIOUS
<1> HIDE DEF given, event, index, next, keep
<1>5. /\ Shape(mem) /\ Truthful(mem)
      /\ \A k \in DOMAIN mem.attempts : Past(mem.attempts[k])
      /\ Current.node \in Nodes /\ PartitionOf(Current.node) = Current
  BY <1>2, TurnKnows
<1>6. \/ /\ NextNumber = 1
         /\ \A k \in DOMAIN mem.attempts : mem.attempts[k].node # Current.node
      \/ /\ NextNumber = 2 /\ Current.node = RetryNode
         /\ \A k \in DOMAIN mem.attempts :
               mem.attempts[k].node = Current.node => mem.attempts[k].number = 1
  BY <1>2, Numbered
<1>7. n \in Nat
  BY <1>5, Appended DEF Shape, Stored
<1>8. Planned(given)
  BY <1>2, <1>3, <1>5, <1>6 DEF Planned
<1>9. Proper(mem, index, given, event)
  BY <1>3, <1>4, <1>6, <1>7, <1>8 DEF Proper
<1> HIDE DEF c, b, at
<1>10. /\ b.state = given.state /\ b.outcome = given.outcome /\ b.launched = given.launched
       /\ b.completed = given.completed /\ b.result = given.result /\ b.stdout = given.stdout
       /\ b.seq = n + 1 /\ b.reserved = n + 1 /\ b.running = 0 /\ b.completion = 0
  BY <1>3, <1>4, <1>5, <1>9, MadeAttempt DEF c, b, at
<1>11. Awaits(b)
  BY <1>3, <1>7, <1>10 DEF Awaits
<1>12. /\ Shape(c) /\ Truthful(c)
       /\ DOMAIN c.attempts = DOMAIN mem.attempts \cup {at}
       /\ \A k \in DOMAIN mem.attempts : k # at => c.attempts[k] = mem.attempts[k]
  BY <1>3, <1>5, <1>9, <1>11, Made DEF c, b, at
<1>13. \A k \in DOMAIN c.attempts : k # at => Past(c.attempts[k])
  BY <1>5, <1>12
<1>14. /\ UNCHANGED run /\ UNCHANGED launches /\ FileInv' /\ ClockInv'
       /\ EInv' \/ (mem' = c /\ disk' = c /\ pc' = next /\ turn' = keep)
  BY <1>1, <1>12, StoresKept
<1>15. ASSUME mem' = c, pc' = next, turn' = keep PROVE EInv'
  <2>1. AdmittedInv'
    BY <1>2, <1>14 DEF EInv, AdmittedInv
  <2>2. MemoryInv'
    BY <1>4, <1>12, <1>13, <1>14, <1>15, SameFinished, MemoryMade
  <2>3. AttemptInv'
    BY <1>4, <1>11, <1>15 DEF AttemptInv, Attempt, b
  <2> QED BY <1>4, <1>14, <1>15, <2>1, <2>2, <2>3
          DEF EInv, BetweenInv, CollectedInv, ReconcileInv
<1> QED BY <1>14, <1>15

-----------------------------------------------------------------------------
(* From the reservation to the start of the child.                         *)

LEMMA AttemptHeld ==
    ASSUME IInv, EInv, AtWork
    PROVE  /\ Shape(mem) /\ Truthful(mem) /\ Stored(mem)
           /\ turn.index \in DOMAIN mem.attempts /\ turn.index # 0
           /\ At(mem, turn.index) = turn.index
           /\ DOMAIN Attempt = AttemptFields /\ AttemptKept(Attempt, Len(mem.events))
           /\ \A k \in DOMAIN mem.attempts : k # turn.index => Past(mem.attempts[k])
<1>1. Shape(mem) /\ Truthful(mem) /\ Stored(mem) /\ AtIndex
  BY DEF EInv, MemoryInv, AtWork, IInv, ReservedInv, ChildInv, JudgeInv
<1>2. DOMAIN Attempt = AttemptFields /\ turn.index \in DOMAIN mem.attempts
  BY <1>1, AttemptTyped DEF AtIndex
<1>3. DOMAIN mem.attempts = 1 .. Len(mem.attempts)
  BY <1>1, Appended DEF Stored
<1>4. AttemptKept(Attempt, Len(mem.events))
  BY <1>1, <1>2 DEF Shape, AttemptsKept, Attempt
<1>5. turn.index # 0 /\ At(mem, turn.index) = turn.index
  BY <1>2, <1>3 DEF At
<1> QED BY <1>1, <1>2, <1>4, <1>5 DEF EInv, MemoryInv

\* How the runner goes on with the attempt it holds.
GoesOnWith(given, event) ==
    /\ DOMAIN given = AttemptFields
    /\ given.node = Attempt.node /\ given.number = Attempt.number
    /\ given.class = Attempt.class /\ given.reserved = Attempt.reserved
    /\ given.running = Attempt.running /\ given.completion = Attempt.completion
    /\ Runs(Attempt) => given.launched = Attempt.launched
    /\ given.outcome = "passed" => event = "completed" /\ given.node \notin mem.completed
    /\ given.outcome # "transient_infrastructure"

LEMMA GoesOnProperly ==
    ASSUME IInv, EInv, AtWork, NEW given, NEW event, GoesOnWith(given, event),
           \/ event = "completed"
           \/ event = "running" /\ Awaits(Attempt)
           \/ event = "heartbeat" /\ Runs(Attempt)
    PROVE  Proper(mem, turn.index, given, event)
<1> DEFINE index == turn.index
           n == Len(mem.events)
<1>1. /\ index \in DOMAIN mem.attempts /\ index # 0
      /\ AttemptKept(Attempt, n)
  BY AttemptHeld
<1>2. Awaits(Attempt) \/ Runs(Attempt)
  BY DEF EInv, AttemptInv, AtWork
<1>3. Planned(given)
  BY <1>1 DEF AttemptKept, Planned, GoesOnWith
<1>4. given.completion = 0
  BY <1>2 DEF Awaits, Runs, GoesOnWith
<1>5. given.reserved \in 0..n /\ given.running \in 0..n
  BY <1>1 DEF AttemptKept, GoesOnWith
<1>6. Attempt = mem.attempts[index]
  BY DEF Attempt
<1>7. event = "running" => ~ Runs(Attempt)
  BY DEF Awaits, Runs
<1> HIDE DEF index, n
<1>8. Proper(mem, index, given, event)
  BY <1>1, <1>2, <1>3, <1>4, <1>5, <1>6, <1>7 DEF Proper, GoesOnWith, n
<1> QED BY <1>8 DEF index

\* An attempt that ends without a child is kept too.
LEMMA EndsKept ==
    ASSUME IInv, EInv, pc \in {"limit", "check", "launch"},
           UNCHANGED run, UNCHANGED launches, UNCHANGED now, pc' = "idle",
           NEW given, GoesOnWith(given, "completed"), given.outcome \in Unstarted,
           given.launched = Attempt.launched, given.state = "completed",
           given.completed = TRUE, given.result.after = Attempt.result.after,
           disk' \in {disk, Transition(mem, turn.index, given, "completed")}
    PROVE  EInv'
<1> DEFINE index == turn.index
           event == "completed"
           c == Transition(mem, index, given, event)
           b == c.attempts[At(mem, index)]
           n == Len(mem.events)
<1>1. AtWork
  BY DEF AtWork
<1>2. /\ Shape(mem) /\ Truthful(mem) /\ AttemptKept(Attempt, n)
  BY <1>1, AttemptHeld
<1>3. Awaits(Attempt)
  BY DEF EInv, AttemptInv
<1>4. Proper(mem, index, given, event)
  BY <1>1, GoesOnProperly
<1>5. disk' \in {disk, c} /\ event = "completed"
  OBVIOUS
<1> HIDE DEF index, event, c, b
<1>6. /\ n \in Nat
      /\ b.node = given.node /\ b.number = given.number /\ b.state = given.state
      /\ b.outcome = given.outcome /\ b.launched = given.launched
      /\ b.completed = given.completed /\ b.result = given.result
      /\ b.seq = n + 1 /\ b.reserved = given.reserved /\ b.running = given.running
      /\ b.completion = n + 1
  BY <1>2, <1>4, <1>5, MadeAttempt DEF c, b
<1>7. Ends(b)
  BY <1>2, <1>3, <1>6 DEF Ends, EndsWell, Awaits, NoResult, GoesOnWith
<1>8. given.outcome # "passed"
  BY DEF Unstarted, NeverLaunched
<1>9. Shape(c) /\ Truthful(c)
  BY <1>2, <1>4, <1>7, <1>8, Made DEF c, b
<1>10. FileInv' /\ ClockInv'
  BY <1>5, <1>9, SameFinished, FileMade, ClockStays DEF EInv
<1> QED BY <1>10, EndsTruly

LEMMA EndUnlaunchedEarns ==
    ASSUME IInv, EInv, pc \in {"limit", "check"}, UNCHANGED Surroundings,
           NEW outcome \in Unstarted, NEW elapsed, NEW code, EndUnlaunched(outcome, elapsed, code)
    PROVE  EInv'
<1> DEFINE given == [Attempt EXCEPT
            !.state = "completed", !.completed = TRUE, !.outcome = outcome,
            !.result.exit = -1, !.result.elapsed = elapsed]
<1>1. AtWork
  BY DEF AtWork
<1>2. DOMAIN Attempt = AttemptFields
  BY <1>1, AttemptHeld
<1>3. Awaits(Attempt)
  BY DEF EInv, AttemptInv
<1>4. Attempt.result = NoResult
  BY <1>3 DEF Awaits
<1>5. /\ DOMAIN given = AttemptFields /\ given.node = Attempt.node
      /\ given.number = Attempt.number /\ given.class = Attempt.class
      /\ given.reserved = Attempt.reserved /\ given.running = Attempt.running
      /\ given.completion = Attempt.completion /\ given.launched = Attempt.launched
      /\ given.outcome = outcome /\ given.state = "completed" /\ given.completed = TRUE
      /\ given.result.after = Attempt.result.after
  BY <1>2, <1>4 DEF AttemptFields, NoResult
<1>6. disk' \in {disk, Transition(mem, turn.index, given, "completed")} /\ pc' = "idle"
  BY DEF EndUnlaunched, Written, WriteFails, Finish
<1>7. UNCHANGED run /\ UNCHANGED launches /\ UNCHANGED now
  BY DEF Surroundings, request
<1>8. pc \in {"limit", "check", "launch"}
  OBVIOUS
<1>9. outcome # "passed" /\ outcome # "transient_infrastructure"
  BY DEF Unstarted, NeverLaunched
<1> HIDE DEF given
<1>10. GoesOnWith(given, "completed")
  BY <1>5, <1>9 DEF GoesOnWith
<1>11. given.outcome \in Unstarted
  BY <1>5
<1> QED BY ONLY IInv, EInv, <1>5, <1>6, <1>7, <1>8, <1>10, <1>11, EndsKept

LEMMA ReservedGoesOn ==
    ASSUME IInv, EInv, pc \in {"limit", "check"}, pc' \in {"check", "launch"},
           UNCHANGED Surroundings, UNCHANGED mem, UNCHANGED disk, turn'.index = turn.index
    PROVE  EInv'
<1>1. UNCHANGED run /\ UNCHANGED launches /\ UNCHANGED now /\ AtWork
  BY DEF Surroundings, request, AtWork
<1>2. FileInv' /\ ClockInv'
  BY <1>1, SameFinished, FileUntouched, ClockStays DEF EInv
<1>3. PICK c : c = mem
  OBVIOUS
<1>4. /\ Shape(c) /\ Truthful(c) /\ mem' = c
      /\ \A k \in DOMAIN c.attempts : k # turn'.index => Past(c.attempts[k])
  BY <1>1, <1>3, AttemptHeld
<1>5. MemoryInv'
  BY <1>1, <1>4, SameFinished, MemoryMade
<1>6. AdmittedInv' /\ AttemptInv'
  BY <1>1 DEF EInv, AdmittedInv, AttemptInv, Attempt
<1> QED BY <1>2, <1>5, <1>6 DEF EInv, BetweenInv, CollectedInv, ReconcileInv

LEMMA LimitEarns == ASSUME IInv, EInv, Limit PROVE EInv'
<1>1. pc = "limit" /\ UNCHANGED Surroundings
  BY DEF Limit
<1>2. \/ EndUnlaunched("execution_budget_exhausted", 0, "execution_budget_exhausted")
      \/ pc' = "check" /\ turn'.index = turn.index /\ UNCHANGED << mem, disk >>
  BY DEF Limit
<1>3. CASE EndUnlaunched("execution_budget_exhausted", 0, "execution_budget_exhausted")
  <2>1. "execution_budget_exhausted" \in Unstarted
    BY DEF Unstarted, NeverLaunched
  <2> QED BY <1>1, <1>3, <2>1, EndUnlaunchedEarns
<1> QED BY <1>1, <1>2, <1>3, ReservedGoesOn

LEMMA CheckEarns == ASSUME IInv, EInv, Check PROVE EInv'
<1> DEFINE outcome == PreLaunchOutcome.outcome
           elapsed == PreLaunchOutcome.elapsed
           code == PreLaunchOutcome.code
<1>1. pc = "check" /\ UNCHANGED Surroundings
  BY DEF Check
<1>2. \/ EndUnlaunched(outcome, elapsed, code)
      \/ pc' = "launch" /\ turn'.index = turn.index /\ UNCHANGED << mem, disk >>
  BY DEF Check
<1>3. outcome \in Unstarted
  BY DEF PreLaunchOutcome, Unstarted, NeverLaunched
<1> HIDE DEF outcome, elapsed, code
<1>4. CASE EndUnlaunched(outcome, elapsed, code)
  BY <1>1, <1>3, <1>4, EndUnlaunchedEarns
<1> QED BY <1>1, <1>2, <1>4, ReservedGoesOn

LEMMA LaunchFailsEarns == ASSUME IInv, EInv, LaunchFails PROVE EInv'
<1> DEFINE given == [Attempt EXCEPT
                !.state = "completed", !.completed = TRUE,
                !.outcome = "child_process_start_failed",
                !.result.exit = -1, !.result.elapsed = now - turn.started]
<1>1. /\ pc \in {"limit", "check", "launch"} /\ UNCHANGED run /\ UNCHANGED launches
      /\ UNCHANGED now
  BY DEF LaunchFails, Surroundings, request
<1>2. AtWork
  BY <1>1 DEF AtWork
<1>3. DOMAIN Attempt = AttemptFields
  BY <1>2, AttemptHeld
<1>4. Awaits(Attempt)
  BY <1>1 DEF EInv, AttemptInv
<1>5. Attempt.result = NoResult
  BY <1>4 DEF Awaits
<1>6. /\ DOMAIN given = AttemptFields /\ given.node = Attempt.node
      /\ given.number = Attempt.number /\ given.class = Attempt.class
      /\ given.reserved = Attempt.reserved /\ given.running = Attempt.running
      /\ given.completion = Attempt.completion /\ given.launched = Attempt.launched
      /\ given.outcome = "child_process_start_failed"
      /\ given.state = "completed" /\ given.completed = TRUE
      /\ given.result.after = Attempt.result.after
  BY <1>3, <1>5 DEF AttemptFields, NoResult
<1>7. disk' \in {disk, Transition(mem, turn.index, given, "completed")} /\ pc' = "idle"
  BY DEF LaunchFails, Finish
<1> HIDE DEF given
<1>8. GoesOnWith(given, "completed")
  BY <1>6 DEF GoesOnWith
<1>9. given.outcome \in Unstarted
  BY <1>6 DEF Unstarted, NeverLaunched
<1> QED BY ONLY IInv, EInv, <1>1, <1>6, <1>7, <1>8, <1>9, EndsKept

-----------------------------------------------------------------------------
(* A child runs.                                                           *)

LEMMA LaunchEarns == ASSUME IInv, EInv, Launch PROVE EInv'
<1> DEFINE child == NewChild
           at == Len(launches) + 1
<1>1. /\ pc = "launch" /\ launches' = Append(launches, child) /\ pc' = "launched"
      /\ UNCHANGED run /\ UNCHANGED << disk, mem, now >> /\ turn'.index = turn.index
  BY DEF Launch, request
<1>2. child.started = now /\ child.elapsed = 0
  BY DEF NewChild
<1> HIDE DEF child
<1>3. /\ DOMAIN launches' = 1 .. at /\ DOMAIN launches = 1 .. Len(launches)
      /\ Len(launches) \in Nat /\ launches'[at] = child
      /\ \A i \in DOMAIN launches : launches'[i] = launches[i]
  <2>1. IsSequence(launches)
    BY DEF IInv, LaunchInv
  <2> QED BY <1>1, <2>1, Appended
<1>4. FinishedKept
  BY <1>3 DEF FinishedKept
<1>5. ClockInv'
  <2>1. \A i \in DOMAIN launches' : i \in DOMAIN launches \/ i = at
    BY <1>3
  <2>2. now \in Int /\ \A i \in DOMAIN launches :
            launches[i].started \in Int /\ launches[i].elapsed \in Int
    BY DEF EInv, ClockInv
  <2> HIDE DEF at
  <2> QED BY <1>1, <1>2, <1>3, <2>1, <2>2 DEF ClockInv
<1>6. FileInv'
  BY <1>1, <1>4, FileUntouched DEF EInv
<1>7. AtWork
  BY <1>1 DEF AtWork
<1>8. PICK c : c = mem
  OBVIOUS
<1>9. /\ Shape(c) /\ Truthful(c) /\ mem' = c
      /\ \A k \in DOMAIN c.attempts : k # turn'.index => Past(c.attempts[k])
  BY <1>1, <1>7, <1>8, AttemptHeld
<1>10. MemoryInv'
  BY <1>1, <1>4, <1>9, MemoryMade
<1>11. AdmittedInv' /\ AttemptInv'
  BY <1>1 DEF EInv, AdmittedInv, AttemptInv, Attempt
<1> QED BY <1>1, <1>5, <1>6, <1>10, <1>11 DEF EInv, BetweenInv, CollectedInv, ReconcileInv

\* The attempt of a child that runs is written again.
LEMMA RecordEarns ==
    ASSUME IInv, EInv, AtWork, UNCHANGED run, FinishedKept, ClockInv',
           NEW given, NEW event, GoesOnWith(given, event),
           \/ event = "running" /\ Awaits(Attempt)
           \/ event = "heartbeat" /\ Runs(Attempt),
           given.state = "running", given.outcome = "running", given.launched = TRUE,
           given.completed = FALSE, given.result = NoResult, given.stdout = FALSE,
           mem' = Transition(mem, turn.index, given, event), disk' \in {disk, mem'},
           pc' \in {"wait", "reap"}, turn'.index = turn.index
    PROVE  EInv'
<1> DEFINE index == turn.index
           c == Transition(mem, index, given, event)
           b == c.attempts[At(mem, index)]
           n == Len(mem.events)
<1>1. /\ Shape(mem) /\ Truthful(mem) /\ AttemptKept(Attempt, n)
      /\ index \in DOMAIN mem.attempts /\ At(mem, index) = index
      /\ \A k \in DOMAIN mem.attempts : k # index => Past(mem.attempts[k])
  BY AttemptHeld
<1>2. Proper(mem, index, given, event)
  BY GoesOnProperly
<1>3. mem' = c /\ disk' \in {disk, c} /\ turn'.index = index
  OBVIOUS
<1> HIDE DEF index, c, b, n
<1>4. /\ n \in Nat /\ b.state = given.state
      /\ b.outcome = given.outcome /\ b.launched = given.launched
      /\ b.completed = given.completed /\ b.result = given.result /\ b.stdout = given.stdout
      /\ b.reserved = IF event = "reserved" THEN n + 1 ELSE given.reserved
      /\ b.running = IF event = "running" THEN n + 1 ELSE given.running
      /\ b.completion = IF event = "completed" THEN n + 1 ELSE given.completion
      /\ given.reserved \in 0..n
  BY <1>1, <1>2, MadeAttempt DEF c, b, n
<1>5. /\ given.reserved > 0 /\ given.completion = 0
      /\ event = "heartbeat" => given.running > given.reserved
  BY DEF GoesOnWith, Awaits, Runs
<1>6. Runs(b)
  BY <1>4, <1>5 DEF Runs
<1>7. /\ Shape(c) /\ Truthful(c)
      /\ DOMAIN c.attempts = DOMAIN mem.attempts \cup {index}
      /\ \A k \in DOMAIN mem.attempts : k # index => c.attempts[k] = mem.attempts[k]
  BY <1>1, <1>2, <1>6, Made DEF c, b
<1>8. \A k \in DOMAIN c.attempts : k # turn'.index => Past(c.attempts[k])
  BY <1>1, <1>3, <1>7
<1>9. FileInv'
  BY <1>3, <1>7, FileMade DEF EInv
<1>10. MemoryInv'
  BY <1>3, <1>7, <1>8, MemoryMade
<1>11. AttemptInv'
  BY <1>1, <1>3, <1>6 DEF AttemptInv, Attempt, b
<1>12. AdmittedInv'
  BY DEF EInv, AdmittedInv, AtWork
<1> QED BY <1>9, <1>10, <1>11, <1>12 DEF EInv, BetweenInv, CollectedInv, ReconcileInv

\* A child that is changed keeps its node, its times are instants, and what it
\* answered if it had ended.
LEMMA ChildChanges ==
    ASSUME IInv, EInv, UNCHANGED now, NEW i \in DOMAIN launches, NEW child,
           launches' = [launches EXCEPT ![i] = child], child.node = launches[i].node,
           launches[i].exited =>
                /\ child.exited /\ child.exit = launches[i].exit
                /\ child.passes = launches[i].passes,
           child.started \in Int, child.elapsed \in Int
    PROVE  FinishedKept /\ ClockInv'
<1> DEFINE more == [launches EXCEPT ![i] = child]
<1>1. /\ DOMAIN more = DOMAIN launches /\ more[i] = child
      /\ \A j \in DOMAIN launches : j # i => more[j] = launches[j]
  BY Replaced DEF IInv, LaunchInv
<1>2. launches' = more
  OBVIOUS
<1> HIDE DEF more
<1> QED BY <1>1, <1>2 DEF FinishedKept, EInv, ClockInv

LEMMA RecordRunningEarns == ASSUME IInv, EInv, RecordRunning PROVE EInv'
<1> DEFINE given == [Attempt EXCEPT
                !.launched = TRUE, !.state = "running", !.outcome = "running"]
           event == "running"
<1>1. /\ pc = "launched" /\ UNCHANGED run /\ UNCHANGED now /\ UNCHANGED turn
      /\ mem' = Transition(mem, turn.index, given, event) /\ disk' \in {disk, mem'}
      /\ pc' \in {"wait", "reap"}
      /\ \/ UNCHANGED launches
         \/ launches' = [launches EXCEPT ![turn.child].deadline = Least(@, now)]
  BY DEF RecordRunning, Written, WriteFails, request
<1>2. AtWork /\ turn.child \in DOMAIN launches
  BY <1>1 DEF AtWork, IInv, ChildInv
<1>3. DOMAIN Attempt = AttemptFields
  BY <1>2, AttemptHeld
<1>4. Awaits(Attempt)
  BY <1>1 DEF EInv, AttemptInv
<1>5. /\ DOMAIN given = AttemptFields /\ given.node = Attempt.node
      /\ given.number = Attempt.number /\ given.class = Attempt.class
      /\ given.reserved = Attempt.reserved /\ given.running = Attempt.running
      /\ given.completion = Attempt.completion /\ given.launched = TRUE
      /\ given.outcome = "running" /\ given.state = "running"
      /\ given.completed = Attempt.completed /\ given.result = Attempt.result
      /\ given.stdout = Attempt.stdout
  BY <1>3 DEF AttemptFields
<1>6. /\ given.completed = FALSE /\ given.result = NoResult /\ given.stdout = FALSE
      /\ ~ Runs(Attempt)
  BY <1>4, <1>5 DEF Awaits, Runs
<1>7. FinishedKept /\ ClockInv'
  <2>1. CASE UNCHANGED launches
    BY <1>1, <2>1, SameFinished, ClockStays DEF EInv
  <2>2. CASE launches' = [launches EXCEPT ![turn.child].deadline = Least(@, now)]
    <3> DEFINE child == [launches[turn.child] EXCEPT !.deadline = Least(@, now)]
    <3>1. launches' = [launches EXCEPT ![turn.child] = child]
      BY <2>2
    <3>2. DOMAIN launches[turn.child] = ChildFields
      BY <1>2 DEF IInv, LaunchInv
    <3>3. /\ child.node = launches[turn.child].node
          /\ child.exited = launches[turn.child].exited
          /\ child.exit = launches[turn.child].exit
          /\ child.passes = launches[turn.child].passes
          /\ child.started = launches[turn.child].started
          /\ child.elapsed = launches[turn.child].elapsed
      BY <3>2 DEF ChildFields
    <3>4. child.started \in Int /\ child.elapsed \in Int
      BY <1>2, <3>3 DEF EInv, ClockInv
    <3> HIDE DEF child
    <3> QED BY <1>1, <1>2, <3>1, <3>3, <3>4, ChildChanges
  <2> QED BY <1>1, <2>1, <2>2
<1>8. event = "running"
  OBVIOUS
<1> HIDE DEF given, event
<1>9. GoesOnWith(given, event)
  BY <1>5, <1>6 DEF GoesOnWith
<1>10. turn'.index = turn.index
  BY <1>1
<1> QED BY ONLY IInv, EInv, <1>1, <1>2, <1>4, <1>5, <1>6, <1>7, <1>8, <1>9, <1>10, RecordEarns

LEMMA HeartbeatEarns == ASSUME IInv, EInv, Heartbeat PROVE EInv'
<1> DEFINE given == Attempt
           event == "heartbeat"
<1>1. /\ pc = "wait" /\ pc' = "wait" /\ UNCHANGED run /\ UNCHANGED launches /\ UNCHANGED now
      /\ mem' = Transition(mem, turn.index, given, event) /\ disk' \in {disk, mem'}
      /\ UNCHANGED turn \/ turn' = [turn EXCEPT !.late = TRUE]
  BY DEF Heartbeat, Surroundings, request, Written, WriteFails
<1>2. AtWork /\ DOMAIN turn = {"index", "started", "child", "late"}
  BY <1>1 DEF AtWork, IInv, ChildInv
<1>3. turn'.index = turn.index
  BY <1>1, <1>2
<1>4. DOMAIN Attempt = AttemptFields
  BY <1>2, AttemptHeld
<1>5. Runs(Attempt)
  BY <1>1 DEF EInv, AttemptInv
<1>6. /\ DOMAIN given = AttemptFields /\ given.node = Attempt.node
      /\ given.number = Attempt.number /\ given.class = Attempt.class
      /\ given.reserved = Attempt.reserved /\ given.running = Attempt.running
      /\ given.completion = Attempt.completion /\ given.launched = Attempt.launched
      /\ given.launched = TRUE
      /\ given.outcome = "running" /\ given.state = "running"
      /\ given.completed = FALSE /\ given.result = NoResult /\ given.stdout = FALSE
  BY <1>4, <1>5 DEF Runs
<1>7. FinishedKept /\ ClockInv'
  BY <1>1, SameFinished, ClockStays DEF EInv
<1>8. event = "heartbeat"
  OBVIOUS
<1> HIDE DEF given, event
<1>9. GoesOnWith(given, event)
  BY <1>6 DEF GoesOnWith
<1>10. pc' \in {"wait", "reap"}
  BY <1>1
<1> QED BY ONLY IInv, EInv, <1>1, <1>2, <1>3, <1>5, <1>6, <1>7, <1>8, <1>9, <1>10, RecordEarns

\* Steps of the surroundings leave the runner and its checkpoints alone.
LEMMA NothingWritten ==
    ASSUME IInv, EInv, UNCHANGED run, UNCHANGED disk, UNCHANGED runner, FinishedKept, ClockInv'
    PROVE  EInv'
<1>1. UNCHANGED pc /\ UNCHANGED mem /\ UNCHANGED turn
  BY DEF runner
<1>2. FileInv'
  BY FileUntouched DEF EInv
<1>3. MemoryInv'
  <2>1. CASE AtWork
    <3>1. PICK c : c = mem
      OBVIOUS
    <3>2. /\ Shape(c) /\ Truthful(c) /\ mem' = c
          /\ \A k \in DOMAIN c.attempts : k # turn'.index => Past(c.attempts[k])
      BY <1>1, <2>1, <3>1, AttemptHeld
    <3> QED BY <3>2, MemoryMade
  <2>2. CASE ~ AtWork
    BY <1>1, <2>2 DEF AtWork, MemoryInv
  <2> QED BY <2>1, <2>2
<1>4. CollectedInv'
  <2>1. \A node : Earned(node) => Earned(node)'
    BY DEF Earned, FinishedKept, PartitionOf, Partitions
  <2>2. Attempt' = Attempt
    BY <1>1 DEF Attempt
  <2>3. PICK node : node = Attempt.node
    OBVIOUS
  <2>4. Earned(Attempt.node) => Earned(Attempt.node)'
    BY <2>1, <2>2, <2>3
  <2>5. PartitionOf(Attempt.node)' = PartitionOf(Attempt.node)
    BY <2>2 DEF PartitionOf, Partitions
  <2> QED BY <1>1, <2>2, <2>4, <2>5 DEF EInv, CollectedInv, Collected
<1>5. AdmittedInv' /\ BetweenInv' /\ AttemptInv' /\ ReconcileInv'
  BY <1>1 DEF EInv, AdmittedInv, BetweenInv, AttemptInv, Attempt, ReconcileInv
<1> QED BY <1>2, <1>3, <1>4, <1>5 DEF EInv

LEMMA ChildExitsEarns ==
    ASSUME IInv, EInv, NEW i \in DOMAIN launches, ChildExits(i)
    PROVE  EInv'
<1>1. PICK exit \in {0, 1}, passes \in {0, PartitionOf(launches[i].node).repeat} :
          launches' = [launches EXCEPT ![i] = [@ EXCEPT
                !.exited = TRUE, !.exit = exit, !.passes = passes,
                !.elapsed = now - launches[i].started, !.started = 0, !.deadline = 0]]
  BY DEF ChildExits
<1> DEFINE child == [launches[i] EXCEPT
                !.exited = TRUE, !.exit = exit, !.passes = passes,
                !.elapsed = now - launches[i].started, !.started = 0, !.deadline = 0]
<1>2. launches' = [launches EXCEPT ![i] = child]
  BY <1>1
<1>3. DOMAIN launches[i] = ChildFields
  BY DEF IInv, LaunchInv
<1>4. /\ child.node = launches[i].node /\ child.started = 0
      /\ child.elapsed = now - launches[i].started
  BY <1>3 DEF ChildFields
<1>5. child.started \in Int /\ child.elapsed \in Int
  BY <1>4 DEF EInv, ClockInv
<1>6. ~ launches[i].exited /\ UNCHANGED << run, now, disk, runner >>
  BY DEF ChildExits, request
<1> HIDE DEF child
<1>7. FinishedKept /\ ClockInv'
  BY <1>2, <1>4, <1>5, <1>6, ChildChanges
<1> QED BY <1>6, <1>7, NothingWritten

LEMMA SurroundingsEarn ==
    ASSUME IInv, EInv, Pass \/ Disturb \/ UNCHANGED vars
    PROVE  EInv'
<1>1. UNCHANGED run /\ UNCHANGED disk /\ UNCHANGED runner /\ UNCHANGED launches
  BY DEF Pass, Disturb, vars, request
<1>2. now' \in Int
  BY DEF EInv, ClockInv, Pass, Disturb, vars
<1>3. FinishedKept /\ ClockInv'
  BY <1>1, <1>2, SameFinished DEF EInv, ClockInv
<1> QED BY <1>1, <1>3, NothingWritten

-----------------------------------------------------------------------------
(* Its end.                                                                *)

LEMMA CollectEarns == ASSUME IInv, EInv, Collect PROVE EInv'
<1> DEFINE child == launches[turn.child]
           attempt(wrote) ==
                [Attempt EXCEPT !.stdout = wrote,
                    !.result = [exit |-> child.exit, passes |-> child.passes,
                                childElapsed |-> child.elapsed, elapsed |-> 0,
                                after |-> AfterSnapshot]]
<1>1. PICK wrote \in BOOLEAN :
        turn' = [index |-> turn.index, started |-> turn.started, attempt |-> attempt(wrote),
                 observed |-> IF pc = "reap" THEN "running_checkpoint_write_failed_reaped"
                              ELSE Observed(attempt(wrote), wrote)]
  BY DEF Collect
<1> DEFINE a == attempt(wrote)
           observed == IF pc = "reap" THEN "running_checkpoint_write_failed_reaped"
                       ELSE Observed(a, wrote)
<1>2. /\ pc \in {"wait", "reap"} /\ child.exited
      /\ pc' = IF pc = "reap" THEN "reaped" ELSE "judge"
      /\ UNCHANGED run /\ UNCHANGED launches /\ UNCHANGED << disk, mem, now >>
  BY DEF Collect, request
<1>3. AtWork /\ turn.child \in DOMAIN launches /\ child.node = Attempt.node
      /\ Attempt.node \notin mem.completed
  BY <1>2 DEF AtWork, IInv, ChildInv
<1>4. DOMAIN Attempt = AttemptFields
  BY <1>3, AttemptHeld
<1>5. Runs(Attempt)
  BY <1>2 DEF EInv, AttemptInv
<1>6. turn'.index = turn.index /\ turn'.attempt = a /\ turn'.observed = observed
  BY <1>1
<1>7. AfterSnapshot \in {"none", "changed", "approved"}
  BY DEF AfterSnapshot
<1>8. child.elapsed \in Int
  BY <1>3 DEF EInv, ClockInv
<1>9. /\ a.node = Attempt.node /\ a.number = Attempt.number /\ a.class = Attempt.class
      /\ a.launched = Attempt.launched
      /\ a.running = Attempt.running /\ a.completion = Attempt.completion
      /\ a.result = [exit |-> child.exit, passes |-> child.passes,
                     childElapsed |-> child.elapsed, elapsed |-> 0, after |-> AfterSnapshot]
  BY <1>4 DEF AttemptFields
<1> HIDE DEF attempt, a
<1>10. Collected(a)
  BY <1>7, <1>8, <1>9 DEF Collected
<1>11. /\ observed \in JudgedOutcomes
       /\ observed = "passed" =>
            /\ pc # "reap" /\ a.result.exit = 0
            /\ a.result.passes = PartitionOf(a.node).repeat
  BY DEF Observed, JudgedOutcomes
<1>12. observed = "passed" => Earned(Attempt.node)
  BY <1>2, <1>3, <1>9, <1>11 DEF Earned
<1> HIDE DEF observed, child
<1>13. mem' = mem /\ Attempt' = Attempt
  BY <1>2, <1>6 DEF Attempt
<1>14. FinishedKept /\ ClockInv' /\ FileInv'
  BY <1>2, SameFinished, ClockStays, FileUntouched DEF EInv
<1>15. MemoryInv'
  <2>1. PICK c : c = mem
    OBVIOUS
  <2>2. /\ Shape(c) /\ Truthful(c) /\ mem' = c
        /\ \A k \in DOMAIN c.attempts : k # turn'.index => Past(c.attempts[k])
    BY <1>3, <1>6, <1>13, <2>1, AttemptHeld
  <2> QED BY <1>2, <1>14, <2>2, MemoryMade
<1>16. CollectedInv'
  <2>1. PICK node : node = Attempt.node
    OBVIOUS
  <2>2. Earned(node) => Earned(node)'
    BY <1>2 DEF Earned, PartitionOf, Partitions
  <2>3. observed = "passed" => Earned(Attempt.node)'
    BY <1>12, <1>13, <2>1, <2>2
  <2>4. PartitionOf(Attempt.node)' = PartitionOf(Attempt.node)
    BY <1>2, <1>13 DEF PartitionOf, Partitions
  <2>5. Collected(turn.attempt)'
    BY <1>6, <1>10, <1>13 DEF Collected
  <2>6. pc = "reap" => observed = "running_checkpoint_write_failed_reaped"
    BY DEF observed
  <2> QED BY <1>2, <1>3, <1>6, <1>9, <1>11, <1>13, <2>3, <2>4, <2>5, <2>6 DEF CollectedInv
<1>17. AdmittedInv' /\ AttemptInv'
  BY <1>2, <1>5, <1>13 DEF EInv, AdmittedInv, AttemptInv
<1> QED BY <1>2, <1>14, <1>15, <1>16, <1>17 DEF EInv, BetweenInv, ReconcileInv

\* The limit that is named is one that was exceeded.
LEMMA FirstLimit ==
    ASSUME NEW c, NEW a, ExceededLimits(c, a) # {}
    PROVE  (CHOOSE i \in ExceededLimits(c, a) : \A j \in ExceededLimits(c, a) : i <= j)
                \in ExceededLimits(c, a)
<1> DEFINE exceeded == ExceededLimits(c, a)
           R == OpToRel(<, Nat)
<1>1. exceeded \subseteq 1..7 /\ exceeded \subseteq Nat
  BY DEF ExceededLimits, LimitCodes
<1>2. PICK i : i \in exceeded
  OBVIOUS
<1> HIDE DEF exceeded
<1>3. PICK x \in exceeded : \A y \in exceeded : ~ (<<y, x>> \in R)
  BY <1>1, <1>2, NatLessThanWellFounded, WFMin
<1>4. \A y \in exceeded : x <= y
  <2>1. \A y \in exceeded : ~ (y < x)
    BY <1>1, <1>3 DEF OpToRel
  <2> QED BY <1>1, <2>1
<1>5. (CHOOSE j \in exceeded : \A y \in exceeded : j <= y) \in exceeded
  BY <1>4
<1> QED BY <1>5 DEF exceeded

\* The judgement is one of the known outcomes, and never a better one than observed.
LEMMA Judgement ==
    ASSUME NEW c, NEW a, NEW observed \in JudgedOutcomes
    PROVE  /\ Judge(c, a, observed) \in JudgedOutcomes
           /\ Judge(c, a, observed) = "passed" => observed = "passed"
<1> DEFINE exceeded == ExceededLimits(c, a)
           first == CHOOSE i \in exceeded : \A j \in exceeded : i <= j
<1>1. exceeded \subseteq 1..7
  BY DEF ExceededLimits, LimitCodes
<1>2. exceeded # {} => first \in 1..7
  BY <1>1, FirstLimit
<1>3. \A i \in 1..7 : LimitCodes[i] \in JudgedOutcomes /\ LimitCodes[i] # "passed"
  BY DEF LimitCodes, JudgedOutcomes
<1>4. \/ exceeded # {} /\ Judge(c, a, observed) = LimitCodes[first]
      \/ Judge(c, a, observed) = "per_attempt_timeout_exceeded"
      \/ Judge(c, a, observed) = "actual_duration_above_estimate"
      \/ Judge(c, a, observed) = observed
  BY DEF Judge
<1> HIDE DEF exceeded, first
<1>5. "per_attempt_timeout_exceeded" \in JudgedOutcomes
      /\ "actual_duration_above_estimate" \in JudgedOutcomes
  BY DEF JudgedOutcomes
<1> QED BY <1>2, <1>3, <1>4, <1>5

\* What was collected is stored as it was judged.
LEMMA JudgedKept ==
    ASSUME IInv, EInv, pc \in {"judge", "reaped"},
           NEW outcome \in JudgedOutcomes, outcome = "passed" => turn.observed = "passed",
           NEW given, given = [Timed(turn.attempt) EXCEPT !.outcome = outcome],
           NEW c, c = Transition(mem, turn.index, given, "completed")
    PROVE  /\ Shape(c) /\ Truthful(c) /\ given.outcome = outcome
           /\ outcome = "passed" => \A k \in DOMAIN c.attempts : Past(c.attempts[k])
<1> DEFINE index == turn.index
           event == "completed"
           b == c.attempts[At(mem, index)]
           n == Len(mem.events)
           a == turn.attempt
           spent == Most(now - turn.started, a.result.childElapsed)
<1>1. AtWork
  BY DEF AtWork
<1>2. /\ Shape(mem) /\ Truthful(mem) /\ AttemptKept(Attempt, n)
      /\ At(mem, index) = index
      /\ \A k \in DOMAIN mem.attempts : k # index => Past(mem.attempts[k])
  BY <1>1, AttemptHeld
<1>3. /\ DOMAIN a = AttemptFields /\ a.node = Attempt.node /\ a.reserved = Attempt.reserved
      /\ Collected(a) /\ Attempt.node \notin mem.completed
      /\ turn.observed = "passed" =>
            /\ a.result.exit = 0 /\ a.result.passes = PartitionOf(Attempt.node).repeat
            /\ Earned(Attempt.node)
  BY DEF IInv, JudgeInv, EInv, CollectedInv
<1>4. Runs(Attempt)
  BY DEF EInv, AttemptInv
<1>5. spent >= a.result.childElapsed
  BY <1>3 DEF Most, Collected
<1> HIDE DEF spent
<1>6. /\ DOMAIN given = AttemptFields /\ given.node = a.node /\ given.number = a.number
      /\ given.class = a.class /\ given.reserved = a.reserved /\ given.running = a.running
      /\ given.completion = a.completion /\ given.launched = a.launched
      /\ given.outcome = outcome /\ given.state = "completed" /\ given.completed = TRUE
      /\ given.result = [a.result EXCEPT !.elapsed = spent]
  BY <1>3 DEF Timed, AttemptFields, spent
<1>7. /\ given.result.after = a.result.after /\ given.result.elapsed = spent
      /\ given.result.childElapsed = a.result.childElapsed
      /\ given.result.exit = a.result.exit /\ given.result.passes = a.result.passes
  BY <1>3, <1>6 DEF Collected
<1>8. outcome # "transient_infrastructure" /\ event = "completed"
  BY DEF JudgedOutcomes
<1>9. c = Transition(mem, index, given, event)
  OBVIOUS
<1> HIDE DEF index, event, n, b
<1>10. GoesOnWith(given, event)
  BY <1>3, <1>6, <1>8 DEF GoesOnWith, Collected
<1>11. Proper(mem, index, given, event)
  BY <1>1, <1>8, <1>10, GoesOnProperly DEF index
<1>12. /\ n \in Nat /\ b.node = given.node /\ b.state = given.state
       /\ b.outcome = given.outcome /\ b.launched = given.launched
       /\ b.completed = given.completed /\ b.result = given.result
       /\ b.seq = n + 1
       /\ b.reserved = IF event = "reserved" THEN n + 1 ELSE given.reserved
       /\ b.running = IF event = "running" THEN n + 1 ELSE given.running
       /\ b.completion = IF event = "completed" THEN n + 1 ELSE given.completion
       /\ given.running \in 0..n
  BY ONLY <1>2, <1>9, <1>11, MadeAttempt DEF b, n
<1>13. b.launched = TRUE /\ b.reserved > 0 /\ b.running > b.reserved /\ b.completion > b.running
       /\ b.completion > 0
  BY <1>3, <1>4, <1>6, <1>8, <1>12 DEF Runs, Collected
<1>14. Ends(b)
  BY <1>3, <1>5, <1>6, <1>7, <1>8, <1>12, <1>13 DEF Ends, EndsWell, Collected
<1>15. given.outcome = "passed" => Earned(given.node)
  BY <1>3, <1>6
<1>16. /\ Shape(c) /\ Truthful(c)
       /\ DOMAIN c.attempts = DOMAIN mem.attempts \cup {At(mem, index)}
       /\ \A k \in DOMAIN mem.attempts : k # At(mem, index) => c.attempts[k] = mem.attempts[k]
  BY ONLY <1>2, <1>9, <1>11, <1>14, <1>15, Made DEF b
<1>17. outcome = "passed" => Past(b)
  BY <1>6, <1>12 DEF Past
<1> QED BY <1>2, <1>6, <1>16, <1>17 DEF b

LEMMA CompleteEarns == ASSUME IInv, EInv, Complete PROVE EInv'
<1> DEFINE outcome == Judge(mem, Timed(turn.attempt), turn.observed)
           given == [Timed(turn.attempt) EXCEPT !.outcome = outcome]
           c == Transition(mem, turn.index, given, "completed")
           next == "turn"
           keep == [index |-> 0]
<1>1. /\ pc \in {"judge", "reaped"} /\ UNCHANGED Surroundings
      /\ \/ given.outcome = "passed" /\ StoreOrStop(c, next, keep)
         \/ disk' \in {disk, c} /\ pc' = "idle"
  BY DEF Complete, Written, WriteFails, Finish
<1>2. turn.observed \in JudgedOutcomes
  BY <1>1 DEF EInv, CollectedInv
<1>3. outcome \in JudgedOutcomes /\ (outcome = "passed" => turn.observed = "passed")
  BY <1>2, Judgement
<1> HIDE DEF outcome
<1>4. /\ Shape(c) /\ Truthful(c) /\ given.outcome = outcome
      /\ outcome = "passed" => \A k \in DOMAIN c.attempts : Past(c.attempts[k])
  BY <1>1, <1>3, JudgedKept
<1>5. next = "turn"
  OBVIOUS
<1> HIDE DEF given, c, next, keep
<1>6. UNCHANGED run /\ UNCHANGED launches /\ UNCHANGED now
  BY <1>1 DEF Surroundings, request
<1>7. CASE disk' \in {disk, c} /\ pc' = "idle"
  <2>1. FileInv' /\ ClockInv'
    BY <1>4, <1>6, <1>7, SameFinished, FileMade, ClockStays DEF EInv
  <2> QED BY <1>7, <2>1, EndsTruly
<1>8. CASE given.outcome = "passed" /\ StoreOrStop(c, next, keep)
  <2>1. /\ FileInv' /\ ClockInv'
        /\ EInv' \/ (mem' = c /\ disk' = c /\ pc' = next /\ turn' = keep)
    BY <1>1, <1>4, <1>8, StoresKept
  <2>2. ASSUME mem' = c, pc' = next PROVE EInv'
    <3>1. BetweenInv' /\ AdmittedInv'
      BY <1>1, <1>4, <1>6, <1>8, <2>2 DEF BetweenInv, EInv, AdmittedInv
    <3> QED BY <1>5, <2>1, <2>2, <3>1
            DEF EInv, AtWork, MemoryInv, AttemptInv, CollectedInv, ReconcileInv
  <2> QED BY <2>1, <2>2
<1> QED BY <1>1, <1>7, <1>8

LEMMA ReapEarns == ASSUME IInv, EInv, Reap PROVE EInv'
<1> DEFINE outcome == turn.observed
           given == [Timed(turn.attempt) EXCEPT !.outcome = outcome]
           c == Transition(mem, turn.index, given, "completed")
<1>1. /\ pc \in {"judge", "reaped"} /\ UNCHANGED run /\ UNCHANGED launches /\ UNCHANGED now
      /\ disk' \in {disk, c} /\ pc' = "idle"
  BY DEF Reap, Written, WriteFails, Finish, Surroundings, request
<1>2. outcome \in JudgedOutcomes
  BY <1>1 DEF EInv, CollectedInv
<1>3. outcome = "passed" => turn.observed = "passed"
  OBVIOUS
<1> HIDE DEF outcome
<1>4. Shape(c) /\ Truthful(c)
  BY <1>1, <1>2, <1>3, JudgedKept
<1> HIDE DEF given, c
<1>5. FileInv' /\ ClockInv'
  BY <1>1, <1>4, SameFinished, FileMade, ClockStays DEF EInv
<1> QED BY <1>1, <1>5, EndsTruly

LEMMA CloseEarns == ASSUME IInv, EInv, Close PROVE EInv'
<1> DEFINE c == [mem EXCEPT !.completedAt = now]
           next == "reconcile"
           keep == turn
<1>1. pc = "turn" /\ Open = {} /\ UNCHANGED Surroundings /\ StoreOrStop(c, next, keep)
  BY DEF Close
<1>2. Shape(mem) /\ Truthful(mem) /\ Stored(mem)
  BY <1>1, TurnHeld
<1>3. /\ DOMAIN c = CheckpointFields /\ c.present = mem.present /\ c.manifest = mem.manifest
      /\ c.attempts = mem.attempts /\ c.events = mem.events /\ c.completed = mem.completed
      /\ c.retryConsumed = mem.retryConsumed /\ c.scaleConsumed = mem.scaleConsumed
      /\ c.completedAt = now
  BY <1>2 DEF Stored, CheckpointFields
<1>4. Nodes \subseteq mem.completed
  BY <1>1 DEF Open, Nodes
<1>5. now \in Int /\ next = "reconcile"
  BY DEF EInv, ClockInv
<1> HIDE DEF c, next, keep
<1>6. Shape(c)
  BY <1>2, <1>3, <1>4, <1>5
     DEF Shape, Stored, AttemptsKept, Distinct, EventsKept, Counted
<1>7. Truthful(c)
  BY <1>2, <1>3 DEF Truthful
<1>8. /\ UNCHANGED run /\ FileInv' /\ ClockInv'
      /\ EInv' \/ (mem' = c /\ disk' = c /\ pc' = next /\ turn' = keep)
  BY <1>1, <1>6, <1>7, StoresKept
<1>9. ASSUME mem' = c, disk' = c, pc' = next PROVE EInv'
  <2>1. AdmittedInv' /\ ReconcileInv'
    BY <1>1, <1>6, <1>8, <1>9 DEF EInv, AdmittedInv, ReconcileInv, Shape
  <2> QED BY <1>5, <1>8, <1>9, <2>1
          DEF EInv, AtWork, BetweenInv, MemoryInv, AttemptInv, CollectedInv
<1> QED BY <1>8, <1>9

LEMMA EndEarns ==
    ASSUME IInv, EInv,
           Reconcile \/ (\E file \in Files : Publish(file)) \/ ReuseImport \/ Promoted \/ Crash
    PROVE  EInv'
<1>1. /\ UNCHANGED run /\ UNCHANGED launches /\ UNCHANGED disk /\ UNCHANGED now /\ pc # "idle"
      /\ pc' \in {"idle", "publish", "promoted"}
  BY DEF Reconcile, Publish, ReuseImport, Promoted, Crash, Surroundings, request, Fail, Finish,
         Pending
<1>2. FileInv' /\ ClockInv'
  BY <1>1, SameFinished, FileUntouched, ClockStays DEF EInv
<1> QED BY <1>1, <1>2, EndsTruly DEF EInv, AdmittedInv

-----------------------------------------------------------------------------
(* The theorems.                                                           *)

LEMMA TimesAreNumbers ==
    ASSUME NEW r \in DOMAIN Requests
    PROVE  /\ Requests[r].activation.phaseStart \in Nat
           /\ Requests[r].input.lease.min \in Int /\ Requests[r].input.lease.max \in Int
           /\ Requests[r].input.lease.target \in Int
<1>1. Requests[r].activation.phaseStart \in 0..LastInstant
  BY RequestsAssumption
<1>2. Requests[r].activation.phaseStart \in Nat
  BY ONLY <1>1, BoundsAssumption
<1>3. PlanInput(Requests[r].input)
  BY RequestsAssumption
<1> QED BY ONLY <1>2, <1>3 DEF PlanInput

LEMMA InitiallyKept == Init => EInv
<1> SUFFICES ASSUME Init PROVE EInv
  OBVIOUS
<1>1. DOMAIN launches = {} /\ now = Requests[asked].activation.phaseStart
  BY DEF Init, RunOf
<1>2. ClockInv
  BY <1>1, TimesAreNumbers DEF Init, ClockInv
<1> QED BY <1>2 DEF Init, EInv, AdmittedInv, FileInv, BetweenInv, AtWork, MemoryInv, AttemptInv,
                    CollectedInv, ReconcileInv

LEMMA KeptInductive ==
    ASSUME IInv, EInv, [Next]_vars
    PROVE  EInv'
<1>1. CASE RunnerStep
  BY <1>1, CreateEarns, ResumeEarns, HardWallEarns, TransientEarns, ReserveEarns,
     LimitEarns, CheckEarns, LaunchEarns, RecordRunningEarns, CollectEarns, CompleteEarns,
     ReapEarns, CloseEarns, EndEarns DEF RunnerStep
<1>2. CASE \E i \in DOMAIN launches : ChildExits(i)
  BY <1>2, ChildExitsEarns
<1> QED BY <1>1, <1>2, StartEarns, LaunchFailsEarns, HeartbeatEarns, EndEarns, SurroundingsEarn
        DEF Next

LEMMA Kept == Spec => [](IInv /\ EInv)
<1>1. IInv /\ EInv /\ [Next]_vars => IInv' /\ EInv'
  BY Inductive, KeptInductive
<1> QED BY <1>1, Initially, InitiallyKept, PTL DEF Spec

\* A set of one element has one.
LEMMA Single ==
    ASSUME NEW S, Cardinality(S) = 1
    PROVE  \E x : x \in S
<1> QED BY FS_EmptySet

LEMMA ReconciledEarned ==
    ASSUME IInv, EInv, Reconcile, pc' = "publish"
    PROVE  /\ \A node \in Nodes :
                \E i \in DOMAIN launches :
                    /\ launches[i].node = node /\ launches[i].exited /\ launches[i].exit = 0
                    /\ launches[i].passes = PartitionOf(node).repeat
                    /\ \E number \in 1..2 : <<node, number>> \in DOMAIN evidence
           /\ \E attempt \in AttemptsOf(disk) : attempt.outcome = "transient_infrastructure"
           /\ disk.completedAt - run.phaseStart \in run.lease.min..run.lease.max
<1>1. EvidenceAgrees(mem) /\ Reconciled(mem) = {} /\ mem = disk /\ Stored(mem)
  BY DEF Reconcile, Fail, Finish, EInv, ReconcileInv
<1> DEFINE attempts == AttemptsOf(mem)
           own(node) == {a \in attempts : a.node = node}
           passed(node) == {a \in own(node) : a.outcome = "passed"}
           transient == {a \in attempts : a.outcome = "transient_infrastructure"}
           phase == mem.completedAt - run.phaseStart
<1>2. /\ When(\E node \in Nodes : Cardinality(passed(node)) # 1,
              "attempt_omission_or_duplicate_completion") = {}
      /\ When(\/ Cardinality(Nodes) # PlannedNodes
              \/ Cardinality(mem.completed) # PlannedNodes
              \/ Len(mem.attempts) # MaximumAttempts
              \/ Cardinality({a \in attempts : a.launched}) # PlannedNodes
              \/ Cardinality({a \in {a \in attempts : a.launched} : a.class = "scale"}) # 1
              \/ Cardinality(transient) # 1, "canary_count_mismatch") = {}
      /\ When(phase < run.lease.min, "lease_minimum_not_met") = {}
      /\ When(phase < 0 \/ phase > LeaseMaximum \/ phase > HardWall,
              "lease_maximum_exceeded") = {}
  BY <1>1 DEF Reconciled
<1>3. /\ \A node \in Nodes : Cardinality(passed(node)) = 1
      /\ Cardinality(transient) = 1
      /\ ~ (phase < run.lease.min) /\ ~ (phase > LeaseMaximum)
  BY <1>2 DEF When
<1>4. PICK d : d = disk
  OBVIOUS
<1>5. Shape(d) /\ Truthful(d)
  <2>1. disk # NoCheckpoint
    BY <1>1 DEF Stored, NoCheckpoint
  <2> QED BY <1>4, <2>1 DEF EInv, FileInv
<1>6. \A a : a \in attempts <=> \E k \in DOMAIN mem.attempts : a = mem.attempts[k]
  BY DEF AttemptsOf, Range
<1>7. ASSUME NEW node \in Nodes
      PROVE  /\ Earned(node)
             /\ \E number \in 1..2 : <<node, number>> \in DOMAIN evidence
  <2>1. PICK a : a \in passed(node)
    BY <1>3, <1>7, Single
  <2>2. PICK k \in DOMAIN mem.attempts : a = mem.attempts[k]
    BY <1>6, <2>1
  <2>3. a \in attempts /\ a.node = node /\ a.outcome = "passed"
    BY <2>1
  <2> HIDE DEF passed, attempts
  <2>4. Earned(node) /\ AttemptKept(a, Len(mem.events))
    BY <1>1, <1>4, <1>5, <2>2, <2>3 DEF Truthful, Shape, AttemptsKept
  <2>5. Ends(a)
    BY <2>3, <2>4 DEF AttemptKept, Awaits, Runs
  <2>6. a.launched
    BY <2>3, <2>5 DEF Ends, EndsWell, Unstarted, NeverLaunched
  <2>7. a.number \in 1..2
    BY <2>4 DEF AttemptKept, Planned
  <2>8. <<a.node, a.number>> \in DOMAIN evidence
    BY <1>1, <2>3, <2>6 DEF EvidenceAgrees, Key, attempts
  <2> QED BY <2>3, <2>4, <2>7, <2>8
<1>8. \E attempt \in AttemptsOf(disk) : attempt.outcome = "transient_infrastructure"
  <2>1. PICK a : a \in transient
    BY <1>3, Single
  <2> QED BY <1>1, <2>1
<1>9. disk.completedAt - run.phaseStart \in run.lease.min..run.lease.max
  <2>1. /\ mem.completedAt \in Int /\ run.phaseStart \in Int
        /\ run.lease.min \in Int /\ run.lease.max \in Int
    BY <1>1, <1>4, <1>5, TimesAreNumbers DEF Shape, IInv, RunOf
  <2> QED BY <1>1, <1>3, <2>1 DEF LeaseMaximum
<1> QED BY <1>7, <1>8, <1>9 DEF Earned

\* A canary is reported complete only when each of its tests was run to a passing end
\* by a child of its own, with an output that is still there, and the lease was kept.
THEOREM CompletionIsEarnedHolds == Spec => CompletionIsEarned
<1> DEFINE Says ==
        /\ \A node \in Nodes :
            \E i \in DOMAIN launches :
                /\ launches[i].node = node /\ launches[i].exited /\ launches[i].exit = 0
                /\ launches[i].passes = PartitionOf(node).repeat
                /\ \E number \in 1..2 : <<node, number>> \in DOMAIN evidence
        /\ \E attempt \in AttemptsOf(disk) : attempt.outcome = "transient_infrastructure"
        /\ disk.completedAt - run.phaseStart \in run.lease.min..run.lease.max
<1>1. ASSUME IInv, EInv, [Next]_vars, pc = "reconcile", pc' = "publish"
      PROVE  Says
  <2>1. Reconcile
    BY <1>1 DEF vars, runner, Next, RunnerStep, Start, Create, Resume, HardWallReached,
       RecordTransient, Reserve, Reserves, Limit, Check, Launch, RecordRunning, Collect,
       Complete, Reap, Close, Publish, ReuseImport, Promoted, LaunchFails, Heartbeat, Crash,
       Pass, Disturb, ChildExits
  <2> QED BY <1>1, <2>1, ReconciledEarned
<1>2. IInv /\ EInv /\ [Next]_vars => [pc = "reconcile" /\ pc' = "publish" => Says]_vars
  BY <1>1
<1> QED BY <1>2, Kept, PTL DEF Spec, CompletionIsEarned

-----------------------------------------------------------------------------
(* What is planned.                                                        *)

\* The plan of an input of its types keeps its promise.
LEMMA PlanCovers ==
    ASSUME NEW input, PlanInput(input), NEW plan, plan = BuildSoakPlan(input), plan.allowed,
           NEW extra \in Extra(input, plan),
           NEW cost, cost = [i \in DOMAIN plan.partitions |->
                                (extra[i] + 1) * plan.partitions[i].estimate]
    PROVE  /\ ~LimitsRetries(input) \/ SumFunction(extra) <= input.retry.total
                => SumFunction(cost) <= input.lease.max
           /\ \A i \in DOMAIN plan.partitions :
                    cost[i] <= Least(input.totalNode, plan.partitions[i].nodeBudget)
<1>1. PICK partitions : partitions = PlannedPartitions(input)
  OBVIOUS
<1>2. PICK n \in Nat : /\ Len(partitions) = n /\ DOMAIN partitions = 1..n
                       /\ \A i \in 1..n : Sound(partitions[i])
  BY <1>1, PlannedIsSound
<1>3. plan = PlanOver(input, partitions)
  BY <1>1 DEF BuildSoakPlan
<1>4. /\ EnvelopeConflicts(input) = {}
      /\ CostConflicts(input, partitions, Costs(input, partitions)) = {}
  BY <1>3, AllowedIsQuiet
<1>5. plan.partitions = [i \in 1..n |->
            [partitions[i] EXCEPT !.retryAllowance = WithRetry(input, partitions[i])]]
  BY <1>2, <1>3 DEF PlanOver, Plan
<1>6. DOMAIN plan.partitions = 1..n
  BY <1>5
<1>7. \A i \in 1..n : /\ plan.partitions[i].estimate = partitions[i].estimate
                      /\ plan.partitions[i].nodeBudget = partitions[i].nodeBudget
  <2>1. ASSUME NEW i \in 1..n
        PROVE  /\ plan.partitions[i].estimate = partitions[i].estimate
               /\ plan.partitions[i].nodeBudget = partitions[i].nodeBudget
    <3>1. PICK partition : partition = partitions[i]
      OBVIOUS
    <3>2. PICK ms : ms = WithRetry(input, partition)
      OBVIOUS
    <3>3. plan.partitions[i] = [partition EXCEPT !.retryAllowance = ms]
      BY <1>5, <3>1, <3>2
    <3>4. Sound(partition)
      BY <1>2, <3>1
    <3>5. /\ [partition EXCEPT !.retryAllowance = ms].estimate = partition.estimate
          /\ [partition EXCEPT !.retryAllowance = ms].nodeBudget = partition.nodeBudget
      BY ONLY <3>4 DEF Sound
    <3> QED BY <3>1, <3>3, <3>5
  <2> QED BY <2>1
<1>8. PICK slots \in Nat : slots = RetrySlots(input)
  BY <1>4, QuietRetry
<1>9. DOMAIN extra = 1..n /\ \A i \in 1..n : extra[i] \in Nat /\ extra[i] <= RetrySlots(input)
  BY <1>6, <1>8 DEF Extra
<1>10. /\ DOMAIN cost = 1..n
       /\ \A i \in 1..n : cost[i] = (extra[i] + 1) * partitions[i].estimate
  BY <1>6, <1>7
<1>11. CostsFit(input, partitions, n, extra, cost)
  BY <1>2, <1>4, <1>9, <1>10, CostsCovered
<1>12. input.lease.max \in Int /\ input.totalNode \in Int
       /\ \A i \in 1..n : partitions[i].nodeBudget \in Int
  BY <1>2 DEF PlanInput, Sound
<1>13. SumFunctionOnSet(cost, 1..n) \in Int
  <2>1. IsFiniteSet(1..n)
    BY FS_Interval
  <2>2. \A i \in 1..n : cost[i] \in Int
    BY <1>11 DEF CostsFit
  <2> QED BY <2>1, <2>2, SumInt
<1>14. SumFunction(extra) = SumFunctionOnSet(extra, 1..n)
       /\ SumFunction(cost) = SumFunctionOnSet(cost, 1..n)
  BY <1>9, <1>10 DEF SumFunction
<1>15. ~LimitsRetries(input) \/ SumFunction(extra) <= input.retry.total
            => SumFunction(cost) <= input.lease.max
  BY <1>11, <1>12, <1>13, <1>14 DEF CostsFit
<1>16. ASSUME NEW i \in 1..n
       PROVE  cost[i] <= Least(input.totalNode, plan.partitions[i].nodeBudget)
  BY <1>7, <1>11, <1>12 DEF CostsFit, Least
<1> QED BY <1>6, <1>15, <1>16

\* Every plan that may be activated covers its worst case: BuildSoakPlan's budget, spent
\* on the costliest partitions first, is enough wherever the retries fall.
THEOREM PlanCoversWorstCaseHolds == Spec => []PlanCoversWorstCase
<1>1. ASSUME IInv PROVE PlanCoversWorstCase
  <2>1. PICK input : input = Requests[asked].input
    OBVIOUS
  <2>2. PICK plan : plan = BuildSoakPlan(input)
    OBVIOUS
  <2>3. PlanInput(input)
    BY <1>1, <2>1, RequestsAssumption DEF IInv
  <2>4. SUFFICES ASSUME plan.allowed
                 PROVE
            /\ \A i \in DOMAIN input.history :
                IsRank95(input.history[i].samples, Estimate(input, input.history[i].test))
            /\ \A extra \in Extra(input, plan) :
                LET cost == [i \in DOMAIN plan.partitions |->
                                (extra[i] + 1) * plan.partitions[i].estimate]
                IN  /\ ~LimitsRetries(input) \/ SumFunction(extra) <= input.retry.total
                            => SumFunction(cost) <= input.lease.max
                    /\ \A i \in DOMAIN plan.partitions :
                        cost[i] <= Least(input.totalNode, plan.partitions[i].nodeBudget)
    BY <2>1, <2>2 DEF PlanCoversWorstCase
  <2>5. ASSUME NEW i \in DOMAIN input.history
        PROVE  IsRank95(input.history[i].samples, Estimate(input, input.history[i].test))
    <3>1. HistoryConflicts(input) = {}
      BY <2>2, <2>4, AllowedIsQuiet DEF BuildSoakPlan
    <3>2. PICK samples : samples = input.history[i].samples
      OBVIOUS
    <3>3. /\ samples \in Seq(Int) /\ SampleConflicts(samples) = {}
          /\ Estimate(input, input.history[i].test) = NearestRank95(samples)
      BY <2>3, <3>1, <3>2, QuietEstimate
    <3>4. IsRank95(samples, NearestRank95(samples))
      BY <3>3, UsableEstimate DEF IsRank95, KeptBy, Within
    <3> QED BY <3>2, <3>3, <3>4
  <2>6. ASSUME NEW extra \in Extra(input, plan), NEW cost,
               cost = [i \in DOMAIN plan.partitions |->
                            (extra[i] + 1) * plan.partitions[i].estimate]
        PROVE  /\ ~LimitsRetries(input) \/ SumFunction(extra) <= input.retry.total
                    => SumFunction(cost) <= input.lease.max
               /\ \A i \in DOMAIN plan.partitions :
                    cost[i] <= Least(input.totalNode, plan.partitions[i].nodeBudget)
    BY <2>2, <2>3, <2>4, <2>6, PlanCovers
  <2> QED BY <2>5, <2>6
<1> QED BY <1>1, Kept, PTL DEF Spec

-----------------------------------------------------------------------------
(* What is admitted.                                                       *)

\* The documents of a request, as RequestsAssumption has them.
Typed(documents) ==
    LET activation == documents.activation
        input == documents.input
    IN  /\ activation = [field \in ManifestFields |-> activation[field]]
        /\ \A flag \in ManifestFlags : activation[flag] \in BOOLEAN
        /\ activation.partitions \in Seq(Range(activation.partitions))
        /\ documents.plan.partitions \in Seq(Range(documents.plan.partitions))
        /\ documents.authority.local \in BOOLEAN
        /\ {input.boundBefore, input.classifiedFirst} \subseteq BOOLEAN

LEMMA QuietPlan ==
    ASSUME NEW documents, PlanConflicts(documents) = {}
    PROVE  /\ BuildSoakPlan(documents.input) = documents.plan
           /\ documents.plan.allowed
           /\ documents.plan.input = documents.activation.planInput
           /\ documents.plan.policy = documents.activation.policy
           /\ documents.fixture = documents.activation.fixture
<1> DEFINE rebuilt == BuildSoakPlan(documents.input)
<1>1. /\ When(rebuilt # documents.plan, "planner_readback_mismatch") = {}
      /\ When(~documents.plan.allowed, "planner_activation_not_allowed") = {}
      /\ When(documents.plan.input # documents.activation.planInput,
                    "plan_input_digest_mismatch") = {}
      /\ When(documents.plan.policy # documents.activation.policy
              \/ documents.input.policy # documents.activation.policy,
                    "policy_digest_mismatch") = {}
      /\ When(documents.fixture # documents.activation.fixture,
                    "plan_fixture_digest_mismatch") = {}
  BY DEF PlanConflicts
<1> QED BY <1>1 DEF When

LEMMA QuietBinding ==
    ASSUME NEW documents, BindingConflicts(documents) = {}, Typed(documents)
    PROVE  LET activation == documents.activation
               input == documents.input
           IN  /\ activation.signed = TRUE /\ activation.canary = documents.authority.canary
               /\ activation.mission = input.mission /\ activation.planId = input.planId
               /\ activation.state = "activated" /\ activation.head = input.head
               /\ activation.snapshot = documents.snapshot /\ activation.profile = input.profile
               /\ activation.catalog = documents.catalog
               /\ activation.authority = documents.authority
               /\ activation.eligible = TRUE /\ activation.authorized = TRUE
               /\ activation.boundBefore = TRUE /\ activation.classifiedFirst = TRUE
               /\ activation.phaseStart = documents.authority.created
               /\ activation.safe = documents.authority.safe
<1> DEFINE activation == documents.activation
           input == documents.input
<1>1. /\ When(~activation.signed, "activation_manifest_digest_mismatch") = {}
      /\ When(activation.canary # documents.authority.canary
                    \/ activation.mission # input.mission \/ activation.planId # input.planId
                    \/ activation.state # "activated", "activation_identity_mismatch") = {}
      /\ When(activation.head # input.head, "source_head_mismatch") = {}
      /\ When(activation.snapshot # documents.snapshot,
                    "activation_repository_binding_mismatch") = {}
      /\ When(activation.profile # input.profile, "execution_profile_digest_mismatch") = {}
      /\ When(activation.catalog # documents.catalog, "command_catalog_digest_mismatch") = {}
      /\ When(activation.authority # documents.authority,
                    "authority_record_digest_mismatch") = {}
      /\ When(~(activation.eligible /\ activation.authorized /\ activation.boundBefore
                        /\ activation.classifiedFirst), "activation_predates_binding") = {}
      /\ When(activation.phaseStart # documents.authority.created, "phase_clock_reset") = {}
      /\ When(~activation.safe \/ activation.safe # documents.authority.safe,
                    "unsafe_authority_boundary") = {}
  BY DEF BindingConflicts
<1>2. \A flag \in ManifestFlags : activation[flag] \in BOOLEAN
  BY DEF Typed
<1>3. /\ activation.signed \in BOOLEAN /\ activation.eligible \in BOOLEAN
      /\ activation.authorized \in BOOLEAN /\ activation.boundBefore \in BOOLEAN
      /\ activation.classifiedFirst \in BOOLEAN
  BY <1>2 DEF ManifestFlags
<1> QED BY <1>1, <1>3 DEF When

LEMMA QuietManifest ==
    ASSUME NEW documents, ManifestConflicts(documents) = {}
    PROVE  /\ BindingConflicts(documents) = {} /\ PartitionsPlanned(documents)
           /\ Bijective(documents) /\ RetryBound(documents.activation)
<1>1. /\ BindingConflicts(documents) = {}
      /\ When(~PartitionsPlanned(documents), "activation_partition_mismatch") = {}
      /\ When(~Bijective(documents), "activation_catalog_bijection_mismatch") = {}
      /\ When(~RetryBound(documents.activation), "controlled_retry_binding_invalid") = {}
  BY DEF ManifestConflicts
<1> QED BY <1>1, WhenEmpty

LEMMA QuietAuthority ==
    ASSUME NEW documents, AuthorityConflicts(documents) = {},
           documents.authority.local \in BOOLEAN
    PROVE  documents.authority.local = TRUE
<1> DEFINE authority == documents.authority
<1>1. When(authority.nodes # PlannedNodes \/ authority.attempts # MaximumAttempts
                    \/ authority.launches # PlannedNodes \/ authority.scales # 1
                    \/ authority.retries # 1 \/ ~authority.local, "authority_scope_broadened") = {}
  BY DEF AuthorityConflicts
<1> QED BY <1>1 DEF When

\* The test a partition runs is an entry of the catalog with its identifier.
LEMMA CatalogEntry ==
    ASSUME NEW documents, NEW test,
           CatalogEntries(documents.input) = DOMAIN documents.input.tests,
           TestsOf(documents, test) # {}
    PROVE  \E i \in TestsOf(documents, test) :
                Catalog(documents.input)[test] = documents.input.tests[i]
<1> DEFINE tests == documents.input.tests
           entries == CatalogEntries(documents.input)
           i == CHOOSE j \in entries : tests[j].id = test
<1>1. \E j \in entries : tests[j].id = test
  BY DEF TestsOf
<1>2. i \in entries /\ tests[i].id = test
  BY <1>1
<1>3. test \in {tests[j].id : j \in entries}
  BY <1>1
<1>4. Catalog(documents.input)[test] = tests[i]
  BY <1>3 DEF Catalog
<1> HIDE DEF i
<1> QED BY <1>2, <1>4 DEF TestsOf

\* A partition that is planned and agrees with its test is the plan's.
LEMMA BoundIsPlanned ==
    ASSUME NEW documents, NEW i, PlannedAs(documents, i),
           CatalogEntries(documents.input) = DOMAIN documents.input.tests,
           NEW bound, bound = documents.activation.partitions[i],
           Agree(documents, bound),
           TestsOf(documents, bound.test) # {}, CommandsOf(documents, bound.test) # {}
    PROVE  bound = Binding(documents.input, documents.plan.partitions[i])
<1> DEFINE planned == documents.plan.partitions[i]
           binding == Binding(documents.input, planned)
<1>1. bound = [binding EXCEPT !.dimension = bound.dimension]
  BY DEF PlannedAs
<1>2. binding = [binding EXCEPT !.dimension = binding.dimension]
  BY DEF Binding
<1>3. bound.test = planned.tests[1]
  BY <1>1 DEF Binding
<1>4. PICK j \in TestsOf(documents, bound.test) :
        Catalog(documents.input)[bound.test] = documents.input.tests[j]
  BY CatalogEntry
<1>5. documents.input.tests[j].dimension = bound.dimension
  BY DEF Agree
<1>6. binding.dimension = bound.dimension
  BY <1>3, <1>4, <1>5 DEF Binding
<1> HIDE DEF binding
<1>7. bound = binding
  BY <1>1, <1>2, <1>6
<1> QED BY <1>7 DEF binding

LEMMA PartitionsBound ==
    ASSUME NEW documents, Typed(documents), PartitionsPlanned(documents), Bijective(documents),
           CatalogEntries(documents.input) = DOMAIN documents.input.tests
    PROVE  documents.activation.partitions =
            [i \in DOMAIN documents.plan.partitions |->
                Binding(documents.input, documents.plan.partitions[i])]
<1> DEFINE bindings == documents.activation.partitions
           planned == documents.plan.partitions
<1>1. bindings \in Seq(Range(bindings)) /\ planned \in Seq(Range(planned))
  BY DEF Typed
<1>2. Len(bindings) = Len(planned) /\ \A i \in DOMAIN planned : PlannedAs(documents, i)
  BY DEF PartitionsPlanned
<1>3. DOMAIN bindings = DOMAIN planned /\ bindings = [i \in DOMAIN bindings |-> bindings[i]]
  BY <1>1, <1>2
<1>4. ASSUME NEW i \in DOMAIN planned
      PROVE  bindings[i] = Binding(documents.input, planned[i])
  <2>1. /\ Cardinality(TestsOf(documents, bindings[i].test)) = 1
        /\ Cardinality(CommandsOf(documents, bindings[i].test)) = 1
        /\ Agree(documents, bindings[i])
    BY <1>3 DEF Bijective
  <2>2. TestsOf(documents, bindings[i].test) # {} /\ CommandsOf(documents, bindings[i].test) # {}
    BY <2>1, FS_EmptySet
  <2> QED BY <1>2, <2>1, <2>2, BoundIsPlanned
<1> QED BY <1>3, <1>4

LEMMA AdmittedIsBuilt ==
    ASSUME NEW documents, Typed(documents), DocumentConflicts(documents) = {}
    PROVE  documents.activation =
            BuildActivation(documents, documents.authority.created,
                            documents.activation.retryNode)
<1> DEFINE activation == documents.activation
           input == documents.input
           plan == documents.plan
           built == BuildActivation(documents, documents.authority.created, activation.retryNode)
<1>1. /\ PlanConflicts(documents) = {} /\ AuthorityConflicts(documents) = {}
      /\ ManifestConflicts(documents) = {}
  BY DEF DocumentConflicts
<1>2. /\ BuildSoakPlan(input) = plan /\ plan.allowed
      /\ plan.input = activation.planInput /\ plan.policy = activation.policy
      /\ documents.fixture = activation.fixture
  BY <1>1, QuietPlan
<1>3. PlanOver(input, PlannedPartitions(input)).allowed
  BY <1>2 DEF BuildSoakPlan
<1>4. EnvelopeConflicts(input) = {} /\ ClassificationConflicts(input) = {}
  BY <1>3, AllowedIsQuiet
<1>5. /\ input.boundBefore = TRUE /\ input.classifiedFirst = TRUE
      /\ CatalogEntries(input) = DOMAIN input.tests
  BY <1>4, QuietEnvelope, QuietClassification DEF Typed
<1>6. plan.allowed = TRUE
  <2> DEFINE costs == Costs(input, PlannedPartitions(input))
  <2>1. \A partitions, codes : Plan(input, partitions, costs, codes).allowed = (codes = {})
    BY DEF Plan
  <2>2. PlanOver(input, PlannedPartitions(input)).allowed \in BOOLEAN
    BY <2>1 DEF PlanOver
  <2> QED BY <1>2, <2>2 DEF BuildSoakPlan
<1>7. documents.authority.local = TRUE
  BY <1>1, QuietAuthority DEF Typed
<1>8. /\ BindingConflicts(documents) = {} /\ PartitionsPlanned(documents)
      /\ Bijective(documents) /\ RetryBound(activation)
  BY <1>1, QuietManifest
<1>9. activation.partitions = [i \in DOMAIN plan.partitions |-> Binding(input, plan.partitions[i])]
  BY <1>5, <1>8, PartitionsBound
<1>10. /\ activation.signed = TRUE /\ activation.canary = documents.authority.canary
       /\ activation.mission = input.mission /\ activation.planId = input.planId
       /\ activation.state = "activated" /\ activation.head = input.head
       /\ activation.snapshot = documents.snapshot /\ activation.profile = input.profile
       /\ activation.catalog = documents.catalog
       /\ activation.authority = documents.authority
       /\ activation.eligible = TRUE /\ activation.authorized = TRUE
       /\ activation.boundBefore = TRUE /\ activation.classifiedFirst = TRUE
       /\ activation.phaseStart = documents.authority.created
       /\ activation.safe = documents.authority.safe
  BY <1>8, QuietBinding
<1>11. activation.retryReason = "transient_infrastructure"
  BY <1>8 DEF RetryBound
<1>12. DOMAIN activation = ManifestFields /\ activation = [f \in DOMAIN activation |-> activation[f]]
  BY DEF Typed
<1>13. DOMAIN built = ManifestFields /\ built = [f \in DOMAIN built |-> built[f]]
  BY DEF BuildActivation, ManifestFields, ManifestFlags
<1>14. ASSUME NEW f \in ManifestFields PROVE activation[f] = built[f]
  <2>1. /\ activation.signed = built.signed /\ activation.eligible = built.eligible
        /\ activation.authorized = built.authorized
        /\ activation.boundBefore = built.boundBefore
        /\ activation.classifiedFirst = built.classifiedFirst
        /\ activation.safe = built.safe
    BY <1>5, <1>6, <1>7, <1>10 DEF BuildActivation
  <2>2. /\ activation.state = built.state /\ activation.canary = built.canary
        /\ activation.mission = built.mission /\ activation.planId = built.planId
        /\ activation.fixture = built.fixture /\ activation.planInput = built.planInput
        /\ activation.policy = built.policy /\ activation.head = built.head
    BY <1>2, <1>10 DEF BuildActivation
  <2>3. /\ activation.snapshot = built.snapshot /\ activation.profile = built.profile
        /\ activation.catalog = built.catalog /\ activation.authority = built.authority
        /\ activation.phaseStart = built.phaseStart
        /\ activation.retryNode = built.retryNode
        /\ activation.retryReason = built.retryReason
        /\ activation.partitions = built.partitions
    BY <1>9, <1>10, <1>11 DEF BuildActivation
  <2> HIDE DEF activation, built
  <2> QED BY <2>1, <2>2, <2>3 DEF ManifestFields, ManifestFlags
<1> HIDE DEF activation, built
<1>15. activation = built
  BY <1>12, <1>13, <1>14
<1> QED BY <1>15 DEF activation, built

\* The manifest of every admitted canary is the one BuildSoakCanaryActivation makes of the
\* other documents: the many comparisons of the validator leave no field unbound.
THEOREM AcceptedIsBuiltHolds == Spec => []AcceptedIsBuilt
<1>1. ASSUME IInv PROVE AcceptedIsBuilt
  <2> SUFFICES ASSUME run.conflicts = {}
               PROVE  Requests[asked].activation =
                        BuildActivation(Requests[asked], Requests[asked].authority.created,
                                        run.retryNode)
    BY DEF AcceptedIsBuilt
  <2>1. PICK documents : documents = Requests[asked]
    OBVIOUS
  <2>2. run.conflicts = DocumentConflicts(documents)
        /\ run.retryNode = documents.activation.retryNode
    BY <1>1, <2>1 DEF IInv, RunOf
  <2>3. Typed(documents)
    BY <1>1, <2>1, RequestsAssumption DEF IInv, Typed, PlanInput
  <2> QED BY <2>1, <2>2, <2>3, AdmittedIsBuilt
<1> QED BY <1>1, Kept, PTL

-----------------------------------------------------------------------------
(* What is published.                                                      *)

LEMMA MinutesGrow ==
    ASSUME NEW a \in Nat, NEW b \in Nat, a <= b
    PROVE  Minutes(a) \in Nat /\ Minutes(b) \in Nat /\ Minutes(a) <= Minutes(b)
<1> DEFINE x == a + Minute - 1
           y == b + Minute - 1
<1>1. x \in Nat /\ y \in Nat /\ x <= y /\ Minute \in Nat /\ Minute > 0
  BY MinuteAssumption
<1> HIDE DEF x, y
<1>2. \A n \in Nat : n \div Minute \in Nat
  BY <1>1
<1>3. x \div Minute <= y \div Minute
  BY <1>1
<1> QED BY <1>1, <1>2, <1>3 DEF Minutes, x, y

\* The lease was kept by the checkpoint c.
KeepsLease(c) ==
    /\ {run.lease.min, run.lease.target, run.lease.max} \subseteq Int
    /\ run.lease.min > 0 /\ run.lease.min <= run.lease.target
    /\ run.lease.target <= run.lease.max
    /\ c.completedAt - run.phaseStart \in run.lease.min..run.lease.max

LEMMA LeaseInMinutes ==
    ASSUME NEW c, KeepsLease(c)
    PROVE  LET minutes == LeaseMinutes(c)
           IN  /\ {minutes.minimum, minutes.target, minutes.maximum, minutes.elapsed} \subseteq Int
               /\ 1 <= minutes.minimum /\ minutes.minimum <= minutes.target
               /\ minutes.target <= minutes.maximum
               /\ minutes.minimum <= minutes.elapsed /\ minutes.elapsed <= minutes.maximum
               /\ minutes.status = "within_window"
<1> DEFINE phase == c.completedAt - run.phaseStart
           a == Minutes(run.lease.min)
           b == Minutes(run.lease.target)
           d == Minutes(run.lease.max)
           e == Minutes(phase)
           minimum == Most(a, 1)
           target == Most(b, minimum)
           maximum == Most(d, target)
           elapsed == Most(e, minimum)
<1>1. /\ run.lease.min \in Nat /\ run.lease.target \in Nat /\ run.lease.max \in Nat
      /\ phase \in Nat /\ run.lease.target <= run.lease.max /\ phase <= run.lease.max
  BY DEF KeepsLease
<1>2. /\ a \in Nat /\ b \in Nat /\ d \in Nat /\ e \in Nat
      /\ b <= d /\ e <= d
  <2> HIDE DEF phase
  <2> QED BY <1>1, MinutesGrow
<1> HIDE DEF a, b, d, e
<1>3. /\ {minimum, target, maximum, elapsed} \subseteq Int
      /\ 1 <= minimum /\ minimum <= target /\ target <= maximum
      /\ minimum <= elapsed /\ elapsed <= maximum
  BY <1>2 DEF Most
<1>4. LeaseMinutes(c) = [minimum |-> minimum, target |-> target, maximum |-> maximum,
                         elapsed |-> elapsed, status |-> "within_window"]
  BY DEF LeaseMinutes, a, b, d, e
<1> HIDE DEF minimum, target, maximum, elapsed
<1> QED BY <1>3, <1>4

\* The documents of a completion, and what an index of them carries.
Artifact(c) == [role \in Range(Artifacts) |-> Document(role, c)]

LEMMA ThreeRoles ==
    /\ DOMAIN Artifacts = 1..3 /\ Len(Artifacts) = 3
    /\ Artifacts[1] = "lease" /\ Artifacts[2] = "root" /\ Artifacts[3] = "terminal"
    /\ Range(Artifacts) = {"lease", "root", "terminal"}
<1>1. /\ DOMAIN Artifacts = 1..3 /\ Len(Artifacts) = 3
      /\ Artifacts[1] = "lease" /\ Artifacts[2] = "root" /\ Artifacts[3] = "terminal"
  BY DEF Artifacts
<1>2. Range(Artifacts) = {Artifacts[i] : i \in 1..3}
  BY <1>1 DEF Range
<1>3. \A i : i \in 1..3 <=> i \in {1, 2, 3}
  OBVIOUS
<1> QED BY <1>1, <1>2, <1>3

LEMMA LeaseDocument ==
    ASSUME NEW c
    PROVE  Document("lease", c) =
            [mission |-> run.mission, completed |-> 0, ready |-> 0, blocked |-> 0, failed |-> 0,
             minimumNodes |-> PlannedNodes, minimumSet |-> TRUE,
             minimum |-> LeaseMinutes(c).minimum, target |-> LeaseMinutes(c).target,
             maximum |-> LeaseMinutes(c).maximum, elapsed |-> 0, leaseStatus |-> "",
             final |-> FALSE, next |-> "", safe |-> TRUE]
<1> DEFINE minutes == LeaseMinutes(c)
<1> HIDE DEF minutes
<1>1. Document("lease", c) =
        [[T!NoObservation EXCEPT !.mission = run.mission]
            EXCEPT !.minimumNodes = PlannedNodes, !.minimumSet = TRUE,
                   !.minimum = minutes.minimum, !.target = minutes.target,
                   !.maximum = minutes.maximum]
  BY DEF Document, minutes
<1> QED BY <1>1 DEF T!NoObservation, minutes

LEMMA RootDocument ==
    ASSUME NEW c
    PROVE  Document("root", c) =
            [mission |-> run.mission, completed |-> 0, ready |-> PlannedNodes, blocked |-> 0,
             failed |-> 0, minimumNodes |-> 0, minimumSet |-> FALSE, minimum |-> 0,
             target |-> 0, maximum |-> 0, elapsed |-> 0, leaseStatus |-> "",
             final |-> FALSE, next |-> "complete", safe |-> TRUE]
<1>1. Document("root", c) =
        [[T!NoObservation EXCEPT !.mission = run.mission]
            EXCEPT !.ready = PlannedNodes, !.next = "complete"]
  BY DEF Document
<1> QED BY <1>1 DEF T!NoObservation

LEMMA TerminalDocument ==
    ASSUME NEW c
    PROVE  Document("terminal", c) =
            [mission |-> run.mission, completed |-> Cardinality(c.completed), ready |-> 0,
             blocked |-> 0, failed |-> 0, minimumNodes |-> 0, minimumSet |-> FALSE,
             minimum |-> 0, target |-> 0, maximum |-> 0,
             elapsed |-> LeaseMinutes(c).elapsed, leaseStatus |-> "within_window",
             final |-> TRUE, next |-> "complete", safe |-> TRUE]
<1> DEFINE minutes == LeaseMinutes(c)
           count == Cardinality(c.completed)
<1> HIDE DEF minutes, count
<1>1. Document("terminal", c) =
        [[T!NoObservation EXCEPT !.mission = run.mission]
            EXCEPT !.completed = count, !.elapsed = minutes.elapsed,
                   !.leaseStatus = "within_window", !.final = TRUE, !.next = "complete"]
  BY DEF Document, minutes, count
<1> QED BY <1>1 DEF T!NoObservation, minutes, count

\* What the documents of a completion say of themselves and of the nodes.
LEMMA DocumentFields ==
    ASSUME NEW c
    PROVE  /\ Document("lease", c).mission = run.mission /\ Document("lease", c).safe = TRUE
           /\ Document("root", c).mission = run.mission /\ Document("root", c).safe = TRUE
           /\ Document("root", c).completed = 0 /\ Document("root", c).ready = PlannedNodes
           /\ Document("root", c).blocked = 0 /\ Document("root", c).failed = 0
           /\ Document("terminal", c).mission = run.mission
           /\ Document("terminal", c).safe = TRUE
           /\ Document("terminal", c).completed = Cardinality(c.completed)
           /\ Document("terminal", c).ready = 0 /\ Document("terminal", c).blocked = 0
           /\ Document("terminal", c).failed = 0
<1> DEFINE lease == Document("lease", c)
           root == Document("root", c)
           terminal == Document("terminal", c)
           minutes == LeaseMinutes(c)
           count == Cardinality(c.completed)
<1>1. lease = [mission |-> run.mission, completed |-> 0, ready |-> 0, blocked |-> 0,
               failed |-> 0, minimumNodes |-> PlannedNodes, minimumSet |-> TRUE,
               minimum |-> minutes.minimum, target |-> minutes.target,
               maximum |-> minutes.maximum, elapsed |-> 0, leaseStatus |-> "",
               final |-> FALSE, next |-> "", safe |-> TRUE]
  BY LeaseDocument
<1>2. root = [mission |-> run.mission, completed |-> 0, ready |-> PlannedNodes, blocked |-> 0,
              failed |-> 0, minimumNodes |-> 0, minimumSet |-> FALSE, minimum |-> 0,
              target |-> 0, maximum |-> 0, elapsed |-> 0, leaseStatus |-> "",
              final |-> FALSE, next |-> "complete", safe |-> TRUE]
  BY RootDocument
<1>3. terminal = [mission |-> run.mission, completed |-> count, ready |-> 0, blocked |-> 0,
                  failed |-> 0, minimumNodes |-> 0, minimumSet |-> FALSE, minimum |-> 0,
                  target |-> 0, maximum |-> 0, elapsed |-> minutes.elapsed,
                  leaseStatus |-> "within_window", final |-> TRUE, next |-> "complete",
                  safe |-> TRUE]
  BY TerminalDocument
<1> HIDE DEF lease, root, terminal, minutes, count
<1>4. lease.mission = run.mission /\ lease.safe = TRUE
  BY <1>1
<1>5. /\ root.mission = run.mission /\ root.safe = TRUE /\ root.completed = 0
      /\ root.ready = PlannedNodes /\ root.blocked = 0 /\ root.failed = 0
  BY <1>2
<1>6. /\ terminal.mission = run.mission /\ terminal.safe = TRUE /\ terminal.completed = count
      /\ terminal.ready = 0 /\ terminal.blocked = 0 /\ terminal.failed = 0
  BY <1>3
<1> QED BY <1>4, <1>5, <1>6 DEF lease, root, terminal, count

\* A checkpoint whose nodes are all completed within the lease, of a mission that has a name.
Succeeds(c) ==
    /\ run.mission # 0 /\ KeepsLease(c) /\ Cardinality(c.completed) = PlannedNodes

LEMMA Concluded ==
    ASSUME NEW c, Succeeds(c)
    PROVE  T!Recompute(Artifact(c)) = CanaryIndex(c).conclusions
<1> DEFINE docs == Artifact(c)
           minutes == LeaseMinutes(c)
           lease == Document("lease", c)
           root == Document("root", c)
           terminal == Document("terminal", c)
<1>1. /\ DOMAIN docs = {"lease", "root", "terminal"}
      /\ docs["lease"] = lease /\ docs["root"] = root /\ docs["terminal"] = terminal
  BY ThreeRoles DEF Artifact
<1>2. /\ {minutes.minimum, minutes.target, minutes.maximum, minutes.elapsed} \subseteq Int
      /\ 1 <= minutes.minimum /\ minutes.minimum <= minutes.target
      /\ minutes.target <= minutes.maximum
      /\ minutes.minimum <= minutes.elapsed /\ minutes.elapsed <= minutes.maximum
      /\ minutes.status = "within_window"
  BY LeaseInMinutes DEF Succeeds
<1>3. /\ lease.minimumNodes = PlannedNodes /\ lease.minimumSet = TRUE
      /\ lease.minimum = minutes.minimum /\ lease.target = minutes.target
      /\ lease.maximum = minutes.maximum
  <2>1. lease = [mission |-> run.mission, completed |-> 0, ready |-> 0, blocked |-> 0,
                 failed |-> 0, minimumNodes |-> PlannedNodes, minimumSet |-> TRUE,
                 minimum |-> minutes.minimum, target |-> minutes.target,
                 maximum |-> minutes.maximum, elapsed |-> 0, leaseStatus |-> "",
                 final |-> FALSE, next |-> "", safe |-> TRUE]
    BY LeaseDocument
  <2> HIDE DEF lease, minutes
  <2> QED BY <2>1
<1>4. /\ terminal.completed = PlannedNodes /\ terminal.ready = 0 /\ terminal.blocked = 0
      /\ terminal.failed = 0 /\ terminal.elapsed = minutes.elapsed
      /\ terminal.leaseStatus = "within_window" /\ terminal.final = TRUE
      /\ terminal.next = "complete" /\ terminal.safe = TRUE
  <2>1. terminal = [mission |-> run.mission, completed |-> Cardinality(c.completed),
                    ready |-> 0, blocked |-> 0, failed |-> 0, minimumNodes |-> 0,
                    minimumSet |-> FALSE, minimum |-> 0, target |-> 0, maximum |-> 0,
                    elapsed |-> minutes.elapsed, leaseStatus |-> "within_window",
                    final |-> TRUE, next |-> "complete", safe |-> TRUE]
    BY TerminalDocument
  <2>2. Cardinality(c.completed) = PlannedNodes
    BY DEF Succeeds
  <2> HIDE DEF terminal, minutes
  <2> QED BY <2>1, <2>2
<1>5. PlannedNodes \in Nat /\ PlannedNodes > 0
  BY ActivationConstants
<1> HIDE DEF docs, minutes, lease, root, terminal
<1>6. /\ T!Observation(docs, "lease") = lease /\ T!Observation(docs, "root") = root
      /\ T!Observation(docs, "terminal") = terminal
      /\ T!Observation(docs, "duration") = T!NoObservation
  BY <1>1 DEF T!Observation
<1>7. T!MinimumFrom(docs) = lease
  BY <1>3, <1>6 DEF T!MinimumFrom
<1>8. T!Window(docs) = [set |-> TRUE, minimum |-> minutes.minimum, target |-> minutes.target,
                       maximum |-> minutes.maximum]
  <2>1. T!Window(docs) = [set |-> lease.minimumSet, minimum |-> lease.minimum,
                          target |-> T!FirstPositive(lease.target, root.target),
                          maximum |-> T!FirstPositive(lease.maximum, root.maximum)]
    BY <1>6, <1>7 DEF T!Window
  <2>2. minutes.target > 0 /\ minutes.maximum > 0
    BY <1>2
  <2>3. /\ T!FirstPositive(lease.target, root.target) = minutes.target
        /\ T!FirstPositive(lease.maximum, root.maximum) = minutes.maximum
    BY <1>3, <2>2 DEF T!FirstPositive
  <2> QED BY <1>3, <2>1, <2>3
<1>9. T!MinimumNodes(docs) = PlannedNodes
  BY <1>3, <1>5, <1>6 DEF T!MinimumNodes, T!FirstPositive
<1> DEFINE window == T!Window(docs)
<1>10. T!LeaseStatus(window, terminal.elapsed) = "within_window"
  BY <1>2, <1>4, <1>8 DEF T!LeaseStatus
<1>11. T!TerminalConflicts(docs, window, "within_window") = {}
  <2> DEFINE t == docs["terminal"]
             d == T!Observation(docs, "duration")
             unfinished == t.ready > 0 \/ t.blocked > 0
  <2>1. window.target > 0 /\ window.target \in Int
    BY <1>2, <1>8
  <2>2. /\ d.completed = 0 /\ d.elapsed = 0
    <3>1. T!NoObservation.completed = 0 /\ T!NoObservation.elapsed = 0
      BY DEF T!NoObservation
    <3> QED BY <1>6, <3>1
  <2>3. /\ t.ready = 0 /\ t.blocked = 0 /\ t.failed = 0 /\ t.leaseStatus = "within_window"
        /\ T!NoAction(t.next)
    BY <1>1, <1>4 DEF T!NoAction, terminal
  <2>4. ~ unfinished /\ ~ (t.failed > 0)
    BY <2>3
  <2>5. T!TerminalConflicts(docs, window, "within_window") =
         T!Conflict("within_window" = "invalid", "lease_window_invalid")
         \union T!Conflict("within_window" = "minimum_not_met", "lease_minimum_not_met")
         \union T!Conflict("within_window" = "maximum_exceeded", "lease_maximum_exceeded")
         \union T!Conflict(window.target <= 0, "lease_target_missing")
         \union T!Conflict(t.leaseStatus \notin {"", "within_window"},
                          "terminal_lease_status_mismatch")
         \union T!Conflict(unfinished, "unfinished_work_final_response")
         \union T!Conflict(t.failed > 0, "failed_work_final_response")
         \union T!Conflict(t.final /\ (unfinished \/ t.failed > 0
                                      \/ "within_window" # "within_window"),
                          "terminal_final_response_allowed_despite_violation")
         \union T!Conflict(t.final /\ ~T!NoAction(t.next),
                          "terminal_exact_next_action_requires_execution")
         \union T!Conflict(\/ d.completed \notin {0, t.completed}
                          \/ d.elapsed \notin {0, t.elapsed}, "duration_state_stale")
    BY DEF T!TerminalConflicts
  <2> HIDE DEF t, d, unfinished, window
  <2>6. /\ T!Conflict("within_window" = "invalid", "lease_window_invalid") = {}
        /\ T!Conflict("within_window" = "minimum_not_met", "lease_minimum_not_met") = {}
        /\ T!Conflict("within_window" = "maximum_exceeded", "lease_maximum_exceeded") = {}
        /\ T!Conflict(window.target <= 0, "lease_target_missing") = {}
        /\ T!Conflict(t.leaseStatus \notin {"", "within_window"},
                      "terminal_lease_status_mismatch") = {}
    BY <2>1, <2>3 DEF T!Conflict
  <2>7. /\ T!Conflict(unfinished, "unfinished_work_final_response") = {}
        /\ T!Conflict(t.failed > 0, "failed_work_final_response") = {}
    BY <2>4 DEF T!Conflict
  <2>8. T!Conflict(t.final /\ (unfinished \/ t.failed > 0 \/ "within_window" # "within_window"),
                   "terminal_final_response_allowed_despite_violation") = {}
    BY <2>4 DEF T!Conflict
  <2>9. /\ T!Conflict(t.final /\ ~T!NoAction(t.next),
                      "terminal_exact_next_action_requires_execution") = {}
        /\ T!Conflict(\/ d.completed \notin {0, t.completed}
                      \/ d.elapsed \notin {0, t.elapsed}, "duration_state_stale") = {}
    BY <2>2, <2>3 DEF T!Conflict
  <2> QED BY <2>5, <2>6, <2>7, <2>8, <2>9
<1>12. T!CountsOf(terminal, PlannedNodes) =
        [total |-> PlannedNodes, minimum |-> PlannedNodes, completed |-> PlannedNodes,
         ready |-> 0, blocked |-> 0, failed |-> 0]
  BY <1>4, <1>5 DEF T!CountsOf, T!Nodes4
<1>13. T!Recompute(docs) = T!WithTerminal(docs)
  BY <1>1 DEF T!Recompute
<1>14. T!WithTerminal(docs) =
        [counts |-> [total |-> PlannedNodes, minimum |-> PlannedNodes,
                     completed |-> PlannedNodes, ready |-> 0, blocked |-> 0, failed |-> 0],
         lease |-> [minimum |-> minutes.minimum, target |-> minutes.target,
                    maximum |-> minutes.maximum, elapsed |-> minutes.elapsed,
                    status |-> "within_window"],
         completion |-> TRUE, agreement |-> TRUE, readiness |-> TRUE, final |-> TRUE,
         codes |-> {}, next |-> "none"]
  <2> DEFINE codes == T!TerminalConflicts(docs, window, "within_window")
             counts == T!CountsOf(terminal, PlannedNodes)
             completion == PlannedNodes > 0 /\ terminal.completed >= PlannedNodes
             readiness == completion /\ codes = {} /\ terminal.safe
  <2>1. T!WithTerminal(docs) =
         [counts |-> counts,
          lease |-> [minimum |-> window.minimum, target |-> window.target,
                     maximum |-> window.maximum, elapsed |-> terminal.elapsed,
                     status |-> "within_window"],
          completion |-> completion, agreement |-> TRUE, readiness |-> readiness,
          final |-> readiness /\ terminal.final, codes |-> codes,
          next |-> IF readiness /\ terminal.final
                   THEN IF T!NoAction(terminal.next) THEN "none" ELSE terminal.next
                   ELSE "review"]
    BY <1>1, <1>9, <1>10 DEF T!WithTerminal
  <2>2. completion = TRUE
    BY <1>4, <1>5
  <2> HIDE DEF completion
  <2>3. readiness = TRUE
    BY <1>4, <1>11, <2>2
  <2> HIDE DEF readiness
  <2>4. (readiness /\ terminal.final) = TRUE
    BY <1>4, <2>3
  <2>5. T!NoAction(terminal.next)
    BY <1>4 DEF T!NoAction
  <2>6. /\ window.minimum = minutes.minimum /\ window.target = minutes.target
        /\ window.maximum = minutes.maximum
    BY <1>8
  <2> HIDE DEF codes, counts, window
  <2>7. codes = {}
    BY <1>11 DEF codes
  <2>8. counts = [total |-> PlannedNodes, minimum |-> PlannedNodes,
                  completed |-> PlannedNodes, ready |-> 0, blocked |-> 0, failed |-> 0]
    BY <1>12 DEF counts
  <2> QED BY <1>4, <2>1, <2>2, <2>3, <2>4, <2>5, <2>6, <2>7, <2>8
<1>15. minutes = [minimum |-> minutes.minimum, target |-> minutes.target,
                 maximum |-> minutes.maximum, elapsed |-> minutes.elapsed,
                 status |-> "within_window"]
  BY DEF minutes, LeaseMinutes
<1>16. CanaryIndex(c).conclusions =
        [counts |-> [total |-> PlannedNodes, minimum |-> PlannedNodes,
                     completed |-> PlannedNodes, ready |-> 0, blocked |-> 0, failed |-> 0],
         lease |-> minutes,
         completion |-> TRUE, agreement |-> TRUE, readiness |-> TRUE, final |-> TRUE,
         codes |-> {}, next |-> "none"]
  <2>1. Cardinality(c.completed) = PlannedNodes
    BY DEF Succeeds
  <2> QED BY <2>1 DEF CanaryIndex, minutes
<1> QED BY <1>13, <1>14, <1>15, <1>16 DEF docs

-----------------------------------------------------------------------------
(* The index of a completion, and what a reader makes of it.              *)

LEMMA IndexShape ==
    ASSUME NEW c
    PROVE  /\ CanaryIndex(c).artifacts = [i \in 1..3 |->
                [role |-> Artifacts[i], state |-> Artifacts[i], sequence |-> i - 1,
                 document |-> Document(Artifacts[i], c)]]
           /\ CanaryIndex(c).lineage = <<<<0, 1>>, <<1, 2>>>>
           /\ CanaryIndex(c).signed = TRUE /\ CanaryIndex(c).safe = TRUE
           /\ CanaryIndex(c).reference = TRUE /\ CanaryIndex(c).mission = run.mission
           /\ CanaryIndex(c).generated = c.completedAt
           /\ T!Documents(CanaryIndex(c)) = Artifact(c)
<1> DEFINE ix == CanaryIndex(c)
           artifacts == ix.artifacts
           roles == {artifacts[i].role : i \in DOMAIN artifacts}
           at(role) == CHOOSE i \in DOMAIN artifacts : artifacts[i].role = role
           made == [i \in 1..3 |->
                [role |-> Artifacts[i], state |-> Artifacts[i], sequence |-> i - 1,
                 document |-> Document(Artifacts[i], c)]]
<1>1. /\ artifacts = made /\ ix.lineage = <<<<0, 1>>, <<1, 2>>>>
      /\ ix.signed = TRUE /\ ix.safe = TRUE /\ ix.reference = TRUE
      /\ ix.mission = run.mission /\ ix.generated = c.completedAt
  <2>1. DOMAIN Artifacts = 1..3
    BY ThreeRoles
  <2> QED BY <2>1 DEF CanaryIndex
<1>2. /\ DOMAIN artifacts = 1..3
      /\ \A i \in 1..3 : artifacts[i].role = Artifacts[i]
      /\ \A i \in 1..3 : artifacts[i].document = Document(Artifacts[i], c)
  BY <1>1
<1>3. T!Documents(ix) = [role \in roles |-> artifacts[at(role)].document]
  BY DEF T!Documents
<1> HIDE DEF artifacts
<1>4. roles = Range(Artifacts)
  BY <1>2, ThreeRoles
<1>5. ASSUME NEW role \in Range(Artifacts)
      PROVE  artifacts[at(role)].document = Document(role, c)
  <2>1. \E i \in DOMAIN artifacts : artifacts[i].role = role
    BY <1>2, ThreeRoles
  <2>2. at(role) \in DOMAIN artifacts /\ artifacts[at(role)].role = role
    BY <2>1
  <2> HIDE DEF at
  <2> QED BY <2>2, <1>2
<1> HIDE DEF at, roles
<1>6. T!Documents(ix) = Artifact(c)
  BY <1>3, <1>4, <1>5 DEF Artifact
<1> QED BY <1>1, <1>6 DEF artifacts

\* The index of a completion is in order.
LEMMA IndexOrdered ==
    ASSUME NEW c
    PROVE  T!Monotonic(CanaryIndex(c))
<1> DEFINE ix == CanaryIndex(c)
           artifacts == ix.artifacts
<1>1. /\ artifacts = [i \in 1..3 |->
                [role |-> Artifacts[i], state |-> Artifacts[i], sequence |-> i - 1,
                 document |-> Document(Artifacts[i], c)]]
      /\ ix.lineage = <<<<0, 1>>, <<1, 2>>>>
  BY IndexShape
<1> HIDE DEF ix, artifacts
<1>2. /\ Len(artifacts) = 3 /\ DOMAIN artifacts = 1..3 /\ artifacts # <<>>
      /\ \A i \in 1..3 : /\ artifacts[i].role = Artifacts[i]
                         /\ artifacts[i].state = Artifacts[i]
                         /\ artifacts[i].sequence = i - 1
  <2>1. artifacts \in Seq({artifacts[i] : i \in 1..3}) /\ DOMAIN artifacts = 1..3
    BY <1>1
  <2> QED BY <1>1, <2>1
<1>3. \A i \in 1..3 : artifacts[i].state =
            IF artifacts[i].role \in T!Roles THEN artifacts[i].role ELSE ""
  <2>1. \A i \in 1..3 : Artifacts[i] \in T!Roles
    BY ThreeRoles DEF T!Roles
  <2> QED BY <1>2, <2>1
<1>4. ASSUME NEW i \in 1..3, NEW j \in 1..(i - 1)
      PROVE  /\ artifacts[j].sequence < artifacts[i].sequence
             /\ artifacts[j].role # artifacts[i].role
  <2>1. j \in 1..3 /\ j < i
    OBVIOUS
  <2>2. artifacts[j].sequence = j - 1 /\ artifacts[i].sequence = i - 1
    BY <2>1, <1>2
  <2>3. Artifacts[j] # Artifacts[i]
    BY <2>1, ThreeRoles
  <2> QED BY <2>1, <2>2, <2>3, <1>2
<1>5. ix.lineage = [i \in 1..(Len(artifacts) - 1) |->
                        <<artifacts[i].sequence, artifacts[i + 1].sequence>>]
  <2>1. \A i \in 1..2 : artifacts[i].sequence = i - 1 /\ artifacts[i + 1].sequence = i
    BY <1>2
  <2>2. [i \in 1..(Len(artifacts) - 1) |->
            <<artifacts[i].sequence, artifacts[i + 1].sequence>>] = [i \in 1..2 |-> <<i - 1, i>>]
    BY <1>2, <2>1
  <2>3. ix.lineage = [i \in 1..2 |-> <<i - 1, i>>]
    BY <1>1
  <2> QED BY <2>2, <2>3
<1>6. \A i \in 1..3 : artifacts[i].sequence >= 0
  BY <1>2
<1>7. Len(artifacts) <= T!MaxIndexArtifacts
  BY <1>2 DEF T!MaxIndexArtifacts
<1>8. T!Monotonic(ix) <=>
        /\ artifacts # <<>> /\ Len(artifacts) <= T!MaxIndexArtifacts
        /\ \A i \in DOMAIN artifacts :
            /\ artifacts[i].state =
                IF artifacts[i].role \in T!Roles THEN artifacts[i].role ELSE ""
            /\ artifacts[i].sequence >= 0
            /\ \A j \in 1..(i - 1) :
                /\ artifacts[j].sequence < artifacts[i].sequence
                /\ artifacts[j].role # artifacts[i].role
        /\ ix.lineage = [i \in 1..(Len(artifacts) - 1) |->
                            <<artifacts[i].sequence, artifacts[i + 1].sequence>>]
  BY DEF T!Monotonic, artifacts
<1> QED BY <1>2, <1>3, <1>4, <1>5, <1>6, <1>7, <1>8 DEF ix

\* Its documents are of one mission, and none of them is unsafe.
LEMMA DocumentsAgree ==
    ASSUME NEW c
    PROVE  /\ T!FilesAgree(CanaryIndex(c), Artifact(c))
           /\ \A role \in Range(Artifacts) :
                Document(role, c).mission = run.mission /\ Document(role, c).safe = TRUE
<1>1. \A role \in Range(Artifacts) :
            Document(role, c).mission = run.mission /\ Document(role, c).safe = TRUE
  BY DocumentFields, ThreeRoles
<1> DEFINE ix == CanaryIndex(c)
           artifacts == ix.artifacts
           files == Artifact(c)
<1>2. /\ artifacts = [i \in 1..3 |->
                [role |-> Artifacts[i], state |-> Artifacts[i], sequence |-> i - 1,
                 document |-> Document(Artifacts[i], c)]]
      /\ ix.mission = run.mission
  BY IndexShape
<1> HIDE DEF artifacts
<1>3. /\ DOMAIN artifacts = 1..3
      /\ \A i \in 1..3 : /\ artifacts[i].role = Artifacts[i]
                         /\ artifacts[i].document = Document(Artifacts[i], c)
  BY <1>2
<1>4. \A i \in 1..3 : Artifacts[i] \in Range(Artifacts)
  BY ThreeRoles
<1>5. /\ DOMAIN files = Range(Artifacts)
      /\ \A role \in Range(Artifacts) : files[role] = Document(role, c)
  BY DEF Artifact
<1> HIDE DEF ix, files
<1>6. \A i \in DOMAIN artifacts :
        /\ artifacts[i].role \in DOMAIN files
        /\ files[artifacts[i].role] = artifacts[i].document
        /\ artifacts[i].document.mission \in {0, ix.mission}
        /\ artifacts[i].document.safe
  BY <1>1, <1>2, <1>3, <1>4, <1>5
<1>7. T!FilesAgree(ix, files)
  BY <1>6 DEF T!FilesAgree, artifacts
<1> QED BY <1>1, <1>7 DEF ix, files

LEMMA CountsGrow ==
    ASSUME NEW c, Succeeds(c)
    PROVE  T!CountsMonotonic(Artifact(c))
<1> DEFINE docs == Artifact(c)
<1>1. docs["root"] = Document("root", c) /\ docs["terminal"] = Document("terminal", c)
  BY ThreeRoles DEF Artifact
<1>2. PlannedNodes \in Nat /\ Cardinality(c.completed) = PlannedNodes
  BY ActivationConstants DEF Succeeds
<1> DEFINE root == docs["root"]
           terminal == docs["terminal"]
<1>3. root.completed = 0 /\ root.ready = PlannedNodes /\ root.blocked = 0 /\ root.failed = 0
  BY <1>1, DocumentFields
<1>4. /\ terminal.completed = PlannedNodes /\ terminal.ready = 0 /\ terminal.blocked = 0
      /\ terminal.failed = 0
  BY <1>1, <1>2, DocumentFields
<1> HIDE DEF root, terminal
<1>5. T!Nodes4(root) = PlannedNodes /\ T!Nodes4(terminal) = PlannedNodes
  BY <1>2, <1>3, <1>4 DEF T!Nodes4
<1> QED BY <1>2, <1>3, <1>4, <1>5 DEF T!CountsMonotonic, root, terminal

LEMMA IndexVerifies ==
    ASSUME NEW c, Succeeds(c)
    PROVE  T!Verifies(CanaryIndex(c), Artifact(c))
<1> DEFINE ix == CanaryIndex(c)
           docs == Artifact(c)
<1>1. /\ ix.signed = TRUE /\ ix.safe = TRUE /\ ix.reference = TRUE
      /\ ix.mission = run.mission /\ T!Documents(ix) = docs
  BY IndexShape
<1>2. T!Monotonic(ix) /\ T!FilesAgree(ix, docs) /\ T!CountsMonotonic(docs)
  BY IndexOrdered, DocumentsAgree, CountsGrow
<1>3. "root" \in DOMAIN docs /\ "terminal" \in DOMAIN docs
  BY ThreeRoles DEF Artifact
<1>4. ix.conclusions = T!Recompute(docs)
  BY Concluded
<1>5. run.mission # 0
  BY DEF Succeeds
<1> HIDE DEF ix, docs
<1>6. T!Verifies(ix, docs)
  BY <1>1, <1>2, <1>3, <1>4, <1>5 DEF T!Verifies
<1> QED BY <1>6 DEF ix, docs

\* Its import is one that later readers accept, and projects the mission as done.
LEMMA ImportReads ==
    ASSUME NEW c, Succeeds(c)
    PROVE  /\ T!ValidReadback(T!Readback(CanaryIndex(c), "import"))
           /\ T!Readback(CanaryIndex(c), "import").projection = "done"
<1> DEFINE minutes == LeaseMinutes(c)
           said == CanaryIndex(c).conclusions
           counts == [total |-> PlannedNodes, minimum |-> PlannedNodes,
                      completed |-> PlannedNodes, ready |-> 0, blocked |-> 0, failed |-> 0]
           readback == T!Readback(CanaryIndex(c), "import")
<1>1. said = [counts |-> counts, lease |-> minutes,
              completion |-> TRUE, agreement |-> TRUE, readiness |-> TRUE, final |-> TRUE,
              codes |-> {}, next |-> "none"]
  <2>1. Cardinality(c.completed) = PlannedNodes
    BY DEF Succeeds
  <2> QED BY <2>1 DEF CanaryIndex
<1>2. /\ {minutes.minimum, minutes.target, minutes.maximum, minutes.elapsed} \subseteq Int
      /\ 1 <= minutes.minimum /\ minutes.minimum <= minutes.target
      /\ minutes.target <= minutes.maximum
      /\ minutes.minimum <= minutes.elapsed /\ minutes.elapsed <= minutes.maximum
      /\ minutes.status = "within_window"
  BY LeaseInMinutes DEF Succeeds
<1>3. PlannedNodes \in Nat
  BY ActivationConstants
<1> HIDE DEF said, minutes
<1>4. /\ readback.signed = TRUE /\ readback.conclusions = said
      /\ readback.projection = T!OperatorStatus(said.final, said.counts)
      /\ readback.timing = (said.lease.status = "within_window")
  BY DEF T!Readback, said
<1> HIDE DEF readback
<1>5. readback.projection = "done"
  BY <1>1, <1>4 DEF T!OperatorStatus
<1>6. /\ said.counts = counts /\ said.lease = minutes /\ said.final = TRUE
      /\ said.readiness = TRUE /\ said.completion = TRUE /\ said.agreement = TRUE
      /\ said.codes = {}
  BY <1>1
<1>7. /\ \A field \in DOMAIN counts : counts[field] >= 0
      /\ counts.minimum <= counts.total /\ counts.completed = counts.total
      /\ counts.completed + counts.ready + counts.blocked + counts.failed = counts.total
      /\ counts.ready = 0 /\ counts.blocked = 0 /\ counts.failed = 0
  BY <1>3
<1> HIDE DEF counts
<1>8. readback.timing
  BY <1>2, <1>4, <1>6
<1>9. T!ValidReadback(readback)
  BY <1>2, <1>4, <1>6, <1>7, <1>8 DEF T!ValidReadback
<1> QED BY <1>5, <1>9 DEF readback

\* A checkpoint that passed the last check of an admitted canary.
Finishes(c) ==
    /\ run.conflicts = {} /\ Reconciled(c) = {}
    /\ c.present /\ c.completed = Nodes /\ c.completedAt \in Int

LEMMA AdmittedNamesIts ==
    ASSUME NEW documents, DocumentConflicts(documents) = {},
           documents.input.identified => documents.input.mission # Blank
    PROVE  /\ documents.input.mission # 0
           /\ ~ (documents.input.lease.min <= 0)
           /\ ~ (documents.input.lease.min > documents.input.lease.target)
           /\ ~ (documents.input.lease.target > documents.input.lease.max)
<1> DEFINE input == documents.input
<1>1. PlanConflicts(documents) = {}
  BY DEF DocumentConflicts
<1>2. BuildSoakPlan(input) = documents.plan /\ documents.plan.allowed
  BY <1>1, QuietPlan
<1>3. PlanOver(input, PlannedPartitions(input)).allowed
  BY <1>2 DEF BuildSoakPlan
<1>4. EnvelopeConflicts(input) = {}
  BY <1>3, AllowedIsQuiet
<1> HIDE DEF input
<1>5. /\ When(~input.identified, "plan_identity_incomplete") = {}
      /\ When(input.lease.min <= 0 \/ input.lease.min > input.lease.target
                \/ input.lease.target > input.lease.max, "lease_budget_invalid") = {}
  BY <1>4 DEF EnvelopeConflicts
<1>6. ~ ~ input.identified
  BY <1>5, WhenEmpty
<1>7. ~ (input.lease.min <= 0 \/ input.lease.min > input.lease.target
                \/ input.lease.target > input.lease.max)
  BY <1>5, WhenEmpty
<1> QED BY <1>6, <1>7 DEF input, Blank

LEMMA FinishedSucceeds ==
    ASSUME run = RunOf(Requests[asked]), asked \in DOMAIN Requests, NEW c, Finishes(c)
    PROVE  Succeeds(c)
<1>1. PICK documents : documents = Requests[asked]
  OBVIOUS
<1>2. /\ run.mission = documents.input.mission /\ run.lease = documents.input.lease
      /\ run.phaseStart = documents.activation.phaseStart
      /\ run.conflicts = DocumentConflicts(documents)
  BY <1>1 DEF RunOf
<1>3. DocumentConflicts(documents) = {}
  BY <1>2 DEF Finishes
<1>4. documents.input.identified => documents.input.mission # Blank
  BY <1>1, RequestsAssumption
<1>5. /\ documents.input.mission # 0
      /\ ~ (documents.input.lease.min <= 0)
      /\ ~ (documents.input.lease.min > documents.input.lease.target)
      /\ ~ (documents.input.lease.target > documents.input.lease.max)
  BY <1>3, <1>4, AdmittedNamesIts
<1>6. /\ run.phaseStart \in Int
      /\ {run.lease.min, run.lease.target, run.lease.max} \subseteq Int
  BY <1>1, <1>2, TimesAreNumbers
<1> DEFINE attempts == AttemptsOf(c)
           phase == c.completedAt - run.phaseStart
<1>7. /\ When(\/ Cardinality(Nodes) # PlannedNodes
              \/ Cardinality(c.completed) # PlannedNodes
              \/ Len(c.attempts) # MaximumAttempts
              \/ Cardinality({a \in attempts : a.launched}) # PlannedNodes
              \/ Cardinality({a \in {a \in attempts : a.launched} : a.class = "scale"}) # 1
              \/ Cardinality({a \in attempts : a.outcome = "transient_infrastructure"}) # 1,
              "canary_count_mismatch") = {}
      /\ When(phase < run.lease.min, "lease_minimum_not_met") = {}
      /\ When(phase < 0 \/ phase > LeaseMaximum \/ phase > HardWall,
              "lease_maximum_exceeded") = {}
  BY DEF Finishes, Reconciled
<1>8. /\ Cardinality(c.completed) = PlannedNodes
      /\ ~ (phase < run.lease.min) /\ ~ (phase > LeaseMaximum)
  BY <1>7 DEF When
<1>9. phase \in Int
  BY <1>6 DEF Finishes
<1>10. KeepsLease(c)
  <2> HIDE DEF phase
  <2>1. phase \in run.lease.min..run.lease.max
    BY <1>6, <1>8, <1>9 DEF LeaseMaximum
  <2>2. run.lease.min > 0 /\ run.lease.min <= run.lease.target /\ run.lease.target <= run.lease.max
    BY <1>2, <1>5, <1>6
  <2> QED BY <1>6, <2>1, <2>2 DEF KeepsLease, phase
<1> QED BY <1>2, <1>5, <1>8, <1>10 DEF Succeeds

-----------------------------------------------------------------------------
(* The files of the completion: all of one checkpoint, whatever happened     *)
(* between them.                                                           *)

\* What a file of the completion of c holds.
FileContent(file, c) ==
    CASE file \in Range(Artifacts) -> Document(file, c)
      [] file = "index" -> CanaryIndex(c)
      [] file = "import" -> T!Readback(CanaryIndex(c), "import")
      [] file = "ledger" -> {T!Readback(CanaryIndex(c), surface) : surface \in T!Surfaces}
      [] OTHER -> Completion(c)

Filed(files, c) ==
    /\ files = [file \in Files |-> files[file]]
    /\ \A file \in Files : files[file] = <<>> \/ files[file] = <<FileContent(file, c)>>
    /\ files["ledger"] # <<>> => T!SurfacesAgree(files["ledger"][1])

\* Something of a completion is there.
Sealed == \E file \in Files : published[file] # <<>>
Whole(files) == \A file \in Files \ {"provisional"} : files[file] # <<>>

\* What the publication has behind it is there, with all it rests on.
Underway ==
    /\ turn.done \subseteq Files
    /\ \A file \in turn.done : published[file] # <<>> /\ Needs(file) \subseteq turn.done

PublishedInv ==
    /\ Filed(published, disk)
    /\ Sealed \/ pc \in {"publish", "promoted"} => Finishes(disk)
    /\ Sealed => pc \in {"idle", "load", "reconcile", "publish", "promoted"}
    /\ pc \in {"publish", "promoted"} => mem = disk
    /\ pc = "publish" => Underway
    /\ pc = "promoted" \/ published["final"] # <<>> => Whole(published)

LEMMA ContentStays ==
    ASSUME UNCHANGED run, NEW file, NEW c
    PROVE  FileContent(file, c)' = FileContent(file, c)
<1>1. LeaseMinutes(c)' = LeaseMinutes(c)
  BY DEF LeaseMinutes
<1>2. \A role : Document(role, c)' = Document(role, c)
  BY <1>1 DEF Document
<1>3. CanaryIndex(c)' = CanaryIndex(c)
  BY <1>1, <1>2 DEF CanaryIndex
<1> QED BY <1>2, <1>3 DEF FileContent, Completion

LEMMA FilesStay ==
    ASSUME UNCHANGED run, NEW files, NEW c, Filed(files, c)
    PROVE  Filed(files, c)'
<1> QED BY ContentStays DEF Filed

LEMMA FinishStays ==
    ASSUME UNCHANGED run, NEW c, Finishes(c)
    PROVE  Finishes(c)'
<1>1. Reconciled(c)' = Reconciled(c)
  BY DEF Reconciled, Nodes, Partitions, PartitionOf, LeaseMaximum
<1>2. Nodes' = Nodes
  BY DEF Nodes, Partitions
<1> QED BY <1>1, <1>2 DEF Finishes

LEMMA EmptyFiled ==
    ASSUME NEW files, NEW c, files = [file \in Files |-> files[file]],
           \A file \in Files : files[file] = <<>>
    PROVE  Filed(files, c)
<1>1. files["ledger"] = <<>>
  BY DEF Files
<1> QED BY <1>1 DEF Filed

\* A step that publishes nothing, and leaves the checkpoint of what is published.
LEMMA NothingPublished ==
    ASSUME PublishedInv, UNCHANGED <<run, published>>, pc' \notin {"publish", "promoted"},
           Sealed => UNCHANGED disk /\ pc' \in {"idle", "load", "reconcile"}
    PROVE  PublishedInv'
<1>1. Sealed' = Sealed
  BY DEF Sealed
<1>2. PICK files : files = published
  OBVIOUS
<1>3. PICK d : d = disk'
  OBVIOUS
<1>4. CASE Sealed
  <2>1. disk = d /\ disk' = d /\ published' = files
    BY <1>2, <1>3, <1>4
  <2>2. Filed(files, d) /\ Finishes(d) /\ (published["final"] # <<>> => Whole(published))
    BY <1>2, <1>4, <2>1 DEF PublishedInv
  <2>3. Filed(files, d)' /\ Finishes(d)'
    BY <2>2, FilesStay, FinishStays
  <2>4. Filed(published, disk)' /\ Finishes(disk)'
    BY <2>1, <2>3
  <2>5. published'["final"] # <<>> => Whole(published)'
    BY <2>2 DEF Whole
  <2> QED BY <1>1, <1>4, <2>4, <2>5 DEF PublishedInv
<1>5. CASE ~Sealed
  <2>1. \A file \in Files : files[file] = <<>>
    BY <1>2, <1>5 DEF Sealed
  <2>2. files = [file \in Files |-> files[file]]
    BY <1>2 DEF PublishedInv, Filed
  <2>3. Filed(files, d)
    BY <2>1, <2>2, EmptyFiled
  <2>4. Filed(files, d)'
    BY <2>3, FilesStay
  <2>5. Filed(published, disk)'
    BY <1>2, <1>3, <2>4
  <2>6. published'["final"] = <<>>
    BY <1>2, <2>1 DEF Files
  <2> QED BY <1>1, <1>5, <2>5, <2>6 DEF PublishedInv
<1> QED BY <1>4, <1>5

LEMMA NothingTouched ==
    ASSUME PublishedInv, UNCHANGED <<run, published, disk, pc, mem, turn>>
    PROVE  PublishedInv'
<1>1. PICK files : files = published
  OBVIOUS
<1>2. PICK d : d = disk
  OBVIOUS
<1>3. Filed(files, d) /\ (Sealed \/ pc \in {"publish", "promoted"} => Finishes(d))
  BY <1>1, <1>2 DEF PublishedInv
<1>4. Filed(files, d)' /\ (Sealed \/ pc \in {"publish", "promoted"} => Finishes(d)')
  BY <1>3, FilesStay, FinishStays
<1>5. Filed(published, disk)' /\ (Sealed' \/ pc' \in {"publish", "promoted"} => Finishes(disk)')
  BY <1>1, <1>2, <1>4 DEF Sealed
<1> QED BY <1>5 DEF PublishedInv, Sealed, Whole, Underway

\* Before a publication there is none.
LEMMA WorkIsNotSealed ==
    ASSUME PublishedInv, pc \notin {"idle", "load", "reconcile", "publish", "promoted"}
    PROVE  ~Sealed
<1> QED BY DEF PublishedInv

LEMMA StartPublishes == ASSUME PublishedInv, Start PROVE PublishedInv'
<1>1. /\ UNCHANGED <<run, published>> /\ UNCHANGED disk
      /\ pc' \in {"idle", "load"}
  BY DEF Start, Finish, request
<1> QED BY <1>1, NothingPublished

LEMMA WorkPublishes ==
    ASSUME PublishedInv,
           \/ HardWallReached \/ RecordTransient \/ Reserve \/ Limit \/ Check \/ Launch
           \/ RecordRunning \/ Collect \/ Complete \/ Reap \/ Close \/ LaunchFails
    PROVE  PublishedInv'
<1>1. /\ UNCHANGED <<run, published>>
      /\ pc \notin {"idle", "load", "reconcile", "publish", "promoted"}
      /\ pc' \notin {"publish", "promoted"}
  BY DEF HardWallReached, RecordTransient, Reserve, Reserves, Limit, Check, Launch,
         RecordRunning, Collect, Complete, Reap, Close, LaunchFails, StoreOrStop, Finish, Fail,
         EndUnlaunched, Surroundings, request
<1> QED BY <1>1, NothingPublished, WorkIsNotSealed

LEMMA HeartbeatPublishes == ASSUME PublishedInv, Heartbeat PROVE PublishedInv'
<1>1. /\ UNCHANGED <<run, published>> /\ pc = "wait" /\ pc' = pc
  BY DEF Heartbeat, Surroundings, request
<1> QED BY <1>1, NothingPublished, WorkIsNotSealed

LEMMA CreatePublishes == ASSUME PublishedInv, Create PROVE PublishedInv'
<1>1. /\ UNCHANGED <<run, published>> /\ pc' \in {"idle", "turn"} /\ ~disk.present
  BY DEF Create, Finish, Surroundings, request
<1>2. ~Sealed
  BY <1>1 DEF PublishedInv, Finishes
<1> QED BY <1>1, <1>2, NothingPublished

LEMMA ResumePublishes == ASSUME PublishedInv, Resume PROVE PublishedInv'
<1>1. /\ UNCHANGED <<run, published>> /\ UNCHANGED disk
      /\ pc' \in {"idle", AfterLoad}
  BY DEF Resume, Finish, Surroundings, request
<1>2. AfterLoad \in {"reconcile", "turn"} /\ (Sealed => AfterLoad = "reconcile")
  BY DEF PublishedInv, Finishes, AfterLoad
<1> QED BY <1>1, <1>2, NothingPublished

LEMMA CrashPublishes == ASSUME PublishedInv, Crash PROVE PublishedInv'
<1>1. /\ UNCHANGED <<run, published>> /\ UNCHANGED disk /\ pc' = "idle"
  BY DEF Crash, Surroundings, request
<1> QED BY <1>1, NothingPublished

LEMMA ElsewherePublishes ==
    ASSUME PublishedInv,
           Pass \/ Disturb \/ (\E i \in DOMAIN launches : ChildExits(i)) \/ UNCHANGED vars
    PROVE  PublishedInv'
<1>1. UNCHANGED <<run, published, disk, pc, mem, turn>>
  BY DEF Pass, Disturb, ChildExits, vars, request, runner
<1> QED BY <1>1, NothingTouched

\* A canary is published as it was reconciled.
LEMMA ReconcilePublishes == ASSUME IInv, EInv, PublishedInv, Reconcile PROVE PublishedInv'
<1>1. /\ UNCHANGED <<run, published>> /\ UNCHANGED disk /\ pc = "reconcile"
      /\ mem = disk /\ Stored(mem) /\ run.conflicts = {}
  BY DEF Reconcile, Surroundings, request, EInv, ReconcileInv, AdmittedInv
<1>2. CASE pc' = "idle"
  BY <1>1, <1>2, NothingPublished
<1>3. CASE pc' # "idle"
  <2>1. /\ Reconciled(mem) = {} /\ pc' = "publish" /\ turn' = [done |-> {}] /\ mem' = mem
    BY <1>3 DEF Reconcile, Fail, Finish
  <2>2. PICK d : d = disk
    OBVIOUS
  <2>3. PICK files : files = published
    OBVIOUS
  <2>4. Shape(d) /\ d.present = TRUE
    BY <1>1, <2>2 DEF EInv, FileInv, Stored, NoCheckpoint
  <2>5. d.completed = Nodes
    <3> DEFINE own(node) == {a \in AttemptsOf(d) : a.node = node}
               passed(node) == {a \in own(node) : a.outcome = "passed"}
    <3>1. When(\E node \in Nodes : Cardinality(passed(node)) # 1,
               "attempt_omission_or_duplicate_completion") = {}
      BY <1>1, <2>1, <2>2 DEF Reconciled
    <3>2. \A node \in Nodes : Cardinality(passed(node)) = 1
      BY <3>1 DEF When
    <3>3. ASSUME NEW node \in Nodes PROVE node \in d.completed
      <4>1. PICK a : a \in passed(node)
        BY <3>2, Single
      <4>2. PICK k \in DOMAIN d.attempts : a = d.attempts[k]
        BY <4>1 DEF AttemptsOf, Range
      <4> QED BY <2>4, <4>1, <4>2 DEF Shape, Counted
    <3>4. ASSUME NEW node \in d.completed PROVE node \in Nodes
      <4>1. PICK k \in DOMAIN d.attempts : d.attempts[k].node = node
        BY <2>4 DEF Shape, Counted
      <4> QED BY <2>4, <4>1 DEF Shape, AttemptsKept, AttemptKept, Planned
    <3> QED BY <3>3, <3>4
  <2>6. Finishes(d)
    BY <1>1, <2>1, <2>2, <2>4, <2>5 DEF Finishes, Shape
  <2>7. Filed(files, d)
    BY <2>2, <2>3 DEF PublishedInv
  <2>8. Finishes(d)' /\ Filed(files, d)'
    BY <1>1, <2>6, <2>7, FinishStays, FilesStay
  <2>9. Finishes(disk)' /\ Filed(published, disk)'
    BY <1>1, <2>2, <2>3, <2>8
  <2>10. Underway'
    BY <2>1 DEF Underway
  <2>11. published'["final"] # <<>> => Whole(published)'
    BY <1>1 DEF PublishedInv, Whole
  <2> QED BY <1>1, <2>1, <2>9, <2>10, <2>11 DEF PublishedInv
<1> QED BY <1>2, <1>3

LEMMA FileNames ==
    /\ Files = {"provisional", "lease", "root", "terminal", "index", "import", "ledger", "final"}
    /\ Range(Artifacts) = {"lease", "root", "terminal"}
    /\ Needs("import") = {"index"} /\ Needs("ledger") = {"import"} /\ Needs("final") = {"ledger"}
    /\ Needs("index") = Range(Artifacts)
<1> QED BY ThreeRoles DEF Files, Needs

\* What is written is the file of the reconciled checkpoint, also when the import
\* that is there is one of an earlier publication.
LEMMA ContentFits ==
    ASSUME PublishedInv, pc = "publish", NEW file \in Files, Needs(file) \subseteq turn.done,
           NEW d, d = disk
    PROVE  Content(file) = FileContent(file, d)
<1>1. mem = d
  BY DEF PublishedInv
<1>2. CASE file # "ledger"
  BY <1>1, <1>2, FileNames DEF Content, FileContent
<1>3. CASE file = "ledger"
  <2>1. "import" \in turn.done /\ "import" \in Files
    BY <1>3, FileNames
  <2>2. published["import"] = <<FileContent("import", d)>>
    BY <2>1 DEF PublishedInv, Underway, Filed
  <2>3. published["import"][1].index = CanaryIndex(d)
    <3>1. FileContent("import", d) = T!Readback(CanaryIndex(d), "import")
      BY FileNames DEF FileContent
    <3>2. T!Readback(CanaryIndex(d), "import").index = CanaryIndex(d)
      BY DEF T!Readback
    <3> QED BY <2>2, <3>1, <3>2
  <2>4. /\ Content("ledger") =
            {T!Readback(published["import"][1].index, surface) : surface \in T!Surfaces}
        /\ FileContent("ledger", d) =
            {T!Readback(CanaryIndex(d), surface) : surface \in T!Surfaces}
    BY FileNames DEF Content, FileContent
  <2> QED BY <1>3, <2>3, <2>4
<1> QED BY <1>2, <1>3

\* A file that is written next to the others.
LEMMA FiledWith ==
    ASSUME NEW files, NEW c, Filed(files, c), NEW file \in Files, NEW content,
           content = FileContent(file, c),
           file = "ledger" => T!SurfacesAgree(content)
    PROVE  Filed([files EXCEPT ![file] = <<content>>], c)
<1> DEFINE written == [files EXCEPT ![file] = <<content>>]
<1>1. /\ files = [f \in Files |-> files[f]] /\ "ledger" \in Files
      /\ \A f \in Files : files[f] = <<>> \/ files[f] = <<FileContent(f, c)>>
      /\ files["ledger"] # <<>> => T!SurfacesAgree(files["ledger"][1])
  BY FileNames DEF Filed
<1>2. /\ written = [f \in Files |-> written[f]]
      /\ written[file] = <<content>>
      /\ \A f \in Files : f # file => written[f] = files[f]
  BY <1>1
<1> HIDE DEF written
<1>3. \A f \in Files : written[f] = <<>> \/ written[f] = <<FileContent(f, c)>>
  BY <1>1, <1>2
<1>4. written["ledger"] # <<>> => T!SurfacesAgree(written["ledger"][1])
  BY <1>1, <1>2
<1>5. Filed(written, c)
  BY <1>2, <1>3, <1>4 DEF Filed
<1> QED BY <1>5 DEF written

\* The last file is written when all others are there.
LEMMA LastIsWhole ==
    ASSUME PublishedInv, pc = "publish", Needs("final") \subseteq turn.done
    PROVE  \A file \in Files \ {"provisional", "final"} : published[file] # <<>>
<1>1. Underway
  BY DEF PublishedInv
<1>2. "ledger" \in turn.done
  BY FileNames
<1>3. "import" \in turn.done
  BY <1>1, <1>2, FileNames DEF Underway
<1>4. "index" \in turn.done
  BY <1>1, <1>3, FileNames DEF Underway
<1>5. {"lease", "root", "terminal"} \subseteq turn.done
  BY <1>1, <1>4, FileNames DEF Underway
<1> QED BY <1>1, <1>2, <1>3, <1>4, <1>5, FileNames DEF Underway

LEMMA PublishPublishes ==
    ASSUME PublishedInv, NEW file \in Files, Publish(file)
    PROVE  PublishedInv'
<1>1. PICK d : d = disk
  OBVIOUS
<1>2. PICK files : files = published
  OBVIOUS
<1>3. PICK content : content = Content(file)
  OBVIOUS
<1> DEFINE written == [files EXCEPT ![file] = <<content>>]
<1>4. /\ pc = "publish" /\ file \notin turn.done /\ Needs(file) \subseteq turn.done
      /\ Publishable(file) /\ UNCHANGED run /\ disk' = d
  BY <1>1 DEF Publish, request
<1>5. \/ /\ published' = written /\ mem' = mem
         /\ \/ file = "final" /\ pc' = "promoted"
            \/ file # "final" /\ pc' = pc /\ turn' = [done |-> turn.done \union {file}]
      \/ published' \in {files, written} /\ pc' = "idle"
  BY <1>2, <1>3 DEF Publish, Pending, Finish
<1>6. Filed(files, d) /\ Finishes(d) /\ mem = d /\ Underway
      /\ (files["final"] # <<>> => Whole(files))
  BY <1>1, <1>2, <1>4 DEF PublishedInv
<1>7. content = FileContent(file, d)
  BY <1>1, <1>3, <1>4, ContentFits
<1>8. file = "ledger" => T!SurfacesAgree(content)
  BY <1>3, <1>4 DEF Publishable
<1>9. Filed(written, d)
  BY <1>6, <1>7, <1>8, FiledWith
<1>10. DOMAIN files = Files /\ DOMAIN written = Files /\ written[file] # <<>>
       /\ \A f \in Files : f # file => written[f] = files[f]
  <2>1. files = [f \in Files |-> files[f]]
    BY <1>6 DEF Filed
  <2> QED BY <2>1
<1> HIDE DEF written
<1>11. Filed(files, d)' /\ Filed(written, d)' /\ Finishes(d)'
  BY <1>4, <1>6, <1>9, FilesStay, FinishStays
<1>12. published' \in {files, written}
  BY <1>5
<1>13. Filed(published, disk)' /\ Finishes(disk)'
  BY <1>4, <1>11, <1>12
<1>14. file = "final" => Whole(written)
  BY <1>2, <1>4, <1>10, LastIsWhole DEF Whole
<1>15. file # "final" => (written["final"] # <<>> => Whole(written))
  BY <1>6, <1>10, FileNames DEF Whole
<1>16. published'["final"] # <<>> => Whole(published')
  BY <1>6, <1>12, <1>14, <1>15
<1>17. Whole(published)' = Whole(published')
  BY DEF Whole
<1>18. pc' \in {"idle", "publish", "promoted"}
  BY <1>4, <1>5
<1>19. pc' = "promoted" => Whole(published')
  BY <1>4, <1>5, <1>14
<1>20. pc' = "publish" => Underway'
  <2> SUFFICES ASSUME pc' = "publish" PROVE Underway'
    OBVIOUS
  <2>1. published' = written /\ turn'.done = turn.done \union {file}
    BY <1>5
  <2> QED BY <1>2, <1>4, <1>6, <1>10, <2>1 DEF Underway
<1>21. pc' # "idle" => mem' = disk'
  BY <1>4, <1>5, <1>6
<1> QED BY <1>13, <1>16, <1>17, <1>18, <1>19, <1>20, <1>21 DEF PublishedInv

LEMMA ReusePublishes == ASSUME PublishedInv, ReuseImport PROVE PublishedInv'
<1>1. /\ pc = "publish" /\ Needs("import") \subseteq turn.done
      /\ UNCHANGED <<run, published>> /\ UNCHANGED disk
  BY DEF ReuseImport, Surroundings, request
<1>2. CASE pc' = "idle"
  BY <1>1, <1>2, NothingPublished
<1>3. CASE pc' # "idle"
  <2>1. /\ Import = "existing" /\ turn' = [done |-> turn.done \union {"import"}]
        /\ pc' = pc /\ mem' = mem
    BY <1>3 DEF ReuseImport, Pending, Finish
  <2>2. published["import"] # <<>>
    <3> SUFFICES ASSUME published["import"] = <<>> PROVE FALSE
      OBVIOUS
    <3>1. Import = T!ImportAnswer(published["index"][1], Bundle, T!NoImport)
      BY DEF Import
    <3>2. \A index, documents : T!ImportAnswer(index, documents, T!NoImport) # "existing"
      BY DEF T!ImportAnswer
    <3> QED BY <2>1, <3>1, <3>2
  <2>3. PICK d : d = disk
    OBVIOUS
  <2>4. PICK files : files = published
    OBVIOUS
  <2>5. Filed(files, d) /\ Finishes(d) /\ mem = d /\ Underway
        /\ (published["final"] # <<>> => Whole(published))
    BY <1>1, <2>3, <2>4 DEF PublishedInv
  <2>6. Filed(files, d)' /\ Finishes(d)'
    BY <1>1, <2>5, FilesStay, FinishStays
  <2>7. Filed(published, disk)' /\ Finishes(disk)'
    BY <1>1, <2>3, <2>4, <2>6
  <2>8. Underway'
    BY <1>1, <2>1, <2>2, <2>5, FileNames DEF Underway
  <2>9. published'["final"] # <<>> => Whole(published)'
    BY <1>1, <2>5 DEF Whole
  <2> QED BY <1>1, <2>1, <2>3, <2>5, <2>7, <2>8, <2>9 DEF PublishedInv
<1> QED BY <1>2, <1>3

LEMMA PromotedPublishes == ASSUME PublishedInv, Promoted PROVE PublishedInv'
<1>1. PICK d : d = disk
  OBVIOUS
<1>2. PICK files : files = published
  OBVIOUS
<1> DEFINE left == [files EXCEPT !["provisional"] = <<>>]
<1>3. /\ pc = "promoted" /\ pc' = "idle" /\ published' = left /\ UNCHANGED run /\ disk' = d
  BY <1>1, <1>2 DEF Promoted, request
<1>4. Filed(files, d) /\ Finishes(d) /\ Whole(files)
  BY <1>1, <1>2, <1>3 DEF PublishedInv
<1>5. /\ files = [f \in Files |-> files[f]]
      /\ \A f \in Files : files[f] = <<>> \/ files[f] = <<FileContent(f, d)>>
      /\ files["ledger"] # <<>> => T!SurfacesAgree(files["ledger"][1])
  BY <1>4 DEF Filed
<1>6. /\ left = [f \in Files |-> left[f]] /\ left["provisional"] = <<>>
      /\ \A f \in Files \ {"provisional"} : left[f] = files[f]
  BY <1>5, FileNames
<1> HIDE DEF left
<1>7. Filed(left, d)
  <2>1. \A f \in Files : left[f] = <<>> \/ left[f] = <<FileContent(f, d)>>
    BY <1>5, <1>6
  <2>2. left["ledger"] # <<>> => T!SurfacesAgree(left["ledger"][1])
    BY <1>5, <1>6, FileNames
  <2> QED BY <1>6, <2>1, <2>2 DEF Filed
<1>8. Filed(left, d)' /\ Finishes(d)'
  BY <1>3, <1>4, <1>7, FilesStay, FinishStays
<1>9. Filed(published, disk)' /\ Finishes(disk)'
  BY <1>3, <1>8
<1>10. Whole(published)'
  BY <1>3, <1>4, <1>6 DEF Whole
<1> QED BY <1>3, <1>9, <1>10 DEF PublishedInv

LEMMA PublishedInitially == Init => PublishedInv
<1> SUFFICES ASSUME Init PROVE PublishedInv
  OBVIOUS
<1>1. published = [file \in Files |-> <<>>] /\ pc = "idle"
  BY DEF Init
<1>2. PICK files : files = published
  OBVIOUS
<1>3. PICK d : d = disk
  OBVIOUS
<1>4. Filed(files, d)
  BY <1>1, <1>2, EmptyFiled
<1>5. published["final"] = <<>> /\ ~Sealed
  BY <1>1, FileNames DEF Sealed
<1> QED BY <1>1, <1>2, <1>3, <1>4, <1>5 DEF PublishedInv

LEMMA PublishedInductive ==
    ASSUME IInv, EInv, PublishedInv, [Next]_vars
    PROVE  PublishedInv'
<1>1. CASE RunnerStep
  BY <1>1, CreatePublishes, ResumePublishes, WorkPublishes, ReconcilePublishes,
     PublishPublishes, ReusePublishes, PromotedPublishes DEF RunnerStep
<1> QED BY <1>1, StartPublishes, WorkPublishes, HeartbeatPublishes, CrashPublishes,
           ElsewherePublishes DEF Next

\* Whatever is reconciled can be published, and a promoted summary rests on a bundle that
\* verifies, an import that reads back as done and four surfaces that agree, for every
\* plan, in every order of the files and after any crash between two of them.
THEOREM PromotedIsBackedHolds == Spec => []PromotedIsBacked
<1>1. ASSUME IInv, EInv, PublishedInv PROVE PromotedIsBacked
  <2>1. PICK d : d = disk
    OBVIOUS
  <2>2. ASSUME Finishes(d)
        PROVE  /\ T!Verifies(CanaryIndex(d), Artifact(d))
               /\ T!ValidReadback(T!Readback(CanaryIndex(d), "import"))
               /\ T!Readback(CanaryIndex(d), "import").projection = "done"
    BY <1>1, <2>2, FinishedSucceeds, IndexVerifies, ImportReads DEF IInv
  <2>3. ASSUME pc = "publish"
        PROVE  LET index == CanaryIndex(mem)
               IN  /\ T!Verifies(index, [role \in Range(Artifacts) |-> Document(role, mem)])
                   /\ T!ValidReadback(T!Readback(index, "import"))
                   /\ T!Readback(index, "import").projection = "done"
    <3>1. mem = d /\ Finishes(d)
      BY <1>1, <2>1, <2>3 DEF PublishedInv
    <3>2. Artifact(mem) = Artifact(d) /\ CanaryIndex(mem) = CanaryIndex(d)
      BY <3>1
    <3> QED BY <2>2, <3>1, <3>2 DEF Artifact
  <2>4. ASSUME published["final"] # <<>>
        PROVE  /\ \A file \in Files \ {"provisional"} : published[file] # <<>>
               /\ T!Verifies(published["index"][1], Bundle)
               /\ T!ValidReadback(published["import"][1])
               /\ published["import"][1].projection = "done"
               /\ published["import"][1].index = published["index"][1]
               /\ T!SurfacesAgree(published["ledger"][1])
    <3>1. Whole(published)
      BY <1>1, <2>4 DEF PublishedInv
    <3>2. Finishes(d)
      BY <1>1, <2>1, <2>4, FileNames DEF PublishedInv, Sealed
    <3>3. /\ published["index"] = <<FileContent("index", d)>>
          /\ published["import"] = <<FileContent("import", d)>>
          /\ T!SurfacesAgree(published["ledger"][1])
          /\ \A role \in Range(Artifacts) : published[role] = <<FileContent(role, d)>>
      BY <1>1, <2>1, <3>1, FileNames DEF PublishedInv, Filed, Whole
    <3>4. /\ published["index"][1] = CanaryIndex(d)
          /\ published["import"][1] = T!Readback(CanaryIndex(d), "import")
      BY <3>3, FileNames DEF FileContent
    <3>5. Bundle = Artifact(d)
      <4>1. \A role \in Range(Artifacts) : published[role][1] = Document(role, d)
        <5>1. \A role \in Range(Artifacts) : FileContent(role, d) = Document(role, d)
          BY FileNames DEF FileContent
        <5> QED BY <3>3, <5>1
      <4>2. {r \in Range(Artifacts) : published[r] # <<>>} = Range(Artifacts)
        BY <3>1, FileNames DEF Whole
      <4> QED BY <4>1, <4>2 DEF Bundle, Artifact
    <3>6. T!Readback(CanaryIndex(d), "import").index = CanaryIndex(d)
      BY DEF T!Readback
    <3> QED BY <2>2, <3>1, <3>2, <3>3, <3>4, <3>5, <3>6 DEF Whole
  <2> QED BY <2>3, <2>4 DEF PromotedIsBacked
<1>2. IInv /\ EInv /\ PublishedInv /\ [Next]_vars => PublishedInv'
  BY PublishedInductive
<1> QED BY <1>1, <1>2, PublishedInitially, Kept, PTL DEF Spec

-----------------------------------------------------------------------------
(* What the runner measures stays within the clock.                        *)

Instants == 0..LastInstant
Lasts(result) == result.elapsed \in Instants /\ result.childElapsed \in Instants

InTime(c) ==
    /\ c.completedAt \in -1..LastInstant
    /\ \A k \in DOMAIN c.attempts : Lasts(c.attempts[k].result)

ChildrenInTime ==
    \A i \in DOMAIN launches :
        launches[i].started \in 0..now /\ launches[i].elapsed \in Instants

TimeInv ==
    /\ now \in Instants /\ ChildrenInTime
    /\ AtWork => turn.started \in 0..now
    /\ pc \in {"judge", "reaped"} => turn.attempt.result.childElapsed \in Instants
    /\ disk.present => InTime(disk)
    /\ mem.present => InTime(mem)
    /\ pc \in {"idle", "load"} => mem = NoCheckpoint

LEMMA InstantsGrow ==
    /\ LastInstant \in Nat /\ 0 \in Instants
    /\ \A t \in Instants : t \in Int /\ t \in -1..LastInstant /\ t \in 0..t
    /\ \A t \in Instants : \A s \in 0..t : t - s \in Instants /\ s \in Instants
<1> QED BY BoundsAssumption DEF Instants

LEMMA TimeKept ==
    ASSUME TimeInv, UNCHANGED now, ChildrenInTime',
           disk' = disk \/ InTime(disk'),
           mem' = mem \/ InTime(mem') \/ mem' = NoCheckpoint,
           AtWork' => turn'.started \in 0..now,
           pc' \in {"judge", "reaped"} => turn'.attempt.result.childElapsed \in Instants,
           pc' \in {"idle", "load"} => mem' = NoCheckpoint
    PROVE  TimeInv'
<1>1. (disk.present => InTime(disk))' /\ (mem.present => InTime(mem))'
  BY DEF TimeInv, NoCheckpoint
<1> QED BY <1>1 DEF TimeInv

LEMMA SameChildrenInTime ==
    ASSUME TimeInv, UNCHANGED << now, launches >>
    PROVE  ChildrenInTime'
<1> QED BY DEF TimeInv, ChildrenInTime

\* The runner stops, whatever it stored.
LEMMA TimeStops ==
    ASSUME TimeInv, UNCHANGED << now, launches >>, disk' = disk \/ InTime(disk'),
           pc' = "idle", mem' = NoCheckpoint
    PROVE  TimeInv'
<1> QED BY SameChildrenInTime, TimeKept DEF AtWork

\* It goes on between two attempts.
LEMMA TimeBetween ==
    ASSUME TimeInv, UNCHANGED << now, launches >>, disk' = disk \/ InTime(disk'),
           mem' = mem \/ InTime(mem'),
           pc' \in {"turn", "reserve", "reconcile", "publish", "promoted"}
    PROVE  TimeInv'
<1> QED BY SameChildrenInTime, TimeKept DEF AtWork

\* It is at work on one.
LEMMA TimeAtWork ==
    ASSUME TimeInv, AtWork, UNCHANGED now, ChildrenInTime', disk' = disk \/ InTime(disk'),
           mem' = mem \/ InTime(mem'), turn'.started = turn.started,
           pc' \in {"check", "launch", "launched", "wait", "reap"}
    PROVE  TimeInv'
<1> QED BY TimeKept DEF TimeInv

LEMMA TransitionInTime ==
    ASSUME NEW m, Stored(m), InTime(m), NEW index, index = 0 \/ index \in DOMAIN m.attempts,
           NEW given, DOMAIN given = AttemptFields, Lasts(given.result),
           NEW event \in {"reserved", "running", "heartbeat", "completed"}
    PROVE  InTime(Transition(m, index, given, event))
<1> DEFINE c == Transition(m, index, given, event)
           at == At(m, index)
<1>1. Makes(m, index, given, event, c) /\ Adds(m, index, given, event, c)
  BY TransitionMakes, TransitionAdds
<1> HIDE DEF c, at
<1>2. /\ DOMAIN c.attempts = DOMAIN m.attempts \cup {at}
      /\ \A k \in DOMAIN m.attempts : k # at => c.attempts[k] = m.attempts[k]
  BY <1>1 DEF Makes, at
<1>3. c.attempts[at].result = given.result /\ c.completedAt = m.completedAt
  BY <1>1 DEF Adds, at
<1>4. InTime(c)
  BY <1>2, <1>3 DEF InTime
<1> QED BY <1>4 DEF c

LEMMA NoResultLasts == Lasts(NoResult) /\ Lasts([NoResult EXCEPT !.exit = -1])
<1> QED BY InstantsGrow DEF Lasts, NoResult

\* What is held of the attempt at work is in time.
LEMMA HeldInTime ==
    ASSUME IInv, EInv, TimeInv, AtWork
    PROVE  /\ Stored(mem) /\ InTime(mem) /\ Lasts(Attempt.result)
           /\ turn.index \in DOMAIN mem.attempts /\ DOMAIN Attempt = AttemptFields
           /\ turn.started \in 0..now
<1>1. Stored(mem) /\ turn.index \in DOMAIN mem.attempts /\ DOMAIN Attempt = AttemptFields
  BY AttemptHeld
<1>2. InTime(mem)
  BY <1>1 DEF TimeInv, Stored
<1> QED BY <1>1, <1>2 DEF InTime, Attempt, TimeInv

LEMMA MakesInTime ==
    ASSUME IInv, EInv, TimeInv, AtWork, NEW given, DOMAIN given = AttemptFields,
           Lasts(given.result), NEW event \in {"running", "heartbeat", "completed"}
    PROVE  InTime(Transition(mem, turn.index, given, event))
<1>1. Stored(mem) /\ InTime(mem) /\ turn.index \in DOMAIN mem.attempts
  BY HeldInTime
<1> QED BY <1>1, TransitionInTime

-----------------------------------------------------------------------------
(* Starting, the turn of a node, and attempts that end without a child.    *)

LEMMA StartInTime == ASSUME TimeInv, Start PROVE TimeInv'
<1>1. UNCHANGED << now, launches, disk >> /\ pc = "idle"
  BY DEF Start
<1>2. CASE pc' = "idle" /\ mem' = NoCheckpoint
  BY <1>1, <1>2, TimeStops
<1>3. CASE pc' = "load" /\ UNCHANGED mem
  BY <1>1, <1>3 DEF TimeInv, ChildrenInTime, AtWork
<1> QED BY <1>2, <1>3 DEF Start, Finish

LEMMA CreateInTime == ASSUME TimeInv, Create PROVE TimeInv'
<1>1. UNCHANGED << now, launches >>
  BY DEF Create, Surroundings
<1>2. PICK e : e = EmptyCheckpoint
  OBVIOUS
<1>3. InTime(e)
  <2>1. DOMAIN e.attempts = {} /\ e.completedAt = -1
    BY <1>2, EmptyIsStored DEF EmptyCheckpoint
  <2> QED BY <2>1, InstantsGrow DEF InTime
<1>4. \/ disk' = e /\ mem' = e /\ pc' = "turn"
      \/ disk' \in {disk, e} /\ pc' = "idle" /\ mem' = NoCheckpoint
  BY <1>2 DEF Create, Written, WriteFails, Finish
<1> QED BY <1>1, <1>3, <1>4, TimeStops, TimeBetween

LEMMA ResumeInTime == ASSUME TimeInv, Resume PROVE TimeInv'
<1>1. UNCHANGED << now, launches, disk >>
  BY DEF Resume, Surroundings
<1>2. InTime(disk)
  BY DEF Resume, TimeInv
<1>3. \/ pc' = "idle" /\ mem' = NoCheckpoint
      \/ pc' \in {"turn", "reconcile"} /\ mem' = disk
  BY DEF Resume, Finish, AfterLoad
<1> QED BY <1>1, <1>2, <1>3, TimeStops, TimeBetween

\* A step that stores c, which is in time, or stops because it could not.
LEMMA StoresInTime ==
    ASSUME TimeInv, UNCHANGED Surroundings, NEW c, InTime(c), NEW next, NEW keep,
           StoreOrStop(c, next, keep)
    PROVE  \/ TimeInv'
           \/ /\ UNCHANGED << now, launches >>
              /\ mem' = c /\ disk' = c /\ pc' = next /\ turn' = keep
<1>1. UNCHANGED << now, launches >>
  BY DEF Surroundings
<1>2. \/ disk' = c /\ mem' = c /\ pc' = next /\ turn' = keep
      \/ disk' \in {disk, c} /\ pc' = "idle" /\ mem' = NoCheckpoint
  BY DEF StoreOrStop, Written, WriteFails, Finish
<1> QED BY <1>1, <1>2, TimeStops

LEMMA TurnInTime ==
    ASSUME IInv, EInv, TimeInv, pc \in {"turn", "reserve"}
    PROVE  Stored(mem) /\ InTime(mem)
<1>1. Stored(mem)
  BY TurnHeld
<1> QED BY <1>1 DEF TimeInv, Stored

LEMMA HardWallInTime == ASSUME TimeInv, HardWallReached PROVE TimeInv'
<1> QED BY TimeStops DEF HardWallReached, Surroundings, Fail, Finish

LEMMA TransientInTime == ASSUME IInv, EInv, TimeInv, RecordTransient PROVE TimeInv'
<1> DEFINE given == [NewAttempt(Current, 1) EXCEPT
                !.state = "completed", !.completed = TRUE,
                !.outcome = "transient_infrastructure", !.result.exit = -1]
           event == "completed"
           c == Transition(mem, 0, given, event)
<1>1. StoreOrStop(c, "reserve", turn) /\ UNCHANGED Surroundings /\ pc = "turn"
  BY DEF RecordTransient
<1>2. DOMAIN given = AttemptFields /\ given.result = [NoResult EXCEPT !.exit = -1]
  BY DEF NewAttempt, AttemptFields
<1> HIDE DEF given
<1>3. Lasts(given.result)
  BY <1>2, NoResultLasts
<1>4. Stored(mem) /\ InTime(mem)
  BY <1>1, TurnInTime
<1>5. InTime(c)
  BY <1>2, <1>3, <1>4, TransitionInTime
<1> HIDE DEF c
<1> QED BY <1>1, <1>5, StoresInTime, TimeBetween

LEMMA ReserveInTime == ASSUME IInv, EInv, TimeInv, Reserve PROVE TimeInv'
<1> DEFINE given == NewAttempt(Current, NextNumber)
           event == "reserved"
           c == Transition(mem, 0, given, event)
           keep == [index |-> Len(mem.attempts) + 1, started |-> now]
<1>1. /\ StoreOrStop(c, "limit", keep) /\ UNCHANGED Surroundings
      /\ pc \in {"turn", "reserve"}
  BY DEF Reserve, Reserves
<1>2. DOMAIN given = AttemptFields /\ given.result = NoResult
  BY DEF NewAttempt, AttemptFields
<1> HIDE DEF given
<1>3. Lasts(given.result)
  BY <1>2, NoResultLasts
<1>4. Stored(mem) /\ InTime(mem)
  BY <1>1, TurnInTime
<1>5. InTime(c)
  BY <1>2, <1>3, <1>4, TransitionInTime
<1> HIDE DEF c
<1>6. keep.started = now
  OBVIOUS
<1> HIDE DEF keep
<1>7. ASSUME UNCHANGED << now, launches >>, mem' = c, disk' = c, pc' = "limit", turn' = keep
      PROVE  TimeInv'
  <2>1. turn'.started \in 0..now
    BY <1>6, <1>7, InstantsGrow DEF TimeInv
  <2> QED BY <1>5, <1>7, <2>1, SameChildrenInTime, TimeKept
<1> QED BY <1>1, <1>5, <1>7, StoresInTime

LEMMA EndsInTime ==
    ASSUME IInv, EInv, TimeInv, AtWork, UNCHANGED << now, launches >>,
           NEW given, DOMAIN given = AttemptFields, Lasts(given.result),
           disk' \in {disk, Transition(mem, turn.index, given, "completed")},
           pc' = "idle", mem' = NoCheckpoint
    PROVE  TimeInv'
<1> DEFINE event == "completed"
           c == Transition(mem, turn.index, given, event)
<1>1. InTime(c)
  BY MakesInTime
<1>2. disk' \in {disk, c}
  OBVIOUS
<1> HIDE DEF c
<1> QED BY <1>1, <1>2, TimeStops

\* An attempt that ends without a child.
LEMMA UnlaunchedLasts ==
    ASSUME NEW a, DOMAIN a = AttemptFields, a.result = NoResult, NEW outcome,
           NEW elapsed \in Instants
    PROVE  LET given == [a EXCEPT !.state = "completed", !.completed = TRUE,
                            !.outcome = outcome, !.result.exit = -1, !.result.elapsed = elapsed]
           IN  DOMAIN given = AttemptFields /\ Lasts(given.result)
<1> DEFINE given == [a EXCEPT !.state = "completed", !.completed = TRUE,
                            !.outcome = outcome, !.result.exit = -1, !.result.elapsed = elapsed]
<1>1. DOMAIN given = AttemptFields
  OBVIOUS
<1>2. given.result = [NoResult EXCEPT !.exit = -1, !.elapsed = elapsed]
  BY DEF AttemptFields
<1>3. given.result.elapsed = elapsed /\ given.result.childElapsed = 0
  BY <1>2 DEF NoResult
<1> HIDE DEF given
<1>4. Lasts(given.result)
  BY <1>3, InstantsGrow DEF Lasts
<1> QED BY <1>1, <1>4 DEF given

LEMMA EndUnlaunchedInTime ==
    ASSUME IInv, EInv, TimeInv, pc \in {"limit", "check"}, UNCHANGED Surroundings,
           NEW outcome, NEW elapsed \in Instants, NEW code,
           EndUnlaunched(outcome, elapsed, code)
    PROVE  TimeInv'
<1> DEFINE given == [Attempt EXCEPT
            !.state = "completed", !.completed = TRUE, !.outcome = outcome,
            !.result.exit = -1, !.result.elapsed = elapsed]
<1>1. AtWork /\ UNCHANGED << now, launches >>
  BY DEF AtWork, Surroundings
<1>2. DOMAIN Attempt = AttemptFields
  BY <1>1, HeldInTime
<1>3. Attempt.result = NoResult
  BY DEF EInv, AttemptInv, Awaits
<1>4. DOMAIN given = AttemptFields /\ Lasts(given.result)
  BY <1>2, <1>3, UnlaunchedLasts
<1>5. /\ disk' \in {disk, Transition(mem, turn.index, given, "completed")}
      /\ pc' = "idle" /\ mem' = NoCheckpoint
  BY DEF EndUnlaunched, Written, WriteFails, Finish
<1> HIDE DEF given
<1> QED BY ONLY IInv, EInv, TimeInv, <1>1, <1>4, <1>5, EndsInTime

\* The time since the reservation.
LEMMA SinceReserved ==
    ASSUME IInv, EInv, TimeInv, AtWork
    PROVE  now - turn.started \in Instants
<1> QED BY InstantsGrow DEF TimeInv

LEMMA LimitInTime == ASSUME IInv, EInv, TimeInv, Limit PROVE TimeInv'
<1>1. pc \in {"limit", "check"} /\ UNCHANGED Surroundings /\ AtWork
  BY DEF Limit, AtWork
<1>2. CASE EndUnlaunched("execution_budget_exhausted", 0, "execution_budget_exhausted")
  BY <1>1, <1>2, InstantsGrow, EndUnlaunchedInTime
<1>3. CASE pc' = "check" /\ turn'.started = turn.started /\ UNCHANGED << mem, disk >>
  <2>1. UNCHANGED << now, launches >>
    BY <1>1 DEF Surroundings
  <2> QED BY <1>1, <1>3, <2>1, SameChildrenInTime, TimeAtWork
<1> QED BY <1>2, <1>3 DEF Limit

LEMMA CheckInTime == ASSUME IInv, EInv, TimeInv, Check PROVE TimeInv'
<1> DEFINE outcome == PreLaunchOutcome.outcome
           elapsed == PreLaunchOutcome.elapsed
           code == PreLaunchOutcome.code
<1>1. pc \in {"limit", "check"} /\ UNCHANGED Surroundings /\ AtWork
  BY DEF Check, AtWork
<1>2. elapsed \in Instants
  BY <1>1, SinceReserved, InstantsGrow DEF PreLaunchOutcome
<1>3. \/ EndUnlaunched(outcome, elapsed, code)
      \/ pc' = "launch" /\ UNCHANGED << mem, disk, turn >>
  BY DEF Check
<1> HIDE DEF outcome, elapsed, code
<1>4. CASE EndUnlaunched(outcome, elapsed, code)
  BY <1>1, <1>2, <1>4, EndUnlaunchedInTime
<1>5. CASE pc' = "launch" /\ UNCHANGED << mem, disk, turn >>
  <2>1. UNCHANGED << now, launches >>
    BY <1>1 DEF Surroundings
  <2> QED BY <1>1, <1>5, <2>1, SameChildrenInTime, TimeAtWork
<1> QED BY <1>3, <1>4, <1>5

LEMMA LaunchFailsInTime == ASSUME IInv, EInv, TimeInv, LaunchFails PROVE TimeInv'
<1> DEFINE given == [Attempt EXCEPT
                !.state = "completed", !.completed = TRUE,
                !.outcome = "child_process_start_failed",
                !.result.exit = -1, !.result.elapsed = now - turn.started]
<1>1. AtWork /\ UNCHANGED << now, launches >> /\ pc = "launch"
  BY DEF LaunchFails, AtWork, Surroundings
<1>2. DOMAIN Attempt = AttemptFields
  BY <1>1, HeldInTime
<1>3. Attempt.result = NoResult
  BY <1>1 DEF EInv, AttemptInv, Awaits
<1>4. now - turn.started \in Instants
  BY <1>1, SinceReserved
<1>5. DOMAIN given = AttemptFields /\ Lasts(given.result)
  BY <1>2, <1>3, <1>4, UnlaunchedLasts
<1>6. /\ disk' \in {disk, Transition(mem, turn.index, given, "completed")}
      /\ pc' = "idle" /\ mem' = NoCheckpoint
  BY DEF LaunchFails, Finish
<1> HIDE DEF given
<1> QED BY ONLY IInv, EInv, TimeInv, <1>1, <1>5, <1>6, EndsInTime

-----------------------------------------------------------------------------
(* Time, while a child runs.                                               *)

\* One child changes.
LEMMA ChildInTime ==
    ASSUME TimeInv, UNCHANGED now, NEW i \in DOMAIN launches, NEW child,
           launches' = [launches EXCEPT ![i] = child],
           child.started \in 0..now, child.elapsed \in Instants
    PROVE  ChildrenInTime'
<1> QED BY DEF TimeInv, ChildrenInTime

LEMMA LaunchInTime == ASSUME IInv, EInv, TimeInv, Launch PROVE TimeInv'
<1> DEFINE child == NewChild
<1>1. /\ pc = "launch" /\ launches' = Append(launches, child) /\ pc' = "launched"
      /\ UNCHANGED << now, disk, mem >> /\ turn'.started = turn.started
  BY DEF Launch
<1>2. child.started = now /\ child.elapsed = 0
  BY DEF NewChild
<1>3. IsSequence(launches)
  BY DEF IInv, LaunchInv
<1> HIDE DEF child
<1>4. \A i \in DOMAIN launches' :
          (i \in DOMAIN launches /\ launches'[i] = launches[i]) \/ launches'[i] = child
  BY <1>1, <1>3, Appended
<1>5. ChildrenInTime'
  BY <1>1, <1>2, <1>4, InstantsGrow DEF TimeInv, ChildrenInTime
<1> QED BY <1>1, <1>5, TimeAtWork DEF AtWork

LEMMA RecordRunningInTime == ASSUME IInv, EInv, TimeInv, RecordRunning PROVE TimeInv'
<1> DEFINE given == [Attempt EXCEPT
                !.launched = TRUE, !.state = "running", !.outcome = "running"]
           event == "running"
           c == Transition(mem, turn.index, given, event)
<1>1. /\ pc = "launched" /\ UNCHANGED << now, turn >>
      /\ mem' = c /\ disk' \in {disk, c} /\ pc' \in {"wait", "reap"}
      /\ \/ UNCHANGED launches
         \/ launches' = [launches EXCEPT ![turn.child].deadline = Least(@, now)]
  BY DEF RecordRunning, Written, WriteFails
<1>2. AtWork /\ turn.child \in DOMAIN launches
  BY <1>1 DEF AtWork, IInv, ChildInv
<1>3. DOMAIN Attempt = AttemptFields /\ Lasts(Attempt.result)
  BY <1>2, HeldInTime
<1>4. DOMAIN given = AttemptFields /\ Lasts(given.result)
  BY <1>3 DEF AttemptFields
<1> HIDE DEF given
<1>5. InTime(c)
  BY <1>2, <1>4, MakesInTime
<1> HIDE DEF c
<1>6. ChildrenInTime'
  <2>1. CASE UNCHANGED launches
    BY <1>1, <2>1, SameChildrenInTime
  <2>2. CASE launches' = [launches EXCEPT ![turn.child].deadline = Least(@, now)]
    <3> DEFINE child == [launches[turn.child] EXCEPT !.deadline = Least(@, now)]
    <3>1. launches' = [launches EXCEPT ![turn.child] = child]
      BY <2>2
    <3>2. DOMAIN launches[turn.child] = ChildFields
      BY <1>2 DEF IInv, LaunchInv
    <3>3. /\ child.started = launches[turn.child].started
          /\ child.elapsed = launches[turn.child].elapsed
      BY <3>2 DEF ChildFields
    <3>4. child.started \in 0..now /\ child.elapsed \in Instants
      BY <1>2, <3>3 DEF TimeInv, ChildrenInTime
    <3> HIDE DEF child
    <3> QED BY <1>1, <1>2, <3>1, <3>4, ChildInTime
  <2> QED BY <1>1, <2>1, <2>2
<1> QED BY <1>1, <1>2, <1>5, <1>6, TimeAtWork

LEMMA HeartbeatInTime == ASSUME IInv, EInv, TimeInv, Heartbeat PROVE TimeInv'
<1> DEFINE given == Attempt
           event == "heartbeat"
           c == Transition(mem, turn.index, given, event)
<1>1. /\ pc = "wait" /\ pc' = "wait" /\ UNCHANGED << now, launches >>
      /\ mem' = c /\ disk' \in {disk, c}
      /\ UNCHANGED turn \/ turn' = [turn EXCEPT !.late = TRUE]
  BY DEF Heartbeat, Surroundings, Written, WriteFails
<1>2. AtWork /\ DOMAIN turn = {"index", "started", "child", "late"}
  BY <1>1 DEF AtWork, IInv, ChildInv
<1>3. turn'.started = turn.started
  BY <1>1, <1>2
<1>4. DOMAIN given = AttemptFields /\ Lasts(given.result)
  BY <1>2, HeldInTime
<1> HIDE DEF given
<1>5. InTime(c)
  BY <1>2, <1>4, MakesInTime
<1> HIDE DEF c
<1> QED BY <1>1, <1>2, <1>3, <1>5, SameChildrenInTime, TimeAtWork

LEMMA ChildExitsInTime ==
    ASSUME IInv, TimeInv, NEW i \in DOMAIN launches, ChildExits(i)
    PROVE  TimeInv'
<1>1. PICK exit \in {0, 1}, passes \in {0, PartitionOf(launches[i].node).repeat} :
          launches' = [launches EXCEPT ![i] = [@ EXCEPT
                !.exited = TRUE, !.exit = exit, !.passes = passes,
                !.elapsed = now - launches[i].started, !.started = 0, !.deadline = 0]]
  BY DEF ChildExits
<1> DEFINE child == [launches[i] EXCEPT
                !.exited = TRUE, !.exit = exit, !.passes = passes,
                !.elapsed = now - launches[i].started, !.started = 0, !.deadline = 0]
<1>2. launches' = [launches EXCEPT ![i] = child]
  BY <1>1
<1>3. DOMAIN launches[i] = ChildFields
  BY DEF IInv, LaunchInv
<1>4. child.started = 0 /\ child.elapsed = now - launches[i].started
  BY <1>3 DEF ChildFields
<1>5. now \in Instants /\ launches[i].started \in 0..now
  BY DEF TimeInv, ChildrenInTime
<1>6. child.started \in 0..now /\ child.elapsed \in Instants
  BY <1>4, <1>5, InstantsGrow DEF Instants
<1> HIDE DEF child
<1>7. UNCHANGED << now, disk, runner >>
  BY DEF ChildExits
<1>8. ChildrenInTime'
  BY <1>2, <1>6, <1>7, ChildInTime
<1> QED BY <1>7, <1>8 DEF TimeInv, runner, AtWork

LEMMA SurroundingsInTime ==
    ASSUME TimeInv, Pass \/ Disturb \/ UNCHANGED vars
    PROVE  TimeInv'
<1>1. UNCHANGED << disk, launches, pc, mem, turn >>
  BY DEF Pass, Disturb, vars, runner
<1>2. now' \in Instants /\ \A t : t \in 0..now => t \in 0..now'
  BY InstantsGrow DEF Pass, Disturb, vars, TimeInv, Instants
<1> QED BY <1>1, <1>2 DEF TimeInv, ChildrenInTime, AtWork

LEMMA CollectInTime == ASSUME IInv, EInv, TimeInv, Collect PROVE TimeInv'
<1>1. /\ pc \in {"wait", "reap"} /\ pc' \in {"judge", "reaped"}
      /\ UNCHANGED << now, disk, mem, launches >>
  BY DEF Collect
<1>2. AtWork /\ turn.child \in DOMAIN launches
  BY <1>1 DEF AtWork, IInv, ChildInv
<1>3. DOMAIN Attempt = AttemptFields /\ turn.started \in 0..now
  BY <1>2, HeldInTime
<1>4. PICK wrote, observed :
        turn' = [index |-> turn.index, started |-> turn.started,
                 attempt |-> [Attempt EXCEPT !.stdout = wrote,
                    !.result = [exit |-> launches[turn.child].exit,
                                passes |-> launches[turn.child].passes,
                                childElapsed |-> launches[turn.child].elapsed, elapsed |-> 0,
                                after |-> AfterSnapshot]],
                 observed |-> observed]
  BY DEF Collect
<1>5. turn'.started = turn.started
  BY <1>4
<1>6. turn'.attempt.result.childElapsed = launches[turn.child].elapsed
  BY <1>3, <1>4 DEF AttemptFields
<1>7. launches[turn.child].elapsed \in Instants
  BY <1>2 DEF TimeInv, ChildrenInTime
<1> QED BY <1>1, <1>3, <1>5, <1>6, <1>7, SameChildrenInTime, TimeKept

-----------------------------------------------------------------------------
(* Time, after the child.                                                  *)

\* The end of an attempt whose child was collected.
LEMMA TimedInTime ==
    ASSUME IInv, EInv, TimeInv, pc \in {"judge", "reaped"}, NEW outcome
    PROVE  LET given == [Timed(turn.attempt) EXCEPT !.outcome = outcome]
           IN  InTime(Transition(mem, turn.index, given, "completed"))
<1> DEFINE given == [Timed(turn.attempt) EXCEPT !.outcome = outcome]
           a == turn.attempt
           elapsed == Most(now - turn.started, a.result.childElapsed)
           event == "completed"
<1>1. AtWork
  BY DEF AtWork
<1>2. /\ DOMAIN a = AttemptFields
      /\ DOMAIN a.result = {"exit", "passes", "childElapsed", "elapsed", "after"}
      /\ a.result.childElapsed \in Instants
  BY DEF IInv, JudgeInv, EInv, CollectedInv, Collected, TimeInv
<1>3. elapsed \in Instants
  BY <1>1, <1>2, SinceReserved DEF Most
<1>4. given = [a EXCEPT !.state = "completed", !.completed = TRUE,
                        !.result.elapsed = elapsed, !.outcome = outcome]
  BY <1>2 DEF Timed
<1> HIDE DEF a, elapsed, given
<1>5. given.result = [a.result EXCEPT !.elapsed = elapsed] /\ DOMAIN given = AttemptFields
  BY <1>2, <1>4 DEF AttemptFields
<1>6. Lasts(given.result)
  BY <1>2, <1>3, <1>5 DEF Lasts
<1>7. InTime(Transition(mem, turn.index, given, event))
  BY <1>1, <1>5, <1>6, MakesInTime
<1> QED BY <1>7 DEF given

LEMMA CompleteInTime == ASSUME IInv, EInv, TimeInv, Complete PROVE TimeInv'
<1> DEFINE outcome == Judge(mem, Timed(turn.attempt), turn.observed)
           given == [Timed(turn.attempt) EXCEPT !.outcome = outcome]
           c == Transition(mem, turn.index, given, "completed")
           keep == [index |-> 0]
<1>1. /\ pc \in {"judge", "reaped"} /\ UNCHANGED Surroundings
      /\ \/ StoreOrStop(c, "turn", keep)
         \/ disk' \in {disk, c} /\ pc' = "idle" /\ mem' = NoCheckpoint
  BY DEF Complete, Written, WriteFails, Finish
<1> HIDE DEF outcome
<1>2. InTime(c)
  BY <1>1, TimedInTime
<1> HIDE DEF c, keep
<1>3. UNCHANGED << now, launches >>
  BY <1>1 DEF Surroundings
<1> QED BY <1>1, <1>2, <1>3, StoresInTime, TimeStops, TimeBetween

LEMMA ReapInTime == ASSUME IInv, EInv, TimeInv, Reap PROVE TimeInv'
<1> DEFINE outcome == turn.observed
           given == [Timed(turn.attempt) EXCEPT !.outcome = outcome]
           c == Transition(mem, turn.index, given, "completed")
<1>1. /\ pc \in {"judge", "reaped"} /\ UNCHANGED << now, launches >>
      /\ disk' \in {disk, c} /\ pc' = "idle" /\ mem' = NoCheckpoint
  BY DEF Reap, Written, WriteFails, Finish, Surroundings
<1> HIDE DEF outcome
<1>2. InTime(c)
  BY <1>1, TimedInTime
<1> HIDE DEF c
<1> QED BY <1>1, <1>2, TimeStops

LEMMA CloseInTime == ASSUME IInv, EInv, TimeInv, Close PROVE TimeInv'
<1> DEFINE c == [mem EXCEPT !.completedAt = now]
<1>1. pc = "turn" /\ UNCHANGED Surroundings /\ StoreOrStop(c, "reconcile", turn)
  BY DEF Close
<1>2. Stored(mem) /\ InTime(mem)
  BY <1>1, TurnInTime
<1>3. c.attempts = mem.attempts /\ c.completedAt = now
  BY <1>2 DEF Stored, CheckpointFields
<1> HIDE DEF c
<1>4. InTime(c)
  BY <1>2, <1>3, InstantsGrow DEF InTime, TimeInv
<1> QED BY <1>1, <1>4, StoresInTime, TimeBetween

LEMMA EndInTime ==
    ASSUME TimeInv,
           Reconcile \/ (\E file \in Files : Publish(file)) \/ ReuseImport \/ Promoted \/ Crash
    PROVE  TimeInv'
<1>1. /\ UNCHANGED << now, launches, disk >>
      /\ \/ pc' = "idle" /\ mem' = NoCheckpoint
         \/ pc' \in {"publish", "promoted"} /\ UNCHANGED mem
  BY DEF Reconcile, Publish, ReuseImport, Promoted, Crash, Surroundings, Fail, Finish, Pending
<1> QED BY <1>1, TimeStops, TimeBetween

LEMMA TimeInitially == Init => TimeInv
<1> SUFFICES ASSUME Init PROVE TimeInv
  OBVIOUS
<1>1. DOMAIN launches = {} /\ now = Requests[asked].activation.phaseStart
  BY DEF Init, RunOf
<1>2. now \in Instants
  BY <1>1, RequestsAssumption DEF Init, Instants
<1> QED BY <1>1, <1>2 DEF Init, TimeInv, ChildrenInTime, AtWork, NoCheckpoint

LEMMA TimeInductive ==
    ASSUME IInv, EInv, TimeInv, [Next]_vars
    PROVE  TimeInv'
<1>1. CASE RunnerStep
  BY <1>1, CreateInTime, ResumeInTime, HardWallInTime, TransientInTime, ReserveInTime,
     LimitInTime, CheckInTime, LaunchInTime, RecordRunningInTime, CollectInTime,
     CompleteInTime, ReapInTime, CloseInTime, EndInTime DEF RunnerStep
<1>2. CASE \E i \in DOMAIN launches : ChildExits(i)
  BY <1>2, ChildExitsInTime
<1> QED BY <1>1, <1>2, StartInTime, LaunchFailsInTime, HeartbeatInTime, EndInTime,
           SurroundingsInTime DEF Next

-----------------------------------------------------------------------------
(* The surroundings of the runner.                                         *)

AroundInv ==
    /\ world \in {"approved", "tree", "unreadable", "git", "executable"}
    /\ pc \in {"idle", "load", "turn", "reserve", "limit", "check", "launch", "launched",
               "wait", "reap", "judge", "reaped", "reconcile", "publish", "promoted"}
    /\ starts \in 0..MaxStarts /\ faults \in 0..MaxFaults
    /\ disk.present => run.conflicts = {}
    /\ DOMAIN evidence \subseteq Nodes \X (1..2)

\* What a step of the runner leaves around it.
RunnerMoves ==
    /\ UNCHANGED << run, world, starts >>
    /\ UNCHANGED faults \/ (faults < MaxFaults /\ faults' = faults + 1)
    /\ pc # "idle"
    /\ pc' \in {"idle", "load", "turn", "reserve", "limit", "check", "launch", "launched",
                "wait", "reap", "judge", "reaped", "reconcile", "publish", "promoted"}

LEMMA EarlyMoves ==
    ASSUME Create \/ Resume \/ HardWallReached \/ RecordTransient \/ Reserve
    PROVE  RunnerMoves /\ UNCHANGED evidence
<1>1. CASE Create
  BY <1>1 DEF Create, Surroundings, request, Written, WriteFails, Finish, RunnerMoves
<1>2. CASE Resume
  BY <1>2 DEF Resume, Surroundings, request, AfterLoad, Finish, RunnerMoves
<1>3. CASE HardWallReached
  BY <1>3 DEF HardWallReached, Surroundings, request, Fail, Finish, RunnerMoves
<1>4. CASE RecordTransient
  BY <1>4 DEF RecordTransient, Surroundings, request, StoreOrStop, Written, WriteFails, Finish,
              RunnerMoves
<1>5. CASE Reserve
  BY <1>5 DEF Reserve, Reserves, Surroundings, request, StoreOrStop, Written, WriteFails,
              Finish, RunnerMoves
<1> QED BY <1>1, <1>2, <1>3, <1>4, <1>5

LEMMA LaunchMoves ==
    ASSUME Limit \/ Check \/ Launch \/ LaunchFails \/ RecordRunning \/ Heartbeat
    PROVE  RunnerMoves /\ UNCHANGED evidence
<1>1. CASE Limit
  BY <1>1 DEF Limit, EndUnlaunched, Surroundings, request, Written, WriteFails, Finish,
              RunnerMoves
<1>2. CASE Check
  BY <1>2 DEF Check, EndUnlaunched, Surroundings, request, Written, WriteFails, Finish,
              RunnerMoves
<1>3. CASE Launch
  BY <1>3 DEF Launch, request, bounds, RunnerMoves
<1>4. CASE LaunchFails
  BY <1>4 DEF LaunchFails, Surroundings, request, Finish, RunnerMoves
<1>5. CASE RecordRunning
  BY <1>5 DEF RecordRunning, request, Written, WriteFails, RunnerMoves
<1>6. CASE Heartbeat
  BY <1>6 DEF Heartbeat, Surroundings, request, Written, WriteFails, RunnerMoves
<1> QED BY <1>1, <1>2, <1>3, <1>4, <1>5, <1>6

LEMMA LateMoves ==
    ASSUME \/ Complete \/ Reap \/ Close \/ Reconcile \/ (\E file \in Files : Publish(file))
           \/ ReuseImport \/ Promoted \/ Crash
    PROVE  RunnerMoves /\ UNCHANGED evidence
<1>1. CASE Complete
  BY <1>1 DEF Complete, Surroundings, request, StoreOrStop, Written, WriteFails, Finish,
              RunnerMoves
<1>2. CASE Reap
  BY <1>2 DEF Reap, Surroundings, request, Written, WriteFails, Finish, RunnerMoves
<1>3. CASE Close
  BY <1>3 DEF Close, Surroundings, request, StoreOrStop, Written, WriteFails, Finish,
              RunnerMoves
<1>4. CASE Reconcile
  BY <1>4 DEF Reconcile, Surroundings, request, Fail, Finish, RunnerMoves
<1>5. CASE \E file \in Files : Publish(file)
  BY <1>5 DEF Publish, request, Pending, Finish, RunnerMoves
<1>6. CASE ReuseImport
  BY <1>6 DEF ReuseImport, Surroundings, request, Pending, Finish, RunnerMoves
<1>7. CASE Promoted
  BY <1>7 DEF Promoted, request, bounds, RunnerMoves
<1>8. CASE Crash
  BY <1>8 DEF Crash, Surroundings, request, RunnerMoves
<1> QED BY <1>1, <1>2, <1>3, <1>4, <1>5, <1>6, <1>7, <1>8

LEMMA MovesAround ==
    ASSUME EInv, AroundInv, RunnerMoves, DOMAIN evidence' \subseteq Nodes \X (1..2)
    PROVE  AroundInv'
<1>1. Nodes' = Nodes /\ run'.conflicts = {}
  BY DEF RunnerMoves, Nodes, Partitions, EInv, AdmittedInv
<1>2. faults' \in 0..MaxFaults
  BY BoundsAssumption DEF AroundInv, RunnerMoves
<1> QED BY <1>1, <1>2 DEF AroundInv, RunnerMoves

LEMMA StaysAround ==
    ASSUME EInv, AroundInv, RunnerMoves, UNCHANGED evidence
    PROVE  AroundInv'
<1> QED BY MovesAround DEF AroundInv

LEMMA StartAround == ASSUME AroundInv, Start PROVE AroundInv'
<1>1. /\ UNCHANGED << run, world, disk, evidence, faults >>
      /\ starts < MaxStarts /\ starts' = starts + 1 /\ pc' \in {"idle", "load"}
  BY DEF Start, request, Finish
<1>2. starts' \in 0..MaxStarts
  BY <1>1, BoundsAssumption DEF AroundInv
<1> QED BY <1>1, <1>2 DEF AroundInv, Nodes, Partitions

LEMMA CollectAround == ASSUME IInv, EInv, AroundInv, Collect PROVE AroundInv'
<1>1. AtWork /\ RunnerMoves
  BY DEF Collect, request, RunnerMoves, AtWork
<1>2. DOMAIN Attempt = AttemptFields /\ Planned(Attempt)
  BY <1>1, AttemptHeld DEF AttemptKept
<1>3. Key(Attempt) \in Nodes \X (1..2)
  BY <1>2 DEF Planned, Key
<1>4. PICK attempt, content :
        /\ attempt.node = Attempt.node /\ attempt.number = Attempt.number
        /\ evidence' \in {evidence, EvidenceWith(Key(attempt), content)}
  <2>1. PICK wrote \in BOOLEAN :
          LET child == launches[turn.child]
              attempt == [Attempt EXCEPT !.stdout = wrote,
                    !.result = [exit |-> child.exit, passes |-> child.passes,
                                childElapsed |-> child.elapsed, elapsed |-> 0,
                                after |-> AfterSnapshot]]
          IN  evidence' = IF wrote THEN EvidenceWith(Key(attempt), child.passes) ELSE evidence
    BY DEF Collect
  <2> DEFINE child == launches[turn.child]
             attempt == [Attempt EXCEPT !.stdout = wrote,
                    !.result = [exit |-> child.exit, passes |-> child.passes,
                                childElapsed |-> child.elapsed, elapsed |-> 0,
                                after |-> AfterSnapshot]]
  <2>2. attempt.node = Attempt.node /\ attempt.number = Attempt.number
    BY <1>2 DEF AttemptFields
  <2>3. evidence' \in {evidence, EvidenceWith(Key(attempt), child.passes)}
    BY <2>1
  <2> HIDE DEF attempt
  <2> QED BY <2>2, <2>3
<1>5. Key(attempt) = Key(Attempt)
  BY <1>4 DEF Key
<1>6. DOMAIN EvidenceWith(Key(attempt), content) = DOMAIN evidence \cup {Key(attempt)}
  BY DEF EvidenceWith
<1>7. DOMAIN evidence' \subseteq Nodes \X (1..2)
  BY <1>3, <1>4, <1>5, <1>6 DEF AroundInv
<1> QED BY <1>1, <1>7, MovesAround

LEMMA OutsideAround ==
    ASSUME AroundInv,
           Pass \/ Disturb \/ (\E i \in DOMAIN launches : ChildExits(i)) \/ UNCHANGED vars
    PROVE  AroundInv'
<1>1. UNCHANGED << run, disk, pc, starts >>
  BY DEF Pass, Disturb, ChildExits, vars, request, runner, bounds
<1>2. /\ world' \in {"approved", "tree", "unreadable", "git", "executable"}
      /\ DOMAIN evidence' \subseteq DOMAIN evidence
      /\ UNCHANGED faults \/ (faults < MaxFaults /\ faults' = faults + 1)
  BY DEF Pass, Disturb, ChildExits, vars, bounds, AroundInv
<1>3. faults' \in 0..MaxFaults
  BY <1>2, BoundsAssumption DEF AroundInv
<1> QED BY <1>1, <1>2, <1>3 DEF AroundInv, Nodes, Partitions

LEMMA AroundInitially == Init => AroundInv
<1> QED BY BoundsAssumption DEF Init, AroundInv, NoCheckpoint

LEMMA AroundInductive ==
    ASSUME IInv, EInv, AroundInv, [Next]_vars
    PROVE  AroundInv'
<1>1. CASE RunnerStep
  BY <1>1, EarlyMoves, LaunchMoves, LateMoves, StaysAround, CollectAround DEF RunnerStep
<1> QED BY <1>1, StartAround, LaunchMoves, LateMoves, StaysAround, OutsideAround DEF Next

-----------------------------------------------------------------------------
(* Counting: an attempt is known by its key, and there are few keys.        *)

LEMMA AdmittedCounts ==
    ASSUME run = RunOf(Requests[asked]), asked \in DOMAIN Requests, run.conflicts = {}
    PROVE  /\ IsFiniteSet(Nodes) /\ Cardinality(Nodes) <= PlannedNodes
           /\ run.attempts = MaximumAttempts
           /\ RetryNode \in Nodes /\ PartitionOf(RetryNode).class = "regular"
<1> DEFINE documents == Requests[asked]
           bindings == documents.activation.partitions
           authority == documents.authority
<1>1. /\ DocumentConflicts(documents) = {} /\ Partitions = bindings
      /\ run.attempts = authority.attempts /\ RetryNode = documents.activation.retryNode
  BY DEF RunOf, Partitions, RetryNode
<1>2. bindings \in Seq(Range(bindings))
  BY RequestsAssumption
<1> HIDE DEF documents
<1>3. AuthorityConflicts(documents) = {} /\ ManifestConflicts(documents) = {}
  BY <1>1 DEF DocumentConflicts
<1>4. PartitionsPlanned(documents) /\ RetryBound(documents.activation)
  BY <1>3, QuietManifest
<1>5. authority.attempts = MaximumAttempts
  <2>1. When(authority.nodes # PlannedNodes \/ authority.attempts # MaximumAttempts
                    \/ authority.launches # PlannedNodes \/ authority.scales # 1
                    \/ authority.retries # 1 \/ ~authority.local,
             "authority_scope_broadened") = {}
    BY <1>3 DEF AuthorityConflicts
  <2> QED BY <2>1 DEF When
<1>6. PICK k \in DOMAIN Partitions :
          Partitions[k].node = RetryNode /\ Partitions[k].class = "regular"
  BY <1>1, <1>4 DEF RetryBound
<1>7. RetryNode \in Nodes /\ PartitionOf(RetryNode).class = "regular"
  BY <1>6, OwnPartition DEF Nodes
<1>8. DOMAIN Partitions = 1..PlannedNodes
  BY <1>1, <1>2, <1>4 DEF PartitionsPlanned
<1> DEFINE node == [i \in 1..PlannedNodes |-> Partitions[i].node]
<1>9. node \in Surjection(1..PlannedNodes, Nodes)
  BY <1>8 DEF Surjection, Nodes
<1>10. IsFiniteSet(1..PlannedNodes) /\ Cardinality(1..PlannedNodes) = PlannedNodes
  BY FS_Interval, ActivationConstants
<1> HIDE DEF node
<1>11. IsFiniteSet(Nodes) /\ Cardinality(Nodes) <= PlannedNodes
  BY <1>9, <1>10, FS_Surjection
<1> QED BY <1>1, <1>5, <1>7, <1>11

\* The keys that attempts may have.
FirstKeys == {<<node, 1>> : node \in Nodes}
Keys == FirstKeys \cup {<<RetryNode, 2>>}

LEMMA FewKeys ==
    ASSUME run = RunOf(Requests[asked]), asked \in DOMAIN Requests, run.conflicts = {}
    PROVE  IsFiniteSet(Keys) /\ Cardinality(Keys) <= MaximumAttempts
<1>1. IsFiniteSet(Nodes) /\ Cardinality(Nodes) <= PlannedNodes
  BY AdmittedCounts
<1> DEFINE first == [node \in Nodes |-> <<node, 1>>]
<1>2. first \in Surjection(Nodes, FirstKeys)
  BY DEF Surjection, FirstKeys
<1> HIDE DEF first
<1>3. IsFiniteSet(FirstKeys) /\ Cardinality(FirstKeys) <= Cardinality(Nodes)
  BY <1>1, <1>2, FS_Surjection
<1>4. /\ IsFiniteSet(Keys)
      /\ Cardinality(Keys) \in {Cardinality(FirstKeys), Cardinality(FirstKeys) + 1}
  BY <1>3, FS_AddElement DEF Keys
<1>5. Cardinality(Nodes) \in Nat /\ Cardinality(FirstKeys) \in Nat
  BY <1>1, <1>3, FS_CardinalityType
<1> QED BY <1>1, <1>3, <1>4, <1>5, ActivationConstants DEF MaximumAttempts

LEMMA AttemptsFit ==
    ASSUME NEW c, Shape(c), NEW keys, IsFiniteSet(keys),
           \A k \in DOMAIN c.attempts : Key(c.attempts[k]) \in keys
    PROVE  Len(c.attempts) <= Cardinality(keys)
<1> DEFINE key == [k \in DOMAIN c.attempts |-> Key(c.attempts[k])]
<1>1. DOMAIN c.attempts = 1..Len(c.attempts) /\ Len(c.attempts) \in Nat
  BY Appended DEF Shape, Stored
<1>2. \A j, k \in DOMAIN c.attempts : key[j] = key[k] => j = k
  BY DEF Shape, Distinct, Key
<1>3. key \in Injection(DOMAIN c.attempts, keys)
  BY <1>2 DEF Injection, IsInjective
<1> HIDE DEF key
<1>4. Cardinality(DOMAIN c.attempts) <= Cardinality(keys)
  BY <1>3, FS_Injection
<1>5. Cardinality(DOMAIN c.attempts) = Len(c.attempts)
  BY <1>1, FS_Interval
<1> QED BY <1>4, <1>5

LEMMA KeysKnown ==
    ASSUME NEW c, Shape(c), NEW k \in DOMAIN c.attempts
    PROVE  Key(c.attempts[k]) \in Keys
<1>1. Planned(c.attempts[k])
  BY DEF Shape, AttemptsKept, AttemptKept
<1> QED BY <1>1 DEF Planned, Key, Keys, FirstKeys

\* What is admitted, and stored or held, has no more attempts than there are keys.
LEMMA FewAttempts ==
    ASSUME run = RunOf(Requests[asked]), asked \in DOMAIN Requests, run.conflicts = {},
           NEW c, Shape(c)
    PROVE  Len(c.attempts) <= MaximumAttempts
<1>1. IsFiniteSet(Keys) /\ Cardinality(Keys) <= MaximumAttempts
  BY FewKeys
<1>2. Len(c.attempts) <= Cardinality(Keys)
  BY <1>1, AttemptsFit, KeysKnown
<1>3. Len(c.attempts) \in Int /\ Cardinality(Keys) \in Int
  BY <1>1, Appended, FS_CardinalityType DEF Shape, Stored
<1> QED BY <1>1, <1>2, <1>3, ActivationConstants DEF MaximumAttempts

\* A node of the canary is started at most once, and there are as many as planned.
LEMMA FewChildren ==
    ASSUME IInv, EInv, AroundInv
    PROVE  Len(launches) <= PlannedNodes
<1>1. DOMAIN launches = 1..Len(launches) /\ Len(launches) \in Nat
  BY Appended DEF IInv, LaunchInv
<1>2. PICK n \in Nat : n = Len(launches)
  BY <1>1
<1>3. Cardinality(1..n) = n
  BY FS_Interval
<1>4. CASE disk = NoCheckpoint
  <2>1. DOMAIN launches = {}
    BY <1>4 DEF IInv, DiskInv, Stored, NoCheckpoint, CheckpointFields
  <2> QED BY <1>1, <2>1, ActivationConstants
<1>5. CASE disk # NoCheckpoint
  <2>1. PICK d : d = disk
    OBVIOUS
  <2>2. Shape(d) /\ Holds(d) /\ run.conflicts = {}
    BY <1>5, <2>1 DEF EInv, FileInv, IInv, DiskInv, AroundInv, Shape, Stored
  <2>3. IsFiniteSet(Nodes) /\ Cardinality(Nodes) <= PlannedNodes
    BY <2>2, AdmittedCounts DEF IInv
  <2> DEFINE node == [i \in DOMAIN launches |-> launches[i].node]
  <2>4. \A i \in DOMAIN launches : launches[i].node \in Nodes
    BY <2>2 DEF Holds, Shape, AttemptsKept, AttemptKept, Planned
  <2>5. \A i, j \in DOMAIN launches : node[i] = node[j] => i = j
    BY DEF IInv, LaunchInv
  <2>6. node \in Injection(DOMAIN launches, Nodes)
    BY <2>4, <2>5 DEF Injection, IsInjective
  <2> HIDE DEF node
  <2>7. Cardinality(DOMAIN launches) <= Cardinality(Nodes)
    BY <2>3, <2>6, FS_Injection
  <2>8. Cardinality(Nodes) \in Nat
    BY <2>3, FS_CardinalityType
  <2> QED BY <1>1, <1>2, <1>3, <2>3, <2>7, <2>8, ActivationConstants
<1> QED BY <1>4, <1>5

\* The runner's checkpoint is kept whenever it has one.
LEMMA MemoryShape ==
    ASSUME IInv, EInv, PublishedInv, TimeInv, AroundInv, mem.present
    PROVE  Shape(mem) /\ InTime(mem) /\ run.conflicts = {}
<1>1. InTime(mem) /\ pc \notin {"idle", "load"}
  BY DEF TimeInv, NoCheckpoint
<1>2. run.conflicts = {}
  BY <1>1 DEF EInv, AdmittedInv
<1>3. CASE pc \in {"turn", "reserve"}
  BY <1>1, <1>2, <1>3, TurnHeld
<1>4. CASE AtWork
  BY <1>1, <1>2, <1>4, AttemptHeld
<1>5. CASE pc \in {"reconcile", "publish", "promoted"}
  <2>1. mem = disk
    BY <1>5 DEF EInv, ReconcileInv, PublishedInv
  <2>2. PICK d : d = disk
    OBVIOUS
  <2>3. Shape(d)
    BY <2>1, <2>2 DEF EInv, FileInv, NoCheckpoint
  <2> QED BY <1>1, <1>2, <2>1, <2>2, <2>3
<1> QED BY <1>1, <1>3, <1>4, <1>5 DEF AroundInv, AtWork

LEMMA KeptIsTyped ==
    ASSUME NEW c, Shape(c), InTime(c), Len(c.attempts) <= MaximumAttempts
    PROVE  CheckpointOK(c)
<1>1. \A attempt : attempt \in AttemptsOf(c) <=> \E k \in DOMAIN c.attempts : attempt = c.attempts[k]
  BY DEF AttemptsOf, Range
<1>2. ASSUME NEW attempt \in AttemptsOf(c)
      PROVE  AttemptOK(attempt, c)
  <2>1. AttemptKept(attempt, Len(c.events)) /\ Lasts(attempt.result)
    BY <1>1 DEF Shape, AttemptsKept, InTime
  <2>2. attempt.node \in Nodes /\ attempt.number \in 1..2
    BY <2>1 DEF AttemptKept, Planned
  <2>3. /\ attempt.state \in {"reserved", "running", "completed"}
        /\ attempt.outcome \in {"launch_reserved", "running", "transient_infrastructure"}
                                    \cup Unstarted \cup JudgedOutcomes
    BY <2>1 DEF AttemptKept, Awaits, Runs, Ends, EndsWell
  <2>4. attempt.outcome \in Outcomes
    BY <2>3 DEF Outcomes, Unstarted, NeverLaunched, JudgedOutcomes
  <2> QED BY <2>1, <2>2, <2>3, <2>4 DEF AttemptOK, AttemptKept, Lasts, Instants
<1>3. c.completed \subseteq Nodes
  BY DEF Shape, Counted, AttemptsKept, AttemptKept, Planned
<1> QED BY <1>2, <1>3 DEF CheckpointOK, InTime

\* Every checkpoint, child and file a canary ever has is of its type: at most one attempt
\* for each planned node and one retry, with numbers, states and outcomes that the code
\* knows and times that the clock can show, and at most one child for each node.
THEOREM CanaryTyped == Spec => []TypeOK
<1>1. ASSUME IInv, EInv, PublishedInv, TimeInv, AroundInv PROVE TypeOK
  <2>1. asked \in Nat \ {0}
    BY <1>1, RequestsAssumption DEF IInv
  <2>2. CheckpointOK(disk)
    <3>1. CASE disk = NoCheckpoint
      BY <3>1 DEF CheckpointOK, NoCheckpoint
    <3>2. CASE disk # NoCheckpoint
      <4>1. PICK d : d = disk
        OBVIOUS
      <4>2. Shape(d) /\ InTime(d) /\ run.conflicts = {}
        BY <1>1, <3>2, <4>1 DEF EInv, FileInv, TimeInv, AroundInv, Shape, Stored
      <4>3. CheckpointOK(d)
        BY <1>1, <4>2, FewAttempts, KeptIsTyped DEF IInv
      <4> QED BY <4>1, <4>3
    <3> QED BY <3>1, <3>2
  <2>3. CheckpointOK(mem)
    <3>1. CASE ~ mem.present
      BY <3>1 DEF CheckpointOK
    <3>2. CASE mem.present
      <4>1. PICK m : m = mem
        OBVIOUS
      <4>2. Shape(m) /\ InTime(m) /\ run.conflicts = {}
        BY <1>1, <3>2, <4>1, MemoryShape
      <4>3. CheckpointOK(m)
        BY <1>1, <4>2, FewAttempts, KeptIsTyped DEF IInv
      <4> QED BY <4>1, <4>3
    <3> QED BY <3>1, <3>2
  <2>4. DOMAIN published = Files /\ \A file \in Files : Len(published[file]) <= 1
    <3>1. /\ published = [file \in Files |-> published[file]]
          /\ \A file \in Files : published[file] = <<>>
                \/ published[file] = <<FileContent(file, disk)>>
      BY <1>1 DEF PublishedInv, Filed
    <3>2. Len(<<>>) <= 1 /\ \A x : Len(<<x>>) <= 1
      OBVIOUS
    <3> QED BY <3>1, <3>2
  <2>5. Len(launches) <= PlannedNodes
    BY <1>1, FewChildren
  <2> QED BY <1>1, <2>1, <2>2, <2>3, <2>4, <2>5 DEF TypeOK, TimeInv, AroundInv, Instants
<1>2. IInv /\ EInv /\ PublishedInv /\ TimeInv /\ AroundInv /\ [Next]_vars
        => PublishedInv' /\ TimeInv' /\ AroundInv'
  BY PublishedInductive, TimeInductive, AroundInductive
<1> QED BY <1>1, <1>2, PublishedInitially, TimeInitially, AroundInitially, Kept, PTL DEF Spec

-----------------------------------------------------------------------------
(* The node whose turn comes.                                              *)

\* The key of the next attempt is one that no attempt has yet.
LEMMA NextKey ==
    ASSUME IInv, EInv, pc \in {"turn", "reserve"}, Open # {}
    PROVE  /\ <<Current.node, NextNumber>> \in Keys
           /\ \A k \in DOMAIN mem.attempts :
                Key(mem.attempts[k]) \in Keys \ {<<Current.node, NextNumber>>}
           /\ NextNumber <= IF Current.class = "scale" THEN 1 ELSE 2
<1>1. Shape(mem) /\ Current.node \in Nodes /\ PartitionOf(Current.node) = Current
  BY TurnKnows
<1>2. PICK m : m = mem
  OBVIOUS
<1>3. \A k \in DOMAIN m.attempts : Key(m.attempts[k]) \in Keys
  BY <1>1, <1>2, KeysKnown
<1>4. CASE /\ NextNumber = 1
           /\ \A k \in DOMAIN mem.attempts : mem.attempts[k].node # Current.node
  BY <1>1, <1>2, <1>3, <1>4 DEF Keys, FirstKeys, Key
<1>5. CASE /\ NextNumber = 2 /\ Current.node = RetryNode
           /\ \A k \in DOMAIN mem.attempts :
                mem.attempts[k].node = Current.node => mem.attempts[k].number = 1
  <2>1. run.conflicts = {}
    BY DEF EInv, AdmittedInv
  <2>2. Current.class = "regular"
    BY <1>1, <1>5, <2>1, AdmittedCounts DEF IInv
  <2>3. <<Current.node, NextNumber>> \in Keys
    BY <1>5 DEF Keys
  <2>4. \A k \in DOMAIN mem.attempts : Key(mem.attempts[k]) # <<Current.node, NextNumber>>
    BY <1>5 DEF Key
  <2> QED BY <1>2, <1>3, <1>5, <2>2, <2>3, <2>4
<1> QED BY <1>4, <1>5, Numbered

\* The refusals of a second retry and of a retry of the scale test are never answered:
\* wherever a runner died, a node that has not passed still has its attempt.
THEOREM AttemptIsLeftHolds == Spec => []AttemptIsLeft
<1>1. ASSUME IInv, EInv PROVE AttemptIsLeft
  <2> SUFFICES ASSUME Reserves PROVE AttemptLeft
    BY DEF AttemptIsLeft
  <2>1. pc \in {"turn", "reserve"} /\ Open # {}
    BY <1>1 DEF Reserves, IInv, TurnInv
  <2>2. Shape(mem) /\ run.conflicts = {}
    BY <1>1, <2>1, TurnHeld DEF EInv, AdmittedInv
  <2>3. /\ run.attempts = MaximumAttempts /\ IsFiniteSet(Keys)
        /\ Cardinality(Keys) <= MaximumAttempts
    BY <1>1, <2>2, AdmittedCounts, FewKeys DEF IInv
  <2> DEFINE key == <<Current.node, NextNumber>>
             rest == Keys \ {key}
  <2>4. key \in Keys /\ (\A k \in DOMAIN mem.attempts : Key(mem.attempts[k]) \in rest)
    BY <1>1, <2>1, NextKey
  <2>5. IsFiniteSet(rest) /\ Cardinality(rest) = Cardinality(Keys) - 1
    BY <2>3, <2>4, FS_RemoveElement
  <2> HIDE DEF rest
  <2>6. PICK m : m = mem
    OBVIOUS
  <2>7. Len(m.attempts) <= Cardinality(rest)
    BY <2>2, <2>4, <2>5, <2>6, AttemptsFit
  <2>8. Len(mem.attempts) \in Nat /\ Cardinality(Keys) \in Nat
    BY <2>2, <2>3, Appended, FS_CardinalityType DEF Shape, Stored
  <2>9. Len(mem.attempts) < run.attempts
    BY <2>3, <2>5, <2>6, <2>7, <2>8, ActivationConstants DEF MaximumAttempts
  <2> QED BY <1>1, <2>1, <2>9, NextKey DEF AttemptLeft
<1> QED BY <1>1, Kept, PTL

\* Whatever a runner leaves on disk, after any crash and any failing write, is a
\* checkpoint that LoadSoakCanaryCheckpoint accepts, except the five kinds that are
\* known to be rejected; and one that goes on from it has an attempt for each node
\* that has not passed.
THEOREM ReloadsItsOwnHolds == Spec => []ReloadsItsOwn
<1>1. ASSUME EInv, AttemptIsLeft PROVE ReloadsItsOwn
  <2> SUFFICES ASSUME disk.present, ~ Unreadable(disk) PROVE ValidCheckpoint(disk)
    BY <1>1 DEF ReloadsItsOwn
  <2>1. PICK d : d = disk
    OBVIOUS
  <2>2. Shape(d)
    BY <1>1, <2>1 DEF EInv, FileInv, NoCheckpoint
  <2> QED BY <2>1, <2>2, ShapeIsValid
<1> QED BY <1>1, Kept, AttemptIsLeftHolds, PTL

-----------------------------------------------------------------------------
(* Planned tests keep to their plan.                                       *)

\* The estimate of a partition is within everything its attempts are held to.
Fits(p) ==
    /\ p.estimate \in Nat
    /\ \A limit \in {p.perAttempt, p.totalNode, p.nodeBudget, p.retryAllowance} :
            limit \in Int /\ p.estimate <= limit

LEMMA BindingFits ==
    ASSUME NEW input, NEW p, p.estimate \in Nat,
           \A limit \in {input.perAttempt, input.totalNode, p.nodeBudget, p.retryAllowance} :
                limit \in Int /\ p.estimate <= limit
    PROVE  Fits(Binding(input, p)) /\ Binding(input, p).estimate = p.estimate
<1> QED BY DEF Fits, Binding

\* A plan that is allowed: its partitions, and what they cost when no retry is used.
LEMMA AllowedFits ==
    ASSUME NEW input, PlanInput(input), NEW plan, plan = BuildSoakPlan(input), plan.allowed
    PROVE  \E n \in Nat :
            /\ DOMAIN plan.partitions = 1..n
            /\ \A i \in 1..n : Fits(Binding(input, plan.partitions[i]))
            /\ plan.totalWithRetry \in Int
            /\ \A estimate :
                 (\A i \in 1..n : estimate[i] = Binding(input, plan.partitions[i]).estimate)
                    => SumFunctionOnSet(estimate, 1..n) <= plan.totalWithRetry
<1>1. PICK partitions : partitions = PlannedPartitions(input)
  OBVIOUS
<1>2. PICK n \in Nat : /\ Len(partitions) = n /\ DOMAIN partitions = 1..n
                       /\ \A i \in 1..n : Sound(partitions[i])
  BY <1>1, PlannedIsSound
<1>3. plan = PlanOver(input, partitions)
  BY <1>1 DEF BuildSoakPlan
<1>4. PICK costs : costs = Costs(input, partitions)
  OBVIOUS
<1>5. EnvelopeConflicts(input) = {} /\ CostConflicts(input, partitions, costs) = {}
  BY <1>3, <1>4, AllowedIsQuiet
<1>6. /\ plan.partitions = [i \in 1..n |->
            [partitions[i] EXCEPT !.retryAllowance = WithRetry(input, partitions[i])]]
      /\ plan.totalWithRetry = costs.spent.ms
  BY <1>2, <1>3, <1>4 DEF PlanOver, Plan
<1>7. /\ input.retry.attempts \in 1..4 /\ Attempts(input) = input.retry.attempts
      /\ RetrySlots(input) \in Nat
  BY <1>5, QuietRetry
<1>8. PICK zeros : zeros = [i \in 1..n |-> 0]
  OBVIOUS
<1>9. PICK cost : cost = [i \in 1..n |-> partitions[i].estimate]
  OBVIOUS
<1>10. \A i \in 1..n : zeros[i] \in Nat /\ zeros[i] <= RetrySlots(input) /\ zeros[i] = 0
  BY <1>7, <1>8
<1>11. \A i \in 1..n : cost[i] = partitions[i].estimate /\ cost[i] \in Nat
  BY <1>2, <1>9 DEF Sound
<1>12. \A i \in 1..n : cost[i] = (zeros[i] + 1) * partitions[i].estimate
  <2>1. ASSUME NEW i \in 1..n PROVE cost[i] = (zeros[i] + 1) * partitions[i].estimate
    <3>1. PICK e \in Nat : e = partitions[i].estimate
      BY <1>11
    <3>2. (0 + 1) * e = e
      OBVIOUS
    <3> QED BY <1>10, <1>11, <3>1, <3>2
  <2> QED BY <2>1
<1>13. CostsFit(input, partitions, n, zeros, cost)
  BY <1>2, <1>4, <1>5, <1>10, <1>12, CostsCovered
<1>14. IsFiniteSet(1..n)
  BY FS_Interval
<1>15. SumFunctionOnSet(zeros, 1..n) = 0
  BY <1>10, <1>14, SumZero
<1>16. ~LimitsRetries(input) \/ SumFunctionOnSet(zeros, 1..n) <= input.retry.total
  <2>1. LimitsRetries(input) => ~(input.retry.total < 0)
    BY <1>5, QuietCosts
  <2>2. input.retry.total \in Int
    BY DEF PlanInput
  <2> QED BY ONLY <1>15, <2>1, <2>2
<1>17. SumFunctionOnSet(cost, 1..n) <= costs.spent.ms /\ costs.spent.ms \in Int
  BY <1>4, <1>13, <1>16 DEF CostsFit
<1>18. ASSUME NEW i \in 1..n
       PROVE  /\ Fits(Binding(input, plan.partitions[i]))
              /\ Binding(input, plan.partitions[i]).estimate = cost[i]
  <2>1. PICK partition : partition = partitions[i]
    OBVIOUS
  <2>2. PICK ms : ms = WithRetry(input, partition)
    OBVIOUS
  <2>3. PICK p : p = [partition EXCEPT !.retryAllowance = ms]
    OBVIOUS
  <2>4. plan.partitions[i] = p
    BY <1>6, <2>1, <2>2, <2>3
  <2>5. Sound(partition)
    BY <1>2, <2>1
  <2>6. /\ p.estimate = partition.estimate /\ p.nodeBudget = partition.nodeBudget
        /\ p.retryAllowance = ms
    BY ONLY <2>3, <2>5 DEF Sound
  <2>7. ms \in Int
    <3>1. partition.estimate \in Int /\ Attempts(input) \in Int
      BY <1>7, <2>5 DEF Sound
    <3>2. CheckedMultiply(partition.estimate, Attempts(input)) \in Amounts
      BY <3>1, CheckedProduct
    <3> QED BY <2>2, <3>2 DEF WithRetry, Amounts
  <2>8. /\ cost[i] = partition.estimate /\ cost[i] \in Nat /\ cost[i] <= input.totalNode
        /\ cost[i] <= partition.nodeBudget /\ cost[i] <= ms
    BY <1>11, <1>13, <2>1, <2>2 DEF CostsFit
  <2>9. ~(partition.estimate > input.perAttempt)
    BY <1>2, <1>5, <2>1, QuietCosts
  <2>10. input.perAttempt \in Int /\ input.totalNode \in Int /\ partition.nodeBudget \in Int
    BY <2>5 DEF PlanInput, Sound
  <2>11. partition.estimate <= input.perAttempt
    BY <2>8, <2>9, <2>10
  <2> QED BY <2>4, <2>6, <2>7, <2>8, <2>10, <2>11, BindingFits
<1>19. DOMAIN plan.partitions = 1..n
  BY <1>6
<1>20. ASSUME NEW estimate,
              \A i \in 1..n : estimate[i] = Binding(input, plan.partitions[i]).estimate
       PROVE  SumFunctionOnSet(estimate, 1..n) <= costs.spent.ms
  <2>1. \A i \in 1..n : estimate[i] \in Int /\ estimate[i] = cost[i]
    BY <1>11, <1>18, <1>20
  <2>2. SumFunctionOnSet(estimate, 1..n) = SumFunctionOnSet(cost, 1..n)
    BY <1>14, <2>1, SumAgree
  <2> QED BY <1>17, <2>2
<1> QED BY <1>6, <1>17, <1>18, <1>19, <1>20

\* So it is for the canary that was admitted.
EstimateOf == [i \in DOMAIN Partitions |-> Partitions[i].estimate]

LEMMA AdmittedFits ==
    ASSUME run = RunOf(Requests[asked]), asked \in DOMAIN Requests, run.conflicts = {}
    PROVE  /\ \A i \in DOMAIN Partitions : Fits(Partitions[i])
           /\ IsFiniteSet(DOMAIN Partitions) /\ run.totalWithRetry \in Int
           /\ SumFunctionOnSet(EstimateOf, DOMAIN Partitions) <= run.totalWithRetry
<1>1. PICK documents : documents = Requests[asked]
  OBVIOUS
<1>2. /\ DocumentConflicts(documents) = {} /\ Partitions = documents.activation.partitions
      /\ run.totalWithRetry = documents.plan.totalWithRetry
  BY <1>1 DEF RunOf, Partitions
<1>3. Typed(documents) /\ PlanInput(documents.input)
  BY <1>1, RequestsAssumption DEF Typed, PlanInput
<1>4. documents.activation =
            BuildActivation(documents, documents.authority.created,
                            documents.activation.retryNode)
  BY <1>2, <1>3, AdmittedIsBuilt
<1>5. PlanConflicts(documents) = {}
  BY <1>2 DEF DocumentConflicts
<1>6. PICK input, plan : input = documents.input /\ plan = documents.plan
  OBVIOUS
<1>7. plan = BuildSoakPlan(input) /\ plan.allowed
  BY <1>5, <1>6, QuietPlan
<1>8. Partitions = [i \in DOMAIN plan.partitions |-> Binding(input, plan.partitions[i])]
  BY <1>2, <1>4, <1>6 DEF BuildActivation
<1>9. PICK n \in Nat :
        /\ DOMAIN plan.partitions = 1..n
        /\ \A i \in 1..n : Fits(Binding(input, plan.partitions[i]))
        /\ plan.totalWithRetry \in Int
        /\ \A estimate :
             (\A i \in 1..n : estimate[i] = Binding(input, plan.partitions[i]).estimate)
                => SumFunctionOnSet(estimate, 1..n) <= plan.totalWithRetry
  BY <1>3, <1>6, <1>7, AllowedFits
<1>10. DOMAIN Partitions = 1..n
       /\ \A i \in 1..n : Partitions[i] = Binding(input, plan.partitions[i])
  BY <1>8, <1>9
<1>11. SumFunctionOnSet(EstimateOf, 1..n) <= plan.totalWithRetry
  <2>1. PICK estimate : estimate = EstimateOf
    OBVIOUS
  <2>2. \A i \in 1..n : estimate[i] = Binding(input, plan.partitions[i]).estimate
    BY <1>10, <2>1 DEF EstimateOf
  <2> QED BY <1>9, <2>1, <2>2
<1>12. IsFiniteSet(1..n)
  BY FS_Interval
<1> QED BY <1>2, <1>6, <1>9, <1>10, <1>11, <1>12

-----------------------------------------------------------------------------
(* The attempts behind the one at work.                                    *)

\* A passed attempt took no longer than estimated, the transient failure nothing, and
\* only an attempt that took longer is held against the plan.
Honours(a) ==
    /\ a.outcome = "transient_infrastructure" => Elapsed(a) = 0
    /\ a.outcome = "passed" => Elapsed(a) <= PartitionOf(a.node).estimate
    /\ a.outcome \in PlannerLimits => Elapsed(a) > PartitionOf(a.node).estimate

Honoured(c) == \A k \in DOMAIN c.attempts : Honours(c.attempts[k])

HonourInv ==
    /\ disk.present => Honoured(disk)
    /\ mem.present => Honoured(mem)
    /\ pc = "judge" => turn.observed \notin PlannerLimits

\* The partition of a node of the canary, by its place.
PlaceOf(node) == CHOOSE i \in DOMAIN Partitions : Partitions[i].node = node

LEMMA PlacedNode ==
    ASSUME IInv, run.conflicts = {}, NEW node \in Nodes
    PROVE  /\ PlaceOf(node) \in DOMAIN Partitions /\ Partitions[PlaceOf(node)].node = node
           /\ PartitionOf(node) = Partitions[PlaceOf(node)] /\ Fits(PartitionOf(node))
<1>1. \E i \in DOMAIN Partitions : Partitions[i].node = node
  BY DEF Nodes
<1>2. PlaceOf(node) \in DOMAIN Partitions /\ Partitions[PlaceOf(node)].node = node
  BY <1>1 DEF PlaceOf
<1>3. PartitionOf(node) = Partitions[PlaceOf(node)]
  BY DEF PartitionOf, PlaceOf
<1> QED BY <1>2, <1>3, AdmittedFits DEF IInv

\* What the attempt at work knows of the others.
Passes(a) ==
    /\ a.outcome = "passed" /\ a.node # Attempt.node
    /\ Elapsed(a) <= PartitionOf(a.node).estimate
Vain(a) ==
    a.outcome = "transient_infrastructure" /\ Elapsed(a) = 0 /\ a.launched = FALSE

LEMMA Behind ==
    ASSUME IInv, EInv, TimeInv, HonourInv, AtWork, NEW a \in AttemptsOf(mem), a.state = "completed"
    PROVE  /\ Passes(a) \/ Vain(a)
           /\ a.node \in Nodes /\ Elapsed(a) \in Nat
<1>1. /\ Shape(mem) /\ Stored(mem) /\ InTime(mem)
      /\ \A k \in DOMAIN mem.attempts : k # turn.index => Past(mem.attempts[k])
  BY AttemptHeld, HeldInTime
<1>2. PICK k \in DOMAIN mem.attempts : a = mem.attempts[k]
  BY DEF AttemptsOf, Range
<1>3. Attempt.state # "completed"
  BY DEF EInv, AttemptInv, AtWork, Awaits, Runs
<1>4. Past(a)
  BY <1>1, <1>2, <1>3 DEF Attempt
<1>5. Honours(a) /\ AttemptKept(a, Len(mem.events)) /\ Lasts(a.result)
  BY <1>1, <1>2 DEF HonourInv, Honoured, Shape, Stored, AttemptsKept, InTime
<1>6. Attempt.node \notin mem.completed
  BY DEF AtWork, IInv, ReservedInv, ChildInv, EInv, CollectedInv
<1>7. a.outcome = "passed" => a.node \in mem.completed
  BY <1>1, <1>2 DEF Shape, Counted
<1>8. a.outcome = "transient_infrastructure" => a.launched = FALSE
  BY <1>5 DEF AttemptKept, Awaits, Runs, Ends, EndsWell, Unstarted, NeverLaunched,
              JudgedOutcomes
<1>9. a.node \in Nodes
  BY <1>5 DEF AttemptKept, Planned
<1>10. Elapsed(a) \in Nat
  BY <1>5, BoundsAssumption DEF Lasts, Instants, Elapsed
<1> QED BY <1>4, <1>5, <1>6, <1>7, <1>8, <1>9, <1>10 DEF Past, Honours, Passes, Vain

LEMMA AttemptsFinite ==
    ASSUME NEW c, Stored(c), NEW attempts \in SUBSET AttemptsOf(c)
    PROVE  IsFiniteSet(attempts)
<1>1. DOMAIN c.attempts = 1..Len(c.attempts) /\ Len(c.attempts) \in Nat
  BY Appended DEF Stored
<1>2. IsFiniteSet(1..Len(c.attempts))
  BY <1>1, FS_Interval
<1> DEFINE list == [k \in 1..Len(c.attempts) |-> c.attempts[k]]
<1>3. list \in Surjection(1..Len(c.attempts), AttemptsOf(c))
  BY <1>1 DEF Surjection, AttemptsOf, Range
<1> HIDE DEF list
<1> QED BY <1>2, <1>3, FS_Surjection, FS_Subset

\* What was spent on a node before its attempt at work is nothing: the retry follows
\* an attempt without a child.
LEMMA NothingSpent ==
    ASSUME IInv, EInv, TimeInv, HonourInv, AtWork,
           NEW attempts \in SUBSET AttemptsOf(mem),
           \A a \in attempts : a.state = "completed" /\ a.node = Attempt.node
    PROVE  TotalElapsed(attempts) = 0
<1> DEFINE elapsed == [a \in attempts |-> Elapsed(a)]
<1>1. IsFiniteSet(attempts)
  BY AttemptsFinite, AttemptHeld
<1>2. \A a \in attempts : elapsed[a] = 0
  BY Behind DEF Passes, Vain
<1>3. DOMAIN elapsed = attempts
  OBVIOUS
<1> HIDE DEF elapsed
<1>4. SumFunctionOnSet(elapsed, attempts) = 0
  BY <1>1, <1>2, SumZero
<1> QED BY <1>3, <1>4 DEF TotalElapsed, SumFunction, elapsed

\* What all the children took that ran before fits into the plan together with the
\* estimate of the one at work.
LEMMA OthersFit ==
    ASSUME IInv, EInv, TimeInv, HonourInv, AtWork,
           NEW attempts \in SUBSET AttemptsOf(mem),
           \A a \in attempts : a.state = "completed" /\ a.launched
    PROVE  /\ TotalElapsed(attempts) \in Int
           /\ PartitionOf(Attempt.node).estimate + TotalElapsed(attempts) <= run.totalWithRetry
<1> DEFINE elapsed == [a \in attempts |-> Elapsed(a)]
           at == [a \in attempts |-> PlaceOf(a.node)]
<1>1. run.conflicts = {} /\ Shape(mem) /\ Attempt.node \in Nodes
  BY AttemptHeld DEF EInv, AdmittedInv, AtWork, AttemptKept, Planned
<1>2. IsFiniteSet(attempts)
  BY AttemptsFinite, AttemptHeld
<1>3. PICK own : own = PlaceOf(Attempt.node)
  OBVIOUS
<1>4. /\ own \in DOMAIN Partitions /\ Partitions[own].node = Attempt.node
      /\ PartitionOf(Attempt.node) = Partitions[own]
  BY <1>1, <1>3, PlacedNode
<1>5. /\ IsFiniteSet(DOMAIN Partitions) /\ run.totalWithRetry \in Int
      /\ \A i \in DOMAIN Partitions : EstimateOf[i] \in Int /\ EstimateOf[i] >= 0
      /\ SumFunctionOnSet(EstimateOf, DOMAIN Partitions) <= run.totalWithRetry
  BY <1>1, AdmittedFits DEF IInv, EstimateOf, Fits
<1>6. PICK rest : rest = DOMAIN Partitions \ {own}
  OBVIOUS
<1>7. IsFiniteSet(rest) /\ \A i \in rest : EstimateOf[i] \in Int /\ EstimateOf[i] >= 0
  BY <1>5, <1>6, FS_Subset
<1>8. ASSUME NEW a \in attempts
      PROVE  at[a] \in rest /\ elapsed[a] \in Int /\ elapsed[a] <= EstimateOf[at[a]]
  <2>1. Passes(a) /\ a.node \in Nodes /\ Elapsed(a) \in Nat
    BY Behind DEF Vain
  <2>2. /\ PlaceOf(a.node) \in DOMAIN Partitions /\ Partitions[PlaceOf(a.node)].node = a.node
        /\ PartitionOf(a.node) = Partitions[PlaceOf(a.node)]
    BY <1>1, <2>1, PlacedNode
  <2> QED BY <1>4, <1>6, <2>1, <2>2 DEF Passes, EstimateOf
<1>9. ASSUME NEW a \in attempts, NEW b \in attempts, at[a] = at[b] PROVE a = b
  <2>1. Passes(a) /\ a.node \in Nodes /\ Passes(b) /\ b.node \in Nodes
    BY Behind DEF Vain
  <2>2. a.node = b.node
    BY <1>1, <1>9, <2>1, PlacedNode
  <2>3. PICK j \in DOMAIN mem.attempts, k \in DOMAIN mem.attempts :
            a = mem.attempts[j] /\ b = mem.attempts[k]
    BY DEF AttemptsOf, Range
  <2> QED BY <1>1, <2>1, <2>2, <2>3 DEF Shape, Distinct, Passes
<1>10. DOMAIN elapsed = attempts
  OBVIOUS
<1> HIDE DEF elapsed, at
<1>11. SumFunctionOnSet(elapsed, attempts) \in Int
  BY <1>2, <1>8, SumInt
<1>12. SumFunctionOnSet(elapsed, attempts) <= SumFunctionOnSet(EstimateOf, rest)
  BY <1>2, <1>7, <1>8, <1>9, SumInjective
<1>13. SumFunctionOnSet(EstimateOf, DOMAIN Partitions) =
            EstimateOf[own] + SumFunctionOnSet(EstimateOf, rest)
  BY <1>4, <1>5, <1>6, SumRemove
<1>14. SumFunctionOnSet(EstimateOf, rest) \in Int
  BY <1>7, SumInt
<1>15. EstimateOf[own] \in Int /\ EstimateOf[own] = PartitionOf(Attempt.node).estimate
  BY <1>4, <1>5 DEF EstimateOf
<1>16. TotalElapsed(attempts) = SumFunctionOnSet(elapsed, attempts)
  BY <1>10 DEF TotalElapsed, SumFunction, elapsed
<1>17. SumFunctionOnSet(EstimateOf, DOMAIN Partitions) <= run.totalWithRetry
       /\ run.totalWithRetry \in Int
  BY <1>5
<1> QED BY ONLY <1>11, <1>12, <1>13, <1>14, <1>15, <1>16, <1>17

-----------------------------------------------------------------------------
(* The judgement, and the time a child is given.                           *)

\* An attempt within its estimate exceeds no limit of the plan.
LEMMA Unexceeded ==
    ASSUME IInv, EInv, TimeInv, HonourInv, AtWork,
           NEW timed, timed.node = Attempt.node,
           Elapsed(timed) \in Int, timed.result.childElapsed \in Int,
           timed.result.childElapsed <= Elapsed(timed),
           Elapsed(timed) <= PartitionOf(timed.node).estimate,
           NEW code \in PlannerLimits
    PROVE  ~ Exceeds(mem, timed, code)
<1> DEFINE others == {a \in AttemptsOf(mem) :
                        /\ a.state = "completed"
                        /\ a.node # timed.node \/ a.number # timed.number}
           same == {a \in others : a.node = timed.node}
           launched == {a \in others : a.launched}
<1>1. PICK p : p = PartitionOf(timed.node)
  OBVIOUS
<1>2. Attempt.node \in Nodes /\ run.conflicts = {}
  BY AttemptHeld DEF EInv, AdmittedInv, AtWork, AttemptKept, Planned
<1>3. Fits(p)
  BY <1>1, <1>2, PlacedNode
<1>4. /\ p.estimate \in Int /\ p.perAttempt \in Int /\ p.totalNode \in Int
      /\ p.nodeBudget \in Int /\ p.retryAllowance \in Int
      /\ p.estimate <= p.perAttempt /\ p.estimate <= p.totalNode
      /\ p.estimate <= p.nodeBudget /\ p.estimate <= p.retryAllowance
  BY <1>3 DEF Fits
<1>5. TotalElapsed(same) = 0
  <2>1. same \in SUBSET AttemptsOf(mem)
        /\ \A a \in same : a.state = "completed" /\ a.node = Attempt.node
    OBVIOUS
  <2> HIDE DEF same
  <2> QED BY <2>1, NothingSpent
<1>6. /\ TotalElapsed(launched) \in Int
      /\ p.estimate + TotalElapsed(launched) <= run.totalWithRetry
  <2>1. launched \in SUBSET AttemptsOf(mem)
        /\ \A a \in launched : a.state = "completed" /\ a.launched
    OBVIOUS
  <2> HIDE DEF launched
  <2> QED BY <1>1, <2>1, OthersFit
<1>7. run.totalWithRetry \in Int
  BY <1>2, AdmittedFits DEF IInv
<1>8. PICK e \in Int, c \in Int : e = Elapsed(timed) /\ c = timed.result.childElapsed
  OBVIOUS
<1>9. e <= p.estimate /\ c <= e
  BY <1>1, <1>8
<1>10. Exceeds(mem, timed, code) =>
        \/ c > p.perAttempt \/ e > p.retryAllowance
        \/ e + TotalElapsed(same) > p.totalNode
        \/ e + TotalElapsed(same) > p.nodeBudget
        \/ e + TotalElapsed(launched) > run.totalWithRetry
  BY <1>1, <1>8 DEF Exceeds, PlannerLimits
<1> HIDE DEF same, launched
<1>11. ~ \/ c > p.perAttempt \/ e > p.retryAllowance
         \/ e + TotalElapsed(same) > p.totalNode
         \/ e + TotalElapsed(same) > p.nodeBudget
         \/ e + TotalElapsed(launched) > run.totalWithRetry
  BY ONLY <1>4, <1>5, <1>6, <1>7, <1>9, e \in Int, c \in Int
<1> QED BY <1>10, <1>11

\* What is judged takes part in the plan: it passed within its estimate, or it took
\* longer and is held against the plan.
LEMMA JudgedHonours ==
    ASSUME IInv, EInv, TimeInv, HonourInv, pc = "judge",
           NEW timed, timed.node = Attempt.node,
           Elapsed(timed) \in Int, timed.result.childElapsed \in Int,
           timed.result.childElapsed <= Elapsed(timed),
           NEW outcome, outcome = Judge(mem, timed, turn.observed)
    PROVE  /\ outcome = "passed" => Elapsed(timed) <= PartitionOf(timed.node).estimate
           /\ outcome \in PlannerLimits => Elapsed(timed) > PartitionOf(timed.node).estimate
<1> DEFINE exceeded == ExceededLimits(mem, timed)
           first == CHOOSE i \in exceeded : \A j \in exceeded : i <= j
<1>1. PICK p : p = PartitionOf(timed.node)
  OBVIOUS
<1>2. Attempt.node \in Nodes /\ run.conflicts = {} /\ AtWork
  BY AttemptHeld DEF EInv, AdmittedInv, AtWork, AttemptKept, Planned
<1>3. p.estimate \in Int /\ p.perAttempt \in Int /\ p.estimate <= p.perAttempt
  BY <1>1, <1>2, PlacedNode DEF Fits
<1>4. PICK e \in Int : e = Elapsed(timed)
  OBVIOUS
<1>5. turn.observed \notin PlannerLimits
  BY DEF HonourInv
<1>6. \/ exceeded # {} /\ outcome = LimitCodes[first]
      \/ exceeded = {} /\ e > p.perAttempt /\ outcome = "per_attempt_timeout_exceeded"
      \/ exceeded = {} /\ outcome = "actual_duration_above_estimate"
      \/ /\ exceeded = {} /\ outcome = turn.observed /\ ~ (e > p.perAttempt)
         /\ e \notin (p.estimate + 1)..p.perAttempt
  BY <1>1, <1>4 DEF Judge
<1>7. CASE exceeded # {} /\ outcome = LimitCodes[first]
  <2>1. first \in exceeded
    BY <1>7, FirstLimit
  <2> HIDE DEF first
  <2>2. first \in DOMAIN LimitCodes /\ Exceeds(mem, timed, outcome)
    BY <1>7, <2>1 DEF ExceededLimits
  <2>3. outcome # "passed"
    BY <1>7, <2>2 DEF LimitCodes
  <2>4. outcome \in PlannerLimits => ~ (e <= p.estimate)
    BY <1>1, <1>2, <1>4, <2>2, Unexceeded
  <2> QED BY <1>1, <1>3, <1>4, <2>3, <2>4
<1>8. "actual_duration_above_estimate" \notin PlannerLimits
  BY DEF PlannerLimits
<1> HIDE DEF exceeded, first
<1>9. CASE e > p.perAttempt /\ outcome = "per_attempt_timeout_exceeded"
  BY <1>1, <1>3, <1>4, <1>9
<1>10. CASE outcome = "actual_duration_above_estimate"
  BY <1>8, <1>10
<1>11. CASE /\ outcome = turn.observed /\ ~ (e > p.perAttempt)
            /\ e \notin (p.estimate + 1)..p.perAttempt
  <2>1. e <= p.estimate
    BY ONLY <1>3, <1>11, e \in Int
  <2> QED BY <1>1, <1>4, <1>5, <1>11, <2>1
<1> QED BY <1>6, <1>7, <1>9, <1>10, <1>11

\* A child is given its estimate, unless the window is nearly over.
LEMMA EstimateIsGiven ==
    ASSUME IInv, EInv, TimeInv, HonourInv, pc = "limit"
    PROVE  ContextLimit(mem, Attempt.node) >=
            Least(PartitionOf(Attempt.node).estimate, Least(HardWall, LeaseMaximum) - SinceStart)
<1>1. PICK p : p = PartitionOf(Attempt.node)
  OBVIOUS
<1>2. Attempt.node \in Nodes /\ run.conflicts = {} /\ AtWork
  BY AttemptHeld DEF EInv, AdmittedInv, AtWork, AttemptKept, Planned
<1>3. /\ p.estimate \in Int /\ p.perAttempt \in Int /\ p.totalNode \in Int
      /\ p.nodeBudget \in Int /\ p.retryAllowance \in Int
      /\ p.estimate <= p.perAttempt /\ p.estimate <= p.totalNode
      /\ p.estimate <= p.nodeBudget /\ p.estimate <= p.retryAllowance
  BY <1>1, <1>2, PlacedNode DEF Fits
<1>4. PICK spent : spent =
        TotalElapsed({a \in NodeAttempts(mem, Attempt.node) : a.state = "completed"})
  OBVIOUS
<1>5. spent = 0
  <2> DEFINE same == {a \in NodeAttempts(mem, Attempt.node) : a.state = "completed"}
  <2>1. same \in SUBSET AttemptsOf(mem)
        /\ \A a \in same : a.state = "completed" /\ a.node = Attempt.node
    BY DEF NodeAttempts
  <2> HIDE DEF same
  <2> QED BY <1>2, <1>4, <2>1, NothingSpent DEF same
<1>6. PICK window : window = Least(HardWall, LeaseMaximum) - SinceStart
  OBVIOUS
<1>7. window \in Int
  <2>1. LeaseMaximum \in Int
    BY RequestsAssumption DEF LeaseMaximum, RunOf, PlanInput, IInv
  <2>2. now \in Int /\ HardWall \in Int
    BY ActivationConstants DEF EInv, ClockInv
  <2>3. run.phaseStart \in Int
    <3>1. run.phaseStart = Requests[asked].activation.phaseStart /\ asked \in DOMAIN Requests
      BY DEF RunOf, IInv
    <3>2. run.phaseStart \in 0..LastInstant /\ LastInstant \in Int
      <4>1. Requests[asked].activation.phaseStart \in 0..LastInstant
        BY <3>1, RequestsAssumption
      <4>2. LastInstant \in Nat
        BY BoundsAssumption
      <4> QED BY ONLY <3>1, <4>1, <4>2
    <3> QED BY ONLY <3>2
  <2> QED BY <1>6, <2>1, <2>2, <2>3 DEF Least, SinceStart
<1>8. PICK base : base = Least(p.perAttempt, Least(window, Least(p.totalNode, p.nodeBudget) - spent))
  OBVIOUS
<1>9. base \in Int /\ base >= Least(p.estimate, window)
  BY <1>3, <1>5, <1>7, <1>8 DEF Least
<1>10. Least(base, p.retryAllowance) >= Least(p.estimate, window)
  BY <1>3, <1>7, <1>9 DEF Least
<1>11. ContextLimit(mem, Attempt.node) \in {base, Least(base, p.retryAllowance)}
  BY <1>1, <1>4, <1>6, <1>8 DEF ContextLimit
<1> QED BY <1>1, <1>6, <1>9, <1>10, <1>11

-----------------------------------------------------------------------------
(* Every step honours the plan.                                            *)

LEMMA HonouredStays ==
    ASSUME UNCHANGED run, NEW c, Honoured(c)
    PROVE  Honoured(c)'
<1> QED BY DEF Honoured, Honours, PartitionOf, Partitions, Elapsed

LEMMA HonourKept ==
    ASSUME HonourInv, UNCHANGED run, disk' = disk \/ Honoured(disk'),
           mem' = mem \/ Honoured(mem') \/ mem' = NoCheckpoint,
           pc' = "judge" => turn'.observed \notin PlannerLimits
    PROVE  HonourInv'
<1>1. PICK d, m : d = disk' /\ m = mem'
  OBVIOUS
<1>2. (d.present => Honoured(d)) /\ (m.present => Honoured(m))
  BY <1>1 DEF HonourInv, NoCheckpoint
<1>3. (d.present => Honoured(d)') /\ (m.present => Honoured(m)')
  BY <1>2, HonouredStays
<1> QED BY <1>1, <1>3 DEF HonourInv

LEMMA HonourStops ==
    ASSUME HonourInv, UNCHANGED run, disk' = disk \/ Honoured(disk'),
           pc' = "idle", mem' = NoCheckpoint
    PROVE  HonourInv'
<1> QED BY HonourKept

\* A transition with an attempt that honours the plan.
LEMMA TransitionHonoured ==
    ASSUME NEW m, Stored(m), Honoured(m), NEW index, index = 0 \/ index \in DOMAIN m.attempts,
           NEW given, DOMAIN given = AttemptFields, Honours(given),
           NEW event \in {"reserved", "running", "heartbeat", "completed"}
    PROVE  Honoured(Transition(m, index, given, event))
<1> DEFINE c == Transition(m, index, given, event)
           at == At(m, index)
<1>1. Makes(m, index, given, event, c) /\ Adds(m, index, given, event, c)
  BY TransitionMakes, TransitionAdds
<1> HIDE DEF c, at
<1>2. /\ DOMAIN c.attempts = DOMAIN m.attempts \cup {at}
      /\ \A k \in DOMAIN m.attempts : k # at => c.attempts[k] = m.attempts[k]
  BY <1>1 DEF Makes, at
<1>3. /\ c.attempts[at].result = given.result /\ c.attempts[at].outcome = given.outcome
      /\ c.attempts[at].node = given.node
  BY <1>1 DEF Adds, at
<1>4. Honours(c.attempts[at])
  BY <1>3 DEF Honours, Elapsed
<1>5. Honoured(c)
  BY <1>2, <1>4 DEF Honoured
<1> QED BY <1>5 DEF c

\* Outcomes that say nothing of the plan.
Neutral ==
    Unstarted \cup {"launch_reserved", "running", "running_checkpoint_write_failed_reaped"}

LEMMA NeutralHonours == \A a : a.outcome \in Neutral => Honours(a)
<1>1. \A outcome \in Neutral :
        outcome \notin {"transient_infrastructure", "passed"} \cup PlannerLimits
  BY DEF Neutral, Unstarted, NeverLaunched, PlannerLimits
<1> QED BY <1>1 DEF Honours

LEMMA NeutralHonoured ==
    ASSUME IInv, EInv, HonourInv, AtWork, NEW given, DOMAIN given = AttemptFields,
           given.outcome \in Neutral, NEW event \in {"running", "heartbeat", "completed"}
    PROVE  Honoured(Transition(mem, turn.index, given, event))
<1>1. Stored(mem) /\ turn.index \in DOMAIN mem.attempts
  BY AttemptHeld
<1>2. Honoured(mem)
  BY <1>1 DEF HonourInv, Stored
<1>3. Honours(given)
  BY NeutralHonours
<1> QED BY <1>1, <1>2, <1>3, TransitionHonoured

LEMMA TurnHonours ==
    ASSUME IInv, EInv, HonourInv, pc \in {"turn", "reserve"}
    PROVE  Stored(mem) /\ Honoured(mem)
<1>1. Stored(mem)
  BY TurnHeld
<1> QED BY <1>1 DEF HonourInv, Stored

LEMMA StartHonours == ASSUME HonourInv, Start PROVE HonourInv'
<1>1. /\ UNCHANGED << run, disk >> /\ pc' # "judge"
      /\ UNCHANGED mem \/ mem' = NoCheckpoint
  BY DEF Start, Finish, request
<1> QED BY <1>1, HonourKept

LEMMA CreateHonours == ASSUME HonourInv, Create PROVE HonourInv'
<1>1. PICK e : e = EmptyCheckpoint
  OBVIOUS
<1>2. Honoured(e)
  <2>1. DOMAIN e.attempts = {}
    BY <1>1, EmptyIsStored DEF EmptyCheckpoint
  <2> QED BY <2>1 DEF Honoured
<1>3. /\ UNCHANGED run /\ pc' # "judge" /\ disk' \in {disk, e} /\ mem' \in {e, NoCheckpoint}
  BY <1>1 DEF Create, Written, WriteFails, Finish, Surroundings, request
<1> QED BY <1>2, <1>3, HonourKept

LEMMA ResumeHonours == ASSUME HonourInv, Resume PROVE HonourInv'
<1>1. /\ UNCHANGED << run, disk >> /\ pc' # "judge" /\ mem' \in {disk, NoCheckpoint}
      /\ disk.present
  BY DEF Resume, Finish, AfterLoad, Surroundings, request
<1> QED BY <1>1, HonourKept DEF HonourInv

LEMMA HardWallHonours == ASSUME HonourInv, HardWallReached PROVE HonourInv'
<1> QED BY HonourStops DEF HardWallReached, Fail, Finish, Surroundings, request

\* A step that stores c, or stops because it could not.
LEMMA StoresHonour ==
    ASSUME HonourInv, UNCHANGED Surroundings, NEW c, Honoured(c), NEW next, next # "judge",
           NEW keep, StoreOrStop(c, next, keep)
    PROVE  HonourInv'
<1>1. /\ UNCHANGED run /\ pc' # "judge" /\ disk' \in {disk, c} /\ mem' \in {c, NoCheckpoint}
  BY DEF StoreOrStop, Written, WriteFails, Finish, Surroundings, request
<1> QED BY <1>1, HonourKept

LEMMA TransientHonours == ASSUME IInv, EInv, HonourInv, RecordTransient PROVE HonourInv'
<1> DEFINE given == [NewAttempt(Current, 1) EXCEPT
                !.state = "completed", !.completed = TRUE,
                !.outcome = "transient_infrastructure", !.result.exit = -1]
           event == "completed"
           c == Transition(mem, 0, given, event)
           next == "reserve"
<1>1. StoreOrStop(c, next, turn) /\ UNCHANGED Surroundings /\ pc = "turn" /\ next # "judge"
  BY DEF RecordTransient
<1>2. /\ DOMAIN given = AttemptFields /\ given.result = [NoResult EXCEPT !.exit = -1]
      /\ given.outcome = "transient_infrastructure"
  BY DEF NewAttempt, AttemptFields
<1> HIDE DEF given, next
<1>3. Honours(given)
  BY <1>2 DEF Honours, Elapsed, NoResult, PlannerLimits
<1>4. Stored(mem) /\ Honoured(mem)
  BY <1>1, TurnHonours
<1>5. Honoured(c)
  BY <1>2, <1>3, <1>4, TransitionHonoured
<1> HIDE DEF c
<1> QED BY <1>1, <1>5, StoresHonour

LEMMA ReserveHonours == ASSUME IInv, EInv, HonourInv, Reserve PROVE HonourInv'
<1> DEFINE given == NewAttempt(Current, NextNumber)
           event == "reserved"
           c == Transition(mem, 0, given, event)
           next == "limit"
           keep == [index |-> Len(mem.attempts) + 1, started |-> now]
<1>1. /\ StoreOrStop(c, next, keep) /\ UNCHANGED Surroundings
      /\ pc \in {"turn", "reserve"} /\ next # "judge"
  BY DEF Reserve, Reserves
<1>2. DOMAIN given = AttemptFields /\ given.outcome \in Neutral
  BY DEF NewAttempt, AttemptFields, Neutral
<1> HIDE DEF given, next, keep
<1>3. Honours(given)
  BY <1>2, NeutralHonours
<1>4. Stored(mem) /\ Honoured(mem)
  BY <1>1, TurnHonours
<1>5. Honoured(c)
  BY <1>2, <1>3, <1>4, TransitionHonoured
<1> HIDE DEF c
<1> QED BY <1>1, <1>5, StoresHonour

\* An attempt that ends without a child.
LEMMA EndUnlaunchedHonours ==
    ASSUME IInv, EInv, HonourInv, AtWork, UNCHANGED Surroundings,
           NEW outcome \in Unstarted, NEW elapsed, NEW code,
           EndUnlaunched(outcome, elapsed, code)
    PROVE  HonourInv'
<1> DEFINE given == [Attempt EXCEPT
            !.state = "completed", !.completed = TRUE, !.outcome = outcome,
            !.result.exit = -1, !.result.elapsed = elapsed]
           event == "completed"
           c == Transition(mem, turn.index, given, event)
<1>1. DOMAIN Attempt = AttemptFields
  BY AttemptHeld
<1>2. DOMAIN given = AttemptFields /\ given.outcome = outcome
  BY <1>1 DEF AttemptFields
<1>3. disk' \in {disk, c} /\ pc' = "idle" /\ mem' = NoCheckpoint /\ UNCHANGED run
  BY DEF EndUnlaunched, Written, WriteFails, Finish, Surroundings, request
<1> HIDE DEF given
<1>4. Honoured(c)
  BY <1>2, NeutralHonoured DEF Neutral
<1> HIDE DEF c
<1> QED BY <1>3, <1>4, HonourStops

LEMMA LimitHonours == ASSUME IInv, EInv, HonourInv, Limit PROVE HonourInv'
<1>1. AtWork /\ UNCHANGED Surroundings /\ UNCHANGED run
  BY DEF Limit, AtWork, Surroundings, request
<1>2. CASE EndUnlaunched("execution_budget_exhausted", 0, "execution_budget_exhausted")
  BY <1>1, <1>2, EndUnlaunchedHonours DEF Unstarted, NeverLaunched
<1>3. CASE pc' = "check" /\ UNCHANGED << mem, disk >>
  BY <1>1, <1>3, HonourKept
<1> QED BY <1>2, <1>3 DEF Limit

LEMMA CheckHonours == ASSUME IInv, EInv, HonourInv, Check PROVE HonourInv'
<1> DEFINE outcome == PreLaunchOutcome.outcome
           elapsed == PreLaunchOutcome.elapsed
           code == PreLaunchOutcome.code
<1>1. AtWork /\ UNCHANGED Surroundings /\ UNCHANGED run
  BY DEF Check, AtWork, Surroundings, request
<1>2. outcome \in Unstarted
  BY DEF PreLaunchOutcome, Unstarted, NeverLaunched
<1>3. \/ EndUnlaunched(outcome, elapsed, code)
      \/ pc' = "launch" /\ UNCHANGED << mem, disk >>
  BY DEF Check
<1> HIDE DEF outcome, elapsed, code
<1> QED BY <1>1, <1>2, <1>3, EndUnlaunchedHonours, HonourKept

LEMMA LaunchHonours == ASSUME HonourInv, Launch PROVE HonourInv'
<1>1. UNCHANGED << run, disk, mem >> /\ pc' = "launched"
  BY DEF Launch, request
<1> QED BY <1>1, HonourKept

LEMMA LaunchFailsHonours == ASSUME IInv, EInv, HonourInv, LaunchFails PROVE HonourInv'
<1> DEFINE given == [Attempt EXCEPT
                !.state = "completed", !.completed = TRUE,
                !.outcome = "child_process_start_failed",
                !.result.exit = -1, !.result.elapsed = now - turn.started]
           event == "completed"
           c == Transition(mem, turn.index, given, event)
<1>1. /\ AtWork /\ UNCHANGED run /\ disk' \in {disk, c} /\ pc' = "idle"
      /\ mem' = NoCheckpoint
  BY DEF LaunchFails, AtWork, Finish, Surroundings, request
<1>2. DOMAIN Attempt = AttemptFields
  BY <1>1, AttemptHeld
<1>3. DOMAIN given = AttemptFields /\ given.outcome = "child_process_start_failed"
  BY <1>2 DEF AttemptFields
<1> HIDE DEF given
<1>4. Honoured(c)
  BY <1>1, <1>3, NeutralHonoured DEF Neutral, Unstarted, NeverLaunched
<1> HIDE DEF c
<1> QED BY <1>1, <1>4, HonourStops

LEMMA RecordRunningHonours == ASSUME IInv, EInv, HonourInv, RecordRunning PROVE HonourInv'
<1> DEFINE given == [Attempt EXCEPT
                !.launched = TRUE, !.state = "running", !.outcome = "running"]
           event == "running"
           c == Transition(mem, turn.index, given, event)
<1>1. /\ AtWork /\ UNCHANGED run /\ mem' = c /\ disk' \in {disk, c} /\ pc' \in {"wait", "reap"}
  BY DEF RecordRunning, AtWork, Written, WriteFails, request
<1>2. DOMAIN Attempt = AttemptFields
  BY <1>1, AttemptHeld
<1>3. DOMAIN given = AttemptFields /\ given.outcome \in Neutral
  BY <1>2 DEF AttemptFields, Neutral
<1> HIDE DEF given
<1>4. Honoured(c)
  BY <1>1, <1>3, NeutralHonoured
<1> HIDE DEF c
<1> QED BY <1>1, <1>4, HonourKept

LEMMA HeartbeatHonours == ASSUME IInv, EInv, HonourInv, Heartbeat PROVE HonourInv'
<1> DEFINE given == Attempt
           event == "heartbeat"
           c == Transition(mem, turn.index, given, event)
<1>1. /\ AtWork /\ pc = "wait" /\ UNCHANGED << run, pc >> /\ mem' = c /\ disk' \in {disk, c}
  BY DEF Heartbeat, AtWork, Written, WriteFails, Surroundings, request
<1>2. DOMAIN given = AttemptFields
  BY <1>1, AttemptHeld
<1>3. given.outcome \in Neutral
  BY <1>1 DEF EInv, AttemptInv, Runs, Neutral
<1> HIDE DEF given
<1>4. Honoured(c)
  BY <1>1, <1>2, <1>3, NeutralHonoured
<1> HIDE DEF c
<1> QED BY <1>1, <1>4, HonourKept

LEMMA ElsewhereHonours ==
    ASSUME HonourInv, (\E i \in DOMAIN launches : ChildExits(i)) \/ Pass \/ Disturb
                        \/ UNCHANGED vars
    PROVE  HonourInv'
<1>1. UNCHANGED << run, disk, mem, pc, turn >>
  BY DEF ChildExits, Pass, Disturb, vars, runner, request
<1> QED BY <1>1, HonourKept DEF HonourInv

\* The limits of the plan are not known before the attempt is judged.
LEMMA CollectHonours == ASSUME HonourInv, Collect PROVE HonourInv'
<1>1. UNCHANGED << run, disk, mem >>
  BY DEF Collect, request
<1>2. PICK attempt, wrote, observed :
        /\ turn' = [index |-> turn.index, started |-> turn.started, attempt |-> attempt,
                    observed |-> observed]
        /\ observed \in {"running_checkpoint_write_failed_reaped", Observed(attempt, wrote)}
  BY DEF Collect
<1>3. Observed(attempt, wrote) \in
        {"repository_snapshot_mismatch", "repository_git_state_mismatch",
         "executable_provenance_mismatch", "stdout_evidence_write_failed",
         "heartbeat_checkpoint_write_failed", "test_failure", "go_event_count_mismatch",
         "passed"}
  BY DEF Observed
<1>4. turn'.observed \notin PlannerLimits
  BY <1>2, <1>3 DEF PlannerLimits
<1> QED BY <1>1, <1>4, HonourKept

LEMMA CloseHonours == ASSUME IInv, EInv, HonourInv, Close PROVE HonourInv'
<1> DEFINE c == [mem EXCEPT !.completedAt = now]
           next == "reconcile"
<1>1. /\ pc = "turn" /\ UNCHANGED Surroundings /\ StoreOrStop(c, next, turn)
      /\ next # "judge"
  BY DEF Close
<1>2. Stored(mem) /\ Honoured(mem)
  BY <1>1, TurnHonours
<1>3. c.attempts = mem.attempts
  BY <1>2 DEF Stored, CheckpointFields
<1> HIDE DEF c, next
<1>4. Honoured(c)
  BY <1>2, <1>3 DEF Honoured
<1> QED BY <1>1, <1>4, StoresHonour

LEMMA EndHonours ==
    ASSUME HonourInv,
           Reconcile \/ (\E file \in Files : Publish(file)) \/ ReuseImport \/ Promoted \/ Crash
    PROVE  HonourInv'
<1>1. /\ UNCHANGED << run, disk >> /\ pc' # "judge"
      /\ mem' = NoCheckpoint \/ UNCHANGED mem
  BY DEF Reconcile, Publish, ReuseImport, Promoted, Crash, Surroundings, Fail, Finish, Pending,
         request
<1> QED BY <1>1, HonourKept

-----------------------------------------------------------------------------
(* An attempt whose child was collected honours the plan.                  *)

LEMMA TimedAttempt ==
    ASSUME IInv, EInv, TimeInv, pc \in {"judge", "reaped"},
           NEW timed, timed = Timed(turn.attempt)
    PROVE  /\ DOMAIN timed = AttemptFields /\ timed.node = Attempt.node
           /\ Elapsed(timed) \in Int /\ timed.result.childElapsed \in Int
           /\ timed.result.childElapsed <= Elapsed(timed)
<1> DEFINE a == turn.attempt
           elapsed == Most(now - turn.started, a.result.childElapsed)
<1>1. /\ DOMAIN a = AttemptFields /\ a.node = Attempt.node
      /\ DOMAIN a.result = {"exit", "passes", "childElapsed", "elapsed", "after"}
      /\ a.result.childElapsed \in Instants
  BY DEF IInv, JudgeInv, EInv, CollectedInv, Collected, TimeInv
<1>2. now - turn.started \in Int /\ a.result.childElapsed \in Int
  BY <1>1, SinceReserved, InstantsGrow DEF AtWork
<1>3. elapsed \in Int /\ a.result.childElapsed <= elapsed
  BY <1>2 DEF Most
<1>4. timed = [a EXCEPT !.state = "completed", !.completed = TRUE, !.result.elapsed = elapsed]
  BY DEF Timed
<1> HIDE DEF a, elapsed
<1>5. /\ timed.result = [a.result EXCEPT !.elapsed = elapsed]
      /\ DOMAIN timed = AttemptFields /\ timed.node = a.node
  BY <1>1, <1>4 DEF AttemptFields
<1>6. timed.result.elapsed = elapsed /\ timed.result.childElapsed = a.result.childElapsed
  BY <1>1, <1>5
<1> QED BY <1>1, <1>2, <1>3, <1>5, <1>6 DEF Elapsed

LEMMA CompleteHonours == ASSUME IInv, EInv, TimeInv, HonourInv, Complete PROVE HonourInv'
<1> DEFINE c == Transition(mem, turn.index,
                    [Timed(turn.attempt) EXCEPT
                        !.outcome = Judge(mem, Timed(turn.attempt), turn.observed)], "completed")
<1>1. /\ pc \in {"judge", "reaped"} /\ pc = "judge" /\ UNCHANGED run
      /\ disk' \in {disk, c} /\ mem' \in {c, NoCheckpoint} /\ pc' # "judge"
  BY DEF Complete, StoreOrStop, Written, WriteFails, Finish, Surroundings, request
<1>2. PICK timed : timed = Timed(turn.attempt)
  OBVIOUS
<1>3. /\ DOMAIN timed = AttemptFields /\ timed.node = Attempt.node
      /\ Elapsed(timed) \in Int /\ timed.result.childElapsed \in Int
      /\ timed.result.childElapsed <= Elapsed(timed)
  BY <1>1, <1>2, TimedAttempt
<1>4. PICK outcome : outcome = Judge(mem, timed, turn.observed)
  OBVIOUS
<1>5. /\ outcome = "passed" => Elapsed(timed) <= PartitionOf(timed.node).estimate
      /\ outcome \in PlannerLimits => Elapsed(timed) > PartitionOf(timed.node).estimate
  BY <1>1, <1>3, <1>4, JudgedHonours
<1>6. turn.observed \in JudgedOutcomes
  BY <1>1 DEF EInv, CollectedInv
<1>7. outcome # "transient_infrastructure"
  BY <1>4, <1>6, Judgement DEF JudgedOutcomes
<1>8. PICK given : given = [timed EXCEPT !.outcome = outcome]
  OBVIOUS
<1>9. /\ DOMAIN given = AttemptFields /\ given.outcome = outcome /\ given.node = timed.node
      /\ given.result = timed.result
  BY <1>3, <1>8 DEF AttemptFields
<1>10. Honours(given)
  BY <1>5, <1>7, <1>9 DEF Honours, Elapsed
<1>11. Stored(mem) /\ turn.index \in DOMAIN mem.attempts
  BY <1>1, AttemptHeld DEF AtWork
<1>12. Honoured(mem)
  BY <1>11 DEF HonourInv, Stored
<1>13. PICK event : event = "completed"
  OBVIOUS
<1>14. Honoured(Transition(mem, turn.index, given, event))
  BY <1>9, <1>10, <1>11, <1>12, <1>13, TransitionHonoured
<1>15. c = Transition(mem, turn.index, given, event)
  BY <1>2, <1>4, <1>8, <1>13
<1> HIDE DEF c
<1> QED BY <1>1, <1>14, <1>15, HonourKept

LEMMA ReapHonours == ASSUME IInv, EInv, TimeInv, HonourInv, Reap PROVE HonourInv'
<1> DEFINE given == [Timed(turn.attempt) EXCEPT !.outcome = turn.observed]
           event == "completed"
           c == Transition(mem, turn.index, given, event)
<1>1. /\ pc \in {"judge", "reaped"} /\ pc = "reaped" /\ AtWork /\ UNCHANGED run
      /\ disk' \in {disk, c} /\ pc' = "idle" /\ mem' = NoCheckpoint
  BY DEF Reap, AtWork, Written, WriteFails, Finish, Surroundings, request
<1>2. turn.observed \in Neutral
  BY <1>1 DEF EInv, CollectedInv, Neutral
<1>3. DOMAIN given = AttemptFields /\ given.outcome = turn.observed
  BY <1>1, TimedAttempt DEF AttemptFields
<1> HIDE DEF given
<1>4. Honoured(c)
  BY <1>1, <1>2, <1>3, NeutralHonoured
<1> HIDE DEF c
<1> QED BY <1>1, <1>4, HonourStops

LEMMA HonourInitially == Init => HonourInv
<1> QED BY DEF Init, HonourInv, NoCheckpoint

LEMMA HonourInductive ==
    ASSUME IInv, EInv, TimeInv, HonourInv, [Next]_vars
    PROVE  HonourInv'
<1>1. CASE RunnerStep
  BY <1>1, CreateHonours, ResumeHonours, HardWallHonours, TransientHonours, ReserveHonours,
     LimitHonours, CheckHonours, LaunchHonours, RecordRunningHonours, CollectHonours,
     CompleteHonours, ReapHonours, CloseHonours, EndHonours DEF RunnerStep
<1> QED BY <1>1, StartHonours, LaunchFailsHonours, HeartbeatHonours, EndHonours,
           ElsewhereHonours DEF Next

\* A test that keeps to its planned estimate is never held against the plan, whatever the
\* order of the tests, and although the budgets of its node and of the whole canary are
\* shared: what ran before it kept to its own estimates. Its child is given the whole
\* estimate unless the window is nearly over (soakCanaryAttemptContextLimit).
THEOREM PlanIsHonouredHolds == Spec => []PlanIsHonoured
<1>1. ASSUME IInv, EInv, TimeInv, HonourInv PROVE PlanIsHonoured
  <2>1. ASSUME disk.present, NEW attempt \in AttemptsOf(disk), attempt.outcome \in PlannerLimits
        PROVE  Elapsed(attempt) > PartitionOf(attempt.node).estimate
    BY <1>1, <2>1 DEF HonourInv, Honoured, Honours, AttemptsOf, Range
  <2>2. ASSUME pc = "limit"
        PROVE  ContextLimit(mem, Attempt.node) >=
                Least(PartitionOf(Attempt.node).estimate,
                      Least(HardWall, LeaseMaximum) - SinceStart)
    BY <1>1, <2>2, EstimateIsGiven
  <2> QED BY <2>1, <2>2 DEF PlanIsHonoured
<1>2. IInv /\ EInv /\ TimeInv /\ HonourInv /\ [Next]_vars => TimeInv' /\ HonourInv'
  BY TimeInductive, HonourInductive
<1> QED BY <1>1, <1>2, TimeInitially, HonourInitially, Kept, PTL DEF Spec
=============================================================================
