----------------------------- MODULE IssueRepair -----------------------------
(***************************************************************************)
(* The issue-repair supervisor of one Mission:                              *)
(* mission/internal/mission/issue_repair_supervisor.go.  Workers append     *)
(* events to a run under an expiring lease.  A call first compares the      *)
(* lease's expiry with the clock, then waits for the Mission's lock, and    *)
(* then works in one store transaction, which MissionStore shows to be      *)
(* atomic.  Its reply may be lost, and the worker may send the very same    *)
(* request again.                                                           *)
(*                                                                          *)
(* A checkpoint digest stands for the sequence of events it was computed    *)
(* over, which determines everything else in a checkpoint; the empty        *)
(* sequence is the absent digest.  "progress" stands for the event types    *)
(* that neither start nor end a run.  The step and the Mission checkpoint   *)
(* which an appended event also adds to the record are left out.            *)
(***************************************************************************)
EXTENDS Naturals, FiniteSets, SequencesExt

CONSTANTS
    Workers,   \* worker processes
    Leases,    \* leases: identifier, owner and actor
    LeaseOf,   \* the lease each worker works under
    Expiry,    \* when each lease ends
    Budget,    \* how many events a run under each lease may record
    Contents,  \* digests and reason of an event
    None,      \* no lease, no request
    MaxTime, MaxRequests  \* bounds on the clock and on the requests ever made

ASSUME IssueRepairAssumption ==
    /\ LeaseOf \in [Workers -> Leases]
    /\ Expiry \in [Leases -> Nat]
    /\ Budget \in [Leases -> Nat \ {0}]
    /\ None \notin Leases
    /\ MaxTime \in Nat /\ MaxRequests \in Nat

VARIABLES
    clock,
    events,   \* the run's events
    status,   \* of the run: "none", "active", "completed" or "blocked"
    lease,    \* the run's lease, or None
    made,     \* how many requests were made
    pc,       \* of each worker
    request,  \* what it asks, kept until it has an answer
    know,     \* the checkpoint it goes by
    reply     \* the last answer it got

run == << events, status, lease >>
vars == << clock, run, made, pc, request, know, reply >>

Terminal == {"run_completed", "run_blocked"}

EventTypes == {"run_started", "progress"} \cup Terminal

\* The number of the request that appended it is kept for the properties only.
Events ==
    [ type : EventTypes, content : Contents, lease : Leases, at : 0 .. MaxTime,
      number : 1 .. MaxRequests ]

Requests ==
    [ type : EventTypes, content : Contents, expected : Seq(Events),
      number : 1 .. MaxRequests ]

TypeOK ==
    /\ clock \in 0 .. MaxTime
    /\ events \in Seq(Events)
    /\ status \in {"none", "active", "completed", "blocked"}
    /\ lease \in Leases \cup {None}
    /\ made \in 0 .. MaxRequests
    /\ pc \in [Workers -> {"idle", "waiting", "lost"}]
    /\ request \in [Workers -> {None} \cup Requests]
    /\ know \in [Workers -> Seq(Events)]
    /\ reply \in [Workers -> {"none", "ok", "error"}]
    /\ lease # None => Len(events) \in 1 .. Budget[lease]
    /\ status = "none" <=> events = << >>

Init ==
    /\ clock = 0
    /\ events = << >> /\ status = "none" /\ lease = None
    /\ made = 0
    /\ pc = [w \in Workers |-> "idle"]
    /\ request = [w \in Workers |-> None]
    /\ know = [w \in Workers |-> << >>]
    /\ reply = [w \in Workers |-> "none"]

-----------------------------------------------------------------------------
(* What the supervisor checks.                                              *)

\* The status of a run whose last event is of this type.
StatusAfter(type) ==
    CASE type = "run_completed" -> "completed"
      [] type = "run_blocked" -> "blocked"
      [] OTHER -> "active"

\* ValidateIssueRepairSupervisorState: the order of the events ...
OrderedEvents ==
    \A i \in DOMAIN events :
        /\ (events[i].type = "run_started") = (i = 1)
        /\ events[i].type \in Terminal => i = Len(events)

\* ... one lease for all of them, and the status of the last ...
BoundEvents ==
    /\ \A i \in DOMAIN events : events[i].lease = lease
    /\ Len(events) <= Budget[lease]
    /\ status = StatusAfter(Last(events).type)

\* ... and a lease that was still good when the last one was recorded.
TimelyLease ==
    IF status = "active" THEN Last(events).at < Expiry[lease]
    ELSE Last(events).at <= Expiry[lease]

Valid == OrderedEvents /\ BoundEvents /\ TimelyLease

\* issueRepairRequestMatchesLastEvent.
RepeatsLast(w) ==
    LET last == Last(events) IN
    /\ last.type = request[w].type
    /\ last.content = request[w].content
    /\ last.lease = LeaseOf[w]

\* Faulty variant: the checkpoint of a repeated request does not matter.
AnyReplay(w) == TRUE

\* Faulty variant: the earlier checkpoint is rebuilt with the present status.
SameStatusReplay(w) == status = "active" /\ request[w].expected = Front(events)

\* issueRepairReplayCheckpointMatches: the checkpoint before the last event,
\* rebuilt as of then: active, whatever the run became by its last event.
ReplayMatches(w) == request[w].expected = Front(events)

\* Faulty variant: the expected checkpoint is not compared.
AppliesToAny(w) == TRUE

\* The compare-and-swap on the checkpoint.
AppliesToCurrent(w) == request[w].expected = events

\* Faulty variant: one event more than the budget.
OpenBeyond == status = "active" /\ Len(events) <= Budget[lease]

\* Faulty variant: a run that ended accepts events.
OpenForever == Len(events) < Budget[lease]

Open == status = "active" /\ Len(events) < Budget[lease]

\* What the transaction does with w's request.
Replayed(w) ==
    /\ status # "none" /\ Valid /\ LeaseOf[w] = lease
    /\ RepeatsLast(w) /\ ReplayMatches(w)

Appended(w) ==
    IF status = "none" THEN request[w].type = "run_started"
    ELSE /\ Valid /\ LeaseOf[w] = lease
         /\ ~RepeatsLast(w) /\ AppliesToCurrent(w) /\ Open

-----------------------------------------------------------------------------
(* The steps of a worker and of the call it makes.                          *)

\* The call's first check, against the clock on arrival.
Arrive(w) ==
    IF clock < Expiry[LeaseOf[w]]
    THEN pc' = [pc EXCEPT ![w] = "waiting"] /\ UNCHANGED reply
    ELSE /\ pc' = [pc EXCEPT ![w] = "idle"]
         /\ reply' = [reply EXCEPT ![w] = "error"]

Request(w) ==
    /\ pc[w] = "idle"
    /\ made < MaxRequests
    /\ made' = made + 1
    /\ \E t \in EventTypes, x \in Contents :
           request' = [request EXCEPT ![w] =
               [type |-> t, content |-> x, expected |-> know[w], number |-> made']]
    /\ Arrive(w)
    /\ UNCHANGED << clock, run, know >>

\* The worker had no answer, or a failure, and sends the same request.
Retry(w) ==
    /\ pc[w] = "lost" \/ (pc[w] = "idle" /\ reply[w] = "error")
    /\ Arrive(w)
    /\ UNCHANGED << clock, run, made, request, know >>

\* It reads the record instead and forgets what it asked.
Reread(w) ==
    /\ pc[w] # "waiting"
    /\ know' = [know EXCEPT ![w] = events]
    /\ pc' = [pc EXCEPT ![w] = "idle"]
    /\ request' = [request EXCEPT ![w] = None]
    /\ reply' = [reply EXCEPT ![w] = "none"]
    /\ UNCHANGED << clock, run, made >>

\* The answer arrives, with the checkpoint it reports, or it is lost.
Answer(w, answer, checkpoint) ==
    \/ /\ pc' = [pc EXCEPT ![w] = "idle"]
       /\ reply' = [reply EXCEPT ![w] = answer]
       /\ know' = [know EXCEPT ![w] = checkpoint]
    \/ pc' = [pc EXCEPT ![w] = "lost"] /\ UNCHANGED << reply, know >>

Replay(w) ==
    /\ pc[w] = "waiting"
    /\ Replayed(w)
    /\ Answer(w, "ok", events)
    /\ UNCHANGED << clock, run, made, request >>

\* The event is stamped with the time inside the transaction.
Record(w) ==
    LET r == request[w] IN
    /\ pc[w] = "waiting"
    /\ Appended(w)
    /\ events' = Append(events, [ type |-> r.type, content |-> r.content,
                                  lease |-> LeaseOf[w], at |-> clock,
                                  number |-> r.number ])
    /\ status' = StatusAfter(r.type)
    /\ lease' = LeaseOf[w]
    /\ Answer(w, "ok", events')
    /\ UNCHANGED << clock, made, request >>

\* The checks refuse the request, the Mission's goal lease refuses a new run, or
\* the store fails.
Refuse(w) ==
    /\ pc[w] = "waiting"
    /\ Answer(w, "error", know[w])
    /\ UNCHANGED << clock, run, made, request >>

Tick ==
    /\ clock < MaxTime
    /\ clock' = clock + 1
    /\ UNCHANGED << run, made, pc, request, know, reply >>

Next ==
    \/ \E w \in Workers : Request(w) \/ Retry(w) \/ Reread(w)
                            \/ Replay(w) \/ Record(w) \/ Refuse(w)
    \/ Tick

Spec == Init /\ [][Next]_vars

-----------------------------------------------------------------------------
(* Properties.                                                              *)

\* A request is recorded at most once, however often it is sent, whatever other
\* workers record in between, and whoever holds an old checkpoint.
RequestRecordedOnce ==
    \A i, j \in DOMAIN events : events[i].number = events[j].number => i = j

\* A worker that was told its request is recorded finds it exactly where it
\* wanted it, right after the checkpoint it named.
RepliesAreTrue ==
    \A w \in Workers : pc[w] = "idle" /\ reply[w] = "ok" =>
        LET r == request[w]  i == Len(r.expected) + 1 IN
        /\ i \in DOMAIN events
        /\ events[i].type = r.type /\ events[i].content = r.content
        /\ events[i].lease = LeaseOf[w]
        /\ SubSeq(events, 1, i - 1) = r.expected

\* A worker whose request was the last thing recorded, and whose answer was lost,
\* is told so when it asks again, the run's last event included.
LostReplyIsRecovered ==
    \A w \in Workers :
        pc[w] = "waiting" /\ events # << >> /\ Valid
            /\ Last(events).number = request[w].number => Replayed(w)

\* Nothing but an event recorded after its lease expired, or a second
\* run_started, makes the supervisor write a state that it does not accept.
ValidUnlessLateOrRestarted ==
    events # << >> =>
        \/ Valid
        \/ ~TimelyLease
        \/ \E i \in 2 .. Len(events) : events[i].type = "run_started"
=============================================================================
