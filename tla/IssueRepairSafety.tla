------------------------- MODULE IssueRepairSafety -------------------------
(***************************************************************************)
(* The invariants of IssueRepair for every number of workers, leases,        *)
(* events and requests.  They are not inductive: that a request is recorded   *)
(* once depends on the requests that were made and not yet recorded, whose    *)
(* checkpoints the run's events extend.                                      *)
(***************************************************************************)
EXTENDS IssueRepair, SequenceTheorems, TLAPS

PrefixOf(s, t) == Len(s) <= Len(t) /\ \A i \in 1 .. Len(s) : s[i] = t[i]

\* The worker keeps a request.
Asked(w) == pc[w] # "idle" \/ reply[w] # "none"

\* The event at i is the one that w asked for.
IsRequested(w, i) ==
    /\ events[i].type = request[w].type
    /\ events[i].content = request[w].content
    /\ events[i].lease = LeaseOf[w]

\* An event that carries a request's number is the one it asked for, right
\* after the checkpoint it named, which every later run of events extends.
RequestInv(w) ==
    Asked(w) =>
        /\ request[w] \in Requests
        /\ request[w].number <= made
        /\ PrefixOf(request[w].expected, events)
        /\ \A i \in DOMAIN events : events[i].number = request[w].number =>
               i = Len(request[w].expected) + 1 /\ IsRequested(w, i)
        /\ \A v \in Workers \ {w} : Asked(v) => request[v].number # request[w].number

\* What a worker knows of the run stays true of it.
KnowInv(w) == PrefixOf(know[w], events)

\* A worker that got an answer finds its event.
AnswerInv(w) ==
    pc[w] = "idle" /\ reply[w] = "ok" =>
        /\ Len(request[w].expected) + 1 \in DOMAIN events
        /\ IsRequested(w, Len(request[w].expected) + 1)

NumberInv ==
    /\ \A i \in DOMAIN events : events[i].number <= made
    /\ RequestRecordedOnce

\* The run's events, apart from when they were recorded and how often it started.
RunInv ==
    events # << >> =>
        /\ lease \in Leases
        /\ BoundEvents
        /\ events[1].type = "run_started"
        /\ \A i \in DOMAIN events : events[i].type \in Terminal => i = Len(events)

IInv ==
    /\ TypeOK
    /\ \A w \in Workers : RequestInv(w) /\ KnowInv(w) /\ AnswerInv(w)
    /\ NumberInv
    /\ RunInv

-----------------------------------------------------------------------------
(* Sequences.                                                               *)

\* Appending an element.
LEMMA AppendOK ==
    ASSUME NEW S, NEW s \in Seq(S), NEW e \in S
    PROVE  /\ Append(s, e) \in Seq(S)
           /\ Len(Append(s, e)) = Len(s) + 1
           /\ DOMAIN Append(s, e) = 1 .. Len(s) + 1
           /\ Append(s, e)[Len(s) + 1] = e
           /\ \A i \in 1 .. Len(s) : Append(s, e)[i] = s[i]
OBVIOUS

\* A prefix of s is the part of s that has its length.
LEMMA PrefixIsPart ==
    ASSUME NEW S, NEW s \in Seq(S), NEW t \in Seq(S), PrefixOf(t, s)
    PROVE  SubSeq(s, 1, Len(t)) = t
<1> DEFINE part == SubSeq(s, 1, Len(t))
<1>1. Len(t) \in Nat /\ Len(s) \in Nat /\ Len(t) <= Len(s)
  BY LenProperties DEF PrefixOf
<1>2. \A i \in 1 .. Len(t) : s[i] \in S
  BY <1>1, ElementOfSeq
<1>3. /\ part \in Seq(S)
      /\ Len(part) = IF 1 <= Len(t) THEN Len(t) - 1 + 1 ELSE 0
      /\ \A i \in 1 .. Len(t) - 1 + 1 : part[i] = s[1 + i - 1]
  <2> HIDE DEF part
  <2>1. 1 \in Int /\ Len(t) \in Int
    BY <1>1
  <2> QED
    BY <2>1, <1>2, SubSeqProperties DEF part
<1> HIDE DEF part
<1>4. Len(part) = Len(t)
  BY <1>1, <1>3
<1>5. \A i \in 1 .. Len(part) : part[i] = t[i]
  BY <1>1, <1>3, <1>4 DEF PrefixOf
<1>6. part = t
  BY <1>3, <1>4, <1>5, SeqEqual
<1> QED
  BY <1>6 DEF part

\* The one prefix that is a single element shorter is Front.
LEMMA PrefixIsFront ==
    ASSUME NEW S, NEW s \in Seq(S), NEW t \in Seq(S), PrefixOf(t, s), Len(t) + 1 = Len(s)
    PROVE  t = Front(s)
<1>1. Len(t) \in Nat /\ Len(s) - 1 = Len(t)
  BY LenProperties
<1> QED
  BY <1>1, PrefixIsPart DEF Front

\* Front is a single element shorter.
LEMMA FrontLength ==
    ASSUME NEW S, NEW s \in Seq(S), s # << >>
    PROVE  Len(Front(s)) + 1 = Len(s)
<1> DEFINE n == Len(s) - 1  front == SubSeq(s, 1, n)
<1>1. Len(s) \in Nat \ {0}
  BY EmptySeq
<1>2. n \in Nat /\ \A i \in 1 .. n : s[i] \in S
  BY <1>1, ElementOfSeq
<1> HIDE DEF n
<1>3. Len(front) = IF 1 <= n THEN n - 1 + 1 ELSE 0
  BY <1>2, SubSeqProperties
<1> HIDE DEF front
<1>4. Len(front) = n
  BY <1>2, <1>3
<1> QED
  BY <1>1, <1>4 DEF Front, front, n

\* Which types of event end a run.
LEMMA StatusAfterOK ==
    ASSUME NEW type
    PROVE  /\ StatusAfter(type) \in {"active", "completed", "blocked"}
           /\ StatusAfter(type) = "active" => type \notin Terminal
BY DEF StatusAfter, Terminal

-----------------------------------------------------------------------------
(* Steps that record nothing.                                               *)

THEOREM Initially == Init => IInv
<1> SUFFICES ASSUME Init PROVE IInv
  OBVIOUS
<1> USE IssueRepairAssumption DEF Init
<1>1. << >> \in Seq(Events)
  OBVIOUS
<1>2. TypeOK
  BY <1>1 DEF TypeOK
<1>3. \A w \in Workers : RequestInv(w) /\ KnowInv(w) /\ AnswerInv(w)
  BY DEF RequestInv, Asked, KnowInv, AnswerInv, PrefixOf
<1>4. NumberInv /\ RunInv
  BY DEF NumberInv, RequestRecordedOnce, RunInv
<1> QED
  BY <1>2, <1>3, <1>4 DEF IInv

\* What holds of the run, and of the requests still kept, as long as nothing is
\* recorded and nothing new is asked.
LEMMA CalmStep ==
    ASSUME IInv, UNCHANGED << run, made >>,
           \A v \in Workers : Asked(v)' => Asked(v) /\ request'[v] = request[v]
    PROVE  (\A v \in Workers : RequestInv(v)') /\ NumberInv' /\ RunInv'
<1>1. \A v \in Workers : RequestInv(v)'
  <2> SUFFICES ASSUME NEW v \in Workers, Asked(v)' PROVE RequestInv(v)'
    BY DEF RequestInv
  <2>1. Asked(v) /\ request'[v] = request[v] /\ events' = events
    BY DEF run
  <2>2. RequestInv(v)
    BY DEF IInv
  <2>3. \A u \in Workers \ {v} : Asked(u)' => request'[u].number # request'[v].number
    BY <2>1, <2>2 DEF RequestInv
  <2> QED
    BY <2>1, <2>2, <2>3 DEF RequestInv, IsRequested
<1>2. NumberInv' /\ RunInv'
  BY DEF IInv, NumberInv, RequestRecordedOnce, RunInv, BoundEvents, run
<1> QED
  BY <1>1, <1>2

\* The type of a call on arrival.
LEMMA ArriveOK ==
    ASSUME TypeOK, NEW w \in Workers, Arrive(w)
    PROVE  /\ pc' \in [Workers -> {"idle", "waiting", "lost"}]
           /\ reply' \in [Workers -> {"none", "ok", "error"}]
           /\ \A v \in Workers \ {w} : pc'[v] = pc[v] /\ reply'[v] = reply[v]
           /\ ~(pc'[w] = "idle" /\ reply'[w] = "ok")
BY DEF Arrive, TypeOK

\* ... and of an answer, which is known or lost.
LEMMA AnswerOK ==
    ASSUME TypeOK, NEW w \in Workers, NEW answer \in {"ok", "error"},
           NEW checkpoint \in Seq(Events), Answer(w, answer, checkpoint)
    PROVE  /\ pc' \in [Workers -> {"idle", "waiting", "lost"}]
           /\ reply' \in [Workers -> {"none", "ok", "error"}]
           /\ know' \in [Workers -> Seq(Events)]
           /\ \A v \in Workers \ {w} :
                  pc'[v] = pc[v] /\ reply'[v] = reply[v] /\ know'[v] = know[v]
           /\ know'[w] \in {checkpoint, know[w]}
           /\ pc'[w] = "idle" => reply'[w] = answer
BY DEF Answer, TypeOK

LEMMA RequestStep ==
    ASSUME IInv, NEW w \in Workers, Request(w)
    PROVE  IInv'
<1> USE IssueRepairAssumption
<1>1. TypeOK /\ \A v \in Workers : RequestInv(v) /\ KnowInv(v) /\ AnswerInv(v)
  BY DEF IInv
<1>2. PICK t \in EventTypes, x \in Contents :
          request' = [request EXCEPT ![w] =
              [type |-> t, content |-> x, expected |-> know[w], number |-> made']]
  BY DEF Request
<1>3. /\ made' = made + 1 /\ made \in Nat /\ made' \in 1 .. MaxRequests
      /\ UNCHANGED << clock, run, know >> /\ Arrive(w)
  BY <1>1 DEF Request, TypeOK
<1>4. UNCHANGED << events, status, lease >>
  BY <1>3 DEF run
<1>5. /\ request'[w] = [type |-> t, content |-> x, expected |-> know[w], number |-> made']
      /\ \A v \in Workers \ {w} : request'[v] = request[v]
  BY <1>1, <1>2 DEF TypeOK
<1>6. request'[w] \in Requests
  BY <1>1, <1>3, <1>5 DEF Requests, TypeOK
<1>7. /\ pc' \in [Workers -> {"idle", "waiting", "lost"}]
      /\ reply' \in [Workers -> {"none", "ok", "error"}]
      /\ \A v \in Workers \ {w} : pc'[v] = pc[v] /\ reply'[v] = reply[v]
      /\ ~(pc'[w] = "idle" /\ reply'[w] = "ok")
  BY <1>1, <1>3, ArriveOK
<1>8. TypeOK'
  <2>1. request' \in [Workers -> {None} \cup Requests]
    BY <1>1, <1>2, <1>5, <1>6 DEF TypeOK
  <2>2. made' \in 0 .. MaxRequests
    BY <1>3
  <2> QED
    BY <1>1, <1>3, <1>4, <1>7, <2>1, <2>2 DEF TypeOK
<1>9. \A v \in Workers : RequestInv(v)'
  <2>1. NumberInv
    BY DEF IInv
  <2>2. \A i \in DOMAIN events : events[i].number # made'
    BY <1>1, <1>3, <2>1 DEF NumberInv, TypeOK, Events
  <2>3. \A v \in Workers \ {w} : Asked(v)' => Asked(v) /\ request[v].number # made'
    <3> SUFFICES ASSUME NEW v \in Workers \ {w}, Asked(v)'
                 PROVE  Asked(v) /\ request[v].number # made'
      OBVIOUS
    <3>1. Asked(v)
      BY <1>7 DEF Asked
    <3>2. request[v] \in Requests /\ request[v].number <= made
      BY <1>1, <3>1 DEF RequestInv
    <3> QED
      BY <1>3, <3>1, <3>2 DEF Requests
  <2>4. RequestInv(w)'
    <3>1. request'[w].number = made' /\ request'[w].expected = know[w]
      BY <1>5
    <3>2. \A v \in Workers \ {w} : Asked(v)' => request'[v].number # request'[w].number
      BY <1>5, <2>3, <3>1
    <3>3. PrefixOf(know[w], events)
      BY <1>1 DEF KnowInv
    <3>4. \A i \in DOMAIN events' : events'[i].number # request'[w].number
      BY <1>4, <2>2, <3>1
    <3>5. request'[w].number <= made'
      BY <1>3, <3>1
    <3> QED
      BY <1>4, <1>6, <3>1, <3>2, <3>3, <3>4, <3>5 DEF RequestInv
  <2>5. ASSUME NEW v \in Workers \ {w} PROVE RequestInv(v)'
    <3> SUFFICES ASSUME Asked(v)' PROVE RequestInv(v)'
      BY DEF RequestInv
    <3>1. Asked(v) /\ request[v].number # made' /\ request'[v] = request[v]
      BY <1>5, <2>3
    <3>2. RequestInv(v) /\ request[v] \in Requests /\ request[v].number <= made
      BY <1>1, <3>1 DEF RequestInv
    <3>3. request'[v].number <= made'
      BY <1>3, <3>1, <3>2 DEF Requests
    <3>4. \A u \in Workers \ {v} : Asked(u)' => request'[u].number # request'[v].number
      <4> SUFFICES ASSUME NEW u \in Workers \ {v}, Asked(u)'
                   PROVE  request'[u].number # request'[v].number
        OBVIOUS
      <4>1. CASE u = w
        BY <1>5, <3>1, <4>1
      <4>2. CASE u # w
        BY <1>5, <2>3, <3>1, <3>2, <4>2 DEF RequestInv
      <4> QED
        BY <4>1, <4>2
    <3>5. PrefixOf(request'[v].expected, events')
      BY <1>4, <3>1, <3>2 DEF RequestInv
    <3>6. \A i \in DOMAIN events' : events'[i].number = request'[v].number =>
              i = Len(request'[v].expected) + 1 /\ IsRequested(v, i)'
      BY <1>4, <3>1, <3>2 DEF RequestInv, IsRequested
    <3> QED
      BY <3>1, <3>2, <3>3, <3>4, <3>5, <3>6 DEF RequestInv
  <2> QED
    BY <2>4, <2>5
<1>10. \A v \in Workers : KnowInv(v)' /\ AnswerInv(v)'
  <2> SUFFICES ASSUME NEW v \in Workers PROVE KnowInv(v)' /\ AnswerInv(v)'
    OBVIOUS
  <2>1. KnowInv(v)'
    BY <1>1, <1>3, <1>4 DEF KnowInv
  <2>2. CASE v = w
    BY <1>7, <2>1, <2>2 DEF AnswerInv
  <2>3. CASE v # w
    BY <1>1, <1>4, <1>5, <1>7, <2>1, <2>3 DEF AnswerInv, IsRequested
  <2> QED
    BY <2>2, <2>3
<1>11. NumberInv'
  <2>1. NumberInv
    BY DEF IInv
  <2>2. \A i \in DOMAIN events : events[i].number \in Nat
    <3>1. \A i \in DOMAIN events : events[i] \in Events
      BY <1>1 DEF TypeOK
    <3> QED
      BY <3>1 DEF Events
  <2>3. \A i \in DOMAIN events : events[i].number <= made'
    BY <1>3, <2>1, <2>2 DEF NumberInv
  <2> QED
    BY <1>4, <2>1, <2>3 DEF NumberInv, RequestRecordedOnce
<1>12. RunInv'
  BY <1>4 DEF IInv, RunInv, BoundEvents
<1> QED
  BY <1>8, <1>9, <1>10, <1>11, <1>12 DEF IInv

LEMMA RetryStep ==
    ASSUME IInv, NEW w \in Workers, Retry(w)
    PROVE  IInv'
<1>1. TypeOK /\ \A v \in Workers : KnowInv(v) /\ AnswerInv(v)
  BY DEF IInv
<1>2. UNCHANGED << clock, run, made, request, know >> /\ Arrive(w) /\ Asked(w)
  BY <1>1 DEF Retry, Asked
<1>3. UNCHANGED << events, status, lease >>
  BY <1>2 DEF run
<1>4. /\ pc' \in [Workers -> {"idle", "waiting", "lost"}]
      /\ reply' \in [Workers -> {"none", "ok", "error"}]
      /\ \A v \in Workers \ {w} : pc'[v] = pc[v] /\ reply'[v] = reply[v]
      /\ ~(pc'[w] = "idle" /\ reply'[w] = "ok")
  BY <1>1, <1>2, ArriveOK
<1>5. TypeOK'
  BY <1>1, <1>2, <1>3, <1>4 DEF TypeOK
<1>6. \A v \in Workers : Asked(v)' => Asked(v) /\ request'[v] = request[v]
  BY <1>2, <1>4 DEF Asked
<1>7. (\A v \in Workers : RequestInv(v)') /\ NumberInv' /\ RunInv'
  BY <1>2, <1>6, CalmStep
<1>8. ASSUME NEW v \in Workers PROVE KnowInv(v)' /\ AnswerInv(v)'
  <2>1. KnowInv(v)'
    BY <1>1, <1>2, <1>3 DEF KnowInv
  <2>2. CASE v = w
    BY <1>4, <2>1, <2>2 DEF AnswerInv
  <2>3. CASE v # w
    BY <1>1, <1>2, <1>3, <1>4, <2>1, <2>3 DEF AnswerInv, IsRequested
  <2> QED
    BY <2>2, <2>3
<1> QED
  BY <1>5, <1>7, <1>8 DEF IInv

LEMMA RereadStep ==
    ASSUME IInv, NEW w \in Workers, Reread(w)
    PROVE  IInv'
<1>1. TypeOK /\ \A v \in Workers : KnowInv(v) /\ AnswerInv(v)
  BY DEF IInv
<1>2. UNCHANGED << clock, events, status, lease, made >> /\ UNCHANGED run
  BY DEF Reread, run
<1>3. /\ know'[w] = events /\ pc'[w] = "idle" /\ reply'[w] = "none"
      /\ \A v \in Workers \ {w} : /\ know'[v] = know[v] /\ pc'[v] = pc[v]
                                   /\ reply'[v] = reply[v] /\ request'[v] = request[v]
  BY <1>1 DEF Reread, TypeOK
<1>4. TypeOK'
  BY <1>1, <1>2 DEF TypeOK, Reread
<1>5. \A v \in Workers : Asked(v)' => Asked(v) /\ request'[v] = request[v]
  BY <1>3 DEF Asked
<1>6. (\A v \in Workers : RequestInv(v)') /\ NumberInv' /\ RunInv'
  BY <1>2, <1>5, CalmStep
<1>7. ASSUME NEW v \in Workers PROVE KnowInv(v)' /\ AnswerInv(v)'
  <2>1. CASE v = w
    <3>1. PrefixOf(events, events)
      BY <1>1, LenProperties DEF PrefixOf, TypeOK
    <3> QED
      BY <1>2, <1>3, <2>1, <3>1 DEF KnowInv, AnswerInv
  <2>2. CASE v # w
    BY <1>1, <1>2, <1>3, <2>2 DEF KnowInv, AnswerInv, IsRequested
  <2> QED
    BY <2>1, <2>2
<1> QED
  BY <1>4, <1>6, <1>7 DEF IInv

LEMMA RefuseStep ==
    ASSUME IInv, NEW w \in Workers, Refuse(w)
    PROVE  IInv'
<1>1. TypeOK /\ \A v \in Workers : KnowInv(v) /\ AnswerInv(v)
  BY DEF IInv
<1>2. /\ UNCHANGED << clock, run, made, request >>
      /\ Answer(w, "error", know[w]) /\ Asked(w) /\ know[w] \in Seq(Events)
  BY <1>1 DEF Refuse, Asked, TypeOK
<1>3. UNCHANGED << events, status, lease >>
  BY <1>2 DEF run
<1>4. /\ pc' \in [Workers -> {"idle", "waiting", "lost"}]
      /\ reply' \in [Workers -> {"none", "ok", "error"}]
      /\ know' \in [Workers -> Seq(Events)]
      /\ \A v \in Workers \ {w} :
             pc'[v] = pc[v] /\ reply'[v] = reply[v] /\ know'[v] = know[v]
      /\ know'[w] \in {know[w], know[w]}
      /\ pc'[w] = "idle" => reply'[w] = "error"
  BY <1>1, <1>2, AnswerOK
<1>5. TypeOK'
  BY <1>1, <1>2, <1>3, <1>4 DEF TypeOK
<1>6. \A v \in Workers : Asked(v)' => Asked(v) /\ request'[v] = request[v]
  BY <1>2, <1>4 DEF Asked
<1>7. (\A v \in Workers : RequestInv(v)') /\ NumberInv' /\ RunInv'
  BY <1>2, <1>6, CalmStep
<1>8. ASSUME NEW v \in Workers PROVE KnowInv(v)' /\ AnswerInv(v)'
  <2>1. KnowInv(v)'
    BY <1>1, <1>3, <1>4 DEF KnowInv
  <2>2. CASE v = w
    BY <1>4, <2>1, <2>2 DEF AnswerInv
  <2>3. CASE v # w
    BY <1>1, <1>2, <1>3, <1>4, <2>1, <2>3 DEF AnswerInv, IsRequested
  <2> QED
    BY <2>2, <2>3
<1> QED
  BY <1>5, <1>7, <1>8 DEF IInv

\* A step that changes nothing but the clock.
LEMMA QuietStep ==
    ASSUME IInv, UNCHANGED << run, made, pc, request, know, reply >>, TypeOK'
    PROVE  IInv'
<1>1. \A v \in Workers : KnowInv(v) /\ AnswerInv(v)
  BY DEF IInv
<1>2. \A v \in Workers : Asked(v)' => Asked(v) /\ request'[v] = request[v]
  BY DEF Asked
<1>3. (\A v \in Workers : RequestInv(v)') /\ NumberInv' /\ RunInv'
  BY <1>2, CalmStep
<1>4. \A v \in Workers : KnowInv(v)' /\ AnswerInv(v)'
  BY <1>1 DEF KnowInv, AnswerInv, IsRequested, run
<1> QED
  BY <1>3, <1>4 DEF IInv

LEMMA ReplayStep ==
    ASSUME IInv, NEW w \in Workers, Replay(w)
    PROVE  IInv'
<1>1. TypeOK /\ \A v \in Workers : RequestInv(v) /\ KnowInv(v) /\ AnswerInv(v)
  BY DEF IInv
<1>2. /\ UNCHANGED << clock, run, made, request >>
      /\ Answer(w, "ok", events) /\ Asked(w) /\ events \in Seq(Events)
  BY <1>1 DEF Replay, Asked, TypeOK
<1>3. UNCHANGED << events, status, lease >>
  BY <1>2 DEF run
<1>4. /\ pc' \in [Workers -> {"idle", "waiting", "lost"}]
      /\ reply' \in [Workers -> {"none", "ok", "error"}]
      /\ know' \in [Workers -> Seq(Events)]
      /\ \A v \in Workers \ {w} :
             pc'[v] = pc[v] /\ reply'[v] = reply[v] /\ know'[v] = know[v]
      /\ know'[w] \in {events, know[w]}
      /\ pc'[w] = "idle" => reply'[w] = "ok"
  BY <1>1, <1>2, AnswerOK
<1>5. TypeOK'
  BY <1>1, <1>2, <1>3, <1>4 DEF TypeOK
<1>6. \A v \in Workers : Asked(v)' => Asked(v) /\ request'[v] = request[v]
  BY <1>2, <1>4 DEF Asked
<1>7. (\A v \in Workers : RequestInv(v)') /\ NumberInv' /\ RunInv'
  BY <1>2, <1>6, CalmStep
<1>8. \* The last event is the one that w asked for.
      Len(request[w].expected) + 1 \in DOMAIN events
      /\ IsRequested(w, Len(request[w].expected) + 1)
  <2>1. events # << >> /\ RepeatsLast(w) /\ request[w].expected = Front(events)
    BY <1>1 DEF Replay, Replayed, ReplayMatches, TypeOK
  <2>2. Len(request[w].expected) + 1 = Len(events)
    BY <1>2, <2>1, FrontLength
  <2>3. Len(events) \in DOMAIN events
    BY <1>2, <2>1, EmptySeq, LenProperties
  <2> QED
    BY <2>1, <2>2, <2>3 DEF RepeatsLast, Last, IsRequested
<1>9. ASSUME NEW v \in Workers PROVE KnowInv(v)' /\ AnswerInv(v)'
  <2>1. PrefixOf(events, events)
    BY <1>2, LenProperties DEF PrefixOf
  <2>2. CASE v = w
    <3>1. KnowInv(w)'
      BY <1>1, <1>3, <1>4, <2>1 DEF KnowInv
    <3>2. AnswerInv(w)'
      BY <1>2, <1>3, <1>8 DEF AnswerInv, IsRequested
    <3> QED
      BY <2>2, <3>1, <3>2
  <2>3. CASE v # w
    BY <1>1, <1>2, <1>3, <1>4, <2>3 DEF KnowInv, AnswerInv, IsRequested
  <2> QED
    BY <2>2, <2>3
<1> QED
  BY <1>5, <1>7, <1>9 DEF IInv

-----------------------------------------------------------------------------
(* The step that records an event.                                          *)

\* What a prefix of s is, is a prefix of a longer s.
LEMMA PrefixExtends ==
    ASSUME NEW S, NEW s \in Seq(S), NEW e \in S, NEW t \in Seq(S), PrefixOf(t, s)
    PROVE  PrefixOf(t, Append(s, e))
<1>1. Len(t) \in Nat /\ Len(s) \in Nat
  BY LenProperties
<1> QED
  BY <1>1, AppendOK DEF PrefixOf

\* An event is recorded on top of the checkpoint its request named, ...
LEMMA RecordsOnExpected ==
    ASSUME IInv, NEW w \in Workers, Record(w)
    PROVE  request[w].expected = events
<1>1. TypeOK /\ RequestInv(w) /\ Asked(w)
  BY DEF IInv, Record, Asked
<1>2. request[w] \in Requests /\ PrefixOf(request[w].expected, events)
  BY <1>1 DEF RequestInv
<1>3. request[w].expected \in Seq(Events)
  BY <1>2 DEF Requests
<1>4. CASE status = "none"
  <2>1. events = << >> /\ Len(events) = 0
    BY <1>1, <1>4 DEF TypeOK
  <2>2. Len(request[w].expected) \in Nat /\ Len(request[w].expected) <= 0
    BY <1>2, <1>3, <2>1, LenProperties DEF PrefixOf
  <2>3. request[w].expected = << >>
    BY <1>3, <2>2, EmptySeq
  <2> QED
    BY <2>1, <2>3
<1>5. CASE status # "none"
  BY <1>5 DEF Record, Appended, AppliesToCurrent
<1> QED
  BY <1>4, <1>5

\* ... and was not recorded before.
LEMMA RecordsNewNumber ==
    ASSUME IInv, NEW w \in Workers, Record(w)
    PROVE  \A i \in DOMAIN events : events[i].number # request[w].number
<1>1. TypeOK /\ RequestInv(w) /\ Asked(w) /\ request[w].expected = events
  BY RecordsOnExpected DEF IInv, Record, Asked
<1>2. DOMAIN events = 1 .. Len(events) /\ Len(events) \in Nat
  BY <1>1, LenProperties DEF TypeOK
<1>3. \A i \in DOMAIN events :
          events[i].number = request[w].number => i = Len(events) + 1
  BY <1>1 DEF RequestInv
<1> QED
  BY <1>2, <1>3

\* The run accepts it: it is new, or active and below the budget of its lease.
LEMMA RecordsInOpenRun ==
    ASSUME IInv, NEW w \in Workers, Record(w)
    PROVE  /\ \/ events = << >> /\ request[w].type = "run_started"
              \/ events # << >> /\ status = "active" /\ lease = LeaseOf[w]
           /\ Len(events) < Budget[LeaseOf[w]]
           /\ \A i \in DOMAIN events :
                  events[i].type \notin Terminal /\ events[i].lease = LeaseOf[w]
<1>1. TypeOK /\ RunInv
  BY DEF IInv
<1>2. CASE status = "none"
  <2>1. events = << >> /\ Len(events) = 0 /\ DOMAIN events = {}
    BY <1>1, <1>2 DEF TypeOK
  <2>2. Budget[LeaseOf[w]] \in Nat \ {0}
    BY IssueRepairAssumption
  <2>3. request[w].type = "run_started"
    BY <1>2 DEF Record, Appended
  <2> QED
    BY <2>1, <2>2, <2>3
<1>3. CASE status # "none"
  <2>1. events # << >>
    BY <1>1, <1>3 DEF TypeOK
  <2>2. lease = LeaseOf[w] /\ status = "active" /\ Len(events) < Budget[lease]
    BY <1>3 DEF Record, Appended, Open
  <2>3. BoundEvents /\ \A i \in DOMAIN events : events[i].type \in Terminal => i = Len(events)
    BY <1>1, <2>1 DEF RunInv
  <2>4. events[Len(events)].type \notin Terminal
    BY <2>2, <2>3, StatusAfterOK DEF BoundEvents, Last
  <2> QED
    BY <2>1, <2>2, <2>3, <2>4 DEF BoundEvents
<1> QED
  BY <1>2, <1>3

LEMMA RecordStep ==
    ASSUME IInv, NEW w \in Workers, Record(w)
    PROVE  IInv'
<1> USE IssueRepairAssumption
<1> DEFINE r == request[w]
           e == [ type |-> r.type, content |-> r.content, lease |-> LeaseOf[w],
                  at |-> clock, number |-> r.number ]
           n == Len(events)
<1>1. TypeOK /\ \A v \in Workers : RequestInv(v) /\ KnowInv(v) /\ AnswerInv(v)
  BY DEF IInv
<1>2. /\ events' = Append(events, e) /\ status' = StatusAfter(r.type)
      /\ lease' = LeaseOf[w] /\ Answer(w, "ok", events')
      /\ UNCHANGED << clock, made, request >>
  BY DEF Record
<1>3. Asked(w) /\ r \in Requests /\ r.expected = events /\ r.number <= made
  BY <1>1, RecordsOnExpected DEF RequestInv, Record, Asked
<1>4. e \in Events
  BY <1>1, <1>3 DEF Events, Requests, TypeOK
<1>5. /\ e.type = r.type /\ e.content = r.content /\ e.lease = LeaseOf[w]
      /\ e.number = r.number
  OBVIOUS
<1>6. events \in Seq(Events) /\ n \in Nat /\ DOMAIN events = 1 .. n
  BY <1>1, LenProperties DEF TypeOK
<1> HIDE DEF e
<1>7. /\ events' \in Seq(Events) /\ Len(events') = n + 1 /\ DOMAIN events' = 1 .. n + 1
      /\ events'[n + 1] = e
      /\ \A i \in 1 .. n : events'[i] = events[i]
  BY <1>2, <1>4, <1>6, AppendOK
<1>8. /\ pc' \in [Workers -> {"idle", "waiting", "lost"}]
      /\ reply' \in [Workers -> {"none", "ok", "error"}]
      /\ know' \in [Workers -> Seq(Events)]
      /\ \A v \in Workers \ {w} :
             pc'[v] = pc[v] /\ reply'[v] = reply[v] /\ know'[v] = know[v]
      /\ know'[w] \in {events', know[w]}
      /\ pc'[w] = "idle" => reply'[w] = "ok"
  BY <1>1, <1>2, <1>7, AnswerOK
<1>9. \A v \in Workers : Asked(v)' => Asked(v)
  BY <1>3, <1>8 DEF Asked
<1>10. /\ \/ events = << >> /\ r.type = "run_started"
          \/ events # << >> /\ status = "active" /\ lease = LeaseOf[w]
       /\ n < Budget[LeaseOf[w]]
       /\ \A i \in 1 .. n : /\ events[i].type \notin Terminal
                            /\ events[i].lease = LeaseOf[w]
                            /\ events[i].number # r.number
  BY <1>6, RecordsInOpenRun, RecordsNewNumber
<1>11. LeaseOf[w] \in Leases /\ Budget[LeaseOf[w]] \in Nat
  OBVIOUS
<1>12. \A t \in Seq(Events) : PrefixOf(t, events) => PrefixOf(t, events')
  BY <1>2, <1>4, <1>6, PrefixExtends
<1>13. TypeOK'
  <2>1. Len(events') \in 1 .. Budget[lease']
    BY <1>2, <1>6, <1>7, <1>10, <1>11
  <2>2. events' # << >> /\ status' # "none"
        /\ status' \in {"none", "active", "completed", "blocked"}
    <3>1. Len(events') # 0 /\ Len(<< >>) = 0
      BY <1>6, <1>7
    <3>2. status' \in {"active", "completed", "blocked"}
      BY <1>2, StatusAfterOK
    <3> QED
      BY <3>1, <3>2
  <2> QED
    BY <1>1, <1>2, <1>7, <1>8, <1>11, <2>1, <2>2 DEF TypeOK
<1>14. ASSUME NEW v \in Workers PROVE RequestInv(v)'
  <2> SUFFICES ASSUME Asked(v)' PROVE RequestInv(v)'
    BY DEF RequestInv
  <2>1. Asked(v) /\ request'[v] = request[v] /\ made' = made
    BY <1>2, <1>9
  <2>2. /\ request[v] \in Requests /\ request[v].number <= made
        /\ PrefixOf(request[v].expected, events)
        /\ \A i \in 1 .. n : events[i].number = request[v].number =>
               i = Len(request[v].expected) + 1 /\ IsRequested(v, i)
        /\ \A u \in Workers \ {v} : Asked(u) => request[u].number # request[v].number
    BY <1>1, <1>6, <2>1 DEF RequestInv
  <2>3. PrefixOf(request'[v].expected, events')
    BY <1>12, <2>1, <2>2 DEF Requests
  <2>4. \A u \in Workers \ {v} : Asked(u)' => request'[u].number # request'[v].number
    BY <1>2, <1>9, <2>2
  <2>5. ASSUME NEW i \in DOMAIN events', events'[i].number = request'[v].number
        PROVE  i = Len(request'[v].expected) + 1 /\ IsRequested(v, i)'
    <3>1. CASE i \in 1 .. n
      BY <1>2, <1>7, <2>1, <2>2, <2>5, <3>1 DEF IsRequested
    <3>2. CASE i = n + 1
      <4>1. v = w
        BY <1>3, <1>5, <1>7, <2>1, <2>2, <2>5, <3>2
      <4>2. IsRequested(w, i)'
        BY <1>2, <1>5, <1>7, <3>2 DEF IsRequested
      <4> QED
        BY <1>2, <1>3, <3>2, <4>1, <4>2
    <3> QED
      BY <1>6, <1>7, <3>1, <3>2
  <2> QED
    BY <2>1, <2>2, <2>3, <2>4, <2>5 DEF RequestInv
<1>15. ASSUME NEW v \in Workers PROVE KnowInv(v)'
  <2>1. PrefixOf(know[v], events) /\ know[v] \in Seq(Events)
    BY <1>1 DEF KnowInv, TypeOK
  <2>2. PrefixOf(events', events')
    BY <1>6, <1>7 DEF PrefixOf
  <2> QED
    BY <1>8, <1>12, <2>1, <2>2 DEF KnowInv
<1>16. ASSUME NEW v \in Workers PROVE AnswerInv(v)'
  <2>1. CASE v = w
    <3>1. Len(request'[w].expected) + 1 = n + 1 /\ n + 1 \in DOMAIN events'
      BY <1>2, <1>3, <1>6, <1>7
    <3>2. IsRequested(w, Len(request[w].expected) + 1)'
      BY <1>2, <1>5, <1>7, <3>1 DEF IsRequested
    <3>3. Len(request'[w].expected) + 1 \in DOMAIN events'
      BY <3>1
    <3> QED
      BY <2>1, <3>2, <3>3 DEF AnswerInv
  <2>2. CASE v # w
    <3> SUFFICES ASSUME pc'[v] = "idle", reply'[v] = "ok" PROVE AnswerInv(v)'
      BY DEF AnswerInv
    <3> DEFINE i == Len(request[v].expected) + 1
    <3>1. i \in 1 .. n /\ IsRequested(v, i)
      BY <1>1, <1>6, <1>8, <2>2 DEF AnswerInv
    <3>2. i \in DOMAIN events' /\ events'[i] = events[i] /\ request' = request
      BY <1>2, <1>6, <1>7, <3>1
    <3> QED
      BY <3>1, <3>2 DEF AnswerInv, IsRequested
  <2> QED
    BY <2>1, <2>2
<1>17. NumberInv'
  <2>1. NumberInv
    BY DEF IInv
  <2>2. \A i \in DOMAIN events' : events'[i].number <= made'
    BY <1>2, <1>3, <1>5, <1>6, <1>7, <2>1 DEF NumberInv
  <2>3. ASSUME NEW i \in DOMAIN events', NEW j \in DOMAIN events',
               events'[i].number = events'[j].number
        PROVE  i = j
    <3>1. CASE i \in 1 .. n /\ j \in 1 .. n
      BY <1>6, <1>7, <2>1, <2>3, <3>1 DEF NumberInv, RequestRecordedOnce
    <3>2. CASE i = n + 1 /\ j \in 1 .. n
      BY <1>5, <1>7, <1>10, <2>3, <3>2
    <3>3. CASE i \in 1 .. n /\ j = n + 1
      BY <1>5, <1>7, <1>10, <2>3, <3>3
    <3>4. (i \in 1 .. n \/ i = n + 1) /\ (j \in 1 .. n \/ j = n + 1)
      BY <1>6, <1>7
    <3> QED
      BY <3>1, <3>2, <3>3, <3>4
  <2> QED
    BY <2>2, <2>3 DEF NumberInv, RequestRecordedOnce
<1>18. RunInv'
  <2>1. lease' \in Leases
    BY <1>2, <1>11
  <2>2. BoundEvents'
    <3>1. \A i \in DOMAIN events' : events'[i].lease = lease'
      BY <1>2, <1>5, <1>6, <1>7, <1>10
    <3>2. Len(events') <= Budget[lease']
      BY <1>2, <1>6, <1>7, <1>10, <1>11
    <3>3. status' = StatusAfter(events'[Len(events')].type)
      BY <1>2, <1>5, <1>7
    <3> QED
      BY <3>1, <3>2, <3>3 DEF BoundEvents, Last
  <2>3. events'[1].type = "run_started"
    <3>1. CASE n = 0
      <4>1. events = << >>
        BY <1>6, <3>1, EmptySeq
      <4> QED
        BY <1>5, <1>7, <1>10, <3>1, <4>1
    <3>2. CASE n # 0
      <4>1. events # << >> /\ events'[1] = events[1]
        BY <1>6, <1>7, <3>2, EmptySeq
      <4> QED
        BY <4>1 DEF IInv, RunInv
    <3> QED
      BY <3>1, <3>2
  <2>4. \A i \in DOMAIN events' : events'[i].type \in Terminal => i = Len(events')
    BY <1>6, <1>7, <1>10
  <2> QED
    BY <2>1, <2>2, <2>3, <2>4 DEF RunInv
<1> QED
  BY <1>13, <1>14, <1>15, <1>16, <1>17, <1>18 DEF IInv

-----------------------------------------------------------------------------
(* The invariant and what follows from it.                                  *)

THEOREM Inductive == IInv /\ [Next]_vars => IInv'
<1> SUFFICES ASSUME IInv, [Next]_vars PROVE IInv'
  OBVIOUS
<1>1. ASSUME NEW w \in Workers, Request(w) PROVE IInv'
  BY <1>1, RequestStep
<1>2. ASSUME NEW w \in Workers, Retry(w) PROVE IInv'
  BY <1>2, RetryStep
<1>3. ASSUME NEW w \in Workers, Reread(w) PROVE IInv'
  BY <1>3, RereadStep
<1>4. ASSUME NEW w \in Workers, Replay(w) PROVE IInv'
  BY <1>4, ReplayStep
<1>5. ASSUME NEW w \in Workers, Record(w) PROVE IInv'
  BY <1>5, RecordStep
<1>6. ASSUME NEW w \in Workers, Refuse(w) PROVE IInv'
  BY <1>6, RefuseStep
<1>7. CASE Tick
  <2>1. TypeOK'
    BY <1>7, IssueRepairAssumption DEF Tick, run, IInv, TypeOK
  <2> QED
    BY <1>7, <2>1, QuietStep DEF Tick
<1>8. CASE UNCHANGED vars
  <2>1. TypeOK'
    BY <1>8 DEF vars, run, IInv, TypeOK
  <2> QED
    BY <1>8, <2>1, QuietStep DEF vars
<1> QED
  BY <1>1, <1>2, <1>3, <1>4, <1>5, <1>6, <1>7, <1>8 DEF Next

THEOREM Invariant == Spec => []IInv
<1> QED
  BY Initially, Inductive, PTL DEF Spec

\* The run, the leases, the requests and the answers keep their types
\* (issueRepairSupervisorState), for every number of workers, leases and events.
THEOREM TypeCorrect == Spec => []TypeOK
<1>1. IInv => TypeOK
  BY DEF IInv
<1> QED
  BY <1>1, Invariant, PTL

\* No request is recorded twice, for any number of workers, retries and lost
\* answers (appendIssueRepairEvent).
THEOREM RecordedOnce == Spec => []RequestRecordedOnce
<1>1. IInv => RequestRecordedOnce
  BY DEF IInv, NumberInv
<1> QED
  BY <1>1, Invariant, PTL

\* A worker that was told its request is recorded finds it right after the
\* checkpoint it named, whatever was recorded since.
THEOREM RepliesTrue == Spec => []RepliesAreTrue
<1>1. IInv => RepliesAreTrue
  <2> SUFFICES ASSUME IInv, NEW w \in Workers, pc[w] = "idle", reply[w] = "ok"
               PROVE  LET r == request[w]  i == Len(r.expected) + 1 IN
                      /\ i \in DOMAIN events
                      /\ events[i].type = r.type /\ events[i].content = r.content
                      /\ events[i].lease = LeaseOf[w]
                      /\ SubSeq(events, 1, i - 1) = r.expected
    BY DEF RepliesAreTrue
  <2>1. TypeOK /\ RequestInv(w) /\ AnswerInv(w) /\ Asked(w)
    BY DEF IInv, Asked
  <2>2. request[w] \in Requests /\ PrefixOf(request[w].expected, events)
    BY <2>1 DEF RequestInv
  <2>3. request[w].expected \in Seq(Events) /\ events \in Seq(Events)
    BY <2>1, <2>2 DEF Requests, TypeOK
  <2>4. SubSeq(events, 1, Len(request[w].expected)) = request[w].expected
    BY <2>2, <2>3, PrefixIsPart
  <2>5. Len(request[w].expected) + 1 - 1 = Len(request[w].expected)
    BY <2>3, LenProperties
  <2> QED
    BY <2>1, <2>4, <2>5 DEF AnswerInv, IsRequested
<1> QED
  BY <1>1, Invariant, PTL

\* A worker whose answer was lost is told that its request is recorded when it
\* sends it again (issueRepairReplayCheckpointMatches).
THEOREM LostReplyRecovered == Spec => []LostReplyIsRecovered
<1>1. IInv => LostReplyIsRecovered
  <2> SUFFICES ASSUME IInv, NEW w \in Workers, pc[w] = "waiting", events # << >>, Valid,
                      Last(events).number = request[w].number
               PROVE  Replayed(w)
    BY DEF LostReplyIsRecovered
  <2> DEFINE n == Len(events)
  <2>1. TypeOK /\ RequestInv(w) /\ Asked(w)
    BY DEF IInv, Asked
  <2>2. events \in Seq(Events) /\ n \in DOMAIN events /\ status # "none"
    BY <2>1, EmptySeq, LenProperties DEF TypeOK
  <2>3. /\ request[w] \in Requests /\ PrefixOf(request[w].expected, events)
        /\ n = Len(request[w].expected) + 1 /\ IsRequested(w, n)
    BY <2>1, <2>2 DEF RequestInv, Last
  <2>4. request[w].expected = Front(events)
    BY <2>2, <2>3, PrefixIsFront DEF Requests
  <2>5. RepeatsLast(w) /\ LeaseOf[w] = lease
    BY <2>2, <2>3 DEF RepeatsLast, Last, IsRequested, Valid, BoundEvents
  <2> QED
    BY <2>2, <2>4, <2>5 DEF Replayed, ReplayMatches
<1> QED
  BY <1>1, Invariant, PTL

\* Only an event recorded after its lease expired, or a second run_started, makes
\* the supervisor write a state that ValidateIssueRepairSupervisorState refuses.
THEOREM OnlyTwoWaysToInvalid == Spec => []ValidUnlessLateOrRestarted
<1>1. IInv => ValidUnlessLateOrRestarted
  <2> SUFFICES ASSUME IInv, events # << >>,
                      ~ \E i \in 2 .. Len(events) : events[i].type = "run_started"
               PROVE  OrderedEvents /\ BoundEvents
    BY DEF ValidUnlessLateOrRestarted, Valid
  <2>1. RunInv /\ Len(events) \in Nat /\ DOMAIN events = 1 .. Len(events)
    BY LenProperties DEF IInv, TypeOK
  <2> QED
    BY <2>1 DEF RunInv, OrderedEvents
<1> QED
  BY <1>1, Invariant, PTL
=============================================================================
