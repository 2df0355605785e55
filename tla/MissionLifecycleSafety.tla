----------------------- MODULE MissionLifecycleSafety -----------------------
(***************************************************************************)
(* Proofs about MissionLifecycle.  The first part is the stored return gate,  *)
(* the final reconciliation and the halt of a running loop: a gate is stored  *)
(* by most operations and left alone by the others, and GateInv says why      *)
(* those that leave it alone may.  The second part is what a record presents, *)
(* where a resume returns to and the order of the slices: LoopInv.            *)
(***************************************************************************)
EXTENDS MissionLifecycle, FiniteSetTheorems, WellFoundedInduction, TLAPS

Fields == {"status", "route", "phase", "action", "origin", "contract", "refs", "history",
           "steps", "checkpoints", "blockers", "workgraph", "recommendation", "rollup",
           "candidate", "lease", "gate", "repairing"}

\* The fields the gate is computed from, besides the action.
Weighed == {"status", "blockers", "workgraph", "recommendation", "rollup", "lease"}

IsSequence(s) == \E S : s \in Seq(S)

\* A blocked Mission says by what it is blocked, and a readback of Atlas counts the
\* nodes of the wave the record holds, unless that wave has none ready.
Coherent(m) ==
    /\ DOMAIN m = Fields
    /\ IsSequence(m.checkpoints)
    /\ m.status = "blocked" => m.blockers # {}
    /\ m.recommendation # None => m.workgraph.ready \in {m.recommendation.ready, 0}

\* Why the final response may be given, now or ever since it was allowed.
Justified(m) ==
    \/ HardBlocker(m)
    \/ /\ ReadyNodes(m) = 0 /\ m.workgraph.ready = 0
       /\ m.status \in {"done", "stopped"} \/ CompletedNodes(m) >= MinNodes(m)

GateInv(m) == Coherent(m) /\ (m.gate = "allowed" => Justified(m))

-----------------------------------------------------------------------------
(* The operators the operations are built from.                             *)

\* What is weighed alike is blocked, ready and completed alike.
LEMMA WeighedAlike ==
    ASSUME NEW m, NEW n, \A f \in Weighed : n[f] = m[f]
    PROVE  /\ HardBlocker(n) <=> HardBlocker(m)
           /\ ReadyNodes(n) = ReadyNodes(m)
           /\ CompletedNodes(n) = CompletedNodes(m)
           /\ MinNodes(n) = MinNodes(m)
<1>1. /\ n.status = m.status /\ n.blockers = m.blockers /\ n.workgraph = m.workgraph
      /\ n.recommendation = m.recommendation /\ n.rollup = m.rollup /\ n.lease = m.lease
  BY DEF Weighed
<1> QED BY <1>1 DEF HardBlocker, ReadyNodes, CompletedNodes, MinNodes

\* Evaluating the gate makes a coherent record a justified one.
LEMMA GatedIsJustified ==
    ASSUME NEW m, Coherent(m)
    PROVE  GateInv(Gated(m)) /\ Gated(m).checkpoints = m.checkpoints
<1> DEFINE n == Gated(m)
<1>1. /\ DOMAIN n = Fields
      /\ \A f \in Fields \ {"gate"} : n[f] = m[f]
      /\ n.gate = "allowed" => FinalResponseAllowed(m)
  BY DEF Gated, Coherent, Fields
<1> HIDE DEF n
<1>2. /\ n.status = m.status /\ n.blockers = m.blockers /\ n.workgraph = m.workgraph
      /\ n.recommendation = m.recommendation /\ n.checkpoints = m.checkpoints
  BY <1>1 DEF Fields
<1>3. Coherent(n)
  BY <1>1, <1>2 DEF Coherent
<1>4. FinalResponseAllowed(m) => Justified(m)
  BY DEF FinalResponseAllowed, Justified, ReadyNodes, Coherent
<1>5. \A f \in Weighed : n[f] = m[f]
  BY <1>1 DEF Weighed, Fields
<1>6. Justified(m) => Justified(n)
  BY <1>2, <1>5, WeighedAlike DEF Justified
<1>7. GateInv(n)
  BY <1>1, <1>3, <1>4, <1>6 DEF GateInv
<1> QED BY <1>2, <1>7 DEF n

\* A change of what is not weighed leaves the gate as justified as it was.
LEMMA UnweighedKeeps ==
    ASSUME NEW m, NEW n, GateInv(m), DOMAIN n = Fields, IsSequence(n.checkpoints),
           \A f \in Weighed \cup {"gate"} : n[f] = m[f]
    PROVE  GateInv(n)
<1>1. /\ n.status = m.status /\ n.blockers = m.blockers /\ n.workgraph = m.workgraph
      /\ n.recommendation = m.recommendation /\ n.gate = m.gate
  BY DEF Weighed
<1>2. \A f \in Weighed : n[f] = m[f]
  OBVIOUS
<1> QED BY <1>1, <1>2, WeighedAlike DEF GateInv, Coherent, Justified

\* A sequence to which something is appended is a sequence, with the same entries in
\* the same places.
LEMMA Appended ==
    ASSUME NEW s, IsSequence(s), NEW e
    PROVE  /\ IsSequence(Append(s, e))
           /\ DOMAIN Append(s, e) = 1 .. (Len(s) + 1) /\ DOMAIN s = 1 .. Len(s)
           /\ Len(s) \in Nat /\ Append(s, e)[Len(s) + 1] = e
           /\ \A i \in DOMAIN s : Append(s, e)[i] = s[i]
<1>1. PICK S : s \in Seq(S)
  BY DEF IsSequence
<1>2. s \in Seq(S \cup {e})
  BY <1>1
<1>3. Append(s, e) \in Seq(S \cup {e})
  BY <1>2
<1> QED BY <1>2, <1>3 DEF IsSequence

\* An entry in the ledger, or a checkpoint, changes nothing else.
LEMMA LoggedKeeps ==
    ASSUME NEW m, DOMAIN m = Fields, NEW place, NEW boundary
    PROVE  /\ DOMAIN Logged(m, place, boundary) = Fields
           /\ \A f \in Fields \ {"history"} : Logged(m, place, boundary)[f] = m[f]
<1> QED BY DEF Logged, Fields

\* A checkpoint of another kind hands nothing off.
LEMMA NoHandoff ==
    ASSUME NEW m, NEW n, IsSequence(m.checkpoints), NEW e,
           n.checkpoints = Append(m.checkpoints, e), e.result.name # "handoff_required"
    PROVE  IsSequence(n.checkpoints) /\ Handoffs(n) = Handoffs(m)
<1>1. /\ IsSequence(n.checkpoints)
      /\ DOMAIN n.checkpoints = 1 .. (Len(m.checkpoints) + 1)
      /\ DOMAIN m.checkpoints = 1 .. Len(m.checkpoints)
      /\ Len(m.checkpoints) \in Nat /\ n.checkpoints[Len(m.checkpoints) + 1] = e
      /\ \A i \in DOMAIN m.checkpoints : n.checkpoints[i] = m.checkpoints[i]
  BY Appended
<1>2. \A i \in DOMAIN n.checkpoints :
         i \in DOMAIN m.checkpoints \/ n.checkpoints[i] = e
  BY <1>1
<1>3. DOMAIN m.checkpoints \subseteq DOMAIN n.checkpoints
  BY <1>1
<1> QED BY <1>1, <1>2, <1>3 DEF Handoffs

\* A checkpoint changes nothing else, and hands off only if that is its result.
LEMMA CheckpointedKeeps ==
    ASSUME NEW m, DOMAIN m = Fields, IsSequence(m.checkpoints), NEW place, NEW result
    PROVE  /\ DOMAIN Checkpointed(m, place, result) = Fields
           /\ \A f \in Fields \ {"checkpoints"} : Checkpointed(m, place, result)[f] = m[f]
           /\ IsSequence(Checkpointed(m, place, result).checkpoints)
           /\ result.name # "handoff_required" =>
                 Handoffs(Checkpointed(m, place, result)) = Handoffs(m)
<1> DEFINE n == Checkpointed(m, place, result)
           e == Checkpoint(m, place, result)
<1>1. /\ DOMAIN n = Fields
      /\ \A f \in Fields \ {"checkpoints"} : n[f] = m[f]
      /\ n.checkpoints = Append(m.checkpoints, e)
  BY DEF Checkpointed, Fields
<1>2. e.result = result
  BY DEF Checkpoint
<1> HIDE DEF n, e
<1>3. IsSequence(n.checkpoints)
  BY <1>1, Appended
<1>4. result.name # "handoff_required" => Handoffs(n) = Handoffs(m)
  BY <1>1, <1>2, NoHandoff
<1> QED BY <1>1, <1>3, <1>4 DEF n

-----------------------------------------------------------------------------
(* What the operations make of the record. *)

\* An iteration of the Continue loop evaluates the gate.
LEMMA IterationGated ==
    ASSUME Coherent(mission), NEW c \in Callers, ContinueIteration(c)
    PROVE  GateInv(mission')
<1> DEFINE leased == Leased(mission, loops[c].minNodes)
           next == NextActionForRecord(leased)
           moved == [leased EXCEPT !.steps = Append(@, next), !.route = next.route,
                           !.phase = "handoff_required", !.action = next.action]
           result == Result("handoff_required")
           handed == Checkpointed(moved, next, result)
<1>1. /\ DOMAIN leased = Fields
      /\ \A f \in Fields \ {"lease"} : leased[f] = mission[f]
  BY DEF Leased, Coherent, Fields
<1> HIDE DEF leased
<1>2. Coherent(leased)
  BY <1>1 DEF Coherent, Fields
<1> HIDE DEF next
<1>3. /\ DOMAIN moved = Fields
      /\ moved.checkpoints = leased.checkpoints /\ moved.status = leased.status
      /\ moved.blockers = leased.blockers /\ moved.workgraph = leased.workgraph
      /\ moved.recommendation = leased.recommendation
  BY <1>1 DEF Fields
<1> HIDE DEF moved, result
<1>4. IsSequence(moved.checkpoints)
  BY <1>2, <1>3 DEF Coherent
<1>5. /\ DOMAIN handed = Fields /\ IsSequence(handed.checkpoints)
      /\ handed.status = leased.status
      /\ handed.blockers = leased.blockers /\ handed.workgraph = leased.workgraph
      /\ handed.recommendation = leased.recommendation
  BY <1>3, <1>4, CheckpointedKeeps DEF Fields
<1> HIDE DEF handed
<1>6. Coherent(handed)
  BY <1>2, <1>5 DEF Coherent
<1>7. mission' = Gated(leased) \/ mission' = Gated(handed)
  BY DEF ContinueIteration, HandedOff, handed, moved, next, leased, result
<1> QED BY <1>2, <1>6, <1>7, GatedIsJustified

\* So does an import of the kinds that steer the work.
LEMMA ImportGates ==
    ASSUME NEW new, Coherent(new), ImportedAndGated(new)
    PROVE  GateInv(mission') /\ mission'.checkpoints = new.checkpoints
<1> DEFINE place == Place(new.route, new.action)
           boundary == FALSE
           logged == Logged(new, place, boundary)
<1>1. mission' = Gated(logged)
  BY DEF ImportedAndGated
<1> HIDE DEF place, boundary
<1>2. /\ DOMAIN logged = Fields
      /\ \A f \in Fields \ {"history"} : logged[f] = new[f]
  BY LoggedKeeps DEF Coherent
<1> HIDE DEF logged
<1>3. Coherent(logged) /\ logged.checkpoints = new.checkpoints
  BY <1>2 DEF Coherent, Fields
<1> QED BY <1>1, <1>3, GatedIsJustified

\* Recording a document changes nothing but the documents.
LEMMA RecordedKeeps ==
    ASSUME Coherent(mission), NEW d
    PROVE  /\ DOMAIN Recorded(d) = Fields
           /\ \A f \in Fields \ {"refs"} : Recorded(d)[f] = mission[f]
           /\ Coherent(Recorded(d)) /\ Recorded(d).checkpoints = mission.checkpoints
<1>1. /\ DOMAIN Recorded(d) = Fields
      /\ \A f \in Fields \ {"refs"} : Recorded(d)[f] = mission[f]
  BY DEF Recorded, Coherent, Fields
<1>2. Coherent(Recorded(d)) /\ Recorded(d).checkpoints = mission.checkpoints
  BY <1>1 DEF Coherent, Fields
<1> QED BY <1>1, <1>2

\* A readback of Atlas replaces the counts of the wave with its own.
LEMMA ReadBackCoherent ==
    ASSUME Coherent(mission), NEW d
    PROVE  Coherent(ReadBack(d)) /\ ReadBack(d).checkpoints = mission.checkpoints
<1> DEFINE r == Recorded(d)
           b == ReadBack(d)
           count == [total |-> d.total, ready |-> d.ready, completed |-> d.completed]
           back == Readback(d)
<1>1. count.ready = d.ready /\ back.ready = d.ready
  BY DEF Readback
<1>2. DOMAIN r = Fields /\ Coherent(r) /\ r.checkpoints = mission.checkpoints
  BY RecordedKeeps
<1>3. b = [r EXCEPT !.recommendation = back, !.workgraph = count, !.action = d.action]
  BY DEF ReadBack
<1> HIDE DEF r, b, count, back
<1>4. /\ DOMAIN b = Fields /\ b.checkpoints = r.checkpoints /\ b.status = r.status
      /\ b.blockers = r.blockers /\ b.recommendation = back /\ b.workgraph = count
  BY <1>2, <1>3 DEF Fields
<1>5. Coherent(b)
  BY <1>1, <1>2, <1>4 DEF Coherent
<1> QED BY <1>2, <1>4, <1>5 DEF b

\* A record made coherently, with the checkpoints of the one it was made from.
Follows(m, n) == Coherent(n) /\ n.checkpoints = m.checkpoints

\* Closing or blocking a Mission, or sending it elsewhere, keeps it coherent.
LEMMA EndingsCoherent ==
    ASSUME NEW m, Coherent(m), NEW d, NEW route, NEW phase, NEW action
    PROVE  /\ Follows(m, Closed(m))
           /\ Follows(m, [Closed(m) EXCEPT !.action = action])
           /\ Follows(m, Blocked(m, d))
           /\ Follows(m, [m EXCEPT !.route = route, !.phase = phase, !.action = action])
           /\ Follows(m, [m EXCEPT !.phase = phase, !.action = action])
<1>1. Follows(m, Closed(m))
  BY DEF Closed, Coherent, Follows, Fields
<1>2. \A n : Follows(m, n) =>
           /\ Follows(m, [n EXCEPT !.action = action])
           /\ Follows(m, [n EXCEPT !.phase = phase, !.action = action])
           /\ Follows(m, [n EXCEPT !.route = route, !.phase = phase, !.action = action])
  BY DEF Coherent, Follows, Fields
<1>3. Follows(m, [Closed(m) EXCEPT !.action = action])
  BY <1>1, <1>2
<1>4. Follows(m, m)
  BY DEF Follows
<1> DEFINE b == Blocked(m, d)
<1>5. /\ DOMAIN b = Fields /\ b.checkpoints = m.checkpoints
      /\ b.blockers = m.blockers \cup {d.kind} /\ b.recommendation = m.recommendation
      /\ b.workgraph = m.workgraph
  BY DEF Blocked, Coherent, Fields
<1> HIDE DEF b
<1>6. Follows(m, b)
  BY <1>5 DEF Coherent, Follows
<1> QED BY <1>1, <1>2, <1>3, <1>4, <1>6 DEF b

\* A workgraph with ready nodes leaves no readback of the wave before it.
LEMMA WorkgraphGated ==
    ASSUME Coherent(mission), NEW d \in Documents, ImportWorkgraph(d)
    PROVE  GateInv(mission') /\ mission'.checkpoints = mission.checkpoints
<1> DEFINE r == Recorded(d)
           count == [total |-> d.total, ready |-> d.ready, completed |-> d.completed]
           counted == [r EXCEPT !.workgraph = count]
           wave == [counted EXCEPT !.status = "active", !.blockers = {},
                                   !.recommendation = None, !.rollup = None]
           based == IF d.ready > 0 THEN wave ELSE counted
           action == IF d.ready > 0 /\ d.action = NoAction THEN d.kind ELSE d.action
           new == [based EXCEPT !.route = "ao-foundry", !.phase = "atlas_workgraph_ready",
                                !.action = action]
<1>1. ImportedAndGated(new)
  BY DEF ImportWorkgraph
<1>2. d.ready \in Nat /\ count.ready = d.ready
  BY DocumentsAssumption
<1>3. DOMAIN r = Fields /\ Follows(mission, r)
  BY RecordedKeeps DEF Follows
<1> HIDE DEF r, count, action
<1>4. /\ DOMAIN counted = Fields /\ counted.checkpoints = r.checkpoints
      /\ counted.status = r.status /\ counted.blockers = r.blockers
      /\ counted.workgraph = count /\ counted.recommendation = r.recommendation
  BY <1>3 DEF Fields
<1> HIDE DEF counted
<1>5. /\ DOMAIN wave = Fields /\ wave.checkpoints = counted.checkpoints
      /\ wave.status = "active" /\ wave.recommendation = None
  BY <1>4 DEF Fields
<1> HIDE DEF wave
<1>6. Follows(mission, based)
  BY <1>2, <1>3, <1>4, <1>5 DEF Coherent, Follows
<1> HIDE DEF based
<1>7. Follows(mission, new)
  BY <1>6 DEF Coherent, Follows, Fields
<1> HIDE DEF new
<1> QED BY <1>1, <1>7, ImportGates DEF Follows

\* What Atlas reads back is weighed, whether it closes, blocks or neither.
LEMMA ReadbacksGated ==
    ASSUME Coherent(mission), NEW d,
           ImportRecommendation(d) \/ ImportSynthesis(d)
    PROVE  GateInv(mission') /\ mission'.checkpoints = mission.checkpoints
<1> DEFINE read == ReadBack(d)
           action == IF d.mine = "no" \/ read.action = NoAction THEN d.kind ELSE read.action
           other == IF d.mine # "yes" \/ read.action = NoAction THEN d.kind ELSE read.action
           told == IF d.action = NoAction THEN Closed(read).action ELSE d.action
           route == "ao-atlas"
           phase == d.kind
<1>1. Coherent(read) /\ read.checkpoints = mission.checkpoints
  BY ReadBackCoherent
<1>2. \E new : /\ ImportedAndGated(new)
               /\ new \in {Closed(read), Blocked(read, d),
                           [Closed(read) EXCEPT !.action = told],
                           [read EXCEPT !.route = route, !.phase = phase, !.action = action],
                           [read EXCEPT !.route = route, !.phase = phase, !.action = other]}
  <2>1. CASE ImportRecommendation(d)
    BY <2>1 DEF ImportRecommendation
  <2>2. CASE ImportSynthesis(d)
    BY <2>2 DEF ImportSynthesis
  <2> QED BY <2>1, <2>2
<1> HIDE DEF read, action, other, told, route, phase
<1>3. PICK new : /\ ImportedAndGated(new)
                 /\ new \in {Closed(read), Blocked(read, d),
                           [Closed(read) EXCEPT !.action = told],
                           [read EXCEPT !.route = route, !.phase = phase, !.action = action],
                           [read EXCEPT !.route = route, !.phase = phase, !.action = other]}
  BY <1>2
<1>4. /\ Follows(read, Closed(read)) /\ Follows(read, Blocked(read, d))
      /\ Follows(read, [Closed(read) EXCEPT !.action = told])
      /\ Follows(read, [read EXCEPT !.route = route, !.phase = phase, !.action = action])
      /\ Follows(read, [read EXCEPT !.route = route, !.phase = phase, !.action = other])
  BY <1>1, EndingsCoherent
<1>5. Follows(read, new)
  BY <1>3, <1>4
<1> QED BY <1>1, <1>3, <1>5, ImportGates DEF Follows

\* So is what Foundry reports.
LEMMA FoundryGated ==
    ASSUME Coherent(mission), NEW d, ImportRunLink(d) \/ ImportRollup(d)
    PROVE  GateInv(mission') /\ mission'.checkpoints = mission.checkpoints
<1> DEFINE r == Recorded(d)
           total == [status |-> d.status, total |-> d.total, completed |-> d.completed]
           read == [r EXCEPT !.rollup = total]
           phase == d.kind
           action == d.kind
           linked == [r EXCEPT !.phase = phase, !.action = action]
           open == [read EXCEPT !.phase = phase, !.action = action]
<1>1. \E new : /\ ImportedAndGated(new)
               /\ new \in {linked, Closed(read), Blocked(read, d), open}
  <2>1. CASE ImportRunLink(d)
    BY <2>1 DEF ImportRunLink
  <2>2. CASE ImportRollup(d)
    BY <2>2 DEF ImportRollup
  <2> QED BY <2>1, <2>2
<1>2. Follows(mission, r)
  BY RecordedKeeps DEF Follows
<1> HIDE DEF r, total, phase, action
<1>3. Follows(mission, read)
  BY <1>2 DEF Coherent, Follows, Fields
<1>4. Coherent(r) /\ Coherent(read)
  BY <1>2, <1>3 DEF Follows
<1>5. Follows(r, linked)
  BY <1>4, EndingsCoherent
<1> HIDE DEF read, linked
<1>6. Follows(read, Closed(read)) /\ Follows(read, Blocked(read, d)) /\ Follows(read, open)
  BY <1>4, EndingsCoherent
<1> HIDE DEF open
<1>7. PICK new : /\ ImportedAndGated(new)
                 /\ new \in {linked, Closed(read), Blocked(read, d), open}
  BY <1>1
<1>8. Follows(mission, new)
  BY <1>2, <1>3, <1>5, <1>6, <1>7 DEF Follows
<1> QED BY <1>7, <1>8, ImportGates DEF Follows

\* What is imported without a look at the gate leaves alone what the gate weighs.
LEMMA UngatedImports ==
    ASSUME GateInv(mission), NEW d,
           ImportEvidence(d) \/ ImportCandidate(d) \/ ImportNotice(d)
    PROVE  GateInv(mission') /\ mission'.checkpoints = mission.checkpoints
<1> DEFINE r == Recorded(d)
<1>1. /\ DOMAIN r = Fields /\ \A f \in Fields \ {"refs"} : r[f] = mission[f]
      /\ Coherent(r)
  BY RecordedKeeps DEF GateInv
<1>2. IsSequence(mission.checkpoints)
  BY DEF GateInv, Coherent
<1>3. CASE ImportEvidence(d)
  <2>1. mission' = r
    BY <1>3 DEF ImportEvidence
  <2> HIDE DEF r
  <2> QED BY <2>1, <1>1, <1>2, UnweighedKeeps DEF Fields, Weighed
<1>4. CASE ImportCandidate(d)
  <2> DEFINE run == [role |-> d.role, digest |-> d.digest]
             n == [r EXCEPT !.candidate = run]
  <2>1. mission' = n
    BY <1>4 DEF ImportCandidate
  <2> HIDE DEF r, run
  <2>2. /\ DOMAIN n = Fields
        /\ \A f \in Fields \ {"refs", "candidate"} : n[f] = mission[f]
    BY <1>1 DEF Fields
  <2> HIDE DEF n
  <2> QED BY <2>1, <2>2, <1>2, UnweighedKeeps DEF Fields, Weighed
<1>5. CASE ImportNotice(d)
  <2> DEFINE route == IF d.kind = "blueprint-authorization" THEN "ao-atlas" ELSE r.route
             phase == d.kind
             action == IF d.kind = "scheduler-recovery-readback" /\ d.action # NoAction
                       THEN d.action ELSE d.kind
             n == [r EXCEPT !.route = route, !.phase = phase, !.action = action]
             place == Place(n.route, n.action)
             boundary == FALSE
  <2>1. mission' = Logged(n, place, boundary)
    BY <1>5 DEF ImportNotice, Imported
  <2> HIDE DEF r, route, phase, action, place, boundary
  <2>2. /\ DOMAIN n = Fields
        /\ \A f \in Fields \ {"refs", "route", "phase", "action"} : n[f] = mission[f]
    BY <1>1 DEF Fields
  <2> HIDE DEF n
  <2>3. /\ DOMAIN Logged(n, place, boundary) = Fields
        /\ \A f \in Fields \ {"history"} : Logged(n, place, boundary)[f] = n[f]
    BY <2>2, LoggedKeeps
  <2> QED BY <2>1, <2>2, <2>3, <1>2, UnweighedKeeps DEF Fields, Weighed
<1> QED BY <1>3, <1>4, <1>5

\* Pause and resume evaluate the gate; to stop is to be done with what is left.
LEMMA ControlsGated ==
    ASSUME GateInv(mission), Pause \/ Resume \/ Stop
    PROVE  GateInv(mission') /\ mission'.checkpoints = mission.checkpoints
<1>1. Coherent(mission)
  BY DEF GateInv
<1>2. CASE Pause
  <2> DEFINE here == Place(mission.route, mission.action)
             boundary == TRUE
             marked == IF UsableResumeState(here, mission.phase)
                       THEN Logged(mission, here, boundary) ELSE mission
             new == [marked EXCEPT !.status = "paused", !.phase = "paused",
                                   !.action = PauseAction]
  <2>1. mission' = Gated(new)
    BY <1>2 DEF Pause
  <2> HIDE DEF here, boundary
  <2>2. /\ DOMAIN marked = Fields
        /\ \A f \in Fields \ {"history"} : marked[f] = mission[f]
    BY <1>1, LoggedKeeps DEF Coherent
  <2> HIDE DEF marked
  <2>3. Follows(mission, new)
    BY <1>1, <2>2 DEF Coherent, Follows, Fields
  <2> HIDE DEF new
  <2> QED BY <2>1, <2>3, GatedIsJustified DEF Follows
<1>3. CASE Resume
  <2> DEFINE state == ResumeState(mission)
             new == [mission EXCEPT !.status = "active", !.route = state.place.route,
                                    !.phase = state.phase, !.action = state.place.action]
  <2>1. mission' = Gated(new)
    BY <1>3 DEF Resume
  <2> HIDE DEF state
  <2>2. Follows(mission, new)
    BY <1>1 DEF Coherent, Follows, Fields
  <2> HIDE DEF new
  <2> QED BY <2>1, <2>2, GatedIsJustified DEF Follows
<1>4. CASE Stop
  <2> DEFINE n == [mission EXCEPT !.status = "stopped", !.phase = "stopped",
                                  !.action = StopAction]
  <2>1. mission' = n
    BY <1>4 DEF Stop
  <2>2. /\ DOMAIN n = Fields /\ n.status = "stopped"
        /\ \A f \in Fields \ {"status", "phase", "action"} : n[f] = mission[f]
    BY <1>1 DEF Coherent, Fields
  <2> HIDE DEF n
  <2>3. /\ n.blockers = mission.blockers /\ n.workgraph = mission.workgraph
        /\ n.recommendation = mission.recommendation /\ n.rollup = mission.rollup
        /\ n.lease = mission.lease /\ n.gate = mission.gate
        /\ n.checkpoints = mission.checkpoints
    BY <2>2 DEF Fields
  <2>4. Coherent(n)
    BY <1>1, <2>2, <2>3 DEF Coherent
  <2>5. HardBlocker(mission) => HardBlocker(n)
    BY <1>1, <2>3 DEF HardBlocker, Coherent
  <2>6. ReadyNodes(n) = ReadyNodes(mission)
    BY <2>3 DEF ReadyNodes
  <2>7. Justified(mission) => Justified(n)
    BY <2>2, <2>3, <2>5, <2>6 DEF Justified
  <2> QED BY <2>1, <2>3, <2>4, <2>7 DEF GateInv
<1> QED BY <1>2, <1>3, <1>4

\* Nothing the gate weighs is in the ledger, the checkpoints or the steps.
LEMMA LedgersUnweighed ==
    ASSUME GateInv(mission),
           \/ NextAsked \/ CheckpointAsked
           \/ \E n, digest : SliceCheckpointAsked(n, digest)
           \/ \E routes, steps : Compact(routes, steps)
    PROVE  GateInv(mission') /\ Handoffs(mission') = Handoffs(mission)
<1>1. DOMAIN mission = Fields /\ IsSequence(mission.checkpoints)
  BY DEF GateInv, Coherent
<1>2. CASE NextAsked
  <2> DEFINE place == NextActionForRecord(mission)
             boundary == FALSE
             n == Logged(mission, place, boundary)
  <2>1. mission' = n
    BY <1>2 DEF NextAsked
  <2> HIDE DEF place, boundary
  <2>2. DOMAIN n = Fields /\ \A f \in Fields \ {"history"} : n[f] = mission[f]
    BY <1>1, LoggedKeeps
  <2> HIDE DEF n
  <2>3. Handoffs(n) = Handoffs(mission)
    BY <2>2 DEF Handoffs, Fields
  <2> QED BY <2>1, <2>2, <2>3, <1>1, UnweighedKeeps DEF Fields, Weighed
<1>3. CASE CheckpointAsked
  <2> DEFINE e == Checkpoint(mission, Here(mission), Result("checkpoint_created"))
             n == [mission EXCEPT !.checkpoints = Append(@, e)]
  <2>1. mission' = n
    BY <1>3 DEF CheckpointAsked
  <2>2. e.result.name = "checkpoint_created"
    BY DEF Checkpoint, Result
  <2> HIDE DEF e
  <2>3. /\ DOMAIN n = Fields /\ \A f \in Fields \ {"checkpoints"} : n[f] = mission[f]
        /\ n.checkpoints = Append(mission.checkpoints, e)
    BY <1>1 DEF Fields
  <2> HIDE DEF n
  <2>4. IsSequence(n.checkpoints) /\ Handoffs(n) = Handoffs(mission)
    BY <1>1, <2>2, <2>3, NoHandoff
  <2> QED BY <2>1, <2>3, <2>4, UnweighedKeeps DEF Fields, Weighed
<1>4. CASE \E i, digest : SliceCheckpointAsked(i, digest)
  <2>1. PICK i, digest : SliceCheckpointAsked(i, digest)
    BY <1>4
  <2> DEFINE place == Here(mission)
             result == SlicePass(i, digest)
             n == Checkpointed(mission, place, result)
  <2>2. mission' = n
    BY <2>1 DEF SliceCheckpointAsked
  <2>3. result.name = "slice_pass"
    BY DEF SlicePass
  <2> HIDE DEF place, result
  <2>4. /\ DOMAIN n = Fields /\ \A f \in Fields \ {"checkpoints"} : n[f] = mission[f]
        /\ IsSequence(n.checkpoints) /\ Handoffs(n) = Handoffs(mission)
    BY <1>1, <2>3, CheckpointedKeeps
  <2> HIDE DEF n
  <2> QED BY <2>2, <2>4, UnweighedKeeps DEF Fields, Weighed
<1>5. CASE \E routes, steps : Compact(routes, steps)
  <2>1. PICK routes, steps : Compact(routes, steps)
    BY <1>5
  <2> DEFINE kept == Latest(mission.history, routes)
             made == Latest(mission.steps, steps)
             n == [mission EXCEPT !.history = kept, !.steps = made]
  <2>2. mission' = n
    BY <2>1 DEF Compact
  <2> HIDE DEF kept, made
  <2>3. /\ DOMAIN n = Fields
        /\ \A f \in Fields \ {"history", "steps"} : n[f] = mission[f]
    BY <1>1 DEF Fields
  <2> HIDE DEF n
  <2>4. Handoffs(n) = Handoffs(mission)
    BY <2>3 DEF Handoffs, Fields
  <2> QED BY <2>2, <2>3, <2>4, <1>1, UnweighedKeeps DEF Fields, Weighed
<1> QED BY <1>2, <1>3, <1>4, <1>5

\* An event of the issue-repair supervisor evaluates the gate and hands nothing off.
LEMMA RepairGated ==
    ASSUME Coherent(mission), IssueRepairEvent
    PROVE  GateInv(mission') /\ Handoffs(mission') = Handoffs(mission)
<1> DEFINE leased == IF mission.repairing THEN mission ELSE Leased(mission, 1)
           moved == [leased EXCEPT !.repairing = TRUE, !.route = "ao-mission",
                        !.phase = "issue_repair_supervision", !.action = "issue_repair",
                        !.steps = Append(@, Place("ao-mission", "issue_repair"))]
           place == Here(moved)
           result == Result("issue_repair")
           new == Checkpointed(moved, place, result)
<1>1. mission' = Gated(new)
  BY DEF IssueRepairEvent
<1>2. DOMAIN leased = Fields /\ \A f \in Fields \ {"lease"} : leased[f] = mission[f]
  BY DEF Leased, Coherent, Fields
<1> HIDE DEF leased
<1>3. Follows(mission, moved)
  BY <1>2 DEF Coherent, Follows, Fields
<1>4. result.name = "issue_repair"
  BY DEF Result
<1> HIDE DEF moved, place, result
<1>5. /\ DOMAIN new = Fields /\ IsSequence(new.checkpoints)
      /\ \A f \in Fields \ {"checkpoints"} : new[f] = moved[f]
      /\ Handoffs(new) = Handoffs(moved)
  BY <1>3, <1>4, CheckpointedKeeps DEF Coherent, Follows
<1> HIDE DEF new
<1>6. Coherent(new)
  BY <1>3, <1>5 DEF Coherent, Follows, Fields
<1>7. Handoffs(mission') = Handoffs(mission) /\ GateInv(mission')
  BY <1>1, <1>3, <1>5, <1>6, GatedIsJustified DEF Follows, Handoffs
<1> QED BY <1>7

-----------------------------------------------------------------------------
(* The invariant and what follows from it. *)

\* A new Mission has no gate yet.
LEMMA GateInvInit == Init => GateInv(mission)
<1> SUFFICES ASSUME Init PROVE GateInv(mission)
  OBVIOUS
<1>1. /\ DOMAIN mission = Fields /\ mission.checkpoints = << >>
      /\ mission.status = "active" /\ mission.recommendation = None
      /\ mission.gate = "none"
  BY DEF Init, MissionInit, Fields
<1>2. IsSequence(<< >>)
  <2>1. << >> \in Seq({})
    OBVIOUS
  <2> QED BY <2>1 DEF IsSequence
<1> QED BY <1>1, <1>2 DEF GateInv, Coherent

\* Every import keeps the gate justified and the checkpoints as they are.
LEMMA ImportsKeep ==
    ASSUME GateInv(mission), NEW d \in Documents, Import(d)
    PROVE  GateInv(mission') /\ mission'.checkpoints = mission.checkpoints
<1>1. Coherent(mission)
  BY DEF GateInv
<1>2. CASE ImportEvidence(d) \/ ImportCandidate(d) \/ ImportNotice(d)
  BY <1>2, UngatedImports
<1>3. CASE ImportWorkgraph(d)
  BY <1>1, <1>3, WorkgraphGated
<1>4. CASE ImportRecommendation(d) \/ ImportSynthesis(d)
  BY <1>1, <1>4, ReadbacksGated
<1>5. CASE ImportRunLink(d) \/ ImportRollup(d)
  BY <1>1, <1>5, FoundryGated
<1> QED BY <1>2, <1>3, <1>4, <1>5 DEF Import

\* Every step keeps the gate justified, and only a continuation of a Mission that is
\* neither paused nor stopped hands anything off.
LEMMA StepKeeps ==
    ASSUME GateInv(mission), [Next]_vars
    PROVE  /\ GateInv(mission')
           /\ mission.status \in {"paused", "stopped"} =>
                  Handoffs(mission') = Handoffs(mission)
<1>1. Coherent(mission)
  BY DEF GateInv
<1>2. CASE UNCHANGED mission
  BY <1>2
<1>3. CASE \E c \in Callers : ContinueIteration(c)
  <2>1. PICK c \in Callers : ContinueIteration(c)
    BY <1>3
  <2>2. ~ (mission.status \in {"paused", "stopped"})
    BY <2>1 DEF ContinueIteration
  <2>3. GateInv(mission')
    BY <1>1, <2>1, IterationGated
  <2> QED BY <2>2, <2>3
<1>4. CASE \E c \in Callers : ContinueRefused(c)
  BY <1>2, <1>4 DEF ContinueRefused
<1>5. CASE Operate
  <2>1. CASE \E c \in Callers : ContinueCalled(c)
    BY <1>2, <2>1 DEF ContinueCalled
  <2>2. CASE NextAsked \/ CheckpointAsked
    BY <2>2, LedgersUnweighed
  <2>3. CASE \E d \in mission.refs : SliceCheckpointAsked(d.slice, d.digest)
    <3>1. \E n, digest : SliceCheckpointAsked(n, digest)
      BY <2>3
    <3> QED BY <3>1, LedgersUnweighed
  <2>4. CASE \E routes, steps \in Keeps : Compact(routes, steps)
    <3>1. \E routes, steps : Compact(routes, steps)
      BY <2>4
    <3> QED BY <3>1, LedgersUnweighed
  <2>5. CASE Pause \/ Resume \/ Stop
    BY <2>5, ControlsGated DEF Handoffs
  <2>6. CASE \E d \in Documents : Import(d)
    BY <2>6, ImportsKeep DEF Handoffs
  <2>7. CASE IssueRepairEvent
    BY <1>1, <2>7, RepairGated
  <2> QED BY <1>5, <2>1, <2>2, <2>3, <2>4, <2>5, <2>6, <2>7 DEF Operate
<1> QED BY <1>2, <1>3, <1>4, <1>5 DEF Next, vars

\* At any moment of any run the record is coherent and an allowed gate justified.
THEOREM GateAlwaysJustified == Spec => []GateInv(mission)
<1>1. Init => GateInv(mission)
  BY GateInvInit
<1>2. GateInv(mission) /\ [Next]_vars => GateInv(mission)'
  BY StepKeeps
<1> QED BY <1>1, <1>2, PTL DEF Spec

\* The stored gate allows the final response only of a blocked Mission or of one whose
\* work is over, whatever was imported, paused or stopped since it was evaluated.
THEOREM AllowedEarned == Spec => []AllowedIsEarned
<1>1. GateInv(mission) => AllowedIsEarned
  BY DEF GateInv, Justified, AllowedIsEarned
<1> QED BY <1>1, GateAlwaysJustified, PTL

\* A Mission that final reconciliation calls ready has no work left in any wave.
THEOREM FinalReadyComplete == Spec => []FinalReadyIsComplete
<1>1. GateInv(mission) => FinalReadyIsComplete
  BY DEF GateInv, Coherent, FinalReady, FinalReadyIsComplete
<1> QED BY <1>1, GateAlwaysJustified, PTL

\* A loop that runs when the Mission is paused or stopped hands nothing off.
THEOREM HaltIsHeld == Spec => HaltHolds
<1>1. GateInv(mission) /\ [Next]_vars =>
         [mission.status \in {"paused", "stopped"} =>
              Handoffs(mission') = Handoffs(mission)]_vars
  BY StepKeeps
<1> QED BY <1>1, GateAlwaysJustified, PTL DEF Spec, HaltHolds

-----------------------------------------------------------------------------
(* The place a record presents, its ledgers and its slices.  Most operations are    *)
(* moves: they add at most one entry to each ledger, no pause and no slice.          *)

\* A place from which work can be resumed.
Usable(place) == UsableResumeState(place, "routing")

\* The route of an active Mission is open.
Open(m) == m.status = "active" => m.route # "complete"

\* What m becomes presents work: it is the pause notice only if m presented it, or if
\* a document that m does not hold names it.
Presents(m, n) ==
    n.status = "active" =>
        /\ n.route # "complete"
        /\ n.action = PauseAction =>
               \/ m.status = "active" /\ m.action = PauseAction
               \/ \E d \in n.refs \ m.refs : d.action = PauseAction

\* The entry of the last pause is retained, and says what it interrupted.
Marked(m, place) ==
    \E k \in DOMAIN m.history :
        /\ m.history[k].boundary /\ m.history[k].place = place
        /\ \A j \in DOMAIN m.history : j > k => ~ m.history[j].boundary

\* The slices of the passes, and that they are in order.
Ordered(m) ==
    \A i \in PassesAt(m) :
        LET n == m.checkpoints[i].result.slice
        IN  /\ n \in Nat /\ n <= i
            /\ n = 1 \/ \E j \in PassesAt(m) : j < i /\ m.checkpoints[j].result.slice = n - 1
            /\ \A j \in PassesAt(m) : j < i => m.checkpoints[j].result.slice < n
            /\ \E e \in m.refs : e.digest = m.checkpoints[i].result.digest

Statuses == {"active", "paused", "stopped", "blocked", "done"}
Leases == LeaseMinimums \cup {0, 1, DefaultMinNodes}

Typed(m) ==
    /\ DOMAIN m = Fields
    /\ m.status \in Statuses /\ m.gate \in {"none", "allowed", "denied"}
    /\ m.refs \subseteq Documents /\ m.lease \in Leases
    /\ IsSequence(m.history) /\ IsSequence(m.steps) /\ IsSequence(m.checkpoints)
    /\ Len(m.history) > 0 /\ Len(m.steps) <= Len(m.checkpoints)

\* What a record and what its last pause interrupted satisfy at any moment.
RecordInv(m, here) ==
    /\ Typed(m)
    /\ Open(m)
    /\ Usable(m.origin)
    /\ \A k \in DOMAIN m.history : m.history[k].boundary => Usable(m.history[k].place)
    /\ m.status = "paused" /\ here # None => Marked(m, here)
    /\ here # None => here = Place(here.route, here.action)
    /\ Ordered(m)

\* An entry of the ledger that is no pause, a checkpoint that is no slice.
Decided(s, t) == t = s \/ \E place : t = Append(s, [place |-> place, boundary |-> FALSE])
Added(s, t) == t = s \/ \E e : e.result.name # "slice_pass" /\ t = Append(s, e)

\* What most operations make of a record: at most one more entry in each ledger.
Moves(m, n) ==
    /\ DOMAIN n = Fields
    /\ n.status \in Statuses /\ n.gate \in {"none", "allowed", "denied"}
    /\ m.refs \subseteq n.refs /\ n.refs \subseteq Documents /\ n.lease \in Leases
    /\ n.origin = m.origin
    /\ Decided(m.history, n.history)
    /\ Added(m.checkpoints, n.checkpoints)
    /\ \/ n.steps = m.steps
       \/ n.checkpoints # m.checkpoints /\ \E p : n.steps = Append(m.steps, p)
    /\ n.status = "paused" => m.status = "paused"
    /\ Presents(m, n)

\* A sequence is not the one it was appended to.
LEMMA Longer ==
    ASSUME NEW s, IsSequence(s), NEW e
    PROVE  Append(s, e) # s /\ Len(Append(s, e)) = Len(s) + 1 /\ Len(s) \in Nat
<1>1. PICK S : s \in Seq(S)
  BY DEF IsSequence
<1>2. s \in Seq(S \cup {e})
  BY <1>1
<1> QED BY <1>2

\* A decision that is no pause moves no pause's entry.
LEMMA DecidedKeeps ==
    ASSUME NEW m, NEW n, IsSequence(m.history), Decided(m.history, n.history)
    PROVE  /\ IsSequence(n.history)
           /\ Len(m.history) > 0 => Len(n.history) > 0
           /\ (\A k \in DOMAIN m.history : m.history[k].boundary => Usable(m.history[k].place))
                => (\A k \in DOMAIN n.history : n.history[k].boundary => Usable(n.history[k].place))
           /\ \A place : Marked(m, place) => Marked(n, place)
<1>1. CASE n.history = m.history
  BY <1>1 DEF Marked
<1>2. CASE \E place : n.history = Append(m.history, [place |-> place, boundary |-> FALSE])
  <2>1. PICK place : n.history = Append(m.history, [place |-> place, boundary |-> FALSE])
    BY <1>2
  <2> DEFINE e == [place |-> place, boundary |-> FALSE]
             l == Len(m.history)
  <2>2. ~ e.boundary
    OBVIOUS
  <2> HIDE DEF e
  <2>3. /\ IsSequence(n.history)
        /\ DOMAIN n.history = 1 .. (l + 1) /\ DOMAIN m.history = 1 .. l
        /\ l \in Nat /\ n.history[l + 1] = e
        /\ \A i \in DOMAIN m.history : n.history[i] = m.history[i]
    BY <2>1, Appended DEF e
  <2>4. Len(n.history) > 0
    BY <2>1, <2>3, Longer DEF e
  <2> HIDE DEF l
  <2>5. \A i \in DOMAIN n.history :
           \/ i \in DOMAIN m.history /\ n.history[i] = m.history[i]
           \/ i = l + 1 /\ ~ n.history[i].boundary
    BY <2>2, <2>3
  <2>6. \A i \in DOMAIN m.history : i \in DOMAIN n.history
    BY <2>3
  <2>7. \A p : Marked(m, p) => Marked(n, p)
    <3> SUFFICES ASSUME NEW p, Marked(m, p) PROVE Marked(n, p)
      OBVIOUS
    <3>1. PICK k \in DOMAIN m.history :
              /\ m.history[k].boundary /\ m.history[k].place = p
              /\ \A j \in DOMAIN m.history : j > k => ~ m.history[j].boundary
      BY DEF Marked
    <3>2. /\ k \in DOMAIN n.history /\ n.history[k].boundary /\ n.history[k].place = p
      BY <3>1, <2>3, <2>6
    <3>3. \A j \in DOMAIN n.history : j > k => ~ n.history[j].boundary
      BY <3>1, <2>5
    <3> QED BY <3>2, <3>3 DEF Marked
  <2> QED BY <2>3, <2>4, <2>5, <2>7
<1> QED BY <1>1, <1>2 DEF Decided

\* A checkpoint that is no slice leaves the slices in order.
LEMMA AddedKeeps ==
    ASSUME NEW m, NEW n, IsSequence(m.checkpoints), Added(m.checkpoints, n.checkpoints),
           m.refs \subseteq n.refs, Ordered(m)
    PROVE  IsSequence(n.checkpoints) /\ Ordered(n)
<1>1. /\ IsSequence(n.checkpoints) /\ PassesAt(n) = PassesAt(m)
      /\ \A i \in PassesAt(m) : n.checkpoints[i] = m.checkpoints[i]
  <2>1. CASE n.checkpoints = m.checkpoints
    BY <2>1 DEF PassesAt
  <2>2. CASE \E e : e.result.name # "slice_pass" /\ n.checkpoints = Append(m.checkpoints, e)
    <3>1. PICK e : e.result.name # "slice_pass" /\ n.checkpoints = Append(m.checkpoints, e)
      BY <2>2
    <3> DEFINE l == Len(m.checkpoints)
    <3>2. /\ IsSequence(n.checkpoints)
          /\ DOMAIN n.checkpoints = 1 .. (l + 1) /\ DOMAIN m.checkpoints = 1 .. l
          /\ l \in Nat /\ n.checkpoints[l + 1] = e
          /\ \A i \in DOMAIN m.checkpoints : n.checkpoints[i] = m.checkpoints[i]
      BY <3>1, Appended
    <3> HIDE DEF l
    <3>3. \A i \in DOMAIN n.checkpoints : i \in DOMAIN m.checkpoints \/ i = l + 1
      BY <3>2
    <3>4. \A i \in DOMAIN m.checkpoints : i \in DOMAIN n.checkpoints
      BY <3>2
    <3> QED BY <3>1, <3>2, <3>3, <3>4 DEF PassesAt
  <2> QED BY <2>1, <2>2 DEF Added
<1> QED BY <1>1 DEF Ordered

\* So a move keeps the record's invariant.
LEMMA MovesKeep ==
    ASSUME NEW m, NEW n, NEW here, RecordInv(m, here), Moves(m, n)
    PROVE  RecordInv(n, here)
<1>1. IsSequence(m.history) /\ IsSequence(m.steps) /\ IsSequence(m.checkpoints)
  BY DEF RecordInv, Typed
<1>2. IsSequence(n.checkpoints) /\ Ordered(n)
  BY <1>1, AddedKeeps DEF RecordInv, Moves
<1>3. /\ IsSequence(n.history) /\ Len(n.history) > 0
      /\ \A k \in DOMAIN n.history : n.history[k].boundary => Usable(n.history[k].place)
      /\ \A place : Marked(m, place) => Marked(n, place)
  BY <1>1, DecidedKeeps DEF RecordInv, Moves, Typed
<1>4. IsSequence(n.steps) /\ Len(n.steps) <= Len(n.checkpoints)
  <2>1. /\ Len(m.steps) <= Len(m.checkpoints)
        /\ Len(m.steps) \in Nat /\ Len(m.checkpoints) \in Nat
    BY <1>1, Longer DEF RecordInv, Typed
  <2>2. \/ n.checkpoints = m.checkpoints
        \/ n.checkpoints # m.checkpoints /\ Len(n.checkpoints) = Len(m.checkpoints) + 1
    BY <1>1, Longer DEF Moves, Added
  <2>3. \/ n.steps = m.steps
        \/ /\ n.checkpoints # m.checkpoints /\ IsSequence(n.steps)
           /\ Len(n.steps) = Len(m.steps) + 1
    <3>1. CASE n.checkpoints # m.checkpoints /\ \E p : n.steps = Append(m.steps, p)
      <4>1. PICK p : n.steps = Append(m.steps, p)
        BY <3>1
      <4> QED BY <1>1, <3>1, <4>1, Longer, Appended
    <3> QED BY <3>1 DEF Moves
  <2> QED BY <1>1, <2>1, <2>2, <2>3
<1>5. Typed(n)
  BY <1>2, <1>3, <1>4 DEF Moves, Typed
<1>6. n.status = "paused" /\ here # None => Marked(n, here)
  BY <1>3 DEF RecordInv, Moves
<1> QED BY <1>2, <1>3, <1>5, <1>6 DEF RecordInv, Moves, Open, Presents

\* What an import makes of a record before it logs where that leads.
Edits(m, n) ==
    /\ DOMAIN n = Fields
    /\ n.status \in Statuses /\ n.gate \in {"none", "allowed", "denied"}
    /\ m.refs \subseteq n.refs /\ n.refs \subseteq Documents /\ n.lease \in Leases
    /\ n.origin = m.origin /\ n.history = m.history
    /\ n.steps = m.steps /\ n.checkpoints = m.checkpoints
    /\ n.status = "paused" => m.status = "paused"

\* Evaluating the gate is no further change.
LEMMA GatedMoves ==
    ASSUME NEW m, NEW n, Moves(m, n)
    PROVE  Moves(m, Gated(n))
<1> DEFINE g == Gated(n)
<1>1. /\ DOMAIN g = Fields /\ g.gate \in {"allowed", "denied"}
      /\ \A f \in Fields \ {"gate"} : g[f] = n[f]
  BY DEF Gated, Moves, Fields
<1> HIDE DEF g
<1>2. /\ g.status = n.status /\ g.refs = n.refs /\ g.lease = n.lease
      /\ g.origin = n.origin /\ g.history = n.history /\ g.steps = n.steps
      /\ g.checkpoints = n.checkpoints /\ g.route = n.route /\ g.action = n.action
  BY <1>1 DEF Fields
<1>3. Moves(m, g)
  BY <1>1, <1>2 DEF Moves, Presents
<1> QED BY <1>3 DEF g

\* What was edited, logged or not, was moved.
LEMMA EditsMove ==
    ASSUME NEW m, NEW n, Edits(m, n), Presents(m, n), NEW place
    PROVE  Moves(m, n) /\ Moves(m, Logged(n, place, FALSE))
<1>1. Moves(m, n)
  BY DEF Edits, Moves, Decided, Added
<1> DEFINE l == Logged(n, place, FALSE)
<1>2. /\ DOMAIN l = Fields
      /\ \A f \in Fields \ {"history"} : l[f] = n[f]
      /\ l.history = Append(n.history, [place |-> place, boundary |-> FALSE])
  BY DEF Logged, Edits, Fields
<1> HIDE DEF l
<1>3. /\ l.status = n.status /\ l.refs = n.refs /\ l.lease = n.lease /\ l.gate = n.gate
      /\ l.origin = n.origin /\ l.steps = n.steps
      /\ l.checkpoints = n.checkpoints /\ l.route = n.route /\ l.action = n.action
  BY <1>2 DEF Fields
<1>4. Decided(m.history, l.history)
  BY <1>2 DEF Decided, Edits
<1>5. Moves(m, l)
  BY <1>2, <1>3, <1>4 DEF Edits, Moves, Added, Presents
<1> QED BY <1>1, <1>5 DEF l

\* An import moves the record if what it makes of it is an edit.
LEMMA ImportedMoves ==
    ASSUME NEW new, Edits(mission, new), Presents(mission, new),
           Imported(new) \/ ImportedAndGated(new)
    PROVE  Moves(mission, mission')
<1> DEFINE place == Place(new.route, new.action)
           l == Logged(new, place, FALSE)
<1>1. mission' \in {l, Gated(l)}
  BY DEF Imported, ImportedAndGated
<1> HIDE DEF place
<1>2. Moves(mission, l)
  BY EditsMove
<1> HIDE DEF l
<1> QED BY <1>1, <1>2, GatedMoves

\* Recording a document edits nothing but the documents.
LEMMA RecordedEdits ==
    ASSUME Typed(mission), NEW d \in Documents
    PROVE  /\ Edits(mission, Recorded(d)) /\ d \in Recorded(d).refs
           /\ \A f \in Fields \ {"refs"} : Recorded(d)[f] = mission[f]
<1> DEFINE r == Recorded(d)
<1>1. /\ DOMAIN r = Fields
      /\ \A f \in Fields \ {"refs"} : r[f] = mission[f]
      /\ r.refs = mission.refs \cup {d}
  BY DEF Recorded, Typed, Fields
<1> HIDE DEF r
<1>2. /\ r.status = mission.status /\ r.lease = mission.lease /\ r.gate = mission.gate
      /\ r.origin = mission.origin /\ r.steps = mission.steps
      /\ r.checkpoints = mission.checkpoints /\ r.history = mission.history
  BY <1>1 DEF Fields
<1>3. Edits(mission, r)
  BY <1>1, <1>2 DEF Edits, Typed
<1> QED BY <1>1, <1>3 DEF r

\* A Mission sent elsewhere, and one that only notes what comes next.
Sent(m, route, phase, action) ==
    [m EXCEPT !.route = route, !.phase = phase, !.action = action]
Noted(m, phase, action) == [m EXCEPT !.phase = phase, !.action = action]

\* To send a Mission elsewhere, or to note what comes next, is to edit it.
LEMMA EditedFurther ==
    ASSUME NEW m, NEW n, Edits(m, n), NEW route, NEW phase, NEW action
    PROVE  /\ Edits(m, Sent(n, route, phase, action))
           /\ Sent(n, route, phase, action).status = n.status
           /\ Sent(n, route, phase, action).refs = n.refs
           /\ Sent(n, route, phase, action).route = route
           /\ Sent(n, route, phase, action).action = action
           /\ Edits(m, Noted(n, phase, action))
           /\ Noted(n, phase, action).status = n.status
           /\ Noted(n, phase, action).refs = n.refs
           /\ Noted(n, phase, action).route = n.route
           /\ Noted(n, phase, action).action = action
<1>1. DOMAIN n = Fields
  BY DEF Edits
<1> QED BY <1>1 DEF Edits, Fields, Sent, Noted

\* An ended Mission is not active.
LEMMA EndedPresents ==
    ASSUME NEW m, NEW n, Edits(m, n), NEW d, NEW action
    PROVE  /\ Edits(m, Closed(n)) /\ Presents(m, Closed(n))
           /\ Edits(m, [Closed(n) EXCEPT !.action = action])
           /\ Presents(m, [Closed(n) EXCEPT !.action = action])
           /\ Edits(m, Blocked(n, d)) /\ Presents(m, Blocked(n, d))
<1>1. /\ DOMAIN n = Fields
  BY DEF Edits
<1>4. Edits(m, Closed(n)) /\ Closed(n).status = "done"
  BY DEF Edits, Fields, Closed, Statuses
<1>5. LET e == [Closed(n) EXCEPT !.action = action]
      IN  Edits(m, e) /\ e.status = "done"
  BY DEF Edits, Fields, Closed, Statuses
<1>6. Edits(m, Blocked(n, d)) /\ Blocked(n, d).status = "blocked"
  BY DEF Edits, Fields, Blocked, Statuses
<1> QED BY <1>4, <1>5, <1>6 DEF Presents

-----------------------------------------------------------------------------
(* Imports, continuations and what is asked of a record are moves.                  *)

\* No kind of document is the text of the pause notice.
LEMMA KindsAreActions ==
    ASSUME NEW d \in Documents
    PROVE  d.kind # PauseAction
<1> QED BY DocumentsAssumption DEF PauseAction, Kinds, NoticeKinds

\* What is imported is held only then, so it may announce whatever it names.
LEMMA ImportPresents ==
    ASSUME NEW d, Importable(d), NEW n, d \in n.refs, Open(n),
           n.action = PauseAction => d.action = PauseAction
    PROVE  Presents(mission, n)
<1>1. d \notin mission.refs
  BY DEF Importable
<1> QED BY <1>1 DEF Open, Presents

\* A record that stays as it is presents what it presented.
LEMMA SamePresents ==
    ASSUME NEW m, Open(m), NEW n, n.status = m.status, n.route = m.route, n.action = m.action
    PROVE  Presents(m, n)
<1> QED BY DEF Open, Presents

\* The imports after which the gate is left alone are moves.
LEMMA UngatedMoves ==
    ASSUME Typed(mission), Open(mission), NEW d \in Documents,
           ImportEvidence(d) \/ ImportCandidate(d) \/ ImportNotice(d)
    PROVE  Moves(mission, mission')
<1> DEFINE r == Recorded(d)
<1>1. /\ Edits(mission, r) /\ d \in r.refs
      /\ \A f \in Fields \ {"refs"} : r[f] = mission[f]
  BY RecordedEdits
<1>2. DOMAIN r = Fields /\ Presents(mission, r) /\ Open(r)
  <2> HIDE DEF r
  <2>1. r.status = mission.status /\ r.route = mission.route /\ r.action = mission.action
    BY <1>1 DEF Fields
  <2> QED BY <1>1, <2>1, SamePresents DEF Edits, Open
<1>3. CASE ImportEvidence(d)
  <2>1. mission' = r
    BY <1>3 DEF ImportEvidence
  <2> HIDE DEF r
  <2> QED BY <2>1, <1>1, <1>2, EditsMove
<1>4. CASE ImportCandidate(d)
  <2> DEFINE run == [role |-> d.role, digest |-> d.digest]
             n == [r EXCEPT !.candidate = run]
  <2>1. mission' = n
    BY <1>4 DEF ImportCandidate
  <2> HIDE DEF r, run
  <2>2. Edits(mission, n) /\ Presents(mission, n)
    BY <1>1, <1>2 DEF Edits, Presents, Fields
  <2> HIDE DEF n
  <2> QED BY <2>1, <2>2, EditsMove
<1>5. CASE ImportNotice(d)
  <2> DEFINE route == IF d.kind = "blueprint-authorization" THEN "ao-atlas" ELSE r.route
             phase == d.kind
             action == IF d.kind = "scheduler-recovery-readback" /\ d.action # NoAction
                       THEN d.action ELSE d.kind
             n == Sent(r, route, phase, action)
  <2>1. Imported(n)
    BY <1>5 DEF ImportNotice, Sent
  <2>2. /\ action = PauseAction => d.action = PauseAction
        /\ r.route # "complete" => route # "complete"
    BY KindsAreActions
  <2>2a. Importable(d)
    BY <1>5 DEF ImportNotice
  <2> HIDE DEF r, route, phase, action
  <2>3. /\ Edits(mission, n) /\ n.status = r.status /\ n.route = route
        /\ n.action = action /\ n.refs = r.refs
    BY <1>1, EditedFurther
  <2>4. Presents(mission, n)
    <3>1. Open(n) /\ d \in n.refs /\ (n.action = PauseAction => d.action = PauseAction)
      BY <1>1, <1>2, <2>2, <2>3 DEF Open
    <3> HIDE DEF n
    <3> QED BY <2>2a, <3>1, ImportPresents
  <2> HIDE DEF n
  <2> QED BY <2>1, <2>3, <2>4, ImportedMoves
<1> QED BY <1>3, <1>4, <1>5

\* A new wave presents its first node.
LEMMA WorkgraphMoves ==
    ASSUME Typed(mission), NEW d \in Documents, ImportWorkgraph(d)
    PROVE  Moves(mission, mission')
<1> DEFINE r == Recorded(d)
           count == [total |-> d.total, ready |-> d.ready, completed |-> d.completed]
           counted == [r EXCEPT !.workgraph = count]
           wave == [counted EXCEPT !.status = "active", !.blockers = {},
                                   !.recommendation = None, !.rollup = None]
           based == IF d.ready > 0 THEN wave ELSE counted
           route == "ao-foundry"
           phase == "atlas_workgraph_ready"
           action == IF d.ready > 0 /\ d.action = NoAction THEN d.kind ELSE d.action
           new == Sent(based, route, phase, action)
<1>1. ImportedAndGated(new)
  BY DEF ImportWorkgraph, Sent
<1>2. Edits(mission, r) /\ d \in r.refs
  BY RecordedEdits
<1>3. (action = PauseAction => d.action = PauseAction) /\ route # "complete"
  BY KindsAreActions
<1>3a. Importable(d)
  BY DEF ImportWorkgraph
<1> HIDE DEF r, count, route, phase, action
<1>4. Edits(mission, counted) /\ d \in counted.refs
  BY <1>2 DEF Edits, Fields
<1> HIDE DEF counted
<1>5. Edits(mission, wave) /\ d \in wave.refs
  BY <1>4 DEF Edits, Fields, Statuses
<1> HIDE DEF wave
<1>6. Edits(mission, based) /\ d \in based.refs
  BY <1>4, <1>5
<1> HIDE DEF based
<1>7. Edits(mission, new) /\ Presents(mission, new)
  <2>1. /\ Edits(mission, new) /\ new.route = route /\ new.action = action
        /\ new.refs = based.refs
    BY <1>6, EditedFurther
  <2> HIDE DEF new
  <2> QED BY <1>3, <1>3a, <1>6, <2>1, ImportPresents DEF Open
<1> HIDE DEF new
<1> QED BY <1>1, <1>7, ImportedMoves

\* A readback of Atlas ends the Mission or presents what comes next.
LEMMA ReadbacksMove ==
    ASSUME Typed(mission), NEW d \in Documents,
           ImportRecommendation(d) \/ ImportSynthesis(d)
    PROVE  Moves(mission, mission')
<1> DEFINE r == Recorded(d)
           read == ReadBack(d)
           count == [total |-> d.total, ready |-> d.ready, completed |-> d.completed]
           back == Readback(d)
           action == IF d.mine = "no" \/ read.action = NoAction THEN d.kind ELSE read.action
           other == IF d.mine # "yes" \/ read.action = NoAction THEN d.kind ELSE read.action
           told == IF d.action = NoAction THEN Closed(read).action ELSE d.action
           route == "ao-atlas"
           phase == d.kind
<1>1. Edits(mission, r) /\ d \in r.refs
  BY RecordedEdits
<1>2. read = [r EXCEPT !.recommendation = back, !.workgraph = count, !.action = d.action]
  BY DEF ReadBack
<1>3. Edits(mission, read) /\ read.action = d.action /\ d \in read.refs
  <2> HIDE DEF r, read, back, count
  <2> QED BY <1>1, <1>2 DEF Edits, Fields
<1>4. /\ action = PauseAction => d.action = PauseAction
      /\ other = PauseAction => d.action = PauseAction
      /\ route # "complete"
  BY <1>3, KindsAreActions
<1>4a. Importable(d)
  BY DEF ImportRecommendation, ImportSynthesis
<1>5. \E new : /\ ImportedAndGated(new)
               /\ new \in {Closed(read), Blocked(read, d),
                           [Closed(read) EXCEPT !.action = told],
                           Sent(read, route, phase, action),
                           Sent(read, route, phase, other)}
  <2>1. CASE ImportRecommendation(d)
    BY <2>1 DEF ImportRecommendation, Sent
  <2>2. CASE ImportSynthesis(d)
    BY <2>2 DEF ImportSynthesis, Sent
  <2> QED BY <2>1, <2>2
<1> HIDE DEF read, action, other, told, route, phase
<1>6. PICK new : /\ ImportedAndGated(new)
                 /\ new \in {Closed(read), Blocked(read, d),
                           [Closed(read) EXCEPT !.action = told],
                           Sent(read, route, phase, action),
                           Sent(read, route, phase, other)}
  BY <1>5
<1>7. /\ Edits(mission, Closed(read)) /\ Presents(mission, Closed(read))
      /\ Edits(mission, Blocked(read, d)) /\ Presents(mission, Blocked(read, d))
  BY <1>3, EndedPresents
<1>8. /\ Edits(mission, [Closed(read) EXCEPT !.action = told])
      /\ Presents(mission, [Closed(read) EXCEPT !.action = told])
  BY <1>3, EndedPresents
<1>9. /\ Edits(mission, Sent(read, route, phase, action))
      /\ Presents(mission, Sent(read, route, phase, action))
  <2> DEFINE n == Sent(read, route, phase, action)
  <2>1. /\ Edits(mission, n) /\ n.route = route /\ n.action = action /\ n.refs = read.refs
    BY <1>3, EditedFurther
  <2> HIDE DEF n
  <2>2. Presents(mission, n)
    BY <1>3, <1>4, <1>4a, <2>1, ImportPresents DEF Open
  <2> QED BY <2>1, <2>2 DEF n
<1>10. /\ Edits(mission, Sent(read, route, phase, other))
      /\ Presents(mission, Sent(read, route, phase, other))
  <2> DEFINE n == Sent(read, route, phase, other)
  <2>1. /\ Edits(mission, n) /\ n.route = route /\ n.action = other /\ n.refs = read.refs
    BY <1>3, EditedFurther
  <2> HIDE DEF n
  <2>2. Presents(mission, n)
    BY <1>3, <1>4, <1>4a, <2>1, ImportPresents DEF Open
  <2> QED BY <2>1, <2>2 DEF n
<1>11. Edits(mission, new) /\ Presents(mission, new)
  BY <1>6, <1>7, <1>8, <1>9, <1>10
<1> QED BY <1>6, <1>11, ImportedMoves

\* So does what Foundry reports, on the route the Mission is on.
LEMMA FoundryMoves ==
    ASSUME Typed(mission), Open(mission), NEW d \in Documents,
           ImportRunLink(d) \/ ImportRollup(d)
    PROVE  Moves(mission, mission')
<1> DEFINE r == Recorded(d)
           roll == [status |-> d.status, total |-> d.total, completed |-> d.completed]
           read == [r EXCEPT !.rollup = roll]
           phase == d.kind
           action == d.kind
<1>1. /\ Edits(mission, r)
      /\ \A f \in Fields \ {"refs"} : r[f] = mission[f]
  BY RecordedEdits
<1>2. \E new : /\ ImportedAndGated(new)
               /\ new \in {Closed(read), Blocked(read, d),
                           Noted(read, phase, action),
                           Noted(r, phase, action)}
  <2>1. CASE ImportRunLink(d)
    BY <2>1 DEF ImportRunLink, Noted
  <2>2. CASE ImportRollup(d)
    BY <2>2 DEF ImportRollup, Noted
  <2> QED BY <2>1, <2>2
<1>3. action # PauseAction
  BY KindsAreActions
<1> HIDE DEF r, roll, phase, action
<1>4. r.status = mission.status /\ r.route = mission.route
  BY <1>1 DEF Fields
<1>5. Edits(mission, read) /\ read.status = mission.status /\ read.route = mission.route
  BY <1>1, <1>4 DEF Edits, Fields
<1> HIDE DEF read
<1>6. PICK new : /\ ImportedAndGated(new)
                 /\ new \in {Closed(read), Blocked(read, d),
                           Noted(read, phase, action),
                           Noted(r, phase, action)}
  BY <1>2
<1>7. /\ Edits(mission, Closed(read)) /\ Presents(mission, Closed(read))
      /\ Edits(mission, Blocked(read, d)) /\ Presents(mission, Blocked(read, d))
  BY <1>5, EndedPresents
<1>8. /\ Edits(mission, Noted(read, phase, action))
      /\ Presents(mission, Noted(read, phase, action))
  BY <1>3, <1>5, EditedFurther DEF Open, Presents
<1>9. /\ Edits(mission, Noted(r, phase, action))
      /\ Presents(mission, Noted(r, phase, action))
  BY <1>1, <1>3, <1>4, EditedFurther DEF Open, Presents
<1>10. Edits(mission, new) /\ Presents(mission, new)
  BY <1>6, <1>7, <1>8, <1>9
<1> QED BY <1>6, <1>10, ImportedMoves

\* Every import is a move.
LEMMA ImportsMove ==
    ASSUME Typed(mission), Open(mission), NEW d \in Documents, Import(d)
    PROVE  Moves(mission, mission')
<1> QED BY UngatedMoves, WorkgraphMoves, ReadbacksMove, FoundryMoves DEF Import

\* The loops have at most the iterations that were asked for left to do.
LoopsTyped ==
    loops \in [Callers -> [left : 0 .. MaxIterations, minNodes : LeaseMinimums \cup {0}]]

\* A checkpoint whose result is no slice, of a record whose ledgers are as they were
\* but for a step that came with the checkpoint.
LEMMA CheckpointMoves ==
    ASSUME NEW m, NEW n, IsSequence(m.checkpoints), Presents(m, n),
           DOMAIN n = Fields, n.status \in Statuses, n.gate \in {"none", "allowed", "denied"},
           n.refs = m.refs, m.refs \subseteq Documents, n.lease \in Leases,
           n.origin = m.origin, n.history = m.history,
           n.steps = m.steps \/ \E p : n.steps = Append(m.steps, p),
           n.checkpoints = m.checkpoints, n.status = "paused" => m.status = "paused",
           NEW place, NEW result, result.name # "slice_pass"
    PROVE  Moves(m, Checkpointed(n, place, result))
<1> DEFINE c == Checkpointed(n, place, result)
           e == Checkpoint(n, place, result)
<1>1. /\ DOMAIN c = Fields
      /\ \A f \in Fields \ {"checkpoints"} : c[f] = n[f]
      /\ c.checkpoints = Append(n.checkpoints, e)
  BY DEF Checkpointed, Fields
<1>2. e.result = result
  BY DEF Checkpoint
<1> HIDE DEF c, e
<1>3. /\ c.status = n.status /\ c.refs = n.refs /\ c.lease = n.lease /\ c.gate = n.gate
      /\ c.origin = n.origin /\ c.history = n.history /\ c.steps = n.steps
      /\ c.route = n.route /\ c.action = n.action
  BY <1>1 DEF Fields
<1>4. Added(m.checkpoints, c.checkpoints) /\ c.checkpoints # m.checkpoints
  BY <1>1, <1>2, Longer DEF Added
<1>5. Moves(m, c)
  BY <1>1, <1>3, <1>4 DEF Moves, Decided, Presents
<1> QED BY <1>5 DEF c

\* A lease changes nothing else, and is one of those that were asked for.
LEMMA LeasedIsTyped ==
    ASSUME NEW m, DOMAIN m = Fields, m.lease \in Leases,
           NEW min \in LeaseMinimums \cup {0, 1}
    PROVE  /\ DOMAIN Leased(m, min) = Fields /\ Leased(m, min).lease \in Leases
           /\ \A f \in Fields \ {"lease"} : Leased(m, min)[f] = m[f]
<1> QED BY DEF Leased, Leases, Fields

\* The next command is never on a closed route, and the notice only if that is what
\* the record presents.
LEMMA NextPresents ==
    ASSUME NEW m, Usable(m.origin), Open(m), m.status = "active"
    PROVE  /\ NextActionForRecord(m).route # "complete"
           /\ NextActionForRecord(m).action = PauseAction => m.action = PauseAction
<1> QED BY DEF NextActionForRecord, Usable, UsableResumeState, Open, Place

\* An iteration of the Continue loop is a move.
LEMMA IterationMoves ==
    ASSUME Typed(mission), Open(mission), Usable(mission.origin), LoopsTyped,
           NEW c \in Callers, ContinueIteration(c)
    PROVE  Moves(mission, mission')
<1> DEFINE min == loops[c].minNodes
           leased == Leased(mission, min)
           next == NextActionForRecord(leased)
           moved == [leased EXCEPT !.steps = Append(@, next), !.route = next.route,
                           !.phase = "handoff_required", !.action = next.action]
           result == Result("handoff_required")
           handed == Checkpointed(moved, next, result)
<1>1. min \in LeaseMinimums \cup {0, 1}
  BY DEF LoopsTyped
<1>2. mission' = Gated(leased) \/ mission' = Gated(handed)
  BY DEF ContinueIteration, HandedOff
<1> HIDE DEF min
<1>3. /\ DOMAIN leased = Fields /\ leased.lease \in Leases
      /\ \A f \in Fields \ {"lease"} : leased[f] = mission[f]
  BY <1>1, LeasedIsTyped DEF Typed
<1> HIDE DEF leased
<1>4. /\ leased.status = mission.status /\ leased.refs = mission.refs
      /\ leased.gate = mission.gate /\ leased.origin = mission.origin
      /\ leased.history = mission.history /\ leased.steps = mission.steps
      /\ leased.checkpoints = mission.checkpoints
      /\ leased.route = mission.route /\ leased.action = mission.action
  BY <1>3 DEF Fields
<1>5. Moves(mission, leased)
  BY <1>3, <1>4 DEF Moves, Typed, Decided, Added, Open, Presents
<1>6. leased.status = "active" => /\ next.route # "complete"
                                  /\ next.action = PauseAction => leased.action = PauseAction
  BY <1>4, NextPresents DEF Open
<1> HIDE DEF next
<1>7. /\ DOMAIN moved = Fields /\ moved.lease \in Leases
      /\ moved.status = leased.status /\ moved.refs = leased.refs
      /\ moved.gate = leased.gate /\ moved.origin = leased.origin
      /\ moved.history = leased.history /\ moved.steps = Append(leased.steps, next)
      /\ moved.checkpoints = leased.checkpoints
      /\ moved.route = next.route /\ moved.action = next.action
  BY <1>3 DEF Fields
<1>8. result.name = "handoff_required"
  BY DEF Result
<1> HIDE DEF moved, result
<1>9. Presents(mission, moved)
  BY <1>4, <1>6, <1>7 DEF Presents
<1>10. moved.steps = Append(mission.steps, next)
  BY <1>4, <1>7
<1>11. Moves(mission, handed)
  <2> HIDE DEF handed
  <2>1. \E p : moved.steps = Append(mission.steps, p)
    BY <1>10
  <2>2. Moves(mission, Checkpointed(moved, next, result))
    BY <2>1, <1>4, <1>7, <1>8, <1>9, CheckpointMoves DEF Typed
  <2> QED BY <2>2 DEF handed
<1> HIDE DEF handed
<1> QED BY <1>2, <1>5, <1>11, GatedMoves

\* An event of the issue-repair supervisor is a move.
LEMMA RepairMoves ==
    ASSUME Typed(mission), IssueRepairEvent
    PROVE  Moves(mission, mission')
<1> DEFINE leased == IF mission.repairing THEN mission ELSE Leased(mission, 1)
           step == Place("ao-mission", "issue_repair")
           moved == [leased EXCEPT !.repairing = TRUE, !.route = "ao-mission",
                        !.phase = "issue_repair_supervision", !.action = "issue_repair",
                        !.steps = Append(@, step)]
           place == Here(moved)
           result == Result("issue_repair")
           new == Checkpointed(moved, place, result)
<1>1. mission' = Gated(new)
  BY DEF IssueRepairEvent
<1>2. /\ DOMAIN leased = Fields /\ leased.lease \in Leases
      /\ \A f \in Fields \ {"lease"} : leased[f] = mission[f]
  BY LeasedIsTyped DEF Typed
<1> HIDE DEF leased
<1>4. /\ leased.status = mission.status /\ leased.refs = mission.refs
      /\ leased.gate = mission.gate /\ leased.origin = mission.origin
      /\ leased.history = mission.history /\ leased.steps = mission.steps
      /\ leased.checkpoints = mission.checkpoints
  BY <1>2 DEF Fields
<1> HIDE DEF step
<1>7. /\ DOMAIN moved = Fields /\ moved.lease \in Leases
      /\ moved.status = leased.status /\ moved.refs = leased.refs
      /\ moved.gate = leased.gate /\ moved.origin = leased.origin
      /\ moved.history = leased.history /\ moved.steps = Append(leased.steps, step)
      /\ moved.checkpoints = leased.checkpoints
      /\ moved.route = "ao-mission" /\ moved.action = "issue_repair"
  BY <1>2 DEF Fields
<1>8. result.name = "issue_repair"
  BY DEF Result
<1> HIDE DEF moved, result, place
<1>9. Presents(mission, moved)
  BY <1>7 DEF Presents, PauseAction
<1>11. Moves(mission, new)
  <2> HIDE DEF new
  <2>1. \E p : moved.steps = Append(mission.steps, p)
    BY <1>4, <1>7
  <2>2. Moves(mission, Checkpointed(moved, place, result))
    BY <2>1, <1>4, <1>7, <1>8, <1>9, CheckpointMoves DEF Typed
  <2> QED BY <2>2 DEF new
<1> HIDE DEF new
<1> QED BY <1>1, <1>11, GatedMoves

\* Asking for the next command, for a checkpoint or for a stop is a move.
LEMMA AsksMove ==
    ASSUME Typed(mission), Open(mission), NextAsked \/ CheckpointAsked \/ Stop
    PROVE  Moves(mission, mission')
<1>1. Edits(mission, mission) /\ Presents(mission, mission)
  BY SamePresents DEF Typed, Edits
<1>2. CASE NextAsked
  <2> DEFINE place == NextActionForRecord(mission)
  <2>1. mission' = Logged(mission, place, FALSE)
    BY <1>2 DEF NextAsked
  <2> HIDE DEF place
  <2> QED BY <2>1, <1>1, EditsMove
<1>3. CASE CheckpointAsked
  <2> DEFINE place == Here(mission)
             result == Result("checkpoint_created")
  <2>1. mission' = Checkpointed(mission, place, result)
    BY <1>3 DEF CheckpointAsked, Checkpointed
  <2>2. result.name = "checkpoint_created"
    BY DEF Result
  <2> HIDE DEF place, result
  <2>3. Moves(mission, Checkpointed(mission, place, result))
    BY <1>1, <2>2, CheckpointMoves DEF Typed
  <2> QED BY <2>1, <2>3
<1>4. CASE Stop
  <2> DEFINE n == [mission EXCEPT !.status = "stopped", !.phase = "stopped",
                                  !.action = StopAction]
  <2>1. mission' = n
    BY <1>4 DEF Stop
  <2>2. Edits(mission, n) /\ n.status = "stopped"
    BY DEF Typed, Edits, Fields, Statuses
  <2> HIDE DEF n
  <2>3. Presents(mission, n)
    BY <2>2 DEF Presents
  <2> QED BY <2>1, <2>2, <2>3, EditsMove
<1> QED BY <1>2, <1>3, <1>4

-----------------------------------------------------------------------------
(* Resuming, pausing, compacting and passing a slice.                               *)

\* A set of positions has a last one.
LEMMA LastPosition ==
    ASSUME NEW n \in Nat, NEW I, I \subseteq 0 .. n, I # {}
    PROVE  Max(I) \in I /\ \A i \in I : Max(I) >= i
<1> DEFINE T == {n - i : i \in I}
           R == OpToRel(<, Nat)
<1>1. T \subseteq Nat
  OBVIOUS
<1>1a. PICK i0 \in I : TRUE
  OBVIOUS
<1>1b. n - i0 \in T
  OBVIOUS
<1>2. \E x \in T : \A y \in T : ~ (<<y, x>> \in R)
  <2> HIDE DEF T
  <2> QED BY <1>1, <1>1b, NatLessThanWellFounded, WFMin
<1>3. PICK x \in T : \A y \in T : ~ (<<y, x>> \in R)
  BY <1>2
<1>4. \A y \in T : ~ (y < x)
  BY <1>1, <1>3 DEF OpToRel
<1>5. PICK j \in I : x = n - j
  OBVIOUS
<1>6. \A i \in I : j >= i
  <2> TAKE i \in I
  <2>1. n - i \in T
    OBVIOUS
  <2>2. ~ (n - i < n - j)
    BY <1>4, <1>5, <2>1
  <2>3. i \in Int /\ j \in Int
    OBVIOUS
  <2> QED BY <2>2, <2>3
<1> QED BY <1>6 DEF Max

\* A selection from a sequence has a last position.
LEMMA LastIn ==
    ASSUME NEW s, IsSequence(s), NEW I, I \subseteq 1 .. Len(s), I # {}
    PROVE  Max(I) \in I /\ Max(I) > 0 /\ \A i \in I : Max(I) >= i
<1>1. Len(s) \in Nat
  BY Longer
<1>2. I \subseteq 0 .. Len(s)
  BY <1>1
<1>3. Max(I) \in I /\ \A i \in I : Max(I) >= i
  BY <1>1, <1>2, LastPosition
<1>4. Max(I) \in 1 .. Len(s)
  BY <1>3
<1>5. Max(I) > 0
  BY <1>1, <1>4
<1> QED BY <1>3, <1>5

\* Where a Mission resumes can be worked on, and is what its last pause interrupted
\* while the entry of that pause is retained.
LEMMA ResumeStateIsUsable ==
    ASSUME NEW m, IsSequence(m.history), IsSequence(m.checkpoints), IsSequence(m.steps),
           Usable(m.origin)
    PROVE  /\ Usable(ResumeState(m).place)
           /\ \A here : /\ Marked(m, here)
                        /\ \A k \in DOMAIN m.history :
                               m.history[k].boundary => Usable(m.history[k].place)
                        => ResumeState(m).place = here
<1> DEFINE at(place, phase) == [place |-> place, phase |-> phase]
           B == {i \in 1 .. Len(m.history) :
                     m.history[i].boundary /\ Usable(m.history[i].place)}
           C == {i \in 1 .. Len(m.checkpoints) :
                     UsableResumeState(m.checkpoints[i].place, m.checkpoints[i].phase)}
           S == {i \in 1 .. Len(m.steps) : UsableResumeState(m.steps[i], "handoff_required")}
           D == {i \in 1 .. Len(m.history) : Usable(m.history[i].place)}
           last(I) == IF I # {} THEN Max(I) ELSE 0
<1>1. ResumeState(m) =
        IF last(B) > 0 THEN at(m.history[last(B)].place, "routing")
        ELSE IF last(C) > 0
             THEN at(m.checkpoints[last(C)].place, m.checkpoints[last(C)].phase)
        ELSE IF last(S) > 0 THEN at(m.steps[last(S)], "handoff_required")
        ELSE IF last(D) > 0 THEN at(m.history[last(D)].place, "routing")
        ELSE at(m.origin, "routing")
  BY DEF ResumeState, SelectLastInSeq, Usable
<1>2. /\ last(B) > 0 => last(B) \in B
      /\ last(C) > 0 => last(C) \in C
      /\ last(S) > 0 => last(S) \in S
      /\ last(D) > 0 => last(D) \in D
  <2>1. /\ B \subseteq 1 .. Len(m.history) /\ C \subseteq 1 .. Len(m.checkpoints)
        /\ S \subseteq 1 .. Len(m.steps) /\ D \subseteq 1 .. Len(m.history)
    OBVIOUS
  <2> HIDE DEF B, C, S, D
  <2>2. /\ B # {} => Max(B) \in B
        /\ C # {} => Max(C) \in C
        /\ S # {} => Max(S) \in S
        /\ D # {} => Max(D) \in D
    BY <2>1, LastIn
  <2> QED BY <2>2
<1>3. /\ last(B) > 0 => Usable(m.history[last(B)].place)
      /\ last(C) > 0 => Usable(m.checkpoints[last(C)].place)
      /\ last(S) > 0 => Usable(m.steps[last(S)])
      /\ last(D) > 0 => Usable(m.history[last(D)].place)
  BY <1>2 DEF Usable, UsableResumeState
<1>4. Usable(ResumeState(m).place)
  <2> HIDE DEF last, B, C, S, D
  <2> QED BY <1>1, <1>3
<1>5. ASSUME NEW here, Marked(m, here),
             \A k \in DOMAIN m.history : m.history[k].boundary => Usable(m.history[k].place)
      PROVE  ResumeState(m).place = here
  <2>1. PICK k \in DOMAIN m.history :
            /\ m.history[k].boundary /\ m.history[k].place = here
            /\ \A j \in DOMAIN m.history : j > k => ~ m.history[j].boundary
    BY <1>5 DEF Marked
  <2>2. DOMAIN m.history = 1 .. Len(m.history) /\ Len(m.history) \in Nat
    BY Appended
  <2>3. k \in B
    BY <1>5, <2>1, <2>2
  <2>4. Max(B) \in B /\ Max(B) > 0 /\ Max(B) >= k
    <3>1. B \subseteq 1 .. Len(m.history)
      OBVIOUS
    <3> HIDE DEF B
    <3> QED BY <2>3, <3>1, LastIn
  <2>5. last(B) = Max(B)
    BY <2>3
  <2>6. Max(B) = k
    <3>1. Max(B) \in DOMAIN m.history /\ m.history[Max(B)].boundary
      BY <2>2, <2>4
    <3>2. ~ (Max(B) > k)
      BY <2>1, <3>1
    <3>3. Max(B) \in Nat /\ k \in Nat
      BY <2>2, <3>1
    <3> QED BY <2>4, <3>2, <3>3
  <2>7. ResumeState(m) = at(m.history[last(B)].place, "routing")
    <3> HIDE DEF last, B, C, S, D
    <3> QED BY <1>1, <2>4, <2>5
  <2>8. last(B) = k
    BY <2>5, <2>6
  <2> HIDE DEF last, B
  <2> QED BY <2>1, <2>7, <2>8
<1> QED BY <1>4, <1>5

\* Resuming is a move, to the place that ResumeState finds.
LEMMA ResumeMoves ==
    ASSUME Typed(mission), Usable(mission.origin), Resume
    PROVE  /\ Moves(mission, mission')
           /\ LET place == ResumeState(mission).place
              IN  Here(mission') = Place(place.route, place.action)
<1> DEFINE state == ResumeState(mission)
           new == [mission EXCEPT !.status = "active", !.route = state.place.route,
                                  !.phase = state.phase, !.action = state.place.action]
<1>1. mission' = Gated(new)
  BY DEF Resume
<1>2. Usable(state.place)
  BY ResumeStateIsUsable DEF Typed
<1> HIDE DEF state
<1>4. /\ Edits(mission, new)
      /\ new.route = state.place.route /\ new.action = state.place.action
  BY DEF Typed, Edits, Fields, Statuses
<1> HIDE DEF new
<1>5. Presents(mission, new)
  BY <1>2, <1>4 DEF Presents, Usable, UsableResumeState
<1>6. Moves(mission, mission')
  BY <1>1, <1>4, <1>5, EditsMove, GatedMoves
<1>7. Gated(new).route = new.route /\ Gated(new).action = new.action
  BY <1>4 DEF Gated, Edits, Fields
<1> QED BY <1>1, <1>4, <1>6, <1>7 DEF Here, state

\* A pause marks what it interrupts, or has nothing to restore.
LEMMA PauseKeeps ==
    ASSUME RecordInv(mission, interrupted), Pause
    PROVE  RecordInv(mission', interrupted')
<1> DEFINE here == Place(mission.route, mission.action)
           usable == UsableResumeState(here, mission.phase)
           logged == Logged(mission, here, TRUE)
           marked == IF usable THEN logged ELSE mission
           new == [marked EXCEPT !.status = "paused", !.phase = "paused",
                                 !.action = PauseAction]
           paused == Gated(new)
           e == [place |-> here, boundary |-> TRUE]
           l == Len(mission.history)
<1>1. /\ mission' = paused
      /\ interrupted' = IF usable THEN here
                        ELSE IF mission.status = "paused" THEN interrupted ELSE None
  BY DEF Pause
<1>2. here = Place(here.route, here.action) /\ e.boundary /\ e.place = here
  BY DEF Place
<1>3. usable => Usable(here)
  BY DEF Usable, UsableResumeState
<1>4. Typed(mission) /\ DOMAIN mission = Fields
  BY DEF RecordInv, Typed
<1> HIDE DEF here
<1>5. /\ DOMAIN logged = Fields /\ logged.history = Append(mission.history, e)
      /\ \A f \in Fields \ {"history"} : logged[f] = mission[f]
  BY <1>4 DEF Logged, Fields
<1> HIDE DEF usable, logged, e
<1>6. /\ DOMAIN marked = Fields
      /\ \A f \in Fields \ {"history"} : marked[f] = mission[f]
      /\ marked.history = IF usable THEN Append(mission.history, e) ELSE mission.history
  BY <1>4, <1>5
<1> HIDE DEF marked
<1>7. /\ DOMAIN new = Fields /\ new.history = marked.history /\ new.status = "paused"
      /\ \A f \in Fields \ {"history", "status", "phase", "action"} : new[f] = mission[f]
  BY <1>6 DEF Fields
<1> HIDE DEF new
<1>8. /\ DOMAIN paused = Fields /\ paused.gate \in {"allowed", "denied"}
      /\ paused.history = new.history /\ paused.status = "paused"
      /\ paused.refs = mission.refs /\ paused.lease = mission.lease
      /\ paused.origin = mission.origin /\ paused.steps = mission.steps
      /\ paused.checkpoints = mission.checkpoints
  BY <1>7 DEF Gated, Fields
<1> HIDE DEF paused
<1>9. Ordered(paused)
  BY <1>8 DEF RecordInv, Ordered, PassesAt
<1>10. Open(paused) /\ Usable(paused.origin)
  BY <1>8 DEF RecordInv, Open
<1>11. CASE usable
  <2>1. paused.history = Append(mission.history, e)
    BY <1>6, <1>7, <1>8, <1>11
  <2>2. /\ IsSequence(paused.history)
        /\ DOMAIN paused.history = 1 .. (l + 1) /\ DOMAIN mission.history = 1 .. l
        /\ l \in Nat /\ paused.history[l + 1] = e /\ Len(paused.history) = l + 1
        /\ \A i \in DOMAIN mission.history : paused.history[i] = mission.history[i]
    BY <1>4, <2>1, Appended, Longer DEF Typed
  <2> HIDE DEF l
  <2>3. \A i \in DOMAIN paused.history :
           \/ i \in DOMAIN mission.history /\ paused.history[i] = mission.history[i]
           \/ i = l + 1 /\ paused.history[i] = e
    BY <2>2
  <2>4. \A k \in DOMAIN paused.history :
           paused.history[k].boundary => Usable(paused.history[k].place)
    BY <1>2, <1>3, <1>11, <2>3 DEF RecordInv
  <2>5. Marked(paused, here)
    <3>1. l + 1 \in DOMAIN paused.history
      BY <2>2
    <3>2. \A j \in DOMAIN paused.history : ~ (j > l + 1)
      BY <2>2
    <3> QED BY <1>2, <2>2, <3>1, <3>2 DEF Marked
  <2>6. Typed(paused)
    BY <1>4, <1>8, <2>2 DEF Typed, Statuses
  <2> QED BY <1>1, <1>2, <1>9, <1>10, <1>11, <2>4, <2>5, <2>6 DEF RecordInv
<1>12. CASE ~ usable
  <2>1. paused.history = mission.history
    BY <1>6, <1>7, <1>8, <1>12
  <2>2. Typed(paused)
    BY <1>4, <1>8, <2>1 DEF Typed, Statuses
  <2>3. \A place : Marked(mission, place) => Marked(paused, place)
    BY <2>1 DEF Marked
  <2> QED BY <1>1, <1>9, <1>10, <1>12, <2>1, <2>2, <2>3 DEF RecordInv
<1> QED BY <1>11, <1>12

\* What compaction keeps of a ledger is its end.
LEMMA LatestIsEnd ==
    ASSUME NEW s, IsSequence(s), NEW n \in Nat \ {0}
    PROVE  \E o \in Nat :
              /\ IsSequence(Latest(s, n)) /\ Len(Latest(s, n)) = Len(s) - o
              /\ DOMAIN Latest(s, n) = 1 .. (Len(s) - o)
              /\ \A i \in 1 .. (Len(s) - o) : Latest(s, n)[i] = s[i + o]
              /\ Len(s) > 0 => Len(s) - o > 0
<1>1. PICK S : s \in Seq(S)
  BY DEF IsSequence
<1>2. CASE Len(s) > n
  <2> DEFINE o == Len(s) - n
             t == SubSeq(s, o + 1, Len(s))
  <2>1. Latest(s, n) = t /\ o \in Nat /\ Len(s) \in Nat
    BY <1>1, <1>2 DEF Latest
  <2>2. /\ t \in Seq(S) /\ Len(t) = Len(s) - o
        /\ \A i \in 1 .. (Len(s) - o) : t[i] = s[i + o]
    BY <1>1, <2>1
  <2>3. DOMAIN t = 1 .. (Len(s) - o)
    BY <2>2
  <2>4. IsSequence(t)
    <3> HIDE DEF t
    <3> QED BY <2>2 DEF IsSequence
  <2>5. Len(s) - o > 0
    BY <2>1
  <2> HIDE DEF o, t
  <2> QED BY <2>1, <2>2, <2>3, <2>4, <2>5
<1>3. CASE ~ (Len(s) > n)
  <2>1. Latest(s, n) = s /\ Len(s) \in Nat /\ DOMAIN s = 1 .. Len(s)
    BY <1>1, <1>3 DEF Latest
  <2>2. \A i \in 1 .. Len(s) : i + 0 = i
    OBVIOUS
  <2>3. Len(s) - 0 = Len(s)
    BY <2>1
  <2> QED BY <2>1, <2>2, <2>3
<1> QED BY <1>2, <1>3

\* Compaction keeps the entry of the last pause, or has nothing to restore.
LEMMA CompactKeeps ==
    ASSUME RecordInv(mission, interrupted), NEW routes \in Keeps, NEW steps \in Keeps,
           Compact(routes, steps)
    PROVE  RecordInv(mission', interrupted')
<1> DEFINE kept == Latest(mission.history, routes)
           made == Latest(mission.steps, steps)
           n == [mission EXCEPT !.history = kept, !.steps = made]
           l == Len(mission.history)
<1>1. /\ mission' = n
      /\ interrupted' = IF \E e \in Range(kept) : e.boundary THEN interrupted ELSE None
  BY DEF Compact
<1>2. Typed(mission) /\ DOMAIN mission = Fields
  BY DEF RecordInv, Typed
<1>3. routes \in Nat \ {0} /\ steps \in Nat \ {0}
  BY BoundsAssumption
<1>4. PICK o \in Nat :
          /\ IsSequence(kept) /\ Len(kept) = l - o /\ DOMAIN kept = 1 .. (l - o)
          /\ \A i \in 1 .. (l - o) : kept[i] = mission.history[i + o]
          /\ l > 0 => l - o > 0
  BY <1>2, <1>3, LatestIsEnd DEF Typed
<1>5. IsSequence(made) /\ Len(made) <= Len(mission.steps)
  <2>1. PICK p \in Nat : IsSequence(made) /\ Len(made) = Len(mission.steps) - p
    BY <1>2, <1>3, LatestIsEnd DEF Typed
  <2>2. Len(mission.steps) \in Nat
    BY <1>2, Longer DEF Typed
  <2> QED BY <2>1, <2>2
<1>6. DOMAIN mission.history = 1 .. l /\ l \in Nat
  BY <1>2, Appended DEF Typed
<1> HIDE DEF kept, made
<1>7. /\ DOMAIN n = Fields /\ n.history = kept /\ n.steps = made
      /\ n.status = mission.status /\ n.gate = mission.gate /\ n.refs = mission.refs
      /\ n.lease = mission.lease /\ n.origin = mission.origin
      /\ n.checkpoints = mission.checkpoints
      /\ n.route = mission.route /\ n.action = mission.action
  BY <1>2 DEF Fields
<1> HIDE DEF n
<1>8. Typed(n)
  <2>1. Len(mission.steps) \in Nat /\ Len(mission.checkpoints) \in Nat /\ Len(made) \in Nat
    BY <1>2, <1>5, Longer DEF Typed
  <2>2. Len(made) <= Len(mission.checkpoints)
    BY <1>2, <1>5, <2>1 DEF Typed
  <2> QED BY <1>2, <1>4, <1>5, <1>7, <2>2 DEF Typed
<1>9. Ordered(n)
  BY <1>7 DEF RecordInv, Ordered, PassesAt
<1>10. Open(n) /\ Usable(n.origin)
  BY <1>7 DEF RecordInv, Open
<1> HIDE DEF l
<1>11. \A i \in DOMAIN kept : i + o \in DOMAIN mission.history
  BY <1>4, <1>6
<1>12. \A k \in DOMAIN n.history : n.history[k].boundary => Usable(n.history[k].place)
  BY <1>4, <1>7, <1>11 DEF RecordInv
<1>13. ASSUME n.status = "paused", interrupted # None, \E e \in Range(kept) : e.boundary
       PROVE  Marked(n, interrupted)
  <2>1. Marked(mission, interrupted)
    BY <1>7, <1>13 DEF RecordInv
  <2>2. PICK k \in DOMAIN mission.history :
            /\ mission.history[k].boundary /\ mission.history[k].place = interrupted
            /\ \A j \in DOMAIN mission.history : j > k => ~ mission.history[j].boundary
    BY <2>1 DEF Marked
  <2>3. PICK i \in DOMAIN kept : kept[i].boundary
    BY <1>13 DEF Range
  <2>4. i + o <= k
    <3>1. i + o \in DOMAIN mission.history /\ mission.history[i + o].boundary
      BY <1>4, <1>11, <2>3
    <3>2. ~ (i + o > k)
      BY <2>2, <3>1
    <3> QED BY <1>4, <1>6, <3>2
  <2> DEFINE at == k - o
  <2>5. at \in 1 .. (l - o) /\ at + o = k /\ at \in Int
    BY <1>4, <1>6, <2>4
  <2>6. at \in DOMAIN n.history /\ n.history[at] = mission.history[k]
    BY <1>4, <1>7, <2>5
  <2>7. \A j \in DOMAIN n.history : j > at => ~ n.history[j].boundary
    <3> SUFFICES ASSUME NEW j \in DOMAIN n.history, j > at
                 PROVE  ~ n.history[j].boundary
      OBVIOUS
    <3>1. j + o \in DOMAIN mission.history /\ n.history[j] = mission.history[j + o]
      BY <1>4, <1>7, <1>11
    <3>2. j + o > k
      BY <1>4, <1>7, <2>5
    <3> QED BY <2>2, <3>1, <3>2
  <2> QED BY <2>2, <2>6, <2>7 DEF Marked
<1> QED BY <1>1, <1>8, <1>9, <1>10, <1>12, <1>13 DEF RecordInv

\* The next slice follows the passes there are.
LEMMA SliceKeeps ==
    ASSUME RecordInv(mission, interrupted), NEW slice, NEW digest,
           SliceCheckpointAsked(slice, digest)
    PROVE  RecordInv(mission', interrupted)
<1> DEFINE place == Here(mission)
           result == SlicePass(slice, digest)
           n == Checkpointed(mission, place, result)
           e == Checkpoint(mission, place, result)
           l == Len(mission.checkpoints)
           slices == {p.slice : p \in SlicePasses(mission)}
           I == slices \cup {0}
           slicesAt(i) == mission.checkpoints[i].result.slice
<1>1. mission' = n
  BY DEF SliceCheckpointAsked
<1>2. SliceEvidence(mission, slice, digest) /\ slice = Max(I) + 1
  BY DEF SliceCheckpointAsked, SliceAnswer
<1>3. \E r \in mission.refs : r.digest = digest
  <2> DEFINE held == {r \in mission.refs : r.digest = digest}
  <2>1. Cardinality(held) = 1
    BY <1>2 DEF SliceEvidence
  <2>2. held # {}
    <3> HIDE DEF held
    <3> QED BY <2>1, FS_EmptySet
  <2> QED BY <2>2
<1>4. Typed(mission) /\ DOMAIN mission = Fields
  BY DEF RecordInv, Typed
<1>5. /\ e.result = result
      /\ result.name = "slice_pass" /\ result.slice = slice /\ result.digest = digest
  BY DEF Checkpoint, SlicePass
<1>6. /\ DOMAIN n = Fields
      /\ \A f \in Fields \ {"checkpoints"} : n[f] = mission[f]
      /\ n.checkpoints = Append(mission.checkpoints, e)
  BY <1>4 DEF Checkpointed
<1> HIDE DEF place, result, n, e
<1>7. /\ n.status = mission.status /\ n.gate = mission.gate /\ n.refs = mission.refs
      /\ n.lease = mission.lease /\ n.origin = mission.origin
      /\ n.history = mission.history /\ n.steps = mission.steps
      /\ n.route = mission.route /\ n.action = mission.action
  BY <1>6 DEF Fields
<1>8. /\ IsSequence(n.checkpoints) /\ Len(n.checkpoints) = l + 1 /\ l \in Nat
      /\ DOMAIN n.checkpoints = 1 .. (l + 1) /\ DOMAIN mission.checkpoints = 1 .. l
      /\ n.checkpoints[l + 1] = e
      /\ \A i \in DOMAIN mission.checkpoints : n.checkpoints[i] = mission.checkpoints[i]
  BY <1>4, <1>6, Appended, Longer DEF Typed
<1>9. Typed(n)
  <2>1. Len(mission.steps) \in Nat
    BY <1>4, Longer DEF Typed
  <2>2. Len(n.steps) <= Len(n.checkpoints)
    BY <1>4, <1>7, <1>8, <2>1 DEF Typed
  <2> QED BY <1>4, <1>6, <1>7, <1>8, <2>2 DEF Typed
<1> HIDE DEF l
<1>10. PassesAt(n) = PassesAt(mission) \cup {l + 1}
  <2>1. \A i \in DOMAIN n.checkpoints :
           i \in DOMAIN mission.checkpoints \/ i = l + 1
    BY <1>8
  <2>2. \A i \in DOMAIN mission.checkpoints : i \in DOMAIN n.checkpoints
    BY <1>8
  <2>3. l + 1 \in DOMAIN n.checkpoints
    BY <1>8
  <2> QED BY <1>5, <1>8, <2>1, <2>2, <2>3 DEF PassesAt
<1>11. slices = {slicesAt(i) : i \in PassesAt(mission)}
  BY DEF SlicePasses
<1>12. \A i \in PassesAt(mission) :
          /\ i \in 1 .. l /\ slicesAt(i) \in Nat /\ slicesAt(i) <= i
          /\ n.checkpoints[i].result = mission.checkpoints[i].result
          /\ slicesAt(i) = 1 \/ \E j \in PassesAt(mission) :
                                   j < i /\ slicesAt(j) = slicesAt(i) - 1
          /\ \A j \in PassesAt(mission) : j < i => slicesAt(j) < slicesAt(i)
          /\ \E r \in mission.refs : r.digest = mission.checkpoints[i].result.digest
  BY <1>8 DEF RecordInv, Ordered, PassesAt
<1>13. Max(I) \in I /\ \A i \in I : Max(I) >= i
  <2>1. \A i \in PassesAt(mission) : slicesAt(i) \in 0 .. l
    BY <1>8, <1>12
  <2>2. I \subseteq 0 .. l
    <3> HIDE DEF slicesAt, slices
    <3> QED BY <1>8, <1>11, <2>1
  <2> HIDE DEF slices
  <2>3. I # {}
    OBVIOUS
  <2> HIDE DEF I
  <2> QED BY <1>8, <2>2, <2>3, LastPosition
<1>14. \A i \in PassesAt(mission) : slicesAt(i) \in I
  BY <1>11
<1>15. Max(I) = 0 \/ \E j \in PassesAt(mission) : Max(I) = slicesAt(j)
  BY <1>11, <1>13
<1> HIDE DEF I, slices
<1>16. slice \in Nat /\ slice <= l + 1
  BY <1>2, <1>8, <1>12, <1>15
<1>17. slice = 1 \/ \E j \in PassesAt(mission) : slicesAt(j) = slice - 1
  BY <1>2, <1>12, <1>15
<1>18. \A j \in PassesAt(mission) : slicesAt(j) < slice
  <2> TAKE j \in PassesAt(mission)
  <2>1. Max(I) >= slicesAt(j)
    BY <1>13, <1>14
  <2>2. slicesAt(j) \in Nat /\ Max(I) \in Nat
    BY <1>12, <1>15
  <2> QED BY <1>2, <2>1, <2>2
<1>19. n.checkpoints[l + 1].result.slice = slice /\ n.checkpoints[l + 1].result.digest = digest
  BY <1>5, <1>8
<1> HIDE DEF slicesAt
<1>20. Ordered(n)
  <2> DEFINE at(i) == n.checkpoints[i].result.slice
  <2>1. \A i \in PassesAt(mission) : at(i) = slicesAt(i) /\ i \in 1 .. l
    BY <1>12 DEF slicesAt
  <2>2. at(l + 1) = slice
    BY <1>19
  <2>3. ASSUME NEW i \in PassesAt(mission)
        PROVE  /\ at(i) \in Nat /\ at(i) <= i
               /\ at(i) = 1 \/ \E j \in PassesAt(n) : j < i /\ at(j) = at(i) - 1
               /\ \A j \in PassesAt(n) : j < i => at(j) < at(i)
               /\ \E r \in n.refs : r.digest = n.checkpoints[i].result.digest
    <3> HIDE DEF at
    <3>1. at(i) \in Nat /\ at(i) <= i
      BY <1>12, <2>1
    <3>2. at(i) = 1 \/ \E j \in PassesAt(n) : j < i /\ at(j) = at(i) - 1
      BY <1>10, <1>12, <2>1
    <3>3. \A j \in PassesAt(n) : j < i => at(j) < at(i)
      <4> SUFFICES ASSUME NEW j \in PassesAt(n), j < i PROVE at(j) < at(i)
        OBVIOUS
      <4>1. j \in PassesAt(mission)
        BY <1>8, <1>10, <2>1
      <4> QED BY <1>12, <2>1, <4>1
    <3>4. \E r \in n.refs : r.digest = n.checkpoints[i].result.digest
      BY <1>7, <1>12
    <3> QED BY <3>1, <3>2, <3>3, <3>4
  <2>4. /\ at(l + 1) \in Nat /\ at(l + 1) <= l + 1
        /\ at(l + 1) = 1 \/ \E j \in PassesAt(n) : j < l + 1 /\ at(j) = at(l + 1) - 1
        /\ \A j \in PassesAt(n) : j < l + 1 => at(j) < at(l + 1)
        /\ \E r \in n.refs : r.digest = n.checkpoints[l + 1].result.digest
    <3> HIDE DEF at
    <3>1. \A j \in PassesAt(mission) : j < l + 1
      BY <1>8, <2>1
    <3>2. at(l + 1) = 1 \/ \E j \in PassesAt(n) : j < l + 1 /\ at(j) = at(l + 1) - 1
      BY <1>10, <1>17, <2>1, <2>2, <3>1
    <3>3. \A j \in PassesAt(n) : j < l + 1 => at(j) < at(l + 1)
      BY <1>8, <1>10, <1>18, <2>1, <2>2
    <3>4. \E r \in n.refs : r.digest = n.checkpoints[l + 1].result.digest
      BY <1>3, <1>7, <1>19
    <3> QED BY <1>16, <2>2, <3>2, <3>3, <3>4
  <2> HIDE DEF at
  <2>5. \A i \in PassesAt(n) :
            /\ at(i) \in Nat /\ at(i) <= i
            /\ at(i) = 1 \/ \E j \in PassesAt(n) : j < i /\ at(j) = at(i) - 1
            /\ \A j \in PassesAt(n) : j < i => at(j) < at(i)
            /\ \E r \in n.refs : r.digest = n.checkpoints[i].result.digest
    BY <1>10, <2>3, <2>4
  <2> QED BY <2>5 DEF Ordered, at
<1>21. Marked(mission, interrupted) => Marked(n, interrupted)
  BY <1>7 DEF Marked
<1> QED BY <1>1, <1>7, <1>9, <1>20, <1>21 DEF RecordInv, Open

-----------------------------------------------------------------------------
(* The invariant of the record, the loops and the last pause.                       *)

\* The inductive invariant.
LoopInv ==
    /\ RecordInv(mission, interrupted)
    /\ LoopsTyped
    /\ operations \in 0 .. MaxOperations

\* It holds of a new Mission,
LEMMA LoopInvInit == Init => LoopInv
<1> SUFFICES ASSUME Init PROVE LoopInv
  OBVIOUS
<1> DEFINE none == << >>
<1>1. PICK route \in InitialRoutes, contract \in BOOLEAN :
         mission = [status |-> "active", route |-> route, phase |-> "routing",
                   action |-> "initial", origin |-> Place(route, "initial"),
                   contract |-> contract, refs |-> {},
                   history |-> << [place |-> Place(route, "initial"),
                                   boundary |-> FALSE] >>,
                   steps |-> << >>, checkpoints |-> << >>, blockers |-> {},
                   workgraph |-> NoGraph, recommendation |-> None,
                   rollup |-> None, candidate |-> None, lease |-> 0, gate |-> "none",
                   repairing |-> FALSE]
  BY DEF Init, MissionInit
<1> DEFINE e == [place |-> Place(route, "initial"), boundary |-> FALSE]
<1>2. /\ DOMAIN mission = Fields /\ mission.status = "active" /\ mission.gate = "none"
      /\ mission.refs = {} /\ mission.lease = 0
      /\ mission.history = << e >> /\ mission.steps = none
      /\ mission.checkpoints = none /\ mission.origin = Place(route, "initial")
      /\ mission.route = route /\ mission.action = "initial"
  BY <1>1 DEF Fields
<1>3. /\ IsSequence(<< e >>) /\ Len(<< e >>) = 1 /\ IsSequence(none) /\ Len(none) = 0
      /\ DOMAIN << e >> = {1} /\ << e >>[1] = e /\ DOMAIN none = {}
  <2>1. ~ e.boundary
    OBVIOUS
  <2> HIDE DEF e
  <2>2. << e >> \in Seq({e}) /\ none \in Seq({})
    OBVIOUS
  <2>3. IsSequence(<< e >>) /\ IsSequence(none)
    <3> HIDE DEF none
    <3> QED BY <2>2 DEF IsSequence
  <2>4. Len(<< e >>) = 1 /\ DOMAIN << e >> = {1} /\ << e >>[1] = e
    OBVIOUS
  <2>5. Len(none) = 0 /\ DOMAIN none = {}
    OBVIOUS
  <2> QED BY <2>3, <2>4, <2>5
<1>4. ~ e.boundary
  OBVIOUS
<1> HIDE DEF e, none
<1>5. route # "complete"
  BY RoutesAssumption
<1>6. Usable(mission.origin) /\ Open(mission)
  BY <1>2, <1>5 DEF Usable, UsableResumeState, Open, Place, NoAction, PauseAction
<1>7. Typed(mission)
  BY <1>2, <1>3 DEF Typed, Statuses, Leases
<1>8. Ordered(mission)
  BY <1>2, <1>3 DEF Ordered, PassesAt
<1>9. \A k \in DOMAIN mission.history : ~ mission.history[k].boundary
  BY <1>2, <1>3, <1>4
<1>10. interrupted = None /\ LoopsTyped /\ operations \in 0 .. MaxOperations
  BY BoundsAssumption DEF Init, LoopsTyped, Idle
<1> QED BY <1>6, <1>7, <1>8, <1>9, <1>10 DEF LoopInv, RecordInv

\* is kept by every operation
LEMMA OperationsKeep ==
    ASSUME LoopInv, Operate
    PROVE  RecordInv(mission', interrupted') /\ LoopsTyped'
<1>1. /\ RecordInv(mission, interrupted) /\ Typed(mission) /\ Open(mission)
      /\ Usable(mission.origin) /\ LoopsTyped
  BY DEF LoopInv, RecordInv
<1>2. CASE \E c \in Callers : ContinueCalled(c)
  <2>1. PICK c \in Callers : ContinueCalled(c)
    BY <1>2
  <2>2. PICK left \in 1 .. MaxIterations, min \in LeaseMinimums :
            loops' = [loops EXCEPT ![c] = [left |-> left, minNodes |-> min]]
    BY <2>1 DEF ContinueCalled
  <2>3. [left |-> left, minNodes |-> min]
            \in [left : 0 .. MaxIterations, minNodes : LeaseMinimums \cup {0}]
    BY BoundsAssumption
  <2>4. LoopsTyped'
    BY <1>1, <2>2, <2>3 DEF LoopsTyped
  <2> QED BY <1>1, <2>1, <2>4 DEF ContinueCalled
<1>3. ASSUME Moves(mission, mission'), UNCHANGED << loops, interrupted >>
      PROVE  RecordInv(mission', interrupted') /\ LoopsTyped'
  BY <1>1, <1>3, MovesKeep DEF LoopsTyped
<1>4. CASE NextAsked \/ CheckpointAsked \/ Stop
  <2>1. UNCHANGED << loops, interrupted >>
    BY <1>4 DEF NextAsked, CheckpointAsked, Stop
  <2> QED BY <1>1, <1>3, <1>4, <2>1, AsksMove
<1>5. CASE Pause
  BY <1>1, <1>5, PauseKeeps DEF Pause, LoopsTyped
<1>6. CASE Resume
  BY <1>1, <1>3, <1>6, ResumeMoves DEF Resume
<1>7. CASE \E d \in Documents : Import(d)
  <2>1. PICK d \in Documents : Import(d)
    BY <1>7
  <2>2. UNCHANGED << loops, interrupted >>
    BY <2>1 DEF Import, ImportEvidence, ImportCandidate, ImportNotice, ImportWorkgraph,
                ImportRecommendation, ImportSynthesis, ImportRunLink, ImportRollup,
                Imported, ImportedAndGated
  <2> QED BY <1>1, <1>3, <2>1, <2>2, ImportsMove
<1>8. CASE \E d \in mission.refs : SliceCheckpointAsked(d.slice, d.digest)
  <2>1. PICK d \in mission.refs : SliceCheckpointAsked(d.slice, d.digest)
    BY <1>8
  <2>2. UNCHANGED << loops, interrupted >>
    BY <2>1 DEF SliceCheckpointAsked
  <2>3. RecordInv(mission', interrupted)
    BY <1>1, <2>1, SliceKeeps
  <2> QED BY <1>1, <2>2, <2>3 DEF LoopsTyped
<1>9. CASE \E routes, steps \in Keeps : Compact(routes, steps)
  <2>1. PICK routes \in Keeps, steps \in Keeps : Compact(routes, steps)
    BY <1>9
  <2> QED BY <1>1, <2>1, CompactKeeps DEF Compact, LoopsTyped
<1>10. CASE IssueRepairEvent
  BY <1>1, <1>3, <1>10, RepairMoves DEF IssueRepairEvent
<1> QED BY <1>2, <1>4, <1>5, <1>6, <1>7, <1>8, <1>9, <1>10 DEF Operate

\* and by every step.
LEMMA LoopInvStep == LoopInv /\ [Next]_vars => LoopInv'
<1> SUFFICES ASSUME LoopInv, [Next]_vars PROVE LoopInv'
  OBVIOUS
<1>1. /\ RecordInv(mission, interrupted) /\ Typed(mission) /\ Open(mission)
      /\ Usable(mission.origin) /\ LoopsTyped /\ operations \in 0 .. MaxOperations
  BY DEF LoopInv, RecordInv
<1>2. Idle \in [left : 0 .. MaxIterations, minNodes : LeaseMinimums \cup {0}]
  BY BoundsAssumption DEF Idle
<1>3. CASE Operate
  <2>1. operations' \in 0 .. MaxOperations
    BY <1>1, <1>3, BoundsAssumption DEF Operate
  <2> QED BY <1>3, <2>1, OperationsKeep DEF LoopInv
<1>4. ASSUME NEW c \in Callers, ContinueRefused(c)
      PROVE  LoopInv'
  <2>1. LoopsTyped'
    BY <1>1, <1>2, <1>4 DEF ContinueRefused, LoopsTyped
  <2> QED BY <1>1, <1>4, <2>1 DEF ContinueRefused, LoopInv
<1>5. ASSUME NEW c \in Callers, ContinueIteration(c)
      PROVE  LoopInv'
  <2>1. RecordInv(mission', interrupted)
    BY <1>1, <1>5, IterationMoves, MovesKeep
  <2>2. \/ loops' = [loops EXCEPT ![c] = Idle]
        \/ loops' = [loops EXCEPT ![c].left = @ - 1]
    BY <1>5 DEF ContinueIteration
  <2>3. /\ loops[c] \in [left : 0 .. MaxIterations, minNodes : LeaseMinimums \cup {0}]
        /\ loops[c].left - 1 \in 0 .. MaxIterations
    BY <1>1, <1>5, BoundsAssumption DEF LoopsTyped, ContinueIteration
  <2>4. LoopsTyped'
    BY <1>1, <1>2, <2>2, <2>3 DEF LoopsTyped
  <2> QED BY <1>1, <1>5, <2>1, <2>4 DEF ContinueIteration, LoopInv
<1>6. CASE UNCHANGED vars
  BY <1>1, <1>6 DEF vars, LoopInv, LoopsTyped
<1> QED BY <1>3, <1>4, <1>5, <1>6 DEF Next

\* At any moment of any run the record is typed, its route open when active, it holds the
\* entry of the pause it is in while that is retained, and its slices are in order.
THEOREM RecordStaysSound == Spec => []LoopInv
<1> QED BY LoopInvInit, LoopInvStep, PTL DEF Spec

\* The record, the loops and the bounds keep their types.
THEOREM TypeCorrect == Spec => []TypeOK
<1>1. LoopInv => TypeOK
  <2> SUFFICES ASSUME LoopInv PROVE TypeOK
    OBVIOUS
  <2>1. \A c \in Callers : loops[c].left \in 0 .. MaxIterations
    BY DEF LoopInv, LoopsTyped
  <2>2. operations <= MaxOperations
    BY BoundsAssumption DEF LoopInv
  <2> QED BY <2>1, <2>2 DEF LoopInv, RecordInv, Typed, Statuses, Leases, TypeOK
<1> QED BY <1>1, RecordStaysSound, PTL

\* What any step makes of the record presents work.
LEMMA StepPresents ==
    ASSUME LoopInv, [Next]_vars
    PROVE  Presents(mission, mission')
<1>1. /\ Typed(mission) /\ Open(mission) /\ Usable(mission.origin) /\ LoopsTyped
      /\ DOMAIN mission = Fields
  BY DEF LoopInv, RecordInv, Typed
<1>2. Moves(mission, mission') => Presents(mission, mission')
  BY DEF Moves
<1>3. mission' = mission => Presents(mission, mission')
  BY <1>1, SamePresents
<1>4. CASE \E c \in Callers : ContinueCalled(c)
  BY <1>3, <1>4 DEF ContinueCalled
<1>5. CASE NextAsked \/ CheckpointAsked \/ Stop
  BY <1>1, <1>2, <1>5, AsksMove
<1>6. CASE Pause
  <2> DEFINE here == Place(mission.route, mission.action)
             marked == IF UsableResumeState(here, mission.phase)
                       THEN Logged(mission, here, TRUE) ELSE mission
             new == [marked EXCEPT !.status = "paused", !.phase = "paused",
                                   !.action = PauseAction]
  <2>1. mission' = Gated(new)
    BY <1>6 DEF Pause
  <2>2. DOMAIN marked = Fields
    BY <1>1 DEF Logged
  <2> HIDE DEF marked
  <2>3. DOMAIN new = Fields /\ new.status = "paused"
    BY <2>2 DEF Fields
  <2> HIDE DEF new
  <2>4. Gated(new).status = "paused"
    BY <2>3 DEF Gated, Fields
  <2> QED BY <2>1, <2>4 DEF Presents
<1>7. CASE Resume
  BY <1>1, <1>2, <1>7, ResumeMoves
<1>8. CASE \E d \in Documents : Import(d)
  BY <1>1, <1>2, <1>8, ImportsMove
<1>9. CASE \E d \in mission.refs : SliceCheckpointAsked(d.slice, d.digest)
  <2>1. PICK d \in mission.refs : SliceCheckpointAsked(d.slice, d.digest)
    BY <1>9
  <2> DEFINE result == SlicePass(d.slice, d.digest)
             n == Checkpointed(mission, Here(mission), result)
  <2>2. mission' = n
    BY <2>1 DEF SliceCheckpointAsked
  <2> HIDE DEF result
  <2>3. n.status = mission.status /\ n.route = mission.route /\ n.action = mission.action
    BY <1>1 DEF Checkpointed, Fields
  <2> HIDE DEF n
  <2> QED BY <1>1, <2>2, <2>3, SamePresents
<1>10. CASE \E routes, steps \in Keeps : Compact(routes, steps)
  <2>1. PICK routes \in Keeps, steps \in Keeps : Compact(routes, steps)
    BY <1>10
  <2> DEFINE kept == Latest(mission.history, routes)
             made == Latest(mission.steps, steps)
             n == [mission EXCEPT !.history = kept, !.steps = made]
  <2>2. mission' = n
    BY <2>1 DEF Compact
  <2> HIDE DEF kept, made
  <2>3. n.status = mission.status /\ n.route = mission.route /\ n.action = mission.action
    BY <1>1 DEF Fields
  <2> HIDE DEF n
  <2> QED BY <1>1, <2>2, <2>3, SamePresents
<1>11. CASE IssueRepairEvent
  BY <1>1, <1>2, <1>11, RepairMoves
<1>12. ASSUME NEW c \in Callers, ContinueRefused(c)
       PROVE  Presents(mission, mission')
  BY <1>3, <1>12 DEF ContinueRefused
<1>13. ASSUME NEW c \in Callers, ContinueIteration(c)
       PROVE  Presents(mission, mission')
  BY <1>1, <1>2, <1>13, IterationMoves
<1>14. CASE UNCHANGED vars
  BY <1>3, <1>14 DEF vars
<1> QED BY <1>4, <1>5, <1>6, <1>7, <1>8, <1>9, <1>10, <1>11, <1>12, <1>13, <1>14
           DEF Next, Operate

\* An active Mission is on an open route, and comes to present the pause notice only
\* by the import of a document that names that text: nothing else leaves the notice.
THEOREM ActivePresentsWork == Spec => ActiveIsResumable
<1>1. LoopInv /\ [Next]_vars =>
         [mission'.status = "active" =>
            /\ mission'.route # "complete"
            /\ mission'.action = PauseAction =>
                   \/ mission.status = "active" /\ mission.action = PauseAction
                   \/ \E d \in mission'.refs \ mission.refs : d.action = PauseAction]_vars
  BY StepPresents DEF Presents
<1> QED BY <1>1, RecordStaysSound, PTL DEF Spec, ActiveIsResumable

\* Slices pass one after the other, each once, on evidence that stays retained.
THEOREM SlicesPassInOrder == Spec => []SlicesInOrder
<1>1. LoopInv => SlicesInOrder
  BY DEF LoopInv, RecordInv, Ordered, SlicesInOrder
<1> QED BY <1>1, RecordStaysSound, PTL

\* Resuming a paused Mission returns it to what the pause interrupted, as long as the
\* entry of the pause is retained.
THEOREM ResumeReturns == Spec => ResumeRestores
<1>1. LoopInv /\ [Next]_vars =>
         [Resume /\ mission.status = "paused" /\ interrupted # None =>
              Here(mission') = interrupted]_vars
  <2> SUFFICES ASSUME LoopInv, Resume, mission.status = "paused", interrupted # None
               PROVE  Here(mission') = interrupted
    OBVIOUS
  <2>1. /\ Typed(mission) /\ Usable(mission.origin) /\ Marked(mission, interrupted)
        /\ interrupted = Place(interrupted.route, interrupted.action)
        /\ \A k \in DOMAIN mission.history :
               mission.history[k].boundary => Usable(mission.history[k].place)
    BY DEF LoopInv, RecordInv
  <2>2. ResumeState(mission).place = interrupted
    BY <2>1, ResumeStateIsUsable DEF Typed
  <2> QED BY <2>1, <2>2, ResumeMoves
<1> QED BY <1>1, RecordStaysSound, PTL DEF Spec, ResumeRestores
=============================================================================
