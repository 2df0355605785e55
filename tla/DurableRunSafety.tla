-------------------------- MODULE DurableRunSafety --------------------------
(***************************************************************************)
(* Proofs of the type correctness and of the safety of DurableRun.  TypeOK  *)
(* is not inductive: what a process writes depends on what it held when it  *)
(* reached its label, which ProcOK adds.  The argument for the safety is    *)
(* about slots: a lawful journal is numbered without gaps, so the number of *)
(* an event tells what it is.  Two processes that claim one effect          *)
(* therefore want one and the same file, and create_new lets only one of    *)
(* them make it.                                                            *)
(*                                                                         *)
(* Then that what a run leaves behind is true: an event never runs ahead of *)
(* the capture, the effects or the terminal record it tells of, and a       *)
(* Passed record is earned.  Each fact a file tells is a fact that stays,   *)
(* so it is enough that the process that makes the file knew it (TruthInv). *)
(* Last the steps: an effect abandoned with an intent is left alone for     *)
(* ever, no effect is claimed once every authority has expired, and every   *)
(* step is one that RunPromise allows or one its observer does not see.     *)
(***************************************************************************)
EXTENDS DurableRun, FiniteSetTheorems, TLAPS

Creating == {"create", "sync"}

Acting == {"execute", "complete"}

Publishing == {"publish", "termfile", "termsync", "termevent"}

EffectKinds == {"effect_intent", "effect_completed"}

ProcOK(p) ==
    /\ pc[p] \in Creating =>
          /\ pend[p] \in Files
          /\ pend[p].ev.kind \in EffectKinds => next[p] \in Effects
    /\ pc[p] \in Acting => next[p] \in Effects
    /\ pc[p] = "intent" => authority[p] \in Authorities
    /\ pc[p] = "report" => report[p] \in Reports
    /\ pc[p] \in Publishing => record[p] \in Records

TypeInv == TypeOK /\ \A p \in Procs : ProcOK(p)

-----------------------------------------------------------------------------

\* Where a process goes after an event, or after failing to record one, is a label
\* of the model; only an effect intent leads to "execute".
LEMMA LabelsOK ==
    ASSUME NEW p \in Procs, NEW kind
    PROVE  /\ After(p, kind) \in PCs \ (Creating \cup Publishing \cup {"complete"})
           /\ After(p, kind) = "execute" => kind = "effect_intent"
           /\ OnError(p, kind) \in {"failed", "seal"}
BY DEF After, OnError, PCs, Creating, Publishing

\* Moving one process changes its label and nobody else's.
LEMMA GotoOK ==
    ASSUME TypeOK, NEW p \in Procs, NEW l \in PCs, Goto(p, l)
    PROVE  /\ pc' \in [Procs -> PCs]
           /\ pc'[p] = l
           /\ \A q \in Procs \ {p} : pc'[q] = pc[q]
BY DEF Goto, TypeOK

\* A finite journal has as many events, and as many reports, as some number.
LEMMA CountOK ==
    ASSUME IsFiniteSet(journal)
    PROVE  Cardinality(journal) \in Nat /\ VerifierRecords(journal) \in Nat
<1>1. OfKind(journal, "verifier_recorded") \subseteq journal
  BY DEF OfKind
<1> QED
  BY <1>1, FS_CardinalityType, FS_Subset DEF VerifierRecords

\* The six provider kinds by name.
LEMMA StepNames ==
    ProviderKinds = { "provider_request_intent", "provider_process_started",
                      "provider_output_retained",
                      "provider_capture_index_published",
                      "provider_capture_verified", "adapter_turn_normalized" }
<1>1. 1 .. 6 = {1, 2, 3, 4, 5, 6}
  OBVIOUS
<1> QED BY <1>1 DEF ProviderKinds, ProviderSteps

\* An event of a kind with a document of that kind is one of Events.
LEMMA EventOK ==
    ASSUME NEW kind \in Kinds, NEW n \in Nat, NEW doc \in DocumentsOf(kind)
    PROVE  Event(kind, n, doc) \in Events /\ Event(kind, n, doc).kind = kind
BY DEF Event, Events, DocumentsOf, Documents

\* What moving one process to a label asks of ProcOK.
LEMMA ProcMoves ==
    ASSUME TypeInv, NEW p \in Procs, NEW l \in PCs, Goto(p, l),
           UNCHANGED << pend, next >>,
           \A q \in Procs \ {p} : /\ authority'[q] = authority[q]
                                 /\ report'[q] = report[q]
                                 /\ record'[q] = record[q],
           l \in Creating => pc[p] \in Creating,
           l \in Acting => next[p] \in Effects,
           l = "intent" => authority'[p] \in Authorities,
           l = "report" => report'[p] \in Reports,
           l \in Publishing => record'[p] \in Records
    PROVE  \A q \in Procs : ProcOK(q)'
<1> SUFFICES ASSUME NEW q \in Procs PROVE ProcOK(q)'
  OBVIOUS
<1>1. ProcOK(q) /\ ProcOK(p)
  BY DEF TypeInv
<1>2. TypeOK
  BY DEF TypeInv
<1>3. CASE q = p
  BY <1>1, <1>2, <1>3, GotoOK DEF ProcOK
<1>4. CASE q # p
  BY <1>1, <1>2, <1>4, GotoOK DEF ProcOK
<1> QED BY <1>3, <1>4

\* Appending an event keeps the types.
LEMMA AppendType ==
    ASSUME TypeInv, NEW p \in Procs, NEW ev \in Events, AppendEvent(p, ev),
           ev.kind \in EffectKinds => next[p] \in Effects,
           UNCHANGED << disk, world, bound, turn, result >>
    PROVE  TypeInv'
<1>1. TypeOK /\ File(Cardinality(journal), ev) \in Files /\ File(Cardinality(journal), ev).ev = ev
  BY CountOK DEF TypeInv, TypeOK, File, Files
<1>2. CASE /\ pend' = [pend EXCEPT ![p] = File(Cardinality(journal), ev)]
           /\ Goto(p, "create")
  <2>1. "create" \in PCs
    BY DEF PCs
  <2>2. pend' \in [Procs -> Files \cup {NoFile}]
    BY <1>1, <1>2 DEF TypeOK
  <2>3. TypeOK'
    BY <1>1, <1>2, <2>1, <2>2, GotoOK
    DEF TypeOK, disk, world, bound, turn, result, evidence, terminalFiles
  <2>4. ASSUME NEW q \in Procs PROVE ProcOK(q)'
    <3>1. CASE q = p
      <4>1. pend'[q] = File(Cardinality(journal), ev) /\ pc'[q] = "create" /\ next' = next
        BY <1>1, <1>2, <2>1, <3>1, GotoOK DEF TypeOK, turn
      <4> QED
        BY <1>1, <3>1, <4>1 DEF ProcOK, Creating, Acting, Publishing
    <3>2. CASE q # p
      BY <1>1, <1>2, <2>1, <3>2, GotoOK DEF TypeInv, TypeOK, ProcOK, bound, turn, result
    <3> QED BY <3>1, <3>2
  <2> QED BY <2>3, <2>4 DEF TypeInv
<1>3. CASE UNCHANGED pend /\ Goto(p, OnError(p, ev.kind))
  <2>1. OnError(p, ev.kind) \in
            PCs \ (Creating \cup Acting \cup Publishing \cup {"intent", "report"})
    BY LabelsOK DEF PCs, Creating, Acting, Publishing
  <2>2. TypeOK'
    BY <1>1, <1>3, <2>1, GotoOK
    DEF TypeOK, disk, world, bound, turn, result, evidence, terminalFiles
  <2>3. \A q \in Procs : ProcOK(q)'
    BY <1>3, <2>1, ProcMoves DEF bound, turn, result
  <2> QED BY <2>2, <2>3 DEF TypeInv
<1> QED BY <1>2, <1>3 DEF AppendEvent

\* A step that only moves a process keeps the types.
LEMMA MoveType ==
    ASSUME TypeInv, NEW p \in Procs, NEW l \in PCs \ (Creating \cup Publishing \cup {"intent", "report"}),
           l \in Acting => next[p] \in Effects,
           Moving(p, l)
    PROVE  TypeInv'
<1>1. Goto(p, l) /\ UNCHANGED << pend, next, authority, report, record >>
  BY DEF Moving, bound, turn, result
<1>2. TypeOK'
  BY <1>1, GotoOK
    DEF Moving, TypeInv, TypeOK, disk, world, bound, turn, result, evidence, terminalFiles
<1>3. \A q \in Procs : ProcOK(q)'
  BY <1>1, ProcMoves
<1> QED BY <1>2, <1>3 DEF TypeInv

\* The types hold at the start.
LEMMA TypeInit ==
    ASSUME Init
    PROVE  TypeInv
<1>1. Effects \in SUBSET Nat /\ 1 \in 1 .. (NumEffects + 1)
  BY JournalAssumption DEF Effects
<1>2. /\ executed \in [Effects -> Nat]
      /\ next \in [Procs -> 1 .. (NumEffects + 1)]
      /\ snap \in [Procs -> [Effects -> EffectStates]]
  BY <1>1 DEF Init, EffectStates
<1>3. pc \in [Procs -> PCs] /\ mode \in [Procs -> Modes]
  BY DEF Init, PCs, Modes
<1>4. IsFiniteSet(journal)
  BY FS_EmptySet DEF Init
<1>5. TypeOK
  BY <1>2, <1>3, <1>4 DEF Init, TypeOK
<1>6. \A p \in Procs : ProcOK(p)
  BY DEF Init, ProcOK, Creating, Acting, Publishing
<1> QED BY <1>5, <1>6 DEF TypeInv

\* Starting run-live or recover-live keeps the types.
LEMMA StartType ==
    ASSUME TypeInv, NEW p \in Procs, StartLive(p) \/ StartRecover(p)
    PROVE  TypeInv'
<1> USE DEF disk, world, turn, result, evidence, terminalFiles
<1>1. CASE StartLive(p)
  <2>1. "intent" \in PCs \ (Creating \cup Acting \cup Publishing)
    BY DEF PCs, Creating, Acting, Publishing
  <2>2. PICK a \in Authorities : authority' = [authority EXCEPT ![p] = a]
    BY <1>1 DEF StartLive
  <2>3. TypeOK'
    BY <1>1, <2>1, <2>2, GotoOK DEF StartLive, TypeInv, TypeOK
  <2>4. \A q \in Procs : ProcOK(q)'
    BY <1>1, <2>1, <2>2, ProcMoves DEF StartLive, TypeInv, TypeOK
  <2> QED BY <2>3, <2>4 DEF TypeInv
<1>2. CASE StartRecover(p)
  <2>1. "restore" \in PCs \ (Creating \cup Acting \cup Publishing)
    BY DEF PCs, Creating, Acting, Publishing
  <2>2. PICK f \in OfKind(journal, "provider_request_intent") :
               authority' = [authority EXCEPT ![p] = f.ev.doc]
    BY <1>2 DEF StartRecover
  <2>3. f.ev.doc \in Authorities
    BY <2>2 DEF TypeInv, TypeOK, OfKind, Files, Events, DocumentsOf
  <2>4. /\ mode' \in [Procs -> Modes]
        /\ seen' \in [Procs -> SUBSET Files]
        /\ seenTerminals' \in [Procs -> SUBSET Records]
    BY <1>2 DEF StartRecover, TypeInv, TypeOK, Modes
  <2>5. TypeOK'
    BY <1>2, <2>1, <2>2, <2>3, <2>4, GotoOK DEF StartRecover, TypeInv, TypeOK
  <2>6. \A q \in Procs : ProcOK(q)'
    BY <1>2, <2>1, <2>2, <2>3, ProcMoves DEF StartRecover, Publishing, Creating, Acting, TypeInv, TypeOK
  <2> QED BY <2>5, <2>6 DEF TypeInv
<1> QED BY <1>1, <1>2

\* The actions that append an event.
LEMMA AppendersType ==
    ASSUME TypeInv, NEW p \in Procs,
           \/ RecordRequestIntent(p) \/ RecordProcessStarted(p)
           \/ RecordOutputRetained(p) \/ RecordCapturePublished(p)
           \/ RecordCaptureVerified(p) \/ RecordTurn(p)
           \/ AdmitEffect(p) \/ RecordCompletion(p) \/ BeginVerification(p)
           \/ RecordReport(p) \/ RecordTerminal(p) \/ Publish(p)
    PROVE  TypeInv'
<1>1. ProcOK(p) /\ TypeOK /\ 0 \in Nat /\ VerifierRecords(journal) \in Nat
  BY CountOK DEF TypeInv, TypeOK
<1>2. \A kind \in Kinds \ { "provider_request_intent", "verifier_recorded",
                            "terminal_published" } : NoDoc \in DocumentsOf(kind)
  BY DEF DocumentsOf
<1>3. ASSUME NEW kind \in ProviderKinds \ {"provider_request_intent"}, Recording(p, kind)
      PROVE  TypeInv'
  <2>1. /\ kind \in Kinds \ { "provider_request_intent", "verifier_recorded",
                             "terminal_published" }
        /\ kind \notin EffectKinds
    BY StepNames DEF Kinds, EffectKinds
  <2>2. Event(kind, 0, NoDoc) \in Events /\ Event(kind, 0, NoDoc).kind = kind
    BY <1>1, <1>2, <2>1, EventOK
  <2> QED BY <1>3, <2>1, <2>2, AppendType DEF Recording
<1>4. ASSUME NEW l \in {"gate", "verified", "plan", "decide", "failed", "seal", "verify"}, Moving(p, l)
      PROVE  TypeInv'
  BY <1>4, MoveType DEF PCs, Creating, Acting, Publishing
<1>5. /\ "provider_process_started" \in ProviderKinds \ {"provider_request_intent"}
      /\ "provider_output_retained" \in ProviderKinds \ {"provider_request_intent"}
      /\ "provider_capture_index_published" \in ProviderKinds \ {"provider_request_intent"}
      /\ "provider_capture_verified" \in ProviderKinds \ {"provider_request_intent"}
      /\ "adapter_turn_normalized" \in ProviderKinds \ {"provider_request_intent"}
  BY StepNames
<1>6. CASE RecordRequestIntent(p)
  <2>1. CASE Current(p)
    <3>1. Event("provider_request_intent", 0, authority[p]) \in Events
      BY <1>1, <1>6, EventOK, StepNames DEF RecordRequestIntent, ProcOK, Kinds, DocumentsOf
    <3> QED
      BY <1>6, <2>1, <3>1, AppendType DEF RecordRequestIntent, EffectKinds, Event
  <2>2. CASE ~Current(p)
    BY <1>4, <1>6, <2>2 DEF RecordRequestIntent, Moving
  <2> QED BY <2>1, <2>2
<1>7. CASE RecordProcessStarted(p)
  BY <1>3, <1>5, <1>7 DEF RecordProcessStarted
<1>8. CASE RecordOutputRetained(p)
  BY <1>3, <1>5, <1>8 DEF RecordOutputRetained
<1>9. CASE RecordCapturePublished(p)
  BY <1>3, <1>4, <1>5, <1>9 DEF RecordCapturePublished
<1>10. CASE RecordCaptureVerified(p)
  BY <1>3, <1>4, <1>5, <1>10 DEF RecordCaptureVerified
<1>11. CASE RecordTurn(p)
  BY <1>3, <1>4, <1>5, <1>11 DEF RecordTurn, After
<1>12. CASE AdmitEffect(p)
  <2>1. next[p] \in Effects /\ next[p] \in Nat
    BY <1>1, <1>12 DEF AdmitEffect, AtEffect, TypeOK
  <2>2. Event("effect_intent", next[p], NoDoc) \in Events
    BY <1>2, <2>1, EventOK DEF Kinds
  <2>3. CASE Current(p)
    BY <1>12, <2>1, <2>2, <2>3, AppendType DEF AdmitEffect
  <2>4. CASE ~Current(p)
    BY <1>4, <1>12, <2>4 DEF AdmitEffect, Moving
  <2> QED BY <2>3, <2>4
<1>13. CASE RecordCompletion(p)
  <2>1. next[p] \in Effects /\ next[p] \in Nat
    BY <1>1, <1>13 DEF RecordCompletion, TypeOK, ProcOK, Acting
  <2>2. Event("effect_completed", next[p], NoDoc) \in Events
    BY <1>2, <2>1, EventOK DEF Kinds
  <2> QED BY <1>13, <2>1, <2>2, AppendType DEF RecordCompletion
<1>14. CASE BeginVerification(p)
  <2>1. Event("verification_started", VerifierRecords(journal), NoDoc) \in Events
    BY <1>1, <1>2, EventOK DEF Kinds
  <2> QED
    BY <1>4, <1>14, <2>1, AppendType DEF BeginVerification, Moving, EffectKinds, Event
<1>15. CASE RecordReport(p)
  <2>1. Event("verifier_recorded", 0, report[p]) \in Events
    BY <1>1, <1>15, EventOK DEF RecordReport, ProcOK, Kinds, DocumentsOf
  <2> QED BY <1>15, <2>1, AppendType DEF RecordReport, EffectKinds, Event
<1>16. ASSUME pc[p] \in Publishing
       PROVE  /\ Event("terminal_published", 0, record[p]) \in Events
              /\ Event("terminal_published", 0, record[p]).kind \notin EffectKinds
  BY <1>1, <1>16, EventOK DEF ProcOK, Kinds, DocumentsOf, EffectKinds
<1>17. CASE RecordTerminal(p)
  BY <1>16, <1>17, AppendType DEF RecordTerminal, Publishing
<1>18. CASE Publish(p)
  <2> SUFFICES ASSUME ~AppendEvent(p, Event("terminal_published", 0, record[p]))
               PROVE  TypeInv'
    BY <1>16, <1>18, AppendType DEF Publish, Publishing
  <2>1. PICK l \in {"failed", "termfile", "done"} : Goto(p, l)
    BY <1>18 DEF Publish
  <2>2. UNCHANGED << disk, world, bound, pend, turn, result >>
    BY <1>18 DEF Publish
  <2>3. TypeOK'
    BY <1>1, <2>1, <2>2, GotoOK
    DEF PCs, TypeOK, disk, world, bound, turn, result, evidence, terminalFiles
  <2>4. record[p] \in Records
    BY <1>1, <1>18 DEF ProcOK, Publishing, Publish
  <2>5. \A q \in Procs : ProcOK(q)'
    BY <2>1, <2>2, <2>4, ProcMoves DEF PCs, Creating, Acting, bound, turn, result
  <2> QED BY <2>3, <2>5 DEF TypeInv
<1> QED
  BY <1>6, <1>7, <1>8, <1>9, <1>10, <1>11, <1>12, <1>13, <1>14, <1>15, <1>17, <1>18

\* The actions of the capture, and those that only read or judge.
LEMMA OthersType ==
    ASSUME TypeInv, NEW p \in Procs,
           \/ RunProvider(p) \/ StageCapture(p) \/ LinkCapture(p)
           \/ UnlinkStaged(p) \/ RestoreCapture(p) \/ GateCapture(p)
           \/ RejectTurn(p) \/ Decide(p) \/ Plan(p) \/ SkipCompleted(p)
           \/ StopOnUnknown(p) \/ EngineStops(p) \/ Execute(p) \/ Verify(p)
    PROVE  TypeInv'
<1> USE DEF disk, world, bound, turn, result, evidence, terminalFiles
<1>1. ProcOK(p) /\ TypeOK
  BY DEF TypeInv
<1>2. ASSUME NEW l \in {"stage", "retained", "unlink", "published", "link",
                        "failed", "turn", "plan", "engine", "seal"},
             Goto(p, l), UNCHANGED << pend, next, authority, report, record >>
      PROVE  \A q \in Procs : ProcOK(q)'
  BY <1>2, ProcMoves DEF PCs, Creating, Acting, Publishing
<1>3. ASSUME NEW l \in {"stage", "retained", "unlink", "published", "link",
                        "failed", "turn", "plan", "engine", "seal"}, Goto(p, l)
      PROVE  pc' \in [Procs -> PCs]
  BY <1>1, <1>3, GotoOK DEF PCs
<1>4. CASE RunProvider(p)
  <2>1. PICK l \in {"stage", "failed"} : Goto(p, l)
    BY <1>4 DEF RunProvider
  <2> QED BY <1>1, <1>2, <1>3, <1>4, <2>1 DEF RunProvider, TypeInv, TypeOK
<1>5. CASE StageCapture(p)
  <2>1. PICK l \in {"retained", "failed"} : Goto(p, l)
    BY <1>5 DEF StageCapture
  <2> QED BY <1>1, <1>2, <1>3, <1>5, <2>1 DEF StageCapture, Outputs, TypeInv, TypeOK
<1>6. CASE LinkCapture(p)
  <2>1. PICK l \in {"unlink", "failed"} : Goto(p, l)
    BY <1>6 DEF LinkCapture
  <2> QED BY <1>1, <1>2, <1>3, <1>6, <2>1 DEF LinkCapture, TypeInv, TypeOK
<1>7. CASE UnlinkStaged(p)
  <2>1. PICK l \in {"published", "failed"} : Goto(p, l)
    BY <1>7 DEF UnlinkStaged
  <2> QED BY <1>1, <1>2, <1>3, <1>7, <2>1 DEF UnlinkStaged, TypeInv, TypeOK
<1>8. CASE RestoreCapture(p)
  <2>1. PICK l \in {"failed", "link", "unlink", "published"} : Moving(p, l)
    BY <1>1, <1>8 DEF RestoreCapture, Repair, TypeOK
  <2> QED BY <2>1, MoveType DEF PCs, Creating, Acting, Publishing
<1>9. CASE GateCapture(p)
  <2>1. PICK l \in {"turn", "failed"} : Goto(p, l)
    BY <1>9 DEF GateCapture
  <2> QED BY <1>1, <1>2, <1>3, <1>9, <2>1 DEF GateCapture, TypeInv, TypeOK
<1>10. CASE RejectTurn(p)
  <2> QED BY <1>1, <1>2, <1>3, <1>10 DEF RejectTurn, TypeInv, TypeOK
<1>11. CASE Decide(p)
  <2>1. CASE \E l \in {"failed", "plan"} : Goto(p, l) /\ record' = record
    BY <1>1, <1>2, <1>3, <1>11, <2>1 DEF Decide, TypeInv, TypeOK
  <2>2. CASE /\ Goto(p, "publish")
             /\ \E r \in terminals : record' = [record EXCEPT ![p] = r]
    <3>1. "publish" \in PCs \ (Creating \cup Acting \cup {"intent", "report"})
      BY DEF PCs, Creating, Acting
    <3>2. PICK r \in Records : record' = [record EXCEPT ![p] = r]
      BY <1>1, <2>2 DEF TypeOK
    <3>3. \A q \in Procs : ProcOK(q)'
      BY <1>1, <1>11, <2>2, <3>1, <3>2, ProcMoves DEF Decide, TypeOK
    <3> QED
      BY <1>1, <1>11, <2>2, <3>1, <3>2, <3>3, GotoOK DEF Decide, TypeInv, TypeOK
  <2> QED BY <1>11, <2>1, <2>2 DEF Decide
<1>12. CASE Plan(p)
  <2>1. PICK l \in {"engine", "seal"} : Goto(p, l)
    BY <1>12 DEF Plan
  <2>2. snap' \in [Procs -> [Effects -> EffectStates]]
    <3>1. [e \in Effects |-> EffectState(journal, e)] \in [Effects -> EffectStates]
      BY DEF EffectState, EffectStates
    <3> QED BY <1>1, <1>12, <3>1 DEF Plan, TypeOK
  <2> QED BY <1>1, <1>2, <1>3, <1>12, <2>1, <2>2 DEF Plan, TypeInv, TypeOK
<1>13. CASE SkipCompleted(p)
  <2>1. next[p] + 1 \in 1 .. (NumEffects + 1) /\ next' = [next EXCEPT ![p] = @ + 1]
    BY <1>1, <1>13, JournalAssumption DEF SkipCompleted, AtEffect, Effects, TypeOK
  <2>2. TypeOK'
    BY <1>1, <1>13, <2>1 DEF SkipCompleted, TypeOK
  <2>3. \A q \in Procs : ProcOK(q)'
    BY <1>1, <1>13, <2>1 DEF SkipCompleted, AtEffect, TypeInv, TypeOK, ProcOK, Creating, Acting, Publishing
  <2> QED BY <2>2, <2>3 DEF TypeInv
<1>14. CASE StopOnUnknown(p) \/ EngineStops(p)
  BY <1>14, MoveType DEF StopOnUnknown, EngineStops, PCs, Creating, Acting, Publishing
<1>15. CASE Execute(p)
  <2>1. next[p] \in Effects
    BY <1>1, <1>15 DEF Execute, ProcOK, Acting
  <2>2. PICK l \in {"complete", "seal"} : Goto(p, l)
    BY <1>15 DEF Execute
  <2>3. executed' \in [Effects -> Nat]
    BY <1>1, <1>15 DEF Execute, TypeOK
  <2>4. l \in PCs \ (Creating \cup Publishing \cup {"intent", "report"})
    BY DEF PCs, Creating, Publishing
  <2>5. TypeOK'
    BY <1>1, <1>15, <2>2, <2>3, <2>4, GotoOK DEF Execute, TypeOK
  <2>6. \A q \in Procs : ProcOK(q)'
    BY <1>15, <2>1, <2>2, <2>4, ProcMoves DEF Execute
  <2> QED BY <2>5, <2>6 DEF TypeInv
<1>16. CASE Verify(p)
  <2>1. PICK r \in Reports : report' = [report EXCEPT ![p] = r]
    BY <1>16 DEF Verify
  <2>2. "report" \in PCs \ (Creating \cup Acting \cup Publishing \cup {"intent"})
    BY DEF PCs, Creating, Acting, Publishing
  <2>3. TypeOK'
    BY <1>1, <1>16, <2>1, <2>2, GotoOK DEF Verify, TypeOK
  <2>4. \A q \in Procs : ProcOK(q)'
    BY <1>1, <1>16, <2>1, <2>2, ProcMoves DEF Verify, TypeOK
  <2> QED BY <2>3, <2>4 DEF TypeInv
<1> QED
  BY <1>4, <1>5, <1>6, <1>7, <1>8, <1>9, <1>10, <1>11, <1>12, <1>13, <1>14, <1>15, <1>16

\* The actions that create and sync files, and those that seal the run.
LEMMA FilesType ==
    ASSUME TypeInv, NEW p \in Procs,
           \/ SealSuccess(p) \/ SealFailure(p) \/ CreateTerminal(p)
           \/ SyncTerminal(p) \/ CreateEvent(p) \/ SyncEvent(p)
    PROVE  TypeInv'
<1> USE DEF disk, world, bound, turn, result, evidence, terminalFiles
<1>1. ProcOK(p) /\ TypeOK
  BY DEF TypeInv
<1>2. ASSUME NEW l \in {"done", "failed"}, Goto(p, l),
             UNCHANGED << pend, next, authority, report, record >>
      PROVE  pc' \in [Procs -> PCs] /\ \A q \in Procs : ProcOK(q)'
  BY <1>1, <1>2, ProcMoves, GotoOK DEF PCs, Creating, Acting, Publishing
<1>3. ASSUME Compose(p), UNCHANGED << pend, next, authority, report >>
      PROVE  /\ pc' \in [Procs -> PCs]
             /\ record' \in [Procs -> Records \cup {NoDoc}]
             /\ \A q \in Procs : ProcOK(q)'
  <2>1. CASE report[p] = NoDoc
    BY <1>1, <1>2, <1>3, <2>1 DEF Compose, TypeOK
  <2>2. CASE report[p] # NoDoc
    <3>1. PICK r \in Records : record' = [record EXCEPT ![p] = r]
      BY <1>3, <2>2 DEF Compose
    <3>2. "publish" \in PCs \ (Creating \cup Acting \cup {"intent", "report"})
      BY DEF PCs, Creating, Acting
    <3>3. Goto(p, "publish")
      BY <1>3, <2>2 DEF Compose
    <3> QED
      BY <1>1, <1>3, <3>1, <3>2, <3>3, ProcMoves, GotoOK DEF TypeOK
  <2> QED BY <2>1, <2>2
<1>4. CASE SealSuccess(p)
  BY <1>1, <1>3, <1>4 DEF SealSuccess, TypeInv, TypeOK
<1>5. CASE SealFailure(p)
  <2>1. CASE captureTerminal
    BY <1>1, <1>2, <1>5, <2>1 DEF SealFailure, TypeInv, TypeOK
  <2>2. CASE ~captureTerminal
    BY <1>1, <1>3, <1>5, <2>2 DEF SealFailure, TypeInv, TypeOK
  <2> QED BY <2>1, <2>2
<1>6. ASSUME NEW l \in {"termsync", "termevent"}, Goto(p, l), pc[p] \in Publishing,
             UNCHANGED << pend, next, authority, report, record >>
      PROVE  pc' \in [Procs -> PCs] /\ \A q \in Procs : ProcOK(q)'
  BY <1>1, <1>6, ProcMoves, GotoOK DEF PCs, Creating, Acting, ProcOK
<1>7. CASE CreateTerminal(p)
  <2>1. tornTerminals' \subseteq Records
    BY <1>1, <1>7 DEF CreateTerminal, TypeOK, ProcOK, Publishing
  <2>2. pc' \in [Procs -> PCs] /\ \A q \in Procs : ProcOK(q)'
    BY <1>2, <1>6, <1>7 DEF CreateTerminal, Publishing
  <2> QED BY <1>1, <1>7, <2>1, <2>2 DEF CreateTerminal, TypeInv, TypeOK
<1>8. CASE SyncTerminal(p)
  <2>1. /\ terminals' \subseteq Records /\ tornTerminals' \subseteq Records
        /\ seenTerminals' \in [Procs -> SUBSET Records]
    BY <1>1, <1>8 DEF SyncTerminal, TypeOK, ProcOK, Publishing
  <2>2. pc' \in [Procs -> PCs] /\ \A q \in Procs : ProcOK(q)'
    BY <1>6, <1>8 DEF SyncTerminal, Publishing
  <2> QED BY <1>1, <1>8, <2>1, <2>2 DEF SyncTerminal, TypeInv, TypeOK
<1>9. CASE CreateEvent(p)
  <2>1. pend[p] \in Files
    BY <1>1, <1>9 DEF CreateEvent, ProcOK, Creating
  <2>2. torn' \subseteq Files
    BY <1>1, <1>9, <2>1 DEF CreateEvent, TypeOK
  <2>3. PICK l \in {"failed", "seal", "sync"} : Goto(p, l)
    BY <1>9, LabelsOK DEF CreateEvent
  <2>4. l \in PCs \ (Acting \cup Publishing \cup {"intent", "report"})
    BY DEF PCs, Acting, Publishing
  <2>5. \A q \in Procs : ProcOK(q)'
    BY <1>9, <2>3, <2>4, ProcMoves DEF CreateEvent, Creating
  <2> QED BY <1>1, <1>9, <2>2, <2>3, <2>4, <2>5, GotoOK DEF CreateEvent, TypeInv, TypeOK
<1>10. CASE SyncEvent(p)
  <2> DEFINE kind == pend[p].ev.kind
  <2>1. pend[p] \in Files /\ (kind \in EffectKinds => next[p] \in Effects)
    BY <1>1, <1>10 DEF SyncEvent, ProcOK, Creating
  <2>2. journal' \subseteq Files /\ torn' \subseteq Files /\ IsFiniteSet(journal')
    BY <1>1, <1>10, <2>1, FS_AddElement DEF SyncEvent, TypeOK
  <2>3. seen' \in [Procs -> SUBSET Files]
    BY <1>1, <1>10, <2>1 DEF SyncEvent, TypeOK
  <2>4. Advance(p, kind) \in 1 .. (NumEffects + 1)
    BY <1>1, <2>1, JournalAssumption DEF Advance, TypeOK, Effects, EffectKinds
  <2>5. next' \in [Procs -> 1 .. (NumEffects + 1)]
    BY <1>1, <1>10, <2>4 DEF SyncEvent, TypeOK
  <2>6. passed' \in [Procs -> BOOLEAN]
    <3>1. Verdict(p, kind) \in BOOLEAN
      BY <1>1 DEF Verdict, TypeOK
    <3> QED BY <1>1, <1>10, <3>1 DEF SyncEvent, TypeOK
  <2> DEFINE l == After(p, kind)
  <2>7. /\ l \in PCs \ (Creating \cup Publishing \cup {"complete", "intent", "report"})
        /\ l = "execute" => kind = "effect_intent"
    BY LabelsOK DEF After
  <2>8. Goto(p, l)
    BY <1>10 DEF SyncEvent
  <2> HIDE DEF l
  <2>9. ASSUME NEW q \in Procs PROVE ProcOK(q)'
    <3>1. CASE q = p
      <4>1. pc'[p] = l
        BY <1>1, <2>7, <2>8, GotoOK
      <4>2. l = "execute" => next'[p] = next[p] /\ next[p] \in Effects
        BY <1>1, <1>10, <2>1, <2>7 DEF SyncEvent, Advance, EffectKinds, TypeOK
      <4> QED BY <2>7, <3>1, <4>1, <4>2 DEF ProcOK, Acting
    <3>2. CASE q # p
      <4>1. pc'[q] = pc[q] /\ next'[q] = next[q]
        BY <1>1, <1>10, <2>7, <2>8, <3>2, GotoOK DEF SyncEvent, TypeOK
      <4> QED BY <1>10, <4>1 DEF SyncEvent, TypeInv, ProcOK
    <3> QED BY <3>1, <3>2
  <2>10. pc' \in [Procs -> PCs]
    BY <1>1, <2>7, <2>8, GotoOK
  <2> QED
    BY <1>1, <1>10, <2>2, <2>3, <2>5, <2>6, <2>9, <2>10 DEF SyncEvent, TypeInv, TypeOK
<1> QED BY <1>4, <1>5, <1>7, <1>8, <1>9, <1>10

\* The world moves no process but to its end.
LEMMA CrashType ==
    ASSUME TypeInv, NEW p \in Procs, Crash(p) \/ IoFails(p)
    PROVE  TypeInv'
<1>1. CASE Crash(p)
  BY <1>1, MoveType DEF Crash, PCs, Creating, Acting, Publishing
<1>2. CASE IoFails(p)
  <2>1. PICK l \in {"failed", "seal"} : Moving(p, l)
    BY <1>2, LabelsOK DEF IoFails
  <2> QED BY <2>1, MoveType DEF PCs, Creating, Acting, Publishing
<1> QED BY <1>1, <1>2

\* An expiring authority and a stutter keep the types.
LEMMA WorldType ==
    ASSUME TypeInv, (\E a \in Authorities : Expire(a)) \/ UNCHANGED vars
    PROVE  TypeInv'
BY DEF Expire, vars, procs, disk, world, bound, turn, result, evidence,
   terminalFiles, TypeInv, TypeOK, ProcOK

\* Every step of the specification keeps the types.
LEMMA TypeStep ==
    ASSUME TypeInv, [Next]_vars
    PROVE  TypeInv'
<1>1. CASE \E p \in Procs : StartLive(p) \/ StartRecover(p)
  BY <1>1, StartType
<1>2. CASE \E p \in Procs : Step(p)
  BY <1>2, AppendersType, OthersType, FilesType DEF Step
<1>3. CASE \E p \in Procs : Crash(p) \/ IoFails(p)
  BY <1>3, CrashType
<1>4. CASE (\E a \in Authorities : Expire(a)) \/ UNCHANGED vars
  BY <1>4, WorldType
<1> QED
  BY <1>1, <1>2, <1>3, <1>4 DEF Next, Finished

\* TypeOK and what it rests on hold in every reachable state.
LEMMA TypeInvariant == Spec => []TypeInv
<1>1. Init => TypeInv
  BY TypeInit
<1>2. TypeInv /\ [Next]_vars => TypeInv'
  BY TypeStep
<1> QED BY <1>1, <1>2, PTL DEF Spec

\* Every variable keeps its type, whatever the instance: the capture store, the
\* journal and the processes of live.rs and live_recover.rs never leave the
\* labels and documents the model gives them.
THEOREM TypeCorrect == Spec => []TypeOK
<1>1. TypeInv => TypeOK
  BY DEF TypeInv
<1> QED BY <1>1, TypeInvariant, PTL

-----------------------------------------------------------------------------
(* Slots: what the number of an event tells.                               *)

\* The one file that can announce the i-th provider step, i > 1 ...
StepFile(i) == File(i - 1, Event(ProviderSteps[i], 0, NoDoc))

StartedFile == StepFile(2)

TurnFile == StepFile(6)

\* ... and the ones that can claim and complete effect e.
IntentFile(e) == File(4 + 2 * e, Event("effect_intent", e, NoDoc))

CompletedFile(e) == File(5 + 2 * e, Event("effect_completed", e, NoDoc))

TailKinds == {"verification_started", "verifier_recorded", "terminal_published"}

\* Where an event file can be: every provider step and every effect event has
\* one slot, the events of the verification come after all of them.
InPlace(f) ==
    /\ f.ev.kind = "provider_request_intent" => f.seq = 0
    /\ \A i \in 2 .. 6 : f.ev.kind = ProviderSteps[i] => f = StepFile(i)
    /\ f.ev.kind = "effect_intent" =>
          f.ev.n \in Effects /\ f = IntentFile(f.ev.n)
    /\ f.ev.kind = "effect_completed" =>
          f.ev.n \in Effects /\ f = CompletedFile(f.ev.n)
    /\ f.ev.kind \in TailKinds => f.seq >= 6 + 2 * NumEffects

\* The labels of a process that holds the normalized turn.
InTurn == {"decide", "plan", "engine", "execute", "complete", "verify", "report"}

TurnKinds == EffectKinds \cup {"verification_started", "verifier_recorded"}

HoldsTurn(p) ==
    \/ pc[p] \in InTurn
    \/ pc[p] \in Creating /\ pend[p].ev.kind \in TurnKinds

Judging(p) ==
    \/ pc[p] \in {"verify", "report"}
    \/ /\ pc[p] \in Creating
       /\ pend[p].ev.kind \in {"verification_started", "verifier_recorded"}

\* The files of the journal, written or not, are in place.
PlaceInv ==
    /\ \A f \in journal \cup torn : InPlace(f)
    /\ journal \cap torn = {}

\* What a process knows of the journal.
KnownInv ==
    \A p \in Procs :
        /\ pc[p] \in Creating => InPlace(pend[p])
        /\ HoldsTurn(p) => TurnFile \in journal
        /\ \A e \in Effects :
              /\ e < next[p] => CompletedFile(e) \in journal
              /\ snap[p][e] = "completed" => CompletedFile(e) \in journal
        /\ Judging(p) => next[p] = NumEffects + 1

\* A file being written is torn, and has one writer.
WriterInv ==
    /\ \A p \in Procs : pc[p] = "sync" => pend[p] \in torn
    /\ \A p, q \in Procs :
          pc[p] = "sync" /\ pc[q] = "sync" /\ pend[p] = pend[q] => p = q

\* An effect is performed only by the one process that created its intent, and
\* only once; a completion file tells the truth.
EffectInv ==
    /\ \A e \in Effects :
          /\ executed[e] <= 1
          /\ executed[e] > 0 => IntentFile(e) \in journal
          /\ CompletedFile(e) \in journal \cup torn => executed[e] > 0
    /\ \A p \in Procs :
          /\ pc[p] = "execute" =>
                IntentFile(next[p]) \in journal /\ executed[next[p]] = 0
          /\ pc[p] = "complete" => executed[next[p]] > 0
          /\ pc[p] \in Creating /\ pend[p].ev.kind \in EffectKinds =>
                pend[p].ev.n = next[p]
          /\ pc[p] \in Creating /\ pend[p].ev.kind = "effect_completed" =>
                executed[next[p]] > 0
    /\ \A p, q \in Procs :
          pc[p] = "execute" /\ pc[q] = "execute" /\ next[p] = next[q] => p = q

\* Likewise for the provider process.
ProviderInv ==
    /\ providerRuns <= 1
    /\ providerRuns > 0 => StartedFile \in journal
    /\ \A p \in Procs :
          pc[p] = "provider" => StartedFile \in journal /\ providerRuns = 0
    /\ \A p, q \in Procs : pc[p] = "provider" /\ pc[q] = "provider" => p = q

SafeInv == PlaceInv /\ KnownInv /\ WriterInv /\ EffectInv /\ ProviderInv

-----------------------------------------------------------------------------
(* Counting slots: the next sequence number is the first that nobody holds. *)

\* In a contiguous journal every number below its size is taken and no other.
LEMMA NextNumber ==
    ASSUME TypeOK, Contiguous(journal)
    PROVE  /\ Cardinality(journal) \in Nat
           /\ \A f \in journal : f.seq \in Nat /\ f.seq < Cardinality(journal)
           /\ \A k \in Nat : k < Cardinality(journal) =>
                 \E f \in journal : f.seq = k
<1>1. Cardinality(journal) \in Nat /\ journal \subseteq Files
  BY FS_CardinalityType DEF TypeOK
<1>2. {f.seq : f \in journal} = 0 .. (Cardinality(journal) - 1)
  BY DEF Contiguous
<1>3. \A f \in journal : f.seq \in 0 .. (Cardinality(journal) - 1)
  BY <1>2
<1>4. \A k \in 0 .. (Cardinality(journal) - 1) : \E f \in journal : f.seq = k
  BY <1>2
<1> QED BY <1>1, <1>3, <1>4

\* The number of a file in place tells its kind.
LEMMA SlotHolder ==
    ASSUME NEW f \in Files, InPlace(f)
    PROVE  \/ \E i \in 1 .. 6 : f.ev.kind = ProviderSteps[i] /\ f.seq = i - 1
           \/ /\ f.ev.kind = "effect_intent"
              /\ f.ev.n \in Effects /\ f.seq = 4 + 2 * f.ev.n
           \/ /\ f.ev.kind = "effect_completed"
              /\ f.ev.n \in Effects /\ f.seq = 5 + 2 * f.ev.n
           \/ f.ev.kind \in TailKinds /\ f.seq >= 6 + 2 * NumEffects
<1>1. f.ev.kind \in Kinds
  BY DEF Files, Events
<1>2. CASE \E i \in 1 .. 6 : f.ev.kind = ProviderSteps[i]
  <2>1. PICK i \in 1 .. 6 : f.ev.kind = ProviderSteps[i]
    BY <1>2
  <2>2. CASE i = 1
    BY <2>1, <2>2 DEF InPlace, ProviderSteps
  <2>3. CASE i \in 2 .. 6
    BY <2>1, <2>3 DEF InPlace, StepFile, File
  <2> QED BY <2>2, <2>3
<1>3. CASE f.ev.kind = "effect_intent"
  BY <1>3 DEF InPlace, IntentFile, File
<1>4. CASE f.ev.kind = "effect_completed"
  BY <1>4 DEF InPlace, CompletedFile, File
<1>5. CASE f.ev.kind \in TailKinds
  BY <1>5 DEF InPlace
<1> QED BY <1>1, <1>2, <1>3, <1>4, <1>5 DEF Kinds, ProviderKinds, TailKinds

\* After i - 1 provider events the next sequence number is i - 1.
LEMMA StepPlace ==
    ASSUME TypeOK, PlaceInv, Contiguous(journal),
           NEW i \in 1 .. 6, ReachedProvider(journal, i - 1)
    PROVE  Cardinality(journal) = i - 1
<1> DEFINE n == Cardinality(journal)
<1>1. n \in Nat
  BY NextNumber
<1>2. \A f \in journal : f \in Files /\ InPlace(f)
  BY DEF TypeOK, PlaceInv
<1>3. n >= i - 1
  <2>1. CASE i = 1
    BY <1>1, <2>1
  <2>2. CASE i \in 2 .. 6
    <3>1. Has(journal, ProviderSteps[i - 1])
      BY <2>2 DEF ReachedProvider
    <3>2. PICK f \in journal : f.ev.kind = ProviderSteps[i - 1]
      BY <3>1 DEF Has, OfKind
    <3>3. f.seq = i - 2
      BY <1>2, <2>2, <3>2, SlotHolder DEF ProviderSteps, TailKinds
    <3> QED BY <1>1, <2>2, <3>3, NextNumber
  <2> QED BY <2>1, <2>2
<1>4. n <= i - 1
  <2> SUFFICES ASSUME NEW f \in journal, f.seq = i - 1 PROVE FALSE
    BY <1>1, NextNumber
  <2>1. CASE \E j \in 1 .. 6 : f.ev.kind = ProviderSteps[j] /\ f.seq = j - 1
    <3>1. Has(journal, ProviderSteps[i])
      BY <2>1 DEF Has, OfKind
    <3> QED BY <3>1 DEF ReachedProvider
  <2>2. CASE f.seq >= 6
    BY <2>2
  <2> QED
    BY <1>2, <2>1, <2>2, SlotHolder, JournalAssumption DEF Effects
<1> QED BY <1>1, <1>3, <1>4

\* An effect is a number of the turn.
LEMMA EffectNumbers ==
    ASSUME NEW e \in Effects
    PROVE  e \in Nat /\ 1 <= e /\ e <= NumEffects /\ NumEffects \in Nat
BY JournalAssumption DEF Effects

\* An intent and a completion never share a slot.
LEMMA Parity == \A a, b \in Nat : 4 + 2 * a # 5 + 2 * b
OBVIOUS

\* The slots of an effect's intent and completion hold nothing else.
LEMMA EffectSlot ==
    ASSUME NEW f \in Files, InPlace(f), NEW e \in Effects,
           f.seq = 4 + 2 * e \/ f.seq = 5 + 2 * e
    PROVE  /\ f.seq = 4 + 2 * e => f.ev.kind = "effect_intent" /\ f.ev.n = e
           /\ f.seq = 5 + 2 * e => f.ev.kind = "effect_completed" /\ f.ev.n = e
<1>1. e \in Nat /\ 1 <= e /\ e <= NumEffects /\ NumEffects \in Nat
  BY EffectNumbers
<1>2. CASE f.ev.kind = "effect_intent" /\ f.ev.n \in Effects /\ f.seq = 4 + 2 * f.ev.n
  <2>1. f.ev.n \in Nat
    BY <1>2, EffectNumbers
  <2>2. f.seq # 5 + 2 * e
    BY <1>1, <1>2, <2>1, Parity
  <2> QED BY <1>1, <1>2, <2>1, <2>2
<1>3. CASE f.ev.kind = "effect_completed" /\ f.ev.n \in Effects /\ f.seq = 5 + 2 * f.ev.n
  <2>1. f.ev.n \in Nat
    BY <1>3, EffectNumbers
  <2>2. f.seq # 4 + 2 * e
    BY <1>1, <1>3, <2>1, Parity
  <2> QED BY <1>1, <1>3, <2>1, <2>2
<1>4. CASE f.seq >= 6 + 2 * NumEffects
  BY <1>1, <1>4
<1>5. CASE \E i \in 1 .. 6 : f.seq = i - 1
  BY <1>1, <1>5
<1> QED BY <1>2, <1>3, <1>4, <1>5, SlotHolder

\* An effect intent the lifecycle admits goes to its own slot.
LEMMA IntentPlace ==
    ASSUME TypeOK, PlaceInv, Contiguous(journal), NEW e \in Effects,
           e \notin Intended(journal), TurnFile \in journal,
           \A d \in Effects : d < e => CompletedFile(d) \in journal
    PROVE  Cardinality(journal) = 4 + 2 * e
<1> DEFINE n == Cardinality(journal)
<1>1. n \in Nat /\ e \in Nat /\ 1 <= e /\ e <= NumEffects /\ NumEffects \in Nat
  BY NextNumber, EffectNumbers
<1>2. n >= 4 + 2 * e
  <2>1. CASE e = 1
    <3>1. TurnFile.seq = 5
      BY DEF TurnFile, StepFile, File
    <3> QED BY <1>1, <2>1, <3>1, NextNumber
  <2>2. CASE e > 1
    <3>1. e - 1 \in Effects /\ e - 1 < e
      BY <1>1, <2>2 DEF Effects
    <3>2. CompletedFile(e - 1) \in journal
      BY <3>1
    <3>3. CompletedFile(e - 1).seq = 3 + 2 * e
      BY <1>1 DEF CompletedFile, File
    <3>4. 3 + 2 * e < n
      BY <3>2, <3>3, NextNumber
    <3> QED BY <1>1, <3>4
  <2> QED BY <1>1, <2>1, <2>2
<1>3. n <= 4 + 2 * e
  <2> SUFFICES ASSUME NEW f \in journal, f.seq = 4 + 2 * e PROVE FALSE
    BY <1>1, NextNumber
  <2>1. f \in Files /\ InPlace(f)
    BY DEF TypeOK, PlaceInv
  <2>2. f.ev.kind = "effect_intent" /\ f.ev.n = e
    BY <2>1, EffectSlot
  <2> QED BY <2>2 DEF Intended, OfKind
<1> QED BY <1>1, <1>2, <1>3

\* So does the completion that follows the intent.
LEMMA CompletedPlace ==
    ASSUME TypeOK, PlaceInv, Contiguous(journal), NEW e \in Effects,
           e \notin Completed(journal), IntentFile(e) \in journal
    PROVE  Cardinality(journal) = 5 + 2 * e
<1> DEFINE n == Cardinality(journal)
<1>1. n \in Nat /\ e \in Nat /\ 1 <= e /\ e <= NumEffects /\ NumEffects \in Nat
  BY NextNumber, EffectNumbers
<1>2. n >= 5 + 2 * e
  <2>1. IntentFile(e).seq = 4 + 2 * e
    BY DEF IntentFile, File
  <2>2. 4 + 2 * e < n
    BY <2>1, NextNumber
  <2> QED BY <1>1, <2>2
<1>3. n <= 5 + 2 * e
  <2> SUFFICES ASSUME NEW f \in journal, f.seq = 5 + 2 * e PROVE FALSE
    BY <1>1, NextNumber
  <2>1. f \in Files /\ InPlace(f)
    BY DEF TypeOK, PlaceInv
  <2>2. f.ev.kind = "effect_completed" /\ f.ev.n = e
    BY <2>1, EffectSlot
  <2> QED BY <2>2 DEF Completed, OfKind
<1> QED BY <1>1, <1>2, <1>3

\* Behind the last effect of the turn, or behind an event of the verification.
LEMMA TailPlace ==
    ASSUME TypeOK, PlaceInv, Contiguous(journal),
           \/ /\ TurnFile \in journal
              /\ \A d \in Effects : CompletedFile(d) \in journal
           \/ \E f \in journal : f.ev.kind \in TailKinds
    PROVE  Cardinality(journal) >= 6 + 2 * NumEffects
<1>1. Cardinality(journal) \in Nat /\ NumEffects \in Nat
  BY NextNumber, JournalAssumption
<1>2. CASE NumEffects = 0 /\ TurnFile \in journal
  <2>1. TurnFile.seq = 5
    BY DEF TurnFile, StepFile, File
  <2> QED BY <1>1, <1>2, <2>1, NextNumber
<1>3. CASE NumEffects > 0 /\ \A d \in Effects : CompletedFile(d) \in journal
  <2>1. CompletedFile(NumEffects) \in journal
    BY <1>1, <1>3 DEF Effects
  <2>2. CompletedFile(NumEffects).seq = 5 + 2 * NumEffects
    BY DEF CompletedFile, File
  <2>3. 5 + 2 * NumEffects < Cardinality(journal)
    BY <2>1, <2>2, NextNumber
  <2> QED BY <1>1, <2>3
<1>4. CASE \E f \in journal : f.ev.kind \in TailKinds
  <2>1. PICK f \in journal : f.ev.kind \in TailKinds
    BY <1>4
  <2>2. f.seq >= 6 + 2 * NumEffects
    BY <2>1 DEF PlaceInv, InPlace
  <2> QED BY <1>1, <2>2, NextNumber
<1> QED BY <1>1, <1>2, <1>3, <1>4

-----------------------------------------------------------------------------
(* What a process must know before it appends an event.                     *)

Proper(p, ev) ==
    /\ ev.kind \in ProviderKinds \ {"provider_request_intent"} =>
          ev = Event(ev.kind, 0, NoDoc)
    /\ ev.kind \in TurnKinds => TurnFile \in journal
    /\ ev.kind \in EffectKinds =>
          next[p] \in Effects /\ ev = Event(ev.kind, next[p], NoDoc)
    /\ ev.kind = "effect_completed" => executed[next[p]] > 0
    /\ ev.kind \in {"verification_started", "verifier_recorded"} =>
          next[p] = NumEffects + 1

\* Whatever admitted event a process may append, it goes to its place.
LEMMA AppendPlace ==
    ASSUME TypeOK, SafeInv, NEW p \in Procs, NEW ev \in Events, Proper(p, ev),
           Contiguous(journal), Admits(journal, ev)
    PROVE  InPlace(File(Cardinality(journal), ev))
<1> DEFINE n == Cardinality(journal)
           f == File(n, ev)
<1>1. f.seq = n /\ f.ev = ev /\ ev.kind \in Kinds
  BY DEF File, Events
<1>2. CASE ev.kind \in ProviderKinds
  <2>1. PICK i \in 1 .. 6 : ev.kind = ProviderSteps[i] /\ ReachedProvider(journal, i - 1)
    BY <1>2, StepNames DEF Admits, AdmitsProvider, AdmitsEffect, AdmitsVerification
  <2>2. n = i - 1
    BY <2>1, StepPlace DEF SafeInv
  <2>3. CASE i = 1
    BY <1>1, <2>1, <2>2, <2>3 DEF InPlace, ProviderSteps, TailKinds
  <2>4. CASE i \in 2 .. 6
    <3>1. ev = Event(ProviderSteps[i], 0, NoDoc)
      BY <1>2, <2>1, <2>4 DEF Proper, ProviderSteps
    <3>2. f = StepFile(i)
      BY <2>2, <3>1 DEF StepFile
    <3>3. \A j \in 1 .. 6 : ProviderSteps[j] = ProviderSteps[i] => j = i
      BY <2>4 DEF ProviderSteps
    <3>4. ProviderSteps[i] \notin EffectKinds \cup TailKinds
      BY <2>4 DEF ProviderSteps, EffectKinds, TailKinds
    <3>5. ProviderSteps[i] # "provider_request_intent"
      BY <2>4 DEF ProviderSteps
    <3> QED
      BY <1>1, <2>1, <2>4, <3>2, <3>3, <3>4, <3>5 DEF InPlace, EffectKinds
  <2> QED BY <2>3, <2>4
<1>3. CASE ev.kind = "effect_intent"
  <2>1. next[p] \in Effects /\ ev = Event("effect_intent", next[p], NoDoc) /\ ev.n = next[p]
    BY <1>3 DEF Proper, EffectKinds, Event
  <2>2. next[p] \notin Intended(journal)
    BY <1>3, <2>1, StepNames DEF Admits, AdmitsProvider, AdmitsEffect, AdmitsVerification,
      ProviderKinds
  <2>3. TurnFile \in journal /\ \A d \in Effects : d < next[p] => CompletedFile(d) \in journal
    BY <1>3 DEF Proper, TurnKinds, EffectKinds, SafeInv, KnownInv
  <2>4. n = 4 + 2 * next[p]
    BY <2>1, <2>2, <2>3, IntentPlace DEF SafeInv
  <2>5. f = IntentFile(next[p])
    BY <2>1, <2>4 DEF IntentFile
  <2> QED
    BY <1>1, <1>3, <2>1, <2>5 DEF InPlace, ProviderSteps, TailKinds
<1>4. CASE ev.kind = "effect_completed"
  <2>1. next[p] \in Effects /\ ev = Event("effect_completed", next[p], NoDoc) /\ ev.n = next[p]
    BY <1>4 DEF Proper, EffectKinds, Event
  <2>2. next[p] \notin Completed(journal)
    BY <1>4, <2>1, StepNames DEF Admits, AdmitsProvider, AdmitsEffect, AdmitsVerification,
      ProviderKinds
  <2>3. IntentFile(next[p]) \in journal
    BY <1>4, <2>1 DEF Proper, SafeInv, EffectInv
  <2>4. n = 5 + 2 * next[p]
    BY <2>1, <2>2, <2>3, CompletedPlace DEF SafeInv
  <2>5. f = CompletedFile(next[p])
    BY <2>1, <2>4 DEF CompletedFile
  <2> QED
    BY <1>1, <1>4, <2>1, <2>5 DEF InPlace, ProviderSteps, TailKinds
<1>5. CASE ev.kind \in TailKinds
  <2>1. CASE ev.kind = "verification_started"
    <3>1. TurnFile \in journal /\ next[p] = NumEffects + 1
      BY <2>1 DEF Proper, TurnKinds
    <3>2. \A d \in Effects : CompletedFile(d) \in journal
      BY <3>1, EffectNumbers DEF SafeInv, KnownInv
    <3> QED
      BY <1>1, <1>5, <2>1, <3>1, <3>2, TailPlace DEF InPlace, ProviderSteps, SafeInv
  <2>2. CASE ev.kind # "verification_started"
    <3>1. VerificationOpen(journal) \/ VerificationComplete(journal)
      BY <1>5, <2>2, StepNames DEF TailKinds, Admits, AdmitsProvider, AdmitsEffect,
        AdmitsVerification, ProviderKinds
    <3>2. OfKind(journal, "verification_started") # {} \/ OfKind(journal, "verifier_recorded") # {}
      <4>1. VerifierRecords(journal) \in Nat /\ Cardinality({}) = 0
        BY CountOK, FS_EmptySet DEF TypeOK
      <4>2. CASE VerificationOpen(journal)
        BY <4>1, <4>2 DEF VerificationOpen
      <4>3. CASE VerificationComplete(journal)
        BY <4>1, <4>3 DEF VerificationComplete, VerifierRecords
      <4> QED BY <3>1, <4>2, <4>3
    <3>3. \E g \in journal : g.ev.kind \in TailKinds
      BY <3>2 DEF OfKind, TailKinds
    <3> QED
      BY <1>1, <1>5, <2>2, <3>3, TailPlace DEF InPlace, ProviderSteps, SafeInv, TailKinds
  <2> QED BY <2>1, <2>2
<1> QED
  BY <1>1, <1>2, <1>3, <1>4, <1>5 DEF Kinds, TailKinds

-----------------------------------------------------------------------------
(* Steps that leave the journal, the world and the turn alone.              *)

still == << journal, torn, executed, providerRuns, next, snap >>

\* Moving a process to a label whose conditions hold keeps the invariant.
LEMMA MoveSafe ==
    ASSUME TypeOK, SafeInv, NEW p \in Procs,
           NEW l \in PCs \ (Creating \cup {"execute", "provider"}),
           Goto(p, l), UNCHANGED << still, pend >>,
           l \in InTurn => TurnFile \in journal,
           l \in {"verify", "report"} => next[p] = NumEffects + 1,
           l = "complete" => executed[next[p]] > 0
    PROVE  SafeInv'
<1> USE DEF still
<1>1. /\ pc'[p] = l
      /\ \A q \in Procs \ {p} : pc'[q] = pc[q]
  BY GotoOK
<1>2. PlaceInv'
  BY DEF SafeInv, PlaceInv, InPlace, StepFile, IntentFile, CompletedFile
<1>3. KnownInv'
  <2> SUFFICES ASSUME NEW q \in Procs
               PROVE  /\ pc'[q] \in Creating => InPlace(pend[q])
                      /\ HoldsTurn(q)' => TurnFile \in journal
                      /\ Judging(q)' => next[q] = NumEffects + 1
    BY DEF SafeInv, KnownInv, InPlace, TurnFile, StepFile, CompletedFile, IntentFile
  <2>1. CASE q = p
    BY <1>1, <2>1 DEF HoldsTurn, Judging, Creating
  <2>2. CASE q # p
    BY <1>1, <2>2 DEF SafeInv, KnownInv, HoldsTurn, Judging
  <2> QED BY <2>1, <2>2
<1>4. WriterInv'
  BY <1>1 DEF SafeInv, WriterInv, Creating
<1>5. EffectInv'
  BY <1>1 DEF SafeInv, EffectInv, IntentFile, CompletedFile, Creating
<1>6. ProviderInv'
  BY <1>1 DEF SafeInv, ProviderInv, StartedFile, StepFile
<1> QED BY <1>2, <1>3, <1>4, <1>5, <1>6 DEF SafeInv

\* Appending a proper event keeps it too: the file goes to its own place.
LEMMA AppendSafe ==
    ASSUME TypeOK, SafeInv, NEW p \in Procs, NEW ev \in Events, Proper(p, ev),
           AppendEvent(p, ev), UNCHANGED still
    PROVE  SafeInv'
<1> USE DEF still
<1> DEFINE f == File(Cardinality(journal), ev)
<1>1. CASE UNCHANGED pend /\ Goto(p, OnError(p, ev.kind))
  <2>1. OnError(p, ev.kind) \in PCs \ (Creating \cup InTurn \cup {"provider"})
    BY LabelsOK DEF PCs, Creating, InTurn
  <2> QED
    BY <1>1, <2>1, MoveSafe DEF InTurn
<1>2. CASE /\ Readable(p) /\ Admits(journal, ev)
           /\ pend' = [pend EXCEPT ![p] = f] /\ Goto(p, "create")
  <2>1. InPlace(f)
    BY <1>2, AppendPlace DEF Readable, Lawful
  <2>2. f.ev = ev
    BY DEF File
  <2> HIDE DEF f
  <2>3. /\ pc'[p] = "create" /\ pend'[p] = f
        /\ \A q \in Procs \ {p} : pc'[q] = pc[q] /\ pend'[q] = pend[q]
    BY <1>2, GotoOK DEF TypeOK, PCs
  <2>4. PlaceInv'
    BY DEF SafeInv, PlaceInv, InPlace, StepFile, IntentFile, CompletedFile
  <2>5. KnownInv'
    <3> SUFFICES ASSUME NEW q \in Procs
                 PROVE  /\ pc'[q] \in Creating => InPlace(pend'[q])
                        /\ HoldsTurn(q)' => TurnFile \in journal
                        /\ Judging(q)' => next[q] = NumEffects + 1
      BY DEF SafeInv, KnownInv, InPlace, TurnFile, StepFile, CompletedFile, IntentFile
    <3>1. CASE q = p
      BY <2>1, <2>2, <2>3, <3>1 DEF HoldsTurn, Judging, Proper, InTurn
    <3>2. CASE q # p
      BY <2>3, <3>2 DEF SafeInv, KnownInv, HoldsTurn, Judging
    <3> QED BY <3>1, <3>2
  <2>6. WriterInv'
    BY <2>3 DEF SafeInv, WriterInv
  <2>7. EffectInv'
    <3>1. ev.kind \in EffectKinds => ev.n = next[p]
      BY DEF Proper, Event
    <3> QED
      BY <2>2, <2>3, <3>1 DEF SafeInv, EffectInv, IntentFile, CompletedFile, Proper
  <2>8. ProviderInv'
    BY <2>3 DEF SafeInv, ProviderInv, StartedFile, StepFile
  <2> QED BY <2>4, <2>5, <2>6, <2>7, <2>8 DEF SafeInv
<1> QED BY <1>1, <1>2 DEF AppendEvent

\* A recorded turn is TurnFile.
LEMMA TurnSeen ==
    ASSUME PlaceInv, Has(journal, "adapter_turn_normalized")
    PROVE  TurnFile \in journal
<1>1. PICK f \in journal : f.ev.kind = ProviderSteps[6]
  BY DEF Has, OfKind, ProviderSteps
<1>2. f = StepFile(6)
  BY <1>1 DEF PlaceInv, InPlace
<1> QED BY <1>2 DEF TurnFile

\* The actions that append an event append a proper one.
LEMMA AppendersSafe ==
    ASSUME TypeInv, SafeInv, NEW p \in Procs,
           \/ RecordRequestIntent(p) \/ RecordProcessStarted(p)
           \/ RecordOutputRetained(p) \/ RecordCapturePublished(p)
           \/ RecordCaptureVerified(p) \/ RecordTurn(p)
           \/ AdmitEffect(p) \/ RecordCompletion(p) \/ BeginVerification(p)
           \/ RecordReport(p) \/ RecordTerminal(p) \/ Publish(p)
    PROVE  SafeInv'
<1> USE DEF disk, world, turn, still
<1>1. ProcOK(p) /\ TypeOK /\ 0 \in Nat /\ VerifierRecords(journal) \in Nat
  BY CountOK DEF TypeInv, TypeOK
<1>2. \A kind \in Kinds \ { "provider_request_intent", "verifier_recorded",
                            "terminal_published" } : NoDoc \in DocumentsOf(kind)
  BY DEF DocumentsOf
<1>3. ASSUME NEW kind \in ProviderKinds \ {"provider_request_intent"}, Recording(p, kind)
      PROVE  SafeInv'
  <2>1. /\ kind \in Kinds \ { "provider_request_intent", "verifier_recorded",
                             "terminal_published" }
        /\ kind \notin EffectKinds \cup TurnKinds
    BY StepNames DEF Kinds, EffectKinds, TurnKinds
  <2>2. Event(kind, 0, NoDoc) \in Events /\ Event(kind, 0, NoDoc).kind = kind
    BY <1>1, <1>2, <2>1, EventOK
  <2>3. Proper(p, Event(kind, 0, NoDoc))
    BY <2>1, <2>2 DEF Proper, TurnKinds, EffectKinds
  <2> QED BY <1>1, <1>3, <2>2, <2>3, AppendSafe DEF Recording
<1>4. ASSUME NEW l \in {"gate", "verified", "failed", "seal", "termfile", "done"},
             Goto(p, l), UNCHANGED << disk, world, pend, turn >>
      PROVE  SafeInv'
  BY <1>1, <1>4, MoveSafe DEF PCs, Creating, InTurn, evidence
<1>5. /\ "provider_process_started" \in ProviderKinds \ {"provider_request_intent"}
      /\ "provider_output_retained" \in ProviderKinds \ {"provider_request_intent"}
      /\ "provider_capture_index_published" \in ProviderKinds \ {"provider_request_intent"}
      /\ "provider_capture_verified" \in ProviderKinds \ {"provider_request_intent"}
      /\ "adapter_turn_normalized" \in ProviderKinds \ {"provider_request_intent"}
  BY StepNames
<1>6. CASE RecordRequestIntent(p)
  <2>1. CASE Current(p)
    <3>1. Event("provider_request_intent", 0, authority[p]) \in Events
      BY <1>1, <1>6, EventOK, StepNames DEF RecordRequestIntent, ProcOK, Kinds, DocumentsOf
    <3>2. Proper(p, Event("provider_request_intent", 0, authority[p]))
      BY DEF Proper, Event, TurnKinds, EffectKinds
    <3> QED
      BY <1>1, <1>6, <2>1, <3>1, <3>2, AppendSafe DEF RecordRequestIntent
  <2>2. CASE ~Current(p)
    BY <1>4, <1>6, <2>2 DEF RecordRequestIntent
  <2> QED BY <2>1, <2>2
<1>7. CASE RecordProcessStarted(p)
  BY <1>3, <1>5, <1>7 DEF RecordProcessStarted
<1>8. CASE RecordOutputRetained(p)
  BY <1>3, <1>5, <1>8 DEF RecordOutputRetained
<1>9. CASE RecordCapturePublished(p)
  BY <1>3, <1>4, <1>5, <1>9 DEF RecordCapturePublished, Moving
<1>10. CASE RecordCaptureVerified(p)
  BY <1>3, <1>4, <1>5, <1>10 DEF RecordCaptureVerified, Moving
<1>11. CASE RecordTurn(p)
  <2>1. CASE Recording(p, "adapter_turn_normalized")
    BY <1>3, <1>5, <2>1
  <2>2. CASE /\ Has(journal, "adapter_turn_normalized")
             /\ \E l \in {"plan", "decide"} : Moving(p, l)
    <3>1. TurnFile \in journal
      BY <2>2, TurnSeen DEF SafeInv
    <3> QED
      BY <1>1, <2>2, <3>1, MoveSafe DEF Moving, PCs, Creating, InTurn
  <2> QED BY <1>11, <2>1, <2>2 DEF RecordTurn, After
<1>12. CASE AdmitEffect(p)
  <2>1. next[p] \in Effects /\ next[p] \in Nat /\ TurnFile \in journal
    BY <1>1, <1>12 DEF AdmitEffect, AtEffect, TypeOK, SafeInv, KnownInv, HoldsTurn, InTurn
  <2>2. Event("effect_intent", next[p], NoDoc) \in Events
    BY <1>2, <2>1, EventOK DEF Kinds
  <2>3. Proper(p, Event("effect_intent", next[p], NoDoc))
    BY <2>1, StepNames DEF Proper, Event
  <2>4. CASE Current(p)
    BY <1>1, <1>12, <2>2, <2>3, <2>4, AppendSafe DEF AdmitEffect
  <2>5. CASE ~Current(p)
    BY <1>4, <1>12, <2>5 DEF AdmitEffect
  <2> QED BY <2>4, <2>5
<1>13. CASE RecordCompletion(p)
  <2>1. next[p] \in Effects /\ next[p] \in Nat /\ TurnFile \in journal /\ executed[next[p]] > 0
    BY <1>1, <1>13 DEF RecordCompletion, TypeOK, ProcOK, Acting, SafeInv, KnownInv,
      HoldsTurn, InTurn, EffectInv
  <2>2. Event("effect_completed", next[p], NoDoc) \in Events
    BY <1>2, <2>1, EventOK DEF Kinds
  <2>3. Proper(p, Event("effect_completed", next[p], NoDoc))
    BY <2>1, StepNames DEF Proper, Event
  <2> QED BY <1>1, <1>13, <2>2, <2>3, AppendSafe DEF RecordCompletion
<1>14. CASE BeginVerification(p)
  <2>1. next[p] = NumEffects + 1 /\ TurnFile \in journal
    BY <1>14 DEF BeginVerification, TurnDone, SafeInv, KnownInv, HoldsTurn, InTurn
  <2>2. CASE AppendEvent(p, Event("verification_started", VerifierRecords(journal), NoDoc))
    <3>1. Event("verification_started", VerifierRecords(journal), NoDoc) \in Events
      BY <1>1, <1>2, EventOK DEF Kinds
    <3>2. Proper(p, Event("verification_started", VerifierRecords(journal), NoDoc))
      BY <2>1, StepNames DEF Proper, Event, EffectKinds
    <3> QED BY <1>1, <1>14, <2>2, <3>1, <3>2, AppendSafe DEF BeginVerification
  <2>3. CASE UNCHANGED pend /\ Goto(p, "verify")
    BY <1>1, <1>14, <2>1, <2>3, MoveSafe DEF BeginVerification, PCs, Creating, InTurn
  <2> QED BY <1>14, <2>2, <2>3 DEF BeginVerification
<1>15. CASE RecordReport(p)
  <2>1. next[p] = NumEffects + 1 /\ TurnFile \in journal
    BY <1>15 DEF RecordReport, SafeInv, KnownInv, HoldsTurn, InTurn, Judging
  <2>2. Event("verifier_recorded", 0, report[p]) \in Events
    BY <1>1, <1>15, EventOK DEF RecordReport, ProcOK, Kinds, DocumentsOf
  <2>3. Proper(p, Event("verifier_recorded", 0, report[p]))
    BY <2>1, StepNames DEF Proper, Event, EffectKinds
  <2> QED BY <1>1, <1>15, <2>2, <2>3, AppendSafe DEF RecordReport
<1>16. ASSUME pc[p] \in Publishing,
              AppendEvent(p, Event("terminal_published", 0, record[p])), UNCHANGED still
       PROVE  SafeInv'
  <2>1. Event("terminal_published", 0, record[p]) \in Events
    BY <1>1, <1>16, EventOK DEF ProcOK, Kinds, DocumentsOf
  <2>2. Proper(p, Event("terminal_published", 0, record[p]))
    BY StepNames DEF Proper, Event, TurnKinds, EffectKinds
  <2> QED BY <1>1, <1>16, <2>1, <2>2, AppendSafe
<1>17. CASE RecordTerminal(p)
  BY <1>16, <1>17 DEF RecordTerminal, Publishing
<1>18. CASE Publish(p)
  BY <1>4, <1>16, <1>18 DEF Publish, Publishing
<1> QED
  BY <1>6, <1>7, <1>8, <1>9, <1>10, <1>11, <1>12, <1>13, <1>14, <1>15, <1>17, <1>18

\* Steps that touch neither the journal, nor the turn, nor the world.
LEMMA MoversSafe ==
    ASSUME TypeInv, SafeInv, NEW p \in Procs,
           \/ StartLive(p) \/ StartRecover(p)
           \/ StageCapture(p) \/ LinkCapture(p) \/ UnlinkStaged(p)
           \/ RestoreCapture(p) \/ GateCapture(p) \/ RejectTurn(p) \/ Decide(p)
           \/ StopOnUnknown(p) \/ EngineStops(p) \/ Verify(p)
           \/ SealSuccess(p) \/ SealFailure(p)
           \/ CreateTerminal(p) \/ SyncTerminal(p) \/ Crash(p) \/ IoFails(p)
    PROVE  SafeInv'
<1> USE DEF disk, world, turn, still, evidence
<1>1. TypeOK
  BY DEF TypeInv
<1> DEFINE Outside == { "intent", "restore", "retained", "link", "unlink",
                        "published", "failed", "turn", "publish", "seal", "done",
                        "termsync", "termevent", "crashed" }
<1>2. ASSUME NEW l \in Outside, Goto(p, l), UNCHANGED << still, pend >>
      PROVE  SafeInv'
  BY <1>1, <1>2, MoveSafe DEF PCs, Creating, InTurn
<1> HIDE DEF Outside
<1>3. /\ "intent" \in Outside /\ "restore" \in Outside /\ "retained" \in Outside
      /\ "link" \in Outside /\ "unlink" \in Outside /\ "published" \in Outside
      /\ "failed" \in Outside /\ "turn" \in Outside /\ "publish" \in Outside
      /\ "seal" \in Outside /\ "done" \in Outside /\ "termsync" \in Outside
      /\ "termevent" \in Outside /\ "crashed" \in Outside
  BY DEF Outside
<1>4. CASE StartLive(p) \/ StartRecover(p)
  BY <1>2, <1>3, <1>4 DEF StartLive, StartRecover
<1>5. CASE StageCapture(p) \/ LinkCapture(p) \/ UnlinkStaged(p)
  BY <1>2, <1>3, <1>5 DEF StageCapture, LinkCapture, UnlinkStaged
<1>6. CASE RestoreCapture(p)
  BY <1>1, <1>2, <1>3, <1>6 DEF RestoreCapture, Repair, Moving, TypeOK
<1>7. CASE GateCapture(p) \/ RejectTurn(p)
  BY <1>2, <1>3, <1>7 DEF GateCapture, RejectTurn
<1>8. CASE Decide(p)
  <2>1. TurnFile \in journal
    BY <1>8 DEF Decide, SafeInv, KnownInv, HoldsTurn, InTurn
  <2>2. CASE Goto(p, "plan")
    BY <1>1, <1>8, <2>1, <2>2, MoveSafe DEF Decide, PCs, Creating
  <2> QED BY <1>2, <1>3, <1>8, <2>2 DEF Decide
<1>9. CASE StopOnUnknown(p) \/ EngineStops(p)
  BY <1>2, <1>3, <1>9 DEF StopOnUnknown, EngineStops, Moving
<1>10. CASE Verify(p)
  <2>1. TurnFile \in journal /\ next[p] = NumEffects + 1
    BY <1>10 DEF Verify, SafeInv, KnownInv, HoldsTurn, Judging, InTurn
  <2> QED BY <1>1, <1>10, <2>1, MoveSafe DEF Verify, PCs, Creating
<1>11. CASE SealSuccess(p) \/ SealFailure(p)
  BY <1>2, <1>3, <1>11 DEF SealSuccess, SealFailure, Compose
<1>12. CASE CreateTerminal(p) \/ SyncTerminal(p)
  BY <1>2, <1>3, <1>12 DEF CreateTerminal, SyncTerminal
<1>13. CASE Crash(p) \/ IoFails(p)
  BY <1>2, <1>3, <1>13, LabelsOK DEF Crash, IoFails, Moving
<1> QED
  BY <1>4, <1>5, <1>6, <1>7, <1>8, <1>9, <1>10, <1>11, <1>12, <1>13

\* The provider runs once, after the event that only one process created.
LEMMA RunProviderSafe ==
    ASSUME TypeInv, SafeInv, NEW p \in Procs, RunProvider(p)
    PROVE  SafeInv'
<1> USE DEF disk, world, turn
<1>1. TypeOK /\ pc[p] = "provider"
  BY DEF TypeInv, RunProvider
<1>2. PICK l \in {"stage", "failed"} : Goto(p, l)
  BY DEF RunProvider
<1>3. /\ pc'[p] = l
      /\ \A q \in Procs \ {p} : pc'[q] = pc[q]
  BY <1>1, <1>2, GotoOK DEF PCs
<1>4. PlaceInv'
  BY DEF RunProvider, SafeInv, PlaceInv, InPlace, StepFile, IntentFile, CompletedFile
<1>5. KnownInv'
  <2> SUFFICES ASSUME NEW q \in Procs
               PROVE  /\ pc'[q] \in Creating => InPlace(pend[q])
                      /\ HoldsTurn(q)' => TurnFile \in journal
                      /\ Judging(q)' => next[q] = NumEffects + 1
    BY DEF RunProvider, SafeInv, KnownInv, InPlace, TurnFile, StepFile, CompletedFile, IntentFile
  <2>1. CASE q = p
    BY <1>3, <2>1 DEF HoldsTurn, Judging, Creating, InTurn
  <2>2. CASE q # p
    BY <1>3, <2>2 DEF RunProvider, SafeInv, KnownInv, HoldsTurn, Judging
  <2> QED BY <2>1, <2>2
<1>6. WriterInv'
  BY <1>3 DEF RunProvider, SafeInv, WriterInv
<1>7. EffectInv'
  BY <1>3 DEF RunProvider, SafeInv, EffectInv, IntentFile, CompletedFile, Creating
<1>8. ProviderInv'
  BY <1>1, <1>3 DEF RunProvider, SafeInv, ProviderInv, StartedFile, StepFile
<1> QED BY <1>4, <1>5, <1>6, <1>7, <1>8 DEF SafeInv

\* The turn's bookkeeping: the snapshot and the loop counter.
LEMMA TurnSafe ==
    ASSUME TypeInv, SafeInv, NEW p \in Procs, Plan(p) \/ SkipCompleted(p)
    PROVE  SafeInv'
<1> USE DEF disk, world
<1>1. TypeOK
  BY DEF TypeInv
<1>2. CASE Plan(p)
  <2>1. PICK l \in {"engine", "seal"} : Goto(p, l)
    BY <1>2 DEF Plan
  <2>2. /\ pc'[p] = l
        /\ \A q \in Procs \ {p} : pc'[q] = pc[q]
    BY <1>1, <2>1, GotoOK DEF PCs
  <2>3. TurnFile \in journal
    BY <1>2 DEF Plan, SafeInv, KnownInv, HoldsTurn, InTurn
  <2>4. PlaceInv'
    BY <1>2 DEF Plan, SafeInv, PlaceInv, InPlace, StepFile, IntentFile, CompletedFile
  <2>5. ASSUME NEW q \in Procs, NEW e \in Effects, snap'[q][e] = "completed"
        PROVE  CompletedFile(e) \in journal
    <3>1. CASE snap'[q] = snap[q]
      BY <2>5, <3>1 DEF SafeInv, KnownInv
    <3>2. CASE snap'[q] = [d \in Effects |-> EffectState(journal, d)]
      <4>1. e \in Completed(journal)
        BY <2>5, <3>2 DEF EffectState
      <4>2. PICK f \in journal : f.ev.kind = "effect_completed" /\ f.ev.n = e
        BY <4>1 DEF Completed, OfKind
      <4>3. f = CompletedFile(e)
        BY <4>2 DEF SafeInv, PlaceInv, InPlace
      <4> QED BY <4>3
    <3> QED BY <1>1, <1>2, <3>1, <3>2 DEF Plan, TypeOK
  <2>6. KnownInv'
    <3> SUFFICES ASSUME NEW q \in Procs
                 PROVE  /\ pc'[q] \in Creating => InPlace(pend[q])
                        /\ HoldsTurn(q)' => TurnFile \in journal
                        /\ Judging(q)' => next[q] = NumEffects + 1
      BY <1>2, <2>5 DEF Plan, SafeInv, KnownInv, InPlace, TurnFile, StepFile, CompletedFile, IntentFile
    <3>1. CASE q = p
      BY <2>2, <2>3, <3>1 DEF HoldsTurn, Judging, Creating, InTurn
    <3>2. CASE q # p
      BY <1>2, <2>2, <3>2 DEF Plan, SafeInv, KnownInv, HoldsTurn, Judging
    <3> QED BY <3>1, <3>2
  <2>7. WriterInv'
    BY <1>2, <2>2 DEF Plan, SafeInv, WriterInv
  <2>8. EffectInv'
    BY <1>2, <2>2 DEF Plan, SafeInv, EffectInv, IntentFile, CompletedFile, Creating
  <2>9. ProviderInv'
    BY <1>2, <2>2 DEF Plan, SafeInv, ProviderInv, StartedFile, StepFile
  <2> QED BY <2>4, <2>6, <2>7, <2>8, <2>9 DEF SafeInv
<1>3. CASE SkipCompleted(p)
  <2>1. /\ pc[p] = "engine" /\ next[p] \in Effects /\ snap[p][next[p]] = "completed"
        /\ next' = [next EXCEPT ![p] = next[p] + 1] /\ next[p] \in Nat
    BY <1>1, <1>3, EffectNumbers DEF SkipCompleted, AtEffect
  <2>2. /\ next'[p] = next[p] + 1
        /\ \A q \in Procs \ {p} : next'[q] = next[q]
    BY <1>1, <2>1 DEF TypeOK
  <2>3. PlaceInv'
    BY <1>3 DEF SkipCompleted, SafeInv, PlaceInv, InPlace, StepFile, IntentFile, CompletedFile
  <2>4. ASSUME NEW q \in Procs, NEW e \in Effects, e < next'[q]
        PROVE  CompletedFile(e) \in journal
    <3>1. e < next[q] \/ (q = p /\ e = next[p])
      BY <2>1, <2>2, <2>4, EffectNumbers
    <3> QED BY <2>1, <3>1 DEF SafeInv, KnownInv
  <2>5. KnownInv'
    <3> SUFFICES ASSUME NEW q \in Procs
                 PROVE  /\ pc[q] \in Creating => InPlace(pend[q])
                        /\ HoldsTurn(q)' => TurnFile \in journal
                        /\ Judging(q)' => next'[q] = NumEffects + 1
      BY <1>3, <2>4 DEF SkipCompleted, SafeInv, KnownInv, InPlace, TurnFile, StepFile, CompletedFile, IntentFile
    <3>1. CASE q = p
      BY <1>3, <2>1, <3>1 DEF SkipCompleted, SafeInv, KnownInv, HoldsTurn, Judging, Creating, InTurn
    <3>2. CASE q # p
      BY <1>3, <2>2, <3>2 DEF SkipCompleted, SafeInv, KnownInv, HoldsTurn, Judging
    <3> QED BY <3>1, <3>2
  <2>6. WriterInv'
    BY <1>3 DEF SkipCompleted, SafeInv, WriterInv
  <2>7. EffectInv'
    BY <1>3, <2>1, <2>2 DEF SkipCompleted, SafeInv, EffectInv, IntentFile, CompletedFile, Creating
  <2>8. ProviderInv'
    BY <1>3 DEF SkipCompleted, SafeInv, ProviderInv, StartedFile, StepFile
  <2> QED BY <2>3, <2>5, <2>6, <2>7, <2>8 DEF SafeInv
<1> QED BY <1>2, <1>3

\* An effect is performed by the process whose intent file it is, once.
LEMMA ExecuteSafe ==
    ASSUME TypeInv, SafeInv, NEW p \in Procs, Execute(p)
    PROVE  SafeInv'
<1> USE DEF disk, turn
<1>1. /\ TypeOK /\ pc[p] = "execute" /\ next[p] \in Effects
      /\ IntentFile(next[p]) \in journal /\ executed[next[p]] = 0
  BY DEF TypeInv, ProcOK, Acting, Execute, SafeInv, EffectInv
<1>2. PICK l \in {"complete", "seal"} :
         /\ Goto(p, l)
         /\ executed' \in {executed, [executed EXCEPT ![next[p]] = @ + 1]}
         /\ l = "complete" => executed' = [executed EXCEPT ![next[p]] = @ + 1]
  BY DEF Execute
<1>3. /\ pc'[p] = l
      /\ \A q \in Procs \ {p} : pc'[q] = pc[q]
  BY <1>1, <1>2, GotoOK DEF PCs
<1>4. /\ \A e \in Effects \ {next[p]} : executed'[e] = executed[e]
      /\ executed'[next[p]] \in {0, 1}
      /\ l = "complete" => executed'[next[p]] = 1
  BY <1>1, <1>2 DEF TypeOK
<1>5. PlaceInv'
  BY DEF Execute, SafeInv, PlaceInv, InPlace, StepFile, IntentFile, CompletedFile
<1>6. KnownInv'
  <2> SUFFICES ASSUME NEW q \in Procs
               PROVE  /\ pc'[q] \in Creating => InPlace(pend[q])
                      /\ HoldsTurn(q)' => TurnFile \in journal
                      /\ Judging(q)' => next[q] = NumEffects + 1
    BY DEF Execute, SafeInv, KnownInv, InPlace, TurnFile, StepFile, CompletedFile, IntentFile
  <2>1. CASE q = p
    BY <1>1, <1>3, <2>1 DEF SafeInv, KnownInv, HoldsTurn, Judging, Creating, InTurn
  <2>2. CASE q # p
    BY <1>3, <2>2 DEF Execute, SafeInv, KnownInv, HoldsTurn, Judging
  <2> QED BY <2>1, <2>2
<1>7. WriterInv'
  BY <1>3 DEF Execute, SafeInv, WriterInv
<1>8. EffectInv'
  <2>1. \A e \in Effects :
           /\ executed'[e] <= 1
           /\ executed'[e] > 0 => IntentFile(e) \in journal
           /\ CompletedFile(e) \in journal \cup torn => executed'[e] > 0
    BY <1>1, <1>4 DEF SafeInv, EffectInv
  <2>2. \A q \in Procs :
           /\ pc'[q] = "execute" =>
                 IntentFile(next[q]) \in journal /\ executed'[next[q]] = 0
           /\ pc'[q] = "complete" => executed'[next[q]] > 0
           /\ pc'[q] \in Creating /\ pend[q].ev.kind \in EffectKinds =>
                 pend[q].ev.n = next[q]
           /\ pc'[q] \in Creating /\ pend[q].ev.kind = "effect_completed" =>
                 executed'[next[q]] > 0
    <3> TAKE q \in Procs
    <3>1. CASE q = p
      BY <1>3, <1>4, <3>1 DEF Creating
    <3>2. CASE q # p
      <4>1. pc'[q] = pc[q] /\ ProcOK(q)
        BY <1>3, <3>2 DEF TypeInv
      <4>2. pc[q] = "execute" => next[q] # next[p]
        BY <1>1, <3>2 DEF SafeInv, EffectInv
      <4>3. pc[q] \in {"execute", "complete"} => next[q] \in Effects
        BY <4>1 DEF ProcOK, Acting
      <4>4. pc[q] \in Creating /\ pend[q].ev.kind = "effect_completed" => next[q] \in Effects
        BY <4>1 DEF ProcOK, EffectKinds
      <4> QED
        BY <1>1, <1>4, <4>1, <4>2, <4>3, <4>4 DEF SafeInv, EffectInv
    <3> QED BY <3>1, <3>2
  <2>3. \A q, r \in Procs :
           pc'[q] = "execute" /\ pc'[r] = "execute" /\ next[q] = next[r] => q = r
    BY <1>3 DEF SafeInv, EffectInv
  <2> QED
    BY <2>1, <2>2, <2>3 DEF Execute, EffectInv, IntentFile, CompletedFile
<1>9. ProviderInv'
  BY <1>3 DEF Execute, SafeInv, ProviderInv, StartedFile, StepFile
<1> QED BY <1>5, <1>6, <1>7, <1>8, <1>9 DEF SafeInv

\* Creating a file that is not there makes its creator its only writer.
LEMMA CreateSafe ==
    ASSUME TypeInv, SafeInv, NEW p \in Procs, CreateEvent(p)
    PROVE  SafeInv'
<1> USE DEF world, turn
<1>1. TypeOK /\ pc[p] = "create" /\ InPlace(pend[p])
  BY DEF TypeInv, CreateEvent, SafeInv, KnownInv, Creating
<1>2. CASE pend[p] \in journal \cup torn
  <2>1. /\ Goto(p, OnError(p, pend[p].ev.kind)) /\ UNCHANGED << still, pend >>
    BY <1>2 DEF CreateEvent, still
  <2>2. OnError(p, pend[p].ev.kind) \in PCs \ (Creating \cup InTurn \cup {"provider"})
    BY LabelsOK DEF PCs, Creating, InTurn
  <2> QED BY <1>1, <2>1, <2>2, MoveSafe DEF InTurn
<1>3. CASE pend[p] \notin journal \cup torn
  <2>1. /\ torn' = torn \cup {pend[p]} /\ Goto(p, "sync")
    BY <1>3 DEF CreateEvent
  <2>2. /\ pc'[p] = "sync"
        /\ \A q \in Procs \ {p} : pc'[q] = pc[q]
    BY <1>1, <2>1, GotoOK DEF PCs
  <2>3. PlaceInv'
    BY <1>1, <1>3, <2>1 DEF CreateEvent, SafeInv, PlaceInv, InPlace, StepFile, IntentFile, CompletedFile
  <2>4. KnownInv'
    <3> SUFFICES ASSUME NEW q \in Procs
                 PROVE  /\ pc'[q] \in Creating => InPlace(pend[q])
                        /\ HoldsTurn(q)' => TurnFile \in journal
                        /\ Judging(q)' => next[q] = NumEffects + 1
      BY DEF CreateEvent, SafeInv, KnownInv, InPlace, TurnFile, StepFile, CompletedFile, IntentFile
    <3>1. CASE q = p
      BY <1>1, <2>2, <3>1 DEF CreateEvent, SafeInv, KnownInv, HoldsTurn, Judging, Creating, InTurn
    <3>2. CASE q # p
      BY <2>2, <3>2 DEF CreateEvent, SafeInv, KnownInv, HoldsTurn, Judging
    <3> QED BY <3>1, <3>2
  <2>5. WriterInv'
    BY <1>3, <2>1, <2>2 DEF CreateEvent, SafeInv, WriterInv
  <2>6. EffectInv'
    <3>1. ASSUME NEW e \in Effects, CompletedFile(e) = pend[p]
          PROVE  executed[e] > 0
      <4>1. pend[p].ev.kind = "effect_completed" /\ pend[p].ev.n = e
        BY <3>1 DEF CompletedFile, File, Event
      <4>2. next[p] = e /\ executed[next[p]] > 0
        BY <1>1, <4>1 DEF SafeInv, EffectInv, Creating, EffectKinds
      <4> QED BY <4>2
    <3>2. \A q \in Procs : pc'[q] \in Creating <=> pc[q] \in Creating
      BY <1>1, <2>2 DEF Creating
    <3>3. \A q \in Procs : pc'[q] \in {"execute", "complete"} => pc'[q] = pc[q]
      BY <2>2
    <3> QED
      BY <2>1, <3>1, <3>2, <3>3 DEF CreateEvent, SafeInv, EffectInv, IntentFile, CompletedFile
  <2>7. ProviderInv'
    BY <2>2 DEF CreateEvent, SafeInv, ProviderInv, StartedFile, StepFile
  <2> QED BY <2>3, <2>4, <2>5, <2>6, <2>7 DEF SafeInv
<1> QED BY <1>2, <1>3

\* What the world does to no process.
LEMMA WorldSafe ==
    ASSUME SafeInv, (\E a \in Authorities : Expire(a)) \/ UNCHANGED vars
    PROVE  SafeInv'
<1>1. UNCHANGED << journal, torn, executed, providerRuns, pc, pend, next, snap >>
  BY DEF Expire, vars, procs, disk, world, turn
<1> QED
  BY <1>1 DEF SafeInv, PlaceInv, InPlace, KnownInv, HoldsTurn, Judging, WriterInv,
    EffectInv, ProviderInv, StartedFile, TurnFile, StepFile, IntentFile, CompletedFile

\* Which event leads to the labels the invariant speaks of.
LEMMA AfterLabels ==
    ASSUME NEW p \in Procs, NEW kind, NEW l, l = After(p, kind)
    PROVE  /\ l = "provider" => kind = "provider_process_started"
           /\ l \in {"plan", "decide"} => kind = "adapter_turn_normalized"
           /\ l = "execute" => kind = "effect_intent"
           /\ l = "engine" => kind = "effect_completed"
           /\ l = "verify" => kind = "verification_started"
           /\ l \in PCs \ (Creating \cup {"complete", "report"})
BY DEF After, PCs, Creating

\* A file that becomes whole was its writer's alone; what the writer may do next
\* follows from the file's place.
LEMMA SyncSafe ==
    ASSUME TypeInv, SafeInv, NEW p \in Procs, SyncEvent(p)
    PROVE  SafeInv'
<1> USE DEF world
<1> DEFINE f == pend[p]
           kind == pend[p].ev.kind
           l == After(p, kind)
<1>1. /\ TypeOK /\ ProcOK(p) /\ pc[p] = "sync" /\ pc[p] \in Creating
      /\ f \in torn /\ f \notin journal /\ InPlace(f)
      /\ journal' = journal \cup {f} /\ torn' = torn \ {f}
      /\ UNCHANGED << executed, providerRuns, pend, snap >>
  BY DEF TypeInv, SyncEvent, SafeInv, PlaceInv, KnownInv, WriterInv, Creating
<1>2. journal' \cup torn' = journal \cup torn
  BY <1>1
<1>3. /\ l \in PCs \ (Creating \cup {"complete", "report"})
      /\ l = "provider" => kind = "provider_process_started"
      /\ l \in {"plan", "decide"} => kind = "adapter_turn_normalized"
      /\ l = "execute" => kind = "effect_intent"
      /\ l = "engine" => kind = "effect_completed"
      /\ l = "verify" => kind = "verification_started"
  BY AfterLabels
<1>4. Goto(p, l) /\ next' = [next EXCEPT ![p] = Advance(p, kind)]
  BY DEF SyncEvent
<1> HIDE DEF l
<1>5. /\ pc'[p] = l
      /\ \A q \in Procs \ {p} : pc'[q] = pc[q]
  BY <1>1, <1>3, <1>4, GotoOK
<1>6. /\ next'[p] = Advance(p, kind)
      /\ \A q \in Procs \ {p} : next'[q] = next[q]
  BY <1>1, <1>4 DEF TypeOK
<1>7. /\ kind = "effect_completed" => next'[p] = next[p] + 1
      /\ kind # "effect_completed" => next'[p] = next[p]
  BY <1>6 DEF Advance
<1>8. kind \in EffectKinds => next[p] \in Effects /\ f.ev.n = next[p]
  BY <1>1 DEF ProcOK, SafeInv, EffectInv
<1>9. /\ kind = "effect_intent" => f = IntentFile(next[p])
      /\ kind = "effect_completed" => f = CompletedFile(next[p])
  BY <1>1, <1>8 DEF InPlace, EffectKinds
<1>10. /\ kind = "provider_process_started" => f = StartedFile
       /\ kind = "adapter_turn_normalized" => f = TurnFile
  <2>1. ProviderSteps[2] = "provider_process_started" /\ ProviderSteps[6] = "adapter_turn_normalized"
    BY DEF ProviderSteps
  <2> QED BY <1>1, <2>1 DEF InPlace, StartedFile, TurnFile
<1>11. PlaceInv'
  BY <1>1, <1>2 DEF SafeInv, PlaceInv, InPlace, StepFile, IntentFile, CompletedFile
<1>12. KnownInv'
  <2>1. ASSUME NEW q \in Procs, NEW e \in Effects, e < next'[q]
        PROVE  CompletedFile(e) \in journal'
    <3>1. CASE e < next[q]
      BY <1>1, <3>1 DEF SafeInv, KnownInv
    <3>2. CASE ~(e < next[q])
      <4>1. q = p /\ kind = "effect_completed"
        BY <1>6, <1>7, <2>1, <3>2
      <4>2. e = next[p]
        BY <1>7, <1>8, <2>1, <3>2, <4>1, EffectNumbers DEF EffectKinds
      <4> QED BY <1>1, <1>9, <4>1, <4>2
    <3> QED BY <3>1, <3>2
  <2>2. ASSUME NEW q \in Procs
        PROVE  /\ pc'[q] \in Creating => InPlace(pend[q])
               /\ HoldsTurn(q)' => TurnFile \in journal'
               /\ Judging(q)' => next'[q] = NumEffects + 1
    <3>1. CASE q = p
      <4>1. l \in InTurn => TurnFile \in journal'
        <5>1. CASE kind \in TurnKinds
          BY <1>1, <5>1 DEF SafeInv, KnownInv, HoldsTurn
        <5>2. CASE kind \notin TurnKinds
          BY <1>1, <1>3, <1>10, <5>2 DEF InTurn, TurnKinds, EffectKinds
        <5> QED BY <5>1, <5>2
      <4>2. l = "verify" => next'[p] = NumEffects + 1
        BY <1>1, <1>3, <1>7 DEF SafeInv, KnownInv, Judging
      <4> QED
        BY <1>3, <1>5, <3>1, <4>1, <4>2 DEF HoldsTurn, Judging
    <3>2. CASE q # p
      BY <1>1, <1>5, <1>6, <3>2 DEF SafeInv, KnownInv, HoldsTurn, Judging
    <3> QED BY <3>1, <3>2
  <2> QED
    BY <1>1, <2>1, <2>2 DEF SafeInv, KnownInv, InPlace, TurnFile, StepFile, CompletedFile, IntentFile
<1>13. WriterInv'
  BY <1>1, <1>3, <1>5 DEF SafeInv, WriterInv, Creating
<1>14. EffectInv'
  <2>1. kind = "effect_intent" =>
          /\ executed[next[p]] = 0
          /\ \A q \in Procs : pc[q] = "execute" => next[q] # next[p]
    <3> SUFFICES ASSUME kind = "effect_intent"
                 PROVE  /\ executed[next[p]] = 0
                        /\ \A q \in Procs : pc[q] = "execute" => next[q] # next[p]
      OBVIOUS
    <3>1. IntentFile(next[p]) \notin journal /\ next[p] \in Effects
      BY <1>1, <1>8, <1>9 DEF EffectKinds
    <3>2. executed[next[p]] \in Nat
      BY <1>1, <3>1 DEF TypeOK
    <3> QED BY <3>1, <3>2 DEF SafeInv, EffectInv
  <2>2. \A e \in Effects :
           /\ executed[e] <= 1
           /\ executed[e] > 0 => IntentFile(e) \in journal'
           /\ CompletedFile(e) \in journal' \cup torn' => executed[e] > 0
    BY <1>1, <1>2 DEF SafeInv, EffectInv
  <2>3. \A q \in Procs :
           /\ pc'[q] = "execute" =>
                 IntentFile(next'[q]) \in journal' /\ executed[next'[q]] = 0
           /\ pc'[q] = "complete" => executed[next'[q]] > 0
           /\ pc'[q] \in Creating /\ pend[q].ev.kind \in EffectKinds =>
                 pend[q].ev.n = next'[q]
           /\ pc'[q] \in Creating /\ pend[q].ev.kind = "effect_completed" =>
                 executed[next'[q]] > 0
    <3> TAKE q \in Procs
    <3>1. CASE q = p
      BY <1>1, <1>3, <1>5, <1>7, <1>9, <2>1, <3>1
    <3>2. CASE q # p
      BY <1>1, <1>5, <1>6, <3>2 DEF SafeInv, EffectInv
    <3> QED BY <3>1, <3>2
  <2>4. \A q, r \in Procs :
           pc'[q] = "execute" /\ pc'[r] = "execute" /\ next'[q] = next'[r] => q = r
    BY <1>3, <1>5, <1>6, <1>7, <2>1 DEF SafeInv, EffectInv
  <2> QED
    BY <1>1, <2>2, <2>3, <2>4 DEF EffectInv, IntentFile, CompletedFile
<1>15. ProviderInv'
  <2>1. kind = "provider_process_started" =>
           providerRuns = 0 /\ \A q \in Procs : pc[q] # "provider"
    BY <1>1, <1>10 DEF SafeInv, ProviderInv, TypeOK
  <2> QED
    BY <1>1, <1>3, <1>5, <1>10, <2>1 DEF SafeInv, ProviderInv, StartedFile, StepFile
<1> QED BY <1>11, <1>12, <1>13, <1>14, <1>15 DEF SafeInv

-----------------------------------------------------------------------------
(* The theorems.                                                            *)

\* The invariant holds at the start ...
LEMMA SafeInit == Init => SafeInv
BY JournalAssumption DEF Init, SafeInv, PlaceInv, KnownInv, HoldsTurn, Judging, InTurn, Creating,
   WriterInv, EffectInv, ProviderInv, Effects

\* ... is kept by every step ...
LEMMA SafeStep ==
    ASSUME TypeInv, SafeInv, [Next]_vars
    PROVE  SafeInv'
<1>1. CASE \E p \in Procs : StartLive(p) \/ StartRecover(p)
  BY <1>1, MoversSafe
<1>2. CASE \E p \in Procs : Step(p)
  BY <1>2, AppendersSafe, MoversSafe, RunProviderSafe, TurnSafe, ExecuteSafe,
    CreateSafe, SyncSafe DEF Step
<1>3. CASE \E p \in Procs : Crash(p) \/ IoFails(p)
  BY <1>3, MoversSafe
<1>4. CASE (\E a \in Authorities : Expire(a)) \/ UNCHANGED vars
  BY <1>4, WorldSafe
<1> QED
  BY <1>1, <1>2, <1>3, <1>4 DEF Next, Finished

\* ... and so holds always.
LEMMA SafeInvariant == Spec => []SafeInv
<1>1. Init => SafeInv
  BY SafeInit
<1>2. TypeInv /\ SafeInv /\ [Next]_vars => SafeInv'
  BY SafeStep
<1> QED BY <1>1, <1>2, TypeInvariant, PTL DEF Spec

\* For any number of processes, effects and authorities, at whatever points they
\* crash and however they interleave, no native effect is performed twice: the
\* promise of run_durable (engine.rs) for an effect with a durable intent.
THEOREM EffectsOnce == Spec => []EffectAtMostOnce
<1>1. SafeInv => EffectAtMostOnce
  BY DEF SafeInv, EffectInv, EffectAtMostOnce
<1> QED BY <1>1, SafeInvariant, PTL

\* However many live processes and recoveries work on a run, the provider process
\* runs at most once: record_provider_process_started is created by one of them.
THEOREM ProviderOnce == Spec => []ProviderAtMostOnce
<1>1. SafeInv => ProviderAtMostOnce
  BY DEF SafeInv, ProviderInv, ProviderAtMostOnce
<1> QED BY <1>1, SafeInvariant, PTL

\* A sequence number can only be taken twice by provider intents and by events of
\* the verification: the journal's account of the effects never forks.
THEOREM ForksHarmless == Spec => []ForksSpareEffects
<1>1. TypeInv /\ SafeInv => ForksSpareEffects
  <2> SUFFICES ASSUME TypeInv, SafeInv, NEW f \in OnDisk, NEW g \in OnDisk,
                      f # g, f.seq = g.seq
               PROVE  f.ev.kind \in { "provider_request_intent", "verification_started",
                                      "verifier_recorded", "terminal_published" }
    BY DEF ForksSpareEffects
  <2>1. f \in Files /\ g \in Files /\ InPlace(f) /\ InPlace(g) /\ f.ev.kind \in Kinds
    BY DEF OnDisk, TypeInv, TypeOK, SafeInv, PlaceInv, Files, Events
  <2>2. ASSUME NEW i \in 2 .. 6, f.ev.kind = ProviderSteps[i] PROVE FALSE
    <3>1. f = StepFile(i) /\ f.seq = i - 1
      BY <2>1, <2>2 DEF InPlace, StepFile, File
    <3>2. \A e \in Effects : e >= 1
      BY EffectNumbers
    <3>3. g.ev.kind = ProviderSteps[i]
      BY <2>1, <3>1, <3>2, SlotHolder, EffectNumbers, JournalAssumption
    <3> QED BY <2>1, <3>1, <3>3 DEF InPlace
  <2>3. ASSUME f.ev.kind = "effect_intent" PROVE FALSE
    <3>1. f.ev.n \in Effects /\ f = IntentFile(f.ev.n) /\ f.seq = 4 + 2 * f.ev.n
      BY <2>1, <2>3 DEF InPlace, IntentFile, File
    <3>2. g.ev.kind = "effect_intent" /\ g.ev.n = f.ev.n
      BY <2>1, <3>1, EffectSlot
    <3> QED BY <2>1, <3>1, <3>2 DEF InPlace
  <2>4. ASSUME f.ev.kind = "effect_completed" PROVE FALSE
    <3>1. f.ev.n \in Effects /\ f = CompletedFile(f.ev.n) /\ f.seq = 5 + 2 * f.ev.n
      BY <2>1, <2>4 DEF InPlace, CompletedFile, File
    <3>2. g.ev.kind = "effect_completed" /\ g.ev.n = f.ev.n
      BY <2>1, <3>1, EffectSlot
    <3> QED BY <2>1, <3>1, <3>2 DEF InPlace
  <2>5. \/ \E i \in 2 .. 6 : ProviderSteps[i] = f.ev.kind
        \/ f.ev.kind \in EffectKinds \cup TailKinds \cup {"provider_request_intent"}
    BY <2>1 DEF Kinds, ProviderKinds, EffectKinds, TailKinds, ProviderSteps
  <2> QED BY <2>2, <2>3, <2>4, <2>5 DEF EffectKinds, TailKinds
<1> QED BY <1>1, SafeInvariant, TypeInvariant, PTL

\* Whoever runs the verifier, or holds its report, does so after every effect of
\* the turn was performed exactly once and its completion recorded.
THEOREM WholeTurnVerified == Spec => []VerifierSeesWholeTurn
<1>1. TypeInv /\ SafeInv => VerifierSeesWholeTurn
  <2> SUFFICES ASSUME TypeInv, SafeInv, NEW p \in Procs, pc[p] \in {"verify", "report"},
                      NEW e \in Effects
               PROVE  executed[e] = 1 /\ e \in Completed(journal)
    BY DEF VerifierSeesWholeTurn
  <2>1. next[p] = NumEffects + 1
    BY DEF SafeInv, KnownInv, Judging
  <2>2. CompletedFile(e) \in journal
    BY <2>1, EffectNumbers DEF SafeInv, KnownInv
  <2>3. executed[e] \in Nat /\ executed[e] > 0 /\ executed[e] <= 1
    BY <2>2 DEF TypeInv, TypeOK, SafeInv, EffectInv
  <2>4. e \in Completed(journal)
    BY <2>2 DEF Completed, OfKind, CompletedFile, File, Event
  <2> QED BY <2>3, <2>4
<1> QED BY <1>1, SafeInvariant, TypeInvariant, PTL

-----------------------------------------------------------------------------
(* What a run leaves behind.                                                *)

\* The events that only a process behind the published capture index appends.
IndexedKinds == { "provider_capture_index_published", "provider_capture_verified",
                  "adapter_turn_normalized" }

\* What an event file tells of the capture and the terminal records is so.
Honest(f) ==
    /\ f.ev.kind = "provider_output_retained" => capture # "none"
    /\ f.ev.kind \in IndexedKinds => capture = "final"
    /\ f.ev.kind = "adapter_turn_normalized" => output = "good"
    /\ f.ev.kind = "terminal_published" => f.ev.doc \in terminals

\* What a Passed record stands for.
Earned ==
    /\ output = "good"
    /\ \A e \in Effects : CompletedFile(e) \in journal
    /\ \E f \in journal : f.ev.kind = "verifier_recorded" /\ f.ev.doc \in Passing

Reported == \E f \in journal : f.ev.kind = "verifier_recorded"

\* What a process at each point of the code knows of the disk.
KnowsTruth(p) ==
    /\ pc[p] # "idle" => authority[p] \in Authorities
    /\ pc[p] = "stage" => providerRuns > 0
    /\ pc[p] = "retained" => capture # "none"
    /\ pc[p] \in {"published", "verified", "gate", "turn"} => capture = "final"
    /\ pc[p] = "turn" => output # "rejected"
    /\ pc[p] \in Creating => Honest(pend[p])
    /\ pc[p] \in Creating /\ pend[p].ev.kind = "verifier_recorded" =>
          pend[p].ev.doc = report[p]
    /\ passed[p] => Earned
    /\ pc[p] \in Publishing /\ record[p] \in PassedRecords => Earned
    /\ pc[p] \in {"termfile", "termsync"} => Reported
    /\ pc[p] = "termevent" => record[p] \in terminals

CaptureInv ==
    /\ capture = "none" <=> output = "none"
    /\ capture # "none" => providerRuns > 0

TruthInv ==
    /\ CaptureInv
    /\ \A f \in journal \cup torn : Honest(f)
    /\ (terminals \cup tornTerminals) \cap PassedRecords # {} => Earned
    /\ \A p \in Procs : KnowsTruth(p)

-----------------------------------------------------------------------------
(* Facts that stay.                                                         *)

\* What no step takes back.
Grows ==
    /\ capture # "none" => capture' # "none" /\ output' = output
    /\ capture = "final" => capture' = "final"
    /\ journal \subseteq journal'
    /\ terminals \subseteq terminals'
    /\ providerRuns > 0 => providerRuns' > 0

\* What is true of a file, and of a Passed record, stays true.
LEMMA TruthStays ==
    ASSUME CaptureInv, Grows
    PROVE  /\ \A f : Honest(f) => Honest(f)'
           /\ Earned => Earned'
           /\ Reported => Reported'
<1>1. \A f : Honest(f) => Honest(f)'
  BY DEF Grows, CaptureInv, Honest, IndexedKinds
<1>2. Earned => Earned'
  BY DEF Grows, CaptureInv, Earned, CompletedFile
<1> QED BY <1>1, <1>2 DEF Grows, Reported

\* The memory of a process.
memory == << pc, pend, authority, report, passed, record >>

\* A step of p leaves the others' memory alone.
OnlyMoves(p) ==
    \A q \in Procs \ {p} :
        /\ pc'[q] = pc[q] /\ pend'[q] = pend[q]
        /\ authority'[q] = authority[q] /\ report'[q] = report[q]
        /\ passed'[q] = passed[q] /\ record'[q] = record[q]

\* So the invariant is kept if p knows what its new label asks, and the new
\* files tell the truth.
LEMMA TruthStep ==
    ASSUME TypeOK, TruthInv, Grows, NEW p \in Procs, OnlyMoves(p),
           CaptureInv', KnowsTruth(p)',
           \A f \in (journal' \cup torn') \ (journal \cup torn) : Honest(f)',
           (terminals' \cup tornTerminals') \cap PassedRecords # {} =>
               Earned \/ (terminals \cup tornTerminals) \cap PassedRecords # {}
    PROVE  TruthInv'
<1>1. /\ \A f : Honest(f) => Honest(f)'
      /\ Earned => Earned'
      /\ Reported => Reported'
  BY TruthStays DEF TruthInv
<1>2. \A f \in journal' \cup torn' : Honest(f)'
  BY <1>1 DEF TruthInv
<1>3. ASSUME NEW q \in Procs PROVE KnowsTruth(q)'
  <2>1. CASE q = p
    BY <2>1
  <2>2. CASE q # p
    <3>1. KnowsTruth(q)
      BY DEF TruthInv
    <3>2. \A f : f = pend[q] /\ pc[q] \in Creating => Honest(f)'
      BY <1>1, <3>1 DEF KnowsTruth
    <3>3. /\ pc'[q] = pc[q] /\ pend'[q] = pend[q]
          /\ authority'[q] = authority[q] /\ report'[q] = report[q]
          /\ passed'[q] = passed[q] /\ record'[q] = record[q]
      BY <2>2 DEF OnlyMoves
    <3>4. pc'[q] \in Creating => Honest(pend[q])'
      BY <3>2, <3>3 DEF Honest
    <3>5. pc[q] = "turn" => output' # "rejected"
      BY <3>1 DEF KnowsTruth, Grows
    <3> QED
      BY <1>1, <3>1, <3>3, <3>4, <3>5 DEF KnowsTruth, Grows
  <2> QED BY <2>1, <2>2
<1>4. (terminals' \cup tornTerminals') \cap PassedRecords # {} => Earned'
  BY <1>1 DEF TruthInv
<1> QED BY <1>2, <1>3, <1>4 DEF TruthInv

-----------------------------------------------------------------------------
(* Steps that write nothing, and steps that append an event.                *)

evidenceSeen ==
    << journal, torn, capture, output, terminals, tornTerminals, providerRuns >>

\* Moving a process to a label whose conditions hold keeps the invariant.
LEMMA TruthMoves ==
    ASSUME TypeInv, TruthInv, NEW p \in Procs, pc[p] # "idle",
           NEW l \in PCs \ (Creating \cup {"stage", "retained", "termevent"}),
           Goto(p, l), UNCHANGED << evidenceSeen, pend, authority, passed >>,
           \A q \in Procs \ {p} : record'[q] = record[q] /\ report'[q] = report[q],
           l \in {"published", "verified", "gate", "turn"} => capture = "final",
           l = "turn" => output # "rejected",
           l \in Publishing /\ record'[p] \in PassedRecords => Earned,
           l \in {"termfile", "termsync"} => Reported
    PROVE  TruthInv'
<1>1. /\ pc'[p] = l
      /\ \A q \in Procs \ {p} : pc'[q] = pc[q]
  BY GotoOK DEF TypeInv
<1>2. OnlyMoves(p) /\ Grows /\ CaptureInv'
  BY <1>1 DEF evidenceSeen, OnlyMoves, Grows, CaptureInv, TruthInv
<1>3. KnowsTruth(p) /\ (Earned <=> Earned') /\ (Reported <=> Reported')
  BY DEF TruthInv, Earned, Reported, CompletedFile, evidenceSeen
<1>4. KnowsTruth(p)'
  BY <1>1, <1>3 DEF KnowsTruth, evidenceSeen, Creating
<1> QED BY <1>2, <1>4, TruthStep DEF TypeInv, evidenceSeen

\* Appending an honest event keeps it too.
LEMMA TruthAppends ==
    ASSUME TypeInv, TruthInv, NEW p \in Procs, pc[p] # "idle",
           NEW ev \in Events, AppendEvent(p, ev),
           UNCHANGED << evidenceSeen, authority, report, passed, record >>,
           Honest(File(Cardinality(journal), ev)),
           ev.kind = "verifier_recorded" => ev.doc = report[p]
    PROVE  TruthInv'
<1> DEFINE f == File(Cardinality(journal), ev)
<1>1. CASE UNCHANGED pend /\ Goto(p, OnError(p, ev.kind))
  <2>1. OnError(p, ev.kind) \in PCs \ (Creating \cup Publishing \cup
            {"stage", "retained", "termevent", "published", "verified", "gate", "turn"})
    BY LabelsOK DEF PCs, Creating, Publishing
  <2> QED BY <1>1, <2>1, TruthMoves DEF Publishing
<1>2. CASE pend' = [pend EXCEPT ![p] = f] /\ Goto(p, "create")
  <2>1. f.ev = ev /\ Honest(f)
    BY DEF File
  <2> HIDE DEF f
  <2>2. /\ pc'[p] = "create" /\ pend'[p] = f
        /\ \A q \in Procs \ {p} : pc'[q] = pc[q] /\ pend'[q] = pend[q]
    BY <1>2, GotoOK DEF TypeInv, TypeOK, PCs
  <2>3. OnlyMoves(p) /\ Grows /\ CaptureInv'
    BY <2>2 DEF evidenceSeen, OnlyMoves, Grows, CaptureInv, TruthInv
  <2>4. KnowsTruth(p) /\ (Earned <=> Earned')
    BY DEF TruthInv, Earned, CompletedFile, evidenceSeen
  <2>5. Honest(pend[p])'
    BY <2>1, <2>2 DEF Honest, evidenceSeen
  <2>6. KnowsTruth(p)'
    BY <2>1, <2>2, <2>4, <2>5 DEF KnowsTruth, evidenceSeen, Publishing
  <2> QED BY <2>3, <2>6, TruthStep DEF TypeInv, evidenceSeen
<1> QED BY <1>1, <1>2 DEF AppendEvent

\* The six provider steps name their document; the other events are honest
\* whatever they carry, but for the terminal one.
LEMMA HonestKinds ==
    ASSUME NEW n, NEW kind, NEW m, NEW doc,
           kind \notin IndexedKinds \cup {"provider_output_retained", "terminal_published"}
    PROVE  Honest(File(n, Event(kind, m, doc)))
BY DEF Honest, File, Event, IndexedKinds

\* The steps of the provider phase that append an event.
LEMMA ProviderAppendsTruth ==
    ASSUME TypeInv, TruthInv, NEW p \in Procs,
           \/ RecordRequestIntent(p) \/ RecordProcessStarted(p)
           \/ RecordOutputRetained(p) \/ RecordCapturePublished(p)
           \/ RecordCaptureVerified(p) \/ RecordTurn(p)
    PROVE  TruthInv'
<1> USE DEF disk, world, bound, turn, result, evidence, terminalFiles, evidenceSeen
<1>1. TypeOK /\ KnowsTruth(p) /\ ProcOK(p) /\ CaptureInv
  BY DEF TypeInv, TruthInv
<1>2. ASSUME NEW kind \in ProviderKinds \ {"provider_request_intent"}, Recording(p, kind),
             pc[p] # "idle",
             kind = "provider_output_retained" => capture # "none",
             kind \in IndexedKinds => capture = "final",
             kind = "adapter_turn_normalized" => output = "good"
      PROVE  TruthInv'
  <2> DEFINE ev == Event(kind, 0, NoDoc)
             f == File(Cardinality(journal), ev)
  <2>1. ev \in Events /\ ev.kind = kind
    <3>1. /\ kind \in Kinds /\ NoDoc \in DocumentsOf(kind)
      BY StepNames DEF Kinds, DocumentsOf
    <3> QED BY <3>1, EventOK
  <2>2. kind \notin {"terminal_published", "verifier_recorded"}
    BY StepNames
  <2>3. f.ev = ev
    BY DEF File
  <2>4. AppendEvent(p, ev) /\ UNCHANGED << evidenceSeen, authority, report, passed, record >>
    BY <1>2 DEF Recording
  <2> HIDE DEF ev
  <2>5. Honest(f)
    BY <1>2, <2>1, <2>2, <2>3 DEF Honest
  <2> QED BY <1>2, <2>1, <2>2, <2>4, <2>5, TruthAppends
<1>3. /\ "provider_process_started" \in ProviderKinds \ {"provider_request_intent"}
      /\ "provider_output_retained" \in ProviderKinds \ {"provider_request_intent"}
      /\ "provider_capture_index_published" \in ProviderKinds \ {"provider_request_intent"}
      /\ "provider_capture_verified" \in ProviderKinds \ {"provider_request_intent"}
      /\ "adapter_turn_normalized" \in ProviderKinds \ {"provider_request_intent"}
  BY StepNames
<1>4. ASSUME NEW l \in {"verified", "gate", "plan", "decide", "failed"}, Moving(p, l),
             pc[p] # "idle", l \in {"verified", "gate"} => capture = "final"
      PROVE  TruthInv'
  BY <1>4, TruthMoves DEF Moving, PCs, Creating, Publishing
<1>5. CASE RecordRequestIntent(p)
  <2> DEFINE ev == Event("provider_request_intent", 0, authority[p])
  <2>1. ev \in Events /\ ev.kind = "provider_request_intent"
    BY <1>1, <1>5, EventOK, StepNames DEF RecordRequestIntent, ProcOK, Kinds, DocumentsOf
  <2>2. Honest(File(Cardinality(journal), ev))
    BY HonestKinds DEF IndexedKinds
  <2> HIDE DEF ev
  <2>3. CASE Current(p)
    <3>1. AppendEvent(p, ev)
      BY <1>5, <2>3 DEF RecordRequestIntent, ev
    <3> QED BY <1>5, <2>1, <2>2, <3>1, TruthAppends DEF RecordRequestIntent
  <2>4. CASE ~Current(p)
    BY <1>4, <1>5, <2>4 DEF RecordRequestIntent, Moving
  <2> QED BY <2>3, <2>4
<1>6. CASE RecordProcessStarted(p)
  BY <1>2, <1>3, <1>6 DEF RecordProcessStarted, IndexedKinds
<1>7. CASE RecordOutputRetained(p)
  BY <1>1, <1>2, <1>3, <1>7 DEF RecordOutputRetained, IndexedKinds, KnowsTruth
<1>8. CASE RecordCapturePublished(p)
  BY <1>1, <1>2, <1>3, <1>4, <1>8 DEF RecordCapturePublished, KnowsTruth
<1>9. CASE RecordCaptureVerified(p)
  BY <1>1, <1>2, <1>3, <1>4, <1>9 DEF RecordCaptureVerified, KnowsTruth
<1>10. CASE RecordTurn(p)
  <2>1. pc[p] = "turn" /\ capture = "final" /\ output = "good"
    BY <1>1, <1>10 DEF RecordTurn, KnowsTruth, CaptureInv, TypeOK
  <2> QED BY <1>2, <1>3, <1>4, <1>10, <2>1 DEF RecordTurn, After
<1> QED BY <1>5, <1>6, <1>7, <1>8, <1>9, <1>10

\* A verification on record is a report in the journal.
LEMMA CompleteIsReported ==
    ASSUME TypeOK, VerificationComplete(journal)
    PROVE  Reported
<1>1. Cardinality({}) = 0
  BY FS_EmptySet
<1>2. OfKind(journal, "verifier_recorded") # {}
  BY <1>1 DEF VerificationComplete, VerifierRecords
<1> QED BY <1>2 DEF Reported, OfKind

\* The steps of the turn and of the end of the run that append an event.
LEMMA TurnAppendsTruth ==
    ASSUME TypeInv, TruthInv, NEW p \in Procs,
           \/ AdmitEffect(p) \/ RecordCompletion(p) \/ BeginVerification(p)
           \/ RecordReport(p) \/ RecordTerminal(p) \/ Publish(p)
    PROVE  TruthInv'
<1> USE DEF disk, world, bound, turn, result, evidence, terminalFiles, evidenceSeen
<1>1. TypeOK /\ KnowsTruth(p) /\ ProcOK(p) /\ 0 \in Nat /\ VerifierRecords(journal) \in Nat
  BY CountOK DEF TypeInv, TypeOK, TruthInv
<1>2. \A kind \in {"effect_intent", "effect_completed", "verification_started"} :
         NoDoc \in DocumentsOf(kind)
  BY DEF DocumentsOf
<1>3. ASSUME NEW kind \in {"effect_intent", "effect_completed", "verification_started"},
             NEW n \in Nat, AppendEvent(p, Event(kind, n, NoDoc)), pc[p] # "idle",
             UNCHANGED << evidenceSeen, authority, report, passed, record >>
      PROVE  TruthInv'
  <2> DEFINE ev == Event(kind, n, NoDoc)
  <2>1. ev \in Events /\ ev.kind = kind
    BY <1>2, EventOK DEF Kinds
  <2>2. Honest(File(Cardinality(journal), ev))
    BY HonestKinds DEF IndexedKinds
  <2>3. AppendEvent(p, ev)
    BY <1>3
  <2> HIDE DEF ev
  <2> QED BY <1>3, <2>1, <2>2, <2>3, TruthAppends
<1>4. ASSUME NEW l \in {"seal", "verify", "failed", "termfile", "done"}, Goto(p, l),
             pc[p] # "idle",
             UNCHANGED << evidenceSeen, pend, authority, report, passed, record >>,
             l = "termfile" => Reported /\ pc[p] \in Publishing
      PROVE  TruthInv'
  <2>1. l \in Publishing /\ record[p] \in PassedRecords => Earned
    BY <1>1, <1>4 DEF KnowsTruth, Publishing
  <2> QED BY <1>4, <2>1, TruthMoves DEF PCs, Creating, Publishing
<1>5. CASE AdmitEffect(p)
  <2>1. next[p] \in Nat
    BY <1>1, EffectNumbers DEF TypeOK
  <2>2. CASE Current(p)
    <3>1. AppendEvent(p, Event("effect_intent", next[p], NoDoc))
      BY <1>5, <2>2 DEF AdmitEffect
    <3> QED BY <1>3, <1>5, <2>1, <3>1 DEF AdmitEffect, AtEffect
  <2>3. CASE ~Current(p)
    BY <1>4, <1>5, <2>3 DEF AdmitEffect, AtEffect
  <2> QED BY <2>2, <2>3
<1>6. CASE RecordCompletion(p)
  <2>1. next[p] \in Nat
    BY <1>1, EffectNumbers DEF TypeOK
  <2> QED BY <1>3, <1>6, <2>1 DEF RecordCompletion
<1>7. CASE BeginVerification(p)
  <2>1. CASE UNCHANGED pend /\ Goto(p, "verify")
    BY <1>4, <1>7, <2>1 DEF BeginVerification
  <2>2. CASE AppendEvent(p, Event("verification_started", VerifierRecords(journal), NoDoc))
    BY <1>1, <1>3, <1>7, <2>2 DEF BeginVerification
  <2> QED BY <1>7, <2>1, <2>2 DEF BeginVerification
<1>8. CASE RecordReport(p)
  <2> DEFINE ev == Event("verifier_recorded", 0, report[p])
  <2>1. ev \in Events /\ ev.kind = "verifier_recorded" /\ ev.doc = report[p]
    <3>1. ev \in Events
      BY <1>1, <1>8, EventOK DEF RecordReport, ProcOK, Kinds, DocumentsOf
    <3> QED BY <3>1 DEF Event
  <2>2. Honest(File(Cardinality(journal), ev))
    BY HonestKinds DEF IndexedKinds
  <2>3. AppendEvent(p, ev) /\ pc[p] # "idle"
    BY <1>8 DEF RecordReport
  <2> HIDE DEF ev
  <2> QED BY <1>8, <2>1, <2>2, <2>3, TruthAppends DEF RecordReport
<1>9. ASSUME AppendEvent(p, Event("terminal_published", 0, record[p])),
             pc[p] \in Publishing, record[p] \in terminals,
             UNCHANGED << evidenceSeen, authority, report, passed, record >>
      PROVE  TruthInv'
  <2> DEFINE ev == Event("terminal_published", 0, record[p])
  <2>1. ev \in Events /\ ev.kind = "terminal_published" /\ ev.doc = record[p]
    <3>1. ev \in Events
      BY <1>1, <1>9, EventOK DEF ProcOK, Kinds, DocumentsOf
    <3> QED BY <3>1 DEF Event
  <2>2. Honest(File(Cardinality(journal), ev))
    BY <1>9, <2>1 DEF Honest, File, IndexedKinds
  <2>3. AppendEvent(p, ev) /\ pc[p] # "idle"
    BY <1>9 DEF Publishing
  <2> HIDE DEF ev
  <2> QED BY <1>9, <2>1, <2>2, <2>3, TruthAppends
<1>10. CASE RecordTerminal(p)
  BY <1>1, <1>9, <1>10 DEF RecordTerminal, KnowsTruth, Publishing
<1>11. CASE Publish(p)
  <2>1. pc[p] \in Publishing /\ pc[p] # "idle"
    BY <1>11 DEF Publish, Publishing
  <2>2. CASE AppendEvent(p, Event("terminal_published", 0, record[p])) /\ terminals = {record[p]}
    BY <1>9, <1>11, <2>1, <2>2 DEF Publish
  <2>3. CASE UNCHANGED pend /\ (Goto(p, "failed") \/ Goto(p, "done"))
    BY <1>4, <1>11, <2>1, <2>3 DEF Publish
  <2>4. CASE UNCHANGED pend /\ Goto(p, "termfile") /\ VerificationComplete(journal)
    BY <1>1, <1>4, <1>11, <2>1, <2>4, CompleteIsReported DEF Publish
  <2> QED BY <1>11, <2>2, <2>3, <2>4 DEF Publish
<1> QED BY <1>5, <1>6, <1>7, <1>8, <1>10, <1>11

-----------------------------------------------------------------------------
(* The other steps.                                                         *)

\* Starting a process, which takes its authority from the world or the journal.
LEMMA StartTruth ==
    ASSUME TypeInv, TruthInv, NEW p \in Procs, StartLive(p) \/ StartRecover(p)
    PROVE  TruthInv'
<1> USE DEF disk, world, turn, result, evidence, terminalFiles
<1>1. PICK l \in {"intent", "restore"}, a \in Authorities :
         Goto(p, l) /\ authority' = [authority EXCEPT ![p] = a]
  <2>1. CASE StartLive(p)
    BY <2>1 DEF StartLive
  <2>2. CASE StartRecover(p)
    <3>1. PICK f \in OfKind(journal, "provider_request_intent") :
                 authority' = [authority EXCEPT ![p] = f.ev.doc]
      BY <2>2 DEF StartRecover
    <3>2. f.ev.doc \in Authorities
      BY <3>1 DEF TypeInv, TypeOK, OfKind, Files, Events, DocumentsOf
    <3> QED BY <2>2, <3>1, <3>2 DEF StartRecover
  <2> QED BY <2>1, <2>2
<1>2. /\ pc'[p] = l /\ authority'[p] = a
      /\ \A q \in Procs \ {p} : pc'[q] = pc[q] /\ authority'[q] = authority[q]
  BY <1>1, GotoOK DEF TypeInv, TypeOK, PCs
<1>3. UNCHANGED << evidenceSeen, pend, report, passed, record >>
  BY DEF StartLive, StartRecover, evidenceSeen
<1>4. OnlyMoves(p) /\ Grows /\ CaptureInv'
  BY <1>2, <1>3 DEF evidenceSeen, OnlyMoves, Grows, CaptureInv, TruthInv
<1>5. KnowsTruth(p) /\ (Earned <=> Earned')
  BY <1>3 DEF TruthInv, Earned, CompletedFile, evidenceSeen
<1>6. KnowsTruth(p)'
  BY <1>2, <1>3, <1>5 DEF KnowsTruth, Creating, Publishing
<1> QED BY <1>3, <1>4, <1>6, TruthStep DEF TypeInv, evidenceSeen

\* The provider process, and the files of its capture.
LEMMA CaptureTruth ==
    ASSUME TypeInv, TruthInv, NEW p \in Procs,
           RunProvider(p) \/ StageCapture(p) \/ LinkCapture(p) \/ UnlinkStaged(p)
    PROVE  TruthInv'
<1> USE DEF disk, world, bound, turn, result, evidence, terminalFiles
<1>1. TypeOK /\ KnowsTruth(p) /\ CaptureInv
  BY DEF TypeInv, TruthInv
<1>2. PICK l \in {"stage", "retained", "unlink", "published", "failed"} : Goto(p, l)
  BY DEF RunProvider, StageCapture, LinkCapture, UnlinkStaged
<1>3. /\ pc'[p] = l
      /\ \A q \in Procs \ {p} : pc'[q] = pc[q]
  BY <1>1, <1>2, GotoOK DEF PCs
<1>4. UNCHANGED << journal, torn, terminals, tornTerminals, pend, authority, report,
                   passed, record >> /\ pc[p] # "idle"
  BY DEF RunProvider, StageCapture, LinkCapture, UnlinkStaged
<1>5. /\ Grows /\ CaptureInv'
      /\ pc'[p] = "stage" => providerRuns' > 0
      /\ pc'[p] = "retained" => capture' # "none"
      /\ pc'[p] = "published" => capture' = "final"
  <2>1. CASE RunProvider(p)
    <3>1. /\ providerRuns \in Nat /\ providerRuns' = providerRuns + 1
          /\ UNCHANGED << journal, capture, output, terminals >>
          /\ l \in {"stage", "failed"}
      BY <1>1, <1>2, <1>3, <2>1, GotoOK DEF RunProvider, TypeOK, PCs
    <3> QED BY <1>1, <1>3, <3>1 DEF Grows, CaptureInv
  <2>2. CASE StageCapture(p)
    <3>1. CASE capture = "none"
      <4>1. /\ capture' = "staged" /\ output' \in Outputs /\ l = "retained"
            /\ providerRuns > 0 /\ UNCHANGED << journal, terminals, providerRuns >>
        BY <1>1, <1>3, <2>2, <3>1, GotoOK DEF StageCapture, KnowsTruth, PCs
      <4>2. output' # "none"
        BY <4>1 DEF Outputs
      <4> QED BY <1>3, <3>1, <4>1, <4>2 DEF Grows, CaptureInv
    <3>2. CASE capture # "none"
      <4>1. l = "failed" /\ UNCHANGED << capture, output, journal, terminals, providerRuns >>
        BY <1>1, <1>3, <2>2, <3>2, GotoOK DEF StageCapture, PCs
      <4> QED BY <1>1, <1>3, <4>1 DEF Grows, CaptureInv
    <3> QED BY <3>1, <3>2
  <2>3. CASE LinkCapture(p)
    <3>1. /\ l \in {"unlink", "failed"}
          /\ UNCHANGED << output, journal, terminals, providerRuns >>
          /\ capture' = capture \/ (capture = "staged" /\ capture' = "both")
      BY <1>1, <1>3, <2>3, GotoOK DEF LinkCapture, PCs
    <3> QED BY <1>1, <1>3, <3>1 DEF Grows, CaptureInv
  <2>4. CASE UnlinkStaged(p)
    <3>1. /\ UNCHANGED << output, journal, terminals, providerRuns >>
          /\ \/ l = "failed" /\ capture' = capture
             \/ l = "published" /\ capture = "both" /\ capture' = "final"
      BY <1>1, <1>3, <2>4, GotoOK DEF UnlinkStaged, PCs
    <3> QED BY <1>1, <1>3, <3>1 DEF Grows, CaptureInv
  <2> QED BY <2>1, <2>2, <2>3, <2>4
<1>6. OnlyMoves(p)
  BY <1>3, <1>4 DEF OnlyMoves
<1>7. Earned => Earned'
  BY <1>1, <1>5, TruthStays
<1>8. KnowsTruth(p)'
  BY <1>1, <1>3, <1>4, <1>5, <1>7 DEF KnowsTruth, Creating, Publishing
<1> QED BY <1>1, <1>4, <1>5, <1>6, <1>8, TruthStep

\* The steps that only read or judge.
LEMMA MoversTruth ==
    ASSUME TypeInv, TruthInv, NEW p \in Procs,
           \/ RestoreCapture(p) \/ GateCapture(p) \/ RejectTurn(p) \/ Decide(p)
           \/ Plan(p) \/ SkipCompleted(p) \/ StopOnUnknown(p) \/ EngineStops(p)
           \/ Execute(p) \/ Verify(p) \/ SealSuccess(p) \/ SealFailure(p)
           \/ Crash(p) \/ IoFails(p)
    PROVE  TruthInv'
<1> USE DEF disk, world, bound, turn, result, evidence, terminalFiles, evidenceSeen
<1>1. TypeOK /\ KnowsTruth(p) /\ CaptureInv
  BY DEF TypeInv, TruthInv
<1>2. ASSUME NEW l \in {"failed", "link", "unlink", "published", "turn", "plan", "engine",
                        "seal", "complete", "report", "done", "crashed"}, Goto(p, l),
             pc[p] # "idle",
             UNCHANGED << evidenceSeen, pend, authority, passed >>,
             \A q \in Procs \ {p} : record'[q] = record[q] /\ report'[q] = report[q],
             l \in {"published", "turn"} => capture = "final",
             l = "turn" => output # "rejected"
      PROVE  TruthInv'
  BY <1>2, TruthMoves DEF PCs, Creating, Publishing
<1>3. CASE RestoreCapture(p)
  <2>1. PICK l \in {"failed", "link", "unlink", "published"} :
           l = Repair /\ (l = "published" => capture = "final")
    BY <1>1 DEF Repair, TypeOK
  <2> QED BY <1>2, <1>3, <2>1 DEF RestoreCapture, Moving
<1>4. CASE GateCapture(p)
  BY <1>1, <1>2, <1>4 DEF GateCapture, KnowsTruth
<1>5. CASE RejectTurn(p)
  BY <1>2, <1>5 DEF RejectTurn
<1>6. ASSUME pc[p] # "idle", Goto(p, "publish"),
             UNCHANGED << evidenceSeen, pend, authority, passed, report >>,
             \A q \in Procs \ {p} : record'[q] = record[q],
             record'[p] \in PassedRecords => Earned
      PROVE  TruthInv'
  BY <1>6, TruthMoves DEF PCs, Creating, Publishing
<1>7. CASE Decide(p)
  <2>1. CASE UNCHANGED record /\ (Goto(p, "failed") \/ Goto(p, "plan"))
    BY <1>2, <1>7, <2>1 DEF Decide
  <2>2. CASE Goto(p, "publish") /\ \E r \in terminals : record' = [record EXCEPT ![p] = r]
    <3>1. PICK r \in terminals : record' = [record EXCEPT ![p] = r]
      BY <2>2
    <3>2. record'[p] = r /\ \A q \in Procs \ {p} : record'[q] = record[q]
      BY <1>1, <3>1 DEF TypeOK
    <3>3. r \in PassedRecords => Earned
      BY DEF TruthInv
    <3> QED BY <1>6, <1>7, <2>2, <3>2, <3>3 DEF Decide
  <2> QED BY <1>7, <2>1, <2>2 DEF Decide
<1>8. CASE Plan(p)
  BY <1>2, <1>8 DEF Plan
<1>9. CASE SkipCompleted(p)
  <2>1. Goto(p, "engine") /\ pc[p] # "idle"
    BY <1>1, <1>9 DEF SkipCompleted, AtEffect, Goto, TypeOK
  <2> QED BY <1>2, <1>9, <2>1 DEF SkipCompleted
<1>10. CASE StopOnUnknown(p) \/ EngineStops(p)
  BY <1>2, <1>10 DEF StopOnUnknown, EngineStops, AtEffect, Moving
<1>11. CASE Execute(p)
  BY <1>2, <1>11 DEF Execute
<1>12. CASE Verify(p)
  <2>1. \A q \in Procs \ {p} : report'[q] = report[q]
    BY <1>1, <1>12 DEF Verify, TypeOK
  <2> QED BY <1>2, <1>12, <2>1 DEF Verify
<1>13. ASSUME Compose(p), pc[p] # "idle",
              UNCHANGED << evidenceSeen, pend, authority, passed, report >>
       PROVE  TruthInv'
  <2>1. CASE UNCHANGED record /\ Goto(p, "done")
    BY <1>2, <1>13, <2>1
  <2>2. CASE /\ Goto(p, "publish")
             /\ \E r \in Records : /\ (r \in PassedRecords) = passed[p]
                                   /\ record' = [record EXCEPT ![p] = r]
    <3>1. PICK r \in Records : /\ (r \in PassedRecords) = passed[p]
                               /\ record' = [record EXCEPT ![p] = r]
      BY <2>2
    <3>2. record'[p] = r /\ \A q \in Procs \ {p} : record'[q] = record[q]
      BY <1>1, <3>1 DEF TypeOK
    <3>3. r \in PassedRecords => passed[p]
      BY <3>1
    <3>4. r \in PassedRecords => Earned
      BY <1>1, <3>3 DEF KnowsTruth
    <3> QED BY <1>6, <1>13, <2>2, <3>2, <3>4
  <2> QED BY <1>13, <2>1, <2>2 DEF Compose
<1>14. CASE SealSuccess(p)
  BY <1>13, <1>14 DEF SealSuccess
<1>15. CASE SealFailure(p)
  <2>1. pc[p] # "idle" /\ UNCHANGED << evidenceSeen, pend, authority, passed, report >>
    BY <1>15 DEF SealFailure
  <2>2. CASE captureTerminal
    BY <1>2, <1>15, <2>1, <2>2 DEF SealFailure
  <2>3. CASE ~captureTerminal
    BY <1>13, <1>15, <2>1, <2>3 DEF SealFailure
  <2> QED BY <2>2, <2>3
<1>16. CASE Crash(p)
  BY <1>2, <1>16 DEF Crash, Moving, Running
<1>17. CASE IoFails(p)
  <2>1. PICK l \in {"failed", "seal"} : Moving(p, l)
    BY <1>17, LabelsOK DEF IoFails
  <2> QED BY <1>2, <1>17, <2>1 DEF IoFails, Moving
<1> QED
  BY <1>3, <1>4, <1>5, <1>7, <1>8, <1>9, <1>10, <1>11, <1>12, <1>14, <1>15, <1>16, <1>17

\* Creating an event file: the process knew what the file tells.
LEMMA CreateTruth ==
    ASSUME TypeInv, TruthInv, NEW p \in Procs, CreateEvent(p)
    PROVE  TruthInv'
<1> USE DEF world, bound, turn, result, evidence, terminalFiles
<1>1. TypeOK /\ KnowsTruth(p) /\ pc[p] = "create" /\ Honest(pend[p])
  BY DEF TypeInv, TruthInv, CreateEvent, KnowsTruth, Creating
<1>2. CASE pend[p] \in journal \cup torn
  <2>1. OnError(p, pend[p].ev.kind) \in {"failed", "seal"}
    BY LabelsOK
  <2>2. PICK l \in {"failed", "seal"} : Goto(p, l)
    BY <1>2, <2>1 DEF CreateEvent
  <2>3. UNCHANGED << evidenceSeen, pend, authority, passed, record, report >>
    BY <1>2 DEF CreateEvent, evidenceSeen
  <2> QED BY <1>1, <2>2, <2>3, TruthMoves DEF PCs, Creating, Publishing
<1>3. CASE pend[p] \notin journal \cup torn
  <2>1. /\ torn' = torn \cup {pend[p]} /\ Goto(p, "sync")
        /\ UNCHANGED << journal, capture, output, terminals, tornTerminals, providerRuns,
                        pend, authority, report, passed, record >>
    BY <1>3 DEF CreateEvent
  <2>2. /\ pc'[p] = "sync"
        /\ \A q \in Procs \ {p} : pc'[q] = pc[q]
    BY <1>1, <2>1, GotoOK DEF PCs
  <2>3. OnlyMoves(p) /\ Grows /\ CaptureInv'
    BY <2>1, <2>2 DEF OnlyMoves, Grows, CaptureInv, TruthInv
  <2>4. (Earned <=> Earned') /\ \A f : Honest(f) <=> Honest(f)'
    BY <2>1 DEF Earned, CompletedFile, Honest
  <2>5. KnowsTruth(p)'
    <3>1. Honest(pend[p])'
      BY <1>1, <2>1 DEF Honest
    <3> QED BY <1>1, <2>1, <2>2, <2>4, <3>1 DEF KnowsTruth, Creating, Publishing
  <2>6. \A f \in (journal' \cup torn') \ (journal \cup torn) : Honest(f)'
    BY <1>1, <2>1, <2>4
  <2> QED BY <1>1, <2>1, <2>3, <2>5, <2>6, TruthStep
<1> QED BY <1>2, <1>3

\* The event becomes part of the journal, and its process learns what it tells.
LEMMA SyncTruth ==
    ASSUME TypeInv, SafeInv, TruthInv, NEW p \in Procs, SyncEvent(p)
    PROVE  TruthInv'
<1> USE DEF world, evidence, terminalFiles
<1> DEFINE f == pend[p]
           kind == pend[p].ev.kind
           l == After(p, kind)
<1>1. /\ TypeOK /\ KnowsTruth(p) /\ pc[p] = "sync" /\ pc[p] \in Creating /\ Honest(f)
      /\ f \in torn
      /\ journal' = journal \cup {f} /\ torn' = torn \ {f}
      /\ UNCHANGED << capture, output, terminals, tornTerminals, providerRuns, pend,
                      authority, report, record >>
  BY DEF TypeInv, TruthInv, SyncEvent, KnowsTruth, Creating, SafeInv, WriterInv
<1>2. /\ l \in PCs \ (Creating \cup Publishing \cup
                      {"idle", "stage", "retained", "published", "turn"})
      /\ l = "verified" => kind = "provider_capture_index_published"
      /\ l = "gate" => kind = "provider_capture_verified"
  BY DEF After, PCs, Creating, Publishing
<1>3. Goto(p, l) /\ passed' = [passed EXCEPT ![p] = Verdict(p, kind)]
  BY DEF SyncEvent
<1> HIDE DEF l
<1>4. /\ pc'[p] = l /\ passed'[p] = Verdict(p, kind)
      /\ \A q \in Procs \ {p} : pc'[q] = pc[q] /\ passed'[q] = passed[q]
  BY <1>1, <1>2, <1>3, GotoOK DEF TypeOK
<1>5. OnlyMoves(p) /\ Grows /\ CaptureInv'
  BY <1>1, <1>4 DEF OnlyMoves, Grows, CaptureInv, TruthInv
<1>6. Earned => Earned'
  BY <1>5, TruthStays DEF TruthInv
<1>7. passed'[p] => Earned'
  <2>1. CASE passed[p]
    BY <1>1, <1>6, <2>1 DEF KnowsTruth
  <2>2. CASE kind = "verifier_recorded" /\ report[p] \in Passing
    <3>1. f.ev.doc \in Passing
      BY <1>1, <2>2 DEF KnowsTruth
    <3>2. next[p] = NumEffects + 1 /\ TurnFile \in journal
      BY <1>1, <2>2 DEF SafeInv, KnownInv, Judging, HoldsTurn, TurnKinds
    <3>3. \A e \in Effects : CompletedFile(e) \in journal
      BY <3>2, EffectNumbers DEF SafeInv, KnownInv
    <3>4. output = "good"
      <4>1. TurnFile.ev.kind = "adapter_turn_normalized"
        BY DEF TurnFile, StepFile, File, Event, ProviderSteps
      <4> QED BY <3>2, <4>1 DEF TruthInv, Honest
    <3> QED BY <1>1, <2>2, <3>1, <3>3, <3>4 DEF Earned, CompletedFile
  <2> QED BY <1>4, <2>1, <2>2 DEF Verdict
<1>8. KnowsTruth(p)'
  <2>1. l \in {"verified", "gate"} => capture' = "final"
    BY <1>1, <1>2 DEF Honest, IndexedKinds
  <2>2. authority'[p] \in Authorities
    BY <1>1 DEF KnowsTruth
  <2> QED
    BY <1>2, <1>4, <1>7, <2>1, <2>2 DEF KnowsTruth, Publishing
<1>9. (journal' \cup torn') \ (journal \cup torn) = {}
  BY <1>1
<1> QED BY <1>1, <1>5, <1>8, <1>9, TruthStep

\* Writing the terminal record, whose process knew that it is earned.
LEMMA TerminalTruth ==
    ASSUME TypeInv, TruthInv, NEW p \in Procs, CreateTerminal(p) \/ SyncTerminal(p)
    PROVE  TruthInv'
<1> USE DEF world, bound, turn, result, evidence
<1>1. TypeOK /\ KnowsTruth(p) /\ pc[p] \in {"termfile", "termsync"} /\ pc[p] \in Publishing
  BY DEF TypeInv, TruthInv, CreateTerminal, SyncTerminal, Publishing
<1>2. PICK l \in {"failed", "termsync", "termevent"} : Goto(p, l)
  BY DEF CreateTerminal, SyncTerminal
<1>3. /\ pc'[p] = l
      /\ \A q \in Procs \ {p} : pc'[q] = pc[q]
  BY <1>1, <1>2, GotoOK DEF PCs
<1>4. /\ UNCHANGED << journal, torn, capture, output, providerRuns, pend, authority,
                      report, passed, record >>
      /\ terminals \subseteq terminals'
      /\ terminals' \cup tornTerminals' \subseteq terminals \cup tornTerminals \cup {record[p]}
  BY DEF CreateTerminal, SyncTerminal
<1>5. OnlyMoves(p) /\ Grows /\ CaptureInv'
  BY <1>3, <1>4 DEF OnlyMoves, Grows, CaptureInv, TruthInv
<1>6. (Earned <=> Earned') /\ (Reported <=> Reported')
  BY <1>4 DEF Earned, CompletedFile, Reported
<1>7. l = "termevent" => record[p] \in terminals'
  BY <1>1, <1>2, <1>3, GotoOK DEF CreateTerminal, SyncTerminal, PCs
<1>8. KnowsTruth(p)'
  BY <1>1, <1>3, <1>4, <1>6, <1>7 DEF KnowsTruth, Creating, Publishing
<1>9. record[p] \in PassedRecords => Earned
  BY <1>1 DEF KnowsTruth
<1> QED BY <1>1, <1>4, <1>5, <1>8, <1>9, TruthStep

\* What the world does to no process.
LEMMA WorldTruth ==
    ASSUME TruthInv, (\E a \in Authorities : Expire(a)) \/ UNCHANGED vars
    PROVE  TruthInv'
<1>1. UNCHANGED << evidenceSeen, pc, pend, authority, report, passed, record >>
  BY DEF Expire, vars, procs, disk, world, evidence, terminalFiles, evidenceSeen, bound,
     result
<1>2. \A f : Honest(f) <=> Honest(f)'
  BY <1>1 DEF Honest, evidenceSeen
<1>3. (Earned <=> Earned') /\ (Reported <=> Reported') /\ (CaptureInv <=> CaptureInv')
  BY <1>1 DEF Earned, CompletedFile, Reported, CaptureInv, evidenceSeen
<1>4. ASSUME NEW p \in Procs PROVE KnowsTruth(p)'
  <2>1. KnowsTruth(p)
    BY DEF TruthInv
  <2>2. Honest(pend[p])' <=> Honest(pend[p])
    BY <1>1 DEF Honest, evidenceSeen
  <2> QED BY <1>1, <1>3, <2>1, <2>2 DEF KnowsTruth, evidenceSeen
<1> QED BY <1>1, <1>2, <1>3, <1>4 DEF TruthInv, evidenceSeen

-----------------------------------------------------------------------------
(* The theorems.                                                            *)

LEMMA TruthInvariant == Spec => []TruthInv
<1>1. Init => TruthInv
  BY DEF Init, TruthInv, CaptureInv, KnowsTruth, Creating, Publishing
<1>2. ASSUME TypeInv, SafeInv, TruthInv, [Next]_vars PROVE TruthInv'
  <2>1. CASE \E p \in Procs : StartLive(p) \/ StartRecover(p)
    BY <1>2, <2>1, StartTruth
  <2>2. CASE \E p \in Procs : Step(p)
    BY <1>2, <2>2, ProviderAppendsTruth, TurnAppendsTruth, CaptureTruth, MoversTruth,
      CreateTruth, SyncTruth, TerminalTruth DEF Step
  <2>3. CASE \E p \in Procs : Crash(p) \/ IoFails(p)
    BY <1>2, <2>3, MoversTruth
  <2>4. CASE (\E a \in Authorities : Expire(a)) \/ UNCHANGED vars
    BY <1>2, <2>4, WorldTruth
  <2> QED BY <1>2, <2>1, <2>2, <2>3, <2>4 DEF Next, Finished
<1>3. TypeInv /\ SafeInv /\ TruthInv /\ [Next]_vars => TruthInv'
  BY <1>2
<1> QED BY <1>1, <1>3, TypeInvariant, SafeInvariant, PTL DEF Spec

\* No event file, written or half-written, tells of a capture, a completed effect
\* or a terminal record that is not there: recovery may trust a bare event.
THEOREM EventsAreTrue == Spec => []JournalTrailsDisk
<1>1. SafeInv /\ TruthInv => JournalTrailsDisk
  <2> SUFFICES ASSUME SafeInv, TruthInv PROVE JournalTrailsDisk
    OBVIOUS
  <2>1. \A f \in OnDisk : Honest(f) /\ InPlace(f)
    BY DEF OnDisk, SafeInv, PlaceInv, TruthInv
  <2>2. ASSUME NEW e \in Completed(OnDisk) PROVE executed[e] > 0
    <3>1. PICK f \in OnDisk : f.ev.kind = "effect_completed" /\ f.ev.n = e
      BY <2>2 DEF Completed, OfKind
    <3>2. e \in Effects /\ f = CompletedFile(e)
      BY <2>1, <3>1 DEF InPlace
    <3> QED BY <3>1, <3>2 DEF SafeInv, EffectInv, OnDisk
  <2>3. TerminalDocs(OnDisk) \subseteq terminals
    BY <2>1 DEF Honest, TerminalDocs, OfKind
  <2> QED
    BY <2>1, <2>2, <2>3 DEF JournalTrailsDisk, Has, OfKind, Honest, IndexedKinds
<1> QED BY <1>1, SafeInvariant, TruthInvariant, PTL

\* A Passed terminal record, even one half-written, stands for a good output, a turn
\* performed exactly once and a passing report on record.
THEOREM PassedEarned == Spec => []PassedIsEarned
<1>1. TypeInv /\ SafeInv /\ TruthInv => PassedIsEarned
  <2> SUFFICES ASSUME TypeInv, SafeInv, TruthInv, Earned
               PROVE  /\ output = "good"
                      /\ \A e \in Effects : executed[e] = 1 /\ e \in Completed(journal)
                      /\ \E f \in OfKind(journal, "verifier_recorded") : f.ev.doc \in Passing
    BY DEF PassedIsEarned, TruthInv
  <2>1. ASSUME NEW e \in Effects PROVE executed[e] = 1 /\ e \in Completed(journal)
    <3>1. CompletedFile(e) \in journal
      BY DEF Earned
    <3>2. executed[e] \in Nat /\ executed[e] > 0 /\ executed[e] <= 1
      BY <3>1 DEF TypeInv, TypeOK, SafeInv, EffectInv
    <3>3. e \in Completed(journal)
      BY <3>1 DEF Completed, OfKind, CompletedFile, File, Event
    <3> QED BY <3>2, <3>3
  <2> QED BY <2>1 DEF Earned, OfKind
<1> QED BY <1>1, TypeInvariant, SafeInvariant, TruthInvariant, PTL

-----------------------------------------------------------------------------
(* The steps.                                                              *)

\* The steps that write neither an event, nor an effect, nor the provider's run,
\* nor a terminal record.
QuietStep(p) ==
    \/ StartLive(p) \/ StartRecover(p)
    \/ RecordRequestIntent(p) \/ RecordProcessStarted(p)
    \/ StageCapture(p) \/ RecordOutputRetained(p)
    \/ LinkCapture(p) \/ UnlinkStaged(p) \/ RestoreCapture(p)
    \/ RecordCapturePublished(p) \/ RecordCaptureVerified(p)
    \/ GateCapture(p) \/ RejectTurn(p) \/ RecordTurn(p) \/ Decide(p)
    \/ Plan(p) \/ SkipCompleted(p) \/ StopOnUnknown(p) \/ AdmitEffect(p)
    \/ EngineStops(p) \/ RecordCompletion(p)
    \/ BeginVerification(p) \/ Verify(p) \/ RecordReport(p)
    \/ SealSuccess(p) \/ SealFailure(p)
    \/ Publish(p) \/ CreateTerminal(p) \/ RecordTerminal(p)
    \/ Crash(p) \/ IoFails(p)

\* Every step is of one of these kinds.
LEMMA StepKinds ==
    ASSUME [Next]_vars
    PROVE  \/ \E p \in Procs :
                 \/ QuietStep(p) \/ RunProvider(p) \/ Execute(p)
                 \/ CreateEvent(p) \/ SyncEvent(p) \/ SyncTerminal(p)
           \/ (\E a \in Authorities : Expire(a)) \/ UNCHANGED vars
BY DEF Next, Step, Finished, QuietStep

\* What such a step leaves alone.
LEMMA QuietKeeps ==
    ASSUME NEW p \in Procs, QuietStep(p)
    PROVE  UNCHANGED << journal, torn, executed, providerRuns, terminals, expired >>
<1> USE DEF disk, world, evidence, terminalFiles
<1>1. CASE StartLive(p) \/ StartRecover(p)
  BY <1>1 DEF StartLive, StartRecover
<1>2. CASE \/ RecordRequestIntent(p) \/ RecordProcessStarted(p) \/ StageCapture(p)
           \/ RecordOutputRetained(p) \/ LinkCapture(p) \/ UnlinkStaged(p)
           \/ RestoreCapture(p) \/ RecordCapturePublished(p)
           \/ RecordCaptureVerified(p) \/ GateCapture(p) \/ RejectTurn(p) \/ RecordTurn(p)
  BY <1>2 DEF RecordRequestIntent, RecordProcessStarted, StageCapture, RecordOutputRetained,
    LinkCapture, UnlinkStaged, RestoreCapture, RecordCapturePublished,
    RecordCaptureVerified, GateCapture, RejectTurn, RecordTurn, Recording, Moving
<1>3. CASE \/ Decide(p) \/ Plan(p) \/ SkipCompleted(p) \/ StopOnUnknown(p) \/ AdmitEffect(p)
           \/ EngineStops(p) \/ RecordCompletion(p) \/ BeginVerification(p) \/ Verify(p)
           \/ RecordReport(p)
  BY <1>3 DEF Decide, Plan, SkipCompleted, StopOnUnknown, AdmitEffect, EngineStops,
    RecordCompletion, BeginVerification, Verify, RecordReport, Moving
<1>4. CASE \/ SealSuccess(p) \/ SealFailure(p) \/ Publish(p) \/ CreateTerminal(p)
           \/ RecordTerminal(p) \/ Crash(p) \/ IoFails(p)
  BY <1>4 DEF SealSuccess, SealFailure, Publish, CreateTerminal, RecordTerminal, Crash,
    IoFails, Moving
<1> QED BY <1>1, <1>2, <1>3, <1>4 DEF QuietStep

-----------------------------------------------------------------------------
(* Where a quiet step can take a process.                                   *)

\* The others stay where they are, with the effect they have in hand.
OthersStay(p) ==
    \A q \in Procs \ {p} : pc'[q] = pc[q] /\ pend'[q] = pend[q] /\ next'[q] = next[q]

\* p gives an event file its name, which for an effect is the effect in hand, and
\* announces an effect only under a current authority.
Announces(p, ev) ==
    /\ AppendEvent(p, ev)
    /\ UNCHANGED next
    /\ ev.kind = "effect_intent" => Current(p) /\ pc[p] = "engine"
    /\ ev.kind = "effect_completed" => pc[p] = "complete" /\ ev.n = next[p]

\* p moves to a label at which it has no file and no effect in hand.
WalksTo(p, l) ==
    /\ Goto(p, l) /\ UNCHANGED pend
    /\ \A q \in Procs \ {p} : next'[q] = next[q]

Idle == PCs \ (Creating \cup Acting)

\* A quiet step announces an event or walks.
LEMMA QuietMoves ==
    ASSUME TypeInv, NEW p \in Procs, QuietStep(p)
    PROVE  (\E ev : Announces(p, ev)) \/ (\E l \in Idle : WalksTo(p, l))
<1> USE DEF disk, world, bound, turn, result
<1>1. TypeOK
  BY DEF TypeInv
<1>2. ASSUME NEW l \in {"intent", "restore", "stage", "retained", "link", "unlink", "published",
                        "verified", "gate", "turn", "decide", "plan", "engine", "verify",
                        "report", "seal", "publish", "termfile", "termsync", "done",
                        "failed", "crashed"},
             Goto(p, l), UNCHANGED << pend, next >>
      PROVE  \E k \in Idle : WalksTo(p, k)
  <2>1. l \in Idle
    BY DEF Idle, PCs, Creating, Acting
  <2> QED BY <1>2, <2>1 DEF WalksTo
<1>3. ASSUME NEW kind \in ProviderKinds, NEW n, NEW doc,
             AppendEvent(p, Event(kind, n, doc)), UNCHANGED next
      PROVE  \E ev : Announces(p, ev)
  <2> DEFINE ev == Event(kind, n, doc)
  <2>1. ev.kind \notin EffectKinds
    BY StepNames DEF Event, EffectKinds
  <2>2. AppendEvent(p, ev)
    BY <1>3
  <2> HIDE DEF ev
  <2> QED BY <1>3, <2>1, <2>2 DEF Announces, EffectKinds
<1>4. ASSUME NEW kind \in TailKinds, NEW n, NEW doc,
             AppendEvent(p, Event(kind, n, doc)), UNCHANGED next
      PROVE  \E ev : Announces(p, ev)
  <2> DEFINE ev == Event(kind, n, doc)
  <2>1. ev.kind \notin EffectKinds
    BY DEF Event, EffectKinds, TailKinds
  <2>2. AppendEvent(p, ev)
    BY <1>4
  <2> HIDE DEF ev
  <2> QED BY <1>4, <2>1, <2>2 DEF Announces, EffectKinds
<1>5. /\ "provider_request_intent" \in ProviderKinds
      /\ "provider_process_started" \in ProviderKinds
      /\ "provider_output_retained" \in ProviderKinds
      /\ "provider_capture_index_published" \in ProviderKinds
      /\ "provider_capture_verified" \in ProviderKinds
      /\ "adapter_turn_normalized" \in ProviderKinds
  BY StepNames
<1>6. CASE StartLive(p) \/ StartRecover(p)
  BY <1>2, <1>6 DEF StartLive, StartRecover
<1>7. CASE RecordRequestIntent(p) \/ RecordProcessStarted(p) \/ RecordOutputRetained(p)
  BY <1>2, <1>3, <1>5, <1>7 DEF RecordRequestIntent, RecordProcessStarted, RecordOutputRetained,
    Recording
<1>8. CASE StageCapture(p) \/ LinkCapture(p) \/ UnlinkStaged(p)
  BY <1>2, <1>8 DEF StageCapture, LinkCapture, UnlinkStaged
<1>9. CASE RestoreCapture(p)
  <2>1. Repair \in {"failed", "link", "unlink", "published"}
    BY <1>1 DEF Repair, TypeOK
  <2>2. PICK l \in {"failed", "link", "unlink", "published"} : Moving(p, l)
    BY <1>9, <2>1 DEF RestoreCapture
  <2> QED BY <1>2, <2>2 DEF Moving
<1>10. CASE RecordCapturePublished(p)
  BY <1>2, <1>3, <1>5, <1>10 DEF RecordCapturePublished, Recording, Moving
<1>11. CASE RecordCaptureVerified(p)
  BY <1>2, <1>3, <1>5, <1>11 DEF RecordCaptureVerified, Recording, Moving
<1>12. CASE RecordTurn(p)
  <2>1. After(p, "adapter_turn_normalized") \in {"plan", "decide"}
    BY DEF After
  <2> QED BY <1>2, <1>3, <1>5, <1>12, <2>1 DEF RecordTurn, Recording, Moving
<1>13. CASE GateCapture(p) \/ RejectTurn(p)
  BY <1>2, <1>13 DEF GateCapture, RejectTurn
<1>14. CASE Decide(p) \/ Plan(p) \/ Verify(p)
  BY <1>2, <1>14 DEF Decide, Plan, Verify
<1>15. CASE SkipCompleted(p)
  <2>1. "engine" \in Idle /\ Goto(p, "engine")
    BY <1>1, <1>15 DEF SkipCompleted, AtEffect, Goto, TypeOK, Idle, PCs, Creating, Acting
  <2>2. \A q \in Procs \ {p} : next'[q] = next[q]
    BY <1>1, <1>15 DEF SkipCompleted, TypeOK
  <2> QED BY <1>15, <2>1, <2>2 DEF SkipCompleted, WalksTo
<1>16. CASE StopOnUnknown(p) \/ EngineStops(p)
  BY <1>2, <1>16 DEF StopOnUnknown, EngineStops, Moving
<1>17. CASE AdmitEffect(p)
  <2> DEFINE ev == Event("effect_intent", next[p], NoDoc)
  <2>1. ev.kind = "effect_intent"
    BY DEF Event
  <2>2. CASE Current(p)
    <3>1. AppendEvent(p, ev) /\ pc[p] = "engine" /\ UNCHANGED next
      BY <1>17, <2>2 DEF AdmitEffect, AtEffect
    <3> HIDE DEF ev
    <3> QED BY <2>1, <2>2, <3>1 DEF Announces
  <2>3. CASE ~Current(p)
    BY <1>2, <1>17, <2>3 DEF AdmitEffect
  <2> QED BY <2>2, <2>3
<1>18. CASE RecordCompletion(p)
  <2> DEFINE ev == Event("effect_completed", next[p], NoDoc)
  <2>1. ev.kind = "effect_completed" /\ ev.n = next[p]
    BY DEF Event
  <2>2. AppendEvent(p, ev) /\ pc[p] = "complete" /\ UNCHANGED next
    BY <1>18 DEF RecordCompletion
  <2> HIDE DEF ev
  <2> QED BY <2>1, <2>2 DEF Announces
<1>19. CASE BeginVerification(p)
  BY <1>2, <1>4, <1>19 DEF BeginVerification, TailKinds
<1>20. CASE RecordReport(p) \/ RecordTerminal(p)
  BY <1>4, <1>20 DEF RecordReport, RecordTerminal, TailKinds
<1>21. CASE SealSuccess(p) \/ SealFailure(p)
  BY <1>2, <1>21 DEF SealSuccess, SealFailure, Compose
<1>22. CASE Publish(p)
  BY <1>2, <1>4, <1>22 DEF Publish, TailKinds
<1>23. CASE CreateTerminal(p)
  BY <1>2, <1>23 DEF CreateTerminal
<1>24. CASE Crash(p)
  BY <1>2, <1>24 DEF Crash, Moving
<1>25. CASE IoFails(p)
  <2>1. PICK l \in {"failed", "seal"} : Moving(p, l)
    BY <1>25, LabelsOK DEF IoFails
  <2> QED BY <1>2, <2>1 DEF Moving
<1> QED
  BY <1>6, <1>7, <1>8, <1>9, <1>10, <1>11, <1>12, <1>13, <1>14, <1>15, <1>16, <1>17, <1>18,
    <1>19, <1>20, <1>21, <1>22, <1>23, <1>24, <1>25 DEF QuietStep

\* So after it p has an effect in hand only as the file it just named.
LEMMA QuietPlaces ==
    ASSUME TypeInv, NEW p \in Procs, QuietStep(p)
    PROVE  /\ OthersStay(p)
           /\ pc'[p] \notin Acting \cup {"sync"}
           /\ pc'[p] = "create" /\ pend'[p].ev.kind = "effect_intent" =>
                 Current(p) /\ pc[p] = "engine"
           /\ pc'[p] = "create" /\ pend'[p].ev.kind = "effect_completed" =>
                 pc[p] = "complete" /\ pend'[p].ev.n = next[p]
<1>1. TypeOK
  BY DEF TypeInv
<1>2. CASE \E l \in Idle : WalksTo(p, l)
  <2>1. PICK l \in Idle : WalksTo(p, l)
    BY <1>2
  <2>2. /\ pc'[p] = l
        /\ \A q \in Procs \ {p} : pc'[q] = pc[q]
    BY <1>1, <2>1, GotoOK DEF Idle, WalksTo
  <2> QED BY <2>1, <2>2 DEF WalksTo, OthersStay, Idle, Creating
<1>3. CASE \E ev : Announces(p, ev)
  <2>1. PICK ev : Announces(p, ev)
    BY <1>3
  <2>2. CASE UNCHANGED pend /\ Goto(p, OnError(p, ev.kind))
    <3>1. OnError(p, ev.kind) \in PCs \ (Creating \cup Acting)
      BY LabelsOK DEF PCs, Creating, Acting
    <3>2. /\ pc'[p] \in PCs \ (Creating \cup Acting)
          /\ \A q \in Procs \ {p} : pc'[q] = pc[q]
      BY <1>1, <2>2, <3>1, GotoOK
    <3> QED BY <2>1, <2>2, <3>2 DEF Announces, OthersStay, Creating
  <2>3. CASE /\ pend' = [pend EXCEPT ![p] = File(Cardinality(journal), ev)]
             /\ Goto(p, "create")
    <3>1. /\ pc'[p] = "create" /\ pend'[p] = File(Cardinality(journal), ev)
          /\ \A q \in Procs \ {p} : pc'[q] = pc[q] /\ pend'[q] = pend[q]
      BY <1>1, <2>3, GotoOK DEF TypeOK, PCs
    <3>2. pend'[p].ev = ev
      BY <3>1 DEF File
    <3> QED BY <2>1, <3>1, <3>2 DEF Announces, OthersStay, Acting
  <2> QED BY <2>1, <2>2, <2>3 DEF Announces, AppendEvent
<1> QED BY <1>2, <1>3, QuietMoves

\* The other steps move nobody else either.
LEMMA LoudPlaces ==
    ASSUME TypeInv, NEW p \in Procs,
           RunProvider(p) \/ Execute(p) \/ CreateEvent(p) \/ SyncEvent(p) \/ SyncTerminal(p)
    PROVE  /\ OthersStay(p)
           /\ UNCHANGED pend
           /\ pc'[p] = "create" => FALSE
           /\ RunProvider(p) \/ SyncTerminal(p) => pc'[p] \notin Acting \cup {"sync"}
           /\ Execute(p) => pc'[p] # "execute" /\ pc'[p] # "sync" /\ UNCHANGED next
           /\ CreateEvent(p) => pc'[p] \notin Acting /\ UNCHANGED next
           /\ SyncEvent(p) => /\ pc'[p] \notin {"complete", "sync"}
                              /\ pc'[p] = "execute" =>
                                    /\ pend[p].ev.kind = "effect_intent"
                                    /\ UNCHANGED next
<1> USE DEF disk, world, bound, turn, result
<1>1. TypeOK
  BY DEF TypeInv
<1>2. CASE RunProvider(p) \/ Execute(p) \/ SyncTerminal(p)
  <2>1. PICK l \in {"stage", "failed", "complete", "seal", "termevent"} :
           /\ Goto(p, l)
           /\ RunProvider(p) \/ SyncTerminal(p) => l # "complete"
    BY <1>2 DEF RunProvider, Execute, SyncTerminal
  <2>2. /\ pc'[p] = l
        /\ \A q \in Procs \ {p} : pc'[q] = pc[q]
    BY <1>1, <2>1, GotoOK DEF PCs
  <2>3. UNCHANGED << pend, next >>
    BY <1>2 DEF RunProvider, Execute, SyncTerminal
  <2>4. ~CreateEvent(p) /\ ~SyncEvent(p)
    BY <1>2 DEF RunProvider, Execute, SyncTerminal, CreateEvent, SyncEvent
  <2> QED BY <2>1, <2>2, <2>3, <2>4 DEF OthersStay, Acting
<1>3. CASE CreateEvent(p)
  <2>1. PICK l \in {"sync", "failed", "seal"} : Goto(p, l)
    BY <1>3, LabelsOK DEF CreateEvent
  <2>2. /\ pc'[p] = l
        /\ \A q \in Procs \ {p} : pc'[q] = pc[q]
    BY <1>1, <2>1, GotoOK DEF PCs
  <2>3. UNCHANGED << pend, next >>
    BY <1>3 DEF CreateEvent
  <2>4. ~RunProvider(p) /\ ~Execute(p) /\ ~SyncEvent(p) /\ ~SyncTerminal(p)
    BY <1>3 DEF RunProvider, Execute, SyncTerminal, CreateEvent, SyncEvent
  <2> QED BY <2>2, <2>3, <2>4 DEF OthersStay, Acting
<1>4. CASE SyncEvent(p)
  <2> DEFINE kind == pend[p].ev.kind
             l == After(p, kind)
  <2>1. /\ l \in PCs \ (Creating \cup {"complete", "report"})
        /\ l = "execute" => kind = "effect_intent"
    BY AfterLabels
  <2>2. Goto(p, l) /\ next' = [next EXCEPT ![p] = Advance(p, kind)] /\ UNCHANGED pend
    BY <1>4 DEF SyncEvent
  <2> HIDE DEF l
  <2>3. /\ pc'[p] = l
        /\ \A q \in Procs \ {p} : pc'[q] = pc[q]
    BY <1>1, <2>1, <2>2, GotoOK
  <2>4. /\ \A q \in Procs \ {p} : next'[q] = next[q]
        /\ kind = "effect_intent" => UNCHANGED next
    BY <1>1, <2>2 DEF TypeOK, Advance
  <2>5. ~RunProvider(p) /\ ~Execute(p) /\ ~CreateEvent(p) /\ ~SyncTerminal(p)
    BY <1>4 DEF RunProvider, Execute, SyncTerminal, CreateEvent, SyncEvent
  <2> QED BY <2>1, <2>2, <2>3, <2>4, <2>5 DEF OthersStay, Creating
<1> QED BY <1>2, <1>3, <1>4

-----------------------------------------------------------------------------
(* An abandoned effect.                                                     *)

\* p performs effect e, or is about to record its completion.
InHand(p, e) ==
    \/ pc[p] \in Acting /\ next[p] = e
    \/ pc[p] \in Creating /\ pend[p].ev.n = e /\ pend[p].ev.kind = "effect_completed"

LEMMA AbandonedMeans ==
    ASSUME NEW e \in Effects
    PROVE  Abandoned(e) <=> /\ e \in Intended(journal) /\ e \notin Completed(journal)
                            /\ \A p \in Procs : ~InHand(p, e)
BY DEF Abandoned, EffectState, InHand, Acting, Creating

\* Whoever takes an effect in hand has it in hand already, or made its intent.
LEMMA TakesNone ==
    ASSUME TypeInv, SafeInv, NEW e \in Effects, Abandoned(e), [Next]_vars
    PROVE  /\ \A q \in Procs : ~InHand(q, e)'
           /\ executed'[e] = executed[e]
           /\ e \in Intended(journal)' /\ e \notin Completed(journal)'
<1> USE DEF disk, world
<1>1. /\ TypeOK /\ e \in Intended(journal) /\ e \notin Completed(journal)
      /\ \A q \in Procs : ~InHand(q, e)
  BY AbandonedMeans DEF TypeInv
<1>2. IntentFile(e) \in journal
  BY <1>1 DEF Intended, OfKind, SafeInv, PlaceInv, InPlace
<1>3. CASE (\E a \in Authorities : Expire(a)) \/ UNCHANGED vars
  BY <1>1, <1>3 DEF Expire, vars, procs, turn, InHand, Intended, Completed, OfKind
<1>4. ASSUME NEW p \in Procs, OthersStay(p), ~InHand(p, e)' PROVE \A q \in Procs : ~InHand(q, e)'
  BY <1>1, <1>4 DEF OthersStay, InHand
<1>5. ASSUME NEW p \in Procs, QuietStep(p)
      PROVE  /\ OthersStay(p) /\ ~InHand(p, e)' /\ UNCHANGED << journal, executed >>
  <2>1. ~InHand(p, e)
    BY <1>1
  <2> QED
    BY <1>5, <2>1, QuietPlaces, QuietKeeps DEF InHand, Creating, Acting
<1>6. ASSUME NEW p \in Procs, RunProvider(p) \/ CreateEvent(p) \/ SyncTerminal(p)
      PROVE  /\ OthersStay(p) /\ ~InHand(p, e)' /\ UNCHANGED << journal, executed >>
  <2>1. ~InHand(p, e) /\ UNCHANGED pend /\ OthersStay(p) /\ pc'[p] \notin Acting \cup {"create"}
    BY <1>1, <1>6, LoudPlaces
  <2>2. pc'[p] = "sync" => pc[p] = "create"
    BY <1>6, LoudPlaces DEF CreateEvent
  <2>3. UNCHANGED << journal, executed >>
    BY <1>6 DEF RunProvider, CreateEvent, SyncTerminal
  <2> QED BY <2>1, <2>2, <2>3 DEF InHand, Creating
<1>7. ASSUME NEW p \in Procs, Execute(p)
      PROVE  /\ OthersStay(p) /\ ~InHand(p, e)' /\ UNCHANGED journal
             /\ executed'[e] = executed[e]
  <2>1. ~InHand(p, e) /\ UNCHANGED << pend, next >> /\ OthersStay(p)
        /\ pc'[p] \notin {"execute", "sync", "create"}
    BY <1>1, <1>7, LoudPlaces
  <2>2. pc[p] = "execute" /\ next[p] # e
    BY <1>7, <2>1 DEF Execute, InHand, Acting
  <2>3. UNCHANGED journal /\ executed'[e] = executed[e]
    BY <1>1, <1>7, <2>2 DEF Execute, TypeOK
  <2> QED BY <2>1, <2>2, <2>3 DEF InHand, Creating
<1>8. ASSUME NEW p \in Procs, SyncEvent(p)
      PROVE  /\ OthersStay(p) /\ ~InHand(p, e)' /\ UNCHANGED executed
             /\ journal' = journal \cup {pend[p]} /\ pend[p].ev # Event("effect_completed", e, NoDoc)
             /\ ~(pend[p].ev.kind = "effect_completed" /\ pend[p].ev.n = e)
  <2>1. /\ ~InHand(p, e) /\ UNCHANGED << pend, executed >> /\ OthersStay(p)
        /\ pc'[p] \notin {"complete", "sync", "create"}
        /\ pc'[p] = "execute" => pend[p].ev.kind = "effect_intent" /\ UNCHANGED next
        /\ pc[p] = "sync" /\ journal' = journal \cup {pend[p]}
    BY <1>1, <1>8, LoudPlaces DEF SyncEvent
  <2>2. ~(pend[p].ev.kind = "effect_completed" /\ pend[p].ev.n = e)
    BY <2>1 DEF InHand, Creating
  <2>3. pend[p].ev.kind = "effect_intent" => next[p] # e
    <3> SUFFICES ASSUME pend[p].ev.kind = "effect_intent", next[p] = e PROVE FALSE
      OBVIOUS
    <3>1. pend[p].ev.n = e
      BY <2>1 DEF SafeInv, EffectInv, Creating, EffectKinds
    <3>2. pend[p] = IntentFile(e)
      BY <2>1, <3>1 DEF SafeInv, KnownInv, InPlace, Creating
    <3>3. pend[p] \in torn
      BY <2>1 DEF SafeInv, WriterInv
    <3> QED BY <1>2, <3>2, <3>3 DEF SafeInv, PlaceInv
  <2>4. ~InHand(p, e)'
    BY <2>1, <2>3 DEF InHand, Creating, Acting
  <2> QED BY <2>1, <2>2, <2>4 DEF Event
<1>9. ASSUME UNCHANGED journal
      PROVE  e \in Intended(journal)' /\ e \notin Completed(journal)'
  BY <1>1, <1>9 DEF Intended, Completed, OfKind
<1>10. CASE \E p \in Procs : QuietStep(p) \/ RunProvider(p) \/ CreateEvent(p) \/ SyncTerminal(p)
             \/ Execute(p)
  BY <1>4, <1>5, <1>6, <1>7, <1>9, <1>10
<1>11. CASE \E p \in Procs : SyncEvent(p)
  <2>1. PICK p \in Procs : SyncEvent(p)
    BY <1>11
  <2>2. e \in Intended(journal)' /\ e \notin Completed(journal)'
    BY <1>1, <1>8, <2>1 DEF Intended, Completed, OfKind
  <2> QED BY <1>4, <1>8, <2>1, <2>2
<1> QED BY <1>3, <1>10, <1>11, StepKinds

\* An effect that was announced and is in nobody's hands is never performed and never
\* declared completed afterwards, by any live process or recovery: the engine's rule
\* that an effect of unknown outcome is left to an operator.
THEOREM AbandonedStays == Spec => UnknownIsFinal
<1>1. ASSUME TypeInv, SafeInv, [Next]_vars
      PROVE  [\A e \in Effects :
                 Abandoned(e) => Abandoned(e)' /\ executed'[e] = executed[e]]_vars
  <2> SUFFICES ASSUME NEW e \in Effects, Abandoned(e)
               PROVE  Abandoned(e)' /\ executed'[e] = executed[e]
    OBVIOUS
  <2>1. /\ \A q \in Procs : ~InHand(q, e)'
        /\ executed'[e] = executed[e]
        /\ e \in Intended(journal)' /\ e \notin Completed(journal)'
    BY <1>1, TakesNone
  <2> QED
    BY <2>1 DEF Abandoned, EffectState, InHand, Acting, Creating
<1> QED
  BY <1>1, TypeInvariant, SafeInvariant, PTL DEF Spec, UnknownIsFinal

-----------------------------------------------------------------------------
(* Expiry.                                                                  *)

\* Once every authority has expired no process, live or recovering, claims a further
\* effect, whatever it checked before: each effect is admitted under an authority
\* that is current at that moment.
THEOREM ExpiryFreezes == Spec => ExpiryFreezesEffects
<1>1. ASSUME TypeInv, SafeInv, TruthInv, [Next]_vars, expired = Authorities
      PROVE  Claimed' \subseteq Claimed
  <2> USE DEF disk, world
  <2>1. CASE (\E a \in Authorities : Expire(a)) \/ UNCHANGED vars
    BY <2>1 DEF Expire, vars, procs, Claimed, Intended, OfKind, OnDisk
  <2>2. ASSUME NEW p \in Procs, OthersStay(p), UNCHANGED OnDisk,
               pc'[p] = "create" => pend'[p].ev.kind # "effect_intent"
        PROVE  Claimed' \subseteq Claimed
    BY <2>2 DEF OthersStay, Claimed, Intended, OfKind
  <2>3. ASSUME NEW p \in Procs, QuietStep(p) PROVE Claimed' \subseteq Claimed
    <3>1. pc[p] = "engine" => ~Current(p)
      BY <1>1 DEF TruthInv, KnowsTruth, Current
    <3> QED BY <1>1, <2>2, <2>3, <3>1, QuietPlaces, QuietKeeps DEF OnDisk
  <2>4. ASSUME NEW p \in Procs, RunProvider(p) \/ Execute(p) \/ SyncTerminal(p)
        PROVE  Claimed' \subseteq Claimed
    <3>1. UNCHANGED OnDisk
      BY <2>4 DEF RunProvider, Execute, SyncTerminal, OnDisk
    <3> QED BY <1>1, <2>2, <2>4, <3>1, LoudPlaces
  <2>5. ASSUME NEW p \in Procs, SyncEvent(p) PROVE Claimed' \subseteq Claimed
    <3>1. UNCHANGED OnDisk
      BY <1>1, <2>5 DEF SyncEvent, OnDisk, SafeInv, WriterInv
    <3> QED BY <1>1, <2>2, <2>5, <3>1, LoudPlaces
  <2>6. ASSUME NEW p \in Procs, CreateEvent(p) PROVE Claimed' \subseteq Claimed
    <3>1. OthersStay(p) /\ UNCHANGED pend /\ pc'[p] # "create" /\ pc[p] = "create"
      BY <1>1, <2>6, LoudPlaces DEF CreateEvent
    <3>2. OnDisk' \subseteq OnDisk \cup {pend[p]}
      BY <2>6 DEF CreateEvent, OnDisk
    <3>3. Intended(OnDisk') \subseteq Claimed
      BY <3>1, <3>2 DEF Intended, OfKind, Claimed
    <3> QED BY <3>1, <3>3 DEF OthersStay, Claimed, Intended, OfKind
  <2> QED BY <1>1, <2>1, <2>3, <2>4, <2>5, <2>6, StepKinds
<1> QED
  <2>1. TypeInv /\ SafeInv /\ TruthInv /\ [Next]_vars =>
            [expired = Authorities => Claimed' \subseteq Claimed]_vars
    BY <1>1
  <2> QED
    BY <2>1, TypeInvariant, SafeInvariant, TruthInvariant, PTL DEF Spec, ExpiryFreezesEffects

-----------------------------------------------------------------------------
(* The promise.                                                             *)

\* What its observer sees.
observed == << journal, executed, providerRuns, terminals >>

LEMMA Unseen ==
    ASSUME UNCHANGED observed
    PROVE  UNCHANGED Promise!vars
BY DEF observed, Promise!vars, ProviderSeen, EffectsSeen, EffectSeen, ReportsSeen, Has,
   OfKind, Completed, Intended

\* What each thing seen says of the disk.
LEMMA SeenMeans ==
    ASSUME TypeInv, SafeInv
    PROVE  /\ providerRuns > 0 => ProviderSeen = "ran"
           /\ providerRuns = 0 /\ StartedFile \in journal => ProviderSeen = "asked"
           /\ providerRuns = 0 /\ StartedFile \notin journal => ProviderSeen = "unasked"
           /\ EffectsSeen \in [Effects -> {"absent", "intended", "applied", "completed"}]
           /\ \A e \in Effects :
                 /\ CompletedFile(e) \in journal => EffectsSeen[e] = "completed"
                 /\ CompletedFile(e) \notin journal /\ executed[e] > 0 =>
                       EffectsSeen[e] = "applied"
                 /\ executed[e] = 0 /\ IntentFile(e) \in journal => EffectsSeen[e] = "intended"
                 /\ executed[e] = 0 /\ IntentFile(e) \notin journal => EffectsSeen[e] = "absent"
<1>1. /\ TypeOK /\ \A f \in journal : InPlace(f)
      /\ \A e \in Effects : CompletedFile(e) \in journal => executed[e] > 0
  BY DEF TypeInv, SafeInv, PlaceInv, EffectInv
<1>2. Has(journal, "provider_process_started") <=> StartedFile \in journal
  <2>1. ProviderSteps[2] = "provider_process_started"
    BY DEF ProviderSteps
  <2>2. StartedFile.ev.kind = "provider_process_started"
    BY <2>1 DEF StartedFile, StepFile, File, Event
  <2>3. \A f \in journal : f.ev.kind = "provider_process_started" => f = StartedFile
    BY <1>1, <2>1 DEF InPlace, StartedFile
  <2> QED BY <2>2, <2>3 DEF Has, OfKind
<1>3. providerRuns \in Nat
  BY <1>1 DEF TypeOK
<1>4. ASSUME NEW e \in Effects
      PROVE  /\ e \in Completed(journal) <=> CompletedFile(e) \in journal
             /\ e \in Intended(journal) <=> IntentFile(e) \in journal
             /\ executed[e] \in Nat
  <2>1. /\ CompletedFile(e).ev.kind = "effect_completed" /\ CompletedFile(e).ev.n = e
        /\ IntentFile(e).ev.kind = "effect_intent" /\ IntentFile(e).ev.n = e
    BY DEF CompletedFile, IntentFile, File, Event
  <2>2. \A f \in journal :
           /\ f.ev.kind = "effect_completed" /\ f.ev.n = e => f = CompletedFile(e)
           /\ f.ev.kind = "effect_intent" /\ f.ev.n = e => f = IntentFile(e)
    BY <1>1 DEF InPlace
  <2> QED BY <1>1, <2>1, <2>2 DEF Completed, Intended, OfKind, TypeOK
<1> QED BY <1>1, <1>2, <1>3, <1>4 DEF ProviderSeen, EffectsSeen, EffectSeen

\* One effect is seen to change.
LEMMA SeenChanges ==
    ASSUME NEW e \in Effects, NEW v, EffectSeen(e)' = v,
           \A d \in Effects \ {e} : EffectSeen(d)' = EffectSeen(d)
    PROVE  EffectsSeen' = [EffectsSeen EXCEPT ![e] = v]
BY DEF EffectsSeen

\* An effect is claimed, performed or completed behind the provider's run.
LEMMA TurnAfterProvider ==
    ASSUME TruthInv, TurnFile \in journal
    PROVE  providerRuns > 0
<1>1. TurnFile.ev.kind \in IndexedKinds
  BY DEF TurnFile, StepFile, File, Event, ProviderSteps, IndexedKinds
<1> QED BY <1>1 DEF TruthInv, Honest, CaptureInv

LEMMA RunMaps ==
    ASSUME TypeInv, SafeInv, TypeInv', SafeInv', NEW p \in Procs, RunProvider(p)
    PROVE  Promise!ProviderRuns
<1>1. /\ providerRuns = 0 /\ StartedFile \in journal
      /\ providerRuns' = providerRuns + 1
      /\ UNCHANGED << journal, executed, terminals >>
  BY DEF SafeInv, ProviderInv, RunProvider, disk, terminalFiles
<1>2. ProviderSeen = "asked"
  BY <1>1, SeenMeans
<1>3. ProviderSeen' = "ran"
  BY <1>1 DEF ProviderSeen
<1>4. UNCHANGED << EffectsSeen, ReportsSeen, terminals >>
  BY <1>1 DEF EffectsSeen, EffectSeen, ReportsSeen, OfKind, Completed, Intended
<1> QED BY <1>2, <1>3, <1>4 DEF Promise!ProviderRuns

LEMMA ExecuteMaps ==
    ASSUME TypeInv, SafeInv, NEW p \in Procs, Execute(p)
    PROVE  [Promise!Next]_Promise!vars
<1>0. PICK e \in Effects : e = next[p]
  BY DEF TypeInv, ProcOK, Acting, Execute
<1>1. /\ TypeOK /\ e \in Effects /\ IntentFile(e) \in journal /\ executed[e] = 0
      /\ executed' = executed \/ executed' = [executed EXCEPT ![e] = @ + 1]
      /\ UNCHANGED << journal, providerRuns, terminals >>
  BY <1>0 DEF TypeInv, SafeInv, EffectInv, Execute, disk, terminalFiles
<1>2. CASE executed' = executed
  BY <1>1, <1>2, Unseen DEF observed
<1>3. CASE executed' = [executed EXCEPT ![e] = @ + 1]
  <2>1. EffectsSeen[e] = "intended" /\ e \notin Completed(journal)
    <3>1. EffectsSeen[e] = "intended"
      BY <1>1, SeenMeans
    <3> QED BY <1>1, <3>1 DEF EffectsSeen, EffectSeen
  <2>2. executed'[e] = 1 /\ \A d \in Effects \ {e} : executed'[d] = executed[d]
    BY <1>1, <1>3 DEF TypeOK
  <2>3. EffectsSeen' = [EffectsSeen EXCEPT ![e] = "applied"]
    <3>1. Completed(journal)' = Completed(journal) /\ Intended(journal)' = Intended(journal)
      BY <1>1 DEF Completed, Intended, OfKind
    <3>2. EffectSeen(e)' = "applied"
      BY <2>1, <2>2, <3>1 DEF EffectSeen
    <3>3. \A d \in Effects \ {e} : EffectSeen(d)' = EffectSeen(d)
      BY <2>2, <3>1 DEF EffectSeen
    <3> QED BY <1>1, <3>2, <3>3, SeenChanges
  <2>4. UNCHANGED << ProviderSeen, ReportsSeen, terminals >>
    BY <1>1 DEF ProviderSeen, ReportsSeen, Has, OfKind
  <2>5. Promise!Apply(e)
    BY <2>1, <2>3, <2>4 DEF Promise!Apply
  <2> QED BY <1>1, <2>5 DEF Promise!Next, Promise!Effects, Effects
<1> QED BY <1>1, <1>2, <1>3

LEMMA PublishMaps ==
    ASSUME TypeInv, TruthInv, NEW p \in Procs, SyncTerminal(p)
    PROVE  [Promise!Next]_Promise!vars
<1> DEFINE d == record[p]
<1>1. /\ d \in Records /\ Reported /\ (d \in PassedRecords => Earned)
      /\ terminals' = terminals \cup {d}
      /\ UNCHANGED << journal, executed, providerRuns >>
  BY DEF TypeInv, ProcOK, Publishing, TruthInv, KnowsTruth, SyncTerminal, world
<1> HIDE DEF d
<1>2. ReportsSeen # {} /\ (d \in PassedRecords => ReportsSeen \cap Passing # {})
  BY <1>1 DEF Reported, Earned, ReportsSeen, OfKind
<1>3. UNCHANGED << ProviderSeen, EffectsSeen, ReportsSeen >>
  BY <1>1 DEF ProviderSeen, EffectsSeen, EffectSeen, ReportsSeen, Has, OfKind, Completed,
    Intended
<1>4. Promise!Publish(d)
  BY <1>1, <1>2, <1>3 DEF Promise!Publish
<1> QED BY <1>1, <1>4 DEF Promise!Next

\* An event that tells nothing of the provider's start, an effect or a report is
\* not seen.
LEMMA OtherEventUnseen ==
    ASSUME NEW f, journal' = journal \cup {f}, UNCHANGED << executed, providerRuns, terminals >>,
           f.ev.kind \notin EffectKinds \cup {"provider_process_started", "verifier_recorded"}
    PROVE  UNCHANGED Promise!vars
<1>1. \A kind \in EffectKinds \cup {"provider_process_started", "verifier_recorded"} :
         OfKind(journal', kind) = OfKind(journal, kind)
  BY DEF OfKind
<1>2. /\ OfKind(journal', "effect_intent") = OfKind(journal, "effect_intent")
      /\ OfKind(journal', "effect_completed") = OfKind(journal, "effect_completed")
      /\ OfKind(journal', "provider_process_started")
            = OfKind(journal, "provider_process_started")
      /\ OfKind(journal', "verifier_recorded") = OfKind(journal, "verifier_recorded")
  BY <1>1 DEF EffectKinds
<1> QED
  BY <1>2 DEF Promise!vars, ProviderSeen, EffectsSeen, EffectSeen, ReportsSeen, Has,
    Completed, Intended

LEMMA SyncMaps ==
    ASSUME TypeInv, SafeInv, TruthInv, TypeInv', SafeInv', NEW p \in Procs, SyncEvent(p)
    PROVE  [Promise!Next]_Promise!vars
<1> DEFINE f == pend[p]
           kind == pend[p].ev.kind
<1>1. /\ TypeOK /\ ProcOK(p) /\ pc[p] \in Creating
      /\ f \in torn /\ f \notin journal /\ InPlace(f) /\ f \in Files
      /\ journal' = journal \cup {f}
      /\ UNCHANGED << executed, providerRuns, terminals >>
  BY DEF TypeInv, ProcOK, SyncEvent, SafeInv, PlaceInv, KnownInv, WriterInv, Creating, world,
    terminalFiles
<1>2. CASE kind \notin EffectKinds \cup {"provider_process_started", "verifier_recorded"}
  BY <1>1, <1>2, OtherEventUnseen
<1>3. CASE kind = "provider_process_started"
  <2>1. f = StartedFile
    <3>1. ProviderSteps[2] = "provider_process_started"
      BY DEF ProviderSteps
    <3> QED BY <1>1, <1>3, <3>1 DEF InPlace, StartedFile
  <2>2. providerRuns = 0
    BY <1>1, <2>1 DEF SafeInv, ProviderInv, TypeOK
  <2>3. ProviderSeen = "unasked"
    BY <1>1, <2>1, <2>2, SeenMeans
  <2>4. ProviderSeen' = "asked"
    BY <1>1, <1>3, <2>2 DEF ProviderSeen, Has, OfKind
  <2>5. UNCHANGED << EffectsSeen, ReportsSeen, terminals >>
    <3>1. /\ OfKind(journal', "effect_intent") = OfKind(journal, "effect_intent")
          /\ OfKind(journal', "effect_completed") = OfKind(journal, "effect_completed")
          /\ OfKind(journal', "verifier_recorded") = OfKind(journal, "verifier_recorded")
      BY <1>1, <1>3 DEF OfKind
    <3> QED BY <1>1, <3>1 DEF EffectsSeen, EffectSeen, ReportsSeen, Completed, Intended
  <2>6. Promise!AskProvider
    BY <2>3, <2>4, <2>5 DEF Promise!AskProvider
  <2> QED BY <2>6 DEF Promise!Next
<1>4. ASSUME kind \in TurnKinds PROVE ProviderSeen = "ran" /\ ProviderSeen' = "ran"
  <2>1. TurnFile \in journal
    BY <1>1, <1>4 DEF SafeInv, KnownInv, HoldsTurn
  <2>2. providerRuns > 0
    BY <2>1, TurnAfterProvider
  <2> QED BY <1>1, <2>2 DEF ProviderSeen
<1>5. CASE kind = "effect_intent"
  <2>0. PICK e \in Effects : e = next[p]
    BY <1>1, <1>5 DEF ProcOK, EffectKinds
  <2>1. e \in Effects /\ f.ev.n = e /\ f = IntentFile(e)
    BY <1>1, <1>5, <2>0 DEF SafeInv, EffectInv, EffectKinds, InPlace
  <2>2. executed[e] = 0 /\ e \in Nat
    BY <1>1, <2>1, EffectNumbers DEF SafeInv, EffectInv, TypeOK
  <2>3. EffectsSeen[e] = "absent"
    BY <1>1, <2>1, <2>2, SeenMeans
  <2>4. \A d \in 1 .. (e - 1) : EffectsSeen[d] = "completed"
    <3> SUFFICES ASSUME NEW d \in 1 .. (e - 1) PROVE EffectsSeen[d] = "completed"
      OBVIOUS
    <3>1. d \in Effects /\ d < e
      BY <2>1, EffectNumbers DEF Effects
    <3>2. CompletedFile(d) \in journal
      BY <2>0, <3>1 DEF SafeInv, KnownInv
    <3> QED BY <3>1, <3>2, SeenMeans
  <2>5. EffectsSeen' = [EffectsSeen EXCEPT ![e] = "intended"]
    <3>1. e \notin Completed(journal)
      BY <2>1, <2>3 DEF EffectsSeen, EffectSeen
    <3>2. Completed(journal)' = Completed(journal) /\ Intended(journal)' = Intended(journal) \cup {e}
      BY <1>1, <1>5, <2>1 DEF Completed, Intended, OfKind
    <3>3. EffectSeen(e)' = "intended"
      BY <1>1, <2>2, <3>1, <3>2 DEF EffectSeen
    <3>4. \A d \in Effects \ {e} : EffectSeen(d)' = EffectSeen(d)
      BY <1>1, <3>2 DEF EffectSeen
    <3> QED BY <2>1, <3>3, <3>4, SeenChanges
  <2>6. UNCHANGED << ReportsSeen, terminals >>
    BY <1>1, <1>5 DEF ReportsSeen, OfKind
  <2>7. Promise!Intend(e)
    BY <1>4, <1>5, <2>3, <2>4, <2>5, <2>6 DEF Promise!Intend, TurnKinds, EffectKinds
  <2> QED BY <2>1, <2>7 DEF Promise!Next, Promise!Effects, Effects
<1>6. CASE kind = "effect_completed"
  <2>0. PICK e \in Effects : e = next[p]
    BY <1>1, <1>6 DEF ProcOK, EffectKinds
  <2>1. e \in Effects /\ f.ev.n = e /\ f = CompletedFile(e)
    BY <1>1, <1>6, <2>0 DEF SafeInv, EffectInv, EffectKinds, InPlace
  <2>2. executed[e] > 0
    BY <1>1, <1>6, <2>0 DEF SafeInv, EffectInv
  <2>3. EffectsSeen[e] = "applied"
    BY <1>1, <2>1, <2>2, SeenMeans
  <2>4. EffectsSeen' = [EffectsSeen EXCEPT ![e] = "completed"]
    <3>1. Completed(journal)' = Completed(journal) \cup {e} /\ Intended(journal)' = Intended(journal)
      BY <1>1, <1>6, <2>1 DEF Completed, Intended, OfKind
    <3>2. EffectSeen(e)' = "completed"
      BY <3>1 DEF EffectSeen
    <3>3. \A d \in Effects \ {e} : EffectSeen(d)' = EffectSeen(d)
      BY <1>1, <3>1 DEF EffectSeen
    <3> QED BY <2>1, <3>2, <3>3, SeenChanges
  <2>5. UNCHANGED << ReportsSeen, terminals >>
    BY <1>1, <1>6 DEF ReportsSeen, OfKind
  <2>6. Promise!Complete(e)
    BY <1>4, <1>6, <2>3, <2>4, <2>5 DEF Promise!Complete, TurnKinds, EffectKinds
  <2> QED BY <2>1, <2>6 DEF Promise!Next, Promise!Effects, Effects
<1>7. CASE kind = "verifier_recorded"
  <2> DEFINE r == f.ev.doc
  <2>1. r \in Reports
    BY <1>1, <1>7 DEF Files, Events, DocumentsOf
  <2>2. ASSUME NEW d \in Effects PROVE EffectsSeen[d] = "completed"
    <3>1. next[p] = NumEffects + 1
      BY <1>1, <1>7 DEF SafeInv, KnownInv, Judging
    <3>2. CompletedFile(d) \in journal
      BY <3>1, EffectNumbers DEF SafeInv, KnownInv
    <3> QED BY <3>2, SeenMeans
  <2>3. ReportsSeen' = ReportsSeen \cup {r}
    BY <1>1, <1>7 DEF ReportsSeen, OfKind
  <2>4. UNCHANGED << EffectsSeen, terminals >>
    <3>1. /\ OfKind(journal', "effect_intent") = OfKind(journal, "effect_intent")
          /\ OfKind(journal', "effect_completed") = OfKind(journal, "effect_completed")
      BY <1>1, <1>7 DEF OfKind
    <3> QED BY <1>1, <3>1 DEF EffectsSeen, EffectSeen, Completed, Intended
  <2>5. Promise!Judge(r)
    BY <1>4, <1>7, <2>2, <2>3, <2>4 DEF Promise!Judge, Promise!Effects, Effects, TurnKinds
  <2> QED BY <2>1, <2>5 DEF Promise!Next
<1> QED BY <1>2, <1>3, <1>5, <1>6, <1>7 DEF EffectKinds

\* The start and every step of the run map to the promise.
LEMMA NextMaps ==
    ASSUME TypeInv, SafeInv, TruthInv, TypeInv', SafeInv', [Next]_vars
    PROVE  [Promise!Next]_Promise!vars
<1> USE DEF disk, world, terminalFiles
<1>1. CASE (\E a \in Authorities : Expire(a)) \/ UNCHANGED vars
  BY <1>1, Unseen DEF Expire, vars, observed
<1>2. ASSUME NEW p \in Procs, QuietStep(p) \/ CreateEvent(p)
      PROVE  [Promise!Next]_Promise!vars
  <2>1. UNCHANGED observed
    BY <1>2, QuietKeeps DEF CreateEvent, observed
  <2> QED BY <2>1, Unseen
<1>3. ASSUME NEW p \in Procs, RunProvider(p) PROVE [Promise!Next]_Promise!vars
  BY <1>3, RunMaps DEF Promise!Next
<1> QED BY <1>1, <1>2, <1>3, ExecuteMaps, SyncMaps, PublishMaps, StepKinds

\* What an observer of the journal, the workspace and the terminal records sees of any
\* number of live processes and recoveries, with all their crashes and failures, is a
\* run of the promise: one provider, the effects in order and once, a verdict on the
\* whole turn only, and no record without its verdict.
THEOREM RunKeepsPromise == Spec => RefinesPromise
<1>1. Init => Promise!Init
  <2> SUFFICES ASSUME Init PROVE Promise!Init
    OBVIOUS
  <2>1. \A e \in Effects : EffectSeen(e) = "absent"
    BY DEF Init, EffectSeen, Completed, Intended, OfKind
  <2>2. EffectsSeen = [e \in Effects |-> "absent"]
    BY <2>1 DEF EffectsSeen
  <2>3. ProviderSeen = "unasked" /\ ReportsSeen = {} /\ terminals = {}
    BY DEF Init, ProviderSeen, ReportsSeen, Has, OfKind
  <2> QED BY <2>2, <2>3 DEF Promise!Init, Promise!Effects, Effects
<1>2. TypeInv /\ SafeInv /\ TruthInv /\ TypeInv' /\ SafeInv' /\ [Next]_vars =>
          [Promise!Next]_Promise!vars
  BY NextMaps
<1> QED
  BY <1>1, <1>2, TypeInvariant, SafeInvariant, TruthInvariant, PTL
  DEF Spec, RefinesPromise, Promise!Spec
=============================================================================
