-------------------------- MODULE ExecutionJournal --------------------------
(***************************************************************************)
(* The append-only execution journal of crates/ao-next-core/src/recovery.rs *)
(* as a value: what its event files are, which sequences of them            *)
(* validate_journal_lifecycle accepts, and what the readers of the journal  *)
(* conclude from them.                                                      *)
(*                                                                          *)
(* An event file is named after its sequence number and the digest of its   *)
(* bytes, so two files are the same file exactly when they agree on the     *)
(* sequence number and on the event.  A journal is therefore a SET of files *)
(* and may hold two files with one sequence number.                         *)
(***************************************************************************)
EXTENDS Integers, Sequences, FiniteSets

CONSTANTS
    NumEffects,   \* effects of the normalized turn, numbered in turn order
    Authorities,  \* N7 execution authority documents
    Reports,      \* verifier reports
    Records,      \* terminal record documents
    NoDoc         \* the document of an event that carries none

ASSUME JournalAssumption ==
    /\ NumEffects \in Nat
    /\ NoDoc \notin Authorities \cup Reports \cup Records

Effects == 1 .. NumEffects

\* The six provider events in the one order the lifecycle admits.
ProviderSteps ==
    << "provider_request_intent", "provider_process_started",
       "provider_output_retained", "provider_capture_index_published",
       "provider_capture_verified", "adapter_turn_normalized" >>

ProviderKinds == {ProviderSteps[i] : i \in 1 .. 6}

Kinds == ProviderKinds \cup
    { "effect_intent", "effect_completed", "verification_started",
      "verifier_recorded", "terminal_published" }

(***************************************************************************)
(* An event: its kind, a number (the effect, or the verification attempt)   *)
(* and the document whose digest it carries.  All processes of one run      *)
(* carry the same prepared-run, invocation, capture and turn digests, so    *)
(* those stay implicit; authorities, reports and records may differ.        *)
(***************************************************************************)
Event(kind, n, doc) == [kind |-> kind, n |-> n, doc |-> doc]

Documents == Authorities \cup Reports \cup Records \cup {NoDoc}

\* The documents an event of each kind may carry.
DocumentsOf(kind) ==
    CASE kind = "provider_request_intent" -> Authorities
      [] kind = "verifier_recorded" -> Reports
      [] kind = "terminal_published" -> Records
      [] OTHER -> {NoDoc}

Events ==
    {ev \in [kind : Kinds, n : Nat, doc : Documents] :
        ev.doc \in DocumentsOf(ev.kind)}

Files == [seq : Nat, ev : Events]

File(seq, ev) == [seq |-> seq, ev |-> ev]

-----------------------------------------------------------------------------
(* What a reader sees in a set of event files.                              *)

OfKind(J, kind) == {f \in J : f.ev.kind = kind}

Has(J, kind) == OfKind(J, kind) # {}

\* provider_step of the lifecycle: exactly the first i provider events exist.
ReachedProvider(J, i) ==
    \A j \in 1 .. 6 : Has(J, ProviderSteps[j]) <=> j <= i

\* Either no provider was journalled or its whole capture was.
ProviderSettled(J) == ReachedProvider(J, 0) \/ ReachedProvider(J, 6)

\* require_provider_ready: a journalled provider intent needs its turn.
ProviderReady(J) ==
    Has(J, "provider_request_intent") => Has(J, "adapter_turn_normalized")

\* outcome_unknown: the provider may have run, its output is not retained.
OutcomeUnknown(J) ==
    /\ Has(J, "provider_request_intent")
    /\ ~Has(J, "provider_output_retained")

Intended(J) == {f.ev.n : f \in OfKind(J, "effect_intent")}

Completed(J) == {f.ev.n : f \in OfKind(J, "effect_completed")}

VerificationSeen(J) == Has(J, "verification_started")

VerifierRecords(J) == Cardinality(OfKind(J, "verifier_recorded"))

VerificationOpen(J) ==
    Cardinality(OfKind(J, "verification_started")) > VerifierRecords(J)

\* require_verification_complete.
VerificationComplete(J) == VerifierRecords(J) > 0 /\ ~VerificationOpen(J)

\* The record documents that terminal_published events name.
TerminalDocs(J) == {f.ev.doc : f \in OfKind(J, "terminal_published")}

\* JournalEffectState of one effect.
EffectState(J, e) ==
    IF e \in Completed(J) THEN "completed"
    ELSE IF e \in Intended(J) THEN "unknown" ELSE "fresh"

-----------------------------------------------------------------------------
(***************************************************************************)
(* One arm of the match in validate_journal_lifecycle: may event ev follow  *)
(* the events of J?  The legacy EffectCommitted kind is left out: no run    *)
(* of the engine appends it.                                                *)
(***************************************************************************)
AdmitsProvider(J, ev) ==
    /\ ~Has(J, "effect_intent") /\ ~VerificationSeen(J)
    /\ \E i \in 1 .. 6 : ev.kind = ProviderSteps[i] /\ ReachedProvider(J, i - 1)

AdmitsEffect(J, ev) ==
    /\ ~VerificationSeen(J)
    /\ \/ /\ ev.kind = "effect_intent"
          /\ ProviderSettled(J)
          /\ ev.n \notin Intended(J)
       \/ /\ ev.kind = "effect_completed"
          /\ ev.n \in Intended(J)
          /\ ev.n \notin Completed(J)

AdmitsVerification(J, ev) ==
    \/ /\ ev.kind = "verification_started"
       /\ ProviderSettled(J)
       /\ ~VerificationOpen(J)
       /\ ev.n = VerifierRecords(J)
       /\ Intended(J) \subseteq Completed(J)
    \/ /\ ev.kind = "verifier_recorded"
       /\ VerificationOpen(J)
    \/ /\ ev.kind = "terminal_published"
       /\ VerificationComplete(J)

Admits(J, ev) ==
    /\ ~Has(J, "terminal_published")
    /\ AdmitsProvider(J, ev) \/ AdmitsEffect(J, ev) \/ AdmitsVerification(J, ev)

\* load_execution_events: the sorted names count 0, 1, 2, ... without a gap
\* and without a second file under one number.
Contiguous(J) == {f.seq : f \in J} = 0 .. (Cardinality(J) - 1)

\* The whole of load_execution_events on complete files.
Lawful(J) ==
    /\ Contiguous(J)
    /\ \A f \in J : Admits({g \in J : g.seq < f.seq}, f.ev)
=============================================================================
