----------------------------- MODULE RunPromise -----------------------------
(***************************************************************************)
(* What one durable N7 run promises, without processes, files or crashes:   *)
(* the provider runs at most once; the effects of its turn happen one after *)
(* the other and at most once; a verdict is given only on the whole turn;   *)
(* a record is published only after a verdict, a Passed one only after a    *)
(* passing verdict.  A run may stop anywhere.                               *)
(***************************************************************************)
EXTENDS Integers

CONSTANTS NumEffects, Reports, Passing, Records, PassedRecords

VARIABLES
    provider,  \* "unasked", "asked" or "ran"
    effect,    \* of each effect: "absent", "intended", "applied", "completed"
    verdicts,  \* the reports on record
    published  \* the terminal records on disk

vars == << provider, effect, verdicts, published >>

Effects == 1 .. NumEffects

Init ==
    /\ provider = "unasked"
    /\ effect = [e \in Effects |-> "absent"]
    /\ verdicts = {} /\ published = {}

AskProvider ==
    /\ provider = "unasked" /\ provider' = "asked"
    /\ UNCHANGED << effect, verdicts, published >>

ProviderRuns ==
    /\ provider = "asked" /\ provider' = "ran"
    /\ UNCHANGED << effect, verdicts, published >>

Intend(e) ==
    /\ provider = "ran"
    /\ effect[e] = "absent"
    /\ \A d \in 1 .. (e - 1) : effect[d] = "completed"
    /\ effect' = [effect EXCEPT ![e] = "intended"]
    /\ UNCHANGED << provider, verdicts, published >>

Apply(e) ==
    /\ effect[e] = "intended"
    /\ effect' = [effect EXCEPT ![e] = "applied"]
    /\ UNCHANGED << provider, verdicts, published >>

Complete(e) ==
    /\ effect[e] = "applied"
    /\ effect' = [effect EXCEPT ![e] = "completed"]
    /\ UNCHANGED << provider, verdicts, published >>

Judge(r) ==
    /\ provider = "ran"
    /\ \A e \in Effects : effect[e] = "completed"
    /\ verdicts' = verdicts \cup {r}
    /\ UNCHANGED << provider, effect, published >>

Publish(d) ==
    /\ verdicts # {}
    /\ d \in PassedRecords => verdicts \cap Passing # {}
    /\ published' = published \cup {d}
    /\ UNCHANGED << provider, effect, verdicts >>

Next ==
    \/ AskProvider \/ ProviderRuns
    \/ \E e \in Effects : Intend(e) \/ Apply(e) \/ Complete(e)
    \/ \E r \in Reports : Judge(r)
    \/ \E d \in Records : Publish(d)

Spec == Init /\ [][Next]_vars
=============================================================================
