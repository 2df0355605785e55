---------------------------- MODULE MissionLedger ----------------------------
(***************************************************************************)
(* What the Mission store promises for one Mission: its record is a ledger  *)
(* that every operation reads or changes in one instant between its call    *)
(* and its return.  An operation that reports success took effect, one that *)
(* reports failure did not, one whose process died may or may not have.     *)
(***************************************************************************)
CONSTANTS Clients, None

VARIABLES
    ledger,  \* the record, or None
    phase,   \* of each operation: "idle", "open", "applied" or how it ended
    asked,   \* what it was asked to do
    got      \* the record that a reading operation returned

vars == << ledger, phase, asked, got >>

Init ==
    /\ ledger \in {None, [ops |-> {}, step |-> None]}
    /\ phase = [c \in Clients |-> "idle"]
    /\ asked = [c \in Clients |-> None]
    /\ got = [c \in Clients |-> None]

Call(c) ==
    /\ phase[c] = "idle"
    /\ phase' = [phase EXCEPT ![c] = "open"]
    /\ \E k \in {"update", "step", "save", "read"} :
           asked' = [asked EXCEPT ![c] = k]
    /\ UNCHANGED << ledger, got >>

\* An update adds its operation to the record it finds, a continuation also
\* becomes its last step, a save replaces the record.
Changed(c, new) ==
    \/ /\ asked[c] = "update" /\ ledger # None
       /\ new = [ledger EXCEPT !.ops = @ \cup {c}]
    \/ /\ asked[c] = "step" /\ ledger # None
       /\ new = [ops |-> ledger.ops \cup {c}, step |-> c]
    \/ /\ asked[c] = "save"
       /\ \E s \in {None, c} : new = [ops |-> {c}, step |-> s]

\* The effect is visible; the operation returns now or later.
Apply(c) ==
    /\ phase[c] = "open"
    /\ Changed(c, ledger')
    /\ \E now \in {"applied", "done"} : phase' = [phase EXCEPT ![c] = now]
    /\ UNCHANGED << asked, got >>

Read(c) ==
    /\ phase[c] = "open" /\ asked[c] = "read"
    /\ got' = [got EXCEPT ![c] = ledger]
    /\ phase' = [phase EXCEPT ![c] = "done"]
    /\ UNCHANGED << ledger, asked >>

Succeed(c) ==
    /\ phase[c] = "applied"
    /\ phase' = [phase EXCEPT ![c] = "done"]
    /\ UNCHANGED << ledger, asked, got >>

Fail(c) ==
    /\ phase[c] = "open"
    /\ phase' = [phase EXCEPT ![c] = "failed"]
    /\ UNCHANGED << ledger, asked, got >>

Die(c) ==
    /\ phase[c] \in {"open", "applied"}
    /\ phase' = [phase EXCEPT ![c] = "crashed"]
    /\ UNCHANGED << ledger, asked, got >>

Next ==
    \E c \in Clients :
        Call(c) \/ Apply(c) \/ Read(c) \/ Succeed(c) \/ Fail(c) \/ Die(c)

Spec == Init /\ [][Next]_vars
=============================================================================
