------------------------ MODULE DurableRunPowerLoss ------------------------
(***************************************************************************)
(* DurableRun on a machine that may lose power.  durable_create_new syncs   *)
(* the event file it made but not the directory that names it (the capture  *)
(* store and the native write do sync theirs), so the newest names of the   *)
(* events directory may be gone afterwards, with every process.  Files      *)
(* inside the workspace and the capture store are taken to survive.         *)
(***************************************************************************)
EXTENDS DurableRun

\* A prefix of the events directory survives, whole or torn.
PowerLoss ==
    /\ \E p \in Procs : Running(p)
    /\ \E k \in 0 .. Cardinality(journal) :
          /\ journal' = {f \in journal : f.seq < k}
          /\ torn' = {f \in torn : f.seq < k}
    /\ pc' = [p \in Procs |-> IF Running(p) THEN "crashed" ELSE pc[p]]
    /\ UNCHANGED << evidence, terminalFiles, world, bound, pend, turn, result >>

PowerSpec == Init /\ [][Next \/ PowerLoss]_vars
=============================================================================
