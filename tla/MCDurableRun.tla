---------------------------- MODULE MCDurableRun ----------------------------
(***************************************************************************)
(* DurableRun for TLC.  The memory of a process that stopped is never read  *)
(* again, which the safety runs use as a view.                              *)
(***************************************************************************)
EXTENDS DurableRun

\* The part of a process's memory that still matters, to it or to a property.
Memory(p) ==
    IF pc[p] \in Stopped THEN << mode[p], report[p] >>
    ELSE << mode[p], authority[p], seen[p], seenTerminals[p],
            IF pc[p] \in {"create", "sync"} THEN pend[p] ELSE NoFile,
            next[p], snap[p], report[p], passed[p], record[p] >>

View == << disk, world, pc, [p \in Procs |-> Memory(p)] >>
=============================================================================
