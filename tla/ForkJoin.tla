------------------------------ MODULE ForkJoin ------------------------------
(***************************************************************************)
(* What the pipeline promises the systems it runs: the world alternates    *)
(* between running one operation, on one stage or on all of them, and      *)
(* being merged.  An operation starts only when the merge of the last one  *)
(* is over, and a merge only when every stage has finished its part.       *)
(***************************************************************************)
CONSTANT Stages    \* the stages there may be

VARIABLES
    phase,     \* "merged": nobody runs; "running": an operation runs
    working    \* the stages that have not finished the operation

Init == phase = "merged" /\ working = {}

Fork(S) ==
    /\ phase = "merged"
    /\ S # {}
    /\ phase' = "running"
    /\ working' = S

Finish(t) ==
    /\ phase = "running"
    /\ t \in working
    /\ working' = working \ {t}
    /\ UNCHANGED phase

Join ==
    /\ phase = "running"
    /\ working = {}
    /\ phase' = "merged"
    /\ UNCHANGED working

Next ==
    \/ \E S \in SUBSET Stages : Fork(S)
    \/ \E t \in Stages : Finish(t)
    \/ Join

Spec == Init /\ [][Next]_<<phase, working>>
=============================================================================
