----------------------------- MODULE CycleCount -----------------------------
(* The time between two readings of the cycle counter, which wraps while   *)
(* the softswitch runs.                                                    *)
EXTENDS Integers

CONSTANT CycleRange     \* the values a cycle count can have, 2^32 in the code

Cycles == 0 .. CycleRange - 1

(* The difference is unsigned, so it wraps already when it is taken; what  *)
(* is added for a counter that wrapped is lost when the result is returned.*)
deltaCycles(tstart, tend) ==
    IF tend > tstart THEN tend - tstart
    ELSE (((tend - tstart) % CycleRange) + CycleRange) % CycleRange
=============================================================================
