------------------------------ MODULE Lockstep ------------------------------
(***************************************************************************)
(* What the barrier application promises: devices that count to MaxTime    *)
(* together, none beginning a step before all have begun the one before.   *)
(***************************************************************************)
EXTENDS Integers

CONSTANTS Dev, MaxTime

VARIABLE time

Init == time = [d \in Dev |-> 0]

Advance(d) ==
    /\ time[d] < MaxTime
    /\ \A e \in Dev : time[d] <= time[e]
    /\ time' = [time EXCEPT ![d] = @ + 1]

Next == \E d \in Dev : Advance(d)

Spec == Init /\ [][Next]_time
=============================================================================
