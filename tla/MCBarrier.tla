----------------------------- MODULE MCBarrier -----------------------------
(* Two devices share a thread and one has its own, as in the instances of  *)
(* the application, with fewer steps.                                      *)
EXTENDS Barrier

Dev3 == {0, 1, 2}
TwoEach == [d \in Dev |-> d \div 2]
=============================================================================
