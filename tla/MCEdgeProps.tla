---------------------------- MODULE MCEdgeProps ----------------------------
(* The application's outer devices are on one thread and have one output   *)
(* pin; here they are anywhere on two threads with two devices of two pins *)
(* each, so that every field of an address decides some comparison.        *)
EXTENDS EdgeProps

Eight == [thread : {0, 1}, device : {0, 1}, pin : {0, 1}]
=============================================================================
