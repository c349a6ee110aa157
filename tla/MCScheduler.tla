---------------------------- MODULE MCScheduler ----------------------------
(* Small threads for TLC. *)
EXTENDS Scheduler

OnePin == {0}
AllDevices == Device
AllButTheLast == Device \ {NumDevices - 1}
=============================================================================
