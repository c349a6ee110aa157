----------------------------- MODULE MCMainLoop -----------------------------
(* Small threads for TLC. *)
EXTENDS MainLoop

OnePin == {0}
AllDevices == Device

(* Device 0 sends to both devices and away, and device 1 to the host. *)
MixedTargets == [d \in Device |-> [p \in Pin |-> IF d = 0 THEN <<1, Remote, 0>> ELSE <<>>]]
LastToHost == {NumDevices - 1} \X Pin

NoAppPins == {}

(* A lone device sends to itself and away. *)
LoneTargets == [d \in Device |-> [p \in Pin |-> <<0, Remote>>]]

(* Each device sends to the next one and away. *)
NextTargets == [d \in Device |-> [p \in Pin |-> <<(d + 1) % NumDevices, Remote>>]]
=============================================================================
