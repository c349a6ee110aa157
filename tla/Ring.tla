-------------------------------- MODULE Ring --------------------------------
(***************************************************************************)
(* The ring application on the softswitch: a token goes round a ring of    *)
(* devices, its count growing on every hop.  A device has the token while  *)
(* its count is not 0, so a count that comes round to 0 is a token lost.   *)
(* Every device has a message for one target only, which a thread sends in *)
(* the iteration that prepares it; from then on it is in the network.      *)
(***************************************************************************)
EXTENDS Integers

CONSTANTS Dev,          \* the devices
          First,        \* the one that starts with the token
          Target,       \* the device that each sends to
          Increment,    \* graph_props::increment
          CountRange    \* bound: values of a count, 2^32 in the code

(* The instances start at 1 and add 2; what matters is that an odd count   *)
(* stays odd, also when it wraps.                                          *)
ASSUME RingAssumption ==
    /\ First \in Dev /\ Target \in [Dev -> Dev]
    /\ Increment \in Nat /\ Increment % 2 = 0
    /\ CountRange \in Nat \ {0, 1} /\ CountRange % 2 = 0

Count == 0 .. CountRange - 1

VARIABLES count,      \* dev_state::count
          inFlight    \* token_msg: the counts on their way to each device

vars == <<count, inFlight>>

Init ==
    /\ count = [d \in Dev |-> IF d = First THEN 1 ELSE 0]
    /\ inFlight = [d \in Dev |-> {}]

dev_ready_to_send_handler(d) == count[d] # 0

(* Fault: an increment that can take an odd count to 0. *)
Added_Odd(n) == (n + Increment + 1) % CountRange

(* Unsigned addition wraps around. *)
Added(n) == (n + Increment) % CountRange

(* Fault: the device keeps a copy of the token. *)
dev_out_send_handler_Keeps(d) ==
    /\ dev_ready_to_send_handler(d)
    /\ inFlight' = [inFlight EXCEPT ![Target[d]] = @ \cup {Added(count[d])}]
    /\ UNCHANGED count

dev_out_send_handler(d) ==
    /\ dev_ready_to_send_handler(d)
    /\ inFlight' = [inFlight EXCEPT ![Target[d]] = @ \cup {Added(count[d])}]
    /\ count' = [count EXCEPT ![d] = 0]

(* What the device had before is overwritten. *)
dev_in_receive_handler(d, n) ==
    /\ n \in inFlight[d]
    /\ inFlight' = [inFlight EXCEPT ![d] = @ \ {n}]
    /\ count' = [count EXCEPT ![d] = n]

Next == \E d \in Dev : dev_out_send_handler(d)
                       \/ \E n \in inFlight[d] : dev_in_receive_handler(d, n)

Spec == Init /\ [][Next]_vars

(* Some thread or the network runs as long as one can. *)
FairSpec == Spec /\ WF_vars(Next)
-----------------------------------------------------------------------------
(* The tokens: each is with a device or on its way to one. *)
Tokens == {<<"device", d, count[d]>> : d \in {e \in Dev : count[e] # 0}}
          \cup UNION {{<<"message", d, n>> : n \in inFlight[d]} : d \in Dev}

(* There is one token, with a device or in a message, and as a message it  *)
(* is never taken for the absence of a token: sends and receives neither   *)
(* lose nor copy it, and its count never wraps to 0.                       *)
OneToken ==
    /\ \E token \in Tokens : Tokens = {token} /\ token[3] # 0
    /\ \A d \in Dev : count[d] \in Count

(* Every step takes the token one hop on: from the device that has it into *)
(* a message for that device's target, or out of the message to the device *)
(* it is for.  Nothing else happens in the network, and it never ends.     *)
TokenHops ==
    [][\A d \in Dev : /\ count[d] # 0 => inFlight[Target[d]]' # {}
                      /\ inFlight[d] # {} => count[d]' # 0]_vars
NeverStuck == \E d \in Dev : dev_ready_to_send_handler(d) \/ inFlight[d] # {}

(* The token comes round again and again, to every device of the ring,     *)
(* though its count wraps: the compute never stops.                        *)
GoesRound == \A d \in Dev : []<>(count[d] # 0)
=============================================================================
