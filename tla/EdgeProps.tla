------------------------------ MODULE EdgeProps ------------------------------
(***************************************************************************)
(* The edge properties application: every outer device sends one tick to   *)
(* the inner device, which tells the senders apart by the mask that is the *)
(* property of the edge a tick came by, and ends the program when it has   *)
(* heard them all.  Masks and dState->acc are the sets of the bits that    *)
(* are set in them.                                                        *)
(***************************************************************************)
EXTENDS EdgeLookup, FiniteSets

CONSTANTS outerCount,    \* inner_props::outerCount
          Address        \* the output pins that outer devices may have

(* All masks fit in the 32 bits of acc, and 1<<outerCount in an int. *)
ASSUME EdgePropsAssumption ==
    /\ outerCount \in 1 .. 30
    /\ Address \subseteq AddressType

Outer == 0 .. outerCount - 1

VARIABLES
    out,         \* static: the output pin of each outer device
    bindings,    \* static: the bindings of the inner device's input pin
    ready,       \* outer_state::ready
    inFlight,    \* the sources of the ticks sent and not yet received
    acc,         \* inner_state::acc
    exited       \* the inner device has called exit

graph == <<out, bindings>>
vars == <<graph, ready, inFlight, acc, exited>>

(* The edge from outer device d has a mask with bit d. *)
Binding(d) == [source |-> out[d], properties |-> {d}]

(* The outer devices are anywhere, and the inner device's table lists them *)
(* sorted by where they are.                                               *)
Init ==
    /\ out \in [Outer -> Address]
    /\ \A d, e \in Outer : d # e => out[d] # out[e]
    /\ \E order \in [1 .. outerCount -> Outer] :
          /\ \A d \in Outer : \E i \in 1 .. outerCount : order[i] = d
          /\ bindings = [i \in 1 .. outerCount |-> Binding(order[i])]
    /\ SortedBySource(bindings)
    /\ ready = [d \in Outer |-> TRUE]
    /\ inFlight = {} /\ acc = {} /\ exited = FALSE

-----------------------------------------------------------------------------
outer_ready_to_send_handler(d) == ready[d]

(* Fault: the device does not note that it has sent its tick. *)
outer_out_send_handler_Repeats(d) ==
    /\ outer_ready_to_send_handler(d)
    /\ inFlight' = inFlight \cup {out[d]}
    /\ UNCHANGED <<graph, ready, acc, exited>>

(* The softswitch puts the device's address in the packet. *)
outer_out_send_handler(d) ==
    /\ outer_ready_to_send_handler(d)
    /\ ready' = [ready EXCEPT ![d] = FALSE]
    /\ inFlight' = inFlight \cup {out[d]}
    /\ UNCHANGED <<graph, acc, exited>>

(* Fault: the mask is stored instead of added. *)
inner_in_receive_handler_Stores(mask) == acc' = mask /\ exited' = (acc' = Outer)

inner_in_receive_handler(mask) == acc' = acc \cup mask /\ exited' = (acc' = Outer)

(* softswitch_onReceive finds the tick's edge and calls the handler. *)
Receive(source) ==
    /\ ~exited
    /\ source \in inFlight
    /\ inFlight' = inFlight \ {source}
    /\ \E mask \in edgeProperties(bindings, source, SUBSET Outer) : inner_in_receive_handler(mask)
    /\ UNCHANGED <<graph, ready>>

Next == (\E d \in Outer : outer_out_send_handler(d)) \/ \E source \in inFlight : Receive(source)

Spec == Init /\ [][Next]_vars

(* Some thread or the network runs as long as one can. *)
FairSpec == Spec /\ WF_vars(Next)
-----------------------------------------------------------------------------
(* softswitch_onReceive finds, for every tick under way and wherever its   *)
(* sender is, the edge it came by.                                         *)
EdgeFound == \A source \in inFlight : FindsEdge(bindings, source)

(* Every device's tick is recorded once: until it is received, its bit is  *)
(* not set (the inner device's assertion), and with the last one, and not  *)
(* before, the program exits.                                              *)
TicksRecorded ==
    /\ \A d \in Outer : /\ (d \in acc) <=> (~ready[d] /\ out[d] \notin inFlight)
                        /\ ready[d] => out[d] \notin inFlight
    /\ exited <=> acc = Outer

(* Until the program exits, a device has still to send or a tick to be     *)
(* received: it is never left waiting for a tick that was lost.            *)
GoesOn == ~exited => inFlight # {} \/ \E d \in Outer : outer_ready_to_send_handler(d)

(* How far the devices have come: the ticks sent, and those recorded. *)
Progress == ({d \in Outer : ~ready[d]} \X {"sent"}) \cup (acc \X {"recorded"})

(* Every step sends a tick or records one that was not yet.                *)
OnlyForward == [][Cardinality(Progress) < Cardinality(Progress')]_vars

(* All ticks are received in the end, and the program exits. *)
Completes == <>exited
=============================================================================
