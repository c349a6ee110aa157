----------------------------- MODULE EdgeLookup -----------------------------
(***************************************************************************)
(* How softswitch_onReceive finds the edge that a packet came by: a binary *)
(* search of the input pin's bindings, a static table sorted by source,    *)
(* for the source that the packet names.                                   *)
(***************************************************************************)
EXTENDS Integers, Sequences

(* The sources: an output pin of a device on a thread. *)
AddressType == [thread : Nat, device : Nat, pin : Nat]

cmpAddress(a, b) ==
    \/ a.thread < b.thread
    \/ a.thread = b.thread /\ a.device < b.device
    \/ a.thread = b.thread /\ a.device = b.device /\ a.pin < b.pin

(* The order that the search counts on, in which no source comes twice. *)
SortedBySource(bindings) ==
    \A i, j \in DOMAIN bindings : i < j => cmpAddress(bindings[i].source, bindings[j].source)

(* Fault: the device is compared before the thread. *)
BindingLess_ByDevice(binding, source) ==
    \/ binding.source.device < source.device
    \/ binding.source.device = source.device /\ cmpAddress(binding.source, source)

(* How the search compares a binding with the source it looks for. *)
BindingLess(binding, source) == cmpAddress(binding.source, source)

(* The first position whose binding is not less, just past the end if      *)
(* there is none.                                                          *)
lower_bound(bindings, source) ==
    CHOOSE i \in 1 .. Len(bindings) + 1 :
        /\ \A j \in 1 .. i - 1 : BindingLess(bindings[j], source)
        /\ i <= Len(bindings) => ~BindingLess(bindings[i], source)

(* The assertion that the edge found is the packet's.  Without assertions  *)
(* the handler gets the properties of the edge at that position, whosever  *)
(* they are, or what lies behind the table.                                *)
FindsEdge(bindings, source) ==
    LET edge == lower_bound(bindings, source)
    IN  edge \in DOMAIN bindings /\ bindings[edge].source = source

edgeProperties(bindings, source, Any) ==
    LET edge == lower_bound(bindings, source)
    IN  IF edge \in DOMAIN bindings THEN {bindings[edge].properties} ELSE Any
=============================================================================
