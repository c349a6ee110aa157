------------------------------ MODULE RTSList ------------------------------
(***************************************************************************)
(* The ready-to-send (RTS) list of one softswitch thread, as               *)
(* softswitch_rts.cpp keeps it: an intrusive, doubly linked list threaded  *)
(* through the prev and next fields of the thread's DeviceContexts, with   *)
(* rtsHead and rtsTail in its PThreadContext.                              *)
(*                                                                         *)
(* A list is a record of the four pointers.  Like the code, removing or    *)
(* popping a device leaves the device's own pointers stale.                *)
(***************************************************************************)
EXTENDS Integers, Sequences

CONSTANTS NumDevices,   \* PThreadContext::numDevices
          Null          \* the null DeviceContext pointer

Device == 0 .. NumDevices - 1

ASSUME NumDevicesAssumption == NumDevices \in Nat \ {0}
ASSUME NullAssumption == Null \notin Device

Pointer == Device \cup {Null}

RTSListType == [head : Pointer, tail : Pointer,
                prev : [Device -> Pointer], next : [Device -> Pointer]]

(* The statically initialised context: nothing is linked. *)
InitialList == [head |-> Null, tail |-> Null,
                prev |-> [d \in Device |-> Null],
                next |-> [d \in Device |-> Null]]

(* rtsHead = rtsTail = 0; the devices' pointers are not touched. *)
ClearedList(L) == [head |-> Null, tail |-> Null, prev |-> L.prev, next |-> L.next]

(* Fault: the device is put at the front. *)
rts_append_AtFront(L, d) ==
    [head |-> d,
     tail |-> IF L.head = Null THEN d ELSE L.tail,
     prev |-> [e \in Device |-> IF e = L.head THEN d
                                ELSE IF e = d THEN Null ELSE L.prev[e]],
     next |-> [L.next EXCEPT ![d] = L.head]]

(* The device becomes the tail, and the head too when the list was empty. *)
rts_append(L, d) ==
    [head |-> IF L.tail = Null THEN d ELSE L.head,
     tail |-> d,
     prev |-> [L.prev EXCEPT ![d] = L.tail],
     next |-> [e \in Device |-> IF e = L.tail THEN d
                                ELSE IF e = d THEN Null ELSE L.next[e]]]

(* Fault: rtsTail still points at a device that was removed from the back. *)
rts_remove_KeepsTail(L, d) ==
    [L EXCEPT
        !.head = IF @ = d THEN L.next[d] ELSE @,
        !.prev = [e \in Device |-> IF e = L.next[d] THEN L.prev[d] ELSE @[e]],
        !.next = [e \in Device |-> IF e = L.prev[d] THEN L.next[d] ELSE @[e]]]

(* Only defined, as in the code, for a device that is on the list. *)
rts_remove(L, d) ==
    [head |-> IF L.head = d THEN L.next[d] ELSE L.head,
     tail |-> IF L.tail = d THEN L.prev[d] ELSE L.tail,
     prev |-> IF L.tail = d THEN L.prev
              ELSE [L.prev EXCEPT ![L.next[d]] = L.prev[d]],
     next |-> IF L.head = d THEN L.next
              ELSE [L.next EXCEPT ![L.prev[d]] = L.next[d]]]

(* Unlinks the head of a list that is not empty. *)
rts_pop(L) ==
    LET second == L.next[L.head]
    IN  [L EXCEPT !.head = second,
                  !.tail = IF second = Null THEN Null ELSE @,
                  !.prev = IF second = Null THEN @ ELSE [@ EXCEPT ![second] = Null]]

softswitch_IsRTSReady(L) == L.head # Null

(* The devices met by following next from rtsHead, the walk of             *)
(* rts_is_on_list, cut after NumDevices nodes.                             *)
Walk(L) ==
    LET walk[n \in 0 .. NumDevices] ==
          IF n = 0 THEN <<>>
          ELSE LET seen == walk[n - 1]
                   curr == IF seen = <<>> THEN L.head ELSE L.next[seen[Len(seen)]]
               IN  IF Len(seen) < n - 1 \/ curr = Null THEN seen
                   ELSE Append(seen, curr)
    IN  walk[NumDevices]

(* L links exactly the devices q[1], ..., q[n], in this order: the         *)
(* conditions rts_sanity checks of every node it meets.                    *)
Links(L, n, q) ==
    /\ \A i, j \in 1 .. n : q[i] = q[j] => i = j
    /\ L.head = (IF n = 0 THEN Null ELSE q[1])
    /\ L.tail = (IF n = 0 THEN Null ELSE q[n])
    /\ \A i \in 1 .. n :
          /\ L.prev[q[i]] = IF i = 1 THEN Null ELSE q[i - 1]
          /\ L.next[q[i]] = IF i = n THEN Null ELSE q[i + 1]

(* L is a list of exactly the devices of S, each linked once. *)
Lists(L, S) ==
    \E n \in 0 .. NumDevices : \E q \in [1 .. n -> Device] :
        /\ Links(L, n, q)
        /\ S = {q[i] : i \in 1 .. n}
=============================================================================
