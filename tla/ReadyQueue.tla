----------------------------- MODULE ReadyQueue -----------------------------
(***************************************************************************)
(* What the RTS list promises to the devices of a thread, with no          *)
(* pointers: a queue in which a device waits at most once, joins at the    *)
(* back, and keeps its place until it is served from the front or          *)
(* withdraws.                                                              *)
(***************************************************************************)
EXTENDS Integers, Sequences, SequencesExt

CONSTANT Device

VARIABLE queue     \* the devices that want to send, in order of service

Waiting == ToSet(queue)

Init == queue = <<>>

(* A device that starts to want to send joins at the back. *)
Join(d) == d \notin Waiting /\ queue' = Append(queue, d)

(* A device that no longer wants to send leaves from wherever it is. *)
Withdraw(d) == \E i \in 1 .. Len(queue) : queue[i] = d /\ queue' = RemoveAt(queue, i)

(* The front device sends; if it wants to send again it goes to the back. *)
Serve == /\ queue # <<>>
         /\ \/ queue' = Tail(queue)
            \/ queue' = Append(Tail(queue), Head(queue))

Next == Serve \/ \E d \in Device : Join(d) \/ Withdraw(d)

Spec == Init /\ [][Next]_queue
=============================================================================
