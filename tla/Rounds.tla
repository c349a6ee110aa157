------------------------------- MODULE Rounds -------------------------------
(***************************************************************************)
(* What threads that pass a hardware idle step together can rely on: a     *)
(* round ends when nothing is owed any more, all threads pass into the     *)
(* next round before one passes again, and a message is delivered in the   *)
(* round it was sent in.  Rounds are counted modulo 3, which tells a       *)
(* thread's own round from the one before and the one after.               *)
(***************************************************************************)
EXTENDS Integers

CONSTANTS Thread,
          Message     \* each is sent by thread from, once a round, to thread to

Round == 0 .. 2
After(r) == (r + 1) % 3

VARIABLES round,    \* the round each thread is in
          owed      \* the messages sent and not delivered, with their rounds

Init == round = [t \in Thread |-> 0] /\ owed = {}

(* Thread t sends messages, in its round, none of which is under way. *)
Send(t) ==
    /\ owed \subseteq owed'
    /\ owed' \ owed \subseteq {m \in Message : m.from = t} \X {round[t]}
    /\ \A p \in owed' \ owed, r \in Round : <<p[1], r>> \notin owed
    /\ UNCHANGED round

(* Thread t, in the round of message m, receives it. *)
Deliver(t, m) ==
    /\ m.to = t /\ <<m, round[t]>> \in owed
    /\ owed' = owed \ {<<m, round[t]>>}
    /\ UNCHANGED round

(* Thread t passes into the next round: the first one leaves nothing owed. *)
Pass(t) ==
    /\ \A u \in Thread : round[u] \in {round[t], After(round[t])}
    /\ (\A u \in Thread : round[u] = round[t]) => owed = {}
    /\ round' = [round EXCEPT ![t] = After(@)]
    /\ UNCHANGED owed

Next == \E t \in Thread :
            \/ Pass(t)
            \/ Send(t)
            \/ \E m \in Message : Deliver(t, m)

Spec == Init /\ [][Next]_<<round, owed>>
=============================================================================
