------------------------------ MODULE Mailbox ------------------------------
(***************************************************************************)
(* What a mailbox promises to the thread that uses it and to the network,  *)
(* with no slots, counts or condition variable: every message that arrives *)
(* is received once, in any order, and every message that is sent departs  *)
(* once, one at a time.  The bags map a message to the number of copies.   *)
(***************************************************************************)
EXTENDS Integers

CONSTANTS Message, None

VARIABLES arriving,     \* the message the network is delivering, or None
          inbox,        \* bag of the messages that wait to be received
          reading,      \* bag of the messages the thread received and still holds
          outbox,       \* the message that waits to be collected, or None
          departing     \* the message the network is taking away, or None

boxVars == <<arriving, inbox, reading, outbox, departing>>

Empty == [m \in Message |-> 0]

Init == /\ arriving = None /\ outbox = None /\ departing = None
        /\ inbox = Empty /\ reading = Empty

Put(bag, m) == [bag EXCEPT ![m] = @ + 1]
Without(bag, m) == [bag EXCEPT ![m] = @ - 1]

Arrive(m) == /\ arriving = None /\ arriving' = m
             /\ UNCHANGED <<inbox, reading, outbox, departing>>

Deliver(m) == /\ arriving = m /\ arriving' = None
              /\ inbox' = Put(inbox, m)
              /\ UNCHANGED <<reading, outbox, departing>>

Receive(m) == /\ inbox[m] > 0
              /\ inbox' = Without(inbox, m) /\ reading' = Put(reading, m)
              /\ UNCHANGED <<arriving, outbox, departing>>

GiveBack(m) == /\ reading[m] > 0 /\ reading' = Without(reading, m)
               /\ UNCHANGED <<arriving, inbox, outbox, departing>>

Post(m) == /\ outbox = None /\ outbox' = m
           /\ UNCHANGED <<arriving, inbox, reading, departing>>

Collect(m) == /\ outbox = m /\ outbox' = None
              /\ departing = None /\ departing' = m
              /\ UNCHANGED <<arriving, inbox, reading>>

Depart(m) == /\ departing = m /\ departing' = None
             /\ UNCHANGED <<arriving, inbox, reading, outbox>>

Next == \E m \in Message :
    \/ Arrive(m) \/ Deliver(m) \/ Receive(m) \/ GiveBack(m)
    \/ Post(m) \/ Collect(m) \/ Depart(m)

Spec == Init /\ [][Next]_boxVars
=============================================================================
