------------------------------- MODULE Machine -------------------------------
(***************************************************************************)
(* Several softswitch threads, their mailboxes and the network between     *)
(* them.  A thread here is the loop of MainLoop seen from outside: it      *)
(* receives, sends a message to its targets one at a time, or waits in     *)
(* mboxIdle, and whether its devices want to send or to compute is up to   *)
(* the application.  What a thread does between two looks at its mailbox is    *)
(* one step, since the network can only make a mailbox fuller or its send  *)
(* slot freer meanwhile.                                                   *)
(*                                                                         *)
(* The network and the detection that the whole machine is idle are in     *)
(* hardware: they are modelled by what the program counts on.              *)
(***************************************************************************)
EXTENDS FiniteSets, Integers, Sequences

CONSTANTS
    Thread,          \* the threads of the machine
    HasDevices,      \* those that manage devices
    TargetLists,     \* the target arrays of a thread's output pins, by thread
    RecvSlots,       \* packets that a mailbox can hold for its thread
    NetCapacity,     \* packets that the network can hold between mailboxes
    MaxTargets,      \* the longest of those arrays
    MaxSends,        \* bound: messages that a thread prepares in a round
    SendOverRecv,    \* SOFTSWITCH_ENABLE_SEND_OVER_RECV
    None

ASSUME MachineAssumption ==
    /\ IsFiniteSet(Thread) /\ HasDevices \subseteq Thread
    /\ RecvSlots \in Nat \ {0} /\ NetCapacity \in Nat \ {0}
    /\ MaxTargets \in Nat \ {0} /\ MaxSends \in Nat /\ SendOverRecv \in BOOLEAN

(* A list names the threads of its addresses; several may be on one.       *)
ASSUME TargetsAssumption ==
    \A t \in HasDevices : \A list \in TargetLists[t] :
        list \in Seq(HasDevices) /\ Len(list) <= MaxTargets

(* What goes to one of the targets of a message, the n-th that thread from *)
(* prepares in its round.  The packet for a target is told from those for  *)
(* others on the same thread by how many are left to send when it is sent, *)
(* itself included.                                                        *)
Message == [from : HasDevices, n : 1 .. MaxSends, left : 1 .. MaxTargets, to : HasDevices]

Round == 0 .. 2
After(r) == (r + 1) % 3
Packet == Message \X Round

ASSUME NoneAssumption == None \notin Packet

VARIABLES
    mode,        \* "run", "idle" in mboxIdle, "woken" from it by an idle machine
    wants,       \* whether a device of the thread wants to send
    computes,    \* whether a device of the thread wants to compute
    sent,        \* messages prepared in this round
    todo,        \* threads that the current message has still to go to
    slot,        \* the packet in the send slot that hardware is sending, or None
    net,         \* the packets between mailboxes
    inbox,       \* the packets in receive slots
    round,       \* hardware idle steps a thread has done, modulo 3
    owed         \* history: packets that messages are owed as, not yet handled

threadVars == <<mode, wants, computes, sent, todo, round>>
vars == <<threadVars, slot, net, inbox, owed>>

Init ==
    /\ mode = [t \in Thread |-> IF t \in HasDevices THEN "run" ELSE "idle"]
    /\ wants \in [Thread -> BOOLEAN]
    /\ \A t \in Thread : wants[t] => t \in HasDevices /\ MaxSends > 0
    /\ computes \in [Thread -> BOOLEAN]
    /\ \A t \in Thread : computes[t] => t \in HasDevices
    /\ sent = [t \in Thread |-> 0]
    /\ todo = [t \in Thread |-> <<>>]
    /\ slot = [t \in Thread |-> None]
    /\ net = {}
    /\ inbox = [t \in Thread |-> {}]
    /\ round = [t \in Thread |-> 0]
    /\ owed = {}

-----------------------------------------------------------------------------
CanRecv(t) == inbox[t] # {}
CanSend(t) == slot[t] = None

WantToSend(t) == todo[t] # <<>> \/ wants[t]

(* A handler ran on thread t: its devices may want to send or not, and to  *)
(* compute or not.                                                         *)
HandlerRan(t) ==
    \E w, c \in BOOLEAN : /\ w => sent'[t] < MaxSends
                          /\ wants' = [wants EXCEPT ![t] = w]
                          /\ computes' = [computes EXCEPT ![t] = c]

(* Faults: a thread with targets left only sends; an idle machine's wakeup *)
(* is not acted on before what arrived since.                              *)
DoRecv_BlockedInSend(t) == mode[t] = "run" /\ CanRecv(t) /\ todo[t] = <<>>
DoRecv_WhileWoken(t) == mode[t] \in {"run", "woken"} /\ CanRecv(t)

DoRecv(t) ==
    /\ mode[t] = "run"
    /\ CanRecv(t)
    /\ SendOverRecv => ~(CanSend(t) /\ WantToSend(t))

(* Thread t takes packet p from its mailbox and has it handled. *)
Receive(t, p) ==
    /\ DoRecv(t) /\ p \in inbox[t]
    /\ inbox' = [inbox EXCEPT ![t] = @ \ {p}]
    /\ owed' = owed \ {p}
    /\ UNCHANGED <<mode, sent, todo, slot, net, round>>
    /\ HandlerRan(t)

(* Fault: the send slot may still be in use. *)
DoSend_SkipsCanSend(t) == mode[t] = "run" /\ WantToSend(t) /\ (CanRecv(t) => SendOverRecv)

DoSend(t) ==
    /\ mode[t] = "run"
    /\ CanSend(t) /\ WantToSend(t)
    /\ CanRecv(t) => SendOverRecv

(* The packet for the i-th of the targets that are left. *)
PacketFor(t, n, targets, i) ==
    <<[from |-> t, n |-> n, left |-> Len(targets) + 1 - i, to |-> targets[i]], round[t]>>

(* Those for all of them. *)
PacketsFor(t, n, targets) == {PacketFor(t, n, targets, i) : i \in 1 .. Len(targets)}

(* The send slot goes to the first of the targets, if there is one. *)
Transmit(t, n, targets) ==
    IF targets = <<>> THEN UNCHANGED <<todo, slot>>
    ELSE /\ slot' = [slot EXCEPT ![t] = PacketFor(t, n, targets, 1)]
         /\ todo' = [todo EXCEPT ![t] = Tail(targets)]

(* A device's send handler prepares a message, or turns the send down,     *)
(* which is as if it had no targets.                                       *)
Prepare(t, targets) ==
    /\ DoSend(t) /\ todo[t] = <<>>
    /\ sent' = [sent EXCEPT ![t] = @ + 1]
    /\ Transmit(t, sent'[t], targets)
    /\ owed' = owed \cup PacketsFor(t, sent'[t], targets)
    /\ UNCHANGED <<mode, net, inbox, round>>
    /\ HandlerRan(t)

(* The current message goes to another of its targets. *)
Forward(t) ==
    /\ DoSend(t) /\ todo[t] # <<>>
    /\ Transmit(t, sent[t], todo[t])
    /\ UNCHANGED <<mode, wants, computes, sent, net, inbox, round, owed>>

(* softswitch_onIdle, called since there is nothing to receive and nothing *)
(* that can be sent, runs a compute handler.  It returns true, so that the *)
(* thread starts over, again and again if devices go on computing.         *)
Compute(t) ==
    /\ mode[t] = "run" /\ computes[t]
    /\ ~CanRecv(t) /\ (~WantToSend(t) \/ ~CanSend(t))
    /\ UNCHANGED <<mode, sent, todo, slot, net, inbox, round, owed>>
    /\ HandlerRan(t)

(* Thread t has nothing to send or to compute and waits in mboxIdle, which *)
(* returns at once if there is something to receive.                       *)
EnterIdle(t) ==
    /\ mode[t] = "run"
    /\ ~WantToSend(t) /\ ~computes[t] /\ ~CanRecv(t)
    /\ mode' = [mode EXCEPT ![t] = "idle"]
    /\ UNCHANGED <<wants, computes, sent, todo, slot, net, inbox, round, owed>>

(* mboxIdle returns because there is a packet to receive. *)
LeaveIdle(t) ==
    /\ mode[t] = "idle" /\ CanRecv(t)
    /\ mode' = [mode EXCEPT ![t] = "run"]
    /\ UNCHANGED <<wants, computes, sent, todo, slot, net, inbox, round, owed>>

(* softswitch_on_hardware_idle; a thread without devices calls mboxIdle    *)
(* again at once.                                                          *)
HardwareIdle(t) ==
    /\ mode[t] = "woken"
    /\ mode' = [mode EXCEPT ![t] = IF t \in HasDevices THEN "run" ELSE "idle"]
    /\ round' = [round EXCEPT ![t] = After(@)]
    /\ sent' = [sent EXCEPT ![t] = 0]
    /\ UNCHANGED <<todo, slot, net, inbox, owed>>
    /\ IF t \in HasDevices THEN HandlerRan(t) ELSE UNCHANGED <<wants, computes>>

(* What thread t does but computing. *)
Proceed(t) ==
    \/ \E p \in inbox[t] : Receive(t, p)
    \/ t \in HasDevices /\ \E targets \in TargetLists[t] \cup {<<>>} : Prepare(t, targets)
    \/ Forward(t)
    \/ EnterIdle(t) \/ LeaveIdle(t) \/ HardwareIdle(t)

Step(t) == Proceed(t) \/ Compute(t)

-----------------------------------------------------------------------------
(* The network takes a packet out of a send slot ... *)
NetTake(t) ==
    /\ slot[t] # None /\ Cardinality(net) < NetCapacity
    /\ net' = net \cup {slot[t]}
    /\ slot' = [slot EXCEPT ![t] = None]
    /\ UNCHANGED <<threadVars, inbox, owed>>

(* ... and puts it in the mailbox it is for, once there is room. *)
NetDeliver(p) ==
    LET t == p[1].to
    IN  /\ p \in net /\ Cardinality(inbox[t]) < RecvSlots
        /\ inbox' = [inbox EXCEPT ![t] = @ \cup {p}]
        /\ net' = net \ {p}
        /\ UNCHANGED <<threadVars, slot, owed>>

(* Every thread waits in mboxIdle and no packet is on its way anywhere:    *)
(* all the calls return, and the threads go on when they are scheduled.    *)
MachineIdle ==
    /\ \A t \in Thread : mode[t] = "idle" /\ slot[t] = None /\ inbox[t] = {}
    /\ net = {}
    /\ mode' = [t \in Thread |-> "woken"]
    /\ UNCHANGED <<wants, computes, sent, todo, slot, net, inbox, round, owed>>

Hardware == MachineIdle \/ (\E t \in Thread : NetTake(t)) \/ (\E p \in net : NetDeliver(p))

Next == Hardware \/ \E t \in Thread : Step(t)

Spec == Init /\ [][Next]_vars

(* Each thread goes on, and the hardware works, whenever it can.  A thread *)
(* whose devices compute may do only that for as long as they want to.     *)
FairSpec == Spec /\ WF_vars(Hardware) /\ \A t \in Thread : WF_vars(Proceed(t))
-----------------------------------------------------------------------------
(* The packets that the current messages have still to become. *)
Unsent(t) == PacketsFor(t, sent[t], todo[t])

(* Where a packet is, on its way from one handler to the other. *)
Places(p) ==
    {<<"todo", t>> : t \in {u \in Thread : p \in Unsent(u)}}
    \cup {<<"slot", t>> : t \in {u \in Thread : slot[u] = p}}
    \cup (IF p \in net THEN {<<"net", None>>} ELSE {})
    \cup {<<"inbox", t>> : t \in {u \in Thread : p \in inbox[u]}}

(* A packet that is owed is in exactly one place, and one that is not owed *)
(* is nowhere, so that each target of a message is sent it once and has it *)
(* handled once, whatever receives come between the sends.                 *)
ExactlyOnce ==
    \A p \in Packet : IF p \in owed THEN \E l \in Places(p) : Places(p) = {l}
                                   ELSE Places(p) = {}

(* The threads pass hardware idle steps as rounds: nothing is owed when    *)
(* the machine is found idle, and a packet sent by a thread that has done  *)
(* its step is not handled by one that has yet to do it.                   *)
R == INSTANCE Rounds
ImplementsRounds == R!Spec

(* The machine is never stuck: whatever is full, some thread can receive,  *)
(* send, or compute or wait, or the hardware can move a packet, or the     *)
(* machine is idle and wakes up: one of Step and Hardware has its guard.   *)
NeverStuck ==
    \/ \E t \in Thread : \/ DoRecv(t) \/ DoSend(t)
                         \/ mode[t] = "run" /\ ~WantToSend(t) /\ ~CanRecv(t)
                         \/ mode[t] = "idle" /\ CanRecv(t)
                         \/ mode[t] = "woken"
                         \/ slot[t] # None /\ Cardinality(net) < NetCapacity
    \/ \E p \in net : Cardinality(inbox[p[1].to]) < RecvSlots
    \/ /\ \A t \in Thread : mode[t] = "idle" /\ slot[t] = None /\ inbox[t] = {}
       /\ net = {}

(* How far the messages of this round have come.  What will not be sent is *)
(* as good as handled when its message is prepared.                        *)
Stage == {"prepared", "sent", "taken", "delivered", "handled"}
Reached(m, stage) ==
    LET p == <<m, round[m.from]>>
    IN  /\ m.n <= sent[m.from]
        /\ stage # "prepared" => p \notin Unsent(m.from)
        /\ stage \in {"taken", "delivered", "handled"} => slot[m.from] # p
        /\ stage \in {"delivered", "handled"} => p \notin net
        /\ stage = "handled" => p \notin owed
Progress == {x \in Message \X Stage : Reached(x[1], x[2])}

(* The threads that wait in mboxIdle exactly when there is nothing to      *)
(* receive.                                                                *)
Settled == {t \in Thread : mode[t] = "idle" <=> ~CanRecv(t)}

(* Within a round, every step but a compute handler's brings a message     *)
(* forward and takes none back, or leaves the messages as they are and     *)
(* settles a thread, and a compute handler's undoes none of that: only     *)
(* devices that compute for ever make a round go on for ever, however the  *)
(* threads and the network are scheduled.                                  *)
OnlyForward ==
    [][\/ MachineIdle \/ \E t \in Thread : HardwareIdle(t)
       \/ (\E t \in Thread : Compute(t)) /\ UNCHANGED <<Progress, Settled>>
       \/ Progress \subseteq Progress' /\ Progress # Progress'
       \/ Progress = Progress' /\ Settled \subseteq Settled' /\ Settled # Settled']_vars

(* Devices of thread t want to compute for ever from some time on, while   *)
(* there is nothing to receive or to send.                                 *)
ComputesForEver(t) == <>[](mode[t] = "run" /\ computes[t] /\ ~CanRecv(t) /\ ~WantToSend(t))

(* Full mailboxes never block each other for good: all that is owed is     *)
(* handled, also while devices go on computing; and unless those of some   *)
(* thread do so for ever, the idle machine is found idle, each time, and   *)
(* all threads come into the next round.                                   *)
RoundsGoOn ==
    /\ []<>(owed = {})
    /\ \/ \E t \in HasDevices : ComputesForEver(t)
       \/ \A r \in Round : []<>(\A t \in Thread : round[t] = r)
=============================================================================
