----------------------------- MODULE TinselMbox -----------------------------
(***************************************************************************)
(* The software mailbox of tinsel_mbox.hpp, shared by the three threads    *)
(* that simulate one hardware thread: "cpu" runs the softswitch, "in"      *)
(* pushes messages from the network, "out" pulls messages for it.          *)
(*                                                                         *)
(* Every operation holds m_mutex from beginning to end, except while it is *)
(* asleep in m_condVar, so it is one step, and an operation that may wait  *)
(* is two: one that goes to sleep, when its predicate is false, and one    *)
(* that completes.  Notified threads leave asleep; each looks at its       *)
(* predicate again before it goes on, and may go back to sleep.            *)
(*                                                                         *)
(* A message stands for its address, length and contents.  The cpu is any  *)
(* client that keeps the operations' assertions and that, as               *)
(* softswitch_main does, waits to receive or to receive or send, and only  *)
(* after it gave back every slot it received a message in.                 *)
(***************************************************************************)
EXTENDS FiniteSets, Integers

CONSTANTS Slot,        \* 0 .. MsgsPerThread - 1
          SendSlot,    \* the slot the cpu keeps for sending
          Message,
          None

ASSUME MboxAssumption ==
    /\ Slot \subseteq Nat /\ IsFiniteSet(Slot)
    /\ SendSlot \in Slot
    /\ None \notin Message

(* MsgsPerThread is 16: there are slots to receive in. *)
ASSUME ReceiveSlotAssumption == Slot # {SendSlot}

VARIABLES
    status,           \* each slot's MsgStatus
    buffer,           \* each slot's contents, None if never written
    numSlotsEmpty, numSlotsFull,
    sendActive,
    asleep,           \* the threads blocked in m_condVar
    waitCond,         \* what the cpu waits for in mboxWaitUntil, {} if it does not
    arriving,         \* the message thread "in" holds, or None
    departing         \* the message thread "out" holds, or None

slotVars == <<status, buffer, numSlotsEmpty, numSlotsFull, sendActive>>
vars == <<slotVars, asleep, waitCond, arriving, departing>>

MsgStatus == {"SoftwareOwned", "HardwareSend", "HardwareEmpty", "HardwareFull"}
WakeupCond == {{"CAN_RECV"}, {"CAN_SEND", "CAN_RECV"}}

Init ==
    /\ status = [s \in Slot |-> "SoftwareOwned"]
    /\ buffer = [s \in Slot |-> None]
    /\ numSlotsEmpty = 0 /\ numSlotsFull = 0
    /\ sendActive = FALSE
    /\ asleep = {} /\ waitCond = {}
    /\ arriving = None /\ departing = None

With(st) == {s \in Slot : status[s] = st}

NotifyAll == asleep' = {}
GoToSleep(t) == asleep' = asleep \cup {t} /\ UNCHANGED <<slotVars, arriving, departing>>

-----------------------------------------------------------------------------
(* The cpu runs unless it is inside mboxWaitUntil. *)
CpuRuns == waitCond = {}

(* The full slot of the lowest index is taken. *)
mboxRecv ==
    /\ CpuRuns /\ numSlotsFull > 0
    /\ \E s \in With("HardwareFull") :
          /\ \A r \in With("HardwareFull") : s <= r
          /\ status' = [status EXCEPT ![s] = "SoftwareOwned"]
    /\ numSlotsFull' = numSlotsFull - 1
    /\ UNCHANGED <<buffer, numSlotsEmpty, sendActive, asleep, waitCond, arriving, departing>>

(* Fault: like mboxRecv, it tells nobody. *)
mboxAlloc_Silent(s) ==
    /\ CpuRuns /\ s # SendSlot /\ status[s] = "SoftwareOwned"
    /\ status' = [status EXCEPT ![s] = "HardwareEmpty"]
    /\ numSlotsEmpty' = numSlotsEmpty + 1
    /\ UNCHANGED <<buffer, numSlotsFull, sendActive, asleep, waitCond, arriving, departing>>

(* Fault: a slot can be given back twice. *)
mboxAlloc_Twice(s) ==
    /\ CpuRuns /\ s # SendSlot /\ status[s] \in {"SoftwareOwned", "HardwareEmpty"}
    /\ status' = [status EXCEPT ![s] = "HardwareEmpty"]
    /\ numSlotsEmpty' = numSlotsEmpty + 1
    /\ IF numSlotsEmpty' = 1 THEN NotifyAll ELSE UNCHANGED asleep
    /\ UNCHANGED <<buffer, numSlotsFull, sendActive, waitCond, arriving, departing>>

(* A slot is given to the network, which is told only if it had none. *)
mboxAlloc(s) ==
    /\ CpuRuns /\ s # SendSlot /\ status[s] = "SoftwareOwned"
    /\ status' = [status EXCEPT ![s] = "HardwareEmpty"]
    /\ numSlotsEmpty' = numSlotsEmpty + 1
    /\ IF numSlotsEmpty' = 1 THEN NotifyAll ELSE UNCHANGED asleep
    /\ UNCHANGED <<buffer, numSlotsFull, sendActive, waitCond, arriving, departing>>

(* Fault: thread "out" is not told that there is a message to pull. *)
mboxSend_Silent(m) ==
    /\ CpuRuns /\ ~sendActive
    /\ buffer' = [buffer EXCEPT ![SendSlot] = m]
    /\ status' = [status EXCEPT ![SendSlot] = "HardwareSend"]
    /\ sendActive' = TRUE
    /\ UNCHANGED <<numSlotsEmpty, numSlotsFull, asleep, waitCond, arriving, departing>>

(* The message is written to the send slot, and sent. *)
mboxSend(m) ==
    /\ CpuRuns /\ ~sendActive
    /\ buffer' = [buffer EXCEPT ![SendSlot] = m]
    /\ status' = [status EXCEPT ![SendSlot] = "HardwareSend"]
    /\ sendActive' = TRUE
    /\ NotifyAll
    /\ UNCHANGED <<numSlotsEmpty, numSlotsFull, waitCond, arriving, departing>>

Satisfied(cond) == \/ "CAN_SEND" \in cond /\ ~sendActive
                   \/ "CAN_RECV" \in cond /\ numSlotsFull > 0

(* Fault: the cpu waits while it keeps slots that it received messages in. *)
mboxWaitUntil_KeepsSlots(cond) ==
    /\ waitCond \in {{}, cond} /\ "cpu" \notin asleep
    /\ ~Satisfied(cond)
    /\ waitCond' = cond
    /\ GoToSleep("cpu")

(* mboxWaitUntil finds its condition false (if true, it returns at once). *)
mboxWaitUntil(cond) ==
    /\ waitCond \in {{}, cond} /\ "cpu" \notin asleep
    /\ With("SoftwareOwned") \subseteq {SendSlot}
    /\ ~Satisfied(cond)
    /\ waitCond' = cond
    /\ GoToSleep("cpu")

(* mboxWaitUntil, woken, finds its condition true and returns. *)
mboxWaitReturns ==
    /\ ~CpuRuns /\ "cpu" \notin asleep
    /\ Satisfied(waitCond)
    /\ waitCond' = {}
    /\ UNCHANGED <<slotVars, asleep, arriving, departing>>

-----------------------------------------------------------------------------
(* Thread "in" receives a message from the network, and pushes it into an  *)
(* empty slot (the first from a random one), waiting until there is one.   *)
NetReceives(m) ==
    /\ arriving = None /\ arriving' = m
    /\ UNCHANGED <<slotVars, asleep, waitCond, departing>>

PushWaits ==
    /\ arriving # None /\ "in" \notin asleep
    /\ numSlotsEmpty = 0
    /\ GoToSleep("in") /\ UNCHANGED waitCond

(* Fault: the message may go to any slot that software does not own. *)
netPushMessage_AnySlot(s) ==
    /\ arriving # None /\ "in" \notin asleep
    /\ numSlotsEmpty > 0
    /\ status[s] \in {"HardwareEmpty", "HardwareFull"}
    /\ buffer' = [buffer EXCEPT ![s] = arriving]
    /\ status' = [status EXCEPT ![s] = "HardwareFull"]
    /\ numSlotsEmpty' = numSlotsEmpty - 1
    /\ numSlotsFull' = numSlotsFull + 1
    /\ NotifyAll /\ arriving' = None
    /\ UNCHANGED <<sendActive, waitCond, departing>>

netPushMessage(s) ==
    /\ arriving # None /\ "in" \notin asleep
    /\ numSlotsEmpty > 0
    /\ status[s] = "HardwareEmpty"
    /\ buffer' = [buffer EXCEPT ![s] = arriving]
    /\ status' = [status EXCEPT ![s] = "HardwareFull"]
    /\ numSlotsEmpty' = numSlotsEmpty - 1
    /\ numSlotsFull' = numSlotsFull + 1
    /\ NotifyAll /\ arriving' = None
    /\ UNCHANGED <<sendActive, waitCond, departing>>

-----------------------------------------------------------------------------
(* Thread "out" pulls the message being sent, waiting until there is one,  *)
(* and sends it to the network.                                            *)
PullWaits ==
    /\ departing = None /\ "out" \notin asleep
    /\ ~sendActive
    /\ GoToSleep("out") /\ UNCHANGED waitCond

(* Fault: nobody is told that there is room to send again. *)
netPullMessage_Silent ==
    /\ departing = None /\ "out" \notin asleep
    /\ sendActive /\ sendActive' = FALSE
    /\ departing' = buffer[SendSlot]
    /\ status' = [status EXCEPT ![SendSlot] = "SoftwareOwned"]
    /\ UNCHANGED <<buffer, numSlotsEmpty, numSlotsFull, asleep, waitCond, arriving>>

netPullMessage ==
    /\ departing = None /\ "out" \notin asleep
    /\ sendActive /\ sendActive' = FALSE
    /\ departing' = buffer[SendSlot]
    /\ status' = [status EXCEPT ![SendSlot] = "SoftwareOwned"]
    /\ NotifyAll
    /\ UNCHANGED <<buffer, numSlotsEmpty, numSlotsFull, waitCond, arriving>>

NetSends ==
    /\ departing # None /\ departing' = None
    /\ UNCHANGED <<slotVars, asleep, waitCond, arriving>>

-----------------------------------------------------------------------------
(* A condition variable may wake a thread that nobody notified. *)
SpuriousWakeup(t) ==
    /\ t \in asleep /\ asleep' = asleep \ {t}
    /\ UNCHANGED <<slotVars, waitCond, arriving, departing>>

Cpu == \/ mboxRecv
       \/ \E s \in Slot : mboxAlloc(s)
       \/ \E m \in Message : mboxSend(m)
       \/ \E cond \in WakeupCond : mboxWaitUntil(cond)
       \/ mboxWaitReturns

Push == PushWaits \/ \E s \in Slot : netPushMessage(s)
Pull == PullWaits \/ netPullMessage \/ NetSends

Next == \/ Cpu \/ Push \/ Pull
        \/ \E m \in Message : NetReceives(m)
        \/ \E t \in asleep : SpuriousWakeup(t)

Spec == Init /\ [][Next]_vars

(* The three threads run whenever they can, and the cpu, which drains      *)
(* before it fills, receives what can be received and gives slots back.    *)
FairSpec ==
    /\ Spec
    /\ WF_vars(Push) /\ WF_vars(Pull)
    /\ WF_vars(mboxRecv) /\ WF_vars(mboxWaitReturns)
    /\ \A s \in Slot : WF_vars(mboxAlloc(s))
-----------------------------------------------------------------------------
TypeOK ==
    /\ status \in [Slot -> MsgStatus]
    /\ buffer \in [Slot -> Message \cup {None}]
    /\ {numSlotsEmpty, numSlotsFull} \subseteq 0 .. Cardinality(Slot)
    /\ sendActive \in BOOLEAN
    /\ asleep \subseteq {"cpu", "in", "out"}
    /\ waitCond \in WakeupCond \cup {{}}
    /\ {arriving, departing} \subseteq Message \cup {None}

(* Whatever the three threads do between each other's operations, the      *)
(* counts are the numbers of empty and full slots, and a slot is with the  *)
(* hardware for sending exactly while a send is active (check_slots, and   *)
(* the assertions of mboxCanSend, mboxRecv and netPushMessage).            *)
SlotsCounted ==
    /\ numSlotsEmpty = Cardinality(With("HardwareEmpty"))
    /\ numSlotsFull = Cardinality(With("HardwareFull"))
    /\ With("HardwareSend") = IF sendActive THEN {SendSlot} ELSE {}

(* What each thread's wait needs to end. *)
Predicate(t) == \/ t = "cpu" /\ Satisfied(waitCond)
                \/ t = "in" /\ numSlotsEmpty > 0
                \/ t = "out" /\ sendActive

(* No wakeup is lost: a thread never sleeps on while what it waits for is  *)
(* true, though mboxRecv notifies nobody and mboxAlloc only when it makes  *)
(* the first slot empty.                                                   *)
NoLostWakeup == \A t \in asleep : ~Predicate(t)

(* The threads do not wait for each other.  A cpu asleep has given every    *)
(* slot back, so no message stands before the mailbox for want of one; and *)
(* if it also waits to send, thread "out" is not waiting for a message.    *)
NoMutualWait ==
    "cpu" \in asleep => /\ "in" \notin asleep
                        /\ "CAN_SEND" \in waitCond => "out" \notin asleep

(* The mailbox is the abstract one: the slots lose, repeat and mix up no   *)
(* message, though a slot's old contents stay in it.                       *)
Copies(slots) == [m \in Message |-> Cardinality({s \in slots : buffer[s] = m})]
MB == INSTANCE Mailbox WITH
        inbox <- Copies(With("HardwareFull")),
        reading <- Copies(With("SoftwareOwned") \ {SendSlot}),
        outbox <- IF sendActive THEN buffer[SendSlot] ELSE None
ImplementsMailbox == MB!Spec

(* The network is never blocked for good: a message that arrived gets into *)
(* the mailbox, and so do the ones behind it.                              *)
ArrivalAccepted == \A m \in Message : arriving = m ~> arriving # m

(* A send does not stay active, so the cpu can send again. *)
SendCompletes == sendActive ~> ~sendActive

(* The cpu does not stay in mboxWaitUntil when there is what it waits for. *)
CpuWakes == (waitCond # {} /\ Satisfied(waitCond)) ~> waitCond = {}
=============================================================================
