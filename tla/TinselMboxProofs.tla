-------------------------- MODULE TinselMboxProofs --------------------------
(***************************************************************************)
(* Proofs about the software mailbox, for any number of slots and any      *)
(* messages: its counts are right, it loses no wakeup, and it is the       *)
(* abstract mailbox.                                                       *)
(***************************************************************************)
EXTENDS TinselMbox, FiniteSetTheorems, TLAPS

(* The send slot is only ever the cpu's or, while a send is active, the    *)
(* hardware's: it never holds a message to receive.                        *)
SendSlotReserved ==
    status[SendSlot] = IF sendActive THEN "HardwareSend" ELSE "SoftwareOwned"

(* The inductive invariant.  The bounds on the counts follow from what     *)
(* they count; the send slot matters because a send or a pull changes its  *)
(* status and must not change what is counted.                             *)
IInv ==
    /\ status \in [Slot -> MsgStatus]
    /\ buffer \in [Slot -> Message \cup {None}]
    /\ sendActive \in BOOLEAN
    /\ asleep \subseteq {"cpu", "in", "out"}
    /\ waitCond \in WakeupCond \cup {{}}
    /\ {arriving, departing} \subseteq Message \cup {None}
    /\ SendSlotReserved
    /\ SlotsCounted
    /\ NoLostWakeup

-----------------------------------------------------------------------------
(* When a slot goes from one status to another, one set of slots loses it, *)
(* one gains it, and the others stay what they are (the updates of         *)
(* m_numSlotsEmpty and m_numSlotsFull beside each change of status).       *)
LEMMA SlotMoves ==
    ASSUME NEW f \in [Slot -> MsgStatus], NEW s \in Slot, NEW b \in MsgStatus,
           NEW a, a = f[s], a # b,
           NEW g, g = [f EXCEPT ![s] = b]
    PROVE  /\ g \in [Slot -> MsgStatus]
           /\ \A c : c \notin {a, b} => {r \in Slot : g[r] = c} = {r \in Slot : f[r] = c}
           /\ {r \in Slot : g[r] = a} = {r \in Slot : f[r] = a} \ {s}
           /\ {r \in Slot : g[r] = b} = {r \in Slot : f[r] = b} \cup {s}
           /\ s \in {r \in Slot : f[r] = a}
           /\ s \notin {r \in Slot : f[r] = b}
OBVIOUS

(* A set of slots that gains or loses a slot grows or shrinks by one.      *)
LEMMA SlotsCardinality ==
    ASSUME NEW T, T \subseteq Slot, NEW s \in Slot
    PROVE  /\ Cardinality(T) \in Nat
           /\ Cardinality(T) <= Cardinality(Slot)
           /\ s \notin T => Cardinality(T \cup {s}) = Cardinality(T) + 1
           /\ s \in T => Cardinality(T \ {s}) = Cardinality(T) - 1
           /\ s \in T => Cardinality(T) > 0
<1>1. IsFiniteSet(Slot)
  BY MboxAssumption
<1>2. IsFiniteSet(T) /\ Cardinality(T) <= Cardinality(Slot)
  BY <1>1, FS_Subset
<1>3. Cardinality(T) \in Nat
  BY <1>2, FS_CardinalityType
<1>4. s \notin T => Cardinality(T \cup {s}) = Cardinality(T) + 1
  BY <1>2, FS_AddElement
<1>5. ASSUME s \in T
      PROVE  Cardinality(T \ {s}) = Cardinality(T) - 1 /\ Cardinality(T) > 0
  <2>1. Cardinality(T \ {s}) = Cardinality(T) - 1
    BY <1>2, <1>5, FS_RemoveElement
  <2>2. T # {}
    BY <1>5
  <2>3. Cardinality(T) # 0
    BY <1>2, <2>2, FS_EmptySet
  <2> QED
    BY <1>3, <2>1, <2>3
<1> QED
  BY <1>2, <1>3, <1>4, <1>5

(* The counts are naturals, and bounded by the number of slots.            *)
LEMMA CountsBounded ==
    IInv => /\ numSlotsEmpty \in 0 .. Cardinality(Slot)
            /\ numSlotsFull \in 0 .. Cardinality(Slot)
<1> SUFFICES ASSUME IInv
             PROVE  /\ numSlotsEmpty \in 0 .. Cardinality(Slot)
                    /\ numSlotsFull \in 0 .. Cardinality(Slot)
  OBVIOUS
<1>1. SendSlot \in Slot /\ IsFiniteSet(Slot)
  BY MboxAssumption
<1>2. \A st : With(st) \subseteq Slot
  BY DEF With
<1>3. \A st : /\ Cardinality(With(st)) \in Nat
              /\ Cardinality(With(st)) <= Cardinality(Slot)
  BY <1>1, <1>2, SlotsCardinality
<1>4. Cardinality(Slot) \in Nat
  BY <1>1, FS_CardinalityType
<1> QED
  BY <1>3, <1>4 DEF IInv, SlotsCounted

-----------------------------------------------------------------------------
(* The initial state satisfies the invariant: all slots are software's.    *)
LEMMA InitIInv == Init => IInv
<1> SUFFICES ASSUME Init PROVE IInv
  OBVIOUS
<1>1. \A st : st # "SoftwareOwned" => With(st) = {}
  BY DEF Init, With
<1>2. Cardinality({}) = 0
  BY FS_EmptySet
<1>3. SlotsCounted
  BY <1>1, <1>2 DEF Init, SlotsCounted
<1>4. NoLostWakeup
  BY DEF Init, NoLostWakeup
<1> QED
  BY <1>3, <1>4, MboxAssumption
  DEF Init, IInv, SendSlotReserved, MsgStatus, WakeupCond

(* Receiving keeps the invariant, though it notifies nobody: it makes no   *)
(* thread's predicate true.                                                *)
LEMMA RecvIInv == IInv /\ mboxRecv => IInv'
<1> SUFFICES ASSUME IInv, mboxRecv PROVE IInv'
  OBVIOUS
<1> USE DEF IInv
<1>1. PICK s \in With("HardwareFull") :
        status' = [status EXCEPT ![s] = "SoftwareOwned"]
  BY DEF mboxRecv
<1>2. /\ s \in Slot /\ status[s] = "HardwareFull"
      /\ s # SendSlot
  BY <1>1, MboxAssumption DEF With, SendSlotReserved
<1>3. /\ status' \in [Slot -> MsgStatus]
      /\ With("HardwareFull")' = With("HardwareFull") \ {s}
      /\ With("HardwareEmpty")' = With("HardwareEmpty")
      /\ With("HardwareSend")' = With("HardwareSend")
  BY <1>1, <1>2, SlotMoves, "SoftwareOwned" \in MsgStatus DEF With, MsgStatus
<1>4. Cardinality(With("HardwareFull")') = Cardinality(With("HardwareFull")) - 1
  BY <1>1, <1>2, <1>3, SlotsCardinality, With("HardwareFull") \subseteq Slot DEF With
<1>5. SlotsCounted'
  BY <1>3, <1>4 DEF SlotsCounted, mboxRecv
<1>6. SendSlotReserved'
  BY <1>1, <1>2, MboxAssumption DEF SendSlotReserved, mboxRecv
<1>7. NoLostWakeup'
  BY CountsBounded DEF NoLostWakeup, Predicate, Satisfied, mboxRecv
<1> QED
  BY <1>3, <1>5, <1>6, <1>7 DEF mboxRecv

(* Giving a slot back keeps the invariant: if it notifies nobody there was *)
(* an empty slot before, so that thread "in" was not asleep.               *)
LEMMA AllocIInv == ASSUME IInv, NEW s \in Slot, mboxAlloc(s) PROVE IInv'
<1> USE DEF IInv
<1>1. /\ status[s] = "SoftwareOwned" /\ s # SendSlot
      /\ status' = [status EXCEPT ![s] = "HardwareEmpty"]
  BY DEF mboxAlloc
<1>2. /\ status' \in [Slot -> MsgStatus]
      /\ With("HardwareEmpty")' = With("HardwareEmpty") \cup {s}
      /\ s \notin With("HardwareEmpty")
      /\ With("HardwareFull")' = With("HardwareFull")
      /\ With("HardwareSend")' = With("HardwareSend")
  BY <1>1, SlotMoves, "HardwareEmpty" \in MsgStatus DEF With, MsgStatus
<1>3. Cardinality(With("HardwareEmpty")') = Cardinality(With("HardwareEmpty")) + 1
  BY <1>2, SlotsCardinality, With("HardwareEmpty") \subseteq Slot DEF With
<1>4. SlotsCounted'
  BY <1>2, <1>3 DEF SlotsCounted, mboxAlloc
<1>5. SendSlotReserved'
  BY <1>1, MboxAssumption DEF SendSlotReserved, mboxAlloc
<1>6. CASE numSlotsEmpty' = 1
  <2>1. asleep' = {}
    BY <1>6 DEF mboxAlloc, NotifyAll
  <2>2. NoLostWakeup'
    BY <2>1 DEF NoLostWakeup
  <2> QED
    BY <1>2, <1>4, <1>5, <2>1, <2>2 DEF mboxAlloc
<1>7. CASE numSlotsEmpty' # 1
  <2>1. numSlotsEmpty > 0 /\ asleep' = asleep
    BY <1>7, CountsBounded DEF mboxAlloc
  <2>2. "in" \notin asleep
    BY <2>1 DEF NoLostWakeup, Predicate
  <2>3. \A t \in asleep : t \in {"cpu", "out"} /\ ~Predicate(t)
    BY <2>2 DEF NoLostWakeup
  <2>4. NoLostWakeup'
    BY <2>1, <2>3 DEF NoLostWakeup, Predicate, Satisfied, mboxAlloc
  <2> QED
    BY <1>2, <1>4, <1>5, <2>1, <2>4 DEF mboxAlloc
<1> QED
  BY <1>6, <1>7

(* Sending keeps the invariant: the send slot was not counted, and all     *)
(* threads are notified.                                                   *)
LEMMA SendIInv == ASSUME IInv, NEW m \in Message, mboxSend(m) PROVE IInv'
<1> USE DEF IInv
<1>1. /\ SendSlot \in Slot /\ status[SendSlot] = "SoftwareOwned"
      /\ status' = [status EXCEPT ![SendSlot] = "HardwareSend"]
      /\ ~sendActive /\ sendActive'
  BY MboxAssumption DEF mboxSend, SendSlotReserved
<1>2. /\ status' \in [Slot -> MsgStatus]
      /\ With("HardwareSend")' = With("HardwareSend") \cup {SendSlot}
      /\ With("HardwareFull")' = With("HardwareFull")
      /\ With("HardwareEmpty")' = With("HardwareEmpty")
  BY <1>1, SlotMoves, "HardwareSend" \in MsgStatus DEF With, MsgStatus
<1>3. SlotsCounted'
  BY <1>1, <1>2 DEF SlotsCounted, mboxSend
<1>4. SendSlotReserved'
  BY <1>1 DEF SendSlotReserved
<1>5. NoLostWakeup'
  BY DEF NoLostWakeup, mboxSend, NotifyAll
<1> QED
  BY <1>1, <1>2, <1>3, <1>4, <1>5 DEF mboxSend, NotifyAll

(* Pushing a message keeps the invariant.                                  *)
LEMMA PushIInv == ASSUME IInv, NEW s \in Slot, netPushMessage(s) PROVE IInv'
<1> USE DEF IInv
<1>1. /\ status[s] = "HardwareEmpty" /\ s # SendSlot
      /\ status' = [status EXCEPT ![s] = "HardwareFull"]
  BY DEF netPushMessage, SendSlotReserved
<1>2. /\ status' \in [Slot -> MsgStatus]
      /\ With("HardwareEmpty")' = With("HardwareEmpty") \ {s}
      /\ s \in With("HardwareEmpty")
      /\ With("HardwareFull")' = With("HardwareFull") \cup {s}
      /\ s \notin With("HardwareFull")
      /\ With("HardwareSend")' = With("HardwareSend")
  BY <1>1, SlotMoves, "HardwareFull" \in MsgStatus DEF With, MsgStatus
<1>3. /\ Cardinality(With("HardwareEmpty")') = Cardinality(With("HardwareEmpty")) - 1
      /\ Cardinality(With("HardwareFull")') = Cardinality(With("HardwareFull")) + 1
  BY <1>2, SlotsCardinality, With("HardwareEmpty") \subseteq Slot,
     With("HardwareFull") \subseteq Slot DEF With
<1>4. SlotsCounted'
  BY <1>2, <1>3 DEF SlotsCounted, netPushMessage
<1>5. SendSlotReserved'
  BY <1>1, MboxAssumption DEF SendSlotReserved, netPushMessage
<1>6. NoLostWakeup'
  BY DEF NoLostWakeup, netPushMessage, NotifyAll
<1> QED
  BY <1>2, <1>4, <1>5, <1>6 DEF netPushMessage, NotifyAll

(* Pulling the message being sent keeps the invariant.                     *)
LEMMA PullIInv == IInv /\ netPullMessage => IInv'
<1> SUFFICES ASSUME IInv, netPullMessage PROVE IInv'
  OBVIOUS
<1> USE DEF IInv
<1>1. /\ SendSlot \in Slot /\ status[SendSlot] = "HardwareSend"
      /\ status' = [status EXCEPT ![SendSlot] = "SoftwareOwned"]
      /\ sendActive /\ ~sendActive' /\ sendActive' \in BOOLEAN
  BY MboxAssumption DEF netPullMessage, SendSlotReserved
<1>2. /\ status' \in [Slot -> MsgStatus]
      /\ With("HardwareSend")' = With("HardwareSend") \ {SendSlot}
      /\ With("HardwareFull")' = With("HardwareFull")
      /\ With("HardwareEmpty")' = With("HardwareEmpty")
  BY <1>1, SlotMoves, "SoftwareOwned" \in MsgStatus DEF With, MsgStatus
<1>3. SlotsCounted'
  BY <1>1, <1>2 DEF SlotsCounted, netPullMessage
<1>4. SendSlotReserved'
  BY <1>1 DEF SendSlotReserved
<1>5. NoLostWakeup'
  BY DEF NoLostWakeup, netPullMessage, NotifyAll
<1>6. departing' \in Message \cup {None}
  BY <1>1 DEF netPullMessage
<1> QED
  BY <1>1, <1>2, <1>3, <1>4, <1>5, <1>6 DEF netPullMessage, NotifyAll

(* So does a step that changes no slot: a thread goes to sleep only while  *)
(* its predicate is false, and only the cpu changes what it waits for.     *)
LEMMA SlotsUnchangedIInv ==
    ASSUME IInv, UNCHANGED slotVars,
           asleep' \subseteq {"cpu", "in", "out"},
           waitCond' \in WakeupCond \cup {{}},
           {arriving', departing'} \subseteq Message \cup {None},
           \A t \in asleep' : ~Predicate(t)'
    PROVE  IInv'
<1>1. SlotsCounted' /\ SendSlotReserved'
  BY DEF IInv, SlotsCounted, SendSlotReserved, With, slotVars
<1>2. NoLostWakeup'
  BY DEF NoLostWakeup
<1> QED
  BY <1>1, <1>2 DEF IInv, slotVars

(* Every step keeps the invariant.                                         *)
LEMMA NextIInv == IInv /\ [Next]_vars => IInv'
<1> SUFFICES ASSUME IInv, [Next]_vars PROVE IInv'
  OBVIOUS
<1> USE DEF slotVars
<1>1. CASE mboxRecv
  BY <1>1, RecvIInv
<1>2. ASSUME NEW s \in Slot, mboxAlloc(s) PROVE IInv'
  BY <1>2, AllocIInv
<1>3. ASSUME NEW m \in Message, mboxSend(m) PROVE IInv'
  BY <1>3, SendIInv
<1>4. ASSUME NEW cond \in WakeupCond, mboxWaitUntil(cond) PROVE IInv'
  <2>1. \A t \in asleep' : ~Predicate(t)'
    BY <1>4 DEF IInv, NoLostWakeup, Predicate, Satisfied, mboxWaitUntil, GoToSleep
  <2> QED
    BY <1>4, <2>1, SlotsUnchangedIInv DEF IInv, mboxWaitUntil, GoToSleep
<1>5. CASE mboxWaitReturns
  <2>1. \A t \in asleep' : ~Predicate(t)'
    BY <1>5 DEF IInv, NoLostWakeup, Predicate, Satisfied, mboxWaitReturns
  <2> QED
    BY <1>5, <2>1, SlotsUnchangedIInv DEF IInv, mboxWaitReturns
<1>6. CASE PushWaits
  <2>1. \A t \in asleep : ~Predicate(t)
    BY DEF IInv, NoLostWakeup
  <2>2. ~Predicate("in")
    BY <1>6, CountsBounded DEF Predicate, PushWaits
  <2>3. \A t \in asleep' : ~Predicate(t)
    BY <1>6, <2>1, <2>2 DEF PushWaits, GoToSleep
  <2>4. \A t : Predicate(t)' = Predicate(t)
    BY <1>6 DEF Predicate, Satisfied, PushWaits, GoToSleep
  <2>5. \A t \in asleep' : ~Predicate(t)'
    BY <2>3, <2>4
  <2> QED
    BY <1>6, <2>5, SlotsUnchangedIInv DEF IInv, PushWaits, GoToSleep
<1>7. ASSUME NEW s \in Slot, netPushMessage(s) PROVE IInv'
  BY <1>7, PushIInv
<1>8. CASE PullWaits
  <2>1. \A t \in asleep : ~Predicate(t)
    BY DEF IInv, NoLostWakeup
  <2>2. ~Predicate("out")
    BY <1>8, CountsBounded DEF Predicate, PullWaits
  <2>3. \A t \in asleep' : ~Predicate(t)
    BY <1>8, <2>1, <2>2 DEF PullWaits, GoToSleep
  <2>4. \A t : Predicate(t)' = Predicate(t)
    BY <1>8 DEF Predicate, Satisfied, PullWaits, GoToSleep
  <2>5. \A t \in asleep' : ~Predicate(t)'
    BY <2>3, <2>4
  <2> QED
    BY <1>8, <2>5, SlotsUnchangedIInv DEF IInv, PullWaits, GoToSleep
<1>9. CASE netPullMessage
  BY <1>9, PullIInv
<1>10. CASE NetSends \/ (\E m \in Message : NetReceives(m)) \/ UNCHANGED vars
  <2>1. \A t \in asleep' : ~Predicate(t)'
    BY <1>10 DEF IInv, NoLostWakeup, Predicate, Satisfied, NetSends, NetReceives, vars
  <2> QED
    BY <1>10, <2>1, SlotsUnchangedIInv DEF IInv, NetSends, NetReceives, vars
<1>11. ASSUME NEW t \in asleep, SpuriousWakeup(t) PROVE IInv'
  <2>1. \A u \in asleep' : ~Predicate(u)'
    BY <1>11 DEF IInv, NoLostWakeup, Predicate, Satisfied, SpuriousWakeup
  <2> QED
    BY <1>11, <2>1, SlotsUnchangedIInv DEF IInv, SpuriousWakeup
<1> QED
  BY <1>1, <1>2, <1>3, <1>4, <1>5, <1>6, <1>7, <1>8, <1>9, <1>10, <1>11
  DEF Next, Cpu, Push, Pull

-----------------------------------------------------------------------------
(* The inductive invariant holds of the mailbox's three threads.           *)
THEOREM MailboxInvariant == Spec => []IInv
BY InitIInv, NextIInv, PTL DEF Spec

(* Every variable keeps its type, and the counts stay within the number of *)
(* slots.                                                                  *)
THEOREM MailboxTypeCorrect == Spec => []TypeOK
<1>1. IInv => TypeOK
  BY CountsBounded DEF IInv, TypeOK
<1> QED
  BY <1>1, MailboxInvariant, PTL

(* check_slots and the assertions about the send slot never fail, however  *)
(* the cpu's and the network's operations interleave.                      *)
THEOREM CountsCorrect == Spec => []SlotsCounted
<1>1. IInv => SlotsCounted
  BY DEF IInv
<1> QED
  BY <1>1, MailboxInvariant, PTL

(* No thread ever sleeps in the condition variable while what it waits for *)
(* is true: the operations that notify nobody need not.                    *)
THEOREM WakeupsCorrect == Spec => []NoLostWakeup
<1>1. IInv => NoLostWakeup
  BY DEF IInv
<1> QED
  BY <1>1, MailboxInvariant, PTL

-----------------------------------------------------------------------------
(* The cpu sleeps only inside mboxWaitUntil, and while it is in there all  *)
(* slots but the send slot are with the network: it gave them back before, *)
(* and nobody else takes one.                                              *)
CpuDrained ==
    /\ "cpu" \in asleep => waitCond # {}
    /\ waitCond # {} => With("SoftwareOwned") \subseteq {SendSlot}

(* Only the cpu takes slots, and not while it waits. *)
LEMMA NextCpuDrained == IInv /\ CpuDrained /\ [Next]_vars => CpuDrained'
<1> SUFFICES ASSUME IInv, CpuDrained, [Next]_vars PROVE CpuDrained'
  OBVIOUS
<1>1. CASE mboxRecv \/ (\E s \in Slot : mboxAlloc(s)) \/ (\E m \in Message : mboxSend(m))
  <2>1. waitCond = {} /\ waitCond' = {} /\ asleep' \subseteq asleep
    BY <1>1 DEF mboxRecv, mboxAlloc, mboxSend, CpuRuns, NotifyAll
  <2> QED
    BY <2>1 DEF CpuDrained
<1>2. ASSUME NEW cond \in WakeupCond, mboxWaitUntil(cond) PROVE CpuDrained'
  <2>1. waitCond' # {} /\ With("SoftwareOwned") \subseteq {SendSlot} /\ UNCHANGED slotVars
    BY <1>2 DEF mboxWaitUntil, GoToSleep, WakeupCond
  <2>2. With("SoftwareOwned")' = With("SoftwareOwned")
    BY <2>1 DEF With, slotVars
  <2> QED
    BY <2>1, <2>2 DEF CpuDrained
<1>3. CASE mboxWaitReturns
  BY <1>3 DEF CpuDrained, mboxWaitReturns
<1>4. ASSUME UNCHANGED <<slotVars, waitCond>>, "cpu" \in asleep' => "cpu" \in asleep
      PROVE  CpuDrained'
  BY <1>4 DEF CpuDrained, With, slotVars
<1>5. CASE PushWaits \/ PullWaits \/ NetSends
  BY <1>4, <1>5 DEF PushWaits, PullWaits, NetSends, GoToSleep
<1>6. CASE (\E m \in Message : NetReceives(m)) \/ (\E t \in asleep : SpuriousWakeup(t))
  BY <1>4, <1>6 DEF NetReceives, SpuriousWakeup
<1>7. CASE UNCHANGED vars
  BY <1>4, <1>7 DEF vars
<1>8. ASSUME NEW s \in Slot, netPushMessage(s) PROVE CpuDrained'
  <2>1. With("SoftwareOwned")' \subseteq With("SoftwareOwned")
    BY <1>8 DEF IInv, With, netPushMessage
  <2> QED
    BY <1>8, <2>1 DEF CpuDrained, netPushMessage, NotifyAll
<1>9. CASE netPullMessage
  <2>1. With("SoftwareOwned")' \subseteq With("SoftwareOwned") \cup {SendSlot}
    BY <1>9 DEF IInv, With, netPullMessage
  <2> QED
    BY <1>9, <2>1 DEF CpuDrained, netPullMessage, NotifyAll
<1> QED
  BY <1>1, <1>2, <1>3, <1>5, <1>6, <1>7, <1>8, <1>9 DEF Next, Cpu, Push, Pull

(* The threads round the mailbox never wait for each other, for any number *)
(* of slots: when the cpu is asleep, each receive slot is empty or full;   *)
(* were thread "in" asleep as well, none would be empty and, since the cpu *)
(* always waits to receive, none full.                                     *)
THEOREM MutualWaitFree == Spec => []NoMutualWait
<1>1. Init => CpuDrained
  BY DEF Init, CpuDrained
<1>2. IInv /\ CpuDrained => NoMutualWait
  <2> SUFFICES ASSUME IInv, CpuDrained, "cpu" \in asleep PROVE NoMutualWait
    BY DEF NoMutualWait
  <2>1. /\ With("SoftwareOwned") \subseteq {SendSlot}
        /\ waitCond \in WakeupCond
    BY DEF CpuDrained, IInv
  <2>2. ~Satisfied(waitCond)
    BY DEF IInv, NoLostWakeup, Predicate
  <2>3. numSlotsFull = 0
    BY <2>1, <2>2, CountsBounded DEF Satisfied, WakeupCond
  <2>4. With("HardwareFull") = {}
    BY <2>3, MboxAssumption, FS_Subset, FS_EmptySet, With("HardwareFull") \subseteq Slot
    DEF IInv, SlotsCounted, With
  <2>5. PICK s \in Slot : s # SendSlot
    BY MboxAssumption, ReceiveSlotAssumption
  <2>6. status[s] = "HardwareEmpty"
    BY <2>1, <2>4, <2>5 DEF IInv, SlotsCounted, With, MsgStatus
  <2>7. numSlotsEmpty > 0
    BY <2>6, SlotsCardinality, s \in With("HardwareEmpty"), With("HardwareEmpty") \subseteq Slot
    DEF IInv, SlotsCounted, With
  <2>8. "in" \notin asleep
    BY <2>7 DEF IInv, NoLostWakeup, Predicate
  <2>9. "CAN_SEND" \in waitCond => "out" \notin asleep
    BY <2>2 DEF IInv, NoLostWakeup, Predicate, Satisfied
  <2> QED
    BY <2>8, <2>9 DEF NoMutualWait
<1> QED
  BY <1>1, <1>2, NextCpuDrained, MailboxInvariant, PTL DEF Spec

-----------------------------------------------------------------------------
(* The copies of each message that the slots of T hold, in buffer b.       *)
CopiesIn(b, T) == [m \in Message |-> Cardinality({s \in T : b[s] = m})]

(* What other slots hold does not matter. *)
LEMMA CopiesAgree ==
    ASSUME NEW T, NEW b, NEW c, \A s \in T : b[s] = c[s]
    PROVE  CopiesIn(b, T) = CopiesIn(c, T)
<1>1. \A m : {s \in T : b[s] = m} = {s \in T : c[s] = m}
  OBVIOUS
<1> QED
  BY <1>1 DEF CopiesIn

(* A slot more is a copy more of the message it holds.                     *)
LEMMA CopiesAdd ==
    ASSUME NEW b, NEW T, T \subseteq Slot, NEW s \in Slot, s \notin T, b[s] \in Message
    PROVE  CopiesIn(b, T \cup {s}) = [CopiesIn(b, T) EXCEPT ![b[s]] = @ + 1]
<1> DEFINE At(m) == {r \in T : b[r] = m}
           More(m) == {r \in T \cup {s} : b[r] = m}
<1>1. More(b[s]) = At(b[s]) \cup {s} /\ s \notin At(b[s]) /\ At(b[s]) \subseteq Slot
  OBVIOUS
<1>2. \A m : m # b[s] => More(m) = At(m)
  OBVIOUS
<1>3. Cardinality(More(b[s])) = Cardinality(At(b[s])) + 1
  <2> HIDE DEF At, More
  <2> QED
    BY <1>1, SlotsCardinality
<1>4. CopiesIn(b, T) = [m \in Message |-> Cardinality(At(m))]
  BY DEF CopiesIn
<1>5. CopiesIn(b, T \cup {s}) = [m \in Message |-> Cardinality(More(m))]
  BY DEF CopiesIn
<1> HIDE DEF At, More
<1> QED
  BY <1>2, <1>3, <1>4, <1>5

(* A slot less is a copy less of the message it holds, and there was one.  *)
LEMMA CopiesRemove ==
    ASSUME NEW b, NEW T, T \subseteq Slot, NEW s \in T, b[s] \in Message
    PROVE  /\ CopiesIn(b, T \ {s}) = [CopiesIn(b, T) EXCEPT ![b[s]] = @ - 1]
           /\ CopiesIn(b, T)[b[s]] > 0
<1> DEFINE At(m) == {r \in T : b[r] = m}
           Less(m) == {r \in T \ {s} : b[r] = m}
<1>1. Less(b[s]) = At(b[s]) \ {s} /\ s \in At(b[s]) /\ At(b[s]) \subseteq Slot /\ s \in Slot
  OBVIOUS
<1>2. \A m : m # b[s] => Less(m) = At(m)
  OBVIOUS
<1>3. Cardinality(Less(b[s])) = Cardinality(At(b[s])) - 1 /\ Cardinality(At(b[s])) > 0
  <2> HIDE DEF At, Less
  <2> QED
    BY <1>1, SlotsCardinality
<1>4. CopiesIn(b, T) = [m \in Message |-> Cardinality(At(m))]
  BY DEF CopiesIn
<1>5. CopiesIn(b, T \ {s}) = [m \in Message |-> Cardinality(Less(m))]
  BY DEF CopiesIn
<1> HIDE DEF At, Less
<1> QED
  BY <1>2, <1>3, <1>4, <1>5

(* A slot that holds no message is no copy of one.                         *)
LEMMA CopiesNone ==
    ASSUME NEW b, NEW T, NEW s, b[s] \notin Message
    PROVE  /\ CopiesIn(b, T \cup {s}) = CopiesIn(b, T)
           /\ CopiesIn(b, T \ {s}) = CopiesIn(b, T)
<1>1. \A m \in Message : /\ {r \in T \cup {s} : b[r] = m} = {r \in T : b[r] = m}
                         /\ {r \in T \ {s} : b[r] = m} = {r \in T : b[r] = m}
  OBVIOUS
<1> QED
  BY <1>1 DEF CopiesIn

-----------------------------------------------------------------------------
(* The abstract mailbox's state, as ImplementsMailbox maps it.             *)
InBag == CopiesIn(buffer, With("HardwareFull"))
ReadBag == CopiesIn(buffer, With("SoftwareOwned") \ {SendSlot})
OutMsg == IF sendActive THEN buffer[SendSlot] ELSE None
AbstractVars == <<arriving, InBag, ReadBag, OutMsg, departing>>

(* A step of the abstract mailbox is one of its actions, or none.          *)
LEMMA AbstractStep ==
    ASSUME \/ UNCHANGED AbstractVars
           \/ \E m \in Message :
                 \/ arriving = None /\ arriving' = m
                    /\ UNCHANGED <<InBag, ReadBag, OutMsg, departing>>
                 \/ arriving = m /\ arriving' = None
                    /\ InBag' = [InBag EXCEPT ![m] = @ + 1]
                    /\ UNCHANGED <<ReadBag, OutMsg, departing>>
                 \/ InBag[m] > 0 /\ InBag' = [InBag EXCEPT ![m] = @ - 1]
                    /\ ReadBag' = [ReadBag EXCEPT ![m] = @ + 1]
                    /\ UNCHANGED <<arriving, OutMsg, departing>>
                 \/ ReadBag[m] > 0 /\ ReadBag' = [ReadBag EXCEPT ![m] = @ - 1]
                    /\ UNCHANGED <<arriving, InBag, OutMsg, departing>>
                 \/ OutMsg = None /\ OutMsg' = m
                    /\ UNCHANGED <<arriving, InBag, ReadBag, departing>>
                 \/ OutMsg = m /\ OutMsg' = None /\ departing = None /\ departing' = m
                    /\ UNCHANGED <<arriving, InBag, ReadBag>>
                 \/ departing = m /\ departing' = None
                    /\ UNCHANGED <<arriving, InBag, ReadBag, OutMsg>>
    PROVE  [MB!Next]_(MB!boxVars)
<1>1. /\ InBag = Copies(With("HardwareFull"))
      /\ InBag' = Copies(With("HardwareFull"))'
      /\ ReadBag = Copies(With("SoftwareOwned") \ {SendSlot})
      /\ ReadBag' = Copies(With("SoftwareOwned") \ {SendSlot})'
  BY DEF InBag, ReadBag, Copies, CopiesIn
<1>2. CASE UNCHANGED AbstractVars
  BY <1>1, <1>2 DEF AbstractVars, OutMsg, MB!boxVars
<1>3. CASE ~UNCHANGED AbstractVars
  BY <1>1, <1>3 DEF OutMsg, MB!Next, MB!Arrive, MB!Deliver, MB!Receive, MB!GiveBack,
     MB!Post, MB!Collect, MB!Depart, MB!Put, MB!Without
<1> QED
  BY <1>2, <1>3

(* Initially every slot is software's, and none holds a message.           *)
LEMMA InitRefines == Init => MB!Init
<1> SUFFICES ASSUME Init PROVE MB!Init
  OBVIOUS
<1>1. \A slots \in SUBSET Slot, m \in Message : {s \in slots : buffer[s] = m} = {}
  BY MboxAssumption DEF Init
<1>2. \A slots \in SUBSET Slot : Copies(slots) = [m \in Message |-> 0]
  BY <1>1, FS_EmptySet DEF Copies
<1>3. With("HardwareFull") \in SUBSET Slot /\ With("SoftwareOwned") \ {SendSlot} \in SUBSET Slot
  BY DEF With
<1> QED
  BY <1>2, <1>3 DEF Init, MB!Init, MB!Empty

(* Receiving takes the message that the slot holds from the inbox; the     *)
(* slot is never the send slot, so the cpu then holds it.                  *)
LEMMA RecvRefines == IInv /\ mboxRecv => [MB!Next]_(MB!boxVars)
<1> SUFFICES ASSUME IInv, mboxRecv PROVE [MB!Next]_(MB!boxVars)
  OBVIOUS
<1> DEFINE Full == With("HardwareFull")
           Mine == With("SoftwareOwned") \ {SendSlot}
<1>1. PICK s \in Full : status' = [status EXCEPT ![s] = "SoftwareOwned"]
  BY DEF mboxRecv
<1>2. s \in Slot /\ status[s] = "HardwareFull" /\ s # SendSlot
  BY <1>1, MboxAssumption DEF IInv, With, SendSlotReserved
<1>3. Full' = Full \ {s} /\ Mine' = Mine \cup {s} /\ s \notin Mine
  <2>1. /\ With("HardwareFull")' = With("HardwareFull") \ {s}
        /\ With("SoftwareOwned")' = With("SoftwareOwned") \cup {s}
        /\ s \notin With("SoftwareOwned")
    BY <1>1, <1>2, SlotMoves, "SoftwareOwned" \in MsgStatus DEF IInv, With, MsgStatus
  <2> QED
    BY <1>2, <2>1
<1>4. Full \subseteq Slot /\ Mine \subseteq Slot
  BY DEF With
<1>5. UNCHANGED <<arriving, buffer, sendActive, departing>> /\ OutMsg' = OutMsg
  BY DEF mboxRecv, OutMsg
<1>6. InBag' = CopiesIn(buffer, Full \ {s}) /\ ReadBag' = CopiesIn(buffer, Mine \cup {s})
  BY <1>3, <1>5 DEF InBag, ReadBag
<1> HIDE DEF Full, Mine
<1>7. InBag = CopiesIn(buffer, Full) /\ ReadBag = CopiesIn(buffer, Mine)
  BY DEF InBag, ReadBag, Full, Mine
<1>8. CASE buffer[s] \in Message
  <2>1. ReadBag' = [ReadBag EXCEPT ![buffer[s]] = @ + 1]
    BY <1>2, <1>3, <1>4, <1>6, <1>7, <1>8, CopiesAdd
  <2>2. InBag' = [InBag EXCEPT ![buffer[s]] = @ - 1] /\ InBag[buffer[s]] > 0
    BY <1>1, <1>4, <1>6, <1>7, <1>8, CopiesRemove
  <2> QED
    BY <1>5, <1>8, <2>1, <2>2, AbstractStep
<1>9. CASE buffer[s] \notin Message
  BY <1>5, <1>6, <1>7, <1>9, CopiesNone, AbstractStep DEF AbstractVars
<1> QED
  BY <1>8, <1>9

(* Giving a slot back forgets the message it holds, if it ever held one.   *)
LEMMA AllocRefines ==
    ASSUME IInv, NEW s \in Slot, mboxAlloc(s) PROVE [MB!Next]_(MB!boxVars)
<1> DEFINE Mine == With("SoftwareOwned") \ {SendSlot}
<1>1. /\ status[s] = "SoftwareOwned" /\ s # SendSlot
      /\ status' = [status EXCEPT ![s] = "HardwareEmpty"]
  BY DEF mboxAlloc
<1>2. With("HardwareFull")' = With("HardwareFull") /\ Mine' = Mine \ {s} /\ s \in Mine
  <2>1. /\ With("HardwareFull")' = With("HardwareFull")
        /\ With("SoftwareOwned")' = With("SoftwareOwned") \ {s}
        /\ s \in With("SoftwareOwned")
    BY <1>1, SlotMoves, "HardwareEmpty" \in MsgStatus DEF IInv, With, MsgStatus
  <2> QED
    BY <1>1, <2>1
<1>3. Mine \subseteq Slot
  BY DEF With
<1>4. UNCHANGED <<arriving, buffer, sendActive, departing>> /\ OutMsg' = OutMsg
  BY DEF mboxAlloc, OutMsg
<1>5. ReadBag' = CopiesIn(buffer, Mine \ {s}) /\ InBag' = InBag
  BY <1>2, <1>4 DEF InBag, ReadBag
<1> HIDE DEF Mine
<1>6. ReadBag = CopiesIn(buffer, Mine)
  BY DEF ReadBag, Mine
<1>7. CASE buffer[s] \in Message
  <2>1. ReadBag' = [ReadBag EXCEPT ![buffer[s]] = @ - 1] /\ ReadBag[buffer[s]] > 0
    BY <1>2, <1>3, <1>5, <1>6, <1>7, CopiesRemove
  <2> QED
    BY <1>4, <1>5, <1>7, <2>1, AbstractStep
<1>8. CASE buffer[s] \notin Message
  BY <1>4, <1>5, <1>6, <1>8, CopiesNone, AbstractStep DEF AbstractVars
<1> QED
  BY <1>7, <1>8

(* Sending writes the send slot only, which no bag counts.                 *)
LEMMA SendRefines ==
    ASSUME IInv, NEW m \in Message, mboxSend(m) PROVE [MB!Next]_(MB!boxVars)
<1> DEFINE Mine == With("SoftwareOwned") \ {SendSlot}
<1>1. /\ SendSlot \in Slot /\ status[SendSlot] = "SoftwareOwned"
      /\ status' = [status EXCEPT ![SendSlot] = "HardwareSend"]
      /\ ~sendActive /\ sendActive'
  BY MboxAssumption DEF IInv, mboxSend, SendSlotReserved
<1>2. With("HardwareFull")' = With("HardwareFull") /\ Mine' = Mine
  <2>1. /\ With("HardwareFull")' = With("HardwareFull")
        /\ With("SoftwareOwned")' = With("SoftwareOwned") \ {SendSlot}
    BY <1>1, SlotMoves, "HardwareSend" \in MsgStatus DEF IInv, With, MsgStatus
  <2> QED
    BY <2>1
<1>3. /\ buffer'[SendSlot] = m
      /\ \A s \in With("HardwareFull") : buffer'[s] = buffer[s]
      /\ \A s \in Mine : buffer'[s] = buffer[s]
  BY <1>1 DEF IInv, mboxSend, With
<1>4. InBag' = InBag /\ ReadBag' = ReadBag
  BY <1>2, <1>3, CopiesAgree DEF InBag, ReadBag
<1>5. OutMsg = None /\ OutMsg' = m /\ UNCHANGED <<arriving, departing>>
  BY <1>1, <1>3 DEF OutMsg, mboxSend
<1> QED
  BY <1>4, <1>5, AbstractStep

(* Pushing overwrites what an empty slot held, which no bag counts.        *)
LEMMA PushRefines ==
    ASSUME IInv, NEW s \in Slot, netPushMessage(s) PROVE [MB!Next]_(MB!boxVars)
<1> DEFINE Full == With("HardwareFull")
           Mine == With("SoftwareOwned") \ {SendSlot}
<1>1. /\ status[s] = "HardwareEmpty" /\ s # SendSlot /\ arriving \in Message
      /\ status' = [status EXCEPT ![s] = "HardwareFull"]
  BY DEF IInv, netPushMessage, SendSlotReserved
<1>2. Full' = Full \cup {s} /\ s \notin Full /\ Mine' = Mine /\ s \notin Mine
  <2>1. /\ With("HardwareFull")' = With("HardwareFull") \cup {s}
        /\ s \notin With("HardwareFull")
        /\ With("SoftwareOwned")' = With("SoftwareOwned")
    BY <1>1, SlotMoves, "HardwareFull" \in MsgStatus DEF IInv, With, MsgStatus
  <2>2. s \notin With("SoftwareOwned")
    BY <1>1 DEF With
  <2> QED
    BY <2>1, <2>2
<1>3. Full \subseteq Slot /\ Mine \subseteq Slot
  BY DEF With
<1>4. buffer'[s] = arriving /\ \A r \in Slot \ {s} : buffer'[r] = buffer[r]
  BY DEF IInv, netPushMessage
<1>5. InBag' = CopiesIn(buffer', Full \cup {s}) /\ ReadBag' = CopiesIn(buffer', Mine)
  BY <1>2 DEF InBag, ReadBag
<1> HIDE DEF Full, Mine
<1>6. InBag = CopiesIn(buffer, Full) /\ ReadBag = CopiesIn(buffer, Mine)
  BY DEF InBag, ReadBag, Full, Mine
<1>7. CopiesIn(buffer', Full) = InBag /\ ReadBag' = ReadBag
  BY <1>2, <1>3, <1>4, <1>5, <1>6, CopiesAgree
<1>8. InBag' = [InBag EXCEPT ![arriving] = @ + 1]
  BY <1>1, <1>2, <1>3, <1>4, <1>5, <1>7, CopiesAdd
<1>9. OutMsg' = OutMsg /\ arriving' = None /\ departing' = departing
  BY <1>1, <1>4, MboxAssumption DEF OutMsg, netPushMessage
<1> QED
  BY <1>1, <1>7, <1>8, <1>9, AbstractStep

(* Pulling takes the message being sent, and no other.                     *)
LEMMA PullRefines == IInv /\ netPullMessage => [MB!Next]_(MB!boxVars)
<1> SUFFICES ASSUME IInv, netPullMessage PROVE [MB!Next]_(MB!boxVars)
  OBVIOUS
<1> DEFINE Mine == With("SoftwareOwned") \ {SendSlot}
<1>1. /\ SendSlot \in Slot /\ status[SendSlot] = "HardwareSend"
      /\ status' = [status EXCEPT ![SendSlot] = "SoftwareOwned"]
      /\ sendActive /\ ~sendActive'
  BY MboxAssumption DEF IInv, netPullMessage, SendSlotReserved
<1>2. With("HardwareFull")' = With("HardwareFull") /\ Mine' = Mine
  <2>1. /\ With("HardwareFull")' = With("HardwareFull")
        /\ With("SoftwareOwned")' = With("SoftwareOwned") \cup {SendSlot}
    BY <1>1, SlotMoves, "SoftwareOwned" \in MsgStatus DEF IInv, With, MsgStatus
  <2> QED
    BY <2>1
<1>3. /\ UNCHANGED <<arriving, buffer>>
      /\ departing = None /\ departing' = buffer[SendSlot]
  BY DEF netPullMessage
<1>4. InBag' = InBag /\ ReadBag' = ReadBag
  BY <1>2, <1>3 DEF InBag, ReadBag
<1>5. OutMsg = buffer[SendSlot] /\ OutMsg' = None
  BY <1>1 DEF OutMsg
<1>6. buffer[SendSlot] \in Message \cup {None}
  BY <1>1 DEF IInv
<1> QED
  BY <1>3, <1>4, <1>5, <1>6, AbstractStep DEF AbstractVars

(* Every step of the mailbox is one of the abstract mailbox, or none: the  *)
(* steps that only wait, wake up or return change no message.              *)
LEMMA NextRefines == IInv /\ [Next]_vars => [MB!Next]_(MB!boxVars)
<1> SUFFICES ASSUME IInv, [Next]_vars PROVE [MB!Next]_(MB!boxVars)
  OBVIOUS
<1>1. ASSUME UNCHANGED slotVars
      PROVE  InBag' = InBag /\ ReadBag' = ReadBag /\ OutMsg' = OutMsg
  BY <1>1 DEF slotVars, InBag, ReadBag, OutMsg, With
<1>2. CASE mboxRecv
  BY <1>2, RecvRefines
<1>3. ASSUME NEW s \in Slot, mboxAlloc(s) PROVE [MB!Next]_(MB!boxVars)
  BY <1>3, AllocRefines
<1>4. ASSUME NEW m \in Message, mboxSend(m) PROVE [MB!Next]_(MB!boxVars)
  BY <1>4, SendRefines
<1>5. ASSUME NEW s \in Slot, netPushMessage(s) PROVE [MB!Next]_(MB!boxVars)
  BY <1>5, PushRefines
<1>6. CASE netPullMessage
  BY <1>6, PullRefines
<1>7. ASSUME UNCHANGED <<slotVars, arriving, departing>> PROVE [MB!Next]_(MB!boxVars)
  BY <1>1, <1>7, AbstractStep DEF AbstractVars
<1>8. ASSUME NEW m \in Message, NetReceives(m) PROVE [MB!Next]_(MB!boxVars)
  <2>1. UNCHANGED slotVars /\ arriving = None /\ arriving' = m /\ departing' = departing
    BY <1>8 DEF NetReceives
  <2> QED
    BY <1>1, <2>1, AbstractStep
<1>9. CASE NetSends
  <2>1. /\ UNCHANGED slotVars /\ arriving' = arriving
        /\ departing \in Message /\ departing' = None
    BY <1>9 DEF IInv, NetSends
  <2> QED
    BY <1>1, <2>1, AbstractStep
<1>10. CASE \/ (\E cond \in WakeupCond : mboxWaitUntil(cond)) \/ mboxWaitReturns
            \/ PushWaits \/ PullWaits \/ (\E t \in asleep : SpuriousWakeup(t))
            \/ UNCHANGED vars
  BY <1>7, <1>10 DEF mboxWaitUntil, mboxWaitReturns, PushWaits, PullWaits, GoToSleep,
     SpuriousWakeup, vars
<1> QED
  BY <1>2, <1>3, <1>4, <1>5, <1>6, <1>8, <1>9, <1>10 DEF Next, Cpu, Push, Pull

(* The software mailbox is the abstract one, for any slots and messages:   *)
(* what is pushed is received once and what is sent is pulled once,        *)
(* whatever its slots held before.                                         *)
THEOREM MailboxRefines == Spec => ImplementsMailbox
BY InitRefines, NextRefines, MailboxInvariant, PTL DEF Spec, ImplementsMailbox, MB!Spec
=============================================================================
