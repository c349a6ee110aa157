--------------------------- MODULE MainLoopProofs ---------------------------
(* The main loop's own safety, and that it uses the scheduler as SchedNext *)
(* allows, for any devices, targets, sizes and options.                    *)
EXTENDS MainLoop, CycleCount, SchedulerProofs, WellFoundedInduction

USE HostBufferAssumption, MainLoopAssumption

(* The host messages pending are in the ring from its head to its tail. *)
Ring ==
    /\ hbuf_head \in 0 .. HOSTBUFFER_SIZE - 1
    /\ hbuf_tail \in 0 .. HOSTBUFFER_SIZE - 1
    /\ hostPending \in 0 .. HOSTBUFFER_SIZE
    /\ \/ hbuf_tail = hbuf_head + hostPending
       \/ hbuf_tail = hbuf_head + hostPending - HOSTBUFFER_SIZE

(* Only the profile flush, which follows the test for adequate space,      *)
(* fills the ring, and the drain makes room again without emptying it.     *)
HostOK ==
    /\ Ring
    /\ pc \in {"top", "transmit"} => hostPending < HOSTBUFFER_SIZE
    /\ pc \in {"wait", "dispatch"} =>
          /\ adequate => hostPending < HOSTBUFFER_SIZE
          /\ ~adequate => hostPending > HOSTBUFFER_SIZE - MAX_HOST_PER_HANDLER
          /\ ~hostEmpty => hostPending > 0
    /\ pc = "wait" /\ ~wantToSend => adequate

(* What the loop's top decided is still true when it is acted on. *)
Justified ==
    /\ pc \in {"wait", "dispatch"} /\ wantToSend =>
          currSendTodo > 0 \/ softswitch_IsRTSReady(rts) \/ ~hostEmpty
    /\ pc = "wait" /\ ~wantToSend =>
          ~softswitch_IsRTSReady(rts) /\ (~CanRecv => NothingToCompute)
    /\ pc = "dispatch" => CanRecv \/ (wantToSend /\ CanSend)
    /\ pc = "transmit" => CanSend /\ currSendTodo > 0

(* The count, the list and what is owed agree. *)
SendOK ==
    /\ isApp => owed = <<>> /\ currSendTodo \in {0, 1}
    /\ ~isApp => /\ currSendTodo = Len(owed)
                 /\ currSendTodo > 0 => owed = currSendAddressList

LoopInv == IInv /\ TypeOK /\ HostOK /\ Justified /\ SendOK

-----------------------------------------------------------------------------
(* A set of naturals has its minimum, so a device's lowest ready pin is    *)
(* one of its pins.                                                        *)
LEMMA MinIsMember == ASSUME NEW S, S \subseteq Nat, S # {}
                     PROVE  Min(S) \in S
<1> DEFINE Less == {ss \in Nat \X Nat : ss[1] < ss[2]}
<1>1. IsWellFoundedOn(Less, Nat)
  BY NatLessThanWellFounded DEF OpToRel
<1>2. PICK x \in S : \A y \in S : <<y, x>> \notin Less
  <2> HIDE DEF Less
  <2> QED BY <1>1, WFMin
<1>3. ASSUME NEW y \in S PROVE x <= y
  <2>1. x \in Nat /\ y \in Nat /\ <<y, x>> \notin Less
    BY <1>2
  <2>2. ~(y < x)
    BY <2>1
  <2> QED BY <2>1, <2>2
<1> QED BY <1>3 DEF Min

LEMMA LowestPin == ASSUME NEW flags \in Flags, flags.pins # {}
                   PROVE  right_most_one(flags) \in Pin
BY MinIsMember, PinAssumption DEF Flags, right_most_one

-----------------------------------------------------------------------------
(* The host buffer. *)

(* The ring's size is the number of messages pending, unless it is full. *)
LEMMA RingSize ==
    ASSUME Ring
    PROVE  /\ hostPending < HOSTBUFFER_SIZE => hostMsgBufferSize = hostPending
           /\ hostMsgBufferSize \in 0 .. HOSTBUFFER_SIZE - 1
           /\ hostMsgBufferSpace # 0
BY DEF Ring, hostMsgBufferSize, hostMsgBufferSpace

LEMMA PushKeepsRing == ASSUME Ring, hostPending < HOSTBUFFER_SIZE, hostMsgBufferPush
                       PROVE  Ring' /\ hostPending' = hostPending + 1
BY DEF Ring, hostMsgBufferPush, NextIndex

LEMMA PopKeepsRing == ASSUME Ring, hostPending > 0, hostMsgBufferPop
                      PROVE  Ring' /\ hostPending' = hostPending - 1
BY DEF Ring, hostMsgBufferPop, NextIndex

(* Handlers never add to the ring. *)
LEMMA HandlerCallsKeepRing ==
    ASSUME Ring, hostPending < HOSTBUFFER_SIZE, HandlerHostCalls
    PROVE  Ring' /\ hostPending' < HOSTBUFFER_SIZE
<1>1. CASE UNCHANGED hostVars
  BY <1>1 DEF Ring, hostVars
<1>2. CASE softswitch_handler_exit
  <2>1. hostMsgBufferSize = hostPending
    BY RingSize
  <2>2. (hbuf_head + hostPending) % HOSTBUFFER_SIZE = hbuf_tail
    BY DEF Ring
  <2> QED BY <1>2, <2>1, <2>2 DEF Ring, softswitch_handler_exit
<1> QED BY <1>1, <1>2, RingSize DEF HandlerHostCalls, softswitch_handler_log

-----------------------------------------------------------------------------
(* The scheduler within the loop. *)

(* The loop calls the scheduler only as the scheduler expects. *)
LEMMA LoopSchedules == ASSUME LoopInv, Next
                       PROVE  [SchedNext]_schedVars
<1>1. CASE DeviceLoop
  BY <1>1 DEF DeviceLoop, SchedNext
<1>2. CASE Top
  BY <1>2 DEF Top, TopBusy, TopIdle, TopNothing, SchedNext
<1>3. CASE WaitMachineIdle
  <2>1. HardwareIdle
    BY <1>3 DEF WaitMachineIdle, HardwareIdle, LoopInv, Justified
  <2> QED BY <2>1 DEF SchedNext
<1>4. CASE WaitWoken \/ Drain \/ SendHost \/ TransmitMailbox \/ Network
  BY <1>4 DEF WaitWoken, Drain, SendHost, TransmitMailbox, Network
<1>5. ASSUME NEW f \in Flags, NEW d \in Device, Receive(d, f) \/ TransmitLocally(d, f)
      PROVE  SchedNext
  BY <1>5 DEF Receive, TransmitLocally, SchedNext
<1>6. ASSUME NEW f \in Flags, NEW doSend \in BOOLEAN, Prepare(f, doSend)
      PROVE  SchedNext
  BY <1>6 DEF Prepare, SchedNext, Send
<1> QED BY <1>1, <1>2, <1>3, <1>4, <1>5, <1>6 DEF Next, Thread, Runs, Act

LEMMA SchedulerHolds == ASSUME LoopInv, Next
                        PROVE  IInv' /\ SchedTypeOK'
BY LoopSchedules, NextIInv DEF LoopInv, IInv

LEMMA InitLoopInv == Init => LoopInv
<1> SUFFICES ASSUME Init PROVE LoopInv
  OBVIOUS
<1>1. IInv /\ SchedTypeOK
  BY InitIInv DEF Init, IInv
<1>2. TypeOK
  <2>1. HostTypeOK
    BY DEF Init, HostInit, HostTypeOK
  <2>2. sendBuffer \in [message : (Device \X Pin) \cup {Null}, dest : Address \cup {Null}]
    BY DEF Init, EmptySlot
  <2>3. flushCnt \in 1 .. PerfmonRate + 1 /\ recvFull \in 0 .. RecvSlots
    BY DEF Init
  <2>4. {adequate, hostEmpty, wantToSend, isApp, startPerfmon} \subseteq BOOLEAN
    BY DEF Init
  <2> QED BY <1>1, <2>1, <2>2, <2>3, <2>4 DEF Init, TypeOK
<1>3. HostOK /\ Justified /\ SendOK
  BY DEF Init, HostInit, HostOK, Ring, Justified, SendOK
<1> QED BY <1>1, <1>2, <1>3 DEF LoopInv

-----------------------------------------------------------------------------
(* The top of an iteration. *)

(* The device loops and softswitch_onIdle call handlers, and stay at or go *)
(* back to the top.                                                        *)
LEMMA HandlersAtTop ==
    ASSUME LoopInv, IInv', pc = "top", HandlerHostCalls,
           \/ UNCHANGED loopVars
           \/ GotoTop,
           UNCHANGED <<sendVars, perfVars, mboxVars>>
    PROVE  LoopInv'
<1>1. pc' = "top" /\ {adequate', hostEmpty', wantToSend'} \subseteq BOOLEAN
  BY DEF LoopInv, TypeOK, loopVars, GotoTop
<1>2. Ring' /\ hostPending' < HOSTBUFFER_SIZE
  BY HandlerCallsKeepRing DEF LoopInv, HostOK
<1>3. HostOK'
  BY <1>1, <1>2 DEF HostOK
<1>4. Justified' /\ SendOK'
  BY <1>1 DEF LoopInv, Justified, SendOK, sendVars
<1>5. TypeOK'
  BY <1>1, <1>2 DEF LoopInv, IInv, TypeOK, HostTypeOK, Ring, sendVars, perfVars, mboxVars
<1> QED BY <1>3, <1>4, <1>5 DEF LoopInv

LEMMA DeviceLoopInv == ASSUME LoopInv, DeviceLoop
                       PROVE  LoopInv'
<1>1. pc = "top"
  BY DEF LoopInv, TypeOK, DeviceLoop, Loop, InitDevice, HardwareIdleDevice, HardwareIdleEnd
<1>2. IInv'
  BY SchedulerHolds DEF Next, Thread, Runs
<1> QED BY <1>1, <1>2, HandlersAtTop DEF DeviceLoop

LEMMA TopIdleInv == ASSUME LoopInv, TopIdle
                    PROVE  LoopInv'
<1>1. IInv'
  BY SchedulerHolds DEF Next, Thread, Runs, Top
<1> QED BY <1>1, HandlersAtTop DEF TopIdle

LEMMA TopBusyInv == ASSUME LoopInv, TopBusy
                    PROVE  LoopInv'
<1>1. IInv' /\ SchedTypeOK'
  BY SchedulerHolds DEF Next, Thread, Runs, Top
<1>2. /\ pc = "top" /\ pc' = "wait" /\ phase = "run" /\ adequate' = AdequateHostBufferSpace
      /\ hostEmpty' = (hostMsgBufferSize = 0) /\ wantToSend' = WantToSend
      /\ CanRecv \/ WantToSend
      /\ UNCHANGED <<schedVars, hostVars, sendVars, perfVars, mboxVars>>
  BY DEF TopBusy, EnterWait, NothingElseToDo
<1>3. hostPending < HOSTBUFFER_SIZE /\ hostMsgBufferSize = hostPending /\ Ring
  BY <1>2, RingSize DEF LoopInv, HostOK
<1>4. HostOK'
  <2>1. adequate' <=> hostPending <= HOSTBUFFER_SIZE - MAX_HOST_PER_HANDLER
    <3>1. AdequateHostBufferSpace <=> hostPending <= HOSTBUFFER_SIZE - MAX_HOST_PER_HANDLER
      BY <1>3 DEF AdequateHostBufferSpace, hostMsgBufferSpace, Ring
    <3> QED BY <1>2, <3>1, Zenon
  <2>2. (hostEmpty' <=> hostPending = 0) /\ (~wantToSend' => hostPending = 0)
    BY <1>2, <1>3, Zenon DEF WantToSend
  <2>3. pc' = "wait"
    BY <1>2
  <2>4. Ring' /\ hostPending' = hostPending
    BY <1>2, <1>3 DEF Ring, hostVars
  <2>5. /\ adequate' => hostPending' < HOSTBUFFER_SIZE
        /\ ~adequate' => hostPending' > HOSTBUFFER_SIZE - MAX_HOST_PER_HANDLER
    BY <1>3, <2>4, <2>1 DEF Ring
  <2>6. ~hostEmpty' => hostPending' > 0
    BY <1>3, <2>4, <2>2 DEF Ring
  <2>7. ~wantToSend' => adequate'
    BY <2>1, <2>2
  <2> QED BY <2>4, <2>3, <2>5, <2>6, <2>7 DEF HostOK
<1>5. Justified'
  BY <1>2 DEF Justified, WantToSend, CanRecv, sendVars, mboxVars, schedVars, softswitch_IsRTSReady
<1>6. SendOK'
  BY <1>2 DEF LoopInv, SendOK, sendVars
<1>7. TypeOK'
  BY <1>1, <1>2 DEF LoopInv, TypeOK, HostTypeOK, WantToSend, AdequateHostBufferSpace,
                    softswitch_IsRTSReady, schedVars, hostVars, sendVars, perfVars, mboxVars
<1> QED BY <1>1, <1>4, <1>5, <1>6, <1>7 DEF LoopInv

LEMMA TopNothingInv == ASSUME LoopInv, TopNothing
                       PROVE  LoopInv'
<1>1. IInv' /\ SchedTypeOK'
  BY SchedulerHolds DEF Next, Thread, Runs, Top
<1>2. /\ pc = "top" /\ pc' = "wait" /\ phase = "run" /\ adequate' = AdequateHostBufferSpace
      /\ hostEmpty' = (hostMsgBufferSize = 0) /\ wantToSend' = WantToSend
      /\ NothingToCompute /\ FlushPerfmon /\ CountPerfmon
      /\ UNCHANGED <<schedVars, sendVars, mboxVars>>
  BY DEF TopNothing, EnterWait
<1>3. hostPending < HOSTBUFFER_SIZE /\ hostMsgBufferSize = hostPending /\ Ring
  BY <1>2, RingSize DEF LoopInv, HostOK
<1>4. Ring' /\ hostPending' \in {hostPending, hostPending + 1}
  <2>1. CASE hostMsgBufferPush
    BY <1>3, <2>1, PushKeepsRing
  <2>2. CASE UNCHANGED hostVars
    BY <1>3, <2>2 DEF Ring, hostVars
  <2> QED BY <1>2, <1>3, <2>1, <2>2, RingSize DEF FlushPerfmon
<1>5. HostOK'
  <2>1. adequate' <=> hostPending <= HOSTBUFFER_SIZE - MAX_HOST_PER_HANDLER
    <3>1. AdequateHostBufferSpace <=> hostPending <= HOSTBUFFER_SIZE - MAX_HOST_PER_HANDLER
      BY <1>3 DEF AdequateHostBufferSpace, hostMsgBufferSpace, Ring
    <3> QED BY <1>2, <3>1, Zenon
  <2>2. (hostEmpty' <=> hostPending = 0) /\ (~wantToSend' => hostPending = 0)
    BY <1>2, <1>3, Zenon DEF WantToSend
  <2>3. pc' = "wait"
    BY <1>2
  <2>5. /\ adequate' => hostPending' < HOSTBUFFER_SIZE
        /\ ~adequate' => hostPending' > HOSTBUFFER_SIZE - MAX_HOST_PER_HANDLER
    BY <1>3, <1>4, <2>1 DEF Ring
  <2>6. ~hostEmpty' => hostPending' > 0
    BY <1>3, <1>4, <2>2 DEF Ring
  <2>7. ~wantToSend' => adequate'
    BY <2>1, <2>2
  <2> QED BY <1>4, <2>3, <2>5, <2>6, <2>7 DEF HostOK
<1>6. Justified'
  BY <1>2 DEF Justified, WantToSend, CanRecv, NothingToCompute, sendVars, mboxVars, schedVars,
              softswitch_IsRTSReady
<1>7. SendOK'
  BY <1>2 DEF LoopInv, SendOK, sendVars
<1>8. startPerfmon' \in BOOLEAN /\ flushCnt' \in 1 .. PerfmonRate + 1
  BY <1>2 DEF CountPerfmon, LoopInv, TypeOK
<1>9. TypeOK'
  BY <1>1, <1>2, <1>4, <1>8 DEF LoopInv, TypeOK, HostTypeOK, Ring, WantToSend, AdequateHostBufferSpace,
                    softswitch_IsRTSReady, schedVars, sendVars, mboxVars
<1> QED BY <1>1, <1>5, <1>6, <1>7, <1>9 DEF LoopInv

-----------------------------------------------------------------------------
(* Waiting and acting. *)

(* The types of what the top of an iteration leaves alone. *)
RestTypes ==
    /\ isApp \in BOOLEAN /\ startPerfmon \in BOOLEAN
    /\ currSendTodo \in Nat
    /\ currSendAddressList = Null \/ currSendAddressList \in Seq(Address)
    /\ sendBuffer \in [message : (Device \X Pin) \cup {Null}, dest : Address \cup {Null}]
    /\ flushCnt \in 1 .. PerfmonRate + 1
    /\ recvFull \in 0 .. RecvSlots
    /\ sending \in {"none", "packet", "host"}
    /\ owed \in Seq(Address)

LEMMA RestTyped == LoopInv => RestTypes
BY DEF LoopInv, TypeOK, RestTypes

(* Back at the top, only the ring's room and the message under way matter. *)
LEMMA BackToTop ==
    ASSUME IInv', GotoTop, Ring', hostPending' < HOSTBUFFER_SIZE, SendOK', RestTypes'
    PROVE  LoopInv'
<1>1. pc' = "top" /\ adequate' = FALSE /\ hostEmpty' = FALSE /\ wantToSend' = FALSE
  BY DEF GotoTop
<1>2. HostOK' /\ Justified'
  BY <1>1 DEF HostOK, Justified
<1>3. TypeOK'
  BY <1>1 DEF IInv, TypeOK, HostTypeOK, Ring, RestTypes
<1> QED BY <1>2, <1>3 DEF LoopInv

LEMMA WaitMachineIdleInv == ASSUME LoopInv, WaitMachineIdle
                            PROVE  LoopInv'
<1>1. IInv'
  BY SchedulerHolds DEF Next, Thread, Runs
<1>2. Ring' /\ hostPending' < HOSTBUFFER_SIZE
  BY DEF WaitMachineIdle, LoopInv, HostOK, Ring, hostVars
<1>3. SendOK' /\ RestTypes'
  BY RestTyped DEF WaitMachineIdle, LoopInv, SendOK, RestTypes, sendVars, perfVars, mboxVars
<1> QED BY <1>1, <1>2, <1>3, BackToTop DEF WaitMachineIdle

LEMMA WaitWokenInv == ASSUME LoopInv, WaitWoken
                      PROVE  LoopInv'
<1>1. IInv' /\ SchedTypeOK'
  BY SchedulerHolds DEF Next, Thread, Runs
<1>2. /\ pc = "wait" /\ pc' = "dispatch" /\ WakeCondition
      /\ UNCHANGED <<adequate, hostEmpty, wantToSend>>
      /\ UNCHANGED <<schedVars, hostVars, sendVars, perfVars, mboxVars>>
  BY DEF WaitWoken
<1>3. phase = "run"
  BY <1>2 DEF LoopInv, TypeOK
<1>4. HostOK'
  BY <1>2 DEF LoopInv, HostOK, Ring, hostVars
<1>5. Justified'
  BY <1>2 DEF LoopInv, Justified, WakeCondition, CanRecv, CanSend, softswitch_IsRTSReady,
              schedVars, sendVars, mboxVars
<1>6. SendOK'
  BY <1>2 DEF LoopInv, SendOK, sendVars
<1>7. TypeOK'
  BY <1>1, <1>2, <1>3 DEF LoopInv, TypeOK, HostTypeOK, schedVars, hostVars, sendVars, perfVars, mboxVars
<1> QED BY <1>1, <1>4, <1>5, <1>6, <1>7 DEF LoopInv

(* A drain leaves messages in the ring, since adequate space is less than  *)
(* all of it.                                                              *)
LEMMA DrainInv == ASSUME LoopInv, Drain
                  PROVE  LoopInv'
<1>1. IInv' /\ SchedTypeOK'
  BY SchedulerHolds DEF Next, Thread, Runs, Act
<1>2. /\ pc = "dispatch" /\ pc' = "dispatch" /\ ~adequate /\ hostMsgBufferPop
      /\ adequate' = AdequateHostBufferSpace' /\ UNCHANGED <<hostEmpty, wantToSend>>
      /\ UNCHANGED <<schedVars, sendVars, perfVars, mboxVars>>
  BY DEF Drain
<1>3. hostPending > HOSTBUFFER_SIZE - MAX_HOST_PER_HANDLER /\ Ring
  BY <1>2 DEF LoopInv, HostOK
<1>4. Ring' /\ hostPending' = hostPending - 1 /\ hostPending' < HOSTBUFFER_SIZE
  <2>1. hostPending > 0
    BY <1>3 DEF Ring
  <2> QED BY <1>2, <1>3, <2>1, PopKeepsRing DEF Ring
<1>5. hostMsgBufferSize' = hostPending'
  BY <1>4 DEF Ring, hostMsgBufferSize
<1>6. HostOK'
  <2>1. AdequateHostBufferSpace' <=> hostPending' <= HOSTBUFFER_SIZE - MAX_HOST_PER_HANDLER
    BY <1>4, <1>5 DEF AdequateHostBufferSpace, hostMsgBufferSpace, Ring
  <2>2. adequate' <=> hostPending' <= HOSTBUFFER_SIZE - MAX_HOST_PER_HANDLER
    BY <1>2, <2>1, Zenon
  <2>3. hostPending' > 0
    BY <1>3, <1>4 DEF Ring
  <2>4. ~adequate' => hostPending' > HOSTBUFFER_SIZE - MAX_HOST_PER_HANDLER
    BY <1>4, <2>2 DEF Ring
  <2>5. pc' = "dispatch"
    BY <1>2
  <2> QED BY <1>4, <2>3, <2>4, <2>5 DEF HostOK
<1>7. Justified'
  BY <1>2 DEF LoopInv, Justified, CanRecv, CanSend, softswitch_IsRTSReady, schedVars, sendVars, mboxVars
<1>8. SendOK'
  BY <1>2 DEF LoopInv, SendOK, sendVars
<1>9. adequate' \in BOOLEAN /\ phase = "run"
  BY <1>2 DEF AdequateHostBufferSpace, LoopInv, TypeOK
<1>10. TypeOK'
  BY <1>1, <1>2, <1>4, <1>9 DEF LoopInv, TypeOK, HostTypeOK, Ring, schedVars, sendVars, perfVars, mboxVars
<1> QED BY <1>1, <1>6, <1>7, <1>8, <1>10 DEF LoopInv

LEMMA ReceiveInv == ASSUME LoopInv, NEW d \in Device, NEW f \in Flags, Receive(d, f)
                    PROVE  LoopInv'
<1>1. IInv'
  BY SchedulerHolds DEF Next, Thread, Runs, Act
<1>2. pc = "dispatch" /\ adequate /\ DoRecv /\ HandlerHostCalls /\ recvFull' = recvFull - 1
      /\ GotoTop /\ UNCHANGED <<sendVars, perfVars, sending>>
  BY DEF Receive
<1>3. Ring' /\ hostPending' < HOSTBUFFER_SIZE
  BY <1>2, HandlerCallsKeepRing DEF LoopInv, HostOK
<1>4. recvFull > 0
  BY <1>2 DEF LoopInv, Justified, DoRecv, CanRecv
<1>5. SendOK' /\ RestTypes'
  BY <1>2, <1>4, RestTyped DEF LoopInv, SendOK, RestTypes, sendVars, perfVars
<1> QED BY <1>1, <1>2, <1>3, <1>5, BackToTop

(* A thread that decides to send can, and wanted to. *)
LEMMA SendCan == ASSUME LoopInv, DoSend
                 PROVE  /\ CanSend /\ wantToSend /\ Ring
                        /\ hostPending < HOSTBUFFER_SIZE
                        /\ ~hostEmpty => hostPending > 0
BY DEF LoopInv, HostOK, Justified, DoSend, DoRecv

LEMMA SendHostInv == ASSUME LoopInv, SendHost
                     PROVE  LoopInv'
<1>1. IInv'
  BY SchedulerHolds DEF Next, Thread, Runs, Act
<1>2. Ring' /\ hostPending' < HOSTBUFFER_SIZE
  BY SendCan, PopKeepsRing DEF SendHost, Ring
<1>3. SendOK' /\ RestTypes'
  BY RestTyped DEF SendHost, LoopInv, SendOK, RestTypes, sendVars, perfVars
<1> QED BY <1>1, <1>2, <1>3, BackToTop DEF SendHost

(* A message is prepared from the front device's lowest ready pin. *)
LEMMA PreparedPin == ASSUME LoopInv, NEW f \in Flags, softswitch_onSend(f)
                     PROVE  rts.head \in Device /\ right_most_one(rtsFlags[rts.head]) \in Pin
<1>1. rts \in RTSListType /\ Lists(rts, ReadyDevices) /\ rts.head # Null
  BY DEF LoopInv, IInv, SchedTypeOK, ListMatchesFlags, softswitch_onSend, softswitch_IsRTSReady
<1>2. rts.head \in ReadyDevices
  BY <1>1, HeadIsListed
<1>3. rtsFlags[rts.head] \in Flags /\ rtsFlags[rts.head].pins # {} /\ rts.head \in Device
  BY <1>2 DEF ReadyDevices, LoopInv, IInv, SchedTypeOK
<1> QED BY <1>3, LowestPin

(* A new message is prepared only when nothing is owed of the last one. *)
LEMMA PrepareInv == ASSUME LoopInv, NEW f \in Flags, NEW doSend \in BOOLEAN, Prepare(f, doSend)
                    PROVE  LoopInv'
<1>1. IInv' /\ SchedTypeOK'
  BY SchedulerHolds DEF Next, Thread, Runs, Act
<1>2. PICK d \in Device, pin \in Pin, app \in BOOLEAN, targets \in Seq(Address) :
        /\ targets = IF doSend /\ ~app THEN Targets[d][pin] ELSE <<>>
        /\ currSendTodo' = IF doSend /\ app THEN 1 ELSE Len(targets)
        /\ currSendAddressList' = IF doSend /\ ~app THEN targets ELSE Null
        /\ isApp' = IF doSend THEN app ELSE isApp
        /\ sendBuffer' = [sendBuffer EXCEPT !.message = <<d, pin>>]
        /\ owed' = owed \o targets
  <2> DEFINE d == rts.head
             pin == right_most_one(rtsFlags[d])
             app == <<d, pin>> \in AppPins
             targets == IF doSend /\ ~app THEN Targets[d][pin] ELSE <<>>
  <2>1. d \in Device /\ pin \in Pin
    BY PreparedPin DEF Prepare
  <2>2. targets \in Seq(Address) /\ app \in BOOLEAN
    <3>1. Targets[d][pin] \in Seq(Address)
      BY <2>1
    <3>2. <<>> \in Seq(Address)
      OBVIOUS
    <3> HIDE DEF d, pin, app
    <3>3. targets \in Seq(Address)
      BY <3>1, <3>2
    <3>4. app \in BOOLEAN
      BY DEF app
    <3> QED BY <3>3, <3>4
  <2>3. /\ currSendTodo' = IF doSend /\ app THEN 1 ELSE Len(targets)
        /\ currSendAddressList' = IF doSend /\ ~app THEN targets ELSE Null
        /\ isApp' = IF doSend THEN app ELSE isApp
        /\ sendBuffer' = [sendBuffer EXCEPT !.message = <<d, pin>>]
        /\ owed' = owed \o targets
    BY DEF Prepare
  <2> QED BY <2>1, <2>2, <2>3
<1>3. /\ DoSend /\ hostEmpty /\ currSendTodo = 0 /\ HandlerHostCalls
      /\ UNCHANGED <<perfVars, mboxVars>> /\ phase' = "run"
      /\ \/ /\ currSendTodo' > 0 /\ pc' = "transmit"
            /\ UNCHANGED <<adequate, hostEmpty, wantToSend>>
         \/ GotoTop
  BY DEF Prepare, NoSendInProgress, softswitch_onSend
<1>4. CanSend /\ Ring' /\ hostPending' < HOSTBUFFER_SIZE
  BY <1>3, SendCan, HandlerCallsKeepRing
<1>5. owed = <<>>
  BY <1>3 DEF LoopInv, SendOK, TypeOK
<1>6. owed' = targets
  BY <1>2, <1>5
<1>7. SendOK'
  <2>1. CASE ~doSend
    <3>1. targets = <<>> /\ currSendTodo' = Len(targets)
      BY <1>2, <2>1
    <3>2. owed' = <<>> /\ currSendTodo' = 0 /\ Len(owed') = 0
      BY <1>6, <3>1
    <3> QED BY <3>2 DEF SendOK
  <2>2. CASE doSend /\ app
    BY <1>2, <1>6, <2>2 DEF SendOK
  <2>3. CASE doSend /\ ~app
    <3>1. targets = Targets[d][pin] /\ currSendTodo' = Len(targets) /\ ~isApp'
          /\ currSendAddressList' = targets
      BY <1>2, <2>3
    <3> QED BY <1>6, <3>1 DEF SendOK
  <2> QED BY <2>1, <2>2, <2>3
<1>8. RestTypes'
  <2>1. isApp' \in BOOLEAN /\ startPerfmon' \in BOOLEAN
    BY <1>2, <1>3, RestTyped DEF RestTypes, perfVars
  <2>2. currSendTodo' \in Nat /\ owed' \in Seq(Address)
    <3>1. Len(targets) \in Nat /\ owed' \in Seq(Address)
      BY <1>6
    <3>2. currSendTodo' \in {1, Len(targets)}
      BY <1>2
    <3> QED BY <3>1, <3>2
  <2>3. currSendAddressList' = Null \/ currSendAddressList' \in Seq(Address)
    BY <1>2
  <2>4. sendBuffer' \in [message : (Device \X Pin) \cup {Null}, dest : Address \cup {Null}]
    BY <1>2, RestTyped DEF RestTypes
  <2>5. /\ flushCnt' \in 1 .. PerfmonRate + 1 /\ recvFull' \in 0 .. RecvSlots
        /\ sending' \in {"none", "packet", "host"}
    BY <1>3, RestTyped DEF RestTypes, perfVars, mboxVars
  <2> QED BY <2>1, <2>2, <2>3, <2>4, <2>5 DEF RestTypes
<1>9. CASE currSendTodo' > 0 /\ pc' = "transmit" /\ UNCHANGED <<adequate, hostEmpty, wantToSend>>
  <2>1. HostOK'
    BY <1>4, <1>9 DEF HostOK
  <2>2. Justified'
    BY <1>3, <1>4, <1>9 DEF Justified, CanSend, mboxVars
  <2>3. TypeOK'
    BY <1>1, <1>3, <1>4, <1>8, <1>9 DEF LoopInv, TypeOK, RestTypes, HostTypeOK, Ring
  <2> QED BY <1>1, <1>7, <2>1, <2>2, <2>3 DEF LoopInv
<1>10. CASE GotoTop
  BY <1>1, <1>4, <1>7, <1>8, <1>10, BackToTop
<1> QED BY <1>3, <1>9, <1>10

(* A message that is transmitted has room, and a target that is owed to. *)
LEMMA TransmittingCan ==
    ASSUME LoopInv, Transmitting
    PROVE  /\ CanSend /\ currSendTodo > 0
           /\ Ring /\ hostPending < HOSTBUFFER_SIZE
<1>1. CASE pc = "transmit"
  BY <1>1 DEF LoopInv, HostOK, Justified
<1>2. CASE DoSend /\ hostEmpty /\ ~NoSendInProgress
  BY <1>2, SendCan DEF NoSendInProgress, LoopInv, TypeOK
<1> QED BY <1>1, <1>2 DEF Transmitting

(* What it leaves is a target less, in the count, the list and what is     *)
(* owed.                                                                   *)
LEMMA TransmittingRest ==
    ASSUME LoopInv, Transmitting,
           currSendTodo' = (IF isApp THEN 0 ELSE currSendTodo - 1) \/ (isApp /\ currSendTodo' = currSendTodo),
           sending' \in {"none", "packet", "host"}
    PROVE  SendOK' /\ RestTypes' /\ GotoTop
<1>1. /\ GotoTop /\ UNCHANGED <<isApp, perfVars, recvFull>>
      /\ sendBuffer' = IF isApp THEN sendBuffer
                       ELSE [sendBuffer EXCEPT !.dest = Head(currSendAddressList)]
      /\ IF isApp THEN UNCHANGED <<currSendAddressList, owed>>
         ELSE /\ currSendAddressList' = Tail(currSendAddressList)
              /\ owed' = IF Head(owed) = Head(currSendAddressList) THEN Tail(owed) ELSE owed
  BY DEF Transmitting
<1>2. RestTypes /\ currSendTodo > 0
  BY RestTyped, TransmittingCan
<1>3. CASE isApp
  BY <1>1, <1>2, <1>3 DEF LoopInv, SendOK, RestTypes, perfVars
<1>4. CASE ~isApp
  <2>1. owed = currSendAddressList /\ currSendTodo = Len(owed) /\ owed \in Seq(Address) /\ owed # <<>>
    BY <1>2, <1>4 DEF LoopInv, SendOK, RestTypes
  <2>2. /\ owed' = Tail(owed) /\ currSendAddressList' = Tail(owed) /\ currSendTodo' = Len(owed) - 1
        /\ sendBuffer' = [sendBuffer EXCEPT !.dest = Head(owed)] /\ ~isApp'
    BY <1>1, <1>4, <2>1
  <2>3. Head(owed) \in Address /\ Tail(owed) \in Seq(Address) /\ Len(Tail(owed)) = Len(owed) - 1
    BY <2>1
  <2>4. SendOK'
    BY <2>2, <2>3 DEF SendOK
  <2>5. currSendTodo' \in Nat
    BY <2>1, <2>2
  <2>6. sendBuffer' \in [message : (Device \X Pin) \cup {Null}, dest : Address \cup {Null}]
    BY <1>2, <2>2, <2>3 DEF RestTypes
  <2>7. RestTypes'
    BY <1>1, <1>2, <2>2, <2>3, <2>5, <2>6 DEF RestTypes, perfVars
  <2> QED BY <1>1, <2>4, <2>7
<1> QED BY <1>3, <1>4

LEMMA TransmitMailboxInv == ASSUME LoopInv, TransmitMailbox
                            PROVE  LoopInv'
<1>1. IInv'
  BY SchedulerHolds DEF Next, Thread, Runs, Act
<1>2. SendOK' /\ RestTypes' /\ GotoTop
  BY TransmittingRest DEF TransmitMailbox
<1>3. Ring' /\ hostPending' < HOSTBUFFER_SIZE
  BY TransmittingCan DEF TransmitMailbox, Ring, hostVars
<1> QED BY <1>1, <1>2, <1>3, BackToTop

LEMMA TransmitLocallyInv == ASSUME LoopInv, NEW d \in Device, NEW f \in Flags, TransmitLocally(d, f)
                            PROVE  LoopInv'
<1>1. IInv'
  BY SchedulerHolds DEF Next, Thread, Runs, Act
<1>2. SendOK' /\ RestTypes' /\ GotoTop
  BY TransmittingRest DEF TransmitLocally, LoopInv, TypeOK
<1>3. Ring' /\ hostPending' < HOSTBUFFER_SIZE
  BY TransmittingCan, HandlerCallsKeepRing DEF TransmitLocally
<1> QED BY <1>1, <1>2, <1>3, BackToTop

(* The network only ever adds to what the thread waits for. *)
LEMMA NetworkInv == ASSUME LoopInv, Network
                    PROVE  LoopInv'
<1>1. IInv' /\ SchedTypeOK'
  BY SchedulerHolds DEF Next
<1>2. /\ recvFull' \in {recvFull, recvFull + 1} /\ recvFull' \in 0 .. RecvSlots
      /\ sending' \in {sending, "none"}
      /\ UNCHANGED <<schedVars, hostVars, loopVars, sendVars, perfVars>>
  BY DEF Network, NetTake, NetDeliver, LoopInv, TypeOK
<1>3. HostOK' /\ SendOK'
  BY <1>2 DEF LoopInv, HostOK, Ring, SendOK, hostVars, loopVars, sendVars
<1>4. (CanRecv => CanRecv') /\ (CanSend => CanSend')
  BY <1>2 DEF CanRecv, CanSend, LoopInv, TypeOK
<1>5. NothingToCompute' = NothingToCompute /\ softswitch_IsRTSReady(rts)' = softswitch_IsRTSReady(rts)
  BY <1>2 DEF NothingToCompute, softswitch_IsRTSReady, schedVars
<1>6. Justified'
  BY <1>2, <1>4, <1>5 DEF LoopInv, Justified, loopVars, sendVars
<1>7. TypeOK'
  BY <1>1, <1>2 DEF LoopInv, TypeOK, HostTypeOK, schedVars, hostVars, loopVars, sendVars, perfVars
<1> QED BY <1>1, <1>3, <1>6, <1>7 DEF LoopInv

-----------------------------------------------------------------------------
LEMMA NextLoopInv == LoopInv /\ [Next]_vars => LoopInv'
<1> SUFFICES ASSUME LoopInv, [Next]_vars PROVE LoopInv'
  OBVIOUS
<1>1. CASE UNCHANGED vars
  <2>1. IInv' /\ SchedTypeOK'
    <3>1. UNCHANGED schedVars
      BY <1>1 DEF vars
    <3> QED BY <3>1, NextIInv DEF LoopInv, IInv
  <2>2. HostOK' /\ Justified' /\ SendOK'
    BY <1>1 DEF LoopInv, HostOK, Ring, Justified, SendOK, CanRecv, CanSend, NothingToCompute,
                softswitch_IsRTSReady, vars, schedVars, hostVars, loopVars, sendVars, mboxVars
  <2>3. TypeOK'
    BY <1>1, <2>1 DEF LoopInv, TypeOK, HostTypeOK,
                      vars, schedVars, hostVars, loopVars, sendVars, perfVars, mboxVars
  <2> QED BY <2>1, <2>2, <2>3 DEF LoopInv
<1>2. CASE DeviceLoop
  BY <1>2, DeviceLoopInv
<1>3. CASE Top
  BY <1>3, TopBusyInv, TopIdleInv, TopNothingInv DEF Top
<1>4. CASE WaitMachineIdle \/ WaitWoken
  BY <1>4, WaitMachineIdleInv, WaitWokenInv
<1>5. CASE Act
  BY <1>5, DrainInv, SendHostInv, TransmitMailboxInv, PrepareInv, ReceiveInv, TransmitLocallyInv DEF Act
<1>6. CASE Network
  BY <1>6, NetworkInv
<1> QED BY <1>1, <1>2, <1>3, <1>4, <1>5, <1>6 DEF Next, Thread, Runs

(* The inductive invariant holds of every behaviour of the loop. *)
THEOREM LoopInvariant == Spec => []LoopInv
<1>1. Init => LoopInv
  BY InitLoopInv
<1>2. LoopInv /\ [Next]_vars => LoopInv'
  BY NextLoopInv
<1> QED BY <1>1, <1>2, PTL DEF Spec

(* The loop's state has its type, and hardware idle keeps it at the top. *)
THEOREM LoopTypeCorrect == Spec => []TypeOK
<1>1. LoopInv => TypeOK
  BY DEF LoopInv
<1> QED BY <1>1, LoopInvariant, PTL

(* What a woken thread decides to do is justified by what is there to be   *)
(* received, and by what the top of the loop decided that it would send.   *)
THEOREM DispatchCorrect == Spec => []DispatchJustified
<1>1. LoopInv => DispatchJustified
  BY DEF LoopInv, Justified, DispatchJustified
<1> QED BY <1>1, LoopInvariant, PTL

(* Every target of a message is sent to once and in order. *)
THEOREM TargetsCorrect == Spec => []EachTargetOnce
<1>1. LoopInv => EachTargetOnce
  BY DEF LoopInv, SendOK, EachTargetOnce
<1> QED BY <1>1, LoopInvariant, PTL

(* The host buffer neither loses nor invents a message. *)
THEOREM HostCorrect == Spec => []HostMessagesKept
<1>1. LoopInv => HostMessagesKept
  <2> SUFFICES ASSUME LoopInv PROVE HostMessagesKept
    OBVIOUS
  <2>1. Ring /\ (pc = "top" => hostPending < HOSTBUFFER_SIZE)
    BY DEF LoopInv, HostOK
  <2>2. (hbuf_head + hostPending) % HOSTBUFFER_SIZE = hbuf_tail
    BY <2>1 DEF Ring
  <2>3. hostPending \in 0 .. HOSTBUFFER_SIZE
    BY <2>1 DEF Ring
  <2>4. pc = "top" => hostMsgBufferSize = hostPending
    BY <2>1, RingSize
  <2> QED BY <2>2, <2>3, <2>4 DEF HostMessagesKept
<1> QED BY <1>1, LoopInvariant, PTL

(* The send slot is not written while the hardware may be reading it: a    *)
(* step that writes it can send.                                           *)
THEOREM SendSlotCorrect == Spec => SendSlotStable
<1>1. LoopInv /\ [Next]_vars => [sendBuffer' # sendBuffer => sending # "packet"]_vars
  <2> SUFFICES ASSUME LoopInv, Next, sendBuffer' # sendBuffer
               PROVE  sending = "none"
    OBVIOUS
  <2>1. CASE Transmitting
    BY <2>1, TransmittingCan DEF CanSend
  <2>2. CASE DoSend
    BY <2>2, SendCan DEF CanSend
  <2>3. CASE UNCHANGED sendVars
    BY <2>3 DEF sendVars
  <2>4. Transmitting \/ DoSend \/ UNCHANGED sendVars
    BY DEF Next, Thread, Runs, DeviceLoop, Top, TopBusy, TopIdle, TopNothing, WaitMachineIdle,
           WaitWoken, Act, Drain, SendHost, TransmitMailbox, Prepare, Receive, TransmitLocally, Network
  <2> QED BY <2>1, <2>2, <2>3, <2>4
<1> QED BY <1>1, LoopInvariant, PTL DEF Spec, SendSlotStable

(* The loop drives the scheduler only as the scheduler expects, so that    *)
(* all that is proved of the scheduler alone holds of it inside the loop.  *)
THEOREM LoopImplementsScheduler == Spec => ImplementsScheduler
<1>1. Init => SchedInit
  BY DEF Init
<1>2. LoopInv /\ [Next]_vars => [SchedNext]_schedVars
  <2>1. UNCHANGED vars => UNCHANGED schedVars
    BY DEF vars
  <2> QED BY <2>1, LoopSchedules
<1> QED BY <1>1, <1>2, LoopInvariant, PTL DEF Spec, SchedSpec, ImplementsScheduler

(* And so, whatever the network does and however the options are set, the *)
(* devices of a running thread are served as from a first-in first-out    *)
(* queue.                                                                 *)
COROLLARY LoopListIsQueue == Spec => ImplementsReadyQueue
  BY LoopImplementsScheduler, ListIsQueue DEF ImplementsScheduler

-----------------------------------------------------------------------------
(* A count that leaves its range by less than the range wraps once. *)
LEMMA CyclesWrap ==
    ASSUME CycleRange \in Nat \ {0}, NEW n \in Int
    PROVE  /\ n \in Cycles => n % CycleRange = n
           /\ n - CycleRange \in Cycles => n % CycleRange = n - CycleRange
           /\ n + CycleRange \in Cycles => n % CycleRange = n + CycleRange
BY SMTT(60) DEF Cycles

(* deltaCycles is the number of cycles that passed between its two         *)
(* readings, also when the counter wrapped between them, if it did not     *)
(* come round to where it was.                                             *)
THEOREM DeltaAcrossWrap ==
    ASSUME CycleRange \in Nat \ {0}, NEW tstart \in Cycles, NEW passed \in Cycles
    PROVE  deltaCycles(tstart, (tstart + passed) % CycleRange) = passed
<1>1. PICK tend \in Int : tend = (tstart + passed) % CycleRange
  BY CyclesWrap DEF Cycles
<1>2. CASE tstart + passed < CycleRange
  <2>1. tend = tstart + passed
    BY <1>1, <1>2, CyclesWrap DEF Cycles
  <2>2. CASE passed > 0
    BY <1>1, <2>1, <2>2 DEF deltaCycles, Cycles
  <2>3. CASE passed = 0
    <3>1. tend - tstart = 0 /\ 0 % CycleRange = 0 /\ (0 + CycleRange) % CycleRange = 0
      BY <2>1, <2>3, CyclesWrap DEF Cycles
    <3> QED
      BY <1>1, <2>1, <2>3, <3>1 DEF deltaCycles, Cycles
  <2> QED
    BY <2>2, <2>3 DEF Cycles
<1>3. CASE tstart + passed >= CycleRange
  <2>1. tend = tstart + passed - CycleRange
    BY <1>1, <1>3, CyclesWrap DEF Cycles
  <2>2. tend - tstart = passed - CycleRange /\ ~(tend > tstart)
    BY <2>1 DEF Cycles
  <2>3. (tend - tstart) % CycleRange = passed
    BY <2>2, CyclesWrap DEF Cycles
  <2>4. (passed + CycleRange) % CycleRange = passed
    BY CyclesWrap DEF Cycles
  <2> QED
    BY <1>1, <2>2, <2>3, <2>4 DEF deltaCycles
<1> QED
  BY <1>2, <1>3 DEF Cycles
=============================================================================
