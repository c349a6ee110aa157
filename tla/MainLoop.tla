------------------------------ MODULE MainLoop ------------------------------
(***************************************************************************)
(* softswitch_main: the loop in which one thread receives, sends, computes *)
(* and waits.  It drives the Scheduler and the HostBuffer, and meets its   *)
(* mailbox, whose other side (the network) is the environment.             *)
(*                                                                         *)
(* pc says where in an iteration the thread is:                            *)
(*   top       the loop's top, up to the call that may block               *)
(*   wait      blocked in mboxIdle or mboxWaitUntil                        *)
(*   dispatch  woken, deciding whether to receive or to send               *)
(*   transmit  a new message is in the send slot and has a target          *)
(* While phase is not "run" the thread is in softswitch_init or in         *)
(* softswitch_on_hardware_idle, and pc stays at the top.                   *)
(***************************************************************************)
EXTENDS Scheduler, HostBuffer

CONSTANTS
    Remote,            \* the address of a device on another thread
    Targets,           \* where a device's output pin sends: device, pin -> sequence
    AppPins,           \* the <<device, pin>> that send to the host application
    RecvSlots,         \* incoming messages the mailbox can hold
    PerfmonRate,       \* SOFTSWITCH_ENABLE_PROFILE, 0 for a build without it
    SendOverRecv,      \* SOFTSWITCH_ENABLE_SEND_OVER_RECV
    IntraThreadSend    \* SOFTSWITCH_ENABLE_INTRA_THREAD_SEND

Address == Device \cup {Remote}

ASSUME MainLoopAssumption ==
    /\ Remote \notin Device
    /\ \A d \in Device, p \in Pin : Targets[d][p] \in Seq(Address)
    /\ AppPins \subseteq Device \X Pin
    /\ RecvSlots \in Nat \ {0} /\ PerfmonRate \in Nat
    /\ SendOverRecv \in BOOLEAN /\ IntraThreadSend \in BOOLEAN

VARIABLES
    pc,
    adequate,             \* adequateHostBufferSpace, as last computed
    hostEmpty,            \* hostBufferEmpty, as computed at the loop's top
    wantToSend,           \* as computed at the loop's top
    currSendTodo,         \* addresses the current message has still to go to
    currSendAddressList,  \* the rest of its target array, or Null
    isApp,                \* the current message is for the host application
    sendBuffer,           \* what the send slot holds: message and destination
    startPerfmon,         \* start_perfmon
    flushCnt,             \* perfmon_flush_rate_cnt
    recvFull,             \* mailbox: slots holding a message to receive
    sending,              \* mailbox: the slot the hardware is sending from
    owed                  \* history: addresses that messages are owed to

loopVars == <<pc, adequate, hostEmpty, wantToSend>>
sendVars == <<currSendTodo, currSendAddressList, isApp, sendBuffer, owed>>
perfVars == <<startPerfmon, flushCnt>>
mboxVars == <<recvFull, sending>>
vars == <<schedVars, hostVars, loopVars, sendVars, perfVars, mboxVars>>

EmptySlot == [message |-> Null, dest |-> Null]

Init ==
    /\ SchedInit /\ HostInit
    /\ pc = "top" /\ adequate = FALSE /\ hostEmpty = FALSE /\ wantToSend = FALSE
    /\ currSendTodo = 0 /\ currSendAddressList = Null /\ isApp = FALSE
    /\ sendBuffer = EmptySlot /\ owed = <<>>
    /\ startPerfmon = FALSE /\ flushCnt = 1
    /\ recvFull = 0 /\ sending = "none"

-----------------------------------------------------------------------------
(* The mailbox as the thread sees it. *)
CanRecv == recvFull > 0
CanSend == sending = "none"

(* Hardware takes the message being sent; hardware delivers a message. *)
NetTake == sending # "none" /\ sending' = "none" /\ UNCHANGED recvFull
NetDeliver == recvFull < RecvSlots /\ recvFull' = recvFull + 1 /\ UNCHANGED sending

Network == /\ NetTake \/ NetDeliver
           /\ UNCHANGED <<schedVars, hostVars, loopVars, sendVars, perfVars>>

-----------------------------------------------------------------------------
(* The loop's locals go out of scope. *)
GotoTop == pc' = "top" /\ adequate' = FALSE /\ hostEmpty' = FALSE /\ wantToSend' = FALSE

(* Fault: devices that want to send are forgotten. *)
WantToSend_IgnoresDevices == currSendTodo > 0 \/ hostMsgBufferSize # 0

WantToSend == currSendTodo > 0 \/ softswitch_IsRTSReady(rts) \/ hostMsgBufferSize # 0

(* The top of an iteration decides what it wants from what it sees there. *)
EnterWait ==
    /\ pc' = "wait"
    /\ adequate' = AdequateHostBufferSpace
    /\ hostEmpty' = (hostMsgBufferSize = 0)
    /\ wantToSend' = WantToSend

NothingElseToDo == ~CanRecv /\ (~WantToSend \/ ~CanSend)

(* There is something to receive, or to send and room to send it. *)
TopBusy ==
    /\ phase = "run" /\ pc = "top"
    /\ ~NothingElseToDo
    /\ EnterWait
    /\ UNCHANGED <<schedVars, hostVars, sendVars, perfVars, mboxVars>>

(* What the device handler that this step calls, if any, does with the     *)
(* host buffer.                                                            *)
HandlerHostCalls ==
    IF active'.kind = "none" THEN UNCHANGED hostVars
    ELSE softswitch_handler_log \/ softswitch_handler_exit

(* softswitch_onIdle did something and the loop starts over. *)
TopIdle ==
    /\ pc = "top"
    /\ NothingElseToDo
    /\ Idle
    /\ HandlerHostCalls
    /\ GotoTop
    /\ UNCHANGED <<sendVars, perfVars, mboxVars>>

(* Every PerfmonRate times that softswitch_onIdle finds nothing to do, but *)
(* the first, the counters go to the host buffer; if it looks full, its    *)
(* first message goes down the UART before.                                *)
FlushPerfmon ==
    IF PerfmonRate > 0 /\ startPerfmon /\ flushCnt >= PerfmonRate
      THEN IF hostMsgBufferSpace = 0 THEN hostMsgBufferPopThenPush ELSE hostMsgBufferPush
      ELSE UNCHANGED hostVars

CountPerfmon ==
    /\ startPerfmon' = (PerfmonRate > 0)
    /\ flushCnt' = IF ~startPerfmon THEN flushCnt
                   ELSE IF flushCnt < PerfmonRate THEN flushCnt + 1 ELSE 1

(* softswitch_onIdle found nothing to do. *)
TopNothing ==
    /\ phase = "run" /\ pc = "top"
    /\ NothingElseToDo
    /\ NothingToCompute
    /\ FlushPerfmon
    /\ CountPerfmon
    /\ EnterWait
    /\ UNCHANGED <<schedVars, sendVars, mboxVars>>

Top == TopBusy \/ TopIdle \/ TopNothing

-----------------------------------------------------------------------------
(* mboxIdle reports that every thread is waiting in it and no message is   *)
(* on its way, so in particular none from or to this thread.               *)
WaitMachineIdle ==
    /\ pc = "wait" /\ ~wantToSend
    /\ ~CanRecv /\ CanSend
    /\ HardwareIdleBegin
    /\ GotoTop
    /\ UNCHANGED <<hostVars, sendVars, perfVars, mboxVars>>

(* Fault: woken by room to send that nobody wants. *)
WakeCondition_RoomOnly == CanRecv \/ CanSend

WakeCondition == CanRecv \/ (wantToSend /\ CanSend)

(* mboxIdle or mboxWaitUntil returns for a message, or for room to send. *)
WaitWoken ==
    /\ pc = "wait"
    /\ WakeCondition
    /\ pc' = "dispatch"
    /\ UNCHANGED <<adequate, hostEmpty, wantToSend>>
    /\ UNCHANGED <<schedVars, hostVars, sendVars, perfVars, mboxVars>>

-----------------------------------------------------------------------------
(* One message goes down the UART because space is short. *)
Drain ==
    /\ pc = "dispatch" /\ ~adequate
    /\ hostMsgBufferPop
    /\ adequate' = AdequateHostBufferSpace'
    /\ UNCHANGED <<pc, hostEmpty, wantToSend>>
    /\ UNCHANGED <<schedVars, sendVars, perfVars, mboxVars>>

(* Faults: room to send is not checked, or sends come first by default. *)
DoRecv_SkipsCanSend == IF SendOverRecv THEN ~wantToSend ELSE CanRecv
DoRecv_SendsFirst == CanRecv /\ ~(CanSend /\ wantToSend)

DoRecv == IF SendOverRecv THEN ~(CanSend /\ wantToSend) ELSE CanRecv

(* A message is taken from the mailbox and handled, and its slot freed. *)
Receive(d, f) ==
    /\ pc = "dispatch" /\ adequate
    /\ DoRecv
    /\ recvFull' = recvFull - 1
    /\ softswitch_onReceive(d, f)
    /\ HandlerHostCalls
    /\ GotoTop
    /\ UNCHANGED <<sendVars, perfVars, sending>>

DoSend == pc = "dispatch" /\ adequate /\ ~DoRecv

(* hostMessageBufferPopSend: host messages go before any other. *)
SendHost ==
    /\ DoSend /\ ~hostEmpty
    /\ hostMsgBufferPop
    /\ sending' = "host"
    /\ GotoTop
    /\ UNCHANGED <<schedVars, sendVars, perfVars, recvFull>>

(* Fault: the targets that the last message has not yet gone to are dropped. *)
NoSendInProgress_Unchecked == TRUE

NoSendInProgress == currSendTodo = 0

(* softswitch_onSend writes a new message to the send slot; doSend is what *)
(* the device's send handler returns, and without it there are no targets. *)
Prepare(f, doSend) ==
    /\ DoSend /\ hostEmpty /\ NoSendInProgress
    /\ softswitch_onSend(f)
    /\ HandlerHostCalls
    /\ LET d == rts.head
           pin == right_most_one(rtsFlags[d])
           app == <<d, pin>> \in AppPins
           targets == IF doSend /\ ~app THEN Targets[d][pin] ELSE <<>>
       IN  /\ currSendTodo' = IF doSend /\ app THEN 1 ELSE Len(targets)
           /\ currSendAddressList' = IF doSend /\ ~app THEN targets ELSE Null
           /\ isApp' = IF doSend THEN app ELSE isApp
           /\ sendBuffer' = [sendBuffer EXCEPT !.message = <<d, pin>>]
           /\ owed' = owed \o targets
    /\ IF currSendTodo' > 0
         THEN pc' = "transmit" /\ UNCHANGED <<adequate, hostEmpty, wantToSend>>
         ELSE GotoTop
    /\ UNCHANGED <<perfVars, mboxVars>>

(* The current message goes to the next of its targets. *)
Transmitting ==
    /\ \/ pc = "transmit"
       \/ DoSend /\ hostEmpty /\ ~NoSendInProgress
    /\ GotoTop
    /\ sendBuffer' = IF isApp THEN sendBuffer
                     ELSE [sendBuffer EXCEPT !.dest = Head(currSendAddressList)]
    /\ IF isApp THEN UNCHANGED <<currSendAddressList, owed>>
       ELSE /\ currSendAddressList' = Tail(currSendAddressList)
            /\ owed' = IF Head(owed) = Head(currSendAddressList) THEN Tail(owed) ELSE owed
    /\ UNCHANGED <<isApp, perfVars, recvFull>>

(* Whether the target is found to be on this thread.  With a null list the *)
(* address is read through the null pointer, and may be anything.          *)
IsLocal == IF currSendAddressList = Null THEN BOOLEAN
           ELSE {Head(currSendAddressList) \in Device}

(* The message goes out through the mailbox. *)
TransmitMailbox ==
    /\ Transmitting
    /\ IntraThreadSend => FALSE \in IsLocal
    /\ sending' = "packet"
    /\ currSendTodo' = IF isApp THEN 0 ELSE currSendTodo - 1
    /\ UNCHANGED <<schedVars, hostVars>>

(* With intra-thread delivery, it is handled by device d at once. *)
TransmitLocally(d, f) ==
    /\ Transmitting
    /\ IntraThreadSend /\ TRUE \in IsLocal
    /\ ~isApp => d = Head(currSendAddressList)
    /\ softswitch_onReceive(d, f)
    /\ HandlerHostCalls
    /\ currSendTodo' = IF isApp THEN currSendTodo ELSE currSendTodo - 1
    /\ UNCHANGED sending

-----------------------------------------------------------------------------
(* softswitch_init and softswitch_on_hardware_idle go through the devices. *)
DeviceLoop == /\ Loop /\ HandlerHostCalls
              /\ UNCHANGED <<loopVars, sendVars, perfVars, mboxVars>>

Act == \/ Drain
       \/ SendHost
       \/ TransmitMailbox
       \/ \E f \in Flags :
             \/ \E doSend \in BOOLEAN : Prepare(f, doSend)
             \/ \E d \in Device : Receive(d, f) \/ TransmitLocally(d, f)

(* What the thread does by itself; blocked in mboxIdle, only the network   *)
(* or the other threads can free it.                                       *)
Runs == DeviceLoop \/ Top \/ WaitWoken \/ Act

Thread == Runs \/ WaitMachineIdle

Next == Thread \/ Network

Spec == Init /\ [][Next]_vars

(* The thread runs whenever it can, and the hardware takes what it is      *)
(* given to send.  Nothing says that messages arrive, nor that the machine *)
(* is ever found idle: the other threads may go on exchanging packets, and *)
(* a build without hardware idle does not look.                            *)
FairSpec == Spec /\ WF_vars(Runs) /\ WF_vars(Network /\ sending' # sending)
-----------------------------------------------------------------------------
TypeOK ==
    /\ SchedTypeOK /\ HostTypeOK
    /\ pc \in {"top", "wait", "dispatch", "transmit"}
    /\ {adequate, hostEmpty, wantToSend, isApp, startPerfmon} \subseteq BOOLEAN
    /\ currSendTodo \in Nat
    /\ currSendAddressList = Null \/ currSendAddressList \in Seq(Address)
    /\ sendBuffer \in [message : (Device \X Pin) \cup {Null}, dest : Address \cup {Null}]
    /\ flushCnt \in 1 .. PerfmonRate + 1
    /\ recvFull \in 0 .. RecvSlots
    /\ sending \in {"none", "packet", "host"}
    /\ owed \in Seq(Address)
    /\ phase # "run" => pc = "top"

(* A woken thread has a message to receive, or wants to send and can: what *)
(* it saw at the loop's top still justifies what it is about to do, after  *)
(* a wait, a drain and whatever the network did meanwhile (the assertions  *)
(* of the dispatch, and mboxSend's that no send is active).                *)
DispatchJustified ==
    /\ pc = "dispatch" => CanRecv \/ (wantToSend /\ CanSend)
    /\ pc = "transmit" => CanSend
    /\ pc = "dispatch" /\ wantToSend /\ ~CanRecv
          => ~hostEmpty \/ currSendTodo > 0 \/ softswitch_IsRTSReady(rts)

(* Every target that a message was prepared for is still to be sent to, or *)
(* has been, once and in order: the rest of the address list, the count    *)
(* and what is owed agree, however receives, host messages and waits come  *)
(* between the sends of one message.                                       *)
EachTargetOnce ==
    ~isApp => /\ currSendTodo = Len(owed)
              /\ currSendTodo > 0 => owed = currSendAddressList

(* The send slot is not written while the hardware may be reading it. *)
SendSlotStable == [][sendBuffer' # sendBuffer => sending # "packet"]_vars

(* No host message is overwritten before it is popped, none is popped that *)
(* was not pushed, and whenever the loop's top looks at it, the ring's     *)
(* size is the number of messages pending.                                 *)
HostMessagesKept ==
    /\ hostPending \in 0 .. HOSTBUFFER_SIZE
    /\ (hbuf_head + hostPending) % HOSTBUFFER_SIZE = hbuf_tail
    /\ pc = "top" => hostMsgBufferSize = hostPending

(* Whatever the network does while the loop waits, and whatever comes      *)
(* between the parts of an iteration, the scheduler is only called as it   *)
(* expects: hardware idle begins with nobody wanting to send or compute,   *)
(* only a device on the list sends, and a sweep is not overtaken.          *)
ImplementsScheduler == SchedSpec

(* The assertion before mboxIdle: no device wants to send or compute. *)
QuietBeforeIdle ==
    pc = "wait" /\ ~wantToSend => \A d \in Device : rtsFlags[d] = NotReady

(* softswitch_onSend's contract: with targets, pTargets "will be pointed   *)
(* at an array with numTargets elements".                                  *)
TargetsPointAtArray == currSendTodo > 0 => currSendAddressList # Null

(* Receives come before sends, so what waits to be sent may wait for as    *)
(* long as messages keep arriving.                                         *)
ArrivalsNeverEnd == []<><<recvFull' > recvFull>>_vars

(* The one message that the thread pushed after it had found that it did   *)
(* not want to send waits with it in mboxIdle, for as long as nothing      *)
(* arrives and the machine is not idle.                                    *)
FlushedMessageWaits == pc = "wait" /\ ~wantToSend /\ hostPending = 1

(* Unless messages keep arriving, the oldest pending host message is sent, *)
(* while others are pushed behind it, except that the last one may be      *)
(* pushed just before the thread blocks for ever.                          *)
HostMessagesSent ==
    \/ ArrivalsNeverEnd
    \/ <>[]FlushedMessageWaits
    \/ \A i \in 0 .. HOSTBUFFER_SIZE - 1 :
          (hostPending > 0 /\ hbuf_head = i) ~> hbuf_head # i

(* Unless messages keep arriving, a device that wants to send does, or     *)
(* stops wanting to, even if the others never stop sending.                *)
SendServed ==
    \/ ArrivalsNeverEnd
    \/ \A d \in Device :
          d \in ReadyDevices ~> (active = [kind |-> "send", dev |-> d] \/ d \notin ReadyDevices)

(* softswitch_onIdle is only called with nothing to receive and nothing    *)
(* that can be sent, so arrivals or sends may keep it from being called.   *)
SendsNeverEnd == []<>DoSend
OnIdleKeptOff == <>[][~TopIdle]_vars /\ (ArrivalsNeverEnd \/ SendsNeverEnd)

(* Unless they do so for ever, a device that wants to compute gets its     *)
(* compute handler called, or stops wanting to, even if the others never   *)
(* stop computing.                                                         *)
ComputeServed ==
    \/ OnIdleKeptOff
    \/ \A d \in Device :
          rtsFlags[d].rtc ~> (active = [kind |-> "compute", dev |-> d] \/ ~rtsFlags[d].rtc)

(* A mailbox that is full does not stay full: receiving goes on while      *)
(* sends are in progress, so the network is never blocked for good.        *)
MailboxDrained == recvFull = RecvSlots ~> recvFull < RecvSlots
=============================================================================
