----------------------------- MODULE Scheduler -----------------------------
(***************************************************************************)
(* The cooperative scheduler of one softswitch thread: which devices want  *)
(* to send (the RTS list) and which want to compute (the RTC sweep).       *)
(*                                                                         *)
(* Application handlers are arbitrary: a handler leaves the device in a    *)
(* state for which its readyToSend handler returns any flags word.  The    *)
(* 32-bit word is a record: the output pins that are ready (bits 0..30)    *)
(* and the ready-to-compute flag (bit 31).                                 *)
(*                                                                         *)
(* One thread owns all of this state, so a softswitch_on* call is one      *)
(* step, except that the loops of softswitch_init and                      *)
(* softswitch_on_hardware_idle take one step per device.  SchedNext lets   *)
(* the calls come in any order in which softswitch_main can make them;     *)
(* MainLoop composes them with the main loop itself.                       *)
(***************************************************************************)
EXTENDS RTSList, FiniteSetsExt

CONSTANTS Pin,              \* output pins of a device, a set of naturals
          SweepChunk,       \* IDLE_SWEEP_CHUNK_SIZE
          HasIdleHandler    \* devices whose vtable has an onHardwareIdleHandler

ASSUME PinAssumption == Pin \subseteq Nat /\ Pin # {}
ASSUME ChunkAssumption == SweepChunk \in Nat \ {0}
ASSUME IdleHandlerAssumption == HasIdleHandler \subseteq Device

Flags == [pins : SUBSET Pin, rtc : BOOLEAN]
NotReady == [pins |-> {}, rtc |-> FALSE]

(* The values of PThreadContext::currentHandlerType that are used. *)
InNoHandler == 0   InReceive == 1   InSend == 2   InInit == 4   InHardwareIdle == 5

VARIABLES
    rts,                  \* rtsHead, rtsTail and the devices' prev and next
    rtsFlags,             \* DeviceContext::rtsFlags
    appFlags,             \* what the device's readyToSend handler would return now
    rtcChecked,           \* devices swept since one was last known to compute
    rtcOffset,            \* where the next sweep for a computing device starts
    currentDevice,        \* the device noted as active, for handler_log
    currentHandlerType,   \* the kind of handler noted as active
    phase,                \* "init", "run" or "hwidle"
    idx,                  \* the loop index i of the init and hardware idle loops
    active                \* history: the handler the last step called

schedVars == <<rts, rtsFlags, appFlags, rtcChecked, rtcOffset, currentDevice,
               currentHandlerType, phase, idx, active>>

NoHandler == [kind |-> "none", dev |-> 0]
Handler == [kind : {"none", "init", "receive", "send", "compute", "hwidle"},
            dev : Device]

ReadyDevices == {d \in Device : rtsFlags[d].pins # {}}

(* The lowest ready pin, which is the one that gets to send. *)
right_most_one(flags) == Min(flags.pins)
-----------------------------------------------------------------------------
SchedInit ==
    /\ rts = InitialList
    /\ rtsFlags = [d \in Device |-> NotReady]
    /\ appFlags = [d \in Device |-> NotReady]
    /\ rtcChecked = 0 /\ rtcOffset = 0
    /\ currentDevice = 0 /\ currentHandlerType = InNoHandler
    /\ phase = "init" /\ idx = 0
    /\ active = NoHandler

(* Device d's handler of this kind runs; f is what readyToSend says next. *)
RunHandler(kind, d, f) ==
    /\ active' = [kind |-> kind, dev |-> d]
    /\ appFlags' = [appFlags EXCEPT ![d] = f]

NoteActive(d, type) == currentDevice' = d /\ currentHandlerType' = type

(* Fault: a device that still wants to send goes to the back of the list. *)
Relinked_LosesPlace(L, d, anyReadyPrev, anyReadyNow) ==
    LET M == IF anyReadyPrev THEN rts_remove(L, d) ELSE L
    IN  IF anyReadyNow THEN rts_append(M, d) ELSE M

(* The list after a device that did, or did not, want to send changes its mind. *)
Relinked(L, d, anyReadyPrev, anyReadyNow) ==
    IF anyReadyPrev = anyReadyNow THEN L
    ELSE IF anyReadyNow THEN rts_append(L, d) ELSE rts_remove(L, d)

(* Fault: another complete loop of the compute sweep is not forced. *)
UpdateRTS_KeepsChecked(L, flags, checked, d, f) ==
    /\ rtcChecked' = checked
    /\ rtsFlags' = [flags EXCEPT ![d] = f]
    /\ rts' = Relinked(L, d, flags[d].pins # {}, f.pins # {})

(* Fault: the early return comes before the flags word is stored. *)
UpdateRTS_StoresLate(L, flags, checked, d, f) ==
    LET was == flags[d].pins # {}
        now == f.pins # {}
    IN  /\ rtcChecked' = IF f.rtc THEN 0 ELSE checked
        /\ rtsFlags' = IF was = now THEN flags ELSE [flags EXCEPT ![d] = f]
        /\ rts' = Relinked(L, d, was, now)

(* softswitch_UpdateRTS, entered with list L, flags words and rtcChecked as *)
(* the caller left them; f is what the readyToSend handler returns.         *)
softswitch_UpdateRTS(L, flags, checked, d, f) ==
    /\ rtcChecked' = IF f.rtc THEN 0 ELSE checked
    /\ rtsFlags' = [flags EXCEPT ![d] = f]
    /\ rts' = Relinked(L, d, flags[d].pins # {}, f.pins # {})

(* One iteration of softswitch_init's loop over the devices. *)
InitDevice(f) ==
    /\ phase = "init"
    /\ NoteActive(idx, InInit)
    /\ RunHandler("init", idx, f)
    /\ rtsFlags' = [rtsFlags EXCEPT ![idx] = f]
    /\ rts' = IF f.pins # {} THEN rts_append(rts, idx) ELSE rts
    /\ IF idx + 1 < NumDevices
         THEN idx' = idx + 1 /\ phase' = "init"
         ELSE idx' = 0 /\ phase' = "run"
    /\ UNCHANGED <<rtcChecked, rtcOffset>>

(* A packet for device d is handled. *)
softswitch_onReceive(d, f) ==
    /\ phase = "run"
    /\ NoteActive(d, InReceive)
    /\ RunHandler("receive", d, f)
    /\ softswitch_UpdateRTS(rts, rtsFlags, rtcChecked, d, f)
    /\ UNCHANGED <<rtcOffset, phase, idx>>

(* The front device is popped, sends from its lowest ready pin, and joins  *)
(* the back of the list if it still wants to send.                         *)
softswitch_onSend(f) ==
    /\ phase = "run"
    /\ softswitch_IsRTSReady(rts)
    /\ LET d == rts.head
       IN  /\ NoteActive(d, InSend)
           /\ RunHandler("send", d, f)
           /\ softswitch_UpdateRTS(rts_pop(rts), [rtsFlags EXCEPT ![d] = NotReady],
                                   rtcChecked, d, f)
    /\ UNCHANGED <<rtcOffset, phase, idx>>

(* Fault: every sweep starts at the first device. *)
Swept_FromStart(i) == i % NumDevices

(* The i-th device, from 0, that a sweep looks at. *)
Swept(i) == (rtcOffset + i) % NumDevices

(* Faults: the loop over the devices is a device too long, or too short. *)
NothingToCompute_Late == rtcChecked > NumDevices
NothingToCompute_Early == rtcChecked >= NumDevices - 1

(* softswitch_onIdle returns false: a whole loop found nothing to compute. *)
NothingToCompute == rtcChecked >= NumDevices

(* softswitch_onIdle finds a device that wants to compute and runs it, the *)
(* i-th it looks at; the handler's device and type are not noted.          *)
IdleComputeAt(i, f) ==
    /\ phase = "run"
    /\ ~NothingToCompute
    /\ rtsFlags[Swept(i)].rtc
    /\ \A j \in 0 .. i - 1 : ~rtsFlags[Swept(j)].rtc
    /\ rtcOffset' = Swept(i + 1)
    /\ RunHandler("compute", Swept(i), f)
    /\ softswitch_UpdateRTS(rts, rtsFlags, rtcChecked + i + 1, Swept(i), f)
    /\ UNCHANGED <<currentDevice, currentHandlerType, phase, idx>>

IdleCompute(f) == \E i \in 0 .. SweepChunk - 1 : IdleComputeAt(i, f)

(* softswitch_onIdle looks at a chunk of devices and none wants to compute. *)
IdleSweep ==
    /\ phase = "run"
    /\ ~NothingToCompute
    /\ \A i \in 0 .. SweepChunk - 1 : ~rtsFlags[Swept(i)].rtc
    /\ rtcOffset' = Swept(SweepChunk)
    /\ rtcChecked' = rtcChecked + SweepChunk
    /\ active' = NoHandler
    /\ UNCHANGED <<rts, rtsFlags, appFlags, currentDevice, currentHandlerType,
                   phase, idx>>

(* softswitch_on_hardware_idle begins: the whole machine is idle. *)
HardwareIdleBegin ==
    /\ phase = "run"
    /\ phase' = "hwidle" /\ idx' = 0
    /\ rts' = ClearedList(rts)
    /\ active' = NoHandler
    /\ UNCHANGED <<rtsFlags, appFlags, rtcChecked, rtcOffset, currentDevice,
                   currentHandlerType>>

(* One iteration of its loop over the devices. *)
HardwareIdleDevice(f) ==
    /\ phase = "hwidle" /\ idx < NumDevices
    /\ idx' = idx + 1
    /\ IF idx \in HasIdleHandler
         THEN /\ NoteActive(idx, InHardwareIdle)
              /\ RunHandler("hwidle", idx, f)
              /\ softswitch_UpdateRTS(rts, rtsFlags, rtcChecked, idx, f)
         ELSE /\ active' = NoHandler
              /\ UNCHANGED <<rts, rtsFlags, appFlags, rtcChecked, currentDevice,
                             currentHandlerType>>
    /\ UNCHANGED <<rtcOffset, phase>>

HardwareIdleEnd ==
    /\ phase = "hwidle" /\ idx = NumDevices
    /\ phase' = "run" /\ idx' = 0
    /\ currentHandlerType' = InNoHandler
    /\ active' = NoHandler
    /\ UNCHANGED <<rts, rtsFlags, appFlags, rtcChecked, rtcOffset, currentDevice>>
-----------------------------------------------------------------------------
(* softswitch_main reports the machine idle only after softswitch_onIdle   *)
(* returned false with no device wanting to send.                          *)
HardwareIdle == ~softswitch_IsRTSReady(rts) /\ NothingToCompute /\ HardwareIdleBegin

Send == \E f \in Flags : softswitch_onSend(f)
Idle == IdleSweep \/ \E f \in Flags : IdleCompute(f)
Loop == HardwareIdleEnd \/ \E f \in Flags : InitDevice(f) \/ HardwareIdleDevice(f)

SchedNext ==
    \/ Loop
    \/ Send
    \/ Idle
    \/ HardwareIdle
    \/ \E d \in Device, f \in Flags : softswitch_onReceive(d, f)

SchedSpec == SchedInit /\ [][SchedNext]_schedVars
-----------------------------------------------------------------------------
SchedTypeOK ==
    /\ rts \in RTSListType
    /\ rtsFlags \in [Device -> Flags]
    /\ appFlags \in [Device -> Flags]
    /\ rtcChecked \in 0 .. NumDevices + SweepChunk - 1
    /\ rtcOffset \in Device
    /\ currentDevice \in Device
    /\ currentHandlerType \in {InNoHandler, InReceive, InSend, InInit, InHardwareIdle}
    /\ phase \in {"init", "run", "hwidle"}
    /\ idx \in 0 .. NumDevices
    /\ active \in Handler
    /\ phase = "init" => idx < NumDevices

(* The list links exactly the devices whose flags word has a ready pin,    *)
(* each once, and every pointer of a linked device is right, whatever the  *)
(* order in which devices joined, withdrew, were popped and joined again   *)
(* (rts_sanity, and the assertions around softswitch_UpdateRTS).           *)
ListMatchesFlags == Lists(rts, ReadyDevices)

(* Once softswitch_onIdle gives up, no device wants to compute: the count  *)
(* of swept devices is never carried over a device that began to want to.  *)
NoComputeMissed == NothingToCompute => \A d \in Device : ~rtsFlags[d].rtc

(* The flags word cached for a device is what its readyToSend handler      *)
(* would return now (validate_rts).                                        *)
FlagsFresh == \A d \in Device : (phase = "init" => d < idx) => rtsFlags[d] = appFlags[d]

(* While the hardware idle handlers run, a device not yet visited neither  *)
(* wants to send nor to compute (the assertions of that loop), so clearing *)
(* the list lost nobody.                                                   *)
HardwareIdleIsQuiet ==
    phase = "hwidle" => \A d \in Device : d >= idx => rtsFlags[d] = NotReady

(* The list is the ready queue, its devices in the order they are linked. *)
RQ == INSTANCE ReadyQueue WITH queue <- Walk(rts)
ImplementsReadyQueue == RQ!Spec

(* A device in the list is overtaken by none, whatever the others do: until *)
(* it no longer wants to send it keeps its place or moves up one, and each *)
(* send moves it up one, or is its own.                                    *)
SendsInTurn ==
    [][\A i \in 1 .. Len(Walk(rts)) :
          \/ Walk(rts)[i] \notin ReadyDevices'
          \/ Send /\ i = 1
          \/ \E j \in {i - 1, i} :
                /\ j \in 1 .. Len(Walk(rts')) /\ Walk(rts')[j] = Walk(rts)[i]
                /\ (Send => j = i - 1)]_schedVars

(* How many devices a sweep passes before it looks at d. *)
Distance(d) == IF d >= rtcOffset THEN d - rtcOffset ELSE d - rtcOffset + NumDevices

(* Every call of softswitch_onIdle that does not give up runs the compute  *)
(* handler of a device that wants to, or brings the sweep nearer to it,    *)
(* and nothing else takes the sweep away from it.                          *)
ComputesInTurn ==
    [][\A d \in Device : rtsFlags[d].rtc =>
          \/ active' = [kind |-> "compute", dev |-> d]
          \/ Distance(d)' < Distance(d)
          \/ ~Idle /\ Distance(d)' = Distance(d)]_schedVars

(* Whenever a handler has been called, the thread context names its device *)
(* and says that a handler is running, as handler_log and its assertion    *)
(* that currentHandlerType is not 0 need.                                  *)
ActiveDeviceTracked ==
    active # NoHandler => /\ currentDevice = active.dev
                          /\ currentHandlerType # InNoHandler
=============================================================================
