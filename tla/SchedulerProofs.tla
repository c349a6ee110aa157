-------------------------- MODULE SchedulerProofs --------------------------
(***************************************************************************)
(* The safety of the scheduler for every number of devices and pins, every *)
(* sweep length and every choice of hardware idle handlers.                *)
(***************************************************************************)
EXTENDS Scheduler, RTSListProofs

USE PinAssumption, ChunkAssumption, IdleHandlerAssumption, NumDevicesAssumption

(* A device that wants to compute is among those that the current loop     *)
(* over the devices has still to look at.                                  *)
ComputeIsAhead ==
    \A d \in Device : rtsFlags[d].rtc => Distance(d) < NumDevices - rtcChecked

(* softswitch_init starts from the statically zeroed context. *)
InitFromZero ==
    phase = "init" => /\ rtcChecked = 0
                      /\ \A d \in Device : d >= idx => rtsFlags[d] = NotReady

(* The inductive invariant. *)
IInv == /\ SchedTypeOK
        /\ ListMatchesFlags
        /\ ComputeIsAhead
        /\ InitFromZero
        /\ FlagsFresh
        /\ HardwareIdleIsQuiet

-----------------------------------------------------------------------------
(* The offset advanced by k devices wraps at most once if k is at most the *)
(* number of devices.                                                      *)
LEMMA SweptWraps ==
    ASSUME rtcOffset \in Device, NEW k \in 0 .. NumDevices
    PROVE  /\ Swept(k) \in Device
           /\ Swept(k) = IF rtcOffset + k < NumDevices
                         THEN rtcOffset + k ELSE rtcOffset + k - NumDevices
BY SMTT(60) DEF Swept, Device

(* However long the sweep, the offset stays in range. *)
LEMMA SweptInRange ==
    ASSUME rtcOffset \in Device, NEW k \in Nat
    PROVE  Swept(k) \in Device
BY SMTT(60) DEF Swept, Device

(* Distance(d) is the number of steps after which a sweep looks at d. *)
LEMMA SweptAtDistance ==
    ASSUME rtcOffset \in Device, NEW d \in Device
    PROVE  /\ Distance(d) \in 0 .. NumDevices - 1
           /\ Swept(Distance(d)) = d
<1>1. Distance(d) \in 0 .. NumDevices - 1
  BY DEF Distance, Device
<1>2. Swept(Distance(d)) = IF rtcOffset + Distance(d) < NumDevices
                           THEN rtcOffset + Distance(d)
                           ELSE rtcOffset + Distance(d) - NumDevices
  BY <1>1, SweptWraps
<1> QED
  BY <1>1, <1>2 DEF Distance, Device

-----------------------------------------------------------------------------
(* softswitch_UpdateRTS, given a list that matches the flags words,        *)
(* returns one that matches them with the device's new word.               *)
LEMMA UpdateRTSMatches ==
    ASSUME NEW L \in RTSListType, NEW flags \in [Device -> Flags], NEW checked,
           Lists(L, {e \in Device : flags[e].pins # {}}),
           NEW d \in Device, NEW f \in Flags,
           softswitch_UpdateRTS(L, flags, checked, d, f)
    PROVE  /\ rts' \in RTSListType
           /\ rtsFlags' \in [Device -> Flags]
           /\ rtsFlags' = [flags EXCEPT ![d] = f]
           /\ ListMatchesFlags'
<1> DEFINE S == {e \in Device : flags[e].pins # {}}
<1>1. /\ rtsFlags' = [flags EXCEPT ![d] = f]
      /\ rts' = Relinked(L, d, flags[d].pins # {}, f.pins # {})
      /\ rtsFlags' \in [Device -> Flags]
  BY DEF softswitch_UpdateRTS
<1>2. SUFFICES rts' \in RTSListType /\ Lists(rts', ReadyDevices')
  BY <1>1 DEF ListMatchesFlags
<1>3. ReadyDevices' = IF f.pins # {} THEN S \cup {d} ELSE S \ {d}
  BY <1>1 DEF ReadyDevices
<1>4. CASE (flags[d].pins # {}) = (f.pins # {})
  <2>1. rts' = L /\ ReadyDevices' = S
    BY <1>1, <1>3, <1>4 DEF Relinked
  <2> QED
    BY <2>1
<1>5. CASE flags[d].pins = {} /\ f.pins # {}
  <2>1. rts' = rts_append(L, d) /\ ReadyDevices' = S \cup {d} /\ d \notin S
    BY <1>1, <1>3, <1>5 DEF Relinked
  <2> QED
    BY <2>1, AppendLists
<1>6. CASE flags[d].pins # {} /\ f.pins = {}
  <2>1. rts' = rts_remove(L, d) /\ ReadyDevices' = S \ {d} /\ d \in S
    BY <1>1, <1>3, <1>6 DEF Relinked
  <2> QED
    BY <2>1, RemoveLists
<1> QED
  BY <1>4, <1>5, <1>6

(* The initial state satisfies the inductive invariant. *)
LEMMA InitIInv == SchedInit => IInv
<1> SUFFICES ASSUME SchedInit PROVE IInv
  OBVIOUS
<1> USE DEF SchedInit
<1>1. InitialList \in RTSListType /\ ClearedList(InitialList) = InitialList
  BY DEF InitialList, RTSListType, Pointer, ClearedList
<1>2. NotReady \in Flags /\ NoHandler \in Handler /\ 0 \in Device
  BY DEF NotReady, Flags, NoHandler, Handler, Device
<1>3. SchedTypeOK
  BY <1>1, <1>2 DEF SchedTypeOK, InNoHandler
<1>4. ReadyDevices = {}
  BY DEF ReadyDevices, NotReady
<1>5. ListMatchesFlags
  BY <1>1, <1>4, ClearedListsNothing DEF ListMatchesFlags
<1>6. ComputeIsAhead /\ InitFromZero /\ FlagsFresh /\ HardwareIdleIsQuiet
  BY DEF ComputeIsAhead, InitFromZero, FlagsFresh, HardwareIdleIsQuiet, NotReady, Device
<1> QED
  BY <1>3, <1>5, <1>6 DEF IInv

-----------------------------------------------------------------------------
(* One step of softswitch_init keeps the inductive invariant. *)
LEMMA InitDeviceIInv ==
    ASSUME IInv, NEW f \in Flags, InitDevice(f)
    PROVE  IInv'
<1> USE DEF InitDevice, NoteActive, RunHandler
<1>1. idx \in Device
  BY DEF IInv, SchedTypeOK, Device
<1>2. /\ rtsFlags' = [rtsFlags EXCEPT ![idx] = f]
      /\ appFlags' = [appFlags EXCEPT ![idx] = f]
      /\ rtsFlags \in [Device -> Flags] /\ appFlags \in [Device -> Flags]
      /\ rtsFlags[idx] = NotReady
  BY <1>1 DEF IInv, SchedTypeOK, InitFromZero
<1>3. rts' \in RTSListType /\ ListMatchesFlags'
  <2>1. idx \notin ReadyDevices
    BY <1>2 DEF ReadyDevices, NotReady
  <2>2. CASE f.pins # {}
    <3>1. rts' = rts_append(rts, idx) /\ ReadyDevices' = ReadyDevices \cup {idx}
      BY <1>1, <1>2, <2>2 DEF ReadyDevices
    <3> QED
      BY <1>1, <2>1, <3>1, AppendLists DEF IInv, SchedTypeOK, ListMatchesFlags
  <2>3. CASE f.pins = {}
    <3>1. rts' = rts /\ ReadyDevices' = ReadyDevices
      BY <1>1, <1>2, <2>1, <2>3 DEF ReadyDevices
    <3> QED
      BY <3>1 DEF IInv, SchedTypeOK, ListMatchesFlags
  <2> QED
    BY <2>2, <2>3
<1>4. SchedTypeOK'
  BY <1>1, <1>2, <1>3 DEF IInv, SchedTypeOK, InInit, Handler, Device
<1>5. ComputeIsAhead'
  <2>1. rtcChecked' = 0 /\ rtcOffset' = rtcOffset /\ rtcOffset \in Device
    BY DEF IInv, InitFromZero, SchedTypeOK
  <2>2. \A d \in Device : Distance(d)' = Distance(d) /\ Distance(d) \in 0 .. NumDevices - 1
    BY <2>1, SweptAtDistance DEF Distance
  <2> QED
    BY <2>1, <2>2 DEF ComputeIsAhead
<1>6. InitFromZero'
  BY <1>1, <1>2 DEF IInv, InitFromZero, Device
<1>7. FlagsFresh'
  BY <1>1, <1>2 DEF IInv, FlagsFresh, Device
<1>8. HardwareIdleIsQuiet'
  BY DEF HardwareIdleIsQuiet
<1> QED
  BY <1>3, <1>4, <1>5, <1>6, <1>7, <1>8 DEF IInv

(* A handler of device d that runs while the softswitch does not sweep,    *)
(* and whose caller then calls softswitch_UpdateRTS, keeps what the        *)
(* invariant says of the flags.                                            *)
LEMMA HandlerKeepsFlags ==
    ASSUME IInv, phase # "init", NEW d \in Device, NEW f \in Flags,
           rtsFlags' = [rtsFlags EXCEPT ![d] = f],
           appFlags' = [appFlags EXCEPT ![d] = f],
           rtcChecked' = IF f.rtc THEN 0 ELSE rtcChecked,
           rtcOffset' = rtcOffset, phase' = phase
    PROVE  /\ appFlags' \in [Device -> Flags]
           /\ rtcChecked' \in 0 .. NumDevices + SweepChunk - 1
           /\ ComputeIsAhead' /\ InitFromZero' /\ FlagsFresh'
<1>1. /\ rtsFlags \in [Device -> Flags] /\ appFlags \in [Device -> Flags]
      /\ rtcChecked \in 0 .. NumDevices + SweepChunk - 1 /\ rtcOffset \in Device
  BY DEF IInv, SchedTypeOK
<1>2. rtcChecked' \in 0 .. NumDevices + SweepChunk - 1
  BY <1>1
<1>3. \A e \in Device : Distance(e)' = Distance(e) /\ Distance(e) \in 0 .. NumDevices - 1
  BY <1>1, SweptAtDistance DEF Distance
<1>4. ComputeIsAhead'
  <2> SUFFICES ASSUME NEW e \in Device, rtsFlags'[e].rtc
               PROVE  Distance(e) < NumDevices - rtcChecked'
    BY <1>3 DEF ComputeIsAhead
  <2>1. CASE f.rtc
    BY <2>1, <1>3
  <2>2. CASE ~f.rtc
    BY <2>2, <1>1 DEF IInv, ComputeIsAhead
  <2> QED
    BY <2>1, <2>2
<1>5. InitFromZero' /\ FlagsFresh'
  BY <1>1 DEF InitFromZero, FlagsFresh, IInv
<1> QED
  BY <1>1, <1>2, <1>4, <1>5

LEMMA ReceiveIInv ==
    ASSUME IInv, NEW d \in Device, NEW f \in Flags, softswitch_onReceive(d, f)
    PROVE  IInv'
<1> USE DEF softswitch_onReceive, NoteActive, RunHandler
<1>1. rts' \in RTSListType /\ rtsFlags' \in [Device -> Flags] /\ ListMatchesFlags'
      /\ rtsFlags' = [rtsFlags EXCEPT ![d] = f]
  BY UpdateRTSMatches DEF IInv, SchedTypeOK, ListMatchesFlags, ReadyDevices
<1>2. rtcChecked' = IF f.rtc THEN 0 ELSE rtcChecked
  BY DEF softswitch_UpdateRTS
<1>3. /\ appFlags' \in [Device -> Flags]
      /\ rtcChecked' \in 0 .. NumDevices + SweepChunk - 1
      /\ ComputeIsAhead' /\ InitFromZero' /\ FlagsFresh'
  BY <1>1, <1>2, HandlerKeepsFlags
<1>4. SchedTypeOK'
  BY <1>1, <1>3 DEF IInv, SchedTypeOK, InReceive, Handler
<1>5. HardwareIdleIsQuiet'
  BY DEF HardwareIdleIsQuiet
<1> QED
  BY <1>1, <1>3, <1>4, <1>5 DEF IInv

LEMMA SendIInv ==
    ASSUME IInv, NEW f \in Flags, softswitch_onSend(f)
    PROVE  IInv'
<1> DEFINE d == rts.head
           flags == [rtsFlags EXCEPT ![d] = NotReady]
<1>1. rts \in RTSListType /\ Lists(rts, ReadyDevices) /\ rts.head # Null
  BY DEF IInv, SchedTypeOK, ListMatchesFlags, softswitch_onSend, softswitch_IsRTSReady
<1>2. /\ rts_pop(rts) \in RTSListType /\ d \in ReadyDevices /\ d \in Device
      /\ Lists(rts_pop(rts), ReadyDevices \ {d})
  BY <1>1, PopLists, HeadIsListed
<1>3. NotReady \in Flags /\ rtsFlags \in [Device -> Flags] /\ flags \in [Device -> Flags]
  BY DEF IInv, SchedTypeOK, NotReady, Flags
<1>4. ReadyDevices \ {d} = {e \in Device : flags[e].pins # {}}
  BY <1>2, <1>3 DEF ReadyDevices, NotReady
<1>5. softswitch_UpdateRTS(rts_pop(rts), flags, rtcChecked, d, f)
  BY DEF softswitch_onSend
<1>6. /\ rts' \in RTSListType /\ rtsFlags' \in [Device -> Flags] /\ ListMatchesFlags'
      /\ rtsFlags' = [flags EXCEPT ![d] = f]
  <2> HIDE DEF flags, d
  <2>1. Lists(rts_pop(rts), {e \in Device : flags[e].pins # {}})
    BY <1>2, <1>4
  <2> QED
    BY <1>2, <1>3, <1>5, <2>1, UpdateRTSMatches
<1>7. /\ rtsFlags' = [rtsFlags EXCEPT ![d] = f]
      /\ rtcChecked' = (IF f.rtc THEN 0 ELSE rtcChecked)
      /\ appFlags' = [appFlags EXCEPT ![d] = f]
      /\ rtcOffset' = rtcOffset /\ phase' = phase /\ phase = "run" /\ idx' = idx
      /\ currentDevice' = d /\ currentHandlerType' = InSend
      /\ active' = [kind |-> "send", dev |-> d]
  BY <1>3, <1>5, <1>6 DEF softswitch_onSend, softswitch_UpdateRTS, NoteActive, RunHandler
<1>8. /\ appFlags' \in [Device -> Flags]
      /\ rtcChecked' \in 0 .. NumDevices + SweepChunk - 1
      /\ ComputeIsAhead' /\ InitFromZero' /\ FlagsFresh'
  BY <1>2, <1>7, HandlerKeepsFlags
<1>9. SchedTypeOK'
  BY <1>2, <1>6, <1>7, <1>8 DEF IInv, SchedTypeOK, InSend, Handler
<1>10. HardwareIdleIsQuiet'
  BY <1>7 DEF HardwareIdleIsQuiet
<1> QED
  BY <1>6, <1>8, <1>9, <1>10 DEF IInv

(* Passing k devices brings the sweep k nearer to every device it did not  *)
(* pass.                                                                   *)
LEMMA SweepNears ==
    ASSUME rtcOffset \in Device, NEW k \in 0 .. NumDevices,
           NEW d \in Device, Distance(d) >= k, rtcOffset' = Swept(k)
    PROVE  Distance(d)' = Distance(d) - k
<1>1. Distance(d) \in 0 .. NumDevices - 1
  BY SweptAtDistance
<1>2. Swept(k) = IF rtcOffset + k < NumDevices
                 THEN rtcOffset + k ELSE rtcOffset + k - NumDevices
  BY SweptWraps
<1>3. Distance(d)' = IF d >= Swept(k) THEN d - Swept(k) ELSE d - Swept(k) + NumDevices
  BY DEF Distance
<1> QED
  BY <1>1, <1>2, <1>3 DEF Distance, Device

(* If none of the first k devices wants to compute, a device that does is  *)
(* not among them.                                                         *)
LEMMA SweepSpares ==
    ASSUME rtcOffset \in Device, NEW k \in Nat,
           \A j \in 0 .. k - 1 : ~rtsFlags[Swept(j)].rtc,
           NEW d \in Device, rtsFlags[d].rtc
    PROVE  Distance(d) \in 0 .. NumDevices - 1 /\ Distance(d) >= k
<1>1. Distance(d) \in 0 .. NumDevices - 1 /\ Swept(Distance(d)) = d
  BY SweptAtDistance
<1> QED
  BY <1>1

(* Passing k devices, none of which wanted to compute, leaves every device *)
(* that does want to as far ahead as the advanced offset and count say.    *)
LEMMA SweepPasses ==
    ASSUME IInv, NEW k \in 0 .. NumDevices,
           \A j \in 0 .. k - 1 : ~rtsFlags[Swept(j)].rtc,
           NEW d \in Device, rtsFlags[d].rtc,
           rtcOffset' = Swept(k)
    PROVE  Distance(d)' < NumDevices - (rtcChecked + k)
<1>1. rtcOffset \in Device /\ rtcChecked \in Nat /\ k \in Nat
  BY DEF IInv, SchedTypeOK
<1>2. Distance(d) \in 0 .. NumDevices - 1 /\ Distance(d) >= k
  BY <1>1, SweepSpares
<1>3. Distance(d) < NumDevices - rtcChecked
  BY DEF IInv, ComputeIsAhead
<1>4. Distance(d)' = Distance(d) - k
  BY <1>1, <1>2, SweepNears
<1> QED
  BY <1>1, <1>2, <1>3, <1>4

(* A sweep as long as a loop over the devices looks at every one of them. *)
LEMMA LongSweepSeesAll ==
    ASSUME IInv, NEW k \in Nat, k >= NumDevices,
           \A j \in 0 .. k - 1 : ~rtsFlags[Swept(j)].rtc
    PROVE  \A d \in Device : ~rtsFlags[d].rtc
<1> SUFFICES ASSUME NEW d \in Device PROVE ~rtsFlags[d].rtc
  OBVIOUS
<1>1. Distance(d) \in 0 .. NumDevices - 1 /\ Swept(Distance(d)) = d
  BY SweptAtDistance DEF IInv, SchedTypeOK
<1> QED
  BY <1>1

LEMMA IdleSweepIInv ==
    ASSUME IInv, IdleSweep
    PROVE  IInv'
<1> USE DEF IdleSweep
<1>1. /\ rts' = rts /\ rtsFlags' = rtsFlags /\ appFlags' = appFlags /\ phase' = phase
      /\ idx' = idx /\ active' = NoHandler /\ rtcOffset' = Swept(SweepChunk)
      /\ rtcChecked' = rtcChecked + SweepChunk /\ rtcChecked < NumDevices
      /\ rtcChecked \in Nat /\ phase = "run"
  BY DEF IInv, SchedTypeOK, NothingToCompute
<1>2. rtcOffset' \in Device
  BY <1>1, SweptInRange DEF IInv, SchedTypeOK
<1>3. NoHandler \in Handler
  BY DEF NoHandler, Handler, Device
<1>4. SchedTypeOK'
  BY <1>1, <1>2, <1>3 DEF IInv, SchedTypeOK
<1>5. ListMatchesFlags'
  BY <1>1 DEF IInv, ListMatchesFlags, ReadyDevices
<1>6. ComputeIsAhead'
  <2> SUFFICES ASSUME NEW d \in Device, rtsFlags[d].rtc
               PROVE  Distance(d)' < NumDevices - rtcChecked'
    BY <1>1 DEF ComputeIsAhead
  <2>1. SweepChunk < NumDevices
    BY LongSweepSeesAll
  <2> QED
    BY <1>1, <2>1, SweepPasses
<1>7. InitFromZero' /\ FlagsFresh' /\ HardwareIdleIsQuiet'
  BY <1>1 DEF IInv, InitFromZero, FlagsFresh, HardwareIdleIsQuiet
<1> QED
  BY <1>4, <1>5, <1>6, <1>7 DEF IInv

LEMMA IdleComputeIInv ==
    ASSUME IInv, NEW f \in Flags, NEW i \in 0 .. SweepChunk - 1, IdleComputeAt(i, f)
    PROVE  IInv'
<1> USE DEF IdleComputeAt, RunHandler
<1> DEFINE d == Swept(i)
<1>1. /\ i \in Nat /\ rtcOffset \in Device /\ rtcChecked \in Nat /\ rtcChecked < NumDevices
      /\ rtsFlags \in [Device -> Flags] /\ appFlags \in [Device -> Flags]
  BY DEF IInv, SchedTypeOK, NothingToCompute
<1>2. d \in Device /\ rtcOffset' \in Device
  BY <1>1, SweptInRange
<1>3. i < NumDevices
  BY <1>1, LongSweepSeesAll, <1>2
<1>4. rts' \in RTSListType /\ rtsFlags' \in [Device -> Flags] /\ ListMatchesFlags'
      /\ rtsFlags' = [rtsFlags EXCEPT ![d] = f]
  <2> HIDE DEF d
  <2>1. softswitch_UpdateRTS(rts, rtsFlags, rtcChecked + i + 1, d, f)
    BY DEF d
  <2>2. rts \in RTSListType /\ Lists(rts, {e \in Device : rtsFlags[e].pins # {}})
    BY DEF IInv, SchedTypeOK, ListMatchesFlags, ReadyDevices
  <2> QED
    BY <1>1, <1>2, <2>1, <2>2, UpdateRTSMatches
<1>5. rtcChecked' = IF f.rtc THEN 0 ELSE rtcChecked + i + 1
  BY DEF softswitch_UpdateRTS
<1>6. SchedTypeOK'
  BY <1>1, <1>2, <1>4, <1>5 DEF IInv, SchedTypeOK, Handler
<1>7. ComputeIsAhead'
  <2> SUFFICES ASSUME NEW e \in Device, rtsFlags'[e].rtc
               PROVE  Distance(e)' < NumDevices - rtcChecked'
    BY DEF ComputeIsAhead
  <2>1. CASE f.rtc
    <3>1. Distance(e)' \in 0 .. NumDevices - 1
      BY <1>2 DEF Distance, Device
    <3> QED
      BY <2>1, <3>1, <1>5
  <2>2. CASE ~f.rtc
    <3>1. e # d /\ rtsFlags[e].rtc
      BY <2>2, <1>1, <1>2, <1>4
    <3>2. Distance(e) \in 0 .. NumDevices - 1 /\ Swept(Distance(e)) = e
      BY <1>1, SweptAtDistance
    <3>3. Distance(e) # i /\ Distance(e) >= i
      BY <3>1, <3>2
    <3>4. i + 1 \in 0 .. NumDevices
      BY <1>1, <1>3
    <3>5. Distance(e) < NumDevices - rtcChecked
      BY <3>1 DEF IInv, ComputeIsAhead
    <3>8. Distance(e)' = Distance(e) - (i + 1)
      BY <1>1, <3>2, <3>3, <3>4, SweepNears
    <3> QED
      BY <1>1, <1>5, <2>2, <3>2, <3>5, <3>8
  <2> QED
    BY <2>1, <2>2
<1>8. InitFromZero' /\ FlagsFresh' /\ HardwareIdleIsQuiet'
  BY <1>1, <1>4 DEF IInv, InitFromZero, FlagsFresh, HardwareIdleIsQuiet
<1> QED
  BY <1>4, <1>6, <1>7, <1>8 DEF IInv

LEMMA HardwareIdleIInv ==
    ASSUME IInv, HardwareIdle
    PROVE  IInv'
<1> USE DEF HardwareIdle, HardwareIdleBegin, softswitch_IsRTSReady
<1>1. /\ rts \in RTSListType /\ Lists(rts, ReadyDevices) /\ rts.head = Null
      /\ rtsFlags \in [Device -> Flags] /\ rtcChecked \in Nat
      /\ rtcOffset \in Device /\ rtcChecked >= NumDevices
  BY DEF IInv, SchedTypeOK, ListMatchesFlags, NothingToCompute
<1>2. ReadyDevices = {}
  BY <1>1, HeadIsListed
<1>3. \A d \in Device : ~rtsFlags[d].rtc
  BY <1>1, SweptAtDistance DEF IInv, ComputeIsAhead
<1>4. \A d \in Device : rtsFlags[d] = NotReady
  <2> SUFFICES ASSUME NEW d \in Device PROVE rtsFlags[d] = NotReady
    OBVIOUS
  <2>1. rtsFlags[d] \in Flags /\ rtsFlags[d].pins = {} /\ rtsFlags[d].rtc = FALSE
    BY <1>1, <1>2, <1>3 DEF ReadyDevices, Flags
  <2> QED
    BY <2>1 DEF NotReady, Flags
<1>5. rts' \in RTSListType /\ Lists(rts', {})
  BY <1>1, ClearedListsNothing
<1>6. ListMatchesFlags'
  BY <1>2, <1>5 DEF ListMatchesFlags, ReadyDevices
<1>7. NoHandler \in Handler
  BY DEF NoHandler, Handler, Device
<1>8. SchedTypeOK'
  BY <1>5, <1>7 DEF IInv, SchedTypeOK
<1>9. ComputeIsAhead' /\ InitFromZero' /\ HardwareIdleIsQuiet'
  BY <1>3, <1>4 DEF ComputeIsAhead, InitFromZero, HardwareIdleIsQuiet
<1>10. FlagsFresh'
  BY DEF IInv, FlagsFresh
<1> QED
  BY <1>6, <1>8, <1>9, <1>10 DEF IInv

LEMMA HardwareIdleDeviceIInv ==
    ASSUME IInv, NEW f \in Flags, HardwareIdleDevice(f)
    PROVE  IInv'
<1>1. /\ idx \in Device /\ phase = "hwidle" /\ phase' = phase /\ idx' = idx + 1
      /\ rtcOffset' = rtcOffset
      /\ rtsFlags \in [Device -> Flags] /\ rts \in RTSListType
      /\ Lists(rts, {e \in Device : rtsFlags[e].pins # {}})
  BY DEF IInv, SchedTypeOK, HardwareIdleDevice, Device, ListMatchesFlags, ReadyDevices
<1>2. CASE idx \in HasIdleHandler
  <2>1. /\ NoteActive(idx, InHardwareIdle) /\ RunHandler("hwidle", idx, f)
        /\ softswitch_UpdateRTS(rts, rtsFlags, rtcChecked, idx, f)
    BY <1>2 DEF HardwareIdleDevice
  <2>2. rts' \in RTSListType /\ rtsFlags' \in [Device -> Flags] /\ ListMatchesFlags'
        /\ rtsFlags' = [rtsFlags EXCEPT ![idx] = f]
    BY <1>1, <2>1, UpdateRTSMatches
  <2>3. rtcChecked' = (IF f.rtc THEN 0 ELSE rtcChecked)
        /\ appFlags' = [appFlags EXCEPT ![idx] = f]
    BY <2>1 DEF softswitch_UpdateRTS, RunHandler
  <2>4. /\ appFlags' \in [Device -> Flags]
        /\ rtcChecked' \in 0 .. NumDevices + SweepChunk - 1
        /\ ComputeIsAhead' /\ InitFromZero' /\ FlagsFresh'
    BY <1>1, <2>2, <2>3, HandlerKeepsFlags
  <2>5. SchedTypeOK'
    BY <1>1, <2>1, <2>2, <2>4
       DEF IInv, SchedTypeOK, NoteActive, RunHandler, InHardwareIdle, Handler, Device
  <2>6. HardwareIdleIsQuiet'
    BY <1>1, <2>2 DEF IInv, HardwareIdleIsQuiet, Device
  <2> QED
    BY <2>2, <2>4, <2>5, <2>6 DEF IInv
<1>3. CASE idx \notin HasIdleHandler
  <2>1. /\ active' = NoHandler
        /\ UNCHANGED <<rts, rtsFlags, appFlags, rtcChecked, currentDevice,
                       currentHandlerType>>
    BY <1>3 DEF HardwareIdleDevice
  <2>2. NoHandler \in Handler
    BY DEF NoHandler, Handler, Device
  <2>3. SchedTypeOK'
    BY <1>1, <2>1, <2>2 DEF IInv, SchedTypeOK, Device
  <2>4. ListMatchesFlags' /\ ComputeIsAhead'
    BY <1>1, <2>1 DEF IInv, ListMatchesFlags, ReadyDevices, ComputeIsAhead, Distance
  <2>5. InitFromZero' /\ FlagsFresh' /\ HardwareIdleIsQuiet'
    BY <1>1, <2>1 DEF IInv, InitFromZero, FlagsFresh, HardwareIdleIsQuiet, Device
  <2> QED
    BY <2>3, <2>4, <2>5 DEF IInv
<1> QED
  BY <1>2, <1>3

LEMMA HardwareIdleEndIInv ==
    ASSUME IInv, HardwareIdleEnd
    PROVE  IInv'
<1>1. NoHandler \in Handler
  BY DEF NoHandler, Handler, Device
<1>2. SchedTypeOK'
  BY <1>1 DEF IInv, SchedTypeOK, HardwareIdleEnd, InNoHandler
<1>3. ListMatchesFlags' /\ ComputeIsAhead'
  BY DEF IInv, HardwareIdleEnd, ListMatchesFlags, ReadyDevices, ComputeIsAhead, Distance
<1>4. InitFromZero' /\ FlagsFresh' /\ HardwareIdleIsQuiet'
  BY DEF IInv, HardwareIdleEnd, InitFromZero, FlagsFresh, HardwareIdleIsQuiet
<1> QED
  BY <1>2, <1>3, <1>4 DEF IInv

-----------------------------------------------------------------------------
(* Every step of the scheduler keeps the inductive invariant. *)
LEMMA NextIInv == IInv /\ [SchedNext]_schedVars => IInv'
<1> SUFFICES ASSUME IInv, [SchedNext]_schedVars PROVE IInv'
  OBVIOUS
<1>1. CASE Loop
  BY <1>1, InitDeviceIInv, HardwareIdleDeviceIInv, HardwareIdleEndIInv DEF Loop
<1>2. CASE Send
  BY <1>2, SendIInv DEF Send
<1>3. CASE Idle
  BY <1>3, IdleSweepIInv, IdleComputeIInv DEF Idle, IdleCompute
<1>4. CASE HardwareIdle
  BY <1>4, HardwareIdleIInv
<1>5. CASE \E d \in Device, f \in Flags : softswitch_onReceive(d, f)
  BY <1>5, ReceiveIInv
<1>6. CASE UNCHANGED schedVars
  <2>1. SchedTypeOK'
    BY <1>6 DEF IInv, SchedTypeOK, schedVars
  <2>2. ListMatchesFlags' /\ ComputeIsAhead'
    BY <1>6 DEF IInv, ListMatchesFlags, ReadyDevices, ComputeIsAhead, Distance, schedVars
  <2>3. InitFromZero' /\ FlagsFresh' /\ HardwareIdleIsQuiet'
    BY <1>6 DEF IInv, InitFromZero, FlagsFresh, HardwareIdleIsQuiet, schedVars
  <2> QED
    BY <2>1, <2>2, <2>3 DEF IInv
<1> QED
  BY <1>1, <1>2, <1>3, <1>4, <1>5, <1>6 DEF SchedNext

(* The inductive invariant holds of every behaviour. *)
THEOREM SchedulerInvariant == SchedSpec => []IInv
<1>1. SchedInit => IInv
  BY InitIInv
<1>2. IInv /\ [SchedNext]_schedVars => IInv'
  BY NextIInv
<1> QED
  BY <1>1, <1>2, PTL DEF SchedSpec

(* The scheduler's state has its type: indices and counters stay in range. *)
THEOREM TypeCorrect == SchedSpec => []SchedTypeOK
<1>1. IInv => SchedTypeOK
  BY DEF IInv
<1> QED
  BY <1>1, SchedulerInvariant, PTL

(* The RTS list always links exactly the devices whose flags word has a    *)
(* ready pin, each once, with all pointers right.                          *)
THEOREM ListCorrect == SchedSpec => []ListMatchesFlags
<1>1. IInv => ListMatchesFlags
  BY DEF IInv
<1> QED
  BY <1>1, SchedulerInvariant, PTL

(* When softswitch_onIdle gives up, no device wants to compute. *)
THEOREM ComputeCorrect == SchedSpec => []NoComputeMissed
<1>1. IInv => NoComputeMissed
  BY SweptAtDistance DEF IInv, SchedTypeOK, ComputeIsAhead, NoComputeMissed, NothingToCompute
<1> QED
  BY <1>1, SchedulerInvariant, PTL

(* The cached flags words are what the readyToSend handlers would return. *)
THEOREM FlagsCorrect == SchedSpec => []FlagsFresh
<1>1. IInv => FlagsFresh
  BY DEF IInv
<1> QED
  BY <1>1, SchedulerInvariant, PTL

(* The hardware idle handlers run only over devices that are quiet. *)
THEOREM HardwareIdleCorrect == SchedSpec => []HardwareIdleIsQuiet
<1>1. IInv => HardwareIdleIsQuiet
  BY DEF IInv
<1> QED
  BY <1>1, SchedulerInvariant, PTL

-----------------------------------------------------------------------------
(* The devices that these flags words say want to send. *)
ReadyIn(flags) == {e \in Device : flags[e].pins # {}}

(* Sequence v is w without an element d. *)
TakenOut(v, w, d) ==
    \E k \in 1 .. Len(w) :
        w[k] = d /\ v = SubSeq(w, 1, k - 1) \o SubSeq(w, k + 1, Len(w))

(* What softswitch_UpdateRTS does to the walk of the list: the device joins *)
(* at the end, is taken out, or keeps its place.                            *)
LEMMA UpdateRTSWalks ==
    ASSUME NEW L \in RTSListType, NEW flags \in [Device -> Flags], NEW checked,
           Lists(L, ReadyIn(flags)),
           NEW d \in Device, NEW f \in Flags,
           softswitch_UpdateRTS(L, flags, checked, d, f)
    PROVE  \/ (flags[d].pins # {} <=> f.pins # {}) /\ Walk(rts') = Walk(L)
           \/ /\ flags[d].pins = {} /\ f.pins # {}
              /\ Walk(rts') = Append(Walk(L), d)
           \/ /\ flags[d].pins # {} /\ f.pins = {}
              /\ TakenOut(Walk(rts'), Walk(L), d)
<1>1. rts' = Relinked(L, d, flags[d].pins # {}, f.pins # {})
  BY DEF softswitch_UpdateRTS
<1>2. CASE (flags[d].pins # {} <=> f.pins # {})
  BY <1>1, <1>2 DEF Relinked
<1>3. CASE flags[d].pins = {} /\ f.pins # {}
  <2>1. rts' = rts_append(L, d) /\ d \notin ReadyIn(flags)
    BY <1>1, <1>3 DEF Relinked, ReadyIn
  <2>2. Walk(rts') = Append(Walk(L), d)
    BY <2>1, WalkAppend
  <2> QED
    BY <1>3, <2>2
<1>4. CASE flags[d].pins # {} /\ f.pins = {}
  <2>1. rts' = rts_remove(L, d) /\ d \in ReadyIn(flags)
    BY <1>1, <1>4 DEF Relinked, ReadyIn
  <2>2. TakenOut(Walk(rts'), Walk(L), d)
    BY <2>1, WalkRemove DEF TakenOut
  <2> QED
    BY <1>4, <2>2
<1> QED
  BY <1>2, <1>3, <1>4

(* The devices in the queue are those that want to send. *)
LEMMA WaitingIsReady == IInv => RQ!Waiting = ReadyDevices
<1> SUFFICES ASSUME IInv PROVE RQ!Waiting = ReadyDevices
  OBVIOUS
<1>1. Lists(rts, ReadyDevices)
  BY DEF IInv, ListMatchesFlags
<1>2. PICK n \in 0 .. NumDevices : \E q \in [1 .. n -> Device] :
         /\ Links(rts, n, q) /\ ReadyDevices = {q[i] : i \in 1 .. n}
         /\ Walk(rts) = q /\ q \in Seq(Device) /\ Len(q) = n
  BY <1>1, WalkLists
<1>3. PICK q \in [1 .. n -> Device] :
         ReadyDevices = {q[i] : i \in 1 .. n} /\ Walk(rts) = q
  BY <1>2
<1> QED
  BY <1>3 DEF RQ!Waiting, RQ!ToSet

(* A handler of device d ran with the list as it was: the device joins the *)
(* queue, withdraws from it or stays as it is.                             *)
LEMMA UpdateRTSRefines ==
    ASSUME IInv, NEW checked, NEW d \in Device, NEW f \in Flags,
           softswitch_UpdateRTS(rts, rtsFlags, checked, d, f)
    PROVE  [RQ!Next]_(Walk(rts))
<1>1. rts \in RTSListType /\ rtsFlags \in [Device -> Flags] /\ Lists(rts, ReadyDevices)
  BY DEF IInv, SchedTypeOK, ListMatchesFlags
<1>2. \/ (rtsFlags[d].pins # {} <=> f.pins # {}) /\ Walk(rts') = Walk(rts)
      \/ /\ rtsFlags[d].pins = {} /\ f.pins # {}
         /\ Walk(rts') = Append(Walk(rts), d)
      \/ /\ rtsFlags[d].pins # {} /\ f.pins = {}
         /\ TakenOut(Walk(rts'), Walk(rts), d)
  <2>1. ReadyIn(rtsFlags) = ReadyDevices
    BY DEF ReadyDevices, ReadyIn
  <2> QED
    BY <1>1, <2>1, UpdateRTSWalks
<1>3. CASE Walk(rts') = Walk(rts)
  BY <1>3
<1>4. CASE rtsFlags[d].pins = {} /\ Walk(rts') = Append(Walk(rts), d)
  <2>1. d \notin RQ!Waiting
    BY <1>4, WaitingIsReady DEF ReadyDevices
  <2>2. RQ!Join(d)
    BY <1>4, <2>1 DEF RQ!Join
  <2> QED
    BY <2>2 DEF RQ!Next
<1>5. CASE TakenOut(Walk(rts'), Walk(rts), d)
  <2>1. RQ!Withdraw(d)
    BY <1>5 DEF TakenOut, RQ!Withdraw, RQ!RemoveAt
  <2> QED
    BY <2>1 DEF RQ!Next
<1> QED
  BY <1>2, <1>3, <1>4, <1>5

(* The front device sends, and goes to the back if it still wants to.      *)
LEMMA SendRefines ==
    ASSUME IInv, NEW f \in Flags, softswitch_onSend(f)
    PROVE  RQ!Serve
<1>1. /\ rts \in RTSListType /\ rtsFlags \in [Device -> Flags]
      /\ Lists(rts, ReadyDevices) /\ rts.head # Null
  BY DEF IInv, SchedTypeOK, ListMatchesFlags, softswitch_onSend, softswitch_IsRTSReady
<1>2. rts.head \in Device
  BY <1>1, HeadIsListed
<1>3. NotReady \in Flags /\ NotReady.pins = {}
  BY DEF NotReady, Flags
<1>4. PICK d \in Device, L \in RTSListType, flags \in [Device -> Flags] :
         /\ d = rts.head /\ L = rts_pop(rts)
         /\ flags = [rtsFlags EXCEPT ![d] = NotReady]
  <2>1. /\ rts_pop(rts) \in RTSListType
        /\ [rtsFlags EXCEPT ![rts.head] = NotReady] \in [Device -> Flags]
    BY <1>1, <1>2, <1>3, PopLists
  <2> QED
    BY <1>2, <2>1
<1>5. flags[d].pins = {} /\ ReadyIn(flags) = ReadyDevices \ {d}
  BY <1>1, <1>3, <1>4 DEF ReadyDevices, ReadyIn
<1>6. Lists(L, ReadyIn(flags))
  BY <1>1, <1>4, <1>5, PopLists
<1>7. softswitch_UpdateRTS(L, flags, rtcChecked, d, f)
  BY <1>4 DEF softswitch_onSend
<1>8. \/ Walk(rts') = Walk(L)
      \/ Walk(rts') = Append(Walk(L), d)
  <2>1. rts' = Relinked(L, d, FALSE, f.pins # {})
    BY <1>5, <1>7 DEF softswitch_UpdateRTS
  <2>2. CASE f.pins = {}
    BY <2>1, <2>2 DEF Relinked
  <2>3. CASE f.pins # {}
    <3>1. rts' = rts_append(L, d) /\ d \notin ReadyIn(flags)
      BY <1>5, <2>1, <2>3 DEF Relinked
    <3> QED
      BY <1>6, <3>1, WalkAppend
  <2> QED
    BY <2>2, <2>3
<1>9. /\ Walk(rts) # <<>> /\ Walk(rts) \in Seq(Device)
      /\ Head(Walk(rts)) = d /\ Walk(L) = Tail(Walk(rts))
  BY <1>1, <1>4, WalkPop
<1> QED
  BY <1>8, <1>9 DEF RQ!Serve

(* Every step of the scheduler is one of the queue, or leaves it as it is. *)
LEMMA NextRefines == IInv /\ [SchedNext]_schedVars => [RQ!Next]_(Walk(rts))
<1> SUFFICES ASSUME IInv, [SchedNext]_schedVars PROVE [RQ!Next]_(Walk(rts))
  OBVIOUS
<1>1. ASSUME NEW f \in Flags, InitDevice(f) PROVE [RQ!Next]_(Walk(rts))
  <2>1. phase = "init" /\ idx \in Device /\ rtsFlags[idx] = NotReady
    BY <1>1 DEF InitDevice, IInv, SchedTypeOK, InitFromZero, Device
  <2>2. idx \notin ReadyDevices
    BY <2>1 DEF ReadyDevices, NotReady
  <2>3. rts \in RTSListType /\ Lists(rts, ReadyDevices)
    BY DEF IInv, SchedTypeOK, ListMatchesFlags
  <2>4. CASE f.pins = {}
    BY <1>1, <2>4 DEF InitDevice
  <2>5. CASE f.pins # {}
    <3>1. Walk(rts') = Append(Walk(rts), idx)
      BY <1>1, <2>1, <2>2, <2>3, <2>5, WalkAppend DEF InitDevice
    <3>2. RQ!Join(idx)
      BY <2>2, <3>1, WaitingIsReady DEF RQ!Join
    <3> QED
      BY <2>1, <3>2 DEF RQ!Next
  <2> QED
    BY <2>4, <2>5
<1>2. ASSUME NEW f \in Flags, HardwareIdleDevice(f) PROVE [RQ!Next]_(Walk(rts))
  <2>1. idx \in Device
    BY <1>2 DEF HardwareIdleDevice, IInv, SchedTypeOK, Device
  <2>2. CASE idx \in HasIdleHandler
    BY <1>2, <2>1, <2>2, UpdateRTSRefines DEF HardwareIdleDevice
  <2>3. CASE idx \notin HasIdleHandler
    BY <1>2, <2>3 DEF HardwareIdleDevice
  <2> QED
    BY <2>2, <2>3
<1>3. CASE HardwareIdleEnd
  BY <1>3 DEF HardwareIdleEnd
<1>4. ASSUME NEW f \in Flags, softswitch_onSend(f) PROVE [RQ!Next]_(Walk(rts))
  BY <1>4, SendRefines DEF RQ!Next
<1>5. ASSUME NEW f \in Flags, NEW i \in 0 .. SweepChunk - 1, IdleComputeAt(i, f)
      PROVE  [RQ!Next]_(Walk(rts))
  <2>1. Swept(i) \in Device
    BY SweptInRange DEF IInv, SchedTypeOK
  <2> QED
    BY <1>5, <2>1, UpdateRTSRefines DEF IdleComputeAt
<1>6. CASE IdleSweep
  BY <1>6 DEF IdleSweep
<1>7. CASE HardwareIdle
  <2>1. /\ rts.head = Null /\ rts \in RTSListType /\ Lists(rts, ReadyDevices)
        /\ rts' = ClearedList(rts)
    BY <1>7 DEF HardwareIdle, HardwareIdleBegin, softswitch_IsRTSReady, IInv, SchedTypeOK,
       ListMatchesFlags
  <2>2. Lists(ClearedList(rts), {}) /\ ClearedList(rts).head = Null
    BY <2>1, ClearedListsNothing DEF ClearedList
  <2>3. Walk(rts) = <<>> /\ Walk(rts') = <<>>
    BY <2>1, <2>2, WalkEmpty
  <2> QED
    BY <2>3
<1>8. ASSUME NEW d \in Device, NEW f \in Flags, softswitch_onReceive(d, f)
      PROVE  [RQ!Next]_(Walk(rts))
  BY <1>8, UpdateRTSRefines DEF softswitch_onReceive
<1>9. CASE UNCHANGED schedVars
  BY <1>9 DEF schedVars
<1> QED
  BY <1>1, <1>2, <1>3, <1>4, <1>5, <1>6, <1>7, <1>8, <1>9
  DEF SchedNext, Loop, Send, Idle, IdleCompute

(* The list of softswitch_rts.cpp is a first-in first-out queue: a device  *)
(* joins at the back, waits there once, and is served from the front or    *)
(* withdraws, for any number of devices.                                   *)
THEOREM ListIsQueue == SchedSpec => ImplementsReadyQueue
<1>1. SchedInit => RQ!Init
  <2> SUFFICES ASSUME SchedInit PROVE Walk(rts) = <<>>
    BY DEF RQ!Init
  <2>1. rts.head = Null /\ Lists(rts, ReadyDevices)
    BY InitIInv DEF SchedInit, InitialList, IInv, ListMatchesFlags
  <2> QED
    BY <2>1, WalkEmpty
<1> QED
  BY <1>1, NextRefines, SchedulerInvariant, PTL DEF SchedSpec, ImplementsReadyQueue, RQ!Spec

-----------------------------------------------------------------------------
(* What ComputesInTurn says of the step. *)
ComputeTurn(d) ==
    \/ active' = [kind |-> "compute", dev |-> d]
    \/ Distance(d)' < Distance(d)
    \/ ~Idle /\ Distance(d)' = Distance(d)

(* A sweep that does not run the device comes nearer to it. *)
LEMMA IdleTakesTurns ==
    ASSUME IInv, Idle, NEW d \in Device, rtsFlags[d].rtc
    PROVE  ComputeTurn(d)
<1>1. rtcOffset \in Device /\ rtsFlags \in [Device -> Flags]
  BY DEF IInv, SchedTypeOK
<1>2. CASE IdleSweep
  <2>1. \A j \in 0 .. SweepChunk - 1 : ~rtsFlags[Swept(j)].rtc
    BY <1>2 DEF IdleSweep
  <2>2. Distance(d) \in 0 .. NumDevices - 1 /\ Distance(d) >= SweepChunk
    BY <1>1, <2>1, SweepSpares
  <2>3. SweepChunk \in 0 .. NumDevices /\ rtcOffset' = Swept(SweepChunk)
    BY <1>2, <2>2 DEF IdleSweep
  <2>4. Distance(d)' = Distance(d) - SweepChunk
    BY <1>1, <2>2, <2>3, SweepNears
  <2> QED
    BY <2>2, <2>4 DEF ComputeTurn
<1>3. ASSUME NEW f \in Flags, NEW i \in 0 .. SweepChunk - 1, IdleComputeAt(i, f)
      PROVE  ComputeTurn(d)
  <2>1. CASE d = Swept(i)
    BY <1>3, <2>1 DEF IdleComputeAt, RunHandler, ComputeTurn
  <2>2. CASE d # Swept(i)
    <3>1. /\ i \in Nat /\ rtcOffset' = Swept(i + 1)
          /\ \A j \in 0 .. i - 1 : ~rtsFlags[Swept(j)].rtc
      BY <1>3 DEF IdleComputeAt
    <3>2. Distance(d) \in 0 .. NumDevices - 1 /\ Distance(d) >= i
      BY <1>1, <3>1, SweepSpares
    <3>3. Distance(d) # i
      BY <1>1, <2>2, SweptAtDistance
    <3>4. i + 1 \in 0 .. NumDevices /\ Distance(d) >= i + 1
      BY <3>1, <3>2, <3>3
    <3>5. Distance(d)' = Distance(d) - (i + 1)
      BY <1>1, <3>1, <3>4, SweepNears
    <3> QED
      BY <3>1, <3>2, <3>5 DEF ComputeTurn
  <2> QED
    BY <2>1, <2>2
<1> QED
  BY <1>2, <1>3 DEF Idle, IdleCompute

(* No other step moves the sweep. *)
LEMMA OthersKeepSweep ==
    ASSUME SchedNext, ~Idle, NEW d \in Device
    PROVE  Distance(d)' = Distance(d)
<1>1. rtcOffset' = rtcOffset
  BY DEF SchedNext, Loop, InitDevice, HardwareIdleDevice, HardwareIdleEnd, Send,
     softswitch_onSend, HardwareIdle, HardwareIdleBegin, softswitch_onReceive
<1> QED
  BY <1>1 DEF Distance

(* The sweep gives every device that wants to compute its turn: each call  *)
(* of softswitch_onIdle brings it nearer, by at least a device, so that    *)
(* after fewer than NumDevices calls its compute handler is called.        *)
THEOREM SweepIsFair == SchedSpec => ComputesInTurn
<1>1. IInv /\ [SchedNext]_schedVars
         => [\A d \in Device : rtsFlags[d].rtc =>
                \/ active' = [kind |-> "compute", dev |-> d]
                \/ Distance(d)' < Distance(d)
                \/ ~Idle /\ Distance(d)' = Distance(d)]_schedVars
  <2> SUFFICES ASSUME IInv, SchedNext, NEW d \in Device, rtsFlags[d].rtc
               PROVE  ComputeTurn(d)
    BY DEF ComputeTurn
  <2> QED
    BY IdleTakesTurns, OthersKeepSweep DEF ComputeTurn
<1> QED
  BY <1>1, SchedulerInvariant, PTL DEF SchedSpec, ComputesInTurn

-----------------------------------------------------------------------------
(* Element i of sequence w is in v at the same place or the one before. *)
MovesUp(v, w, i) == \E j \in {i - 1, i} : j \in 1 .. Len(v) /\ v[j] = w[i]

LEMMA AppendMovesNone ==
    ASSUME NEW w \in Seq(Device), NEW d \in Device, NEW i \in 1 .. Len(w)
    PROVE  MovesUp(Append(w, d), w, i)
BY AppendProperties DEF MovesUp

LEMMA TakenOutMovesUp ==
    ASSUME NEW w \in Seq(Device), NEW v, NEW d, TakenOut(v, w, d), NEW i \in 1 .. Len(w)
    PROVE  w[i] = d \/ MovesUp(v, w, i)
<1>1. PICK k \in 1 .. Len(w) :
         w[k] = d /\ Without(v, w, k)
  BY DEF TakenOut, Without
<1>2. Len(w) \in Nat
  BY LenProperties
<1>3. /\ Len(v) = Len(w) - 1
      /\ \A j \in 1 .. Len(w) - 1 : v[j] = IF j < k THEN w[j] ELSE w[j + 1]
  BY <1>1, WithoutElement
<1>4. CASE i < k
  BY <1>2, <1>3, <1>4 DEF MovesUp
<1>5. CASE i = k
  BY <1>1, <1>5
<1>6. CASE i > k
  <2>1. i - 1 \in 1 .. Len(v) /\ i - 1 \in 1 .. Len(w) - 1 /\ ~(i - 1 < k)
        /\ (i - 1) + 1 = i
    BY <1>2, <1>3, <1>6
  <2>2. v[i - 1] = w[(i - 1) + 1]
    BY <1>3, <2>1
  <2>3. v[i - 1] = w[i]
    BY <2>1, <2>2, Zenon
  <2> QED
    BY <2>1, <2>3 DEF MovesUp
<1> QED
  BY <1>2, <1>4, <1>5, <1>6

(* What SendsInTurn says of the step. *)
SendTurn(i) ==
    \/ Walk(rts)[i] \notin ReadyDevices'
    \/ Send /\ i = 1
    \/ \E j \in {i - 1, i} :
          /\ j \in 1 .. Len(Walk(rts')) /\ Walk(rts')[j] = Walk(rts)[i]
          /\ (Send => j = i - 1)

(* The walk is a sequence of devices. *)
LEMMA WalkIsSeq == IInv => Walk(rts) \in Seq(Device)
<1> SUFFICES ASSUME IInv PROVE Walk(rts) \in Seq(Device)
  OBVIOUS
<1>1. Lists(rts, ReadyDevices)
  BY DEF IInv, ListMatchesFlags
<1>2. PICK n \in 0 .. NumDevices : \E q \in [1 .. n -> Device] :
         Walk(rts) = q /\ q \in Seq(Device)
  BY <1>1, WalkLists
<1> QED
  BY <1>2

(* A step that is no send and leaves the walk as it is. *)
LEMMA SameWalkTurn ==
    ASSUME IInv, ~Send, Walk(rts') = Walk(rts), NEW i \in 1 .. Len(Walk(rts))
    PROVE  SendTurn(i)
BY DEF SendTurn

(* A handler ran with the list as it was, and was no send. *)
LEMMA UpdateRTSTurn ==
    ASSUME IInv, ~Send, NEW checked, NEW d \in Device, NEW f \in Flags,
           softswitch_UpdateRTS(rts, rtsFlags, checked, d, f),
           NEW i \in 1 .. Len(Walk(rts))
    PROVE  SendTurn(i)
<1>1. /\ rts \in RTSListType /\ rtsFlags \in [Device -> Flags] /\ Lists(rts, ReadyDevices)
      /\ ReadyIn(rtsFlags) = ReadyDevices
  BY DEF IInv, SchedTypeOK, ListMatchesFlags, ReadyDevices, ReadyIn
<1>2. \/ (rtsFlags[d].pins # {} <=> f.pins # {}) /\ Walk(rts') = Walk(rts)
      \/ /\ rtsFlags[d].pins = {} /\ f.pins # {}
         /\ Walk(rts') = Append(Walk(rts), d)
      \/ /\ rtsFlags[d].pins # {} /\ f.pins = {}
         /\ TakenOut(Walk(rts'), Walk(rts), d)
  BY <1>1, UpdateRTSWalks
<1>3. Walk(rts) \in Seq(Device)
  BY WalkIsSeq
<1>4. CASE Walk(rts') = Walk(rts)
  BY <1>4, SameWalkTurn
<1>5. CASE Walk(rts') = Append(Walk(rts), d)
  <2>1. MovesUp(Walk(rts'), Walk(rts), i)
    BY <1>3, <1>5, AppendMovesNone
  <2> QED
    BY <2>1 DEF MovesUp, SendTurn
<1>6. CASE f.pins = {} /\ TakenOut(Walk(rts'), Walk(rts), d)
  <2>1. rtsFlags' = [rtsFlags EXCEPT ![d] = f]
    BY DEF softswitch_UpdateRTS
  <2>2. d \notin ReadyDevices'
    BY <1>1, <1>6, <2>1 DEF ReadyDevices
  <2>3. Walk(rts)[i] = d \/ MovesUp(Walk(rts'), Walk(rts), i)
    BY <1>3, <1>6, TakenOutMovesUp
  <2> QED
    BY <2>2, <2>3 DEF MovesUp, SendTurn
<1> QED
  BY <1>2, <1>4, <1>5, <1>6

(* A send moves every device but the front one up a place. *)
LEMMA SendMovesUp ==
    ASSUME IInv, NEW f \in Flags, softswitch_onSend(f), NEW i \in 1 .. Len(Walk(rts))
    PROVE  SendTurn(i)
<1>1. PICK w, v : w \in Seq(Device) /\ w = Walk(rts) /\ v = Walk(rts')
  BY WalkIsSeq
<1>2. /\ w # <<>>
      /\ v = Tail(w) \/ v = Append(Tail(w), Head(w))
  BY <1>1, SendRefines DEF RQ!Serve
<1>3. Send
  BY DEF Send
<1>4. CASE i = 1
  BY <1>3, <1>4 DEF SendTurn
<1>5. CASE i # 1
  <2>1. /\ Tail(w) \in Seq(Device) /\ Head(w) \in Device /\ Len(Tail(w)) = Len(w) - 1
        /\ Len(w) \in Nat /\ \A j \in 1 .. Len(Tail(w)) : Tail(w)[j] = w[j + 1]
    BY <1>1, <1>2, HeadTailProperties, LenProperties
  <2>2. i - 1 \in 1 .. Len(Tail(w)) /\ Tail(w)[i - 1] = w[i]
    BY <1>1, <1>5, <2>1
  <2>3. i - 1 \in 1 .. Len(v) /\ v[i - 1] = w[i]
    <3>1. CASE v = Tail(w)
      BY <2>2, <3>1
    <3>2. CASE v = Append(Tail(w), Head(w))
      BY <2>1, <2>2, <3>2, AppendProperties
    <3> QED
      BY <1>2, <3>1, <3>2
  <2> QED
    BY <1>1, <2>3 DEF SendTurn
<1> QED
  BY <1>4, <1>5

(* Every step keeps the turns. *)
LEMMA NextKeepsTurns ==
    ASSUME IInv, SchedNext, NEW i \in 1 .. Len(Walk(rts))
    PROVE  SendTurn(i)
<1>1. CASE Send
  BY <1>1, SendMovesUp DEF Send
<1>2. CASE ~Send
  <2>1. ASSUME NEW f \in Flags, InitDevice(f) PROVE SendTurn(i)
    <3>1. phase = "init" /\ idx \in Device /\ rtsFlags[idx] = NotReady
      BY <2>1 DEF InitDevice, IInv, SchedTypeOK, InitFromZero, Device
    <3>2. /\ idx \notin ReadyDevices
          /\ rts \in RTSListType /\ Lists(rts, ReadyDevices) /\ Walk(rts) \in Seq(Device)
      BY <3>1, WalkIsSeq DEF ReadyDevices, NotReady, IInv, SchedTypeOK, ListMatchesFlags
    <3>3. CASE f.pins = {}
      BY <1>2, <2>1, <3>3, SameWalkTurn DEF InitDevice
    <3>4. CASE f.pins # {}
      <4>1. Walk(rts') = Append(Walk(rts), idx)
        BY <2>1, <3>1, <3>2, <3>4, WalkAppend DEF InitDevice
      <4>2. MovesUp(Walk(rts'), Walk(rts), i)
        BY <3>1, <3>2, <4>1, AppendMovesNone
      <4> QED
        BY <1>2, <4>2 DEF MovesUp, SendTurn
    <3> QED
      BY <3>3, <3>4
  <2>2. ASSUME NEW f \in Flags, HardwareIdleDevice(f) PROVE SendTurn(i)
    <3>1. idx \in Device
      BY <2>2 DEF HardwareIdleDevice, IInv, SchedTypeOK, Device
    <3>2. CASE idx \in HasIdleHandler
      BY <1>2, <2>2, <3>1, <3>2, UpdateRTSTurn DEF HardwareIdleDevice
    <3>3. CASE idx \notin HasIdleHandler
      BY <1>2, <2>2, <3>3, SameWalkTurn DEF HardwareIdleDevice
    <3> QED
      BY <3>2, <3>3
  <2>3. CASE HardwareIdleEnd
    BY <1>2, <2>3, SameWalkTurn DEF HardwareIdleEnd
  <2>4. ASSUME NEW f \in Flags, NEW k \in 0 .. SweepChunk - 1, IdleComputeAt(k, f)
        PROVE  SendTurn(i)
    <3>1. Swept(k) \in Device
      BY SweptInRange DEF IInv, SchedTypeOK
    <3> QED
      BY <1>2, <2>4, <3>1, UpdateRTSTurn DEF IdleComputeAt
  <2>5. CASE IdleSweep
    BY <1>2, <2>5, SameWalkTurn DEF IdleSweep
  <2>6. CASE HardwareIdle
    <3>1. rts.head = Null /\ Lists(rts, ReadyDevices)
      BY <2>6 DEF HardwareIdle, softswitch_IsRTSReady, IInv, ListMatchesFlags
    <3>2. Walk(rts) = <<>>
      BY <3>1, WalkEmpty
    <3> QED
      BY <3>2
  <2>7. ASSUME NEW d \in Device, NEW f \in Flags, softswitch_onReceive(d, f)
        PROVE  SendTurn(i)
    BY <1>2, <2>7, UpdateRTSTurn DEF softswitch_onReceive
  <2> QED
    BY <1>2, <2>1, <2>2, <2>3, <2>4, <2>5, <2>6, <2>7
    DEF SchedNext, Loop, Idle, IdleCompute
<1> QED
  BY <1>1, <1>2

(* The list gives every device that wants to send its turn: it is never    *)
(* overtaken, and every send moves it up, so that it sends after at most   *)
(* as many sends as there are devices, unless it changes its mind.         *)
THEOREM ListIsFair == SchedSpec => SendsInTurn
<1>1. IInv /\ [SchedNext]_schedVars
         => [\A i \in 1 .. Len(Walk(rts)) :
                \/ Walk(rts)[i] \notin ReadyDevices'
                \/ Send /\ i = 1
                \/ \E j \in {i - 1, i} :
                      /\ j \in 1 .. Len(Walk(rts')) /\ Walk(rts')[j] = Walk(rts)[i]
                      /\ (Send => j = i - 1)]_schedVars
  <2> SUFFICES ASSUME IInv, SchedNext, NEW i \in 1 .. Len(Walk(rts))
               PROVE  SendTurn(i)
    BY DEF SendTurn
  <2> QED
    BY NextKeepsTurns
<1> QED
  BY <1>1, SchedulerInvariant, PTL DEF SchedSpec, SendsInTurn
=============================================================================
