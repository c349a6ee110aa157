---------------------------- MODULE BarrierProofs ----------------------------
(***************************************************************************)
(* Proofs about the barrier application, for any devices, any placement of *)
(* them on threads and any number of steps.                                *)
(***************************************************************************)
EXTENDS Barrier, FiniteSetTheorems, TLAPS

(* A packet is in one place: with the thread of the device that sent it,   *)
(* or in flight.                                                           *)
PacketsApart ==
    \A th \in Thread : \A p \in todo[th] : p \notin inFlight /\ Home[p[1]] = th

(* A tick that is under way was sent by a device that has reached the      *)
(* tick's time, to one that has not passed it.                             *)
TicksOrdered ==
    \A d, e \in Dev, t \in 1 .. MaxTime :
        Tick(d, e, t) \in Pending => time[e] <= t /\ t <= time[d]

(* No device is more than one step ahead of another.                       *)
WithinOneStep == \A d, e \in Dev : time[d] <= time[e] + 1

(* What the halt device has counted: the devices that said they are done.  *)
DoneHeard == {d \in Dev : halted[d] /\ Done(d) \notin Pending}
DonesCounted ==
    /\ seen = Cardinality(DoneHeard)
    /\ \A d \in Dev : Done(d) \in Pending => halted[d]
    /\ \A d \in Dev : halted[d] => time[d] = MaxTime

(* The inductive invariant.  A device ticks when its count says that all   *)
(* have reached its step: that the count says so is TicksCounted, and that *)
(* ticking then leaves no tick behind is TicksOrdered.                     *)
IInv ==
    /\ time \in [Dev -> 0 .. MaxTime]
    /\ seenNow \in [Dev -> Nat]
    /\ seenNext \in [Dev -> Nat]
    /\ halted \in [Dev -> BOOLEAN]
    /\ todo \in [Thread -> SUBSET Packet]
    /\ inFlight \subseteq Packet
    /\ PacketsApart
    /\ TicksOrdered
    /\ WithinOneStep
    /\ TicksCounted
    /\ DonesCounted

-----------------------------------------------------------------------------
(* Ticks and done messages differ, and so do those of different devices.   *)
LEMMA PacketsDiffer ==
    /\ \A d, e, t, d2, e2, t2 : Tick(d, e, t) = Tick(d2, e2, t2) <=> d = d2 /\ e = e2 /\ t = t2
    /\ \A d, e \in Dev : \A t, d2 : Tick(d, e, t) # Done(d2)
    /\ \A d, d2 : Done(d) = Done(d2) <=> d = d2
    /\ \A d, e, t : Tick(d, e, t)[1] = d
    /\ \A d : Done(d)[1] = d
BY DevAssumption DEF Tick, Done

LEMMA HomesAreThreads == \A d \in Dev : Home[d] \in Thread
BY DEF Thread

(* A set of devices is finite, and as large as devCount only if it has     *)
(* them all.                                                               *)
LEMMA DevsCounted ==
    ASSUME NEW S, S \subseteq Dev
    PROVE  /\ devCount \in Nat
           /\ Cardinality(S) \in 0 .. devCount
           /\ Cardinality(S) = devCount => S = Dev
           /\ \A d \in Dev \ S : Cardinality(S \cup {d}) = Cardinality(S) + 1
<1>1. /\ IsFiniteSet(S)
      /\ Cardinality(S) <= devCount
      /\ Cardinality(S) = devCount => S = Dev
  BY DevAssumption, FS_Subset DEF devCount
<1>2. devCount \in Nat /\ Cardinality(S) \in Nat
  BY <1>1, DevAssumption, FS_CardinalityType DEF devCount
<1>3. \A d \in Dev \ S : Cardinality(S \cup {d}) = Cardinality(S) + 1
  BY <1>1, FS_AddElement
<1> QED
  BY <1>1, <1>2, <1>3

(* Heard depends only on the times and on the ticks to one device.         *)
LEMMA HeardInDev == \A e, t : Heard(e, t) \subseteq Dev
BY DEF Heard

-----------------------------------------------------------------------------
LEMMA InitIInv == Init => IInv
<1> SUFFICES ASSUME Init PROVE IInv
  OBVIOUS
<1>1. Pending = {}
  BY DEF Init, Pending
<1>2. \A e \in Dev : Heard(e, 0) = Dev /\ Heard(e, 1) = {}
  BY <1>1 DEF Init, Heard
<1>3. DoneHeard = {}
  BY DEF Init, DoneHeard
<1>4. Cardinality({}) = 0 /\ devCount \in Nat
  BY FS_EmptySet, DevsCounted
<1>5. TicksCounted
  BY <1>2, <1>4 DEF Init, TicksCounted, devCount
<1>6. DonesCounted
  BY <1>1, <1>3, <1>4 DEF Init, DonesCounted
<1>7. TicksOrdered /\ WithinOneStep /\ PacketsApart
  BY <1>1 DEF Init, TicksOrdered, WithinOneStep, PacketsApart
<1> QED
  BY <1>4, <1>5, <1>6, <1>7, MaxTimeAssumption DEF Init, IInv

(* A device that may tick has heard from all for its step: all have        *)
(* reached it, and no tick for it is still under way.                      *)
LEMMA ReadyHasHeardAll ==
    ASSUME IInv, NEW d \in Dev, ReadyToTick(d)
    PROVE  \A e \in Dev : time[d] <= time[e] /\ Tick(e, d, time[d]) \notin Pending
<1>1. Cardinality(Heard(d, time[d])) = devCount
  BY DEF IInv, TicksCounted, ReadyToTick
<1>2. Heard(d, time[d]) = Dev
  BY <1>1, HeardInDev, DevsCounted
<1> QED
  BY <1>2 DEF Heard, IInv

(* Putting new packets with their sender's thread adds them to what is     *)
(* under way.                                                              *)
LEMMA SendAdds ==
    ASSUME IInv, NEW d \in Dev, NEW S, S \subseteq Packet,
           todo[Home[d]] = {},
           todo' = [todo EXCEPT ![Home[d]] = S],
           inFlight' = inFlight,
           \A p \in S : p[1] = d /\ p \notin Pending
    PROVE  /\ Pending' = Pending \cup S
           /\ todo' \in [Thread -> SUBSET Packet]
           /\ PacketsApart'
<1>1. Home[d] \in Thread
  BY HomesAreThreads
<1>2. todo' \in [Thread -> SUBSET Packet]
  BY <1>1 DEF IInv
<1>3. Pending' = Pending \cup S
  BY <1>1 DEF IInv, Pending
<1>4. PacketsApart'
  BY <1>1 DEF IInv, PacketsApart, Pending
<1> QED
  BY <1>2, <1>3, <1>4

LEMMA SendTickIInv == ASSUME IInv, NEW d \in Dev, SendTick(d) PROVE IInv'
<1> DEFINE k == time[d] + 1
           S == {Tick(d, e, k) : e \in Dev}
<1>1. /\ ReadyToTick(d) /\ todo[Home[d]] = {}
      /\ time' = [time EXCEPT ![d] = k]
      /\ seenNow' = [seenNow EXCEPT ![d] = seenNext[d]]
      /\ seenNext' = [seenNext EXCEPT ![d] = 0]
      /\ todo' = [todo EXCEPT ![Home[d]] = S]
      /\ UNCHANGED <<halted, seen, inFlight>>
  BY DEF SendTick, dev_out_send_handler, SendBufferFree
<1>2. time[d] \in Nat /\ k \in 1 .. MaxTime
  BY <1>1, MaxTimeAssumption DEF IInv, ReadyToTick, stillGoing
<1>3. \A e \in Dev : time[e] \in Nat /\ time[e] <= k
                     /\ time[d] <= time[e] /\ Tick(e, d, time[d]) \notin Pending
  BY <1>1, <1>2, ReadyHasHeardAll, MaxTimeAssumption DEF IInv, WithinOneStep
<1>4. S \subseteq Packet
  BY <1>2 DEF Packet
<1>5. \A p \in S : p[1] = d /\ p \notin Pending
  <2> SUFFICES ASSUME NEW e \in Dev PROVE Tick(d, e, k)[1] = d /\ Tick(d, e, k) \notin Pending
    OBVIOUS
  <2> QED
    BY <1>2, PacketsDiffer DEF IInv, TicksOrdered
<1>6. /\ Pending' = Pending \cup S
      /\ todo' \in [Thread -> SUBSET Packet]
      /\ PacketsApart'
  BY <1>1, <1>4, <1>5, SendAdds DEF IInv
<1>7. /\ time' \in [Dev -> 0 .. MaxTime]
      /\ time'[d] = k
      /\ \A e \in Dev : e # d => time'[e] = time[e]
  BY <1>1, <1>2 DEF IInv
<1>8. \A x, e \in Dev : \A t :
        Tick(x, e, t) \in Pending' <=> Tick(x, e, t) \in Pending \/ (x = d /\ t = k)
  BY <1>6, PacketsDiffer
<1>9. \A x \in Dev : Done(x) \in Pending' <=> Done(x) \in Pending
  BY <1>6, PacketsDiffer
<1>10. WithinOneStep'
  BY <1>2, <1>3, <1>7 DEF WithinOneStep, IInv
<1>11. TicksOrdered'
  <2> SUFFICES ASSUME NEW x \in Dev, NEW e \in Dev, NEW t \in 1 .. MaxTime,
                      Tick(x, e, t) \in Pending'
               PROVE  time'[e] <= t /\ t <= time'[x]
    BY DEF TicksOrdered
  <2>1. CASE x = d /\ t = k
    BY <2>1, <1>2, <1>3, <1>7
  <2>2. CASE Tick(x, e, t) \in Pending
    <3>1. time[e] <= t /\ t <= time[x]
      BY <2>2 DEF IInv, TicksOrdered
    <3>2. e = d => t # time[d]
      BY <2>2, <1>3
    <3> QED
      BY <3>1, <3>2, <1>2, <1>3, <1>7
  <2> QED
    BY <2>1, <2>2, <1>8
<1>12. TicksCounted'
  <2> SUFFICES ASSUME NEW e \in Dev
               PROVE  /\ seenNow'[e] = Cardinality(Heard(e, time[e])')
                      /\ seenNext'[e] = Cardinality(Heard(e, time[e] + 1)')
    BY DEF TicksCounted
  <2>1. /\ seenNow[e] = Cardinality(Heard(e, time[e]))
        /\ seenNext[e] = Cardinality(Heard(e, time[e] + 1))
    BY DEF IInv, TicksCounted
  <2>2. CASE e # d
    <3>1. Heard(e, time[e])' = Heard(e, time[e])
      BY <2>2, <1>2, <1>3, <1>7, <1>8 DEF Heard
    <3>2. Heard(e, time[e] + 1)' = Heard(e, time[e] + 1)
      BY <2>2, <1>2, <1>3, <1>7, <1>8 DEF Heard
    <3>3. seenNow'[e] = seenNow[e] /\ seenNext'[e] = seenNext[e]
      BY <2>2, <1>1 DEF IInv
    <3> QED
      BY <2>1, <3>1, <3>2, <3>3
  <2>3. CASE e = d
    <3>1. Heard(d, time[d])' = Heard(d, time[d] + 1)
      BY <1>2, <1>3, <1>7, <1>8 DEF Heard
    <3>2. Heard(d, time[d] + 1)' = {}
      BY <1>2, <1>3, <1>7 DEF Heard
    <3>3. seenNow'[d] = seenNext[d] /\ seenNext'[d] = 0
      BY <1>1 DEF IInv
    <3> QED
      BY <2>1, <2>3, <3>1, <3>2, <3>3, FS_EmptySet
  <2> QED
    BY <2>2, <2>3
<1>13. DonesCounted'
  <2>1. ~halted[d]
    BY <1>1 DEF IInv, DonesCounted, ReadyToTick, stillGoing
  <2>2. DoneHeard' = DoneHeard
    BY <1>1, <1>9 DEF DoneHeard
  <2> QED
    BY <2>1, <2>2, <1>1, <1>7, <1>9 DEF DonesCounted, IInv
<1>14. seenNow' \in [Dev -> Nat] /\ seenNext' \in [Dev -> Nat]
  BY <1>1 DEF IInv
<1> QED
  BY <1>1, <1>6, <1>7, <1>10, <1>11, <1>12, <1>13, <1>14 DEF IInv

(* A step that changes no time and no pending tick keeps what is said of   *)
(* ticks.                                                                  *)
LEMMA TicksUnchanged ==
    ASSUME IInv, UNCHANGED <<time, seenNow, seenNext>>,
           \A d, e \in Dev : \A t : Tick(d, e, t) \in Pending' <=> Tick(d, e, t) \in Pending
    PROVE  TicksOrdered' /\ WithinOneStep' /\ TicksCounted'
<1>1. TicksOrdered' /\ WithinOneStep'
  BY DEF IInv, TicksOrdered, WithinOneStep
<1>2. \A e \in Dev : \A t : Heard(e, t)' = Heard(e, t)
  BY DEF Heard
<1>3. TicksCounted'
  BY <1>2 DEF IInv, TicksCounted
<1> QED
  BY <1>1, <1>3

LEMMA SendDoneIInv == ASSUME IInv, NEW d \in Dev, SendDone(d) PROVE IInv'
<1> DEFINE S == {Done(d)}
<1>1. /\ ~stillGoing(d) /\ ~halted[d] /\ todo[Home[d]] = {}
      /\ halted' = [halted EXCEPT ![d] = TRUE]
      /\ todo' = [todo EXCEPT ![Home[d]] = S]
      /\ UNCHANGED <<time, seenNow, seenNext, seen, inFlight>>
  BY DEF SendDone, dev_halt_send_handler, ReadyToHalt, SendBufferFree
<1>2. S \subseteq Packet
  BY DEF Packet
<1>3. \A p \in S : p[1] = d /\ p \notin Pending
  BY <1>1, PacketsDiffer DEF IInv, DonesCounted
<1>4. /\ Pending' = Pending \cup S
      /\ todo' \in [Thread -> SUBSET Packet]
      /\ PacketsApart'
  BY <1>1, <1>2, <1>3, SendAdds DEF IInv
<1>5. \A x, e \in Dev : \A t : Tick(x, e, t) \in Pending' <=> Tick(x, e, t) \in Pending
  BY <1>4, PacketsDiffer
<1>6. TicksOrdered' /\ WithinOneStep' /\ TicksCounted'
  BY <1>1, <1>5, TicksUnchanged
<1>7. time[d] = MaxTime
  BY <1>1, MaxTimeAssumption DEF IInv, stillGoing
<1>8. DoneHeard' = DoneHeard
  BY <1>1, <1>4, PacketsDiffer DEF DoneHeard, IInv
<1>9. DonesCounted'
  BY <1>1, <1>4, <1>7, <1>8, PacketsDiffer DEF DonesCounted, IInv
<1> QED
  BY <1>1, <1>4, <1>6, <1>9 DEF IInv

LEMMA TransmitIInv ==
    ASSUME IInv, NEW th \in Thread, NEW p \in todo[th], Transmit(th, p)
    PROVE  IInv'
<1>1. /\ todo' = [todo EXCEPT ![th] = @ \ {p}]
      /\ inFlight' = inFlight \cup {p}
      /\ UNCHANGED <<time, seenNow, seenNext, halted, seen>>
  BY DEF Transmit, devVars
<1>2. /\ todo' \in [Thread -> SUBSET Packet]
      /\ inFlight' \subseteq Packet
  BY <1>1 DEF IInv
<1>3. Pending' = Pending
  BY <1>1 DEF Pending, IInv
<1>4. PacketsApart'
  BY <1>1 DEF IInv, PacketsApart
<1>5. TicksOrdered' /\ WithinOneStep' /\ TicksCounted'
  BY <1>1, <1>3, TicksUnchanged
<1>6. DonesCounted'
  BY <1>1, <1>3 DEF IInv, DonesCounted, DoneHeard
<1> QED
  BY <1>1, <1>2, <1>4, <1>5, <1>6 DEF IInv

(* Taking a packet from the network takes it from what is under way.       *)
LEMMA ReceiveTakes ==
    ASSUME IInv, NEW p \in inFlight, inFlight' = inFlight \ {p}, todo' = todo
    PROVE  Pending' = Pending \ {p} /\ PacketsApart' /\ inFlight' \subseteq Packet
<1>1. \A th \in Thread : p \notin todo[th]
  BY DEF IInv, PacketsApart
<1>2. Pending' = Pending \ {p}
  BY <1>1 DEF Pending
<1> QED
  BY <1>2 DEF IInv, PacketsApart

LEMMA ReceiveTickIInv ==
    ASSUME IInv, NEW d \in Dev, NEW e \in Dev, NEW t \in 1 .. MaxTime, ReceiveTick(d, e, t)
    PROVE  IInv'
<1>1. /\ Tick(d, e, t) \in inFlight
      /\ inFlight' = inFlight \ {Tick(d, e, t)}
      /\ UNCHANGED <<time, halted, seen, todo>>
  BY DEF ReceiveTick
<1>2. /\ Pending' = Pending \ {Tick(d, e, t)}
      /\ PacketsApart' /\ inFlight' \subseteq Packet
  BY <1>1, ReceiveTakes
<1>3. /\ Tick(d, e, t) \in Pending
      /\ time[e] <= t /\ t <= time[d] /\ time[d] <= time[e] + 1
      /\ time[e] \in Nat /\ time[d] \in Nat
  BY <1>1, MaxTimeAssumption DEF Pending, IInv, TicksOrdered, WithinOneStep
<1>4. \A x, y \in Dev : \A u :
        Tick(x, y, u) \in Pending' <=> Tick(x, y, u) \in Pending /\ ~(x = d /\ y = e /\ u = t)
  BY <1>2, PacketsDiffer
<1>5. \A x \in Dev : Done(x) \in Pending' <=> Done(x) \in Pending
  BY <1>2, PacketsDiffer
<1>6. TicksOrdered' /\ WithinOneStep'
  BY <1>1, <1>4 DEF IInv, TicksOrdered, WithinOneStep
<1>7. DonesCounted'
  BY <1>1, <1>5 DEF IInv, DonesCounted, DoneHeard
<1>8. /\ seenNow' \in [Dev -> Nat] /\ seenNext' \in [Dev -> Nat]
      /\ \A y \in Dev : y # e => seenNow'[y] = seenNow[y] /\ seenNext'[y] = seenNext[y]
      /\ seenNow'[e] = IF t = time[e] THEN seenNow[e] + 1 ELSE seenNow[e]
      /\ seenNext'[e] = IF t = time[e] + 1 THEN seenNext[e] + 1 ELSE seenNext[e]
  BY DEF ReceiveTick, IInv
<1>9. \A y \in Dev : \A u : ~(y = e /\ u = t) => Heard(y, u)' = Heard(y, u)
  BY <1>1, <1>4 DEF Heard
<1>10. /\ Heard(e, t)' = Heard(e, t) \cup {d}
       /\ d \notin Heard(e, t)
  BY <1>1, <1>3, <1>4 DEF Heard
<1>11. Cardinality(Heard(e, t)') = Cardinality(Heard(e, t)) + 1
  BY <1>10, HeardInDev, DevsCounted
<1>12. TicksCounted'
  <2> SUFFICES ASSUME NEW y \in Dev
               PROVE  /\ seenNow'[y] = Cardinality(Heard(y, time[y])')
                      /\ seenNext'[y] = Cardinality(Heard(y, time[y] + 1)')
    BY <1>1 DEF TicksCounted
  <2>1. /\ seenNow[y] = Cardinality(Heard(y, time[y]))
        /\ seenNext[y] = Cardinality(Heard(y, time[y] + 1))
    BY DEF IInv, TicksCounted
  <2>2. CASE y # e
    BY <2>1, <2>2, <1>1, <1>8, <1>9
  <2>3. CASE y = e /\ t = time[e]
    BY <2>1, <2>3, <1>1, <1>3, <1>8, <1>9, <1>11
  <2>4. CASE y = e /\ t = time[e] + 1
    BY <2>1, <2>4, <1>1, <1>3, <1>8, <1>9, <1>11
  <2> QED
    BY <2>2, <2>3, <2>4, <1>3
<1> QED
  BY <1>1, <1>2, <1>6, <1>7, <1>8, <1>12 DEF IInv

LEMMA ReceiveDoneIInv == ASSUME IInv, NEW d \in Dev, ReceiveDone(d) PROVE IInv'
<1>1. /\ Done(d) \in inFlight
      /\ inFlight' = inFlight \ {Done(d)}
      /\ seen' = seen + 1
      /\ UNCHANGED <<time, seenNow, seenNext, halted, todo>>
  BY DEF ReceiveDone, devVars
<1>2. /\ Pending' = Pending \ {Done(d)}
      /\ PacketsApart' /\ inFlight' \subseteq Packet
  BY <1>1, ReceiveTakes
<1>3. \A x, e \in Dev : \A t : Tick(x, e, t) \in Pending' <=> Tick(x, e, t) \in Pending
  BY <1>2, PacketsDiffer
<1>4. TicksOrdered' /\ WithinOneStep' /\ TicksCounted'
  BY <1>1, <1>3, TicksUnchanged
<1>5. Done(d) \in Pending /\ halted[d]
  BY <1>1 DEF Pending, IInv, DonesCounted
<1>6. DoneHeard' = DoneHeard \cup {d} /\ d \notin DoneHeard /\ DoneHeard \subseteq Dev
  BY <1>1, <1>2, <1>5, PacketsDiffer DEF DoneHeard
<1>7. Cardinality(DoneHeard') = Cardinality(DoneHeard) + 1
  BY <1>6, DevsCounted
<1>8. DonesCounted'
  BY <1>1, <1>2, <1>7 DEF IInv, DonesCounted
<1> QED
  BY <1>1, <1>2, <1>4, <1>8 DEF IInv

(* Every step keeps the invariant.                                         *)
LEMMA NextIInv == IInv /\ [Next]_vars => IInv'
<1> SUFFICES ASSUME IInv, [Next]_vars PROVE IInv'
  OBVIOUS
<1>1. CASE UNCHANGED vars
  <2>1. Pending' = Pending
    BY <1>1 DEF Pending, vars
  <2>2. TicksOrdered' /\ WithinOneStep' /\ TicksCounted'
    BY <1>1, <2>1, TicksUnchanged DEF vars, devVars
  <2> QED
    BY <1>1, <2>1, <2>2 DEF IInv, vars, devVars, PacketsApart, DonesCounted, DoneHeard
<1> QED
  BY <1>1, SendTickIInv, SendDoneIInv, TransmitIInv, ReceiveTickIInv, ReceiveDoneIInv
  DEF Next

-----------------------------------------------------------------------------
(* The inductive invariant holds of the application.                       *)
THEOREM BarrierInvariant == Spec => []IInv
BY InitIInv, NextIInv, PTL DEF Spec

(* Every variable keeps its type: no counter passes the number of devices. *)
THEOREM BarrierTypeCorrect == Spec => []TypeOK
<1>1. IInv => TypeOK
  <2> SUFFICES ASSUME IInv PROVE TypeOK
    OBVIOUS
  <2>1. DoneHeard \subseteq Dev
    BY DEF DoneHeard
  <2>2. \A e, t : Cardinality(Heard(e, t)) \in 0 .. devCount
    BY HeardInDev, DevsCounted
  <2>3. Cardinality(DoneHeard) \in 0 .. devCount
    BY <2>1, DevsCounted
  <2> QED
    BY <2>2, <2>3 DEF IInv, TypeOK, TicksCounted, DonesCounted
<1> QED
  BY <1>1, BarrierInvariant, PTL

(* The assertion of dev_in_receive_handler holds of every tick.            *)
THEOREM TicksExpectedCorrect == Spec => []TicksExpected
<1>1. IInv => TicksExpected
  <2> SUFFICES ASSUME IInv, NEW d \in Dev, NEW e \in Dev, NEW t \in 1 .. MaxTime,
                      Tick(d, e, t) \in Pending
               PROVE  t \in {time[e], time[e] + 1}
    BY DEF TicksExpected
  <2>1. time[e] <= t /\ t <= time[d] /\ time[d] <= time[e] + 1
    BY DEF IInv, TicksOrdered, WithinOneStep
  <2>2. time[e] \in Nat /\ time[d] \in Nat
    BY MaxTimeAssumption DEF IInv
  <2> QED
    BY <2>1, <2>2
<1> QED
  BY <1>1, BarrierInvariant, PTL

(* The devices' counters account for every tick.                           *)
THEOREM TicksCountedCorrect == Spec => []TicksCounted
<1>1. IInv => TicksCounted
  BY DEF IInv
<1> QED
  BY <1>1, BarrierInvariant, PTL

(* When the halt device has heard from all, all are done.                  *)
THEOREM HaltCorrect == Spec => []HaltMeansDone
<1>1. IInv => HaltMeansDone
  <2> SUFFICES ASSUME IInv, seen = devCount PROVE \A d \in Dev :
                  time[d] = MaxTime /\ halted[d] /\ Done(d) \notin Pending
    BY DEF HaltMeansDone
  <2>1. DoneHeard = Dev
    BY DevsCounted, DoneHeard \subseteq Dev DEF IInv, DonesCounted, DoneHeard
  <2> QED
    BY <2>1 DEF IInv, DonesCounted, DoneHeard
<1> QED
  BY <1>1, BarrierInvariant, PTL

(* Some device is behind all others, since none is two steps ahead.        *)
LEMMA SomeoneIsLast ==
    ASSUME IInv, NEW d \in Dev
    PROVE  \E e \in Dev : time[e] <= time[d] /\ \A f \in Dev : time[e] <= time[f]
<1>1. \A e \in Dev : time[e] \in 0 .. MaxTime
  BY DEF IInv
<1>2. CASE \A f \in Dev : time[d] <= time[f]
  BY <1>1, <1>2, MaxTimeAssumption
<1>3. CASE \E e \in Dev : ~(time[d] <= time[e])
  <2>1. PICK e \in Dev : ~(time[d] <= time[e])
    BY <1>3
  <2>2. ASSUME NEW f \in Dev PROVE time[e] <= time[f]
    <3>1. time[d] <= time[f] + 1
      BY DEF IInv, WithinOneStep
    <3> QED
      BY <1>1, <2>1, <3>1, MaxTimeAssumption
  <2> QED
    BY <1>1, <2>1, <2>2, MaxTimeAssumption
<1> QED
  BY <1>2, <1>3

(* The barrier does not stop before its end, for any devices, placement    *)
(* and number of steps: with nothing under way, a device that is behind    *)
(* has heard from all, and so ticks unless it is at the last step; and all *)
(* that are there tell the halt device.                                    *)
THEOREM QuietCorrect == Spec => []QuietMeansDone
<1>1. IInv => QuietMeansDone
  <2> SUFFICES ASSUME IInv, Pending = {},
                      \A d \in Dev : ~ReadyToTick(d) /\ ~ReadyToHalt(d)
               PROVE  seen = devCount /\ \A d \in Dev : time[d] = MaxTime
    BY DEF QuietMeansDone
  <2>1. ASSUME NEW d \in Dev PROVE time[d] = MaxTime
    <3>1. PICK e \in Dev : time[e] <= time[d] /\ \A f \in Dev : time[e] <= time[f]
      BY SomeoneIsLast
    <3>2. Heard(e, time[e]) = Dev
      BY <3>1 DEF IInv, Heard
    <3>3. seenNow[e] = devCount
      BY <3>2 DEF IInv, TicksCounted, devCount
    <3>4. ~(time[e] < MaxTime)
      BY <3>3 DEF ReadyToTick, stillGoing
    <3> QED
      BY <3>1, <3>4, MaxTimeAssumption DEF IInv
  <2>2. \A d \in Dev : halted[d]
    BY <2>1, MaxTimeAssumption DEF ReadyToHalt, stillGoing
  <2>3. DoneHeard = Dev
    BY <2>2 DEF DoneHeard
  <2> QED
    BY <2>1, <2>3 DEF IInv, DonesCounted, devCount
<1> QED
  BY <1>1, BarrierInvariant, PTL

(* The application implements lock-step: a device that ticks is not ahead  *)
(* of any other, and no other step changes a device's time.                *)
THEOREM BarrierRefinesLockstep == Spec => ImplementsLockstep
<1>1. Init => LS!Init
  BY DEF Init, LS!Init
<1>2. ASSUME IInv, [Next]_vars PROVE [LS!Next]_time
  <2>1. CASE UNCHANGED vars
    BY <2>1 DEF vars, devVars
  <2>2. ASSUME NEW d \in Dev, SendTick(d) PROVE LS!Next
    <3>1. \A e \in Dev : time[d] <= time[e]
      BY <1>2, <2>2, ReadyHasHeardAll DEF SendTick, dev_out_send_handler
    <3>2. LS!Advance(d)
      BY <2>2, <3>1 DEF SendTick, dev_out_send_handler, ReadyToTick, stillGoing, LS!Advance
    <3> QED
      BY <3>2 DEF LS!Next
  <2>3. CASE \/ \E d \in Dev : SendDone(d) \/ ReceiveDone(d)
             \/ \E th \in Thread : \E p \in todo[th] : Transmit(th, p)
             \/ \E d, e \in Dev, t \in 1 .. MaxTime : ReceiveTick(d, e, t)
    BY <2>3 DEF SendDone, dev_halt_send_handler, ReceiveDone, Transmit, ReceiveTick, devVars
  <2> QED
    BY <1>2, <2>1, <2>2, <2>3 DEF Next
<1> QED
  BY <1>1, <1>2, BarrierInvariant, PTL DEF Spec, ImplementsLockstep, LS!Spec

-----------------------------------------------------------------------------
(* There are finitely many packets, so the program goes forward only so    *)
(* far.                                                                    *)
LEMMA PacketsFinite == IsFiniteSet(Packet)
<1> DEFINE Ends == Dev \cup {HaltDev}
           Pairs == (Dev \X Ends) \X (0 .. MaxTime)
           Flat == [q \in Pairs |-> <<q[1][1], q[1][2], q[2]>>]
           Triples == Dev \X Ends \X (0 .. MaxTime)
<1>1. IsFiniteSet(Ends)
  BY DevAssumption, FS_AddElement
<1>2. IsFiniteSet(Dev \X Ends)
  BY <1>1, DevAssumption, FS_Product
<1>3. IsFiniteSet(0 .. MaxTime)
  BY MaxTimeAssumption, FS_Interval
<1>4. IsFiniteSet(Pairs)
  BY <1>2, <1>3, FS_Product
<1>5. Flat \in Surjection(Pairs, Triples)
  <2>1. Flat \in [Pairs -> Triples]
    OBVIOUS
  <2>2. ASSUME NEW r \in Triples PROVE \E q \in Pairs : Flat[q] = r
    <3>1. <<<<r[1], r[2]>>, r[3]>> \in Pairs
      BY <2>2
    <3>2. Flat[<<<<r[1], r[2]>>, r[3]>>] = r
      BY <2>2, <3>1
    <3> QED
      BY <3>1, <3>2
  <2> QED
    BY <2>1, <2>2 DEF Surjection
<1>6. IsFiniteSet(Triples)
  <2> HIDE DEF Pairs, Flat, Triples
  <2> QED
    BY <1>4, <1>5, FS_Surjection
<1>7. Packet \subseteq Triples
  BY MaxTimeAssumption DEF Packet, Tick, Done
<1> QED
  BY <1>6, <1>7, FS_Subset

(* What has been done so far is among what there is to do. *)
LEMMA ProgressBounded ==
    /\ IsFiniteSet(Packet \X Stage)
    /\ Progress \subseteq Packet \X Stage
    /\ IsFiniteSet(Progress) /\ Cardinality(Progress) \in Nat
    /\ Cardinality(Progress) <= Cardinality(Packet \X Stage)
<1>1. IsFiniteSet(Stage)
  <2>1. IsFiniteSet({"made"})
    BY FS_Singleton
  <2>2. IsFiniteSet({"made"} \cup {"sent"})
    BY <2>1, FS_AddElement
  <2>3. IsFiniteSet(({"made"} \cup {"sent"}) \cup {"received"})
    BY <2>2, FS_AddElement
  <2>4. Stage = ({"made"} \cup {"sent"}) \cup {"received"}
    BY DEF Stage
  <2> QED
    BY <2>3, <2>4
<1>2. IsFiniteSet(Packet \X Stage)
  BY <1>1, PacketsFinite, FS_Product
<1>3. Progress \subseteq Packet \X Stage
  BY DEF Progress, Stage
<1>4. IsFiniteSet(Progress) /\ Cardinality(Progress) <= Cardinality(Packet \X Stage)
  BY <1>2, <1>3, FS_Subset
<1> QED
  BY <1>2, <1>3, <1>4, FS_CardinalityType

(* What is under way was made. *)
LEMMA PendingMade == ASSUME IInv, NEW p \in Pending PROVE p \in Packet /\ Made(p)
<1>1. p \in Packet
  BY DEF IInv, Pending
<1>2. ASSUME NEW d \in Dev, NEW e \in Dev, NEW t \in 1 .. MaxTime, p = Tick(d, e, t)
      PROVE  Made(p)
  <2>1. t <= time[d] /\ time[d] \in Nat
    BY <1>2, MaxTimeAssumption DEF IInv, TicksOrdered
  <2>2. t \in 1 .. time[d]
    BY <2>1
  <2> QED
    BY <1>2, <2>2 DEF Made
<1>3. ASSUME NEW d \in Dev, p = Done(d) PROVE Made(p)
  BY <1>3 DEF IInv, DonesCounted, Made
<1> QED
  BY <1>1, <1>2, <1>3 DEF Packet

(* Made packets stay made, and one that gets a stage further is progress.  *)
LEMMA StageGained ==
    ASSUME \A q \in Packet : Made(q) =>
              /\ Made(q)'
              /\ q \in inFlight \/ q \notin Pending => (q \in inFlight \/ q \notin Pending)'
              /\ q \notin Pending => (q \notin Pending)',
           NEW x \in Progress', x \notin Progress
    PROVE  Cardinality(Progress) < Cardinality(Progress)'
<1>1. Progress \subseteq Progress'
  BY DEF Progress, Reached
<1>2. IsFiniteSet(Progress') /\ Cardinality(Progress') \in Nat
  <2>1. Progress' \subseteq Packet \X Stage
    BY DEF Progress, Stage
  <2> QED
    BY <2>1, ProgressBounded, FS_Subset, FS_CardinalityType
<1>3. /\ Cardinality(Progress) <= Cardinality(Progress')
      /\ Cardinality(Progress) # Cardinality(Progress')
  BY <1>1, <1>2, FS_Subset
<1> QED
  BY <1>2, <1>3, ProgressBounded

(* Ticking makes ticks that were not made before. *)
LEMMA SendTickForward ==
    ASSUME IInv, NEW d \in Dev, SendTick(d)
    PROVE  Cardinality(Progress) < Cardinality(Progress')
<1> DEFINE k == time[d] + 1
           S == {Tick(d, e, k) : e \in Dev}
<1>1. /\ ReadyToTick(d) /\ todo[Home[d]] = {}
      /\ time' = [time EXCEPT ![d] = k]
      /\ todo' = [todo EXCEPT ![Home[d]] = S]
      /\ UNCHANGED <<halted, inFlight>>
  BY DEF SendTick, dev_out_send_handler, SendBufferFree
<1>2. time[d] \in Nat /\ k \in 1 .. MaxTime /\ \A e \in Dev : time[e] \in Nat
  BY <1>1, MaxTimeAssumption DEF IInv, ReadyToTick, stillGoing
<1>3. S \subseteq Packet
  BY <1>2 DEF Packet
<1>4. ASSUME NEW q \in S PROVE q[1] = d /\ ~Made(q)
  BY <1>2, PacketsDiffer DEF Made
<1>5. \A q \in Pending : Made(q)
  BY PendingMade
<1>6. Pending' = Pending \cup S
  BY <1>1, <1>3, <1>4, <1>5, SendAdds DEF IInv
<1>7. ASSUME NEW q, Made(q) PROVE Made(q)' /\ (q \in Pending' <=> q \in Pending)
  <2>1. q \in Pending' <=> q \in Pending
    BY <1>4, <1>6, <1>7
  <2>2. \A e \in Dev : time[e] <= time'[e] /\ time'[e] \in Nat
    BY <1>1, <1>2 DEF IInv
  <2>3. Made(q)'
    BY <1>1, <1>2, <1>7, <2>2 DEF Made
  <2> QED
    BY <2>1, <2>3
<1>8. PICK q : q = Tick(d, d, k)
  OBVIOUS
<1>9. q \in Packet /\ ~Made(q)
  BY <1>3, <1>4, <1>8
<1>10. Made(q)'
  <2>1. k \in 1 .. time'[d]
    BY <1>1, <1>2 DEF IInv
  <2> QED
    BY <1>8, <2>1 DEF Made
<1>11. <<q, "made">> \in Progress' /\ <<q, "made">> \notin Progress
  BY <1>9, <1>10 DEF Progress, Reached, Stage
<1> HIDE DEF k, S
<1> QED
  BY <1>1, <1>7, <1>11, StageGained

(* So does telling the halt device. *)
LEMMA SendDoneForward ==
    ASSUME IInv, NEW d \in Dev, SendDone(d)
    PROVE  Cardinality(Progress) < Cardinality(Progress')
<1>1. /\ ~halted[d] /\ todo[Home[d]] = {}
      /\ halted' = [halted EXCEPT ![d] = TRUE]
      /\ todo' = [todo EXCEPT ![Home[d]] = {Done(d)}]
      /\ UNCHANGED <<time, inFlight>>
  BY DEF SendDone, dev_halt_send_handler, ReadyToHalt, SendBufferFree
<1>2. Done(d) \in Packet /\ Done(d)[1] = d
  BY PacketsDiffer DEF Packet
<1>3. ~Made(Done(d))
  BY <1>1, PacketsDiffer DEF Made
<1>4. Done(d) \notin Pending
  BY <1>3, PendingMade
<1>5. Pending' = Pending \cup {Done(d)}
  <2> DEFINE S == {Done(d)}
  <2>1. S \subseteq Packet /\ \A p \in S : p[1] = d /\ p \notin Pending
    BY <1>2, <1>4
  <2>2. todo' = [todo EXCEPT ![Home[d]] = S]
    BY <1>1
  <2> HIDE DEF S
  <2>3. Pending' = Pending \cup S
    BY <1>1, <2>1, <2>2, SendAdds
  <2> QED
    BY <2>3 DEF S
<1>6. \A q : Made(q) => Made(q)' /\ (q \in Pending' <=> q \in Pending)
  <2> SUFFICES ASSUME NEW q, Made(q) PROVE Made(q)' /\ (q \in Pending' <=> q \in Pending)
    OBVIOUS
  <2>1. Made(q)'
    BY <1>1 DEF Made, IInv
  <2> QED
    BY <1>3, <1>5, <2>1
<1>7. Made(Done(d))'
  BY <1>1 DEF Made, IInv
<1>8. <<Done(d), "made">> \in Progress' /\ <<Done(d), "made">> \notin Progress
  BY <1>2, <1>3, <1>7 DEF Progress, Reached, Stage
<1> QED
  BY <1>1, <1>6, <1>8, StageGained

(* A packet that leaves its thread was not sent before ... *)
LEMMA TransmitForward ==
    ASSUME IInv, NEW th \in Thread, NEW p \in todo[th], Transmit(th, p)
    PROVE  Cardinality(Progress) < Cardinality(Progress')
<1>1. /\ todo' = [todo EXCEPT ![th] = @ \ {p}]
      /\ inFlight' = inFlight \cup {p}
      /\ UNCHANGED <<time, halted>>
  BY DEF Transmit, devVars
<1>2. Pending' = Pending /\ p \in Pending /\ p \notin inFlight
  BY <1>1 DEF Pending, IInv, PacketsApart
<1>3. p \in Packet /\ Made(p)
  BY <1>2, PendingMade
<1>4. \A q : Made(q)' <=> Made(q)
  BY <1>1 DEF Made
<1>5. <<p, "sent">> \in Progress' /\ <<p, "sent">> \notin Progress
  BY <1>1, <1>2, <1>3, <1>4 DEF Progress, Reached, Stage
<1> QED
  BY <1>1, <1>2, <1>4, <1>5, StageGained

(* ... and one that leaves the network was not received. *)
LEMMA ReceiveForward ==
    ASSUME IInv, NEW p \in inFlight, inFlight' = inFlight \ {p},
           UNCHANGED <<time, halted, todo>>
    PROVE  Cardinality(Progress) < Cardinality(Progress')
<1>1. Pending' = Pending \ {p} /\ p \in Pending
  BY ReceiveTakes DEF Pending
<1>2. p \in Packet /\ Made(p)
  BY <1>1, PendingMade
<1>3. \A q : Made(q)' <=> Made(q)
  BY DEF Made
<1>4. <<p, "received">> \in Progress' /\ <<p, "received">> \notin Progress
  BY <1>1, <1>2, <1>3 DEF Progress, Reached, Stage
<1> QED
  BY <1>1, <1>3, <1>4, StageGained

(* The barrier takes a bounded number of steps, at most three for a packet *)
(* and whatever the order: each of its steps makes a packet, sends one or  *)
(* receives one for the first time.  As it does not stop before its end    *)
(* (QuietCorrect), every run of it that goes on while it can ends there.   *)
THEOREM BarrierGoesForward ==
    Spec => OnlyForward /\ [](Cardinality(Progress) <= Cardinality(Packet \X Stage))
<1>1. ASSUME IInv, [Next]_vars
      PROVE  [Cardinality(Progress) < Cardinality(Progress')]_vars
  <2>1. ASSUME NEW d \in Dev, ReceiveDone(d)
        PROVE  Cardinality(Progress) < Cardinality(Progress')
    BY <1>1, <2>1, ReceiveForward DEF ReceiveDone, devVars
  <2>2. ASSUME NEW d \in Dev, NEW e \in Dev, NEW t \in 1 .. MaxTime, ReceiveTick(d, e, t)
        PROVE  Cardinality(Progress) < Cardinality(Progress')
    BY <1>1, <2>2, ReceiveForward DEF ReceiveTick
  <2> QED
    BY <1>1, <2>1, <2>2, SendTickForward, SendDoneForward, TransmitForward DEF Next
<1>2. Cardinality(Progress) <= Cardinality(Packet \X Stage)
  BY ProgressBounded
<1> QED
  BY <1>1, <1>2, BarrierInvariant, PTL DEF Spec, OnlyForward
=============================================================================
