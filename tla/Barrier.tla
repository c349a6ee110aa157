------------------------------- MODULE Barrier -------------------------------
(***************************************************************************)
(* The barrier application on the softswitch: devices that tick in step by *)
(* sending their time to all devices, themselves included, and that tell   *)
(* the halt device when they are done.                                     *)
(*                                                                         *)
(* Each device lives on a thread.  A thread prepares one message at a time *)
(* and sends it to its targets one by one, receiving between the sends;    *)
(* the order of the targets and of the ready devices is left open.  The    *)
(* network delivers every packet once, in any order.  No device sends the  *)
(* same packet twice, so the packets under way are a set.                  *)
(***************************************************************************)
EXTENDS FiniteSets, Integers

CONSTANTS Dev,        \* the dev devices
          HaltDev,    \* the halt device
          Home,       \* the thread each dev device is on
          MaxTime     \* graph_props::maxTime

ASSUME DevAssumption == IsFiniteSet(Dev) /\ HaltDev \notin Dev
ASSUME MaxTimeAssumption == MaxTime \in Nat

Thread == {Home[d] : d \in Dev}
devCount == Cardinality(Dev)

(* Ticks carry a time; a done message carries nothing, written 0.          *)
Tick(d, e, t) == <<d, e, t>>
Done(d) == <<d, HaltDev, 0>>
Packet == {Tick(d, e, t) : d \in Dev, e \in Dev, t \in 1 .. MaxTime} \cup {Done(d) : d \in Dev}

VARIABLES
    time,         \* dev_state::t
    seenNow,      \* ticks received for the current step
    seenNext,     \* ticks received for the next one
    halted,
    seen,         \* halt_state::seen
    todo,         \* the packets each thread has still to send
    inFlight      \* the packets sent and not yet received

devVars == <<time, seenNow, seenNext, halted>>
vars == <<devVars, seen, todo, inFlight>>

Init ==
    /\ time = [d \in Dev |-> 0]
    /\ seenNow = [d \in Dev |-> devCount]
    /\ seenNext = [d \in Dev |-> 0]
    /\ halted = [d \in Dev |-> FALSE]
    /\ seen = 0
    /\ todo = [th \in Thread |-> {}]
    /\ inFlight = {}

-----------------------------------------------------------------------------
(* dev_ready_to_send_handler, one operator per pin. *)
stillGoing(d) == time[d] < MaxTime

(* Fault: a device does not wait for all ticks of its step. *)
ReadyToTick_Eager(d) == stillGoing(d) /\ seenNow[d] >= devCount - 1

ReadyToTick(d) == stillGoing(d) /\ seenNow[d] = devCount
ReadyToHalt(d) == ~stillGoing(d) /\ ~halted[d]

(* The message in the thread's send buffer has gone to all its targets. *)
SendBufferFree(th) == todo[th] = {}

(* Faults: the ticks seen early are forgotten, or counted twice. *)
dev_out_send_handler_Forgets(d) ==
    /\ ReadyToTick(d)
    /\ time' = [time EXCEPT ![d] = @ + 1]
    /\ seenNow' = [seenNow EXCEPT ![d] = 0]
    /\ seenNext' = [seenNext EXCEPT ![d] = 0]
    /\ UNCHANGED halted
dev_out_send_handler_NoReset(d) ==
    /\ ReadyToTick(d)
    /\ time' = [time EXCEPT ![d] = @ + 1]
    /\ seenNow' = [seenNow EXCEPT ![d] = seenNext[d]]
    /\ UNCHANGED <<seenNext, halted>>

dev_out_send_handler(d) ==
    /\ ReadyToTick(d)
    /\ time' = [time EXCEPT ![d] = @ + 1]
    /\ seenNow' = [seenNow EXCEPT ![d] = seenNext[d]]
    /\ seenNext' = [seenNext EXCEPT ![d] = 0]
    /\ UNCHANGED halted

(* Device d ticks: its thread has a tick to send to every device. *)
SendTick(d) ==
    /\ SendBufferFree(Home[d])
    /\ dev_out_send_handler(d)
    /\ todo' = [todo EXCEPT ![Home[d]] = {Tick(d, e, time[d] + 1) : e \in Dev}]
    /\ UNCHANGED <<seen, inFlight>>

(* Fault: the device does not note that it told the halt device. *)
dev_halt_send_handler_Repeats(d) == ReadyToHalt(d) /\ UNCHANGED devVars

dev_halt_send_handler(d) ==
    /\ ReadyToHalt(d)
    /\ halted' = [halted EXCEPT ![d] = TRUE]
    /\ UNCHANGED <<time, seenNow, seenNext>>

(* Device d is done, and its thread has to tell the halt device. *)
SendDone(d) ==
    /\ SendBufferFree(Home[d])
    /\ dev_halt_send_handler(d)
    /\ todo' = [todo EXCEPT ![Home[d]] = {Done(d)}]
    /\ UNCHANGED <<seen, inFlight>>

(* Fault: the message goes to one of its targets only. *)
Transmit_Once(th, p) ==
    /\ p \in todo[th]
    /\ todo' = [todo EXCEPT ![th] = {}]
    /\ inFlight' = inFlight \cup {p}
    /\ UNCHANGED <<devVars, seen>>

(* The thread's message goes to another of its targets. *)
Transmit(th, p) ==
    /\ p \in todo[th]
    /\ todo' = [todo EXCEPT ![th] = @ \ {p}]
    /\ inFlight' = inFlight \cup {p}
    /\ UNCHANGED <<devVars, seen>>

(* dev_in_receive_handler: a tick for another step than these two fails    *)
(* its assertion, and without assertions does nothing.                     *)
ReceiveTick(d, e, t) ==
    /\ Tick(d, e, t) \in inFlight
    /\ inFlight' = inFlight \ {Tick(d, e, t)}
    /\ seenNow' = IF t = time[e] THEN [seenNow EXCEPT ![e] = @ + 1] ELSE seenNow
    /\ seenNext' = IF t = time[e] + 1 THEN [seenNext EXCEPT ![e] = @ + 1] ELSE seenNext
    /\ UNCHANGED <<time, halted, seen, todo>>

(* halt_in_receive_handler *)
ReceiveDone(d) ==
    /\ Done(d) \in inFlight
    /\ inFlight' = inFlight \ {Done(d)}
    /\ seen' = seen + 1
    /\ UNCHANGED <<devVars, todo>>

Next ==
    \/ \E d \in Dev : SendTick(d) \/ SendDone(d) \/ ReceiveDone(d)
    \/ \E th \in Thread : \E p \in todo[th] : Transmit(th, p)
    \/ \E d, e \in Dev, t \in 1 .. MaxTime : ReceiveTick(d, e, t)

Spec == Init /\ [][Next]_vars

(* Some thread or the network runs as long as one can. *)
FairSpec == Spec /\ WF_vars(Next)
-----------------------------------------------------------------------------
TypeOK ==
    /\ time \in [Dev -> 0 .. MaxTime]
    /\ seenNow \in [Dev -> 0 .. devCount]
    /\ seenNext \in [Dev -> 0 .. devCount]
    /\ halted \in [Dev -> BOOLEAN]
    /\ seen \in 0 .. devCount
    /\ todo \in [Thread -> SUBSET Packet]
    /\ inFlight \subseteq Packet

(* The packets a device's sends have not yet turned into receives. *)
Pending == inFlight \cup UNION {todo[th] : th \in Thread}

(* The assertion of dev_in_receive_handler: a tick, however late, finds    *)
(* its device at the tick's step or at the one before.                     *)
TicksExpected ==
    \A d, e \in Dev, t \in 1 .. MaxTime :
        Tick(d, e, t) \in Pending => t \in {time[e], time[e] + 1}

(* A device's counters are the ticks sent to it for its step, and for the  *)
(* next one, less those still under way: none is lost in the change from   *)
(* one step to the next.                                                   *)
Heard(e, t) == {d \in Dev : time[d] >= t /\ Tick(d, e, t) \notin Pending}
TicksCounted ==
    \A e \in Dev : /\ seenNow[e] = Cardinality(Heard(e, time[e]))
                   /\ seenNext[e] = Cardinality(Heard(e, time[e] + 1))

(* When the halt device has heard from as many devices as there are, they  *)
(* have all reached the last step, and each told it once.                  *)
HaltMeansDone ==
    seen = devCount /\ Dev # {} =>
        /\ \A d \in Dev : time[d] = MaxTime /\ halted[d]
        /\ \A d \in Dev : Done(d) \notin Pending

(* The barrier never comes to a stop before its end: when nothing is under *)
(* way and no device wants to send, all are done, and the halt device has  *)
(* heard from each.                                                        *)
QuietMeansDone ==
    (Pending = {} /\ \A d \in Dev : ~ReadyToTick(d) /\ ~ReadyToHalt(d))
        => seen = devCount /\ \A d \in Dev : time[d] = MaxTime

(* The devices move forward in lock-step. *)
LS == INSTANCE Lockstep
ImplementsLockstep == LS!Spec

(* How far the program is: the packets that were made, those also sent,    *)
(* and those also received.                                                *)
Made(p) == \/ \E d, e \in Dev : \E t \in 1 .. time[d] : p = Tick(d, e, t)
           \/ \E d \in Dev : halted[d] /\ p = Done(d)
Stage == {"made", "sent", "received"}
Reached(p, stage) ==
    /\ Made(p)
    /\ stage = "sent" => p \in inFlight \/ p \notin Pending
    /\ stage = "received" => p \notin Pending
Progress == {x \in Packet \X Stage : Reached(x[1], x[2])}

(* Every step of the barrier brings it forward and none takes it back: it  *)
(* cannot go round for ever, however packets overtake each other.          *)
OnlyForward == [][Cardinality(Progress) < Cardinality(Progress')]_vars

(* The barrier comes to its end: no device waits for ever for a tick, and  *)
(* the halt device hears from them all.                                    *)
Completes == <>(seen = devCount)
=============================================================================
