# A verification of toy_softswitch in TLA+

The softswitch runs on every thread of a Tinsel machine. It hosts the devices
of an application, calls their handlers, and moves their messages through the
thread's mailbox. This directory holds TLA+ modules of it, TLC configurations
that check them on small instances, and proofs that TLAPS checks for every
value of the constants. Source paths below are relative to `src/`.

## The system

| Component | Its state | Its operations | Source |
| --- | --- | --- | --- |
| RTS list: devices that want to send | `rtsHead`, `rtsTail`, each device's `prev`, `next` | append, remove, pop | `src/softswitch/softswitch_rts.cpp` |
| Event handlers and scheduler | each device's `rtsFlags`, `rtcChecked`, `rtcOffset`, `currentDevice`, `currentHandlerType` | init, onReceive, onSend, onIdle, on_hardware_idle, UpdateRTS | `src/softswitch/softswitch_{init,on_*,rts}.cpp` |
| Main loop | its locals: `wantToSend`, `hostBufferEmpty`, `adequateHostBufferSpace`, `currSendTodo`, `currSendAddressList`, `isApp`, the profile counters | one iteration: choose, idle, wait, drain, receive, send | `src/softswitch/softswitch_main.cpp` |
| Host message buffer | `hbuf_head`, `hbuf_tail`, the ring | push, pop into a mailbox slot, pop down the UART, size, space | `src/softswitch/softswitch_hostmessaging.cpp` |
| Handler logging | none of its own | reads the active device and handler type | `include/softswitch_hostmessaging.hpp` |
| Edge lookup | none (static tables) | binary search by source address | `src/softswitch/softswitch_on_receive.cpp` |
| Performance counters | 32-bit cycle counts | delta, reset, flush to the host | `src/softswitch/softswitch_perfmon.cpp` |
| Simulated mailbox | slot states and contents, two counts, `m_sendActive`, a mutex and a condition variable | recv, alloc, send, waitUntil, netPush, netPull | `src/tinsel/tinsel_mbox.hpp` |
| Unix-socket and MPI simulations | three threads round one mailbox | incoming loop, outgoing loop, cpu | `src/tinsel/tinsel_on_{unix,mpi}.cpp` |
| Hardware runtime | none of interest | start-up, memory and UART functions, the mailbox shim | `src/true_tinsel/` |
| Applications: barrier, ring, edge_props | the devices' states | send, receive and ready-to-send handlers | `src/applications/` |
| ADB, build and launch scripts | none | | `src/adb/`, `tools/` |

How they interact:

- The main loop calls the event handlers, which call the application's, then
  `softswitch_UpdateRTS`, which asks the device's `readyToSend` handler for a
  new flags word, stores it and joins or leaves the RTS list. All of this
  belongs to one thread and there are no callbacks into the loop. Intra-thread
  delivery does call `softswitch_onReceive` in the middle of a send.
- The main loop shares the mailbox with the network, which fills receive slots
  and frees the send slot at any moment. In the simulations the mailbox is a
  monitor shared by three operating-system threads.
- The profile flush pushes host messages; the loop pops them, by mailbox or by
  UART. Threads meet only through messages and through `mboxIdle`.

What is hard to get right, by component (the full list, each at its line, is
under `hazards` in `PROJECT.json`):

- *RTS list*: every case of the pointer surgery, over sequences of joining,
  withdrawing, sending and joining again; agreement with the cached flags.
- *Compute sweep*: a count of swept devices that survives across events; wrap
  and overshoot of a chunk; fairness.
- *Main loop*: decisions taken at the loop's top and used after a blocking
  wait; sends to many targets spread over many iterations; one send slot.
- *Host buffer*: a ring that cannot tell full from empty, with a threshold that
  must keep it from being full.
- *Simulated mailbox*: sparse notification, three kinds of waiter, counts kept
  beside the state they count.
- *Several threads*: full mailboxes that wait for each other; the agreement that
  nothing is under way any more; threads that begin the next round at different times.
- *Edge lookup*: a search that is only right over a table sorted by the same order.
- *Barrier*: messages that overtake each other; a halt that must come once.
- *Ring*: a count whose value 0 means something else. *Edge properties*: an exit on
  the last tick, found by adding up masks that come from the edge lookup.

## Modules

| Module | What it is |
| --- | --- |
| `RTSList` | the list's operations as operators on a record of four pointers |
| `ReadyQueue` | abstract: a FIFO queue that devices join and may leave |
| `Scheduler` | the event handlers over the list; `SchedSpec` lets events come in any order the main loop allows |
| `CycleCount` | the difference of two readings of the wrapping cycle counter |
| `HostBuffer` | the ring's indices, with a history count of the messages in it |
| `MainLoop` | the loop; composes `Scheduler` and `HostBuffer` with a mailbox |
| `Machine` | several threads, seen from outside, with their mailboxes and the network |
| `Rounds` | abstract: messages delivered in the round they were sent in |
| `TinselMbox` | the simulated mailbox with its three threads |
| `Mailbox` | abstract: messages arrive, are received once, depart once |
| `Barrier` | the barrier application over a reordering network |
| `Lockstep` | abstract: devices that count together |
| `EdgeLookup` | how a packet's edge is found, as operators on a table of bindings |
| `EdgeProps` | the edge properties application on that lookup |
| `Ring` | the ring application |
| `RTSListProofs`, `SchedulerProofs`, `MainLoopProofs`, `MachineProofs`, `TinselMboxProofs`, `BarrierProofs`, `EdgePropsProofs`, `RingProofs` | theorems and proofs |
| `MCScheduler`, `MCMainLoop`, `MCMachine`, `MCTinselMbox`, `MCBarrier`, `MCEdgeProps`, `MCRing` | constants for TLC |

Definitions carry the names of the functions and fields they model. The
`map` of `PROJECT.json` gives each its lines. A definition preceded by a
comment that begins with "Fault" is a plausible mistake in the definition that
follows; `mutants` lists which property notices it.

### Scheduler

The thread context and device contexts are the variables `rts`, `rtsFlags`,
`rtcChecked`, `rtcOffset`, `currentDevice`, `currentHandlerType`. A flags word is
a record of a set of pins (bits 0 to 30) and the compute flag (bit 31).
Application handlers are arbitrary: each call leaves the device wanting any
flags word, remembered in `appFlags`, which is what its `readyToSend` handler
would answer. Each handler of the softswitch is one action, since one thread
owns the state and nothing can come between; `phase` and `idx` unroll the
loops of `softswitch_init` and `softswitch_on_hardware_idle`, whose body per
device is an action. `softswitch_UpdateRTS` is part of every action whose code
calls it. `rts_remove` and `rts_pop` leave the removed device's own pointers
stale, as the code does. `active` is history: the handler the last step called.

`softswitch_onIdle` has two actions: `IdleSweep` when a chunk has no device that
wants to compute, `IdleCompute` when it has; its third outcome, giving up, changes
nothing and is the predicate `NothingToCompute`. Constants: `NumDevices`, the
pins, `SweepChunk` (`IDLE_SWEEP_CHUNK_SIZE`, 32 in the code) and which devices
have a hardware idle handler.

### MainLoop

`pc` divides an iteration where the network's steps can change what the code
sees next: at the top (everything up to the blocking call), in the wait, at the
dispatch after waking, and before the transmission of a freshly prepared message.
The locals computed at the top keep their values over the wait and the drain, as
in the code. `currSendAddressList` is the rest of the address array, `sendBuffer`
is what the send slot holds, `owed` is a history of the addresses that prepared
messages are still to go to. Options are constants: `PerfmonRate`
(`SOFTSWITCH_ENABLE_PROFILE`, 0 for a build without it), `SendOverRecv`,
`IntraThreadSend`. The last is `SOFTSWITCH_ENABLE_INTRA_THREAD_SEND`, as
`softswitch_main.cpp:50` reads it; the option of `src/true_tinsel/Makefile:59-60` defines
`SOFTSWITCH_ENABLE_INTRATHREAD_SEND`, which nothing reads, so that a build by that Makefile
is always the one with `IntraThreadSend` false. The model is the build with
`SOFTSWITCH_ENABLE_HARDWARE_IDLE`; the build without it waits on the same conditions and
never takes `WaitMachineIdle`, so what holds always here holds there, and so does what is
claimed eventually, since `FairSpec` does not promise `WaitMachineIdle` either.

The hardware mailbox is not part of the repository. It is modelled from how the
loop uses it: `CanRecv`, `CanSend`, messages delivered at any time while there is
room (`NetDeliver`), the message being sent taken at any time (`NetTake`), and
`mboxIdle` returning either for a message or for an idle machine; an idle machine
has no message on its way, so none to or from this thread.
For an application pin the target array is null and the intra-thread test reads
through it; that test's outcome is a nondeterministic choice (`IsLocal`).

A device handler may log or call `softswitch_handler_exit` (`HandlerHostCalls`). Neither
pushes: a log message and the exit message go down the UART at once, the log call
popping the ring's oldest message first if there seems to be no space, and exit
draining the ring before. `softswitch_handler_exit` returns to the handler, so the thread
goes on. Several calls in one handler come to the same as one. Only the profile
flush pushes to the ring.

`ImplementsScheduler` says that the loop calls the scheduler's handlers only as
`SchedSpec` allows, so what is checked and proved of the scheduler by itself holds in
the loop: `HardwareIdle` in `Scheduler` has for a guard what the loop must have
established, some iterations of network activity ago, when it calls.

### Machine

`MainLoop` has one thread and a network that does anything; `Machine` has several
threads and an exact network, and keeps of each thread what the others can notice:
whether it runs, waits in `mboxIdle` or is about to return from it (`mode`), whether a
device wants to send (`wants`) or to compute (`computes`), which each handler may set or
withdraw as the application likes, the threads that the message in its send slot has
still to go to (`todo`), and its mailbox. A target is a thread, a device and a pin, and
several targets of one message may be on one thread, as in
`barrier_dev5_threads3.cpp:23-41`: a packet is told from the others of its message by the
number of targets left when it is sent (`left`). `Compute` is a call of `softswitch_onIdle`
that runs a compute handler; it returns true, the loop starts over, and the thread is no
nearer to `mboxIdle` while a device still wants to compute. What a thread does between
two looks at its mailbox is one step, because meanwhile the network can only add
packets or free the send slot. Host messages, which go to the host alone, are left
out. The drain-before-fill order, the send slot shared by all devices of a thread and
the thread without devices, which only waits in `mboxIdle`, are as in `softswitch_main`.

The network (`NetTake`, `NetDeliver`) holds a bounded number of packets, in no order,
and delivers when there is room. `MachineIdle` is what `softswitch_main` counts on when
`mboxIdle` returns true: every thread was waiting in it and no packet was anywhere; the
threads then return one by one, and do their hardware idle steps (`HardwareIdle`) at
different times while others already send. `Rounds` is what the application may rely
on: a packet is never handled by a thread that has yet to do the step that its sender
has done, and nothing is left over from a round. The two depend on the receiver not
looking at its mailbox between the return of `mboxIdle` and its hardware idle handlers,
which is what the `continue` at `softswitch_main.cpp:183` is for.

### TinselMbox

Every operation holds the mutex from beginning to end except while asleep in the
condition variable, so an operation is one action, and one that may wait has a
second action, going to sleep. `notify_all` empties `asleep`; a notified thread
tests its predicate again and may go back to sleep, and `SpuriousWakeup` wakes
any thread at any time. The try-variants of push and pull are never called. The client is any that keeps the assertions of the
operations and, as `softswitch_main` does, waits only with every received slot given
back.

### Barrier

A handler of a device is one action; its thread then owes a packet to each
target and sends them one at a time, receiving in between, and prepares no other
message meanwhile (`SendBufferFree`), as the main loop does. The loop's order of
devices, targets and receives is left open, and the network reorders packets:
the simulated mailbox really does (a random slot is filled, the lowest full one is
read). Exactly-once delivery is what `EachTargetOnce` and `ImplementsMailbox`
give between them, assuming the network between the mailboxes loses nothing.

### Ring, EdgeLookup and EdgeProps

Handlers are actions and the softswitch and the network between them deliver every
message once, in any order, as `EachTargetOnce`, `ExactlyOnce` and `ImplementsMailbox`
say they do. In `Ring` a count wraps at `CountRange`, a power of two in the code; that
an odd count stays odd is why the token survives, and the theorem needs no more than
an even increment and an even range. In `EdgeProps` the outer devices have any distinct
output pins and the inner device's table is sorted by them, as the comment at
`softswitch.hpp:130` promises and the code asserts; masks are sets of bits.
`std::lower_bound` is the library's and modelled by what it returns. When no edge is
found, a build without assertions reads what the search stopped at, or anything:
`edgeProperties` keeps that, and `EdgeFound` says that it does not happen. (The debug
scan of the table at `softswitch_on_receive.cpp:112` tests `begin+1 != tmp` where `tmp !=
begin` is meant, and so reads before the table; it runs only after the search failed
and before an `assert(0)`, and is not modelled.)

## Runs

| Run | Instance | States | What it shows |
| --- | --- | --- | --- |
| `Scheduler` | 3 devices, 1 pin, chunk 2 | 117 000 | list, flags, sweep and hardware idle are consistent; the list is a `ReadyQueue` |
| `MainLoop` | 2 devices, ring of 3, profile flush every idle, sends first, intra-thread delivery | 1 130 000 | dispatch assertions, targets, send slot, host ring, use of the scheduler |
| `MainLoopLive` | 1 device, profile flush every other idle, receives first | 18 800 | host messages and devices get to send; a full mailbox drains |
| `MainLoopFair` | 2 devices, chunk 3, intra-thread delivery, no profiling | 55 100 | neither device starves, to send or to compute, but for what the loop itself prefers |
| `Machine` | 2 threads with devices and 1 without, 2 messages a round each, up to 3 targets, 2 of them on one thread | 154 000 | packets handled once and in their round; all are handled, and the machine goes on to the next round unless devices compute for ever |
| `TinselMbox` | 4 slots, 2 messages | 36 800 | counts, wakeups, no threads waiting for each other, the abstract mailbox, and nobody left waiting |
| `Barrier` | 3 devices on 2 threads, 2 steps | 197 000 | lock-step, ticks, halt, quiet only at the end, completion |
| `EdgeProps` | 3 outer devices on 8 possible pins | 9 070 | every edge is found, every tick recorded once |
| `Ring` | 4 devices, counts of 8 bits | 256 | one token, for ever |
| `SchedulerTracked`, `MainLoopAssert`, `MainLoopAppPin` | as above | | disagreements with the code's own statements, below |

Bounds, and why they are enough. Three devices give a list a head, a tail and a
middle, so every case of remove, and a sweep of two does not divide three; a
sweep of three over two devices (`MainLoopFair`) passes one twice. A host ring of three with a
threshold of two is full, empty, wrapped and short of space, and the real ring of
40 has no other case. The threshold must leave a place over and be at least two
(`HostBufferAssumption`): the loop's own profile flush takes a place that its test saw
free, and a full ring reports size 0 and space for everything. The loop does pass
through that state, when the flush takes the last place, and the flag it computed
before makes it drain a message before anything else looks at the ring; with a
threshold of one the flag would be true and the ring's messages forgotten. One receive slot is both empty and full. Targets cover the
sender itself, another device of the thread, another thread, an application pin
and an empty list. A mailbox of four slots has a send slot and three to count;
two messages tell a copy from a mix-up. Two steps of the barrier give a device a
current, a next and a last step. Mailboxes and a network of one packet each are full
as soon as anything is in them, so every wait for room happens; a message to three
targets has one before, and one after, another on the same thread; two messages a round
let one be prepared while the other is on its way; rounds count modulo three, which
tells a thread's own from the one before and the one after. Two values in each field
of an address make each decide some comparison. The counters are bounded by the code itself,
so no state constraint is used. `TypeOK` of `MainLoop` leaves `currSendTodo` in
`Nat`; the targets bound it.

Deadlock is checked everywhere but in `EdgeProps`, whose program exits, and in
`Barrier`, whose devices stop when they are done (and whose halt device, contrary to `readme.md:242-246`, does not end
the program: the call of `exit` is commented out).

### Fairness

- `MainLoop`: weak fairness of what the thread does by itself (`Runs`), which is a single
  sequential program that never stops, and of the hardware taking what it was given to
  send. Nothing is assumed of arrivals, nor of the machine being found idle
  (`WaitMachineIdle`): other threads may exchange packets for ever, and a build without
  hardware idle never looks. What the loop prefers it prefers for ever, so the properties
  except that and no more:
  - Receives come before sends, so packets that never cease starve every send:
    `HostMessagesSent` and `SendServed` are claimed unless arrivals never end.
  - The profile flush pushes a host message after `wantToSend` was computed. The last
    one may wait with the thread in `mboxIdle` for as long as nothing arrives
    (`FlushedMessageWaits`); `HostMessagesSent` excepts that one message alone.
  - `softswitch_main.cpp:125` calls `softswitch_onIdle` only with nothing to receive and
    nothing that can be sent. `ComputeServed` is claimed unless arrivals or sends never
    end and it is called no more (`OnIdleKeptOff`).

  `MainLoopLive` flushes profile data on every second idle: with one flush for every idle,
  each wait for the mailbox queues another host message ahead of the devices, and a
  device's send can wait for ever.
- `TinselMbox`: weak fairness of the incoming and outgoing threads, of a wait that
  can return, and of the cpu receiving and giving back slots, which the main loop
  does before it sends. None of the cpu sending or of the network.
- `Machine`: weak fairness of what each thread does but computing (`Proceed`), each thread
  being a processor of its own, and of the hardware as a whole. None of `Compute`, whose
  handler may ask to be called again for ever. `RoundsGoOn` says that all that is owed is
  handled again and again whatever the devices compute, and that the rounds go on unless
  the devices of some thread compute for ever (`ComputesForEver`): that thread never
  enters `mboxIdle`, and the machine is rightly never idle. It also needs an application
  that stops sending in the end, which is what `MaxSends`, the messages a thread prepares
  in a round, bounds.
- `Barrier`, `EdgeProps`, `Ring`: some enabled step is taken. The behaviours of the first
  two are finite, and in a ring there is one thing to do at a time.

### Disagreements found

1. `MainLoopAssert`: the assertion at `softswitch_main.cpp:162` fails when a packet
   arrives while a device wants to compute and nothing wants to send.
2. `SchedulerTracked`: the compute handler runs without the thread context saying
   so; a log call in it names another device, or fails the assertion at
   `softswitch_hostmessaging.hpp:112` after a hardware idle.
3. `MainLoopAppPin`: a message for the host application has one target and a null
   array, which the loop reads through in a build with logging or with
   intra-thread delivery.

## Proofs

| Theorem | Module | For every |
| --- | --- | --- |
| `AppendLists`, `RemoveLists`, `PopLists` | `RTSListProofs` | list |
| `TypeCorrect`, `ListCorrect`, `ComputeCorrect`, `FlagsCorrect`, `HardwareIdleCorrect`, `ListIsQueue`, `ListIsFair`, `SweepIsFair` | `SchedulerProofs` | number of devices, set of pins, chunk size |
| `LoopTypeCorrect`, `DispatchCorrect`, `TargetsCorrect`, `HostCorrect`, `SendSlotCorrect`, `LoopImplementsScheduler`, `LoopListIsQueue` | `MainLoopProofs` | as for the scheduler, and every target array, ring size, threshold, mailbox and option |
| `DeltaAcrossWrap` | `MainLoopProofs` | range of the counter, start, time passed less than the range |
| `ExactlyOnceCorrect`, `MachineRefinesRounds`, `MachineNeverStuck`, `RoundsGoForward` | `MachineProofs` | finite set of threads, target lists up to a length, with or without repeated threads, capacity, number of messages |
| `MailboxTypeCorrect`, `CountsCorrect`, `WakeupsCorrect`, `MutualWaitFree`, `MailboxRefines` | `TinselMboxProofs` | finite set of slots, one of them to receive into, set of messages |
| `EdgeFoundCorrect`, `TicksRecordedCorrect`, `EdgePropsGoesOn`, `EdgePropsGoesForward` | `EdgePropsProofs` | number of outer devices up to 30, placement |
| `OneTokenCorrect`, `TokenGoesOn` | `RingProofs` | ring, even increment, even range of counts |
| `BarrierTypeCorrect`, `TicksExpectedCorrect`, `TicksCountedCorrect`, `HaltCorrect`, `QuietCorrect`, `BarrierRefinesLockstep`, `BarrierGoesForward` | `BarrierProofs` | finite set of devices, placement on threads, number of steps |

The assumptions are the named ones the modules declare: at least one device, a
null pointer that is no device, pins that are numbers, a chunk that is not empty,
a finite set of slots, with one to receive into besides the send slot, of devices.

*Scheduler.* `Lists(L, S)` says that some injective enumeration of `S` is linked by
`L`: it is what append, remove and pop are proved to preserve, from an enumeration
of the old list one of the new is built. The inductive invariant adds to the
checked properties what ties the sweep to the flags. `NoComputeMissed` by itself
is not inductive; `ComputeIsAhead` is: a device that wants to compute is, cyclically,
among the `NumDevices - rtcChecked` devices from `rtcOffset` on. `HardwareIdleIsQuiet`
follows because a machine found idle has an empty list and a finished sweep. While
`softswitch_init` runs, the sweep has not started and the devices not yet reached
have no flags (`InitFromZero`).

That the list is a queue (`ListIsQueue`) needs the walk along its `next` pointers as a
sequence. `Walk` is a recursive function, which TLA+ defines as some function that
satisfies its equation; that there is one, and that on a well-formed list it is the
enumeration of `Lists`, is shown without induction by looking at the least place at
which the two would differ (`LeastNatural`, `WalkMeets`, `WalkLists`). From there each
list operation is one on sequences: `WalkAppend`, `WalkRemove`, `WalkPop`. Two theorems
say that nobody is passed over. `ListIsFair`: a device in the list keeps its place or
moves up one, and each send moves it up one or is its own. `SweepIsFair`: each sweep
runs a device that wants to compute or comes nearer to it. They carry what
`SendServed` and `ComputeServed` rest on for any number of devices; the rest is that the
loop keeps calling the handlers, and when it does not is what those properties except.

*Main loop.* The invariant has a part for each thing that the loop remembers over a
wait. `HostOK`: the pending messages lie in the ring from head to tail, and while the
loop knows that space was adequate there is a place free, so that the size is right;
when it knows that it was not, more are pending than a drain can use up before the
test is made again. `Justified`: a thread that saw something to send still has it, and
one that saw nothing has an empty list and, unless a message has come, a finished
sweep. `SendOK`: count, list and debt agree. The scheduler's invariant is carried along
by citing its own proof, since every step of the loop is a step of the scheduler or
leaves it alone (`LoopSchedules`); `LoopListIsQueue` follows from that and `ListIsQueue`.

*Cycle counts.* `deltaCycles` takes two branches and adds 2^32 in the second, which the
32-bit result loses again. `DeltaAcrossWrap`: it is the time passed whether the counter
wrapped or not, provided the time fits the counter.

*Machine.* The invariant says of every packet where it may be in each phase of a
round (`Located`), and that all threads agree on the round they are in or, if they are
still to do their hardware idle step, are about to enter (`InRound`): what is owed was
sent in that round, by a thread that has done its step. `ExactlyOnce` is part of it; each of its steps
moves one packet from one place to another.

`MachineNeverStuck` shows that no cycle of full mailboxes stops the machine. If no step
were possible, every inbox would be empty, because a thread that runs or waits and has a
packet receives, or sends first; then the network could deliver all that it holds and
take what is in the send slots; then nobody has anything to wait for but an idle
machine, and it is idle. `RoundsGoForward` gives each round a measure: how far each
message has come (`Progress`), and where no message moves, the threads that have settled
(`Settled`). It ranges over finite sets. Every step but those that end a round raises it,
except a compute handler's, which leaves both as they are: a handler that withdraws a wish to
send, or asks to compute again, undoes nothing. So a round of at most `MaxSends` messages a thread is endless only by
computing.
Together they are `RoundsGoOn` but for fairness, for any number of threads.

Several packets of one message to one thread are what makes exactly-once delivery more
than a matter of sets: `SamePacket` shows that two of a message's packets differ however
often a thread is named, `FirstOrRest` and `AllPackets` that sending the first leaves just
the others to be sent.

*Ring and edge properties.* There is a token with an odd count, and adding an even
increment modulo an even range keeps it odd. The search finds a source that is in a
sorted table, because the bindings before it are less and it is not less than itself
(`LowerBoundFinds`), and the bindings stay one for each outer device.
`TokenGoesOn` says that each step takes the token one hop, from a device to a message for
its target or from a message to its device, and that there is always a step.
`EdgePropsGoesOn` and `EdgePropsGoesForward` say that until the exit a step is possible and
that each raises `Progress`, of which two for each device is the most.

*Mailbox.* The inductive invariant is the types, `SlotsCounted`, `NoLostWakeup` and
`SendSlotReserved`: the send slot is the hardware's while a send is active and
otherwise the cpu's, so that a send or a pull, which changes its state, changes
neither count. The bounds on the counts in `TypeOK` follow. The step that matters
for wakeups is `mboxAlloc`, which is silent when the count was not 0: nobody is
then asleep for want of an empty slot. The refinement needs no more: a bag of `Mailbox`
counts the slots of one status that hold a message, so a slot that changes its status
takes one copy from a bag to another (`CopiesAdd`, `CopiesRemove`), a slot that was never
written takes none, and what is overwritten, an empty slot or the send slot, is in no bag.

`MutualWaitFree` needs one thing more, `CpuDrained`: a cpu asleep has given every received
slot back. Then each receive slot is empty or full. Were the incoming thread asleep as
well, none would be empty, and as the cpu always waits to receive, none is full; but
there is one. A cpu that also waits to send sleeps only while a send is active, which
is what the outgoing thread waits for. The same client waiting with slots kept would
stop everything, and the run shows that.

*Barrier.* The invariant adds to the checked properties that a tick under way was
sent by a device that has reached its time to one that has not passed it
(`TicksOrdered`), that no device is two steps ahead of another (`WithinOneStep`),
that a packet is in one place (`PacketsApart`), and what the halt device has counted
(`DonesCounted`). `TicksCounted` is the heart: the counters are cardinalities of sets
of senders, so a full counter means that every device has reached the step and
none of its ticks for that step is still under way.
From it `QuietCorrect`: with nothing under way, of the devices that are furthest behind
each has heard from all others, so it is ready to tick unless it is at the last step.
`BarrierGoesForward` counts the packets made, sent and received (`Progress`): each step adds
one, and there are finitely many.

What is only model-checked: the liveness properties, since TLAPS proves nothing from
fairness or `ENABLED`. Proved in their place is what they rest on, that some step is
possible and that each brings the end nearer, as the properties `SendsInTurn`,
`ComputesInTurn`, `OnlyForward` and `NeverStuck` of `Machine`, `OnlyForward` of `Barrier`,
`GoesOn` and `OnlyForward` of `EdgeProps`, `TokenHops` and `NeverStuck` of `Ring`. These are
theorems and in no configuration: the runs check the liveness itself, and deadlock. TLC
finds them true on the same instances (`OnlyForward` of `Barrier` with one step; it is
slow to evaluate with two). What the runs check otherwise, every invariant and every
refinement, is proved.

## Plan

What would add most, in this order:

1. Host messages with contents and their order: log and exit messages overtake what is in
   the ring.
2. `Machine` with threads that are `MainLoop`s in full, host messages included, which TLC
   can check only for fewer messages than `Machine` has now.

## Not modelled

Log texts and message formats, checksums, the lamport clock and the sums in the profile
counters (written and reported, never read to decide anything), sockets and MPI, start-up, memory and
soft-float functions, `src/adb`, build and launch scripts. The conversion of
relative pointers in `softswitch_init` is commented out, and the external-device branch
of `softswitch_onReceive` stops at an `assert(0)`.
The instance data of the three applications predates the current headers and the
simulated platforms lack the mailbox calls that the main loop now makes
(`mboxIdle`, the send slots, `mboxFree`); each part is modelled as it stands.
