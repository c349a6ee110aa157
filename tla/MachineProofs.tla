---------------------------- MODULE MachineProofs ----------------------------
(* The threads of a machine handle every message once, and pass hardware   *)
(* idle steps as rounds, for any threads, targets and room for packets.    *)
EXTENDS Machine, FiniteSetTheorems, TLAPS

Types ==
    /\ mode \in [Thread -> {"run", "idle", "woken"}]
    /\ wants \in [Thread -> BOOLEAN]
    /\ computes \in [Thread -> BOOLEAN]
    /\ sent \in [Thread -> 0 .. MaxSends]
    /\ todo \in [Thread -> Seq(HasDevices)]
    /\ slot \in [Thread -> Packet \cup {None}]
    /\ net \subseteq Packet
    /\ inbox \in [Thread -> SUBSET Packet]
    /\ round \in [Thread -> Round]
    /\ owed \subseteq Packet

(* Only threads with devices send and compute, at most MaxSends messages   *)
(* in a round, and with nothing left to send when they wait.               *)
Senders ==
    \A t \in Thread :
        /\ wants[t] => t \in HasDevices /\ sent[t] < MaxSends
        /\ computes[t] => t \in HasDevices
        /\ todo[t] # <<>> => t \in HasDevices /\ mode[t] = "run" /\ sent[t] > 0
        /\ Len(todo[t]) <= MaxTargets

(* m goes to one of the targets, to the first of them. *)
IsTarget(targets, m) ==
    m.left \in 1 .. Len(targets) /\ m.to = targets[Len(targets) + 1 - m.left]
IsFirst(targets, m) == m.left = Len(targets) /\ m.to = Head(targets)

(* The places a packet can be in: to be sent still, in the send slot, in   *)
(* the network or in the receiver's mailbox.                               *)
ToSend(p) ==
    LET t == p[1].from
    IN  p[1].n = sent[t] /\ p[2] = round[t] /\ IsTarget(todo[t], p[1])
InSlot(p) == slot[p[1].from] = p
InNet(p) == p \in net
InInbox(p) == p \in inbox[p[1].to]

(* Slots and mailboxes hold packets from and to their threads. *)
Homes == \A t \in Thread : /\ slot[t] # None => slot[t][1].from = t
                           /\ \A p \in inbox[t] : p[1].to = t

Located(p) ==
    /\ p \in owed <=> ToSend(p) \/ InSlot(p) \/ InNet(p) \/ InInbox(p)
    /\ ToSend(p) => ~InSlot(p) /\ ~InNet(p) /\ ~InInbox(p)
    /\ InSlot(p) => ~InNet(p) /\ ~InInbox(p)
    /\ InNet(p) => ~InInbox(p)

(* The round a thread is in, or about to enter, is the same for all, and   *)
(* what is owed was sent in it by a thread that has entered it.            *)
Current(t) == IF mode[t] = "woken" THEN After(round[t]) ELSE round[t]

InRound ==
    /\ \A t, u \in Thread : Current(t) = Current(u)
    /\ \A p \in owed : LET t == p[1].from
                       IN  mode[t] # "woken" /\ p[2] = round[t] /\ p[1].n <= sent[t]

IInv == Types /\ Senders /\ Homes /\ InRound /\ \A p \in Packet : Located(p)

-----------------------------------------------------------------------------
(* What packets and rounds are. *)
LEMMA PacketParts == ASSUME NEW p \in Packet
                     PROVE  /\ p[1].from \in Thread /\ p[1].to \in Thread
                            /\ p[1].n \in 1 .. MaxSends /\ p[1].left \in Nat /\ p[2] \in Round
                            /\ p = <<[from |-> p[1].from, n |-> p[1].n,
                                     left |-> p[1].left, to |-> p[1].to], p[2]>>
<1>1. p[1] \in Message /\ p[2] \in Round /\ p = <<p[1], p[2]>>
  BY DEF Packet
<1>2. HasDevices \subseteq Thread /\ MaxTargets \in Nat
  BY MachineAssumption
<1> QED BY <1>1, <1>2 DEF Message

LEMMA RoundParts == ASSUME NEW r \in Round, NEW s \in Round
                    PROVE  /\ After(r) \in Round /\ After(r) # r
                           /\ After(r) = After(s) => r = s
BY DEF Round, After

LEMMA InitIInv == Init => IInv
<1> SUFFICES ASSUME Init PROVE IInv
  OBVIOUS
<1>1. MaxSends \in Nat /\ HasDevices \subseteq Thread
  BY MachineAssumption
<1>2. Types
  BY <1>1 DEF Init, Types, Round
<1>3. Senders
  BY <1>1, MachineAssumption DEF Init, Senders
<1>4. Homes /\ InRound
  BY DEF Init, Homes, InRound, Current
<1>5. ASSUME NEW p \in Packet PROVE Located(p)
  <2>1. ~ToSend(p)
    BY PacketParts DEF Init, ToSend, IsTarget
  <2>2. ~InSlot(p) /\ ~InNet(p) /\ ~InInbox(p)
    BY PacketParts, NoneAssumption DEF Init, InSlot, InNet, InInbox
  <2> QED BY <2>1, <2>2 DEF Located, Init
<1> QED BY <1>2, <1>3, <1>4, <1>5 DEF IInv

-----------------------------------------------------------------------------
(* Steps of a thread. *)

(* What a handler call does to wants and computes keeps them well-typed,   *)
(* and wants bounded.                                                      *)
LEMMA HandlerWants == ASSUME NEW t \in HasDevices, HandlerRan(t), Types
                      PROVE  /\ wants' \in [Thread -> BOOLEAN] /\ computes' \in [Thread -> BOOLEAN]
                             /\ \A u \in Thread \ {t} : wants'[u] = wants[u] /\ computes'[u] = computes[u]
                             /\ wants'[t] => sent'[t] < MaxSends
BY MachineAssumption DEF HandlerRan, Types

LEMMA ReceiveIInv == ASSUME IInv, NEW t \in Thread, NEW p \in inbox[t], Receive(t, p)
                     PROVE  IInv'
<1>1. p \in Packet /\ p[1].to = t /\ t \in HasDevices
  BY DEF IInv, Types, Homes, Packet, Message
<1>2. /\ inbox' = [inbox EXCEPT ![t] = @ \ {p}] /\ owed' = owed \ {p}
      /\ UNCHANGED <<mode, sent, todo, slot, net, round>> /\ HandlerRan(t)
  BY DEF Receive
<1>3. Types'
  BY <1>1, <1>2, HandlerWants DEF IInv, Types
<1>4. Senders'
  BY <1>1, <1>2, HandlerWants DEF IInv, Types, Senders
<1>5. Homes' /\ InRound'
  BY <1>2 DEF IInv, Types, Homes, InRound, Current
<1>6. ASSUME NEW q \in Packet PROVE Located(q)'
  <2>1. (ToSend(q)' <=> ToSend(q)) /\ (InSlot(q)' <=> InSlot(q)) /\ (InNet(q)' <=> InNet(q))
    BY <1>2 DEF ToSend, InSlot, InNet
  <2>2. InInbox(q)' <=> InInbox(q) /\ q # p
    BY <1>1, <1>2, PacketParts DEF InInbox, IInv, Types
  <2>3. InInbox(p) /\ Located(p) /\ Located(q)
    BY <1>1 DEF IInv, InInbox
  <2> QED BY <1>2, <2>1, <2>2, <2>3 DEF Located
<1> QED BY <1>3, <1>4, <1>5, <1>6 DEF IInv

(* A sender's list of targets, in Prepare. *)
LEMMA TargetsFit == ASSUME NEW t \in HasDevices, NEW targets \in TargetLists[t] \cup {<<>>}
                    PROVE  targets \in Seq(HasDevices) /\ Len(targets) <= MaxTargets
<1>1. CASE targets = <<>>
  BY <1>1, MachineAssumption
<1>2. CASE targets \in TargetLists[t]
  BY <1>2, TargetsAssumption
<1> QED BY <1>1, <1>2

(* The rest of a list of targets. *)
LEMMA RestOfTargets == ASSUME NEW list \in Seq(HasDevices), list # <<>>
                       PROVE  /\ Head(list) \in HasDevices /\ Head(list) = list[1]
                              /\ Tail(list) \in Seq(HasDevices)
                              /\ Len(Tail(list)) = Len(list) - 1 /\ Len(list) \in Nat \ {0}
                              /\ \A i \in 1 .. Len(Tail(list)) : Tail(list)[i] = list[i + 1]
OBVIOUS

(* What is still to be sent goes to the first target or to the rest, and   *)
(* never to both, also when the same thread is named again.                *)
LEMMA FirstOrRest ==
    ASSUME NEW list \in Seq(HasDevices), list # <<>>, NEW m, m.left \in Nat
    PROVE  /\ IsTarget(list, m) <=> IsFirst(list, m) \/ IsTarget(Tail(list), m)
           /\ ~(IsFirst(list, m) /\ IsTarget(Tail(list), m))
<1>1. PICK len \in Nat \ {0} : len = Len(list) /\ Len(Tail(list)) = len - 1
  BY RestOfTargets
<1>2. PICK k \in Nat : k = m.left
  OBVIOUS
<1>3. CASE k = len
  <2>1. Len(list) + 1 - k = 1 /\ k \in 1 .. Len(list) /\ ~(k \in 1 .. Len(Tail(list)))
    BY <1>1, <1>3
  <2> QED BY <1>1, <1>2, <1>3, <2>1, RestOfTargets DEF IsTarget, IsFirst
<1>4. CASE k \in 1 .. len - 1
  <2>1. PICK i \in 1 .. len - 1 : i = Len(Tail(list)) + 1 - k
    <3>1. Len(Tail(list)) + 1 - k \in 1 .. len - 1
      BY <1>1, <1>4
    <3> QED BY <3>1
  <2>2. Len(list) + 1 - k = i + 1 /\ k \in 1 .. Len(list) /\ k \in 1 .. Len(Tail(list)) /\ k # Len(list)
    BY <1>1, <1>4, <2>1
  <2>3. Tail(list)[i] = list[i + 1]
    BY <1>1, RestOfTargets
  <2> QED BY <1>2, <2>1, <2>2, <2>3 DEF IsTarget, IsFirst
<1>5. CASE k # len /\ ~(k \in 1 .. len - 1)
  <2>1. ~(k \in 1 .. Len(list)) /\ ~(k \in 1 .. Len(Tail(list))) /\ k # Len(list)
    BY <1>1, <1>5
  <2> QED BY <1>2, <2>1 DEF IsTarget, IsFirst
<1> QED BY <1>3, <1>4, <1>5

(* The packets of a message, by their parts. *)
LEMMA SamePacket ==
    ASSUME NEW q \in Packet, NEW t, NEW n, NEW targets \in Seq(HasDevices), NEW i \in 1 .. Len(targets)
    PROVE  q = PacketFor(t, n, targets, i) <=>
             /\ q[1].from = t /\ q[1].n = n /\ q[2] = round[t]
             /\ q[1].left = Len(targets) + 1 - i /\ q[1].to = targets[i]
BY PacketParts DEF PacketFor

LEMMA FirstPacket ==
    ASSUME NEW q \in Packet, NEW t, NEW n, NEW targets \in Seq(HasDevices), targets # <<>>
    PROVE  q = PacketFor(t, n, targets, 1) <=>
             q[1].from = t /\ q[1].n = n /\ q[2] = round[t] /\ IsFirst(targets, q[1])
<1>1. 1 \in 1 .. Len(targets) /\ Len(targets) + 1 - 1 = Len(targets) /\ Head(targets) = targets[1]
  BY RestOfTargets
<1> QED BY <1>1, SamePacket DEF IsFirst

LEMMA AllPackets ==
    ASSUME NEW q \in Packet, NEW t, NEW n, NEW targets \in Seq(HasDevices)
    PROVE  q \in PacketsFor(t, n, targets) <=>
             q[1].from = t /\ q[1].n = n /\ q[2] = round[t] /\ IsTarget(targets, q[1])
<1>1. PICK len \in Nat : len = Len(targets)
  OBVIOUS
<1>2. ASSUME NEW i \in 1 .. Len(targets), q = PacketFor(t, n, targets, i)
      PROVE  q[1].from = t /\ q[1].n = n /\ q[2] = round[t] /\ IsTarget(targets, q[1])
  <2>1. q[1].left = Len(targets) + 1 - i /\ q[1].left \in 1 .. Len(targets)
        /\ Len(targets) + 1 - q[1].left = i
    BY <1>1, <1>2, SamePacket
  <2> QED BY <1>2, <2>1, SamePacket DEF IsTarget
<1>3. ASSUME q[1].from = t /\ q[1].n = n /\ q[2] = round[t] /\ IsTarget(targets, q[1])
      PROVE  \E i \in 1 .. Len(targets) : q = PacketFor(t, n, targets, i)
  <2>1. q[1].left \in 1 .. len /\ q[1].to = targets[Len(targets) + 1 - q[1].left]
    BY <1>1, <1>3 DEF IsTarget
  <2>2. Len(targets) + 1 - q[1].left \in 1 .. Len(targets)
    BY <1>1, <2>1
  <2>3. PICK i \in 1 .. Len(targets) : i = Len(targets) + 1 - q[1].left
    BY <2>2
  <2>4. q[1].left = Len(targets) + 1 - i /\ q[1].to = targets[i]
    BY <1>1, <2>1, <2>3
  <2>5. q = PacketFor(t, n, targets, i)
    BY <1>3, <2>4, SamePacket
  <2> QED BY <2>5
<1> QED BY <1>2, <1>3 DEF PacketsFor

LEMMA PacketsArePackets ==
    ASSUME Types, NEW t \in HasDevices, NEW n \in 1 .. MaxSends,
           NEW targets \in Seq(HasDevices), Len(targets) <= MaxTargets
    PROVE  /\ PacketsFor(t, n, targets) \subseteq Packet
           /\ targets # <<>> => PacketFor(t, n, targets, 1) \in Packet
<1>1. ASSUME NEW i \in 1 .. Len(targets) PROVE PacketFor(t, n, targets, i) \in Packet
  <2>1. targets[i] \in HasDevices /\ round[t] \in Round
    BY MachineAssumption DEF Types
  <2>2. Len(targets) + 1 - i \in 1 .. MaxTargets
    BY MachineAssumption
  <2> QED BY <2>1, <2>2 DEF PacketFor, Packet, Message
<1>2. targets # <<>> => 1 \in 1 .. Len(targets)
  BY RestOfTargets
<1> QED BY <1>1, <1>2 DEF PacketsFor

(* A message is prepared: of its packets the first is in the send slot and *)
(* the others are to be sent.                                              *)
LEMMA PrepareIInv ==
    ASSUME IInv, NEW t \in HasDevices, NEW targets \in TargetLists[t] \cup {<<>>}, Prepare(t, targets)
    PROVE  IInv'
<1>1. /\ mode[t] = "run" /\ slot[t] = None /\ todo[t] = <<>> /\ t \in Thread
      /\ sent[t] < MaxSends /\ sent[t] \in Nat /\ MaxSends \in Nat
  BY MachineAssumption DEF Prepare, DoSend, CanSend, WantToSend, IInv, Types, Senders
<1>2. PICK n \in 1 .. MaxSends : n = sent[t] + 1
  BY <1>1
<1>3. /\ sent' = [sent EXCEPT ![t] = n] /\ sent'[t] = n
      /\ owed' = owed \cup PacketsFor(t, n, targets)
      /\ UNCHANGED <<mode, net, inbox, round>> /\ HandlerRan(t)
  BY <1>1, <1>2 DEF Prepare, IInv, Types
<1>4. targets \in Seq(HasDevices) /\ Len(targets) <= MaxTargets
  BY TargetsFit
<1>5. /\ PacketsFor(t, n, targets) \subseteq Packet
      /\ targets # <<>> => PacketFor(t, n, targets, 1) \in Packet
  BY <1>4, PacketsArePackets DEF IInv
<1>6. /\ wants' \in [Thread -> BOOLEAN] /\ computes' \in [Thread -> BOOLEAN]
      /\ sent' \in [Thread -> 0 .. MaxSends]
      /\ \A u \in Thread : /\ wants'[u] => u \in HasDevices /\ sent'[u] < MaxSends
                           /\ computes'[u] => u \in HasDevices
                           /\ u # t => sent'[u] = sent[u]
  <2>1. /\ wants' \in [Thread -> BOOLEAN] /\ computes' \in [Thread -> BOOLEAN]
        /\ \A u \in Thread \ {t} : wants'[u] = wants[u] /\ computes'[u] = computes[u]
        /\ wants'[t] => sent'[t] < MaxSends
    BY <1>3, HandlerWants DEF IInv
  <2>2. sent' \in [Thread -> 0 .. MaxSends]
    BY <1>1, <1>3 DEF IInv, Types
  <2>3. \A u \in Thread : u # t => sent'[u] = sent[u]
    BY <1>3 DEF IInv, Types
  <2>4. /\ wants'[t] => t \in HasDevices /\ sent'[t] < MaxSends
        /\ computes'[t] => t \in HasDevices
    BY <2>1
  <2>5. ASSUME NEW u \in Thread, u # t
        PROVE  /\ wants'[u] => u \in HasDevices /\ sent'[u] < MaxSends
               /\ computes'[u] => u \in HasDevices
    BY <2>1, <2>3, <2>5 DEF IInv, Senders
  <2> QED BY <2>1, <2>2, <2>3, <2>4, <2>5
<1>7. InRound'
  <2>1. \A u \in Thread : Current(u)' = Current(u)
    BY <1>3 DEF Current
  <2>2. ASSUME NEW p \in owed
        PROVE  mode'[p[1].from] # "woken" /\ p[2] = round'[p[1].from] /\ p[1].n <= sent'[p[1].from]
    BY <1>1, <1>2, <1>3, PacketParts DEF IInv, Types, InRound
  <2>3. ASSUME NEW p \in PacketsFor(t, n, targets)
        PROVE  mode'[p[1].from] # "woken" /\ p[2] = round'[p[1].from] /\ p[1].n <= sent'[p[1].from]
    <3>1. p[1].from = t /\ p[1].n = n /\ p[2] = round[t]
      BY <1>4, <1>5, AllPackets
    <3> QED BY <1>1, <1>2, <1>3, <3>1
  <2> QED BY <1>3, <2>1, <2>2, <2>3 DEF InRound, IInv
<1>8. CASE targets = <<>>
  <2>1. UNCHANGED <<todo, slot>> /\ owed' = owed
    BY <1>3, <1>8 DEF Prepare, Transmit, PacketsFor
  <2>2. Types' /\ Senders' /\ Homes'
    <3>1. Types'
      BY <1>3, <1>6, <2>1 DEF IInv, Types
    <3>2. Senders'
      BY <1>1, <1>3, <1>6, <2>1 DEF IInv, Types, Senders
    <3> QED BY <1>3, <2>1, <3>1, <3>2 DEF IInv, Homes
  <2>3. ASSUME NEW q \in Packet PROVE Located(q)'
    <3>1. ToSend(q)' <=> ToSend(q)
      BY <1>1, <1>3, <2>1, PacketParts DEF IInv, Types, ToSend, IsTarget
    <3> QED BY <1>3, <2>1, <3>1 DEF Located, InSlot, InNet, InInbox, IInv
  <2> QED BY <1>7, <2>2, <2>3 DEF IInv
<1>9. CASE targets # <<>>
  <2>1. PICK first \in Packet, rest \in Seq(HasDevices) :
           first = PacketFor(t, n, targets, 1) /\ rest = Tail(targets) /\ Len(rest) <= MaxTargets
    <3>1. Tail(targets) \in Seq(HasDevices) /\ Len(Tail(targets)) <= MaxTargets
      BY <1>4, <1>9, RestOfTargets, MachineAssumption
    <3> QED BY <1>5, <1>9, <3>1
  <2>2. todo' = [todo EXCEPT ![t] = rest] /\ slot' = [slot EXCEPT ![t] = first]
    BY <1>3, <1>9, <2>1 DEF Prepare, Transmit
  <2>3. Types'
    BY <1>1, <1>3, <1>5, <1>6, <2>1, <2>2 DEF IInv, Types
  <2>4. Senders'
    BY <1>1, <1>2, <1>3, <1>6, <2>1, <2>2 DEF IInv, Types, Senders
  <2>5. Homes'
    <3>1. first[1].from = t
      BY <2>1 DEF PacketFor
    <3> QED BY <1>1, <1>3, <2>2, <3>1 DEF IInv, Types, Homes
  <2>6. ASSUME NEW q \in Packet PROVE Located(q)'
    <3>1. PICK m \in Message : m = q[1] /\ m.from \in Thread /\ m.left \in Nat
      BY PacketParts DEF Packet
    <3>2. (InNet(q)' <=> InNet(q)) /\ (InInbox(q)' <=> InInbox(q)) /\ Located(q)
      BY <1>3 DEF InNet, InInbox, IInv
    <3>3. q \in owed' <=> q \in owed \/ (m.from = t /\ m.n = n /\ q[2] = round[t] /\ IsTarget(targets, m))
      BY <1>3, <1>4, <3>1, AllPackets
    <3>4. CASE m.from # t
      <4>1. ToSend(q)' <=> ToSend(q)
        BY <1>3, <2>2, <3>1, <3>4 DEF ToSend, IInv, Types
      <4>2. InSlot(q)' <=> InSlot(q)
        BY <2>2, <3>1, <3>4 DEF InSlot, IInv, Types
      <4> QED BY <3>2, <3>3, <3>4, <4>1, <4>2 DEF Located
    <3>5. CASE m.from = t
      <4>1. ~ToSend(q) /\ ~InSlot(q)
        BY <1>1, <3>1, <3>5, NoneAssumption DEF ToSend, InSlot, IsTarget
      <4>2. m.n = n => q \notin owed
        BY <1>1, <1>2, <3>1, <3>5 DEF IInv, InRound
      <4>3. InSlot(q)' <=> q = first
        BY <1>1, <2>2, <3>1, <3>5 DEF InSlot, IInv, Types
      <4>4. InSlot(q)' <=> m.n = n /\ q[2] = round[t] /\ IsFirst(targets, m)
        BY <1>4, <1>9, <2>1, <3>1, <3>5, <4>3, FirstPacket
      <4>5. ToSend(q)' <=> m.n = n /\ q[2] = round[t] /\ IsTarget(rest, m)
        BY <1>1, <1>3, <2>2, <3>1, <3>5 DEF ToSend, IInv, Types
      <4>6. /\ IsTarget(targets, m) <=> IsFirst(targets, m) \/ IsTarget(rest, m)
            /\ ~(IsFirst(targets, m) /\ IsTarget(rest, m))
        BY <1>4, <1>9, <2>1, <3>1, FirstOrRest
      <4> QED BY <3>2, <3>3, <3>5, <4>1, <4>2, <4>4, <4>5, <4>6 DEF Located
    <3> QED BY <3>4, <3>5
  <2> QED BY <1>7, <2>3, <2>4, <2>5, <2>6 DEF IInv
<1> QED BY <1>8, <1>9

(* The packet for the next target goes to the send slot. *)
LEMMA ForwardIInv == ASSUME IInv, NEW t \in Thread, Forward(t)
                     PROVE  IInv'
<1>1. /\ mode[t] = "run" /\ slot[t] = None /\ todo[t] # <<>> /\ t \in HasDevices
      /\ todo[t] \in Seq(HasDevices) /\ Len(todo[t]) <= MaxTargets /\ sent[t] \in 1 .. MaxSends
  BY MachineAssumption DEF Forward, DoSend, CanSend, IInv, Types, Senders
<1>2. PICK targets \in Seq(HasDevices), n \in 1 .. MaxSends :
         targets = todo[t] /\ n = sent[t] /\ targets # <<>> /\ Len(targets) <= MaxTargets
  BY <1>1
<1>3. PICK first \in Packet, rest \in Seq(HasDevices) :
         first = PacketFor(t, n, targets, 1) /\ rest = Tail(targets) /\ Len(rest) <= MaxTargets
  <2>1. PacketFor(t, n, targets, 1) \in Packet
    BY <1>1, <1>2, PacketsArePackets DEF IInv
  <2>2. Tail(targets) \in Seq(HasDevices) /\ Len(Tail(targets)) <= MaxTargets
    BY <1>2, RestOfTargets, MachineAssumption
  <2> QED BY <2>1, <2>2
<1>4. /\ todo' = [todo EXCEPT ![t] = rest] /\ slot' = [slot EXCEPT ![t] = first]
      /\ UNCHANGED <<mode, wants, computes, sent, net, inbox, round, owed>>
  BY <1>1, <1>2, <1>3 DEF Forward, Transmit
<1>5. Types'
  BY <1>3, <1>4 DEF IInv, Types
<1>6. Senders'
  BY <1>1, <1>3, <1>4 DEF IInv, Types, Senders
<1>7. Homes' /\ InRound'
  <2>1. first[1].from = t
    BY <1>3 DEF PacketFor
  <2> QED BY <1>4, <2>1 DEF IInv, Types, Homes, InRound, Current
<1>8. ASSUME NEW q \in Packet PROVE Located(q)'
  <2>1. PICK m \in Message : m = q[1] /\ m.from \in Thread /\ m.left \in Nat
    BY PacketParts DEF Packet
  <2>2. (InNet(q)' <=> InNet(q)) /\ (InInbox(q)' <=> InInbox(q)) /\ Located(q) /\ owed' = owed
    BY <1>4 DEF InNet, InInbox, IInv
  <2>3. CASE m.from # t
    <3>1. ToSend(q)' <=> ToSend(q)
      BY <1>4, <2>1, <2>3 DEF ToSend, IInv, Types
    <3>2. InSlot(q)' <=> InSlot(q)
      BY <1>4, <2>1, <2>3 DEF InSlot, IInv, Types
    <3> QED BY <2>2, <3>1, <3>2 DEF Located
  <2>4. CASE m.from = t
    <3>1. ~InSlot(q)
      BY <1>1, <2>1, <2>4, NoneAssumption DEF InSlot
    <3>2. InSlot(q)' <=> q = first
      BY <1>4, <2>1, <2>4 DEF InSlot, IInv, Types
    <3>3. InSlot(q)' <=> m.n = n /\ q[2] = round[t] /\ IsFirst(targets, m)
      BY <1>2, <1>3, <2>1, <2>4, <3>2, FirstPacket
    <3>4. ToSend(q)' <=> m.n = n /\ q[2] = round[t] /\ IsTarget(rest, m)
      BY <1>2, <1>4, <2>1, <2>4 DEF ToSend, IInv, Types
    <3>5. ToSend(q) <=> m.n = n /\ q[2] = round[t] /\ IsTarget(targets, m)
      BY <1>2, <2>1, <2>4 DEF ToSend
    <3>6. /\ IsTarget(targets, m) <=> IsFirst(targets, m) \/ IsTarget(rest, m)
          /\ ~(IsFirst(targets, m) /\ IsTarget(rest, m))
      BY <1>2, <1>3, <2>1, FirstOrRest
    <3> QED BY <2>2, <3>1, <3>3, <3>4, <3>5, <3>6 DEF Located
  <2> QED BY <2>3, <2>4
<1> QED BY <1>5, <1>6, <1>7, <1>8 DEF IInv

(* Steps that neither move a packet nor pass a round. *)
LEMMA StayIInv ==
    ASSUME IInv, NEW t \in Thread, Compute(t) \/ EnterIdle(t) \/ LeaveIdle(t)
    PROVE  IInv'
<1>1. /\ UNCHANGED <<sent, todo, slot, net, inbox, round, owed>>
      /\ \A u \in Thread : /\ mode[u] = "woken" <=> mode'[u] = "woken"
                           /\ todo[u] # <<>> => mode'[u] = mode[u]
  BY DEF IInv, Types, Compute, EnterIdle, LeaveIdle, WantToSend, Senders
<1>2. /\ wants' \in [Thread -> BOOLEAN] /\ computes' \in [Thread -> BOOLEAN]
      /\ \A u \in Thread : /\ wants'[u] => u \in HasDevices /\ sent[u] < MaxSends
                           /\ computes'[u] => u \in HasDevices
  <2>1. CASE Compute(t)
    <3>1. t \in HasDevices /\ HandlerRan(t) /\ sent' = sent
      BY <2>1 DEF Compute, IInv, Senders
    <3> QED BY <3>1, HandlerWants DEF IInv, Types, Senders
  <2>2. CASE EnterIdle(t) \/ LeaveIdle(t)
    BY <2>2 DEF EnterIdle, LeaveIdle, IInv, Types, Senders
  <2> QED BY <2>1, <2>2
<1>3. mode' \in [Thread -> {"run", "idle", "woken"}]
  BY DEF IInv, Types, Compute, EnterIdle, LeaveIdle
<1>4. Types' /\ Senders'
  BY <1>1, <1>2, <1>3 DEF IInv, Types, Senders
<1>5. Homes' /\ InRound'
  BY <1>1, PacketParts DEF IInv, Types, Homes, InRound, Current
<1>6. ASSUME NEW q \in Packet PROVE Located(q)'
  BY <1>1 DEF IInv, Located, ToSend, InSlot, InNet, InInbox
<1> QED BY <1>4, <1>5, <1>6 DEF IInv

(* A woken thread enters the round the others are in or about to enter;    *)
(* none of its messages is under way.                                      *)
LEMMA HardwareIdleIInv == ASSUME IInv, NEW t \in Thread, HardwareIdle(t)
                          PROVE  IInv'
<1>1. /\ mode[t] = "woken" /\ mode'[t] \in {"run", "idle"} /\ mode' \in [Thread -> {"run", "idle", "woken"}]
      /\ \A u \in Thread \ {t} : mode'[u] = mode[u]
      /\ round' = [round EXCEPT ![t] = After(@)] /\ sent' = [sent EXCEPT ![t] = 0]
      /\ UNCHANGED <<todo, slot, net, inbox, owed>>
  BY DEF HardwareIdle, IInv, Types
<1>2. todo[t] = <<>> /\ After(round[t]) \in Round /\ 0 \in 0 .. MaxSends
  BY <1>1, RoundParts, MachineAssumption DEF IInv, Types, Senders
<1>3. /\ wants' \in [Thread -> BOOLEAN] /\ computes' \in [Thread -> BOOLEAN]
      /\ \A u \in Thread : /\ wants'[u] => u \in HasDevices /\ sent'[u] < MaxSends
                           /\ computes'[u] => u \in HasDevices
  <2>1. CASE t \in HasDevices
    <3>1. /\ wants' \in [Thread -> BOOLEAN] /\ computes' \in [Thread -> BOOLEAN]
          /\ \A u \in Thread \ {t} : wants'[u] = wants[u] /\ computes'[u] = computes[u]
          /\ wants'[t] => sent'[t] < MaxSends
      BY <2>1, HandlerWants DEF HardwareIdle, IInv
    <3> QED BY <1>1, <2>1, <3>1 DEF IInv, Types, Senders
  <2>2. CASE t \notin HasDevices
    BY <1>1, <2>2 DEF HardwareIdle, IInv, Types, Senders
  <2> QED BY <2>1, <2>2
<1>4. Types'
  BY <1>1, <1>2, <1>3 DEF IInv, Types
<1>5. Senders'
  BY <1>1, <1>2, <1>3 DEF IInv, Types, Senders
<1>6. Homes'
  BY <1>1 DEF IInv, Homes
<1>7. InRound'
  <2>1. \A u \in Thread : Current(u)' = Current(u)
    BY <1>1 DEF IInv, Types, Current
  <2>2. \A p \in owed : p[1].from # t
    BY <1>1 DEF IInv, InRound
  <2> QED BY <1>1, <2>1, <2>2, PacketParts DEF IInv, Types, InRound
<1>8. ASSUME NEW q \in Packet PROVE Located(q)'
  <2>1. ToSend(q)' <=> ToSend(q)
    BY <1>1, <1>2, PacketParts DEF IInv, Types, ToSend, IsTarget
  <2> QED BY <1>1, <2>1 DEF IInv, Located, InSlot, InNet, InInbox
<1> QED BY <1>4, <1>5, <1>6, <1>7, <1>8 DEF IInv

-----------------------------------------------------------------------------
(* Steps of the hardware. *)

LEMMA NetTakeIInv == ASSUME IInv, NEW t \in Thread, NetTake(t)
                     PROVE  IInv'
<1>1. slot[t] # None /\ slot[t] \in Packet /\ slot[t][1].from = t
  BY DEF NetTake, IInv, Types, Homes
<1>2. PICK p \in Packet : p = slot[t]
  BY <1>1
<1>3. /\ net' = net \cup {p} /\ slot' = [slot EXCEPT ![t] = None]
      /\ UNCHANGED <<mode, wants, computes, sent, todo, round, inbox, owed>>
  BY <1>2 DEF NetTake, threadVars
<1>4. Types' /\ Senders' /\ InRound'
  BY <1>3 DEF IInv, Types, Senders, InRound, Current
<1>5. Homes'
  BY <1>3 DEF IInv, Types, Homes
<1>6. ASSUME NEW q \in Packet PROVE Located(q)'
  <2>1. (ToSend(q)' <=> ToSend(q)) /\ (InInbox(q)' <=> InInbox(q)) /\ Located(q)
    BY <1>3 DEF IInv, ToSend, InInbox
  <2>2. InSlot(q)' <=> InSlot(q) /\ q # p
    BY <1>1, <1>2, <1>3, PacketParts, NoneAssumption DEF InSlot, IInv, Types
  <2>3. InNet(q)' <=> InNet(q) \/ q = p
    BY <1>3 DEF InNet
  <2>4. InSlot(p)
    BY <1>1, <1>2 DEF InSlot
  <2> QED BY <1>3, <2>1, <2>2, <2>3, <2>4 DEF Located
<1> QED BY <1>4, <1>5, <1>6 DEF IInv

LEMMA NetDeliverIInv == ASSUME IInv, NEW p \in net, NetDeliver(p)
                        PROVE  IInv'
<1>1. p \in Packet /\ p[1].to \in Thread
  BY PacketParts DEF IInv, Types
<1>2. /\ inbox' = [inbox EXCEPT ![p[1].to] = @ \cup {p}] /\ net' = net \ {p}
      /\ UNCHANGED <<mode, wants, computes, sent, todo, round, slot, owed>>
  BY DEF NetDeliver, threadVars
<1>3. Types' /\ Senders' /\ InRound'
  BY <1>1, <1>2 DEF IInv, Types, Senders, InRound, Current
<1>4. Homes'
  BY <1>1, <1>2 DEF IInv, Types, Homes
<1>5. ASSUME NEW q \in Packet PROVE Located(q)'
  <2>1. (ToSend(q)' <=> ToSend(q)) /\ (InSlot(q)' <=> InSlot(q)) /\ Located(q)
    BY <1>2 DEF IInv, ToSend, InSlot
  <2>2. InInbox(q)' <=> InInbox(q) \/ q = p
    BY <1>1, <1>2, PacketParts DEF InInbox, IInv, Types
  <2>3. (InNet(q)' <=> InNet(q) /\ q # p) /\ InNet(p)
    BY <1>2 DEF InNet
  <2> QED BY <1>2, <2>1, <2>2, <2>3 DEF Located
<1> QED BY <1>3, <1>4, <1>5 DEF IInv

(* An idle machine owes nothing. *)
LEMMA IdleOwesNothing == ASSUME IInv, MachineIdle
                         PROVE  owed = {}
<1> SUFFICES ASSUME NEW p \in owed PROVE FALSE
  OBVIOUS
<1>1. p \in Packet /\ Located(p) /\ p[1].from \in Thread /\ p[1].to \in Thread
  BY PacketParts DEF IInv, Types
<1>2. todo[p[1].from] = <<>>
  BY <1>1 DEF MachineIdle, IInv, Senders
<1>3. ~ToSend(p)
  BY <1>1, <1>2, PacketParts DEF ToSend, IsTarget
<1>4. ~InSlot(p) /\ ~InNet(p) /\ ~InInbox(p)
  BY <1>1, NoneAssumption DEF MachineIdle, InSlot, InNet, InInbox
<1> QED BY <1>1, <1>3, <1>4 DEF Located

LEMMA MachineIdleIInv == ASSUME IInv, MachineIdle
                         PROVE  IInv'
<1>1. /\ \A t \in Thread : mode[t] = "idle" /\ mode'[t] = "woken"
      /\ mode' = [t \in Thread |-> "woken"]
      /\ UNCHANGED <<wants, computes, sent, todo, slot, net, inbox, round, owed>>
  BY DEF MachineIdle
<1>2. Types' /\ Homes'
  BY <1>1 DEF IInv, Types, Homes
<1>3. Senders'
  BY <1>1 DEF IInv, Types, Senders
<1>4. InRound'
  <2>1. \A t, u \in Thread : round[t] = round[u]
    BY <1>1 DEF IInv, InRound, Current
  <2>2. \A t, u \in Thread : Current(t)' = Current(u)'
    BY <1>1, <2>1 DEF Current
  <2> QED BY <1>1, <2>2, IdleOwesNothing DEF InRound
<1>5. ASSUME NEW q \in Packet PROVE Located(q)'
  BY <1>1 DEF IInv, Located, ToSend, InSlot, InNet, InInbox
<1> QED BY <1>2, <1>3, <1>4, <1>5 DEF IInv

-----------------------------------------------------------------------------
(* Every packet owed is in one place, sent in the round of its receiver or *)
(* the one its receiver is about to enter.                                 *)
THEOREM MachineInvariant == Spec => []IInv
<1>1. IInv /\ [Next]_vars => IInv'
  <2> SUFFICES ASSUME IInv, [Next]_vars PROVE IInv'
    OBVIOUS
  <2>1. CASE UNCHANGED vars
    BY <2>1 DEF IInv, Types, Senders, Homes, InRound, Current, Located,
                ToSend, InSlot, InNet, InInbox, vars, threadVars
  <2>2. CASE Hardware
    BY <2>2, MachineIdleIInv, NetTakeIInv, NetDeliverIInv DEF Hardware
  <2>3. ASSUME NEW t \in Thread, Step(t) PROVE IInv'
    <3>1. ASSUME NEW p \in inbox[t], Receive(t, p) PROVE IInv'
      BY <3>1, ReceiveIInv
    <3>2. ASSUME t \in HasDevices, NEW targets \in TargetLists[t] \cup {<<>>}, Prepare(t, targets)
          PROVE  IInv'
      BY <3>2, PrepareIInv
    <3> QED BY <2>3, <3>1, <3>2, ForwardIInv, StayIInv, HardwareIdleIInv DEF Step, Proceed
  <2> QED BY <2>1, <2>2, <2>3 DEF Next
<1> QED BY InitIInv, <1>1, PTL DEF Spec

-----------------------------------------------------------------------------
(* The places of a packet, in terms of its sender and its receiver. *)
LEMMA PlacesOf == ASSUME IInv, NEW p \in Packet
                  PROVE  /\ ToSend(p) <=> <<"todo", p[1].from>> \in Places(p)
                         /\ InSlot(p) <=> <<"slot", p[1].from>> \in Places(p)
                         /\ InNet(p) <=> <<"net", None>> \in Places(p)
                         /\ InInbox(p) <=> <<"inbox", p[1].to>> \in Places(p)
                         /\ Places(p) \subseteq {<<"todo", p[1].from>>, <<"slot", p[1].from>>,
                                                 <<"net", None>>, <<"inbox", p[1].to>>}
<1> DEFINE from == p[1].from
           to == p[1].to
<1>1. from \in Thread /\ to \in Thread
  BY PacketParts
<1>2. \A t \in Thread : p \in Unsent(t) <=> t = from /\ ToSend(p)
  BY AllPackets DEF Unsent, ToSend, IInv, Types
<1>3. \A t \in Thread : slot[t] = p <=> t = from /\ InSlot(p)
  BY NoneAssumption DEF InSlot, IInv, Homes
<1>4. \A t \in Thread : p \in inbox[t] <=> t = to /\ InInbox(p)
  BY DEF InInbox, IInv, Homes
<1> HIDE DEF from, to
<1>5. {<<"todo", t>> : t \in {u \in Thread : p \in Unsent(u)}} = IF ToSend(p) THEN {<<"todo", from>>} ELSE {}
  BY <1>1, <1>2
<1>6. {<<"slot", t>> : t \in {u \in Thread : slot[u] = p}} = IF InSlot(p) THEN {<<"slot", from>>} ELSE {}
  BY <1>1, <1>3
<1>7. {<<"inbox", t>> : t \in {u \in Thread : p \in inbox[u]}} = IF InInbox(p) THEN {<<"inbox", to>>} ELSE {}
  BY <1>1, <1>4
<1>8. Places(p) = (IF ToSend(p) THEN {<<"todo", from>>} ELSE {})
                  \cup (IF InSlot(p) THEN {<<"slot", from>>} ELSE {})
                  \cup (IF InNet(p) THEN {<<"net", None>>} ELSE {})
                  \cup (IF InInbox(p) THEN {<<"inbox", to>>} ELSE {})
  BY <1>5, <1>6, <1>7 DEF Places, InNet
<1> QED BY <1>8 DEF from, to

(* Each target of a message is sent it once and has it handled once. *)
THEOREM ExactlyOnceCorrect == Spec => []ExactlyOnce
<1>1. ASSUME IInv, NEW p \in Packet
      PROVE  IF p \in owed THEN \E l \in Places(p) : Places(p) = {l} ELSE Places(p) = {}
  <2>1. Located(p)
    BY <1>1 DEF IInv
  <2>2. CASE ToSend(p)
    BY <1>1, <2>1, <2>2, PlacesOf DEF Located
  <2>3. CASE InSlot(p)
    BY <1>1, <2>1, <2>3, PlacesOf DEF Located
  <2>4. CASE InNet(p)
    BY <1>1, <2>1, <2>4, PlacesOf DEF Located
  <2>5. CASE InInbox(p)
    BY <1>1, <2>1, <2>5, PlacesOf DEF Located
  <2>6. CASE ~ToSend(p) /\ ~InSlot(p) /\ ~InNet(p) /\ ~InInbox(p)
    BY <1>1, <2>1, <2>6, PlacesOf DEF Located
  <2> QED BY <2>2, <2>3, <2>4, <2>5, <2>6
<1>2. IInv => ExactlyOnce
  BY <1>1 DEF ExactlyOnce
<1> QED BY MachineInvariant, <1>2, PTL

-----------------------------------------------------------------------------
(* The rounds. *)

(* A device's send is a send of what goes to its targets. *)
LEMMA PrepareSends ==
    ASSUME IInv, NEW t \in HasDevices, NEW targets \in TargetLists[t] \cup {<<>>}, Prepare(t, targets)
    PROVE  R!Send(t)
<1>1. sent[t] < MaxSends /\ sent[t] \in Nat /\ MaxSends \in Nat /\ t \in Thread
  BY MachineAssumption DEF Prepare, DoSend, WantToSend, IInv, Types, Senders
<1>2. PICK n \in 1 .. MaxSends : n = sent[t] + 1 /\ n = sent'[t]
  BY <1>1 DEF Prepare, IInv, Types
<1>3. targets \in Seq(HasDevices) /\ Len(targets) <= MaxTargets
  BY TargetsFit
<1>4. owed' = owed \cup PacketsFor(t, n, targets) /\ UNCHANGED round
  BY <1>2 DEF Prepare
<1>5. ASSUME NEW p \in PacketsFor(t, n, targets)
      PROVE  /\ p \in {m \in Message : m.from = t} \X {round[t]}
             /\ \A r \in Round : <<p[1], r>> \notin owed
  <2>1. p \in Packet
    BY <1>3, PacketsArePackets DEF IInv
  <2>2. p[1].from = t /\ p[1].n = n /\ p[2] = round[t]
    BY <1>3, <2>1, AllPackets
  <2>3. p \in {m \in Message : m.from = t} \X {round[t]}
    BY <2>1, <2>2 DEF Packet
  <2>4. ASSUME NEW r \in Round, <<p[1], r>> \in owed PROVE FALSE
    BY <1>1, <1>2, <2>2, <2>4 DEF IInv, InRound
  <2> QED BY <2>3, <2>4
<1>6. /\ owed \subseteq owed'
      /\ owed' \ owed \subseteq {m \in Message : m.from = t} \X {round[t]}
  BY <1>4, <1>5
<1>7. \A p \in owed' \ owed, r \in Round : <<p[1], r>> \notin owed
  BY <1>4, <1>5
<1> QED BY <1>4, <1>6, <1>7 DEF R!Send, R!Round, Round

LEMMA ReceiveDelivers == ASSUME IInv, NEW t \in Thread, NEW p \in inbox[t], Receive(t, p)
                         PROVE  \E m \in Message : R!Deliver(t, m)
<1>1. /\ p \in Packet /\ p[1] \in Message /\ p[1].to = t /\ p[1].from \in Thread
      /\ p = <<p[1], p[2]>>
  BY PacketParts DEF IInv, Types, Homes, Packet
<1>2. p \in owed
  BY <1>1 DEF IInv, Located, InInbox
<1>3. p[2] = round[t]
  BY <1>1, <1>2 DEF Receive, DoRecv, IInv, InRound, Current
<1>4. R!Deliver(t, p[1])
  BY <1>1, <1>2, <1>3 DEF Receive, R!Deliver
<1> QED BY <1>1, <1>4

LEMMA HardwareIdlePasses == ASSUME IInv, NEW t \in Thread, HardwareIdle(t)
                            PROVE  R!Pass(t)
<1>1. mode[t] = "woken" /\ round' = [round EXCEPT ![t] = After(@)] /\ UNCHANGED owed
  BY DEF HardwareIdle
<1>2. ASSUME NEW u \in Thread
      PROVE  IF mode[u] = "woken" THEN round[u] = round[t]
                                  ELSE round[u] = After(round[t]) /\ round[u] # round[t]
  BY <1>1, RoundParts DEF IInv, Types, InRound, Current
<1>3. ASSUME \A u \in Thread : round[u] = round[t] PROVE owed = {}
  <2>1. ASSUME NEW p \in owed PROVE FALSE
    BY <1>2, <1>3, PacketParts DEF IInv, Types, InRound
  <2> QED BY <2>1
<1>4. \A u \in Thread : round[u] \in {round[t], R!After(round[t])}
  BY <1>2 DEF R!After, After
<1>5. round' = [round EXCEPT ![t] = R!After(@)]
  BY <1>1 DEF R!After, After
<1> QED BY <1>1, <1>3, <1>4, <1>5 DEF R!Pass

(* The threads' steps are sends, deliveries and passes of rounds. *)
THEOREM MachineRefinesRounds == Spec => ImplementsRounds
<1>1. Init => R!Init
  BY DEF Init, R!Init
<1>2. IInv /\ [Next]_vars => [R!Next]_<<round, owed>>
  <2> SUFFICES ASSUME IInv, [Next]_vars PROVE R!Next \/ UNCHANGED <<round, owed>>
    OBVIOUS
  <2>1. CASE UNCHANGED vars
    BY <2>1 DEF vars, threadVars
  <2>2. CASE Hardware
    BY <2>2 DEF Hardware, MachineIdle, NetTake, NetDeliver, threadVars
  <2>3. ASSUME NEW t \in Thread, Step(t) PROVE R!Next \/ UNCHANGED <<round, owed>>
    <3>1. ASSUME NEW p \in inbox[t], Receive(t, p) PROVE R!Next
      BY <3>1, ReceiveDelivers DEF R!Next
    <3>2. ASSUME t \in HasDevices, NEW targets \in TargetLists[t] \cup {<<>>}, Prepare(t, targets)
          PROVE  R!Next
      BY <3>2, PrepareSends DEF R!Next
    <3>3. CASE HardwareIdle(t)
      BY <3>3, HardwareIdlePasses DEF R!Next
    <3>4. CASE Forward(t) \/ Compute(t) \/ EnterIdle(t) \/ LeaveIdle(t)
      BY <3>4 DEF Forward, Compute, EnterIdle, LeaveIdle
    <3> QED BY <2>3, <3>1, <3>2, <3>3, <3>4 DEF Step, Proceed
  <2> QED BY <2>1, <2>2, <2>3 DEF Next
<1> QED BY <1>1, <1>2, MachineInvariant, PTL DEF Spec, ImplementsRounds, R!Spec

-----------------------------------------------------------------------------
(* Full mailboxes and a full network never stop the machine, for any       *)
(* threads, targets and capacities.  If no thread could take a step, every *)
(* mailbox would be empty, since a thread that runs or waits and has a     *)
(* packet can receive, or send; then the network could deliver all it      *)
(* holds and take what is in the send slots; and then no thread would have *)
(* anything to wait for but the machine's being idle, which it would be.   *)
THEOREM MachineNeverStuck == Spec => []NeverStuck
<1>1. IInv => NeverStuck
  <2> SUFFICES ASSUME IInv, ~NeverStuck PROVE FALSE
    OBVIOUS
  <2>1. mode \in [Thread -> {"run", "idle", "woken"}] /\ net \subseteq Packet
    BY DEF IInv, Types
  <2>2. \A t \in Thread : mode[t] # "woken"
    BY DEF NeverStuck
  <2>3. ASSUME NEW t \in Thread PROVE inbox[t] = {}
    <3> SUFFICES ASSUME CanRecv(t) PROVE FALSE
      BY DEF CanRecv
    <3>1. mode[t] = "run"
      BY <2>1, <2>2 DEF NeverStuck
    <3>2. CASE SendOverRecv /\ CanSend(t) /\ WantToSend(t)
      BY <3>1, <3>2 DEF NeverStuck, DoSend
    <3>3. CASE ~(SendOverRecv /\ CanSend(t) /\ WantToSend(t))
      BY <3>1, <3>3 DEF NeverStuck, DoRecv
    <3> QED BY <3>2, <3>3
  <2>4. RecvSlots \in Nat \ {0} /\ NetCapacity \in Nat \ {0}
    BY MachineAssumption
  <2>5. Cardinality({}) = 0
    BY FS_EmptySet
  <2>6. net = {}
    <3> SUFFICES ASSUME NEW p \in net PROVE FALSE
      OBVIOUS
    <3>1. inbox[p[1].to] = {}
      BY <2>1, <2>3, PacketParts
    <3>2. Cardinality(inbox[p[1].to]) < RecvSlots
      BY <2>4, <2>5, <3>1
    <3> QED BY <3>2 DEF NeverStuck
  <2>7. \A t \in Thread : slot[t] = None
    BY <2>4, <2>5, <2>6 DEF NeverStuck
  <2>8. ASSUME NEW t \in Thread PROVE mode[t] = "idle"
    <3> SUFFICES ASSUME mode[t] = "run" PROVE FALSE
      BY <2>1, <2>2
    <3>1. CanSend(t) /\ ~CanRecv(t)
      BY <2>3, <2>7 DEF CanSend, CanRecv
    <3> QED BY <3>1 DEF NeverStuck, DoSend
  <2> QED BY <2>3, <2>6, <2>7, <2>8 DEF NeverStuck
<1> QED BY <1>1, MachineInvariant, PTL

-----------------------------------------------------------------------------
(* Rounds go forward.  The measure of Machine: the stages that the         *)
(* messages of the round have reached and, while those stay, the settled   *)
(* threads.                                                                *)

LEMMA MessageParts ==
    ASSUME Types, NEW m \in Message
    PROVE  /\ m.from \in Thread /\ m.from \in HasDevices /\ m.to \in HasDevices
           /\ m.n \in 1 .. MaxSends
           /\ <<m, round[m.from]>> \in Packet
BY MachineAssumption DEF Message, Packet, Types

(* The packets still to be sent, one by one. *)
LEMMA UnsentIs == Types => \A p \in Packet : p \in Unsent(p[1].from) <=> ToSend(p)
<1> SUFFICES ASSUME Types, NEW p \in Packet PROVE p \in Unsent(p[1].from) <=> ToSend(p)
  OBVIOUS
<1>1. p[1].from \in Thread
  BY PacketParts
<1>2. todo[p[1].from] \in Seq(HasDevices)
  BY <1>1 DEF Types
<1> QED BY <1>2, AllPackets DEF Unsent, ToSend

(* A packet that is owed is that of a message of this round. *)
LEMMA OwedNow ==
    ASSUME IInv, NEW p \in Packet, p \in owed
    PROVE  /\ p[1] \in Message /\ p = <<p[1], round[p[1].from]>>
           /\ p[1].n <= sent[p[1].from] /\ p[1].from \in Thread
<1>1. p[1] \in Message /\ p = <<p[1], p[2]>> /\ p[1].from \in Thread
  BY PacketParts DEF Packet
<1> QED BY <1>1 DEF IInv, InRound

(* What OnlyForward says of a step that brings a message forward. *)
Forwards == Progress \subseteq Progress' /\ Progress # Progress'

LEMMA StageGained ==
    ASSUME \A m \in Message, s \in Stage : Reached(m, s) => Reached(m, s)',
           NEW q \in Message, NEW r \in Stage, ~Reached(q, r), Reached(q, r)'
    PROVE  Forwards
<1>1. Progress \subseteq Progress'
  BY DEF Progress
<1>2. <<q, r>> \in Progress' /\ <<q, r>> \notin Progress
  BY DEF Progress
<1> QED BY <1>1, <1>2 DEF Forwards

LEMMA ReceiveForward == ASSUME IInv, NEW t \in Thread, NEW p \in inbox[t], Receive(t, p)
                        PROVE  Forwards
<1>1. p \in Packet /\ InInbox(p)
  BY DEF IInv, Types, Homes, InInbox
<1>2. p \in owed /\ ~ToSend(p) /\ ~InSlot(p) /\ ~InNet(p)
  BY <1>1 DEF IInv, Located
<1>3. /\ owed' = owed \ {p}
      /\ UNCHANGED <<sent, todo, slot, net, round>>
  BY DEF Receive
<1>4. PICK m \in Message : /\ m = p[1] /\ p = <<m, round[m.from]>>
                           /\ m.n <= sent[m.from] /\ m.from \in Thread
  BY <1>1, <1>2, OwedNow
<1>5. \A u : Unsent(u)' = Unsent(u)
  BY <1>3 DEF Unsent, PacketsFor, PacketFor
<1>6. \A q \in Message, s \in Stage : Reached(q, s) => Reached(q, s)'
  BY <1>3, <1>5 DEF Reached
<1>7. p \notin Unsent(m.from) /\ slot[m.from] # p /\ p \notin net
  BY <1>1, <1>2, <1>4, UnsentIs DEF InSlot, InNet, IInv
<1>8. ~Reached(m, "handled") /\ Reached(m, "handled")'
  BY <1>2, <1>3, <1>4, <1>5, <1>7 DEF Reached
<1> QED BY <1>6, <1>8, StageGained DEF Stage

LEMMA NetTakeForward == ASSUME IInv, NEW t \in Thread, NetTake(t)
                        PROVE  Forwards
<1>1. PICK p \in Packet : p = slot[t] /\ p # None /\ p[1].from = t
  BY NoneAssumption DEF NetTake, IInv, Types, Homes
<1>2. p \in owed /\ ~ToSend(p) /\ InSlot(p)
  BY <1>1 DEF IInv, Located, InSlot
<1>3. /\ net' = net \cup {p} /\ slot' = [slot EXCEPT ![t] = None]
      /\ UNCHANGED <<sent, todo, round, owed>>
  BY <1>1 DEF NetTake, threadVars
<1>4. PICK m \in Message : m = p[1] /\ p = <<m, round[m.from]>> /\ m.n <= sent[m.from]
  BY <1>1, <1>2, OwedNow
<1>5. \A u : Unsent(u)' = Unsent(u)
  BY <1>3 DEF Unsent, PacketsFor, PacketFor
<1>6. ASSUME NEW q \in Message, NEW s \in Stage, Reached(q, s) PROVE Reached(q, s)'
  <2>1. q.from \in Thread /\ <<q, round[q.from]>> \in Packet
    BY MessageParts DEF IInv
  <2>2. CASE s \in {"prepared", "sent"}
    BY <1>3, <1>5, <1>6, <2>2 DEF Reached
  <2>3. CASE s \in {"taken", "delivered", "handled"}
    <3>1. <<q, round[q.from]>> # p
      <4>1. slot[q.from] # <<q, round[q.from]>>
        BY <1>6, <2>3 DEF Reached
      <4>2. <<q, round[q.from]>> = p => q.from = t
        BY <1>1
      <4> QED BY <1>1, <4>1, <4>2, Zenon
    <3>2. slot'[q.from] # <<q, round[q.from]>>
      BY <1>3, <1>6, <2>1, <2>3, NoneAssumption DEF Reached, IInv, Types
    <3> QED BY <1>3, <1>5, <1>6, <3>1, <3>2 DEF Reached
  <2> QED BY <2>2, <2>3 DEF Stage
<1>7. ~Reached(m, "taken")
  BY <1>1, <1>4 DEF Reached
<1>8. Reached(m, "taken")'
  <2>1. p \notin Unsent(m.from) /\ slot'[m.from] # p
    BY <1>1, <1>2, <1>3, <1>4, UnsentIs DEF IInv, Types
  <2> QED BY <1>3, <1>4, <1>5, <2>1 DEF Reached
<1> QED BY <1>6, <1>7, <1>8, StageGained DEF Stage

LEMMA NetDeliverForward == ASSUME IInv, NEW p \in net, NetDeliver(p)
                           PROVE  Forwards
<1>1. p \in Packet /\ p \in owed /\ ~ToSend(p) /\ ~InSlot(p)
  BY DEF IInv, Types, Located, InNet
<1>2. net' = net \ {p} /\ UNCHANGED <<sent, todo, round, slot, owed>>
  BY DEF NetDeliver, threadVars
<1>3. PICK m \in Message : m = p[1] /\ p = <<m, round[m.from]>> /\ m.n <= sent[m.from]
  BY <1>1, OwedNow
<1>4. \A u : Unsent(u)' = Unsent(u)
  BY <1>2 DEF Unsent, PacketsFor, PacketFor
<1>5. \A q \in Message, s \in Stage : Reached(q, s) => Reached(q, s)'
  BY <1>2, <1>4 DEF Reached
<1>6. p \notin Unsent(m.from) /\ slot[m.from] # p
  BY <1>1, <1>3, UnsentIs DEF InSlot, IInv
<1>7. ~Reached(m, "delivered") /\ Reached(m, "delivered")'
  BY <1>2, <1>3, <1>4, <1>6 DEF Reached
<1> QED BY <1>5, <1>7, StageGained DEF Stage

LEMMA ForwardForward == ASSUME IInv, NEW t \in Thread, Forward(t)
                        PROVE  Forwards
<1>1. /\ todo[t] # <<>> /\ todo[t] \in Seq(HasDevices) /\ Len(todo[t]) <= MaxTargets
      /\ t \in HasDevices /\ sent[t] \in 1 .. MaxSends
  BY MachineAssumption DEF Forward, DoSend, IInv, Types, Senders
<1>2. PICK targets \in Seq(HasDevices), n \in 1 .. MaxSends :
         targets = todo[t] /\ n = sent[t] /\ targets # <<>> /\ Len(targets) <= MaxTargets
  BY <1>1
<1>3. PICK p \in Packet, rest \in Seq(HasDevices) :
         p = PacketFor(t, n, targets, 1) /\ rest = Tail(targets)
  BY <1>1, <1>2, PacketsArePackets, RestOfTargets DEF IInv
<1>4. /\ todo' = [todo EXCEPT ![t] = rest] /\ slot' = [slot EXCEPT ![t] = p]
      /\ UNCHANGED <<sent, net, round, owed>>
  BY <1>1, <1>2, <1>3 DEF Forward, Transmit
<1>5. PICK m \in Message : /\ m = p[1] /\ p = <<m, round[t]>> /\ m.from = t /\ m.n = n
                           /\ IsFirst(targets, m) /\ m.left \in Nat
  BY <1>2, <1>3, FirstPacket, PacketParts DEF PacketFor, Packet
<1>6. ASSUME NEW q \in Packet, q[1].from = t
      PROVE  /\ q \in Unsent(t) <=> q[1].n = n /\ q[2] = round[t] /\ IsTarget(targets, q[1])
             /\ q \in Unsent(t)' <=> q[1].n = n /\ q[2] = round[t] /\ IsTarget(rest, q[1])
  <2>1. Unsent(t) = PacketsFor(t, n, targets) /\ Unsent(t)' = PacketsFor(t, n, rest)
    BY <1>2, <1>4 DEF Unsent, PacketsFor, PacketFor, IInv, Types
  <2> QED BY <1>6, <2>1, AllPackets
<1>7. p \in Unsent(t) /\ p \notin Unsent(t)'
  <2>1. IsTarget(targets, m) /\ ~IsTarget(rest, m)
    BY <1>2, <1>3, <1>5, FirstOrRest
  <2> QED BY <1>5, <1>6, <2>1
<1>8. ASSUME NEW q \in Packet, q[1].from = t, q \in Unsent(t)' PROVE q \in Unsent(t)
  <2>1. q[1].left \in Nat
    BY PacketParts
  <2>2. IsTarget(rest, q[1]) => IsTarget(targets, q[1])
    BY <1>2, <1>3, <2>1, FirstOrRest
  <2> QED BY <1>6, <1>8, <2>2
<1>9. \A u \in Thread \ {t} : Unsent(u)' = Unsent(u)
  BY <1>4 DEF Unsent, PacketsFor, PacketFor, IInv, Types
<1>10. ASSUME NEW q \in Message, NEW s \in Stage, Reached(q, s) PROVE Reached(q, s)'
  <2>1. q.from \in Thread /\ <<q, round[q.from]>> \in Packet
    BY MessageParts DEF IInv
  <2>2. CASE q.from = t
    <3>1. s = "prepared" \/ <<q, round[t]>> # p
      BY <1>7, <1>10, <2>2 DEF Reached
    <3>2. <<q, round[t]>> \notin Unsent(t) => <<q, round[t]>> \notin Unsent(t)'
      BY <1>8, <2>1, <2>2
    <3> QED BY <1>4, <1>10, <2>2, <3>1, <3>2 DEF Reached, IInv, Types
  <2>3. CASE q.from # t
    BY <1>4, <1>9, <1>10, <2>1, <2>3 DEF Reached, IInv, Types
  <2> QED BY <2>2, <2>3
<1>11. ~Reached(m, "sent") /\ Reached(m, "sent")'
  <2>1. n <= sent[t] /\ sent' = sent /\ round' = round
    BY <1>2, <1>4
  <2> QED BY <1>5, <1>7, <2>1 DEF Reached
<1> QED BY <1>10, <1>11, StageGained DEF Stage

LEMMA PrepareForward ==
    ASSUME IInv, NEW t \in HasDevices, NEW targets \in TargetLists[t] \cup {<<>>}, Prepare(t, targets)
    PROVE  Forwards
<1>1. /\ slot[t] = None /\ todo[t] = <<>> /\ t \in Thread
      /\ sent[t] < MaxSends /\ sent[t] \in Nat /\ MaxSends \in Nat
  BY MachineAssumption DEF Prepare, DoSend, CanSend, WantToSend, IInv, Types, Senders
<1>2. PICK n \in 1 .. MaxSends : n = sent[t] + 1
  BY <1>1
<1>3. /\ sent' = [sent EXCEPT ![t] = n] /\ sent'[t] = n
      /\ owed' = owed \cup PacketsFor(t, n, targets)
      /\ UNCHANGED <<net, round>>
      /\ \A u \in Thread \ {t} : sent'[u] = sent[u] /\ todo'[u] = todo[u] /\ slot'[u] = slot[u]
      /\ slot'[t] = None \/ slot'[t] = PacketFor(t, n, targets, 1)
      /\ todo'[t] \in {<<>>, Tail(targets)}
  BY <1>1, <1>2 DEF Prepare, Transmit, IInv, Types
<1>4. ASSUME NEW q \in Message, NEW s \in Stage, Reached(q, s) PROVE Reached(q, s)'
  <2> DEFINE p == <<q, round[q.from]>>
  <2>1. q.from \in Thread /\ q.n \in 1 .. MaxSends /\ p \in Packet
    BY MessageParts DEF IInv
  <2>2. q.n <= sent[q.from]
    BY <1>4 DEF Reached
  <2>3. CASE q.from = t
    <3>1. q.n # n
      BY <1>1, <1>2, <2>1, <2>2, <2>3
    <3>2. \A list, i : p # PacketFor(t, n, list, i)
      BY <3>1 DEF PacketFor
    <3>3. q.n <= sent'[t]
      BY <1>1, <1>2, <1>3, <2>1, <2>2, <2>3
    <3>4. p \notin Unsent(t)'
      <4>1. Unsent(t)' = PacketsFor(t, n, todo'[t])
        BY <1>3 DEF Unsent, PacketsFor, PacketFor
      <4> QED BY <3>2, <4>1 DEF PacketsFor
    <3>5. slot'[t] # p
      BY <1>3, <2>1, <3>2, NoneAssumption
    <3>6. p \in owed' <=> p \in owed
      BY <1>3, <3>2 DEF PacketsFor
    <3> QED BY <1>3, <1>4, <2>3, <3>3, <3>4, <3>5, <3>6 DEF Reached
  <2>4. CASE q.from # t
    <3>1. Unsent(q.from)' = Unsent(q.from)
      <4>1. sent'[q.from] = sent[q.from] /\ todo'[q.from] = todo[q.from] /\ round' = round
        BY <1>3, <2>1, <2>4
      <4> QED BY <4>1 DEF Unsent, PacketsFor, PacketFor
    <3>2. \A list, i : p # PacketFor(t, n, list, i)
      BY <2>4 DEF PacketFor
    <3>3. p \in owed' <=> p \in owed
      BY <1>3, <3>2 DEF PacketsFor
    <3> QED BY <1>3, <1>4, <2>1, <2>4, <3>1, <3>3 DEF Reached
  <2> QED BY <2>3, <2>4
<1>5. PICK m \in Message : m.from = t /\ m.n = n
  <2>1. [from |-> t, n |-> n, left |-> 1, to |-> t] \in Message
    BY MachineAssumption DEF Message
  <2> QED BY <2>1
<1>6. ~Reached(m, "prepared") /\ Reached(m, "prepared")'
  BY <1>1, <1>2, <1>3, <1>5 DEF Reached
<1> QED BY <1>4, <1>6, StageGained DEF Stage

(* A step that leaves the messages as they are settles its thread. *)
LEMMA StayForward ==
    ASSUME IInv, NEW t \in Thread, EnterIdle(t) \/ LeaveIdle(t)
    PROVE  Progress = Progress' /\ Settled \subseteq Settled' /\ Settled # Settled'
<1>1. UNCHANGED <<sent, todo, slot, net, inbox, round, owed>>
  BY DEF EnterIdle, LeaveIdle
<1>2. Progress = Progress'
  <2>1. \A u : Unsent(u)' = Unsent(u)
    BY <1>1 DEF Unsent, PacketsFor, PacketFor
  <2> QED BY <1>1, <2>1 DEF Progress, Reached
<1>3. /\ mode'[t] # mode[t]
      /\ \A u \in Thread \ {t} : mode'[u] = mode[u]
      /\ mode'[t] = "idle" <=> ~CanRecv(t)
      /\ ~(mode[t] = "idle" <=> ~CanRecv(t))
  BY DEF EnterIdle, LeaveIdle, IInv, Types
<1>4. \A u \in Thread : CanRecv(u)' <=> CanRecv(u)
  BY <1>1 DEF CanRecv
<1>5. Settled \subseteq Settled'
  BY <1>3, <1>4 DEF Settled
<1>6. t \in Settled' /\ t \notin Settled
  BY <1>3, <1>4 DEF Settled
<1> QED BY <1>2, <1>5, <1>6

(* A compute handler takes nothing back. *)
LEMMA ComputeStays ==
    ASSUME NEW t \in Thread, Compute(t)
    PROVE  UNCHANGED <<Progress, Settled>>
<1>1. UNCHANGED <<mode, sent, todo, slot, net, inbox, round, owed>>
  BY DEF Compute
<1>2. \A u : Unsent(u)' = Unsent(u)
  BY <1>1 DEF Unsent, PacketsFor, PacketFor
<1>3. UNCHANGED Progress
  BY <1>1, <1>2 DEF Progress, Reached
<1>4. UNCHANGED Settled
  BY <1>1 DEF Settled, CanRecv
<1> QED BY <1>3, <1>4

(* The measure is in a finite set. *)
LEMMA MeasureFinite == IsFiniteSet(Message \X Stage) /\ IsFiniteSet(Thread)
<1>1. IsFiniteSet(HasDevices) /\ IsFiniteSet(Thread)
  BY MachineAssumption, FS_Subset
<1>2. IsFiniteSet(1 .. MaxSends) /\ IsFiniteSet(1 .. MaxTargets)
  BY MachineAssumption, FS_Interval
<1>3. IsFiniteSet(HasDevices \X (1 .. MaxSends)) /\ IsFiniteSet((1 .. MaxTargets) \X HasDevices)
  BY <1>1, <1>2, FS_Product
<1>4. IsFiniteSet((HasDevices \X (1 .. MaxSends)) \X ((1 .. MaxTargets) \X HasDevices))
  BY <1>3, FS_Product
<1>5. IsFiniteSet(Message)
  <2> DEFINE Parts == (HasDevices \X (1 .. MaxSends)) \X ((1 .. MaxTargets) \X HasDevices)
             made == [x \in Parts |-> [from |-> x[1][1], n |-> x[1][2], left |-> x[2][1], to |-> x[2][2]]]
  <2>1. made \in Surjection(Parts, Message)
    <3>1. made \in [Parts -> Message]
      BY DEF Message
    <3>2. \A m \in Message : \E x \in Parts : made[x] = m
      <4> SUFFICES ASSUME NEW m \in Message PROVE \E x \in Parts : made[x] = m
        OBVIOUS
      <4>1. <<<<m.from, m.n>>, <<m.left, m.to>>>> \in Parts
        BY DEF Message
      <4>2. made[<<<<m.from, m.n>>, <<m.left, m.to>>>>] = m
        BY <4>1 DEF Message
      <4> QED BY <4>1, <4>2
    <3> QED BY <3>1, <3>2 DEF Surjection
  <2> HIDE DEF made, Parts
  <2>2. IsFiniteSet(Parts)
    BY <1>4 DEF Parts
  <2> QED BY <2>1, <2>2, FS_Surjection
<1>6. IsFiniteSet(Stage)
  <2>1. IsFiniteSet({"prepared"})
    BY FS_Singleton
  <2>2. IsFiniteSet({"prepared"} \cup {"sent"})
    BY <2>1, FS_AddElement
  <2>3. IsFiniteSet(({"prepared"} \cup {"sent"}) \cup {"taken"})
    BY <2>2, FS_AddElement
  <2>4. IsFiniteSet((({"prepared"} \cup {"sent"}) \cup {"taken"}) \cup {"delivered"})
    BY <2>3, FS_AddElement
  <2>5. IsFiniteSet(((({"prepared"} \cup {"sent"}) \cup {"taken"}) \cup {"delivered"}) \cup {"handled"})
    BY <2>4, FS_AddElement
  <2>6. Stage = ((({"prepared"} \cup {"sent"}) \cup {"taken"}) \cup {"delivered"}) \cup {"handled"}
    BY DEF Stage
  <2> QED BY <2>5, <2>6
<1> QED BY <1>1, <1>5, <1>6, FS_Product

(* Only devices that compute for ever make a round go on for ever: every   *)
(* step but those that end it and those of compute handlers moves a        *)
(* measure up that is in a finite set, and those of compute handlers leave *)
(* it, whatever the order of the steps.  Since the machine is never stuck  *)
(* either, it goes on from round to round if only it goes on and the       *)
(* devices stop computing in each.                                         *)
THEOREM RoundsGoForward ==
    Spec => /\ OnlyForward
            /\ [](Progress \subseteq Message \X Stage /\ Settled \subseteq Thread)
<1> DEFINE A == \/ MachineIdle \/ \E t \in Thread : HardwareIdle(t)
                \/ (\E t \in Thread : Compute(t)) /\ UNCHANGED <<Progress, Settled>>
                \/ Progress \subseteq Progress' /\ Progress # Progress'
                \/ Progress = Progress' /\ Settled \subseteq Settled' /\ Settled # Settled'
<1>1. ASSUME IInv, Next PROVE A
  <2>1. CASE Hardware
    BY <1>1, <2>1, NetTakeForward, NetDeliverForward DEF Hardware, Forwards
  <2>2. ASSUME NEW t \in Thread, Step(t) PROVE A
    <3>1. ASSUME NEW p \in inbox[t], Receive(t, p) PROVE Forwards
      BY <1>1, <3>1, ReceiveForward
    <3>2. ASSUME t \in HasDevices, NEW targets \in TargetLists[t] \cup {<<>>}, Prepare(t, targets)
          PROVE  Forwards
      BY <1>1, <3>2, PrepareForward
    <3>3. CASE Compute(t)
      BY <3>3, ComputeStays
    <3>4. CASE EnterIdle(t) \/ LeaveIdle(t)
      BY <1>1, <3>4, StayForward
    <3>5. CASE Forward(t)
      BY <1>1, <3>5, ForwardForward DEF Forwards
    <3>6. CASE HardwareIdle(t)
      BY <3>6
    <3> QED BY <2>2, <3>1, <3>2, <3>3, <3>4, <3>5, <3>6 DEF Step, Proceed, Forwards
  <2> QED BY <1>1, <2>1, <2>2 DEF Next
<1>2. IInv /\ [Next]_vars => [A]_vars
  BY <1>1
<1>3. Progress \subseteq Message \X Stage /\ Settled \subseteq Thread
  BY DEF Progress, Settled
<1> QED BY <1>2, <1>3, MachineInvariant, PTL DEF Spec, OnlyForward
=============================================================================
