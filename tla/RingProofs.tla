----------------------------- MODULE RingProofs -----------------------------
(* The ring's token is never lost or copied, for every ring, increment and *)
(* width of the count that keep an odd count odd.                          *)
EXTENDS Ring, TLAPS

(* A count that is odd is a token. *)
Odd(n) == n \in Count /\ n % 2 = 1

(* An odd count stays odd when the increment is added, also if it wraps. *)
LEMMA AddedOdd == ASSUME NEW n, Odd(n)
                  PROVE  Odd(Added(n))
<1> DEFINE m == n + Increment
<1>1. /\ n \in Nat /\ Increment \in Nat /\ CountRange \in Nat \ {0}
      /\ n % 2 = 1 /\ Increment % 2 = 0 /\ CountRange % 2 = 0
  BY RingAssumption DEF Odd, Count
<1>2. m \in Nat /\ m % 2 = 1
  BY <1>1
<1>3. m % CountRange \in 0 .. CountRange - 1
  BY <1>1, <1>2
<1>4. PICK q \in Int : m = CountRange * q + (m % CountRange)
  <2>1. m = CountRange * (m \div CountRange) + (m % CountRange) /\ m \div CountRange \in Int
    BY <1>1, <1>2
  <2> QED BY <2>1
<1>5. PICK h \in Nat : CountRange = 2 * h
  <2>1. CountRange = 2 * (CountRange \div 2) /\ CountRange \div 2 \in Nat
    BY <1>1
  <2> QED BY <2>1
<1> HIDE DEF m
<1>6. PICK r \in Nat : r = m % CountRange
  BY <1>3
<1>7. PICK k \in Int : k = h * q
  BY <1>4, <1>5
<1>8. m = 2 * k + r
  BY <1>4, <1>5, <1>6, <1>7
<1>9. r % 2 = 1
  BY <1>2, <1>6, <1>7, <1>8
<1> QED BY <1>3, <1>6, <1>9 DEF Odd, Count, Added, m

-----------------------------------------------------------------------------
(* The token is with device d, or in a message to it. *)
WithDevice(d) ==
    /\ Odd(count[d])
    /\ \A e \in Dev \ {d} : count[e] = 0
    /\ \A e \in Dev : inFlight[e] = {}

InMessage(d, n) ==
    /\ Odd(n) /\ inFlight[d] = {n}
    /\ \A e \in Dev \ {d} : inFlight[e] = {}
    /\ \A e \in Dev : count[e] = 0

IInv ==
    /\ count \in [Dev -> Count]
    /\ inFlight \in [Dev -> SUBSET Count]
    /\ \E d \in Dev : WithDevice(d) \/ \E n \in Count : InMessage(d, n)

LEMMA InitIInv == Init => IInv
<1> SUFFICES ASSUME Init PROVE IInv
  OBVIOUS
<1>1. 0 \in Count /\ 1 \in Count /\ Odd(1)
  BY RingAssumption DEF Count, Odd
<1>2. WithDevice(First) /\ First \in Dev
  BY <1>1, RingAssumption DEF Init, WithDevice
<1> QED BY <1>1, <1>2 DEF Init, IInv

(* A device that sends has the token, which goes into a message. *)
LEMMA SendIInv == ASSUME IInv, NEW d \in Dev, dev_out_send_handler(d)
                  PROVE  IInv'
<1>1. WithDevice(d)
  BY DEF IInv, WithDevice, InMessage, dev_out_send_handler, dev_ready_to_send_handler
<1>2. PICK n \in Count : n = Added(count[d]) /\ Odd(n)
  BY <1>1, AddedOdd DEF WithDevice, Odd
<1>3. Target[d] \in Dev /\ 0 \in Count
  BY RingAssumption DEF Count
<1>4. count' = [count EXCEPT ![d] = 0] /\ inFlight' = [inFlight EXCEPT ![Target[d]] = @ \cup {n}]
  BY <1>2 DEF dev_out_send_handler
<1>5. InMessage(Target[d], n)'
  BY <1>1, <1>2, <1>3, <1>4 DEF WithDevice, InMessage, IInv, Odd
<1> QED BY <1>2, <1>3, <1>4, <1>5 DEF IInv

(* A message that is received is the token, which its device then has. *)
LEMMA ReceiveIInv == ASSUME IInv, NEW d \in Dev, NEW n \in inFlight[d], dev_in_receive_handler(d, n)
                     PROVE  IInv'
<1>1. InMessage(d, n) /\ n \in Count
  BY DEF IInv, WithDevice, InMessage, dev_in_receive_handler
<1>2. WithDevice(d)'
  BY <1>1 DEF WithDevice, InMessage, IInv, Odd, dev_in_receive_handler
<1> QED BY <1>1, <1>2 DEF IInv, dev_in_receive_handler

(* There is one token, with an odd count. *)
THEOREM RingInvariant == Spec => []IInv
<1>1. IInv /\ [Next]_vars => IInv'
  <2> SUFFICES ASSUME IInv, [Next]_vars PROVE IInv'
    OBVIOUS
  <2>1. CASE UNCHANGED vars
    BY <2>1 DEF IInv, WithDevice, InMessage, vars
  <2>2. ASSUME NEW d \in Dev, dev_out_send_handler(d) PROVE IInv'
    BY <2>2, SendIInv
  <2>3. ASSUME NEW d \in Dev, NEW n \in inFlight[d], dev_in_receive_handler(d, n) PROVE IInv'
    BY <2>3, ReceiveIInv
  <2> QED BY <2>1, <2>2, <2>3 DEF Next
<1> QED BY InitIInv, <1>1, PTL DEF Spec

-----------------------------------------------------------------------------
LEMMA IInvOneToken == IInv => OneToken
<1> SUFFICES ASSUME IInv PROVE \E token \in Tokens : Tokens = {token} /\ token[3] # 0
  BY DEF IInv, OneToken
<1>1. PICK d \in Dev : WithDevice(d) \/ \E n \in Count : InMessage(d, n)
  BY DEF IInv
<1>2. CASE WithDevice(d)
  <2>1. {e \in Dev : count[e] # 0} = {d} /\ count[d] # 0
    BY <1>2 DEF WithDevice, Odd
  <2>2. Tokens = {<<"device", d, count[d]>>}
    BY <1>2, <2>1 DEF Tokens, WithDevice
  <2> QED BY <2>1, <2>2
<1>3. ASSUME NEW n \in Count, InMessage(d, n)
      PROVE  \E token \in Tokens : Tokens = {token} /\ token[3] # 0
  <2>1. {e \in Dev : count[e] # 0} = {} /\ n # 0
    BY <1>3 DEF InMessage, Odd
  <2>2. Tokens = {<<"message", d, n>>}
    BY <1>3, <2>1 DEF Tokens, InMessage
  <2> QED BY <2>1, <2>2
<1> QED BY <1>1, <1>2, <1>3

(* The ring always has its one token, however often the count wraps. *)
THEOREM OneTokenCorrect == Spec => []OneToken
<1> QED BY RingInvariant, IInvOneToken, PTL

(* Every step takes the token a hop on, along Target, and a step is always *)
(* possible: a program that goes on while it can takes the token round     *)
(* every ring.                                                             *)
THEOREM TokenGoesOn == Spec => TokenHops /\ []NeverStuck
<1>1. ASSUME IInv, Next, NEW d \in Dev
      PROVE  /\ count[d] # 0 => inFlight[Target[d]]' # {}
             /\ inFlight[d] # {} => count[d]' # 0
  <2>1. ASSUME NEW e \in Dev, dev_out_send_handler(e)
        PROVE  (count[d] # 0 => inFlight[Target[d]]' # {}) /\ inFlight[d] = {}
    <3>1. WithDevice(e)
      BY <1>1, <2>1 DEF IInv, WithDevice, InMessage, dev_out_send_handler, dev_ready_to_send_handler
    <3>2. count[d] # 0 => d = e
      BY <3>1 DEF WithDevice
    <3>3. Target[e] \in Dev /\ inFlight \in [Dev -> SUBSET Count]
      BY <1>1, RingAssumption DEF IInv
    <3>4. Added(count[e]) \in inFlight[Target[e]]'
      BY <2>1, <3>3 DEF dev_out_send_handler
    <3> QED BY <3>1, <3>2, <3>4 DEF WithDevice
  <2>2. ASSUME NEW e \in Dev, NEW n \in inFlight[e], dev_in_receive_handler(e, n)
        PROVE  count[d] = 0 /\ (inFlight[d] # {} => count[d]' # 0)
    <3>1. InMessage(e, n)
      BY <1>1, <2>2 DEF IInv, WithDevice, InMessage, dev_in_receive_handler
    <3>2. inFlight[d] # {} => d = e
      BY <3>1 DEF InMessage
    <3>3. count[e]' = n /\ n # 0
      BY <1>1, <2>2, <3>1 DEF IInv, dev_in_receive_handler, InMessage, Odd
    <3> QED BY <3>1, <3>2, <3>3 DEF InMessage
  <2> QED BY <1>1, <2>1, <2>2 DEF Next
<1>2. IInv => NeverStuck
  BY DEF IInv, WithDevice, InMessage, Odd, NeverStuck, dev_ready_to_send_handler
<1>3. IInv /\ [Next]_vars
        => [\A d \in Dev : /\ count[d] # 0 => inFlight[Target[d]]' # {}
                           /\ inFlight[d] # {} => count[d]' # 0]_vars
  BY <1>1
<1> QED BY <1>2, <1>3, RingInvariant, PTL DEF Spec, TokenHops
=============================================================================
