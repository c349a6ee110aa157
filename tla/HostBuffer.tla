----------------------------- MODULE HostBuffer -----------------------------
(***************************************************************************)
(* The ring buffer of messages for the host in softswitch_main's frame:    *)
(* pushed by the softswitch, popped into a mailbox slot (PopSend) or, when *)
(* space runs out, down the UART (SlowPopSend).  Device handlers log past  *)
(* it and may drain it.  The messages' contents are left out.              *)
(***************************************************************************)
EXTENDS Integers

CONSTANTS HOSTBUFFER_SIZE,        \* capacity of the ring
          MAX_HOST_PER_HANDLER    \* space the main loop wants before a handler

(* The main loop may itself use one of the places that it wants free.      *)
ASSUME HostBufferAssumption ==
    /\ HOSTBUFFER_SIZE \in Nat
    /\ MAX_HOST_PER_HANDLER \in 2 .. HOSTBUFFER_SIZE - 1

VARIABLES hbuf_head, hbuf_tail,   \* PThreadContext's indices into the ring
          hostPending             \* history: messages pushed and not yet popped

hostVars == <<hbuf_head, hbuf_tail, hostPending>>

HostInit == hbuf_head = 0 /\ hbuf_tail = 0 /\ hostPending = 0

hostMsgBufferSize ==
    IF hbuf_tail < hbuf_head THEN (hbuf_tail + HOSTBUFFER_SIZE) - hbuf_head
                             ELSE hbuf_tail - hbuf_head

hostMsgBufferSpace == HOSTBUFFER_SIZE - hostMsgBufferSize

(* Fault: one message too few is kept free. *)
AdequateHostBufferSpace_TooFew == hostMsgBufferSpace >= MAX_HOST_PER_HANDLER - 1

AdequateHostBufferSpace == hostMsgBufferSpace >= MAX_HOST_PER_HANDLER

(* Fault: the index wraps one message too late. *)
NextIndex_Late(i) == IF i + 1 > HOSTBUFFER_SIZE THEN 0 ELSE i + 1

(* The index after i, wrapped around. *)
NextIndex(i) == IF i + 1 = HOSTBUFFER_SIZE THEN 0 ELSE i + 1

hostMsgBufferPush ==
    /\ hbuf_tail' = NextIndex(hbuf_tail)
    /\ hostPending' = hostPending + 1
    /\ UNCHANGED hbuf_head

(* Fault: the message is sent but stays in the ring. *)
hostMsgBufferPop_StaysPending == UNCHANGED hostVars

(* What PopSend and SlowPopSend do to the ring: neither checks that there  *)
(* is a message.                                                           *)
hostMsgBufferPop ==
    /\ hbuf_head' = NextIndex(hbuf_head)
    /\ hostPending' = hostPending - 1
    /\ UNCHANGED hbuf_tail

(* A pop down the UART of one message and then a push. *)
hostMsgBufferPopThenPush ==
    /\ hbuf_head' = NextIndex(hbuf_head)
    /\ hbuf_tail' = NextIndex(hbuf_tail)
    /\ UNCHANGED hostPending

(* A device handler ends the program: as many messages as the ring's size  *)
(* says are popped down the UART, and the exit message follows them there. *)
(* The call returns to the handler, and the thread goes on.                *)
softswitch_handler_exit ==
    /\ hbuf_head' = (hbuf_head + hostMsgBufferSize) % HOSTBUFFER_SIZE
    /\ hostPending' = hostPending - hostMsgBufferSize
    /\ UNCHANGED hbuf_tail

(* A device handler logs: the message goes down the UART ahead of all that *)
(* is in the ring, one of which is popped if there seems to be no space.   *)
softswitch_handler_log ==
    IF hostMsgBufferSpace = 0 THEN hostMsgBufferPop ELSE UNCHANGED hostVars

HostTypeOK ==
    /\ hbuf_head \in 0 .. HOSTBUFFER_SIZE - 1
    /\ hbuf_tail \in 0 .. HOSTBUFFER_SIZE - 1
=============================================================================
