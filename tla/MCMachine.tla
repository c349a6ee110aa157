----------------------------- MODULE MCMachine -----------------------------
(* Two threads with devices that send to each other and to themselves, two *)
(* packets of one message to one thread among others, and one without.     *)
EXTENDS Machine

CONSTANTS t1, t2, t3

Threads == {t1, t2, t3}
Busy == {t1, t2}
Exchange == [t \in Busy |-> {<<t1, t2, t2>>, <<t2>>}]
=============================================================================
