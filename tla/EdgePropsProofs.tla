-------------------------- MODULE EdgePropsProofs --------------------------
(* The search for an edge finds it in every sorted table, so the edge      *)
(* properties application records every tick, for any number of outer      *)
(* devices anywhere.                                                       *)
EXTENDS EdgeProps, FiniteSetTheorems, TLAPS

-----------------------------------------------------------------------------
(* The search. *)

LEMMA CmpIrreflexive == ASSUME NEW a \in AddressType
                        PROVE  ~cmpAddress(a, a)
BY DEF AddressType, cmpAddress

LEMMA CmpAsymmetric == ASSUME NEW a \in AddressType, NEW b \in AddressType, cmpAddress(a, b)
                       PROVE  ~cmpAddress(b, a)
BY DEF AddressType, cmpAddress

(* In a sorted table, the search for a source that is there ends at it. *)
LEMMA LowerBoundFinds ==
    ASSUME NEW table \in Seq([source : AddressType, properties : SUBSET Outer]),
           SortedBySource(table), NEW k \in DOMAIN table
    PROVE  lower_bound(table, table[k].source) = k
<1> DEFINE source == table[k].source
           Bound(i) == /\ \A j \in 1 .. i - 1 : BindingLess(table[j], source)
                       /\ i <= Len(table) => ~BindingLess(table[i], source)
<1>1. /\ DOMAIN table = 1 .. Len(table) /\ Len(table) \in Nat
      /\ \A i \in 1 .. Len(table) : table[i].source \in AddressType
  <2>1. PICK Binds : Binds = [source : AddressType, properties : SUBSET Outer]
    OBVIOUS
  <2>2. table \in Seq(Binds)
    BY <2>1
  <2>3. DOMAIN table = 1 .. Len(table) /\ Len(table) \in Nat /\ \A i \in 1 .. Len(table) : table[i] \in Binds
    BY <2>2
  <2> QED BY <2>1, <2>3
<1>2. k \in 1 .. Len(table) + 1 /\ Bound(k)
  <2>1. ~BindingLess(table[k], source)
    BY <1>1, CmpIrreflexive DEF BindingLess
  <2>2. \A j \in 1 .. k - 1 : BindingLess(table[j], source)
    BY <1>1 DEF SortedBySource, BindingLess
  <2> QED BY <1>1, <2>1, <2>2
<1>3. ASSUME NEW i \in 1 .. Len(table) + 1, Bound(i) PROVE i = k
  <2>1. CASE i < k
    <3>1. i \in 1 .. Len(table) /\ BindingLess(table[i], source)
      BY <1>1, <2>1 DEF SortedBySource, BindingLess
    <3> QED BY <1>3, <3>1
  <2>2. CASE i > k
    <3>1. BindingLess(table[k], source)
      BY <1>1, <1>3, <2>2
    <3> QED BY <1>1, <3>1, CmpIrreflexive DEF BindingLess
  <2> QED BY <1>1, <2>1, <2>2
<1>4. lower_bound(table, source) = CHOOSE i \in 1 .. Len(table) + 1 : Bound(i)
  BY DEF lower_bound
<1> HIDE DEF Bound
<1> QED BY <1>2, <1>3, <1>4

-----------------------------------------------------------------------------
(* The inner device's table is sorted and has the edge of every device. *)
Table ==
    /\ out \in [Outer -> AddressType]
    /\ \A d, e \in Outer : out[d] = out[e] => d = e
    /\ bindings \in Seq([source : AddressType, properties : SUBSET Outer])
    /\ SortedBySource(bindings)
    /\ \A d \in Outer : \E i \in DOMAIN bindings : bindings[i] = Binding(d)

IInv ==
    /\ Table
    /\ ready \in [Outer -> BOOLEAN]
    /\ inFlight \subseteq {out[d] : d \in Outer}
    /\ acc \subseteq Outer
    /\ exited \in BOOLEAN
    /\ TicksRecorded

(* A tick's edge is found, and its mask is the bit of the tick's sender. *)
LEMMA FoundEdge == ASSUME Table, NEW d \in Outer
                   PROVE  /\ FindsEdge(bindings, out[d])
                          /\ \A Any : edgeProperties(bindings, out[d], Any) = {{d}}
<1>1. PICK i \in DOMAIN bindings : bindings[i] = Binding(d)
  BY DEF Table
<1>2. bindings[i].source = out[d] /\ bindings[i].properties = {d}
  BY <1>1 DEF Binding
<1>3. lower_bound(bindings, out[d]) = i
  BY <1>1, <1>2, LowerBoundFinds DEF Table
<1> QED BY <1>1, <1>2, <1>3 DEF FindsEdge, edgeProperties

LEMMA InitIInv == Init => IInv
<1> SUFFICES ASSUME Init PROVE IInv
  OBVIOUS
<1>1. outerCount \in Nat \ {0} /\ Address \subseteq AddressType /\ 0 \in Outer
  BY EdgePropsAssumption DEF Outer
<1>2. PICK order \in [1 .. outerCount -> Outer] :
        /\ \A d \in Outer : \E i \in 1 .. outerCount : order[i] = d
        /\ bindings = [i \in 1 .. outerCount |-> Binding(order[i])]
  BY DEF Init
<1>3. out \in [Outer -> AddressType]
  BY <1>1 DEF Init
<1>4. \A d \in Outer : Binding(d) \in [source : AddressType, properties : SUBSET Outer]
  BY <1>3 DEF Binding
<1>5. bindings \in Seq([source : AddressType, properties : SUBSET Outer]) /\ DOMAIN bindings = 1 .. outerCount
  BY <1>1, <1>2, <1>4
<1>6. \A d \in Outer : \E i \in DOMAIN bindings : bindings[i] = Binding(d)
  BY <1>2, <1>5
<1>7. Table
  BY <1>3, <1>5, <1>6 DEF Table, Init
<1>8. TicksRecorded
  BY <1>1 DEF TicksRecorded, Init
<1> QED BY <1>7, <1>8 DEF IInv, Init

(* What a step does not change of the graph. *)
LEMMA StaticTable == ASSUME Table, UNCHANGED graph
                     PROVE  Table'
BY DEF Table, graph, Binding

LEMMA SendIInv == ASSUME IInv, NEW d \in Outer, outer_out_send_handler(d)
                  PROVE  IInv'
<1> USE DEF outer_out_send_handler, outer_ready_to_send_handler
<1>1. Table'
  BY StaticTable DEF IInv
<1>2. \A e \in Outer : out[e] = out[d] => e = d
  BY DEF IInv, Table
<1>3. TicksRecorded'
  BY <1>2 DEF IInv, TicksRecorded, graph
<1> QED BY <1>1, <1>3 DEF IInv, graph

LEMMA ReceiveIInv == ASSUME IInv, NEW source \in inFlight, Receive(source)
                     PROVE  IInv'
<1>1. PICK d \in Outer : source = out[d]
  BY DEF IInv
<1>2. Table' /\ UNCHANGED <<out, bindings, ready>> /\ inFlight' = inFlight \ {out[d]} /\ ~exited
  BY <1>1, StaticTable DEF IInv, Receive, graph
<1>3. acc' = acc \cup {d} /\ exited' = (acc' = Outer)
  <2>1. edgeProperties(bindings, source, SUBSET Outer) = {{d}}
    BY <1>1, FoundEdge DEF IInv
  <2> QED BY <2>1 DEF Receive, inner_in_receive_handler
<1>4. \A e \in Outer : out[e] = out[d] => e = d
  BY DEF IInv, Table
<1>5. TicksRecorded'
  BY <1>1, <1>2, <1>3, <1>4 DEF IInv, TicksRecorded
<1> QED BY <1>1, <1>2, <1>3, <1>5 DEF IInv

(* The table stays, and every tick is to be sent, under way or recorded. *)
THEOREM EdgePropsInvariant == Spec => []IInv
<1>1. IInv /\ [Next]_vars => IInv'
  <2> SUFFICES ASSUME IInv, [Next]_vars PROVE IInv'
    OBVIOUS
  <2>1. CASE UNCHANGED vars
    BY <2>1, StaticTable DEF IInv, TicksRecorded, vars, graph
  <2>2. CASE \E d \in Outer : outer_out_send_handler(d)
    BY <2>2, SendIInv
  <2>3. CASE \E source \in inFlight : Receive(source)
    BY <2>3, ReceiveIInv
  <2> QED BY <2>1, <2>2, <2>3 DEF Next
<1> QED BY InitIInv, <1>1, PTL DEF Spec

(* Every tick's edge is found: the assertions on the edge cannot fail. *)
THEOREM EdgeFoundCorrect == Spec => []EdgeFound
<1>1. IInv => EdgeFound
  BY FoundEdge DEF IInv, EdgeFound
<1> QED BY EdgePropsInvariant, <1>1, PTL

(* Every tick is recorded once, and the program exits after the last. *)
THEOREM TicksRecordedCorrect == Spec => []TicksRecorded
<1>1. IInv => TicksRecorded
  BY DEF IInv
<1> QED BY EdgePropsInvariant, <1>1, PTL

-----------------------------------------------------------------------------
(* Termination, but for fairness: a step is always possible before the     *)
(* exit, and there are only so many steps.                                 *)

(* The program is never stuck before it exits. *)
THEOREM EdgePropsGoesOn == Spec => []GoesOn
<1>1. IInv => GoesOn
  <2> SUFFICES ASSUME IInv, ~exited
               PROVE  inFlight # {} \/ \E d \in Outer : ready[d]
    BY DEF GoesOn, outer_ready_to_send_handler
  <2>1. PICK d \in Outer : d \notin acc
    BY DEF IInv, TicksRecorded
  <2>2. ready[d] \/ out[d] \in inFlight
    BY <2>1 DEF IInv, TicksRecorded
  <2> QED
    BY <2>2
<1> QED BY EdgePropsInvariant, <1>1, PTL

(* Progress is a part of a finite set. *)
Stages == Outer \X {"sent", "recorded"}

LEMMA StagesFinite == IsFiniteSet(Stages)
<1>1. IsFiniteSet(Outer)
  BY EdgePropsAssumption, FS_Interval DEF Outer
<1>2. IsFiniteSet({"recorded"}) /\ {"sent", "recorded"} = {"recorded"} \cup {"sent"}
  BY FS_Singleton
<1>3. IsFiniteSet({"sent", "recorded"})
  BY <1>2, FS_AddElement
<1> QED BY <1>1, <1>3, FS_Product DEF Stages

LEMMA ProgressFinite ==
    ASSUME IInv
    PROVE  /\ IsFiniteSet(Progress) /\ Progress \subseteq Stages
           /\ Cardinality(Progress) \in Nat
           /\ Cardinality(Progress) <= Cardinality(Stages)
<1>1. Progress \subseteq Stages
  BY DEF IInv, Progress, Stages
<1> QED BY <1>1, StagesFinite, FS_Subset, FS_CardinalityType

(* A step that adds to the progress and takes nothing away. *)
LEMMA ProgressGrows ==
    ASSUME IInv, IInv', NEW x, x \notin Progress, x \in Progress', Progress \subseteq Progress'
    PROVE  Cardinality(Progress) < Cardinality(Progress')
<1>1. IsFiniteSet(Progress') /\ Progress # Progress'
  BY StagesFinite, FS_Subset DEF IInv, Progress, Stages
<1> QED BY <1>1, FS_Subset, FS_CardinalityType

(* Every step brings the program forward, and there are two for a device:  *)
(* the program ends after that many, if it goes on as long as it can.      *)
THEOREM EdgePropsGoesForward ==
    Spec => OnlyForward /\ [](Cardinality(Progress) <= Cardinality(Stages))
<1>1. ASSUME IInv, IInv', Next
      PROVE  Cardinality(Progress) < Cardinality(Progress')
  <2>1. ASSUME NEW d \in Outer, outer_out_send_handler(d)
        PROVE  Cardinality(Progress) < Cardinality(Progress')
    <3>1. /\ ready[d] /\ ready \in [Outer -> BOOLEAN]
          /\ ready' = [ready EXCEPT ![d] = FALSE] /\ acc' = acc
      BY <1>1, <2>1 DEF outer_out_send_handler, outer_ready_to_send_handler, IInv
    <3>2. <<d, "sent">> \notin Progress /\ <<d, "sent">> \in Progress'
      BY <3>1 DEF Progress
    <3>3. Progress \subseteq Progress'
      BY <3>1 DEF Progress
    <3> QED BY <1>1, <3>2, <3>3, ProgressGrows
  <2>2. ASSUME NEW source \in inFlight, Receive(source)
        PROVE  Cardinality(Progress) < Cardinality(Progress')
    <3>1. PICK d \in Outer : source = out[d]
      BY <1>1 DEF IInv
    <3>2. edgeProperties(bindings, source, SUBSET Outer) = {{d}}
      BY <1>1, <3>1, FoundEdge DEF IInv
    <3>3. acc' = acc \cup {d} /\ ready' = ready
      BY <2>2, <3>2 DEF Receive, inner_in_receive_handler
    <3>4. d \notin acc
      BY <1>1, <2>2, <3>1 DEF IInv, TicksRecorded
    <3>5. <<d, "recorded">> \notin Progress /\ <<d, "recorded">> \in Progress'
      BY <3>3, <3>4 DEF Progress
    <3>6. Progress \subseteq Progress'
      BY <3>3 DEF Progress
    <3> QED BY <1>1, <3>5, <3>6, ProgressGrows
  <2> QED BY <1>1, <2>1, <2>2 DEF Next
<1>2. IInv => Cardinality(Progress) <= Cardinality(Stages)
  BY ProgressFinite
<1>3. IInv /\ IInv' /\ [Next]_vars => [Cardinality(Progress) < Cardinality(Progress')]_vars
  BY <1>1
<1> QED BY <1>2, <1>3, EdgePropsInvariant, PTL DEF Spec, OnlyForward
=============================================================================
