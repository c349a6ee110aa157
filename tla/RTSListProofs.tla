--------------------------- MODULE RTSListProofs ---------------------------
(***************************************************************************)
(* What the list operations of softswitch_rts.cpp do to the set of devices *)
(* that the pointers link, for any number of devices.                      *)
(***************************************************************************)
EXTENDS RTSList, FiniteSetTheorems, SequenceTheorems, WellFoundedInduction, TLAPS

(* A list without repetition is no longer than the number of devices. *)
LEMMA NoLongerThanDevices ==
    ASSUME NEW n \in Nat, NEW q \in [1 .. n -> Device],
           \A i, j \in 1 .. n : q[i] = q[j] => i = j
    PROVE  n <= NumDevices
<1>1. IsFiniteSet(Device) /\ Cardinality(Device) = NumDevices
  BY NumDevicesAssumption, FS_Interval DEF Device
<1>2. q \in Injection(1 .. n, Device)
  BY DEF Injection, IsInjective
<1>3. Cardinality(1 .. n) <= Cardinality(Device)
  BY <1>1, <1>2, FS_Injection
<1>4. Cardinality(1 .. n) = n
  BY FS_Interval
<1> QED
  BY <1>1, <1>3, <1>4

(* The static initial list, and a list that is cleared, link no device. *)
LEMMA ClearedListsNothing ==
    ASSUME NEW L \in RTSListType
    PROVE  /\ ClearedList(L) \in RTSListType
           /\ Lists(ClearedList(L), {})
<1> DEFINE q == [i \in 1 .. 0 |-> 0]
<1>1. Links(ClearedList(L), 0, q)
  BY DEF Links, ClearedList, RTSListType
<1>2. q \in [1 .. 0 -> Device] /\ {} = {q[i] : i \in 1 .. 0} /\ 0 \in 0 .. NumDevices
  BY NumDevicesAssumption
<1>3. ClearedList(L) \in RTSListType
  BY DEF ClearedList, RTSListType, Pointer
<1> QED
  BY <1>1, <1>2, <1>3 DEF Lists

(* The head is null exactly when no device is linked, and linked if not. *)
LEMMA HeadIsListed ==
    ASSUME NEW L, NEW S, Lists(L, S)
    PROVE  /\ S \subseteq Device
           /\ L.head = Null <=> S = {}
           /\ L.head # Null => L.head \in S
<1>1. PICK n \in 0 .. NumDevices : \E q \in [1 .. n -> Device] :
        Links(L, n, q) /\ S = {q[i] : i \in 1 .. n}
  BY DEF Lists
<1>2. PICK q \in [1 .. n -> Device] :
        Links(L, n, q) /\ S = {q[i] : i \in 1 .. n}
  BY <1>1
<1>3. n \in Nat /\ (n # 0 => q[1] \in S /\ q[1] \in Device)
  BY <1>2, NumDevicesAssumption
<1>4. L.head = IF n = 0 THEN Null ELSE q[1]
  BY <1>2 DEF Links
<1>5. S \subseteq Device /\ (n = 0 => S = {})
  BY <1>2, <1>3
<1> QED
  BY <1>3, <1>4, <1>5, NullAssumption

(* The devices q[1], ..., q[n] and one more, or all but the k-th of them.  *)
Longer(q, n, d) == [i \in 1 .. n + 1 |-> IF i = n + 1 THEN d ELSE q[i]]
Shorter(q, n, k) == [i \in 1 .. n - 1 |-> IF i < k THEN q[i] ELSE q[i + 1]]

(* A device that is not linked is appended: it is linked after the others. *)
LEMMA AppendLinks ==
    ASSUME NEW L \in RTSListType, NEW n \in 0 .. NumDevices, NEW q \in [1 .. n -> Device],
           Links(L, n, q), NEW d \in Device, \A i \in 1 .. n : q[i] # d
    PROVE  /\ rts_append(L, d) \in RTSListType
           /\ n + 1 \in 0 .. NumDevices
           /\ Longer(q, n, d) \in [1 .. n + 1 -> Device]
           /\ Links(rts_append(L, d), n + 1, Longer(q, n, d))
<1>1. rts_append(L, d) \in RTSListType
  BY DEF rts_append, RTSListType, Pointer
<1> DEFINE M == rts_append(L, d)
           r == Longer(q, n, d)
<1>2. Links(L, n, q) /\ \A i \in 1 .. n : q[i] # d
  OBVIOUS
<1>3. r \in [1 .. n + 1 -> Device] /\ n \in Nat
  BY NumDevicesAssumption DEF Longer
<1>4. \A i, j \in 1 .. n + 1 : r[i] = r[j] => i = j
  BY <1>2, <1>3 DEF Links, Longer
<1>5. n + 1 \in 0 .. NumDevices
  <2> HIDE DEF r
  <2>1. n + 1 \in Nat
    BY <1>3
  <2>2. n + 1 <= NumDevices
    BY <2>1, <1>3, <1>4, NoLongerThanDevices
  <2> QED
    BY <2>1, <2>2, NumDevicesAssumption
<1>7. M.head = r[1] /\ M.tail = r[n + 1]
  BY <1>2, <1>3, NullAssumption DEF Links, Longer, rts_append
<1>8. ASSUME NEW i \in 1 .. n + 1
      PROVE  M.prev[r[i]] = IF i = 1 THEN Null ELSE r[i - 1]
  <2>1. CASE i = n + 1
    BY <2>1, <1>2, <1>3 DEF Links, Longer, rts_append, RTSListType
  <2>2. CASE i # n + 1
    BY <2>2, <1>2, <1>3 DEF Links, Longer, rts_append, RTSListType
  <2> QED
    BY <2>1, <2>2
<1>9. ASSUME NEW i \in 1 .. n + 1
      PROVE  M.next[r[i]] = IF i = n + 1 THEN Null ELSE r[i + 1]
  <2>1. CASE i = n + 1
    BY <2>1, <1>2, <1>3, NullAssumption DEF Links, Longer, rts_append, RTSListType
  <2>2. CASE i = n
    BY <2>2, <1>2, <1>3 DEF Links, Longer, rts_append, RTSListType
  <2>3. CASE i < n
    BY <2>3, <1>2, <1>3 DEF Links, Longer, rts_append, RTSListType
  <2> QED
    BY <2>1, <2>2, <2>3, <1>3
<1>10. Links(M, n + 1, r)
  BY <1>3, <1>4, <1>7, <1>8, <1>9 DEF Links
<1> QED
  BY <1>1, <1>3, <1>5, <1>10

(* So it is linked too. *)
LEMMA AppendLists ==
    ASSUME NEW L \in RTSListType, NEW S, Lists(L, S), NEW d \in Device, d \notin S
    PROVE  /\ rts_append(L, d) \in RTSListType
           /\ Lists(rts_append(L, d), S \cup {d})
<1>1. PICK n \in 0 .. NumDevices : \E q \in [1 .. n -> Device] :
        Links(L, n, q) /\ S = {q[i] : i \in 1 .. n}
  BY DEF Lists
<1>2. PICK q \in [1 .. n -> Device] :
        Links(L, n, q) /\ S = {q[i] : i \in 1 .. n}
  BY <1>1
<1>3. \A i \in 1 .. n : q[i] # d
  BY <1>2
<1>4. S \cup {d} = {Longer(q, n, d)[i] : i \in 1 .. n + 1}
  BY <1>2, NumDevicesAssumption DEF Longer
<1> QED
  <2>1. /\ rts_append(L, d) \in RTSListType
        /\ n + 1 \in 0 .. NumDevices
        /\ Longer(q, n, d) \in [1 .. n + 1 -> Device]
        /\ Links(rts_append(L, d), n + 1, Longer(q, n, d))
    BY <1>2, <1>3, AppendLinks
  <2> QED
    BY <1>4, <2>1 DEF Lists

(* The k-th device is removed: the others are linked as before.            *)
LEMMA RemoveLinks ==
    ASSUME NEW L \in RTSListType, NEW n \in 0 .. NumDevices, NEW q \in [1 .. n -> Device],
           Links(L, n, q), NEW k \in 1 .. n, NEW d, d = q[k]
    PROVE  /\ rts_remove(L, d) \in RTSListType
           /\ n - 1 \in 0 .. NumDevices
           /\ Shorter(q, n, k) \in [1 .. n - 1 -> Device]
           /\ Links(rts_remove(L, d), n - 1, Shorter(q, n, k))
<1>2. rts_remove(L, d) \in RTSListType
  BY DEF rts_remove, RTSListType, Pointer
<1> DEFINE M == rts_remove(L, d)
           r == Shorter(q, n, k)
<1> USE DEF Shorter
<1>3. Links(L, n, q)
  OBVIOUS
<1>4. q[k] = d /\ d \in Device
  OBVIOUS
<1>5. n \in Nat \ {0} /\ n - 1 \in 0 .. NumDevices /\ k \in 1 .. n
  BY NumDevicesAssumption, <1>3, <1>4
<1>6. r \in [1 .. n - 1 -> Device]
  BY <1>3, <1>5
<1>7. \A i, j \in 1 .. n - 1 : r[i] = r[j] => i = j
  BY <1>3, <1>5, <1>6 DEF Links
<1>9. /\ (L.head = d <=> k = 1) /\ (L.tail = d <=> k = n)
      /\ L.prev[d] = (IF k = 1 THEN Null ELSE q[k - 1])
      /\ L.next[d] = (IF k = n THEN Null ELSE q[k + 1])
  BY <1>3, <1>4, <1>5 DEF Links
<1>10. /\ M.head = (IF n - 1 = 0 THEN Null ELSE r[1])
       /\ M.tail = (IF n - 1 = 0 THEN Null ELSE r[n - 1])
  BY <1>3, <1>5, <1>9 DEF Links, rts_remove
<1>11. ASSUME NEW i \in 1 .. n - 1
       PROVE  M.prev[r[i]] = IF i = 1 THEN Null ELSE r[i - 1]
  <2>1. CASE i < k
    BY <2>1, <1>3, <1>5, <1>9 DEF Links, rts_remove, RTSListType
  <2>2. CASE i = k
    BY <2>2, <1>3, <1>5, <1>9 DEF Links, rts_remove, RTSListType
  <2>3. CASE i > k
    <3>1. r[i] = q[i + 1] /\ r[i - 1] = q[i] /\ i # 1 /\ k # n /\ i + 1 # k + 1
      BY <2>3, <1>5
    <3>a. i + 1 \in 1 .. n /\ i + 1 # 1 /\ (i + 1) - 1 = i
      BY <3>1, <1>5
    <3>b. L.prev[q[i + 1]] = q[i]
      BY <3>a, <1>3 DEF Links
    <3>c. L.next[d] = q[k + 1] /\ k + 1 \in 1 .. n /\ L.tail # d
      BY <3>1, <1>5, <1>9
    <3>d. q[i + 1] # q[k + 1]
      BY <3>1, <3>a, <3>c, <1>3 DEF Links
    <3>2. L.prev[q[i + 1]] = q[i] /\ q[i + 1] # L.next[d] /\ L.tail # d
      BY <3>b, <3>c, <3>d
    <3>3. q[i + 1] \in Device /\ L.prev \in [Device -> Pointer]
      BY <1>5 DEF RTSListType
    <3>4. M.prev[q[i + 1]] = L.prev[q[i + 1]]
      BY <3>2, <3>3 DEF rts_remove
    <3> QED
      BY <3>1, <3>2, <3>4
  <2> QED
    BY <2>1, <2>2, <2>3, <1>5
<1>12. ASSUME NEW i \in 1 .. n - 1
       PROVE  M.next[r[i]] = IF i = n - 1 THEN Null ELSE r[i + 1]
  <2>1. CASE i < k - 1
    BY <2>1, <1>3, <1>5, <1>9 DEF Links, rts_remove, RTSListType
  <2>2. CASE i = k - 1
    BY <2>2, <1>3, <1>5, <1>9 DEF Links, rts_remove, RTSListType
  <2>3. CASE i > k - 1
    <3>1. /\ r[i] = q[i + 1] /\ i + 1 \in 1 .. n /\ i + 1 # k
          /\ i # n - 1 => r[i + 1] = q[(i + 1) + 1]
      BY <2>3, <1>5
    <3>2. L.next[q[i + 1]] = IF i + 1 = n THEN Null ELSE q[(i + 1) + 1]
      BY <3>1, <1>3 DEF Links
    <3>3. L.head # d => q[i + 1] # L.prev[d]
      <4>1. CASE k = 1
        BY <4>1, <1>9
      <4>2. CASE k # 1
        <5>1. L.prev[d] = q[k - 1] /\ k - 1 \in 1 .. n /\ i + 1 # k - 1
          BY <4>2, <2>3, <1>5, <1>9
        <5> QED
          BY <5>1, <3>1, <1>3 DEF Links
      <4> QED
        BY <4>1, <4>2
    <3>4. q[i + 1] \in Device /\ L.next \in [Device -> Pointer]
      BY <3>1 DEF RTSListType
    <3>5. M.next[q[i + 1]] = L.next[q[i + 1]]
      BY <3>3, <3>4 DEF rts_remove
    <3> QED
      BY <3>1, <3>2, <3>5, <1>5
  <2> QED
    BY <2>1, <2>2, <2>3, <1>5
<1>13. Links(M, n - 1, r)
  BY <1>5, <1>6, <1>7, <1>10, <1>11, <1>12 DEF Links
<1> QED
  BY <1>2, <1>5, <1>6, <1>13

(* Which is all of them but the k-th. *)
Members(q, n) == {q[i] : i \in 1 .. n}

LEMMA ShorterHasOthers ==
    ASSUME NEW n \in Nat, NEW q, NEW k \in 1 .. n,
           \A i, j \in 1 .. n : q[i] = q[j] => i = j
    PROVE  Members(q, n) \ {q[k]} = Members(Shorter(q, n, k), n - 1)
<1> DEFINE S == {q[i] : i \in 1 .. n}
           r == Shorter(q, n, k)
           d == q[k]
<1>1. \A i \in 1 .. n - 1 : r[i] = IF i < k THEN q[i] ELSE q[i + 1]
  BY DEF Shorter
<1> HIDE DEF r
<1>2. ASSUME NEW i \in 1 .. n - 1 PROVE r[i] \in S \ {d}
  BY <1>1
<1>3. ASSUME NEW e \in S \ {d} PROVE \E i \in 1 .. n - 1 : r[i] = e
  <2>1. PICK i \in 1 .. n : q[i] = e /\ i # k
    OBVIOUS
  <2>2. CASE i < k
    BY <1>1, <2>1, <2>2
  <2>3. CASE i > k
    <3>1. i - 1 \in 1 .. n - 1 /\ r[i - 1] = e
      BY <1>1, <2>1, <2>3
    <3> QED
      BY <3>1
  <2> QED
    BY <2>1, <2>2, <2>3
<1>4. S \ {d} = {r[i] : i \in 1 .. n - 1}
  BY <1>2, <1>3
<1> QED
  BY <1>4 DEF r, Members

(* Removing a linked device unlinks it, wherever it was, and no other. *)
LEMMA RemoveLists ==
    ASSUME NEW L \in RTSListType, NEW S, Lists(L, S), NEW d \in S
    PROVE  /\ rts_remove(L, d) \in RTSListType
           /\ Lists(rts_remove(L, d), S \ {d})
<1>1. PICK n \in 0 .. NumDevices : \E q \in [1 .. n -> Device] :
        Links(L, n, q) /\ S = {q[i] : i \in 1 .. n}
  BY DEF Lists
<1>2. PICK q \in [1 .. n -> Device] :
        Links(L, n, q) /\ S = {q[i] : i \in 1 .. n}
  BY <1>1
<1>3. PICK k \in 1 .. n : q[k] = d
  BY <1>2
<1>4. S \ {d} = {Shorter(q, n, k)[i] : i \in 1 .. n - 1}
  <2>1. n \in Nat /\ \A i, j \in 1 .. n : q[i] = q[j] => i = j
    BY <1>2, NumDevicesAssumption DEF Links
  <2>2. Members(q, n) \ {q[k]} = Members(Shorter(q, n, k), n - 1)
    BY <2>1, ShorterHasOthers
  <2> QED
    BY <1>2, <1>3, <2>2 DEF Members
<1> QED
  <2>1. /\ rts_remove(L, d) \in RTSListType
        /\ n - 1 \in 0 .. NumDevices
        /\ Shorter(q, n, k) \in [1 .. n - 1 -> Device]
        /\ Links(rts_remove(L, d), n - 1, Shorter(q, n, k))
    BY <1>2, <1>3, RemoveLinks
  <2> QED
    BY <1>4, <2>1 DEF Lists

(* The head is popped: the others are linked as before.                    *)
LEMMA PopLinks ==
    ASSUME NEW L \in RTSListType, NEW n \in 1 .. NumDevices, NEW q \in [1 .. n -> Device],
           Links(L, n, q)
    PROVE  /\ rts_pop(L) \in RTSListType
           /\ n - 1 \in 0 .. NumDevices
           /\ Shorter(q, n, 1) \in [1 .. n - 1 -> Device]
           /\ Links(rts_pop(L), n - 1, Shorter(q, n, 1))
           /\ L.head = q[1]
<1>1. L.head \in Device
  BY NumDevicesAssumption DEF Links
<1> DEFINE M == rts_pop(L)
           second == L.next[L.head]
           keeps == second = Null
<1>2. /\ M \in [head : Pointer, tail : Pointer, prev : [Device -> Pointer],
                next : [Device -> Pointer]]
      /\ M.head = second
      /\ M.tail = IF keeps THEN Null ELSE L.tail
      /\ M.prev = IF keeps THEN L.prev ELSE [L.prev EXCEPT ![second] = Null]
      /\ M.next = L.next
  BY <1>1 DEF rts_pop, RTSListType, Pointer
<1> DEFINE r == Shorter(q, n, 1)
<1>3. Links(L, n, q)
  OBVIOUS
<1>4. n \in Nat \ {0} /\ n - 1 \in 0 .. NumDevices /\ L.head = q[1]
  BY NumDevicesAssumption, <1>1, <1>3 DEF Links
<1>5. r \in [1 .. n - 1 -> Device] /\ \A i \in 1 .. n - 1 : r[i] = q[i + 1]
  BY <1>4 DEF Shorter
<1>6. second = (IF n = 1 THEN Null ELSE q[2]) /\ (keeps <=> n = 1)
  BY <1>3, <1>4, NullAssumption DEF Links
<1> HIDE DEF M, second, keeps, r
<1>8. Links(M, n - 1, r)
  <2>1. ASSUME NEW i \in 1 .. n - 1, NEW j \in 1 .. n - 1, r[i] = r[j]
        PROVE  i = j
    <3>1. /\ i + 1 \in 1 .. n /\ j + 1 \in 1 .. n
          /\ q[i + 1] = q[j + 1]
      BY <2>1, <1>4, <1>5
    <3>2. i + 1 = j + 1
      BY <3>1, <1>3 DEF Links
    <3> QED
      BY <3>2
  <2>2. /\ M.head = IF n - 1 = 0 THEN Null ELSE r[1]
        /\ M.tail = IF n - 1 = 0 THEN Null ELSE r[n - 1]
    BY <1>2, <1>3, <1>4, <1>5, <1>6 DEF Links
  <2>3. ASSUME NEW i \in 1 .. n - 1
        PROVE  M.prev[r[i]] = IF i = 1 THEN Null ELSE r[i - 1]
    <3>1. /\ r[i] = q[i + 1] /\ q[i + 1] \in Device /\ (i # 1 => r[i - 1] = q[i])
          /\ L.prev[q[i + 1]] = q[i] /\ L.prev \in [Device -> Pointer]
      BY <1>3, <1>4, <1>5 DEF Links, RTSListType
    <3>2. ~keeps /\ second = q[2] /\ (i # 1 => q[i + 1] # q[2])
      BY <1>3, <1>4, <1>6 DEF Links
    <3>3. q[2] \in Device /\ M.prev = [L.prev EXCEPT ![q[2]] = Null]
      BY <1>2, <1>4, <3>2
    <3>4. CASE i = 1
      <4>1. r[i] = q[2]
        BY <3>1, <3>4
      <4> QED
        BY <3>1, <3>3, <3>4, <4>1
    <3>5. CASE i # 1
      BY <3>1, <3>2, <3>3, <3>5
    <3> QED
      BY <3>4, <3>5
  <2>4. ASSUME NEW i \in 1 .. n - 1
        PROVE  M.next[r[i]] = IF i = n - 1 THEN Null ELSE r[i + 1]
    BY <1>2, <1>3, <1>4, <1>5 DEF Links
  <2> QED
    BY <2>1, <2>2, <2>3, <2>4 DEF Links
<1>9. M \in RTSListType
  BY <1>2 DEF RTSListType
<1> QED
  BY <1>4, <1>5, <1>8, <1>9 DEF M, r

(* Popping a list that is not empty unlinks its head and no other. *)
LEMMA PopLists ==
    ASSUME NEW L \in RTSListType, NEW S, Lists(L, S), L.head # Null
    PROVE  /\ rts_pop(L) \in RTSListType
           /\ L.head \in S
           /\ Lists(rts_pop(L), S \ {L.head})
<1>1. PICK n \in 0 .. NumDevices : \E q \in [1 .. n -> Device] :
        Links(L, n, q) /\ S = {q[i] : i \in 1 .. n}
  BY DEF Lists
<1>2. PICK q \in [1 .. n -> Device] :
        Links(L, n, q) /\ S = {q[i] : i \in 1 .. n}
  BY <1>1
<1>3. n \in 1 .. NumDevices /\ 1 \in 1 .. n /\ n \in Nat
  BY <1>2, NumDevicesAssumption DEF Links
<1>4. L.head = q[1]
  BY <1>2, <1>3, PopLinks
<1>5. S \ {L.head} = {Shorter(q, n, 1)[i] : i \in 1 .. n - 1}
  <2>1. \A i, j \in 1 .. n : q[i] = q[j] => i = j
    BY <1>2 DEF Links
  <2>2. Members(q, n) \ {q[1]} = Members(Shorter(q, n, 1), n - 1)
    BY <1>3, <2>1, ShorterHasOthers
  <2> QED
    BY <1>2, <1>4, <2>2 DEF Members
<1> QED
  <2>1. /\ rts_pop(L) \in RTSListType
        /\ n - 1 \in 0 .. NumDevices
        /\ Shorter(q, n, 1) \in [1 .. n - 1 -> Device]
        /\ Links(rts_pop(L), n - 1, Shorter(q, n, 1))
    BY <1>2, <1>3, PopLinks
  <2>2. L.head \in S
    BY <1>2, <1>3, <1>4
  <2> QED
    BY <1>5, <2>1, <2>2 DEF Lists

-----------------------------------------------------------------------------
(* A set of naturals that is not empty has a least element. *)
LEMMA LeastNatural ==
    ASSUME NEW T, T \subseteq Nat, T # {}
    PROVE  \E k \in T : \A j \in T : k <= j
<1> DEFINE Less == {ss \in Nat \X Nat : ss[1] < ss[2]}
<1>1. IsWellFoundedOn(Less, Nat)
  BY NatLessThanWellFounded DEF OpToRel
<1>2. \E k \in T : \A j \in T : <<j, k>> \notin Less
  <2> HIDE DEF Less
  <2> QED
    BY <1>1, WFMin
<1>3. PICK k \in T : \A j \in T : <<j, k>> \notin Less
  BY <1>2
<1>4. \A j \in T : j \in Nat /\ k \in Nat /\ ~(j < k)
  BY <1>3
<1> QED
  BY <1>3, <1>4

(* rts_is_on_list's walk of a list meets its devices in their order. *)
LEMMA WalkMeets ==
    ASSUME NEW L, NEW n \in 0 .. NumDevices, NEW q \in [1 .. n -> Device], Links(L, n, q)
    PROVE  Walk(L) = q
<1> DEFINE More(seen, k) ==
             LET curr == IF seen = <<>> THEN L.head ELSE L.next[seen[Len(seen)]]
             IN  IF Len(seen) < k - 1 \/ curr = Null THEN seen ELSE Append(seen, curr)
           IsWalk(w) == w = [k \in 0 .. NumDevices |->
                               IF k = 0 THEN <<>> ELSE More(w[k - 1], k)]
           met == [k \in 0 .. NumDevices |-> [i \in 1 .. (IF k < n THEN k ELSE n) |-> q[i]]]
<1>1. Walk(L) = (CHOOSE w : IsWalk(w))[NumDevices]
  BY DEF Walk
<1>2. NumDevices \in Nat /\ n \in Nat /\ n <= NumDevices
  BY NumDevicesAssumption
<1>3. ASSUME NEW k \in 1 .. NumDevices
      PROVE  More(met[k - 1], k) = met[k]
  <2>1. k \in Nat /\ k > 0 /\ k - 1 \in 0 .. NumDevices /\ k \in 0 .. NumDevices
    BY <1>2
  <2>2. CASE k - 1 < n
    <3>1. met[k - 1] = [i \in 1 .. k - 1 |-> q[i]] /\ met[k] = [i \in 1 .. k |-> q[i]]
      BY <1>2, <2>1, <2>2
    <3>2. PICK seen \in Seq(Device) : seen = met[k - 1] /\ Len(seen) = k - 1
      <4>1. \A i \in 1 .. k - 1 : q[i] \in Device
        BY <1>2, <2>1, <2>2
      <4>2. [i \in 1 .. k - 1 |-> q[i]] \in Seq(Device)
        BY <2>1, <4>1
      <4>3. Len([i \in 1 .. k - 1 |-> q[i]]) = k - 1
        BY <2>1
      <4> HIDE DEF met
      <4> QED
        BY <3>1, <4>2, <4>3
    <3>3. CASE k = 1
      <4>1. seen = <<>> /\ L.head = q[1] /\ q[1] \in Device /\ q[1] # Null
        BY <1>2, <2>2, <3>2, <3>3, NullAssumption DEF Links
      <4>2. More(seen, k) = Append(<<>>, q[1])
        BY <3>3, <4>1
      <4> HIDE DEF More, met
      <4> QED
        BY <3>1, <3>2, <3>3, <4>1, <4>2
    <3>4. CASE k # 1
      <4>1. /\ k - 1 \in 1 .. n /\ k \in 1 .. n /\ k - 1 # n /\ (k - 1) + 1 = k
            /\ seen # <<>> /\ seen[Len(seen)] = q[k - 1]
        BY <1>2, <2>1, <2>2, <3>1, <3>2, <3>4
      <4>2. L.next[q[k - 1]] = q[k] /\ q[k] \in Device /\ q[k] # Null
        BY <4>1, NullAssumption DEF Links
      <4>3. More(seen, k) = Append(seen, q[k])
        BY <2>1, <3>2, <4>1, <4>2
      <4>4. Append(seen, q[k]) = [i \in 1 .. k |-> q[i]]
        BY <2>1, <3>1, <3>2, <4>2
      <4> HIDE DEF More, met
      <4> QED
        BY <3>1, <3>2, <4>3, <4>4
    <3> HIDE DEF More, met
    <3> QED
      BY <3>3, <3>4
  <2>3. CASE k - 1 >= n
    <3>1. met[k - 1] = q /\ met[k] = q
      BY <1>2, <2>1, <2>3
    <3>2. PICK seen \in Seq(Device) : seen = q /\ Len(seen) = n
      BY <1>2
    <3>3. CASE n < k - 1
      <4>1. More(seen, k) = seen
        BY <3>2, <3>3
      <4> HIDE DEF More, met
      <4> QED
        BY <3>1, <3>2, <4>1
    <3>4. CASE n = 0
      <4>1. seen = <<>> /\ L.head = Null
        BY <3>2, <3>4 DEF Links
      <4>2. More(seen, k) = seen
        BY <4>1
      <4> HIDE DEF More, met
      <4> QED
        BY <3>1, <3>2, <4>2
    <3>5. CASE n = k - 1 /\ n # 0
      <4>1. n \in 1 .. n /\ seen # <<>> /\ seen[Len(seen)] = q[n]
        BY <1>2, <3>2, <3>5
      <4>2. L.next[q[n]] = Null
        BY <4>1 DEF Links
      <4>3. More(seen, k) = seen
        BY <4>1, <4>2
      <4> HIDE DEF More, met
      <4> QED
        BY <3>1, <3>2, <4>3
    <3> HIDE DEF More, met
    <3> QED
      BY <1>2, <2>1, <2>3, <3>3, <3>4, <3>5
  <2> HIDE DEF More, met
  <2> QED
    BY <2>1, <2>2, <2>3, <1>2
<1>4. met[0] = <<>>
  BY <1>2
<1>5. IsWalk(met)
  <2> HIDE DEF More
  <2>1. ASSUME NEW k \in 0 .. NumDevices
        PROVE  met[k] = IF k = 0 THEN <<>> ELSE More(met[k - 1], k)
    <3>1. CASE k = 0
      BY <1>4, <3>1
    <3>2. CASE k # 0
      <4>1. k \in 1 .. NumDevices
        BY <1>2, <3>2
      <4>2. More(met[k - 1], k) = met[k]
        BY <1>3, <4>1
      <4> HIDE DEF met
      <4> QED
        BY <3>2, <4>2
    <3> QED
      BY <3>1, <3>2
  <2> QED
    BY <2>1
<1>6. ASSUME NEW w, IsWalk(w), w[NumDevices] # met[NumDevices]
      PROVE  FALSE
  <2> HIDE DEF More, met
  <2> DEFINE T == {k \in 0 .. NumDevices : w[k] # met[k]}
  <2>1. T \subseteq Nat /\ T # {}
    <3>1. NumDevices \in T
      BY <1>2, <1>6
    <3>2. T \subseteq Nat
      BY <1>2
    <3> QED
      BY <3>1, <3>2
  <2>2. PICK k \in T : \A j \in T : k <= j
    <3> HIDE DEF T
    <3> QED
      BY <2>1, LeastNatural
  <2>3. k \in 1 .. NumDevices /\ k - 1 \in 0 .. NumDevices
    BY <1>2, <1>4, <1>6, <2>2
  <2>4. w[k - 1] = met[k - 1]
    BY <1>2, <2>2, <2>3
  <2>5. w[k] = More(w[k - 1], k)
    BY <1>6, <2>3
  <2> QED
    BY <1>3, <2>2, <2>3, <2>4, <2>5
<1>7. met[NumDevices] = q
  BY <1>2
<1> HIDE DEF IsWalk, met
<1>8. IsWalk(CHOOSE w : IsWalk(w))
  BY <1>5
<1> QED
  BY <1>1, <1>6, <1>7, <1>8

(* The walk of a list is the sequence of the devices that it links.        *)
LEMMA WalkLists ==
    ASSUME NEW L, NEW S, Lists(L, S)
    PROVE  \E n \in 0 .. NumDevices : \E q \in [1 .. n -> Device] :
              /\ Links(L, n, q) /\ S = {q[i] : i \in 1 .. n}
              /\ Walk(L) = q /\ q \in Seq(Device) /\ Len(q) = n
<1>1. PICK n \in 0 .. NumDevices : \E q \in [1 .. n -> Device] :
        Links(L, n, q) /\ S = {q[i] : i \in 1 .. n}
  BY DEF Lists
<1>2. PICK q \in [1 .. n -> Device] :
        Links(L, n, q) /\ S = {q[i] : i \in 1 .. n}
  BY <1>1
<1>3. Walk(L) = q
  BY <1>2, WalkMeets
<1>4. q \in Seq(Device) /\ Len(q) = n
  BY NumDevicesAssumption
<1> QED
  BY <1>2, <1>3, <1>4

(* A list that links nothing has the empty walk. *)
LEMMA WalkEmpty ==
    ASSUME NEW L, L.head = Null, NEW S, Lists(L, S)
    PROVE  Walk(L) = <<>>
<1>1. PICK n \in 0 .. NumDevices : \E q \in [1 .. n -> Device] :
         /\ Links(L, n, q) /\ S = {q[i] : i \in 1 .. n}
         /\ Walk(L) = q /\ q \in Seq(Device) /\ Len(q) = n
  BY WalkLists
<1>2. PICK q \in [1 .. n -> Device] :
         /\ Links(L, n, q) /\ Walk(L) = q /\ q \in Seq(Device) /\ Len(q) = n
  BY <1>1
<1>3. n = 0
  <2>1. CASE n # 0
    <3>1. q[1] \in Device /\ L.head = q[1]
      BY <1>2, <2>1, NumDevicesAssumption DEF Links
    <3> QED
      BY <3>1, NullAssumption
  <2> QED
    BY <2>1
<1> QED
  BY <1>2, <1>3

(* rts_append puts a device at the end of the walk. *)
LEMMA WalkAppend ==
    ASSUME NEW L \in RTSListType, NEW S, Lists(L, S), NEW d \in Device, d \notin S
    PROVE  Walk(rts_append(L, d)) = Append(Walk(L), d)
<1>1. PICK n \in 0 .. NumDevices : \E q \in [1 .. n -> Device] :
         /\ Links(L, n, q) /\ S = {q[i] : i \in 1 .. n}
         /\ Walk(L) = q /\ q \in Seq(Device) /\ Len(q) = n
  BY WalkLists
<1>2. PICK q \in [1 .. n -> Device] :
         /\ Links(L, n, q) /\ S = {q[i] : i \in 1 .. n}
         /\ Walk(L) = q /\ q \in Seq(Device) /\ Len(q) = n
  BY <1>1
<1>3. \A i \in 1 .. n : q[i] # d
  BY <1>2
<1>4. /\ n + 1 \in 0 .. NumDevices /\ Longer(q, n, d) \in [1 .. n + 1 -> Device]
      /\ Links(rts_append(L, d), n + 1, Longer(q, n, d))
  BY <1>2, <1>3, AppendLinks
<1>5. Walk(rts_append(L, d)) = Longer(q, n, d)
  BY <1>4, WalkMeets
<1>6. Longer(q, n, d) = Append(q, d)
  <2>1. n \in Nat
    BY NumDevicesAssumption
  <2>2. Longer(q, n, d) \in Seq(Device) /\ Len(Longer(q, n, d)) = n + 1
    BY <1>4, <2>1
  <2>3. /\ Append(q, d) \in Seq(Device) /\ Len(Append(q, d)) = n + 1
        /\ \A i \in 1 .. n : Append(q, d)[i] = q[i]
        /\ Append(q, d)[n + 1] = d
    BY <1>2, AppendProperties
  <2>4. \A i \in 1 .. n + 1 : Longer(q, n, d)[i] = Append(q, d)[i]
    BY <2>1, <2>3 DEF Longer
  <2> QED
    BY <2>2, <2>3, <2>4, SeqEqual
<1> QED
  BY <1>2, <1>5, <1>6

(* Sequence v is w without its k-th element. *)
Without(v, w, k) == v = SubSeq(w, 1, k - 1) \o SubSeq(w, k + 1, Len(w))

LEMMA WithoutElement ==
    ASSUME NEW w \in Seq(Device), NEW k \in 1 .. Len(w), NEW v, Without(v, w, k)
    PROVE  /\ v \in Seq(Device) /\ Len(v) = Len(w) - 1
           /\ \A i \in 1 .. Len(w) - 1 : v[i] = IF i < k THEN w[i] ELSE w[i + 1]
<1>0. PICK n \in Nat : n = Len(w) /\ \A j \in 1 .. n : w[j] \in Device
  BY LenProperties, ElementOfSeq
<1> DEFINE before == SubSeq(w, 1, k - 1)
           after == SubSeq(w, k + 1, n)
<1>1. n \in Nat /\ k \in Nat /\ 1 <= k /\ k <= n
  BY <1>0
<1>2. /\ before \in Seq(Device) /\ Len(before) = k - 1
      /\ \A i \in 1 .. k - 1 : before[i] = w[i]
  BY <1>0, <1>1, SubSeqProperties
<1>3. /\ after \in Seq(Device) /\ Len(after) = n - k
      /\ \A i \in 1 .. n - k : after[i] = w[k + i]
  BY <1>0, <1>1, SubSeqProperties
<1> HIDE DEF before, after
<1>4. /\ before \o after \in Seq(Device) /\ Len(before \o after) = n - 1
      /\ \A i \in 1 .. n - 1 :
            (before \o after)[i] = IF i <= k - 1 THEN before[i] ELSE after[i - (k - 1)]
  <2>1. Len(before) + Len(after) = n - 1 /\ Len(before) = k - 1
    BY <1>1, <1>2, <1>3
  <2>2. /\ before \o after \in Seq(Device)
        /\ Len(before \o after) = Len(before) + Len(after)
        /\ \A i \in 1 .. Len(before) + Len(after) :
              (before \o after)[i] =
                 IF i <= Len(before) THEN before[i] ELSE after[i - Len(before)]
    BY <1>2, <1>3, ConcatProperties, Zenon
  <2>3. \A i \in 1 .. n - 1 :
           (before \o after)[i] = IF i <= k - 1 THEN before[i] ELSE after[i - (k - 1)]
    BY <2>1, <2>2, Zenon
  <2>4. Len(before \o after) = n - 1
    BY <2>1, <2>2, Zenon
  <2> QED
    BY <2>2, <2>3, <2>4, Zenon
<1>5. ASSUME NEW i \in 1 .. n - 1
      PROVE  (before \o after)[i] = IF i < k THEN w[i] ELSE w[i + 1]
  <2>1. CASE i < k
    <3>1. i \in 1 .. k - 1 /\ i <= k - 1
      BY <1>1, <2>1
    <3> QED
      BY <1>2, <1>4, <2>1, <3>1, Zenon
  <2>2. CASE i >= k
    <3>1. /\ i - (k - 1) \in 1 .. n - k /\ k + (i - (k - 1)) = i + 1
          /\ ~(i <= k - 1) /\ ~(i < k)
      BY <1>1, <2>2
    <3>2. (before \o after)[i] = after[i - (k - 1)]
      BY <1>4, <3>1
    <3>3. after[i - (k - 1)] = w[k + (i - (k - 1))]
      BY <1>3, <3>1
    <3>4. after[i - (k - 1)] = w[i + 1]
      BY <3>1, <3>3, Zenon
    <3> QED
      BY <3>1, <3>2, <3>4, Zenon
  <2>3. i < k \/ i >= k
    BY <1>1
  <2> QED
    BY <2>1, <2>2, <2>3, Zenon
<1> QED
  <2>1. v = before \o after
    BY <1>0 DEF before, after, Without
  <2> QED
    BY <1>0, <1>4, <1>5, <2>1, Zenon

(* rts_remove takes a device out of the walk, wherever it is. *)
LEMMA WalkRemove ==
    ASSUME NEW L \in RTSListType, NEW S, Lists(L, S), NEW d \in S
    PROVE  \E k \in 1 .. Len(Walk(L)) :
              /\ Walk(L)[k] = d
              /\ Walk(rts_remove(L, d)) =
                    SubSeq(Walk(L), 1, k - 1) \o SubSeq(Walk(L), k + 1, Len(Walk(L)))
<1>1. PICK n \in 0 .. NumDevices : \E q \in [1 .. n -> Device] :
         /\ Links(L, n, q) /\ S = {q[i] : i \in 1 .. n}
         /\ Walk(L) = q /\ q \in Seq(Device) /\ Len(q) = n
  BY WalkLists
<1>2. PICK q \in [1 .. n -> Device] :
         /\ Links(L, n, q) /\ S = {q[i] : i \in 1 .. n}
         /\ Walk(L) = q /\ q \in Seq(Device) /\ Len(q) = n
  BY <1>1
<1>3. PICK k \in 1 .. n : q[k] = d
  BY <1>2
<1>4. /\ n - 1 \in 0 .. NumDevices /\ Shorter(q, n, k) \in [1 .. n - 1 -> Device]
      /\ Links(rts_remove(L, d), n - 1, Shorter(q, n, k))
  BY <1>2, <1>3, RemoveLinks
<1>5. Walk(rts_remove(L, d)) = Shorter(q, n, k)
  BY <1>4, WalkMeets
<1>6. Shorter(q, n, k) = SubSeq(q, 1, k - 1) \o SubSeq(q, k + 1, n)
  <2>1. PICK v : v = SubSeq(q, 1, k - 1) \o SubSeq(q, k + 1, n) /\ Without(v, q, k)
    BY <1>2 DEF Without
  <2>2. /\ v \in Seq(Device) /\ Len(v) = n - 1
        /\ \A i \in 1 .. n - 1 : v[i] = IF i < k THEN q[i] ELSE q[i + 1]
    <3>1. PICK w \in Seq(Device) : w = q /\ Len(w) = n /\ k \in 1 .. Len(w)
      BY <1>2
    <3>2. Without(v, w, k)
      BY <2>1, <3>1
    <3> QED
      BY <3>1, <3>2, WithoutElement
  <2>3. Shorter(q, n, k) \in Seq(Device) /\ Len(Shorter(q, n, k)) = n - 1
    BY <1>4, NumDevicesAssumption
  <2>4. \A i \in 1 .. n - 1 : Shorter(q, n, k)[i] = v[i]
    BY <2>2 DEF Shorter
  <2>5. Shorter(q, n, k) = v
    BY <2>2, <2>3, <2>4, SeqEqual
  <2> QED
    BY <2>1, <2>5
<1> QED
  BY <1>2, <1>3, <1>5, <1>6

(* rts_pop takes the first device off the walk, which is the head. *)
LEMMA WalkPop ==
    ASSUME NEW L \in RTSListType, NEW S, Lists(L, S), L.head # Null
    PROVE  /\ Walk(L) # <<>> /\ Walk(L) \in Seq(Device)
           /\ Head(Walk(L)) = L.head
           /\ Walk(rts_pop(L)) = Tail(Walk(L))
<1>1. PICK n \in 0 .. NumDevices : \E q \in [1 .. n -> Device] :
         /\ Links(L, n, q) /\ S = {q[i] : i \in 1 .. n}
         /\ Walk(L) = q /\ q \in Seq(Device) /\ Len(q) = n
  BY WalkLists
<1>2. PICK q \in [1 .. n -> Device] :
         /\ Links(L, n, q) /\ Walk(L) = q /\ q \in Seq(Device) /\ Len(q) = n
  BY <1>1
<1>3. n \in 1 .. NumDevices /\ n \in Nat
  BY <1>2, NumDevicesAssumption DEF Links
<1>4. /\ n - 1 \in 0 .. NumDevices /\ Shorter(q, n, 1) \in [1 .. n - 1 -> Device]
      /\ Links(rts_pop(L), n - 1, Shorter(q, n, 1))
      /\ L.head = q[1]
  BY <1>2, <1>3, PopLinks
<1>5. Walk(rts_pop(L)) = Shorter(q, n, 1)
  BY <1>4, WalkMeets
<1>6. Shorter(q, n, 1) = Tail(q)
  <2>1. /\ Tail(q) \in Seq(Device) /\ Len(Tail(q)) = n - 1
        /\ \A i \in 1 .. n - 1 : Tail(q)[i] = q[i + 1]
    BY <1>2, <1>3, HeadTailProperties
  <2>2. /\ Shorter(q, n, 1) \in Seq(Device) /\ Len(Shorter(q, n, 1)) = n - 1
        /\ \A i \in 1 .. n - 1 : Shorter(q, n, 1)[i] = q[i + 1]
    BY <1>3, <1>4 DEF Shorter
  <2> QED
    BY <2>1, <2>2, SeqEqual
<1> QED
  BY <1>2, <1>3, <1>4, <1>5, <1>6
=============================================================================
