------------------------- MODULE RecentPacketsProofs -------------------------
(***************************************************************************)
(* For every set of keys and every capacity: the filter's queue and set    *)
(* stay in step, a key is never accepted twice within Capacity other keys, *)
(* and the filter implements SeenWindow.                                   *)
(***************************************************************************)
EXTENDS RecentPacketsCalls, TLAPS

\* An accepted key goes to the back of the queue; a full queue loses its
\* front, and what is left moves up (bridge.rs:72-83).
LEMMA InsertShifts ==
    ASSUME order \in Seq(Key), InStep, NEW k \in Key, Accepts(k), Insert(k)
    PROVE  LET m == Len(order)
               full == m >= Capacity
           IN  /\ full => m = Capacity /\ m > 0 /\ order # <<>>
               /\ order' \in Seq(Key)
               /\ Len(order') = IF full THEN m ELSE m + 1
               /\ order'[Len(order')] = k
               /\ \A i \in 1..(Len(order') - 1) :
                     order'[i] = IF full THEN order[i + 1] ELSE order[i]
<1> USE CapacityAssumption
<1> DEFINE m == Len(order)
           full == m >= Capacity
<1>1. m \in Nat /\ m <= Capacity /\ order' = Append(IF full THEN Tail(order) ELSE order, k)
  BY DEF InStep, Insert
<1>2. CASE full
  BY <1>1, <1>2
<1>3. CASE ~full
  BY <1>1, <1>3
<1> QED BY <1>2, <1>3

\* The queue and the set stay in step through an accepted key.
LEMMA InsertKeepsInStep ==
    ASSUME order \in Seq(Key), InStep, NEW k \in Key, Accepts(k), Insert(k)
    PROVE  InStep'
<1> USE CapacityAssumption
<1> DEFINE m == Len(order)
           full == m >= Capacity
<1>0. order \in Seq(Key) /\ m \in Nat /\ m <= Capacity
  BY DEF InStep
<1>1. /\ order' = Append(IF full THEN Tail(order) ELSE order, k)
      /\ set' = (set \cup {k}) \ (IF full THEN {Head(order)} ELSE {})
      /\ k \notin set
  BY DEF Insert, Accepts
<1>2. /\ full => m = Capacity /\ m > 0 /\ order # <<>>
      /\ order' \in Seq(Key)
      /\ Len(order') = IF full THEN m ELSE m + 1
      /\ order'[Len(order')] = k
      /\ \A i \in 1..(Len(order') - 1) : order'[i] = IF full THEN order[i + 1] ELSE order[i]
  BY InsertShifts
<1>3. /\ set = {order[i] : i \in 1..m}
      /\ \A i, j \in 1..m : order[i] = order[j] => i = j
  BY DEF InStep
<1>4. CASE full
  <2>1. Head(order) = order[1] /\ order[1] # k
    BY <1>0, <1>1, <1>2, <1>3, <1>4
  <2>2. set' = {order'[i] : i \in 1..Len(order')}
    <3>1. ASSUME NEW x \in set' PROVE \E i \in 1..Len(order') : order'[i] = x
      <4>1. CASE x = k
        BY <1>0, <1>2, <1>4, <4>1
      <4>2. CASE x # k
        <5>1. PICK i \in 1..m : order[i] = x
          BY <1>1, <1>3, <4>2
        <5>2. i # 1
          BY <1>1, <2>1, <5>1, <1>4
        <5>3. i - 1 \in 1..(Len(order') - 1) /\ order'[i - 1] = x
          BY <1>0, <1>2, <1>4, <5>1, <5>2
        <5> QED BY <5>3, <1>0, <1>2, <1>4
      <4> QED BY <4>1, <4>2
    <3>2. ASSUME NEW i \in 1..Len(order') PROVE order'[i] \in set'
      <4>1. CASE i = Len(order')
        BY <1>1, <1>2, <2>1, <4>1
      <4>2. CASE i # Len(order')
        <5>1. i + 1 \in 1..m /\ order'[i] = order[i + 1] /\ i + 1 # 1
          BY <1>0, <1>2, <1>4, <4>2
        <5>2. order[i + 1] # order[1] /\ order[i + 1] \in set
          BY <1>0, <1>3, <5>1
        <5> QED BY <1>1, <2>1, <5>1, <5>2
      <4> QED BY <4>1, <4>2
    <3> QED BY <3>1, <3>2
  <2>3. \A i, j \in 1..Len(order') : order'[i] = order'[j] => i = j
    BY <1>0, <1>1, <1>2, <1>3, <1>4
  <2>4. Len(order') <= Capacity
    BY <1>0, <1>2, <1>4
  <2> QED BY <2>2, <2>3, <2>4 DEF InStep
<1>5. CASE ~full
  <2>1. set' = {order'[i] : i \in 1..Len(order')}
    <3>1. set' = set \cup {k}
      BY <1>1, <1>5
    <3>2. Len(order') = m + 1 /\ order'[m + 1] = k /\ \A i \in 1..m : order'[i] = order[i]
      BY <1>0, <1>2, <1>5
    <3> QED BY <1>0, <1>3, <3>1, <3>2
  <2>2. \A i, j \in 1..Len(order') : order'[i] = order'[j] => i = j
    BY <1>0, <1>1, <1>2, <1>3, <1>5
  <2>3. Len(order') <= Capacity
    BY <1>0, <1>2, <1>5
  <2> QED BY <2>1, <2>2, <2>3 DEF InStep
<1> QED BY <1>4, <1>5

\* The initial state satisfies the invariant (bridge.rs:59-65).
THEOREM InitIInv == Init => IInv
BY CapacityAssumption DEF Init, Empty, NoCall, IInv, TypeOK, InStep, NoEarlyRepeat, OrderIsRecent

\* Under the invariant the set is the window of the last Capacity accepted keys.
LEMMA SetIsWindow ==
    ASSUME IInv
    PROVE  set = Abstract!Window(accepted)
<1> USE CapacityAssumption
<1> DEFINE n == Len(accepted)
           m == Len(order)
<1>1. n \in Nat /\ m \in Nat /\ m <= n /\ m <= Capacity /\ (m = n \/ m = Capacity)
  BY DEF IInv, TypeOK, OrderIsRecent
<1>2. ASSUME NEW i \in 1..m PROVE order[i] \in Abstract!Window(accepted)
  <2>1. /\ n - m + i \in 1..n
        /\ (n - m + i) + Capacity > n
    BY <1>1
  <2>2. order[i] = accepted[n - m + i]
    BY DEF IInv, OrderIsRecent
  <2> QED BY <2>1, <2>2 DEF Abstract!Window
<1>3. ASSUME NEW j \in 1..n, j + Capacity > n PROVE accepted[j] \in set
  <2>1. j - (n - m) \in 1..m
    BY <1>1, <1>3
  <2>2. order[j - (n - m)] = accepted[j]
    <3>1. order[j - (n - m)] = accepted[n - m + (j - (n - m))]
      BY <2>1 DEF IInv, OrderIsRecent
    <3>2. n - m + (j - (n - m)) = j
      BY <1>1
    <3> QED BY <3>1, <3>2
  <2> QED BY <2>1, <2>2 DEF IInv, InStep
<1>4. set \subseteq Abstract!Window(accepted)
  BY <1>2 DEF IInv, InStep
<1>5. Abstract!Window(accepted) \subseteq set
  BY <1>3 DEF Abstract!Window
<1> QED BY <1>4, <1>5

\* A call of insert preserves the invariant and is a call of the abstract
\* window: a refused key changes nothing; an accepted one enters both ends
\* in step, after the oldest has left a full filter.
LEMMA CallStep ==
    ASSUME IInv, NEW k \in Key, Call(k)
    PROVE  IInv' /\ Abstract!Call(k)
<1> USE CapacityAssumption
<1> DEFINE n == Len(accepted)
           m == Len(order)
<1>0. /\ order \in Seq(Key) /\ accepted \in Seq(Key) /\ set \in SUBSET Key
      /\ n \in Nat /\ m \in Nat /\ m <= n /\ m <= Capacity
      /\ m = IF n < Capacity THEN n ELSE Capacity
  BY DEF IInv, TypeOK, OrderIsRecent
<1>1. Abstract!Call(k)
  BY SetIsWindow DEF Call, Accepts, Abstract!Call
<1>2. CASE ~Accepts(k)
  <2>1. UNCHANGED <<order, set, accepted>> /\ answer' = [key |-> k, new |-> FALSE]
    BY <1>2 DEF Call, Insert, recentVars, Accepts
  <2>2. InStep' /\ NoEarlyRepeat' /\ OrderIsRecent'
    <3>1. InStep /\ NoEarlyRepeat /\ OrderIsRecent
      BY DEF IInv
    <3>2. InStep'
      BY <2>1, <3>1, Zenon DEF InStep
    <3>3. NoEarlyRepeat' /\ OrderIsRecent'
      BY <2>1, <3>1, Zenon DEF NoEarlyRepeat, OrderIsRecent
    <3> QED BY <3>2, <3>3
  <2>3. TypeOK'
    BY <1>0, <2>1 DEF TypeOK
  <2> QED BY <1>1, <2>2, <2>3, Zenon DEF IInv
<1>3. CASE Accepts(k)
  <2> DEFINE full == m >= Capacity
  <2>1. /\ order' = Append(IF full THEN Tail(order) ELSE order, k)
        /\ set' = (set \cup {k}) \ (IF full THEN {Head(order)} ELSE {})
        /\ accepted' = Append(accepted, k)
        /\ answer' = [key |-> k, new |-> TRUE]
        /\ k \notin set
    BY <1>3 DEF Call, Insert, Accepts
  <2>2. /\ accepted' \in Seq(Key) /\ Len(accepted') = n + 1
        /\ \A i \in 1..n : accepted'[i] = accepted[i]
        /\ accepted'[n + 1] = k
    BY <1>0, <2>1
  <2>3. /\ full => m = Capacity /\ m > 0 /\ order # <<>>
        /\ order' \in Seq(Key)
        /\ Len(order') = IF full THEN m ELSE m + 1
        /\ order'[Len(order')] = k
        /\ \A i \in 1..(Len(order') - 1) : order'[i] = IF full THEN order[i + 1] ELSE order[i]
    BY <1>0, <1>3, InsertShifts DEF Call, IInv
  <2>4. TypeOK'
    BY <1>0, <2>1, <2>2, <2>3 DEF TypeOK
  <2>5. OrderIsRecent'
    <3>0. \A j \in 1..m : order[j] = accepted[n - m + j]
      BY DEF IInv, OrderIsRecent
    <3>1. CASE full
      <4>1. m = Capacity /\ m <= n /\ Len(order') = m
        BY <1>0, <2>3, <3>1
      <4>2. ASSUME NEW i \in 1..m PROVE order'[i] = accepted'[(n + 1) - m + i]
        <5>1. CASE i = m
          <6>1. (n + 1) - m + i = n + 1
            BY <1>0, <5>1
          <6>2. order'[i] = k /\ accepted'[n + 1] = k
            BY <2>2, <2>3, <4>1, <5>1, Zenon
          <6> QED BY <6>1, <6>2
        <5>2. CASE i # m
          <6>1. i + 1 \in 1..m /\ order'[i] = order[i + 1]
            BY <1>0, <2>3, <3>1, <4>1, <5>2
          <6>2. n - m + (i + 1) = (n + 1) - m + i /\ (n + 1) - m + i \in 1..n
            BY <1>0, <4>1, <6>1
          <6>3. order[i + 1] = accepted[n - m + (i + 1)]
            BY <3>0, <6>1, Zenon
          <6> QED BY <2>2, <6>1, <6>2, <6>3
        <5> QED BY <5>1, <5>2
      <4>3. Len(accepted') = n + 1 /\ n + 1 > Capacity /\ Len(order') = m
        BY <1>0, <2>2, <4>1
      <4>4. \A i \in 1..m : order'[i] = accepted'[Len(accepted') - Len(order') + i]
        BY ONLY <4>2, <4>3, Zenon
      <4> QED BY <1>0, <4>1, <4>3, <4>4 DEF OrderIsRecent
    <3>2. CASE ~full
      <4>1. m = n /\ n < Capacity /\ Len(order') = n + 1
        BY <1>0, <2>3, <3>2
      <4>2. ASSUME NEW i \in 1..(n + 1) PROVE order'[i] = accepted'[i]
        <5>1. CASE i = n + 1
          BY <1>0, <2>2, <2>3, <4>1, <5>1
        <5>2. CASE i # n + 1
          <6>1. i \in 1..n /\ i \in 1..m /\ i \in 1..(Len(order') - 1) /\ n - m + i = i
            BY <1>0, <4>1, <5>2
          <6>2. order'[i] = order[i] /\ order[i] = accepted[n - m + i] /\ accepted'[i] = accepted[i]
            BY <2>2, <2>3, <3>0, <3>2, <6>1, Zenon
          <6> QED BY <6>1, <6>2
        <5> QED BY <5>1, <5>2
      <4> QED BY <1>0, <2>2, <4>1, <4>2 DEF OrderIsRecent
    <3> QED BY <3>1, <3>2
  <2>6. InStep'
    BY <1>0, <1>3, InsertKeepsInStep DEF Call, IInv
  <2>7. NoEarlyRepeat'
    <3>1. k \notin Abstract!Window(accepted)
      BY <2>1, SetIsWindow
    <3>2. ASSUME NEW i \in 1..n, accepted[i] = k PROVE n + 1 - i > Capacity
      BY <1>0, <3>1, <3>2 DEF Abstract!Window
    <3>3. ASSUME NEW i \in 1..(n + 1), NEW j \in 1..(n + 1), i < j, accepted'[i] = accepted'[j]
          PROVE  j - i > Capacity
      <4>1. i \in 1..n /\ accepted'[i] = accepted[i]
        BY <1>0, <2>2, <3>3
      <4>2. CASE j = n + 1
        <5>1. accepted[i] = k
          BY <2>2, <3>3, <4>1, <4>2, Zenon
        <5>2. n + 1 - i > Capacity
          BY <3>2, <4>1, <5>1, Zenon
        <5> QED BY <4>2, <5>2
      <4>3. CASE j # n + 1
        <5>1. j \in 1..n
          BY <1>0, <4>3
        <5> QED BY <2>2, <3>3, <4>1, <5>1 DEF NoEarlyRepeat, IInv
      <4> QED BY <4>2, <4>3
    <3> QED BY <2>2, <3>3, Zenon DEF NoEarlyRepeat
  <2> QED BY <1>1, <2>4, <2>5, <2>6, <2>7 DEF IInv
<1> QED BY <1>1, <1>2, <1>3

\* Bridge::new of the next session starts from an empty filter and history.
LEMMA RestartStep ==
    ASSUME Restart
    PROVE  IInv' /\ Abstract!Restart
BY CapacityAssumption
   DEF Restart, Forget, NoCall, IInv, TypeOK, InStep, NoEarlyRepeat, OrderIsRecent,
       Abstract!Restart, Abstract!NoCall

\* The queue, the set and the history keep the invariant in every behaviour:
\* the filter never refuses a forgotten packet nor accepts a remembered one
\* (bridge.rs:72-83).
THEOREM AlwaysIInv == Spec => []IInv
<1>1. Init => IInv
  BY InitIInv
<1>2. IInv /\ [Next]_vars => IInv'
  <2> SUFFICES ASSUME IInv, [Next]_vars PROVE IInv'
    OBVIOUS
  <2>1. CASE Restart
    BY <2>1, RestartStep
  <2>2. CASE \E k \in Key : Call(k)
    BY <2>2, CallStep
  <2>3. CASE UNCHANGED vars
    <3>1. TypeOK' /\ InStep'
      BY <2>3 DEF vars, IInv, TypeOK, InStep
    <3>2. NoEarlyRepeat' /\ OrderIsRecent'
      BY <2>3, Zenon DEF vars, IInv, NoEarlyRepeat, OrderIsRecent
    <3> QED BY <3>1, <3>2, Zenon DEF IInv
  <2> QED BY <2>1, <2>2, <2>3 DEF Next
<1> QED BY <1>1, <1>2, PTL DEF Spec

\* No packet is accepted twice while fewer than Capacity others were
\* accepted in between, for any number of calls (bridge.rs:72-83, 326).
THEOREM NeverEarlyRepeat == Spec => []NoEarlyRepeat
<1>1. IInv => NoEarlyRepeat
  BY DEF IInv
<1> QED BY <1>1, AlwaysIInv, PTL

\* The queue and the set never come apart, and the filter never holds more
\* than Capacity packets (bridge.rs:72-83).
THEOREM StaysInStep == Spec => []InStep
<1>1. IInv => InStep
  BY DEF IInv
<1> QED BY <1>1, AlwaysIInv, PTL

\* Every behaviour of the filter is one of the window of the last Capacity
\* accepted keys (bridge.rs:72-83 implements it with a queue and a set).
THEOREM Refinement == Spec => ImplementsSeenWindow
<1>1. Init => Abstract!Init
  BY DEF Init, NoCall, Abstract!Init, Abstract!NoCall
<1>2. IInv /\ [Next]_vars => [Abstract!Next]_<<accepted, answer>>
  <2> SUFFICES ASSUME IInv, [Next]_vars PROVE [Abstract!Next]_<<accepted, answer>>
    OBVIOUS
  <2>1. CASE Restart
    BY <2>1, RestartStep DEF Abstract!Next
  <2>2. CASE \E k \in Key : Call(k)
    BY <2>2, CallStep DEF Abstract!Next
  <2>3. CASE UNCHANGED vars
    BY <2>3 DEF vars
  <2> QED BY <2>1, <2>2, <2>3 DEF Next
<1> QED BY <1>1, <1>2, AlwaysIInv, PTL DEF Spec, ImplementsSeenWindow, Abstract!Spec
=============================================================================
