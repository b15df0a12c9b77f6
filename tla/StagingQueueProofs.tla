-------------------------- MODULE StagingQueueProofs --------------------------
(***************************************************************************)
(* Theorems about StagingQueue, for every set of items, every capacity and *)
(* every overflow behaviour: types, capacity, no stale item, and that the  *)
(* ring buffer implements the two sequences of StagedFifo.                 *)
(***************************************************************************)
EXTENDS StagingQueue, SequenceTheorems, TLAPS

-------------------------------------------------------------------------------
(* Positions and slots.                                                    *)

\* Every position has a slot of the buffer.
LEMMA SlotRange ==
    ASSUME NEW N \in Nat \ {0}, NEW i \in Int
    PROVE  i % N \in 0..(N - 1)
  OBVIOUS

\* Positions up to one turn past the end of the buffer: the slot is the position
\* itself, or the position less one turn.
LEMMA SlotUnwound ==
    ASSUME NEW N \in Nat \ {0}, NEW i \in 0..(2 * N - 1)
    PROVE  i % N = IF i < N THEN i ELSE i - N
  <1>1. CASE i < N
    BY <1>1
  <1>2. CASE i >= N
    <2>1. i \in N..(2 * N - 1)
      BY <1>2
    <2>2. i % N = i - N
      BY <2>1
    <2> QED
      BY <1>2, <2>2
  <1> QED
    BY <1>1, <1>2

\* The slot j places behind slot b.
LEMMA SlotFrom ==
    ASSUME NEW N \in Nat \ {0}, NEW b \in 0..(N - 1), NEW j \in 0..N
    PROVE  (b + j) % N = IF b + j < N THEN b + j ELSE b + j - N
  <1> DEFINE i == b + j
  <1>1. i \in 0..(2 * N - 1)
    OBVIOUS
  <1> HIDE DEF i
  <1>2. i % N = IF i < N THEN i ELSE i - N
    BY <1>1, SlotUnwound
  <1> QED
    BY <1>2 DEF i

\* Two positions less than a whole turn apart have different slots.
LEMMA SlotsDiffer ==
    ASSUME NEW N \in Nat \ {0}, NEW b \in 0..(N - 1),
           NEW j \in 0..(N - 1), NEW k \in 0..(N - 1)
    PROVE  (b + j) % N = (b + k) % N => j = k
  <1> DEFINE x == (b + j) % N
             y == (b + k) % N
  <1>1. j \in 0..N /\ k \in 0..N
    OBVIOUS
  <1>2. (b + j) % N = IF b + j < N THEN b + j ELSE b + j - N
    BY <1>1, SlotFrom, Zenon
  <1>3. (b + k) % N = IF b + k < N THEN b + k ELSE b + k - N
    BY <1>1, SlotFrom, Zenon
  <1>4. /\ x = IF b + j < N THEN b + j ELSE b + j - N
        /\ y = IF b + k < N THEN b + k ELSE b + k - N
    BY <1>2, <1>3, Zenon
  <1> HIDE DEF x, y
  <1>5. x = y => j = k
    BY <1>4
  <1> QED
    BY <1>5 DEF x, y

\* Counting on from a wrapped position leads to the same slots.
LEMMA SlotOfSlot ==
    ASSUME NEW N \in Nat \ {0}, NEW b \in 0..(N - 1),
           NEW j \in 0..N, NEW k \in 0..(N - 1), j + k < N
    PROVE  (((b + j) % N) + k) % N = (b + (j + k)) % N
  <1> DEFINE w == (b + j) % N
             x == (w + k) % N
             y == (b + (j + k)) % N
  <1>1. k \in 0..N /\ j + k \in 0..N
    OBVIOUS
  <1>2. w = IF b + j < N THEN b + j ELSE b + j - N
    BY SlotFrom, Zenon
  <1>3. y = IF b + (j + k) < N THEN b + (j + k) ELSE b + (j + k) - N
    BY <1>1, SlotFrom, Zenon
  <1> HIDE DEF w, y
  <1>4. w \in 0..(N - 1)
    BY <1>2
  <1>5. x = IF w + k < N THEN w + k ELSE w + k - N
    BY <1>1, <1>4, SlotFrom, Zenon
  <1> HIDE DEF x
  <1>6. x = y
    BY <1>2, <1>3, <1>5
  <1> QED
    BY <1>6 DEF w, x, y

\* Counting past a full turn leads back to the first slots.
LEMMA SlotPastTurn ==
    ASSUME NEW N \in Nat \ {0}, NEW b \in 0..(N - 1),
           NEW j \in 0..N, NEW k \in 0..(N - 1), j + k >= N
    PROVE  (((b + j) % N) + k) % N = (b + (j + k - N)) % N
  <1> DEFINE w == (b + j) % N
             x == (w + k) % N
             y == (b + (j + k - N)) % N
  <1>1. k \in 0..N /\ j + k - N \in 0..N
    OBVIOUS
  <1>2. w = IF b + j < N THEN b + j ELSE b + j - N
    BY SlotFrom, Zenon
  <1>3. y = IF b + (j + k - N) < N THEN b + (j + k - N) ELSE b + (j + k - N) - N
    BY <1>1, SlotFrom, Zenon
  <1> HIDE DEF w, y
  <1>4. w \in 0..(N - 1)
    BY <1>2
  <1>5. x = IF w + k < N THEN w + k ELSE w + k - N
    BY <1>1, <1>4, SlotFrom, Zenon
  <1> HIDE DEF x
  <1>6. x = y
    BY <1>2, <1>3, <1>5
  <1> QED
    BY <1>6 DEF w, x, y

\* Every slot is reached from slot b in less than a turn.
LEMMA SlotReached ==
    ASSUME NEW N \in Nat \ {0}, NEW b \in 0..(N - 1), NEW s \in 0..(N - 1)
    PROVE  \E k \in 0..(N - 1) : (b + k) % N = s
  <1> DEFINE k == IF s >= b THEN s - b ELSE s - b + N
  <1>1. k \in 0..(N - 1) /\ k \in 0..N
    OBVIOUS
  <1>2. s = IF b + k < N THEN b + k ELSE b + k - N
    OBVIOUS
  <1> HIDE DEF k
  <1>3. (b + k) % N = IF b + k < N THEN b + k ELSE b + k - N
    BY <1>1, SlotFrom, Zenon
  <1> QED
    BY <1>1, <1>2, <1>3, Zenon

\* A queue has at least two slots.
LEMMA NumSlotsPositive ==
    ASSUME capacity \in Capacities
    PROVE  capacity \in Nat \ {0} /\ NumSlots \in Nat \ {0}
  BY CapacityAssumption DEF NumSlots

\* The facts about positions of a queue that the proofs below use: they make no
\* further use of the definition of Slot.
LEMMA Positions ==
    ASSUME TypeOK
    PROVE  /\ \A i \in Int : Slot(i) \in 0..(NumSlots - 1)
           /\ Slot(begin) = begin
           /\ \A j, k \in 0..(NumSlots - 1) :
                  Slot(begin + j) = Slot(begin + k) => j = k
           /\ \A j \in 0..NumSlots : \A k \in 0..(NumSlots - 1) :
                  j + k < NumSlots
                      => Slot(Slot(begin + j) + k) = Slot(begin + (j + k))
           /\ \A j \in 0..NumSlots : \A k \in 0..(NumSlots - 1) :
                  j + k >= NumSlots
                      => Slot(Slot(begin + j) + k) = Slot(begin + (j + k - NumSlots))
           /\ \A s \in 0..(NumSlots - 1) :
                  \E k \in 0..(NumSlots - 1) : Slot(begin + k) = s
  <1>1. NumSlots \in Nat \ {0} /\ begin \in 0..(NumSlots - 1)
    BY NumSlotsPositive DEF TypeOK
  <1>2. \A i \in Int : Slot(i) \in 0..(NumSlots - 1)
    BY <1>1, SlotRange DEF Slot
  <1>3. Slot(begin) = begin
    <2>1. 0 \in 0..NumSlots /\ begin + 0 = begin /\ begin < NumSlots
      BY <1>1
    <2>2. (begin + 0) % NumSlots =
              IF begin + 0 < NumSlots THEN begin + 0 ELSE begin + 0 - NumSlots
      BY <1>1, <2>1, SlotFrom, Zenon
    <2> QED
      BY <2>1, <2>2, Zenon DEF Slot
  <1>4. \A j, k \in 0..(NumSlots - 1) : Slot(begin + j) = Slot(begin + k) => j = k
    BY <1>1, SlotsDiffer, Zenon DEF Slot
  <1>5. \A j \in 0..NumSlots : \A k \in 0..(NumSlots - 1) :
            j + k < NumSlots => Slot(Slot(begin + j) + k) = Slot(begin + (j + k))
    BY <1>1, SlotOfSlot, Zenon DEF Slot
  <1>6. \A j \in 0..NumSlots : \A k \in 0..(NumSlots - 1) :
            j + k >= NumSlots
                => Slot(Slot(begin + j) + k) = Slot(begin + (j + k - NumSlots))
    BY <1>1, SlotPastTurn, Zenon DEF Slot
  <1>7. \A s \in 0..(NumSlots - 1) :
            \E k \in 0..(NumSlots - 1) : Slot(begin + k) = s
    BY <1>1, SlotReached, Zenon DEF Slot
  <1> QED
    BY <1>2, <1>3, <1>4, <1>5, <1>6, <1>7

-------------------------------------------------------------------------------
(* Types.                                                                  *)

\* The type invariant, begin_ in {0, ..., items_.size() - 1} included: every
\* method leaves it there, the early returns of push and sync as well.
THEOREM TypeCorrect == Spec => []TypeOK
  <1>1. Init => TypeOK
    BY CapacityAssumption DEF Init, TypeOK, NumSlots
  <1>2. TypeOK /\ [Next]_vars => TypeOK'
    <2> SUFFICES ASSUME TypeOK, [Next]_vars PROVE TypeOK'
      OBVIOUS
    <2>1. capacity \in Nat \ {0} /\ NumSlots \in Nat \ {0}
      BY NumSlotsPositive DEF TypeOK
    <2>2. \A i \in Int : Slot(i) \in 0..(NumSlots - 1)
      BY <2>1, SlotRange DEF Slot
    <2>3. \A from \in Int, n \in Int :
              Cleared(from, n) \in [0..(NumSlots - 1) -> Items \cup {Null}]
      BY DEF Cleared, TypeOK
    <2>4. CASE Pop
      <3>1. Slot(begin) \in 0..(NumSlots - 1) /\ Slot(begin + 1) \in 0..(NumSlots - 1)
        BY <2>1, <2>2 DEF TypeOK
      <3>2. result' \in Items \cup {Null}
        BY <2>4, <3>1 DEF Pop, TypeOK
      <3>3. /\ items' \in [0..(NumSlots - 1) -> Items \cup {Null}]
            /\ begin' \in 0..(NumSlots - 1)
            /\ num_mainstage' \in Nat
        BY <2>1, <2>4, <3>1 DEF Pop, TypeOK
      <3> QED
        BY <2>4, <3>2, <3>3 DEF Pop, TypeOK, NumSlots
    <2>5. CASE PopAll
      BY <2>1, <2>2, <2>3, <2>5 DEF PopAll, TypeOK, NumSlots
    <2>6. ASSUME NEW x \in Items, Push(x) PROVE TypeOK'
      <3>1. Shifted(x) \in [0..(NumSlots - 1) -> Items \cup {Null}]
        <4>1. \A s \in 0..(NumSlots - 1) : Slot(s + 1) \in 0..(NumSlots - 1)
          BY <2>2
        <4> QED
          BY <4>1 DEF Shifted, TypeOK
      <3>2. CASE PushToFreeSlot(x)
        <4>1. Slot(BeginBackstage + num_backstage) \in 0..(NumSlots - 1)
          BY <2>2, <2>1 DEF BeginBackstage, TypeOK
        <4> QED
          BY <2>1, <2>6, <3>2, <4>1 DEF Push, PushToFreeSlot, TypeOK, NumSlots
      <3>3. CASE PushToFullBackstage(x)
        BY <2>6, <3>1, <3>3 DEF Push, PushToFullBackstage, TypeOK, NumSlots
      <3> QED
        BY <2>6, <3>2, <3>3 DEF Push
    <2>7. CASE Sync
      <3>0. begin \in Int
        BY <2>1 DEF TypeOK
      <3>1. Total \in Nat /\ capacity \in Nat
        BY <2>1 DEF Total, TypeOK
      <3>2. CASE SyncWithRoom
        BY <2>1, <2>2, <2>7, <3>1, <3>2 DEF Sync, SyncWithRoom, TypeOK, NumSlots
      <3>3. CASE SyncPop
        <4>0. begin + Total - capacity \in Int /\ Total - capacity \in Int
          BY <3>0, <3>1
        <4>1. Slot(begin + Total - capacity) \in 0..(NumSlots - 1)
          BY <2>2, <4>0, Zenon
        <4>2. Cleared(begin, Total - capacity)
                  \in [0..(NumSlots - 1) -> Items \cup {Null}]
          BY <2>3, <3>0, <4>0, Zenon
        <4> QED
          BY <2>1, <2>7, <3>1, <3>3, <4>1, <4>2 DEF Sync, SyncPop, TypeOK, NumSlots
      <3>4. CASE SyncReject
        <4>0. begin + capacity \in Int /\ Total - capacity \in Int
          BY <3>0, <3>1
        <4>1. Cleared(begin + capacity, Total - capacity)
                  \in [0..(NumSlots - 1) -> Items \cup {Null}]
          BY <2>3, <3>0, <4>0, Zenon
        <4> QED
          BY <2>1, <2>2, <2>7, <3>1, <3>4, <4>1 DEF Sync, SyncReject, TypeOK, NumSlots
      <3>5. CASE SyncFault
        <4>1. num_mainstage' \in Nat /\ num_backstage' \in 0..capacity
          BY <2>7, <3>1, <3>5 DEF Sync, SyncFault
        <4>2. result' \in BOOLEAN
          BY <3>5 DEF SyncFault
        <4> QED
          BY <2>7, <3>5, <4>1, <4>2 DEF Sync, SyncFault, TypeOK, NumSlots
      <3> QED
        BY <2>7, <3>2, <3>3, <3>4, <3>5 DEF Sync
    <2>8. CASE UNCHANGED vars
      BY <2>8 DEF vars, TypeOK, NumSlots
    <2> QED
      BY <2>4, <2>5, <2>6, <2>7, <2>8 DEF Next
  <1> QED
    BY <1>1, <1>2, PTL DEF Spec

-------------------------------------------------------------------------------
(* Capacity.                                                               *)

\* A queue that drops items never holds more than capacity_ of them in its main
\* stage.
THEOREM WithinCapacity == Spec => []DroppingQueueWithinCapacity
  <1>1. Init => DroppingQueueWithinCapacity
    BY CapacityAssumption DEF Init, DroppingQueueWithinCapacity
  <1>2. /\ TypeOK
        /\ DroppingQueueWithinCapacity
        /\ [Next]_vars
        => DroppingQueueWithinCapacity'
    <2> SUFFICES ASSUME TypeOK, DroppingQueueWithinCapacity, [Next]_vars
                 PROVE  DroppingQueueWithinCapacity'
      OBVIOUS
    <2>1. capacity \in Nat /\ num_mainstage \in Nat /\ num_backstage \in Nat
      BY NumSlotsPositive DEF TypeOK
    <2> USE DEF DroppingQueueWithinCapacity
    <2>2. CASE Pop
      BY <2>1, <2>2 DEF Pop
    <2>3. CASE PopAll
      BY <2>1, <2>3 DEF PopAll
    <2>4. ASSUME NEW x \in Items, Push(x) PROVE DroppingQueueWithinCapacity'
      BY <2>1, <2>4 DEF Push
    <2>5. CASE Sync
      BY <2>1, <2>5 DEF Sync, SyncWithRoom, SyncPop, SyncReject, SyncFault, Total
    <2>6. CASE UNCHANGED vars
      BY <2>6 DEF vars
    <2> QED
      BY <2>2, <2>3, <2>4, <2>5, <2>6 DEF Next
  <1> QED
    BY <1>1, <1>2, TypeCorrect, PTL DEF Spec

-------------------------------------------------------------------------------
(* Slots outside the stages hold null.                                     *)

\* What Cleared does to the slots of a range of positions, and to no other.
LEMMA ClearedSlots ==
    ASSUME TypeOK, NEW from \in Int, NEW n \in Int
    PROVE  /\ \A k \in 0..(n - 1) : Cleared(from, n)[Slot(from + k)] = Null
           /\ \A s \in 0..(NumSlots - 1) :
                  Cleared(from, n)[s] \in {items[s], Null}
           /\ \A s \in 0..(NumSlots - 1) :
                  (\A k \in 0..(n - 1) : Slot(from + k) # s)
                      => Cleared(from, n)[s] = items[s]
  <1>1. \A i \in Int : Slot(i) \in 0..(NumSlots - 1)
    BY Positions
  <1>2. DOMAIN items = 0..(NumSlots - 1)
    BY DEF TypeOK
  <1>3. ASSUME NEW k \in 0..(n - 1) PROVE Cleared(from, n)[Slot(from + k)] = Null
    <2>1. Slot(from + k) \in DOMAIN items
      BY <1>1, <1>2
    <2> QED
      BY <2>1 DEF Cleared
  <1>4. ASSUME NEW s \in 0..(NumSlots - 1)
        PROVE  /\ Cleared(from, n)[s] \in {items[s], Null}
               /\ (\A k \in 0..(n - 1) : Slot(from + k) # s)
                      => Cleared(from, n)[s] = items[s]
    BY <1>2 DEF Cleared
  <1> QED
    BY <1>3, <1>4

\* No slot outside the two stages keeps an item: whatever is popped, dropped or
\* rejected gives up its reference.  This holds even for a faulted queue.
THEOREM NoStaleItem == Spec => []FreeSlotsNull
  <1>1. Init => FreeSlotsNull
    <2> SUFFICES ASSUME Init PROVE FreeSlotsNull
      OBVIOUS
    <2>1. NumSlots \in Nat \ {0}
      BY CapacityAssumption DEF Init, NumSlots
    <2>2. \A i \in Int : Slot(i) \in 0..(NumSlots - 1)
      BY <2>1, SlotRange DEF Slot
    <2> QED
      BY <2>1, <2>2 DEF Init, FreeSlotsNull, Total, NumSlots
  <1>2. /\ TypeOK /\ TypeOK'
        /\ DroppingQueueWithinCapacity
        /\ FreeSlotsNull
        /\ [Next]_vars
        => FreeSlotsNull'
    <2> SUFFICES ASSUME TypeOK, TypeOK', DroppingQueueWithinCapacity, FreeSlotsNull,
                        [Next]_vars
                 PROVE  FreeSlotsNull'
      OBVIOUS
    <2> DEFINE N == NumSlots
    <2>1. /\ N \in Nat \ {0} /\ N' = N
          /\ capacity \in Nat \ {0} /\ N = 2 * capacity
      BY NumSlotsPositive DEF TypeOK, NumSlots, Next, vars, Pop, PopAll, Push, Sync
    <2>2. /\ num_mainstage \in Nat /\ num_backstage \in 0..capacity
          /\ Total \in Nat /\ begin \in 0..(N - 1)
      BY <2>1 DEF TypeOK, Total
    <2>3. DOMAIN items = 0..(N - 1)
      BY DEF TypeOK
    <2>free. \A k \in 0..(N - 1) : k >= Total => items[Slot(begin + k)] = Null
      BY <2>1, <2>2 DEF FreeSlotsNull
    <2>range. \A i \in Int : Slot(i) \in 0..(N - 1)
      BY Positions
    <2>begin. Slot(begin) = begin
      BY Positions
    <2>inj. \A j, k \in 0..(N - 1) : Slot(begin + j) = Slot(begin + k) => j = k
      BY Positions
    <2>inside. \A j \in 0..N : \A k \in 0..(N - 1) :
                   j + k < N => Slot(Slot(begin + j) + k) = Slot(begin + (j + k))
      BY Positions
    <2>turn. \A j \in 0..N : \A k \in 0..(N - 1) :
                   j + k >= N => Slot(Slot(begin + j) + k) = Slot(begin + (j + k - N))
      BY Positions
    <2>onto. \A s \in 0..(N - 1) : \E k \in 0..(N - 1) : Slot(begin + k) = s
      BY Positions
    <2> SUFFICES ASSUME NEW k \in 0..(N - 1), k >= Total'
                 PROVE  items'[Slot(begin' + k)] = Null
      <3>1. \A i : Slot(i)' = Slot(i)
        BY <2>1 DEF Slot
      <3>2. num_mainstage' \in Nat /\ num_backstage' \in Nat
        BY DEF TypeOK
      <3>3. \A m, b \in Nat : m + b \in Nat
        OBVIOUS
      <3>4. Total' \in Nat
        BY <3>2, <3>3 DEF Total
      <3> QED
        BY <2>1, <3>1, <3>4 DEF FreeSlotsNull
    <2>k. Slot(begin + k) \in 0..(N - 1) /\ k \in Nat /\ k < N
      BY <2>1, <2>2, <2>range
    <2> HIDE DEF N
    <2>kept. ASSUME items' = items, begin' = begin, Total' = Total
             PROVE  items'[Slot(begin' + k)] = Null
      BY <2>free, <2>kept
    <2>4. CASE Pop
      <3>1. CASE num_mainstage = 0
        <4>1. items' = items /\ begin' = begin /\ Total' = Total
          BY <2>2, <2>4, <2>begin, <3>1 DEF Pop, Total
        <4> QED
          BY <2>kept, <4>1
      <3>2. CASE num_mainstage > 0
        <4>1. /\ items' = [items EXCEPT ![begin] = Null]
              /\ begin' = Slot(begin + 1)
          BY <2>2, <2>4, <2>begin, <3>2 DEF Pop
        <4>2. Total' = Total - 1
          BY <2>2, <2>4, <3>2 DEF Pop, Total
        <4>3. CASE 1 + k < N
          <5>1. 1 + k \in 0..(N - 1) /\ 1 + k >= Total /\ 1 \in 0..N
            BY <2>1, <2>2, <2>k, <4>2, <4>3
          <5>2. Slot(begin' + k) = Slot(begin + (1 + k))
            BY <2>inside, <4>1, <4>3, <5>1
          <5>3. items[Slot(begin + (1 + k))] = Null
            BY <2>free, <5>1
          <5>4. Slot(begin + (1 + k)) \in DOMAIN items
            BY <2>1, <2>2, <2>3, <2>range, <5>1
          <5> QED
            BY <4>1, <5>2, <5>3, <5>4
        <4>4. CASE 1 + k >= N
          <5>1. 1 \in 0..N /\ begin + (1 + k - N) = begin
            BY <2>1, <2>2, <2>k, <4>4
          <5>2. Slot(begin' + k) = Slot(begin)
            BY <2>turn, <4>1, <4>4, <5>1
          <5> QED
            BY <2>2, <2>3, <2>begin, <4>1, <5>2
        <4> QED
          BY <2>1, <2>k, <4>3, <4>4
      <3> QED
        BY <2>2, <3>1, <3>2
    <2>5. CASE PopAll
      <3>1. /\ items' = Cleared(begin, num_mainstage)
            /\ begin' = Slot(begin + num_mainstage)
        BY <2>5 DEF PopAll
      <3>2. Total' = num_backstage
        BY <2>2, <2>5 DEF PopAll, Total
      <3>3. ASSUME NEW j \in 0..(num_mainstage - 1)
            PROVE  items'[Slot(begin + j)] = Null
        <4>1. begin \in Int /\ num_mainstage \in Int
          BY <2>1, <2>2
        <4> QED
          BY <3>1, <4>1, ClearedSlots
      <3>4. CASE num_mainstage >= N
        <4>1. Slot(begin' + k) \in 0..(N - 1)
          BY <2>1, <2>2, <2>k, <2>range, <3>1
        <4>2. PICK j \in 0..(N - 1) : Slot(begin + j) = Slot(begin' + k)
          BY <2>onto, <4>1
        <4>3. j \in 0..(num_mainstage - 1)
          BY <2>1, <2>2, <3>4
        <4> QED
          BY <3>3, <4>2, <4>3
      <3>5. CASE num_mainstage < N
        <4>1. num_mainstage \in 0..N
          BY <2>1, <2>2, <3>5
        <4>2. CASE num_mainstage + k < N
          <5>1. Slot(begin' + k) = Slot(begin + (num_mainstage + k))
            BY <2>inside, <3>1, <4>1, <4>2
          <5>2. num_mainstage + k \in 0..(N - 1) /\ num_mainstage + k >= Total
            BY <2>1, <2>2, <2>k, <3>2, <4>2 DEF Total
          <5>3. items[Slot(begin + (num_mainstage + k))] = Null
            BY <2>free, <5>2
          <5>4. Slot(begin + (num_mainstage + k)) \in 0..NumSlots - 1
            BY <2>1, <2>2, <2>range, <5>2 DEF N
          <5>5. items'[Slot(begin + (num_mainstage + k))]
                    \in {items[Slot(begin + (num_mainstage + k))], Null}
            BY <2>2, <3>1, <5>4, ClearedSlots
          <5> QED
            BY <5>1, <5>3, <5>5
        <4>3. CASE num_mainstage + k >= N
          <5>1. Slot(begin' + k) = Slot(begin + (num_mainstage + k - N))
            BY <2>turn, <3>1, <4>1, <4>3
          <5>2. num_mainstage + k - N \in 0..(num_mainstage - 1)
            BY <2>1, <2>2, <2>k, <4>3
          <5> QED
            BY <3>3, <5>1, <5>2
        <4> QED
          BY <2>1, <2>2, <2>k, <4>2, <4>3
      <3> QED
        BY <2>1, <2>2, <3>4, <3>5
    <2>6. ASSUME NEW x \in Items, Push(x) PROVE items'[Slot(begin' + k)] = Null
      <3>1. begin' = begin /\ num_mainstage' = num_mainstage
        BY <2>6 DEF Push
      <3>2. CASE PushToFreeSlot(x)
        <4>1. BeginBackstage + num_backstage = begin + Total
          BY <2>2 DEF BeginBackstage, Total
        <4>2. items' = [items EXCEPT ![Slot(begin + Total)] = x]
          BY <3>2, <4>1 DEF PushToFreeSlot
        <4>3. Total' = Total + 1
          BY <2>2, <3>1, <3>2 DEF PushToFreeSlot, Total
        <4>4. Total \in 0..(N - 1) /\ k # Total /\ k >= Total
          BY <2>1, <2>2, <2>k, <4>3
        <4>5. Slot(begin + k) # Slot(begin + Total)
          BY <2>inj, <4>4
        <4>6. items[Slot(begin + k)] = Null
          BY <2>free, <4>4
        <4> QED
          BY <2>3, <2>k, <3>1, <4>2, <4>5, <4>6
      <3>3. CASE PushToFullBackstage(x)
        <4>1. Total' = Total
          BY <3>1, <3>3 DEF PushToFullBackstage, Total
        <4>2. CASE items' = items
          BY <2>kept, <3>1, <4>1, <4>2
        <4>3. CASE items' = Shifted(x)
          <5>1. num_backstage = capacity
            BY <3>3 DEF PushToFullBackstage
          <5>2. ASSUME NEW i \in 0..(num_backstage - 1)
                PROVE  Slot(BeginBackstage + i) # Slot(begin + k)
            <6>1. /\ num_mainstage + i \in 0..(N - 1) /\ num_mainstage + i # k
                  /\ BeginBackstage + i = begin + (num_mainstage + i)
              BY <2>1, <2>2, <2>k, <4>1 DEF BeginBackstage, Total
            <6> QED
              BY <2>inj, <6>1
          <5>3. Slot(BeginBackstage + num_backstage - 1) # Slot(begin + k)
            <6>1. /\ num_backstage - 1 \in 0..(num_backstage - 1)
                  /\ BeginBackstage + num_backstage - 1
                         = BeginBackstage + (num_backstage - 1)
              BY <2>1, <2>2, <5>1 DEF BeginBackstage
            <6> QED
              BY <5>2, <6>1
          <5>4. \A i \in 0..(num_backstage - 2) :
                    Slot(begin + k) # Slot(BeginBackstage + i)
            BY <2>2, <5>2
          <5>5. Shifted(x)[Slot(begin + k)] = items[Slot(begin + k)]
            BY <2>3, <2>k, <5>3, <5>4 DEF Shifted
          <5> QED
            BY <2>free, <3>1, <4>1, <4>3, <5>5
        <4> QED
          BY <3>3, <4>2, <4>3 DEF PushToFullBackstage
      <3> QED
        BY <2>6, <3>2, <3>3 DEF Push
    <2>7. CASE Sync
      <3>1. Total' = num_mainstage'
        <4>1. num_mainstage' \in Nat /\ num_backstage' = 0
          BY <2>7 DEF Sync, TypeOK
        <4>2. \A m \in Nat : m + 0 = m
          OBVIOUS
        <4> QED
          BY <4>1, <4>2 DEF Total
      <3>2. CASE SyncWithRoom
        BY <2>kept, <2>begin, <3>1, <3>2 DEF SyncWithRoom
      <3>3. CASE SyncFault
        BY <2>kept, <3>1, <3>3 DEF SyncFault
      <3>4. CASE SyncPop
        <4> DEFINE d == Total - capacity
        <4>1. /\ d \in 1..capacity /\ d \in 0..N /\ d + capacity = Total
              /\ begin + Total - capacity = begin + d
          BY <2>1, <2>2, <3>4 DEF SyncPop, DroppingQueueWithinCapacity, Total
        <4>2. items' = Cleared(begin, d) /\ begin' = Slot(begin + d)
          BY <3>4, <4>1 DEF SyncPop
        <4>3. Total' = capacity
          BY <3>1, <3>4 DEF SyncPop
        <4> HIDE DEF d
        <4>4. ASSUME NEW j \in 0..(d - 1) PROVE items'[Slot(begin + j)] = Null
          <5>1. begin \in Int /\ d \in Int
            BY <2>1, <2>2, <4>1
          <5> QED
            BY <4>2, <5>1, ClearedSlots
        <4>5. CASE d + k < N
          <5>1. d + k \in 0..(N - 1) /\ d + k >= Total
            BY <2>1, <2>2, <2>k, <4>1, <4>3, <4>5
          <5>2. Slot(begin' + k) = Slot(begin + (d + k))
            BY <2>inside, <4>1, <4>2, <4>5
          <5>3. items[Slot(begin + (d + k))] = Null
            BY <2>free, <5>1
          <5>4. Slot(begin + (d + k)) \in 0..NumSlots - 1
            BY <2>1, <2>2, <2>range, <5>1 DEF N
          <5>5. items'[Slot(begin + (d + k))] \in {items[Slot(begin + (d + k))], Null}
            BY <2>2, <4>1, <4>2, <5>4, ClearedSlots
          <5> QED
            BY <5>2, <5>3, <5>5
        <4>6. CASE d + k >= N
          <5>1. Slot(begin' + k) = Slot(begin + (d + k - N))
            BY <2>turn, <4>1, <4>2, <4>6
          <5>2. d + k - N \in 0..(d - 1)
            BY <2>1, <2>k, <4>1, <4>6
          <5> QED
            BY <4>4, <5>1, <5>2
        <4> QED
          BY <2>1, <2>k, <4>1, <4>5, <4>6
      <3>5. CASE SyncReject
        <4> DEFINE d == Total - capacity
        <4>1. d \in Nat /\ Total = capacity + d /\ begin + capacity \in Int
          BY <2>1, <2>2, <3>5 DEF SyncReject
        <4>2. items' = Cleared(begin + capacity, d) /\ begin' = begin
          BY <2>begin, <3>5 DEF SyncReject
        <4>3. Total' = capacity
          BY <3>1, <3>5 DEF SyncReject
        <4> HIDE DEF d
        <4>4. CASE k < Total
          <5>1. /\ k - capacity \in 0..(d - 1)
                /\ begin + capacity + (k - capacity) = begin + k
            BY <2>1, <2>2, <2>k, <4>1, <4>3, <4>4
          <5>2. Cleared(begin + capacity, d)[Slot(begin + capacity + (k - capacity))] = Null
            <6>1. \A i \in 0..(d - 1) :
                      Cleared(begin + capacity, d)[Slot(begin + capacity + i)] = Null
              BY <4>1, ClearedSlots
            <6> QED
              BY <5>1, <6>1
          <5> QED
            BY <4>2, <5>1, <5>2
        <4>5. CASE k >= Total
          <5>1. items[Slot(begin + k)] = Null
            BY <2>free, <4>5
          <5>2. items'[Slot(begin + k)] \in {items[Slot(begin + k)], Null}
            BY <2>k, <4>1, <4>2, ClearedSlots DEF N
          <5> QED
            BY <4>2, <5>1, <5>2
        <4> QED
          BY <2>2, <2>k, <4>4, <4>5
      <3> QED
        BY <2>7, <3>2, <3>3, <3>4, <3>5 DEF Sync
    <2>8. CASE UNCHANGED vars
      BY <2>kept, <2>8 DEF vars, Total
    <2> QED
      BY <2>4, <2>5, <2>6, <2>7, <2>8 DEF Next
  <1> QED
    BY <1>1, <1>2, TypeCorrect, WithinCapacity, PTL DEF Spec
-------------------------------------------------------------------------------
(* The stages as sequences.                                                *)

\* The n elements of c from position `from' on.
Stage(c, from, n) == [k \in 1..n |-> c[from + (k - 1)]]

\* These elements exist, and are of S.
Stored(c, from, n, S) ==
    from \in Nat /\ n \in Nat /\ \A i \in from..(from + n - 1) : c[i] \in S

\* s lists them.
Lists(s, c, from, n, S) ==
    s \in Seq(S) /\ Len(s) = n /\ \A k \in 1..n : s[k] = c[from + (k - 1)]

LEMMA StageIsSequence ==
    ASSUME NEW S, NEW c, NEW from, NEW n, Stored(c, from, n, S)
    PROVE  Lists(Stage(c, from, n), c, from, n, S)
  <1>1. n \in Nat /\ \A k \in 1..n : c[from + (k - 1)] \in S
    BY DEF Stored
  <1>2. Stage(c, from, n) \in [1..n -> S]
    BY <1>1 DEF Stage
  <1>3. Stage(c, from, n) \in Seq(S)
    BY <1>1, <1>2
  <1>4. DOMAIN Stage(c, from, n) = 1..n
    BY DEF Stage
  <1>5. Len(Stage(c, from, n)) = n
    BY <1>1, <1>3, <1>4, LenProperties
  <1> QED
    BY <1>3, <1>5 DEF Stage, Lists

\* Two functions that agree on n places, each from its own position on, have the same stage
\* there.
Agree(c, f, d, g, n) == \A k \in 0..(n - 1) : c[f + k] = d[g + k]

LEMMA StageSame ==
    ASSUME NEW c, NEW d, NEW f, NEW g, NEW n \in Int, Agree(c, f, d, g, n)
    PROVE  Stage(c, f, n) = Stage(d, g, n)
  <1>1. \A k \in 1..n : c[f + (k - 1)] = d[g + (k - 1)]
    BY DEF Agree
  <1> QED
    BY <1>1, Zenon DEF Stage

\* Only one sequence lists them.
LEMMA StageEqual ==
    ASSUME NEW S, NEW c, NEW from, NEW n, NEW s, Stored(c, from, n, S),
           Lists(s, c, from, n, S)
    PROVE  s = Stage(c, from, n)
  <1> DEFINE t == Stage(c, from, n)
  <1>1. Lists(t, c, from, n, S)
    BY StageIsSequence, Zenon
  <1> HIDE DEF t
  <1>2. /\ s \in Seq(S) /\ t \in Seq(S)
        /\ Len(s) = Len(t) /\ \A k \in 1..Len(s) : s[k] = t[k]
    BY <1>1 DEF Lists
  <1>3. s = t
    BY <1>2, SeqEqual, Zenon
  <1> QED
    BY <1>3 DEF t

LEMMA StageEmpty == \A c, f : Stage(c, f, 0) = <<>>
  <1> SUFFICES ASSUME NEW c, NEW f PROVE Stage(c, f, 0) = <<>>
    OBVIOUS
  <1>1. Stage(c, f, 0) \in [1..0 -> {c[f + (k - 1)] : k \in 1..0}]
    BY DEF Stage
  <1>2. Stage(c, f, 0) \in Seq({c[f + (k - 1)] : k \in 1..0})
    BY <1>1
  <1>3. Len(Stage(c, f, 0)) = 0
    BY <1>1, <1>2, LenProperties
  <1> QED
    BY <1>2, <1>3, EmptySeq

LEMMA StageHeadTail ==
    ASSUME NEW S, NEW c, NEW from, NEW n, n # 0, Stored(c, from, n, S)
    PROVE  /\ Stage(c, from, n) # <<>>
           /\ Head(Stage(c, from, n)) = c[from]
           /\ Tail(Stage(c, from, n)) = Stage(c, from + 1, n - 1)
  <1> DEFINE s == Stage(c, from, n)
  <1>1. s \in Seq(S) /\ Len(s) = n /\ \A k \in 1..n : s[k] = c[from + (k - 1)]
    <2>1. Lists(s, c, from, n, S)
      BY StageIsSequence, Zenon
    <2> HIDE DEF s
    <2> QED
      BY <2>1 DEF Lists
  <1> HIDE DEF s
  <1>0. n \in Nat \ {0} /\ from \in Nat
    BY DEF Stored
  <1>2. s # <<>> /\ Head(s) = s[1] /\ s[1] = c[from]
    BY <1>0, <1>1
  <1>3. /\ Tail(s) \in Seq(S) /\ Len(Tail(s)) = n - 1
        /\ \A k \in 1..(n - 1) : Tail(s)[k] = s[k + 1]
    BY <1>0, <1>1, <1>2, HeadTailProperties
  <1>4. \A k \in 1..(n - 1) : Tail(s)[k] = c[(from + 1) + (k - 1)]
    BY <1>0, <1>1, <1>3
  <1>5. Tail(s) = Stage(c, from + 1, n - 1)
    <2>1. Stored(c, from + 1, n - 1, S)
      BY DEF Stored
    <2>2. Lists(Tail(s), c, from + 1, n - 1, S)
      BY <1>3, <1>4 DEF Lists
    <2> QED
      BY <2>1, <2>2, StageEqual, Zenon
  <1> QED
    BY <1>2, <1>5 DEF s

LEMMA StageAppend ==
    ASSUME NEW S, NEW c, NEW from, NEW n \in Nat, Stored(c, from, n + 1, S)
    PROVE  Append(Stage(c, from, n), c[from + n]) = Stage(c, from, n + 1)
  <1> DEFINE s == Stage(c, from, n)
             t == Append(s, c[from + n])
  <1>1. s \in Seq(S) /\ Len(s) = n /\ \A k \in 1..n : s[k] = c[from + (k - 1)]
    <2>1. Stored(c, from, n, S)
      BY DEF Stored
    <2>2. Lists(s, c, from, n, S)
      BY <2>1, StageIsSequence, Zenon
    <2> HIDE DEF s
    <2> QED
      BY <2>2 DEF Lists
  <1> HIDE DEF s
  <1>2. c[from + n] \in S /\ from \in Nat
    BY DEF Stored
  <1>3. /\ t \in Seq(S) /\ Len(t) = n + 1
        /\ \A k \in 1..n : t[k] = s[k]
        /\ t[n + 1] = c[from + n]
    BY <1>1, <1>2, AppendProperties
  <1> HIDE DEF t
  <1>4. \A k \in 1..(n + 1) : t[k] = c[from + (k - 1)]
    BY <1>1, <1>2, <1>3
  <1>5. t = Stage(c, from, n + 1)
    <2>1. Lists(t, c, from, n + 1, S)
      BY <1>3, <1>4 DEF Lists
    <2> QED
      BY <2>1, StageEqual, Zenon
  <1> QED
    BY <1>5 DEF s, t

LEMMA ListsConcat ==
    ASSUME NEW S, NEW c, NEW from \in Nat, NEW m \in Nat, NEW n \in Nat,
           NEW s, NEW t, Lists(s, c, from, m, S), Lists(t, c, from + m, n, S)
    PROVE  Lists(s \o t, c, from, m + n, S)
  <1>1. s \in Seq(S) /\ Len(s) = m /\ \A k \in 1..m : s[k] = c[from + (k - 1)]
    BY DEF Lists
  <1>2. t \in Seq(S) /\ Len(t) = n /\ \A k \in 1..n : t[k] = c[(from + m) + (k - 1)]
    BY DEF Lists
  <1>3. /\ s \o t \in Seq(S) /\ Len(s \o t) = m + n
        /\ \A k \in 1..(m + n) : (s \o t)[k] = IF k <= m THEN s[k] ELSE t[k - m]
    BY <1>1, <1>2, ConcatProperties
  <1>4. ASSUME NEW k \in 1..(m + n) PROVE (s \o t)[k] = c[from + (k - 1)]
    <2>1. CASE k <= m
      BY <1>1, <1>3, <2>1
    <2>2. CASE k > m
      <3>1. k - m \in 1..n /\ (from + m) + ((k - m) - 1) = from + (k - 1) /\ ~(k <= m)
        BY <2>2
      <3> QED
        BY <1>2, <1>3, <3>1
    <2>3. k <= m \/ k > m
      OBVIOUS
    <2> QED
      BY <2>1, <2>2, <2>3, Zenon
  <1> QED
    BY <1>3, <1>4, Zenon DEF Lists

LEMMA StagePart ==
    ASSUME NEW S, NEW c, NEW from, NEW n, Stored(c, from, n, S),
           NEW i \in 1..(n + 1), NEW j \in (i - 1)..n
    PROVE  SubSeq(Stage(c, from, n), i, j) = Stage(c, from + (i - 1), j - (i - 1))
  <1> DEFINE s == Stage(c, from, n)
             t == SubSeq(s, i, j)
  <1>1. s \in Seq(S) /\ Len(s) = n /\ \A k \in 1..n : s[k] = c[from + (k - 1)]
    <2>1. Lists(s, c, from, n, S)
      BY StageIsSequence, Zenon
    <2> HIDE DEF s
    <2> QED
      BY <2>1 DEF Lists
  <1> HIDE DEF s
  <1>0. from \in Nat /\ n \in Nat
    BY DEF Stored
  <1>2. i \in Int /\ j \in Int /\ \A k \in i..j : s[k] \in S
    <2>1. i \in Int /\ j \in Int /\ \A k \in i..j : k \in 1..Len(s)
      BY <1>0, <1>1
    <2> QED
      BY <1>1, <2>1, ElementOfSeq, Zenon
  <1>3. /\ t \in Seq(S) /\ Len(t) = IF i <= j THEN j - i + 1 ELSE 0
        /\ \A k \in 1..(j - i + 1) : t[k] = s[i + k - 1]
    BY <1>2, SubSeqProperties
  <1> HIDE DEF t
  <1>4. Len(t) = j - (i - 1)
    BY <1>0, <1>3
  <1>5. ASSUME NEW k \in 1..(j - (i - 1)) PROVE t[k] = c[(from + (i - 1)) + (k - 1)]
    <2>1. k \in 1..(j - i + 1) /\ i + k - 1 \in 1..n
          /\ from + ((i + k - 1) - 1) = (from + (i - 1)) + (k - 1)
      BY <1>0
    <2> QED
      BY <1>1, <1>3, <2>1
  <1>6. t = Stage(c, from + (i - 1), j - (i - 1))
    <2>1. Stored(c, from + (i - 1), j - (i - 1), S)
      BY DEF Stored
    <2>2. Lists(t, c, from + (i - 1), j - (i - 1), S)
      BY <1>3, <1>4, <1>5, Zenon DEF Lists
    <2> QED
      BY <2>1, <2>2, StageEqual, Zenon
  <1> QED
    BY <1>6 DEF s, t

-------------------------------------------------------------------------------
(* The ring buffer implements the FIFO.                                    *)

\* What the slots hold, counted from the start of the buffer.
Contents == [i \in 0..(NumSlots - 1) |-> items[Slot(begin + i)]]

mainstage == [k \in 1..num_mainstage |-> peek(k - 1)]
backstage == [k \in 1..num_backstage |-> peek_backstage(k - 1)]

LEMMA ContentsType ==
    ASSUME TypeOK
    PROVE  /\ NumSlots \in Nat \ {0} /\ capacity \in Nat \ {0} /\ NumSlots = 2 * capacity
           /\ num_mainstage \in Nat /\ num_backstage \in 0..capacity
           /\ Contents \in [0..(NumSlots - 1) -> Items \cup {Null}]
           /\ \A i \in 0..(NumSlots - 1) : Contents[i] = items[Slot(begin + i)]
  <1>1. NumSlots \in Nat \ {0} /\ capacity \in Nat \ {0} /\ NumSlots = 2 * capacity
    BY NumSlotsPositive DEF TypeOK, NumSlots
  <1>2. num_mainstage \in Nat /\ num_backstage \in 0..capacity
    BY DEF TypeOK
  <1>3. \A i \in 0..(NumSlots - 1) : Slot(begin + i) \in 0..(NumSlots - 1)
    <2>1. begin \in Int
      BY <1>1 DEF TypeOK
    <2>2. \A i \in Int : Slot(i) \in 0..(NumSlots - 1)
      BY Positions
    <2> QED
      BY <1>1, <2>1, <2>2
  <1>4. Contents \in [0..(NumSlots - 1) -> Items \cup {Null}]
    BY <1>3 DEF Contents, TypeOK
  <1> QED
    BY <1>1, <1>2, <1>4 DEF Contents

LEMMA ContentsStored ==
    ASSUME TypeOK, NEW from \in Nat, NEW n \in Nat, from + n <= NumSlots
    PROVE  Stored(Contents, from, n, Items \cup {Null})
  <1>1. NumSlots \in Nat /\ Contents \in [0..(NumSlots - 1) -> Items \cup {Null}]
    BY ContentsType
  <1>2. \A i \in from..(from + n - 1) : i \in 0..(NumSlots - 1)
    BY <1>1
  <1> QED
    BY <1>1, <1>2 DEF Stored

LEMMA FunctionIsSequence ==
    ASSUME NEW S, NEW n \in Nat, NEW s \in [1..n -> S]
    PROVE  Len(s) = n
  <1>1. s \in Seq(S) /\ DOMAIN s = 1..n
    OBVIOUS
  <1> QED
    BY <1>1, LenProperties

LEMMA MainLength == TypeOK => Len(mainstage) = num_mainstage
  <1> SUFFICES ASSUME TypeOK PROVE Len(mainstage) = num_mainstage
    OBVIOUS
  <1>1. num_mainstage \in Nat
    BY ContentsType
  <1>2. \A k \in 1..num_mainstage : peek(k - 1) \in {peek(i - 1) : i \in 1..num_mainstage}
    OBVIOUS
  <1>3. mainstage \in [1..num_mainstage -> {peek(i - 1) : i \in 1..num_mainstage}]
    BY <1>2, Zenon DEF mainstage
  <1> QED
    BY <1>1, <1>3, FunctionIsSequence, Zenon

LEMMA MainIsStage ==
    TypeOK /\ num_mainstage <= NumSlots => mainstage = Stage(Contents, 0, num_mainstage)
  <1> SUFFICES ASSUME TypeOK, num_mainstage <= NumSlots
               PROVE  mainstage = Stage(Contents, 0, num_mainstage)
    OBVIOUS
  <1>1. ASSUME NEW k \in 1..num_mainstage PROVE peek(k - 1) = Contents[0 + (k - 1)]
    <2>1. k - 1 \in 0..(NumSlots - 1) /\ k - 1 < num_mainstage /\ 0 + (k - 1) = k - 1
      BY ContentsType
    <2>2. peek(k - 1) = items[Slot(begin + (k - 1))]
      BY <2>1 DEF peek
    <2> QED
      BY <2>1, <2>2, ContentsType
  <1> QED
    BY <1>1, Zenon DEF mainstage, Stage

LEMMA BackIsStage ==
    TypeOK /\ Total <= NumSlots
        => backstage = Stage(Contents, num_mainstage, num_backstage)
  <1> SUFFICES ASSUME TypeOK, Total <= NumSlots
               PROVE  backstage = Stage(Contents, num_mainstage, num_backstage)
    OBVIOUS
  <1>1. ASSUME NEW k \in 1..num_backstage
        PROVE  peek_backstage(k - 1) = Contents[num_mainstage + (k - 1)]
    <2>1. /\ num_mainstage + (k - 1) \in 0..(NumSlots - 1) /\ k - 1 < num_backstage
          /\ begin \in Int /\ num_mainstage \in Int /\ k - 1 \in Int
      BY ContentsType DEF Total, TypeOK
    <2>2. begin + num_mainstage + (k - 1) = begin + (num_mainstage + (k - 1))
      BY <2>1
    <2>3. peek_backstage(k - 1) = items[Slot(begin + num_mainstage + (k - 1))]
      BY <2>1 DEF peek_backstage
    <2> QED
      BY <2>1, <2>2, <2>3, ContentsType, Zenon
  <1> QED
    BY <1>1, Zenon DEF backstage, Stage

\* After a step that moves the start by j, the contents are those that stood j places
\* further, where their slots were left alone.
LEMMA ContentsMoved ==
    ASSUME TypeOK, TypeOK', capacity' = capacity, NEW j \in 0..NumSlots,
           begin' = Slot(begin + j)
    PROVE  /\ NumSlots' = NumSlots
           /\ \A k \in 0..(NumSlots - 1) :
                  j + k < NumSlots => Contents'[k] = items'[Slot(begin + (j + k))]
  <1>1. NumSlots' = NumSlots
    BY DEF NumSlots
  <1>2. \A i \in Int : Slot(i)' = Slot(i)
    BY <1>1 DEF Slot
  <1>3. ASSUME NEW k \in 0..(NumSlots - 1), j + k < NumSlots
        PROVE  Contents'[k] = items'[Slot(begin + (j + k))]
    <2>1. Contents'[k] = items'[Slot(begin' + k)]
      BY <1>1 DEF Contents, Slot
    <2>2. Slot(Slot(begin + j) + k) = Slot(begin + (j + k))
      BY <1>3, Positions
    <2> QED
      BY <2>1, <2>2
  <1> QED
    BY <1>1, <1>3

\* In a queue that has not failed, the two stages fit into the buffer.
LEMMA StagesFit ==
    ASSUME TypeOK, num_mainstage <= capacity
    PROVE  /\ Total \in Nat /\ Total = num_mainstage + num_backstage
           /\ num_mainstage <= NumSlots /\ Total <= NumSlots
           /\ mainstage = Stage(Contents, 0, num_mainstage)
           /\ backstage = Stage(Contents, num_mainstage, num_backstage)
           /\ Stored(Contents, 0, num_mainstage, Items \cup {Null})
           /\ Stored(Contents, num_mainstage, num_backstage, Items \cup {Null})
           /\ Stored(Contents, 0, Total, Items \cup {Null})
           /\ Len(mainstage) = num_mainstage /\ Len(backstage) = num_backstage
  <1>1. /\ Total \in Nat /\ Total = num_mainstage + num_backstage
        /\ num_mainstage <= NumSlots /\ Total <= NumSlots
    BY ContentsType DEF Total
  <1>2. /\ mainstage = Stage(Contents, 0, num_mainstage)
        /\ backstage = Stage(Contents, num_mainstage, num_backstage)
    BY <1>1, MainIsStage, BackIsStage
  <1>3. 0 + num_mainstage <= NumSlots /\ num_mainstage \in Nat /\ num_backstage \in Nat
        /\ 0 + Total <= NumSlots /\ num_mainstage + num_backstage <= NumSlots
    BY <1>1, ContentsType
  <1>4. /\ Stored(Contents, 0, num_mainstage, Items \cup {Null})
        /\ Stored(Contents, num_mainstage, num_backstage, Items \cup {Null})
        /\ Stored(Contents, 0, Total, Items \cup {Null})
    BY <1>1, <1>3, ContentsStored
  <1>5. /\ Lists(mainstage, Contents, 0, num_mainstage, Items \cup {Null})
        /\ Lists(backstage, Contents, num_mainstage, num_backstage, Items \cup {Null})
    BY <1>2, <1>4, StageIsSequence
  <1>6. Len(mainstage) = num_mainstage /\ Len(backstage) = num_backstage
    BY <1>5 DEF Lists
  <1> QED
    BY <1>1, <1>2, <1>4, <1>6

LEMMA StagesFitNext ==
    ASSUME TypeOK', num_mainstage' <= NumSlots', Total' <= NumSlots'
    PROVE  /\ mainstage' = Stage(Contents', 0, num_mainstage')
           /\ backstage' = Stage(Contents', num_mainstage', num_backstage')
  <1>1. (TypeOK /\ num_mainstage <= NumSlots
             => mainstage = Stage(Contents, 0, num_mainstage))'
    BY MainIsStage, PTL
  <1>2. (TypeOK /\ Total <= NumSlots
             => backstage = Stage(Contents, num_mainstage, num_backstage))'
    BY BackIsStage, PTL
  <1> QED
    BY <1>1, <1>2

\* Slots that are the same distance from the start are the same.
LEMMA SlotsApart ==
    ASSUME TypeOK, NEW j \in 0..(NumSlots - 1), NEW k \in 0..(NumSlots - 1), j # k
    PROVE  /\ Slot(begin + j) # Slot(begin + k)
           /\ Slot(begin + j) \in 0..(NumSlots - 1)
  <1>1. \A i \in Int : Slot(i) \in 0..(NumSlots - 1)
    BY Positions
  <1>2. begin + j \in Int
    BY ContentsType DEF TypeOK
  <1>3. Slot(begin + j) = Slot(begin + k) => j = k
    BY Positions, Zenon
  <1> QED
    BY <1>1, <1>2, <1>3

LEMMA PopRefines ==
    ASSUME TypeOK, TypeOK', num_mainstage <= capacity, Pop
    PROVE  /\ \/ /\ mainstage # <<>>
                 /\ result' = Head(mainstage)
                 /\ mainstage' = Tail(mainstage)
              \/ /\ mainstage = <<>>
                 /\ result' = Null
                 /\ UNCHANGED mainstage
           /\ UNCHANGED <<capacity, overflow_behavior, backstage>>
  <1> DEFINE n == num_mainstage
             b == num_backstage
             N == NumSlots
             c == Contents
             d == Contents'
  <1>1. /\ N \in Nat \ {0} /\ N = 2 * capacity /\ capacity \in Nat \ {0}
        /\ n \in Nat /\ b \in 0..capacity /\ n <= capacity
    BY ContentsType
  <1>2. /\ mainstage = Stage(c, 0, n) /\ backstage = Stage(c, n, b)
        /\ Stored(c, 0, n, Items \cup {Null})
    BY StagesFit
  <1>3. UNCHANGED <<capacity, overflow_behavior>> /\ b' = b
    BY DEF Pop
  <1>4. CASE n > 0
    <2>1. /\ result' = items[Slot(begin)]
          /\ items' = [items EXCEPT ![Slot(begin)] = Null]
          /\ begin' = Slot(begin + 1) /\ n' = n - 1
      BY <1>1, <1>4 DEF Pop
    <2>2. 1 \in 0..N /\ N' = N
      BY <1>1, <1>3 DEF NumSlots
    <2>3. \A k \in 0..(N - 1) : 1 + k < N => d[k] = items'[Slot(begin + (1 + k))]
      BY <1>3, <2>1, <2>2, ContentsMoved, Zenon
    <2>4. Slot(begin) = Slot(begin + 0)
      BY <1>1 DEF TypeOK
    <2>5. ASSUME NEW k \in 0..(N - 1), 1 + k < N PROVE d[k] = c[1 + k]
      <3>1. 1 + k \in 0..(N - 1) /\ 0 \in 0..(N - 1) /\ 1 + k # 0
        BY <1>1, <2>5
      <3>2. Slot(begin + (1 + k)) # Slot(begin) /\ Slot(begin + (1 + k)) \in 0..(N - 1)
        BY <2>4, <3>1, SlotsApart
      <3>3. items'[Slot(begin + (1 + k))] = items[Slot(begin + (1 + k))]
        BY <2>1, <3>2 DEF TypeOK
      <3>4. c[1 + k] = items[Slot(begin + (1 + k))]
        BY <3>1, ContentsType
      <3> QED
        BY <2>3, <2>5, <3>3, <3>4
    <2>6. /\ n' <= N' /\ Total' <= N' /\ Total' = n' + b'
      BY <1>1, <1>3, <2>1, <2>2 DEF Total
    <2>7. mainstage' = Stage(d, 0, n - 1) /\ backstage' = Stage(d, n - 1, b)
      BY <1>3, <2>1, <2>6, StagesFitNext
    <2> HIDE DEF c, d
    <2>8. Agree(d, 0, c, 1, n - 1)
      BY <1>1, <2>5 DEF Agree
    <2>9. Agree(d, n - 1, c, n, b)
      <3> SUFFICES ASSUME NEW k \in 0..(b - 1) PROVE d[(n - 1) + k] = c[n + k]
        BY DEF Agree
      <3>1. (n - 1) + k \in 0..(N - 1) /\ 1 + ((n - 1) + k) < N /\ 1 + ((n - 1) + k) = n + k
        BY <1>1, <1>4
      <3> QED
        BY <2>5, <3>1
    <2>10. Stage(d, 0, n - 1) = Stage(c, 1, n - 1) /\ Stage(d, n - 1, b) = Stage(c, n, b)
      <3>1. n - 1 \in Int /\ b \in Int
        BY <1>1
      <3> QED
        BY <2>8, <2>9, <3>1, StageSame
    <2>11. /\ mainstage # <<>> /\ Head(mainstage) = c[0]
           /\ Tail(mainstage) = Stage(c, 0 + 1, n - 1)
      BY <1>1, <1>2, <1>4, StageHeadTail
    <2>12. c[0] = items[Slot(begin)]
      BY <1>1, <2>4, ContentsType DEF c
    <2> QED
      BY <1>2, <1>3, <2>1, <2>7, <2>10, <2>11, <2>12
  <1>5. CASE n = 0
    <2>1. result' = Null /\ begin' = Slot(begin) /\ items' = items /\ n' = n
      BY <1>5 DEF Pop
    <2>2. begin' = begin
      BY <2>1, Positions
    <2>3. mainstage = <<>>
      BY <1>2, <1>5, StageEmpty
    <2>4. mainstage' = mainstage /\ backstage' = backstage
      BY <1>3, <2>1, <2>2 DEF mainstage, backstage, peek, peek_backstage, Slot, NumSlots
    <2> QED
      BY <1>3, <2>1, <2>3, <2>4
  <1> QED
    BY <1>1, <1>4, <1>5

LEMMA PopAllRefines ==
    ASSUME TypeOK, TypeOK', num_mainstage <= capacity, PopAll
    PROVE  /\ mainstage' = <<>>
           /\ UNCHANGED <<capacity, overflow_behavior, backstage, result>>
  <1> DEFINE n == num_mainstage
             b == num_backstage
             N == NumSlots
             c == Contents
             d == Contents'
  <1>1. /\ N \in Nat \ {0} /\ N = 2 * capacity /\ capacity \in Nat \ {0}
        /\ n \in Nat /\ b \in 0..capacity /\ n <= capacity
    BY ContentsType
  <1>2. backstage = Stage(c, n, b)
    BY StagesFit
  <1>3. /\ UNCHANGED <<capacity, overflow_behavior, result>> /\ b' = b /\ n' = 0
        /\ items' = Cleared(begin, n) /\ begin' = Slot(begin + n)
    BY DEF PopAll
  <1>4. n \in 0..N /\ N' = N
    BY <1>1, <1>3 DEF NumSlots
  <1>5. \A k \in 0..(N - 1) : n + k < N => d[k] = items'[Slot(begin + (n + k))]
    BY <1>3, <1>4, ContentsMoved, Zenon
  <1>6. ASSUME NEW k \in 0..(b - 1) PROVE d[k] = c[n + k]
    <2>1. k \in 0..(N - 1) /\ n + k < N /\ n + k \in 0..(N - 1)
      BY <1>1
    <2>2. \A i \in 0..(n - 1) : Slot(begin + i) # Slot(begin + (n + k))
      <3>1. \A i \in 0..(n - 1) : i \in 0..(N - 1) /\ i # n + k
        BY <1>1
      <3> QED
        BY <2>1, <3>1, SlotsApart
    <2>3. Slot(begin + (n + k)) \in 0..(NumSlots - 1)
      <3>1. \A i \in Int : Slot(i) \in 0..(NumSlots - 1)
        BY Positions
      <3>2. begin + (n + k) \in Int
        BY <1>1, <2>1 DEF TypeOK
      <3> QED
        BY <3>1, <3>2
    <2>4. begin \in Int /\ n \in Int
      BY <1>1 DEF TypeOK
    <2>5. Cleared(begin, n)[Slot(begin + (n + k))] = items[Slot(begin + (n + k))]
      BY <2>2, <2>3, <2>4, ClearedSlots
    <2>6. c[n + k] = items[Slot(begin + (n + k))]
      BY <2>1, ContentsType
    <2> QED
      BY <1>3, <1>5, <2>1, <2>5, <2>6
  <1>7. n' <= N' /\ Total' <= N'
    BY <1>1, <1>3, <1>4 DEF Total
  <1>8. mainstage' = Stage(d, 0, 0) /\ backstage' = Stage(d, 0, b)
    BY <1>3, <1>7, StagesFitNext
  <1> HIDE DEF c, d
  <1>9. Agree(d, 0, c, n, b)
    BY <1>1, <1>6 DEF Agree
  <1>10. Stage(d, 0, b) = Stage(c, n, b)
    <2>1. b \in Int
      BY <1>1
    <2> QED
      BY <1>9, <2>1, StageSame
  <1>11. mainstage' = <<>>
    BY <1>8, StageEmpty
  <1> QED
    BY <1>2, <1>3, <1>8, <1>10, <1>11

\* A push changes slots of the back stage only.
LEMMA PushRefines ==
    ASSUME TypeOK, TypeOK', num_mainstage <= capacity, NEW x \in Items, Push(x)
    PROVE  /\ backstage' = IF num_backstage < capacity THEN Append(backstage, x)
                           ELSE IF overflow_behavior = "kPop" THEN Append(Tail(backstage), x)
                           ELSE backstage
           /\ result' = (num_backstage < capacity \/ overflow_behavior # "kFault")
           /\ UNCHANGED <<capacity, overflow_behavior, mainstage>>
  <1> DEFINE n == num_mainstage
             b == num_backstage
             N == NumSlots
             c == Contents
             d == Contents'
             S == Items \cup {Null}
  <1>1. /\ N \in Nat \ {0} /\ N = 2 * capacity /\ capacity \in Nat \ {0}
        /\ n \in Nat /\ b \in 0..capacity /\ n <= capacity
    BY ContentsType
  <1>2. /\ mainstage = Stage(c, 0, n) /\ backstage = Stage(c, n, b)
        /\ Stored(c, n, b, S)
    BY StagesFit
  <1>3. UNCHANGED <<capacity, overflow_behavior, begin>> /\ n' = n
    BY DEF Push
  <1>4. 0 \in 0..N /\ N' = N /\ begin' = Slot(begin + 0) /\ begin \in Int
    BY <1>1, <1>3, Positions DEF NumSlots, TypeOK
  <1>5. \A k \in 0..(N - 1) : d[k] = items'[Slot(begin + k)]
    <2>1. \A k \in 0..(N - 1) : 0 + k < N => d[k] = items'[Slot(begin + (0 + k))]
      BY <1>3, <1>4, ContentsMoved, Zenon
    <2> QED
      BY <1>1, <2>1
  <1>6. \A k \in 0..(N - 1) : c[k] = items[Slot(begin + k)]
    BY ContentsType
  <1>7. \A k \in 0..(N - 1) : Slot(begin + k) \in DOMAIN items
    <2>1. \A i \in Int : Slot(i) \in 0..(NumSlots - 1)
      BY Positions
    <2>2. DOMAIN items = 0..(NumSlots - 1)
      BY DEF TypeOK
    <2>3. \A k \in 0..(N - 1) : begin + k \in Int
      BY <1>1, <1>4
    <2> QED
      BY <2>1, <2>2, <2>3
  <1>8. \A j, k \in 0..(N - 1) : Slot(begin + j) = Slot(begin + k) => j = k
    BY Positions
  <1>9. CASE PushToFreeSlot(x)
    <2>1. b < capacity /\ b' = b + 1 /\ result' = TRUE
      BY <1>1, <1>9 DEF PushToFreeSlot
    <2>2. n + b \in 0..(N - 1) /\ BeginBackstage + b = begin + (n + b)
      BY <1>1, <1>4, <2>1 DEF BeginBackstage
    <2>3. items' = [items EXCEPT ![Slot(begin + (n + b))] = x]
      BY <1>9, <2>2 DEF PushToFreeSlot
    <2>4. \A k \in 0..(N - 1) : d[k] = IF k = n + b THEN x ELSE c[k]
      BY <1>5, <1>6, <1>7, <1>8, <2>2, <2>3
    <2>5. n' <= N' /\ Total' <= N'
      BY <1>1, <1>3, <1>4, <2>1 DEF Total
    <2>6. mainstage' = Stage(d, 0, n) /\ backstage' = Stage(d, n, b + 1)
      BY <1>3, <2>1, <2>5, StagesFitNext
    <2> HIDE DEF c, d
    <2>7. Agree(d, 0, c, 0, n) /\ Agree(d, n, c, n, b)
      BY <1>1, <2>1, <2>4 DEF Agree
    <2>8. n \in Int /\ b \in Int /\ n \in Nat /\ b \in Nat
      BY <1>1
    <2>9. Stage(d, 0, n) = Stage(c, 0, n) /\ Stage(d, n, b) = Stage(c, n, b)
      BY <2>7, <2>8, StageSame
    <2>10. Stored(d, n, b + 1, S)
      BY <1>1, <1>2, <2>1, <2>2, <2>4 DEF Stored
    <2>11. Append(Stage(d, n, b), d[n + b]) = Stage(d, n, b + 1)
      BY <2>8, <2>10, StageAppend
    <2>12. d[n + b] = x
      BY <2>2, <2>4
    <2> QED
      BY <1>2, <1>3, <2>1, <2>6, <2>9, <2>11, <2>12
  <1>10. CASE PushToFullBackstage(x)
    <2>1. b = capacity /\ b' = b
      BY <1>10 DEF PushToFullBackstage
    <2>2. n' <= N' /\ Total' <= N'
      BY <1>1, <1>3, <1>4, <2>1 DEF Total
    <2>3. mainstage' = Stage(d, 0, n) /\ backstage' = Stage(d, n, b)
      BY <1>3, <2>1, <2>2, StagesFitNext
    <2>4. CASE items' = items /\ result' = (overflow_behavior # "kFault")
                /\ overflow_behavior # "kPop"
      <3> HIDE DEF c, d
      <3>0. \A k \in 0..(N - 1) : d[k] = c[k]
        BY <1>5, <1>6, <2>4
      <3>1. Agree(d, 0, c, 0, n) /\ Agree(d, n, c, n, b)
        <4>1. /\ \A k \in 0..(n - 1) : 0 + k \in 0..(N - 1)
              /\ \A k \in 0..(b - 1) : n + k \in 0..(N - 1)
          BY <1>1
        <4> QED
          BY <3>0, <4>1 DEF Agree
      <3>2. n \in Int /\ b \in Int
        BY <1>1
      <3>3. Stage(d, 0, n) = Stage(c, 0, n) /\ Stage(d, n, b) = Stage(c, n, b)
        BY <3>1, <3>2, StageSame
      <3> QED
        BY <1>1, <1>2, <1>3, <2>1, <2>3, <2>4, <3>3
    <2>5. CASE items' = Shifted(x) /\ result' = TRUE /\ overflow_behavior = "kPop"
      <3>1. /\ \A k \in 0..(n - 1) : d[k] = c[k]
            /\ \A k \in 0..(b - 2) : d[n + k] = c[n + (k + 1)]
            /\ d[n + (b - 1)] = x
        <4>1. /\ BeginBackstage + b - 1 = begin + (n + (b - 1))
              /\ \A k \in 0..(b - 2) : BeginBackstage + k = begin + (n + k)
          BY <1>1, <1>4 DEF BeginBackstage
        <4>2. \A k \in 0..(N - 1) :
                d[k] = IF Slot(begin + k) = Slot(begin + (n + (b - 1))) THEN x
                       ELSE IF \E i \in 0..(b - 2) : Slot(begin + k) = Slot(begin + (n + i))
                       THEN items[Slot(Slot(begin + k) + 1)]
                       ELSE items[Slot(begin + k)]
          BY <1>5, <1>7, <2>5, <4>1 DEF Shifted
        <4>3. n + (b - 1) \in 0..(N - 1) /\ \A i \in 0..(b - 2) : n + i \in 0..(N - 1)
          BY <1>1, <2>1
        <4> HIDE DEF c, d
        <4>4. ASSUME NEW k \in 0..(n - 1) PROVE d[k] = c[k]
          <5>1. /\ k \in 0..(N - 1) /\ k # n + (b - 1)
                /\ \A i \in 0..(b - 2) : k # n + i
            BY <1>1, <2>1
          <5>2. /\ Slot(begin + k) # Slot(begin + (n + (b - 1)))
                /\ \A i \in 0..(b - 2) : Slot(begin + k) # Slot(begin + (n + i))
            BY <1>8, <4>3, <5>1, Zenon
          <5> QED
            BY <1>6, <4>2, <5>1, <5>2
        <4>5. ASSUME NEW k \in 0..(b - 2) PROVE d[n + k] = c[n + (k + 1)]
          <5>1. /\ n + k \in 0..(N - 1) /\ n + (k + 1) \in 0..(N - 1) /\ n + k # n + (b - 1)
                /\ n + k \in 0..N /\ 1 \in 0..(N - 1) /\ (n + k) + 1 < N
                /\ (n + k) + 1 = n + (k + 1)
            BY <1>1, <2>1
          <5>2. Slot(begin + (n + k)) # Slot(begin + (n + (b - 1)))
            BY <1>8, <4>3, <5>1, Zenon
          <5>3. d[n + k] = items[Slot(Slot(begin + (n + k)) + 1)]
            BY <4>2, <5>1, <5>2
          <5>4. Slot(Slot(begin + (n + k)) + 1) = Slot(begin + ((n + k) + 1))
            <6>1. \A j \in 0..NumSlots : \A i \in 0..(NumSlots - 1) :
                      j + i < NumSlots => Slot(Slot(begin + j) + i) = Slot(begin + (j + i))
              BY Positions
            <6> QED
              BY <5>1, <6>1
          <5> QED
            BY <1>6, <5>1, <5>3, <5>4
        <4>6. d[n + (b - 1)] = x
          BY <4>2, <4>3
        <4> QED
          BY <4>4, <4>5, <4>6
      <3> HIDE DEF c, d
      <3>2. b # 0 /\ n \in Int /\ b - 1 \in Nat /\ b - 1 \in Int /\ n + 1 \in Nat
        BY <1>1, <2>1
      <3>3. Agree(d, 0, c, 0, n) /\ Agree(d, n, c, n + 1, b - 1)
        BY <1>1, <3>1 DEF Agree
      <3>4. Stage(d, 0, n) = Stage(c, 0, n) /\ Stage(d, n, b - 1) = Stage(c, n + 1, b - 1)
        BY <3>2, <3>3, StageSame
      <3>5. Tail(backstage) = Stage(c, n + 1, b - 1)
        BY <1>2, <3>2, StageHeadTail
      <3>6. Stored(d, n, (b - 1) + 1, S)
        <4> SUFFICES ASSUME NEW i \in n..(n + b - 1) PROVE d[i] \in S
          BY <1>1, <3>2 DEF Stored
        <4>1. CASE i = n + (b - 1)
          BY <3>1, <4>1
        <4>2. CASE i # n + (b - 1)
          <5>1. i - n \in 0..(b - 2) /\ i = n + (i - n) /\ n + ((i - n) + 1) \in n..(n + b - 1)
            BY <1>1, <4>2
          <5>2. d[i] = c[n + ((i - n) + 1)]
            BY <3>1, <5>1
          <5> QED
            BY <1>2, <5>1, <5>2 DEF Stored
        <4> QED
          BY <4>1, <4>2
      <3>7. Append(Stage(d, n, b - 1), d[n + (b - 1)]) = Stage(d, n, (b - 1) + 1)
        BY <3>2, <3>6, StageAppend
      <3>8. (b - 1) + 1 = b
        BY <1>1
      <3>9. mainstage' = mainstage
        BY <1>2, <2>3, <3>4
      <3>10. backstage' = Append(Tail(backstage), x)
        BY <2>3, <3>1, <3>4, <3>5, <3>7, <3>8
      <3>11. ~(num_backstage < capacity)
        BY <1>1, <2>1
      <3> QED
        BY <1>3, <2>5, <3>9, <3>10, <3>11, Zenon
    <2> QED
      BY <1>10, <2>4, <2>5 DEF PushToFullBackstage, TypeOK
  <1> QED
    BY <1>9, <1>10 DEF Push

\* The two stages become one, less what is dropped at either end.
LEMMA SyncRefines ==
    ASSUME TypeOK, TypeOK', num_mainstage <= capacity, Sync
    PROVE  LET both == mainstage \o backstage
               room == num_mainstage + num_backstage <= capacity
           IN  /\ Len(both) = num_mainstage + num_backstage
               /\ mainstage' =
                      IF room \/ overflow_behavior = "kFault" THEN both
                      ELSE IF overflow_behavior = "kPop"
                           THEN SubSeq(both, Len(both) - capacity + 1, Len(both))
                           ELSE SubSeq(both, 1, capacity)
               /\ backstage' = <<>>
               /\ result' = (room \/ overflow_behavior # "kFault")
               /\ UNCHANGED <<capacity, overflow_behavior>>
  <1> DEFINE n == num_mainstage
             b == num_backstage
             N == NumSlots
             c == Contents
             d == Contents'
             S == Items \cup {Null}
             both == mainstage \o backstage
  <1>1. /\ N \in Nat \ {0} /\ N = 2 * capacity /\ capacity \in Nat \ {0}
        /\ n \in Nat /\ b \in 0..capacity /\ n <= capacity /\ Total = n + b /\ Total \in Nat
    BY ContentsType DEF Total
  <1>2. /\ mainstage = Stage(c, 0, n) /\ backstage = Stage(c, n, b)
        /\ Stored(c, 0, n, S) /\ Stored(c, n, b, S) /\ Stored(c, 0, Total, S)
    BY StagesFit
  <1>3. UNCHANGED <<capacity, overflow_behavior>> /\ b' = 0 /\ N' = N
    BY DEF Sync, NumSlots
  <1>4. both = Stage(c, 0, Total) /\ Len(both) = n + b
    <2> HIDE DEF c, S
    <2>1. Lists(mainstage, c, 0, n, S) /\ Lists(backstage, c, n, b, S)
      BY <1>2, StageIsSequence
    <2>2. n \in Nat /\ b \in Nat /\ 0 + n = n /\ 0 \in Nat /\ Total = n + b
      BY <1>1
    <2>3. Lists(both, c, 0, Total, S)
      BY <2>1, <2>2, ListsConcat
    <2>4. both = Stage(c, 0, Total)
      BY <1>2, <2>3, StageEqual
    <2> QED
      BY <2>2, <2>3, <2>4 DEF Lists
  <1>6. begin \in 0..(N - 1) /\ begin \in Int /\ Slot(begin + 0) = begin /\ Slot(begin) = begin
    <2>1. begin \in 0..(N - 1) /\ begin \in Int /\ begin + 0 = begin
      BY <1>1 DEF TypeOK
    <2> QED
      BY <2>1, Positions
  <1>7. \A k \in 0..(N - 1) : c[k] = items[Slot(begin + k)]
    BY ContentsType
  <1>8. \A k \in 0..(N - 1) : Slot(begin + k) \in 0..(N - 1)
    <2>1. \A i \in Int : Slot(i) \in 0..(NumSlots - 1)
      BY Positions
    <2>2. \A k \in 0..(N - 1) : begin + k \in Int
      BY <1>1, <1>6
    <2> QED
      BY <2>1, <2>2
  <1>9. \A j, k \in 0..(N - 1) : Slot(begin + j) = Slot(begin + k) => j = k
    BY Positions
  <1>10. \A m \in 0..N : n' = m => mainstage' = Stage(d, 0, m) /\ backstage' = <<>>
    <2> SUFFICES ASSUME NEW m \in 0..N, n' = m
                 PROVE  mainstage' = Stage(d, 0, m) /\ backstage' = <<>>
      OBVIOUS
    <2>1. n' <= N' /\ Total' <= N'
      <3>1. m <= N /\ m + 0 = m
        BY <1>1
      <3>2. Total' = m + 0
        BY <1>3 DEF Total
      <3> QED
        BY <1>3, <3>1, <3>2
    <2>2. mainstage' = Stage(d, 0, m) /\ backstage' = Stage(d, m, 0)
      BY <1>3, <2>1, StagesFitNext
    <2> QED
      BY <2>2, StageEmpty
  <1>11. ASSUME begin' = begin
         PROVE  \A k \in 0..(N - 1) : d[k] = items'[Slot(begin + k)]
    <2>1. 0 \in 0..N /\ begin' = Slot(begin + 0)
      BY <1>1, <1>6, <1>11
    <2>2. \A k \in 0..(N - 1) : 0 + k < N => d[k] = items'[Slot(begin + (0 + k))]
      BY <1>3, <2>1, ContentsMoved, Zenon
    <2> QED
      BY <1>1, <2>2
  <1>12. ASSUME items' = items, begin' = begin, n' = Total, Total <= N
         PROVE  mainstage' = both /\ backstage' = <<>>
    <2>1. Total \in 0..N
      BY <1>1, <1>12
    <2>2. mainstage' = Stage(d, 0, Total) /\ backstage' = <<>>
      BY <1>10, <1>12, <2>1
    <2>3. \A k \in 0..(N - 1) : d[k] = c[k]
      BY <1>7, <1>11, <1>12
    <2> HIDE DEF c, d
    <2>4. Agree(d, 0, c, 0, Total) /\ Total \in Int
      BY <1>1, <1>12, <2>3 DEF Agree
    <2>5. Stage(d, 0, Total) = Stage(c, 0, Total)
      BY <2>4, StageSame
    <2> QED
      BY <1>4, <2>2, <2>5
  <1>13. CASE SyncWithRoom
    <2>1. /\ items' = items /\ begin' = begin /\ n' = Total /\ Total <= N
          /\ n + b <= capacity /\ result' = TRUE
      BY <1>1, <1>6, <1>13 DEF SyncWithRoom
    <2> QED
      BY <1>3, <1>4, <1>12, <2>1
  <1>14. CASE SyncFault
    <2>1. /\ items' = items /\ begin' = begin /\ n' = Total /\ Total <= N
          /\ ~(n + b <= capacity) /\ overflow_behavior = "kFault" /\ result' = FALSE
      BY <1>1, <1>14 DEF SyncFault
    <2> QED
      BY <1>3, <1>4, <1>12, <2>1
  <1>15. CASE SyncPop
    <2> DEFINE e == Total - capacity
    <2>1. /\ e \in 1..capacity /\ e \in 0..N /\ e + capacity = Total
          /\ begin + Total - capacity = begin + e
      BY <1>1, <1>6, <1>15 DEF SyncPop
    <2>2. /\ items' = Cleared(begin, e) /\ begin' = Slot(begin + e) /\ n' = capacity
          /\ ~(n + b <= capacity) /\ overflow_behavior = "kPop" /\ result' = TRUE
      BY <1>1, <1>15, <2>1 DEF SyncPop
    <2> HIDE DEF e
    <2>3. \A k \in 0..(N - 1) : e + k < N => d[k] = items'[Slot(begin + (e + k))]
      BY <1>3, <2>1, <2>2, ContentsMoved, Zenon
    <2>4. ASSUME NEW k \in 0..(capacity - 1) PROVE d[k] = c[e + k]
      <3>1. k \in 0..(N - 1) /\ e + k < N /\ e + k \in 0..(N - 1)
        BY <1>1, <2>1
      <3>2. \A i \in 0..(e - 1) : Slot(begin + i) # Slot(begin + (e + k))
        <4>1. \A i \in 0..(e - 1) : i \in 0..(N - 1) /\ i # e + k
          BY <1>1, <2>1
        <4> QED
          BY <1>9, <3>1, <4>1, Zenon
      <3>3. begin \in Int /\ e \in Int /\ Slot(begin + (e + k)) \in 0..(NumSlots - 1)
        BY <1>6, <1>8, <2>1, <3>1
      <3>4. Cleared(begin, e)[Slot(begin + (e + k))] = items[Slot(begin + (e + k))]
        BY <3>2, <3>3, ClearedSlots
      <3> QED
        BY <1>7, <2>2, <2>3, <3>1, <3>4
    <2>5. mainstage' = Stage(d, 0, capacity) /\ backstage' = <<>>
      BY <1>1, <1>10, <2>2
    <2> HIDE DEF c, d
    <2>6. Agree(d, 0, c, e, capacity) /\ capacity \in Int
      BY <1>1, <2>1, <2>4 DEF Agree
    <2>7. Stage(d, 0, capacity) = Stage(c, e, capacity)
      BY <2>6, StageSame
    <2>8. /\ e + 1 \in 1..(Total + 1) /\ Total \in ((e + 1) - 1)..Total
          /\ 0 + ((e + 1) - 1) = e /\ Total - ((e + 1) - 1) = capacity
          /\ Total - capacity + 1 = e + 1
      BY <1>1, <2>1
    <2>9. SubSeq(both, e + 1, Total) = Stage(c, e, capacity)
      <3>1. SubSeq(Stage(c, 0, Total), e + 1, Total)
                = Stage(c, 0 + ((e + 1) - 1), Total - ((e + 1) - 1))
        BY <1>2, <2>8, StagePart
      <3> QED
        BY <1>4, <2>8, <3>1
    <2> HIDE DEF both
    <2>10. Len(both) = Total /\ SubSeq(both, Len(both) - capacity + 1, Len(both)) = mainstage'
      BY <1>1, <1>4, <2>5, <2>7, <2>8, <2>9
    <2> QED
      BY <1>1, <1>3, <2>2, <2>5, <2>10 DEF both
  <1>16. CASE SyncReject
    <2> DEFINE e == Total - capacity
    <2>1. e \in 1..capacity /\ capacity + e = Total /\ begin + capacity \in Int
      BY <1>1, <1>6, <1>16 DEF SyncReject
    <2>2. /\ items' = Cleared(begin + capacity, e) /\ begin' = begin /\ n' = capacity
          /\ ~(n + b <= capacity) /\ overflow_behavior = "kReject" /\ result' = TRUE
      BY <1>1, <1>6, <1>16 DEF SyncReject
    <2> HIDE DEF e
    <2>3. ASSUME NEW k \in 0..(capacity - 1) PROVE d[k] = c[k]
      <3>1. k \in 0..(N - 1)
        BY <1>1
      <3>2. \A i \in 0..(e - 1) : Slot(begin + capacity + i) # Slot(begin + k)
        <4>1. \A i \in 0..(e - 1) : /\ capacity + i \in 0..(N - 1) /\ capacity + i # k
                                    /\ begin + capacity + i = begin + (capacity + i)
          BY <1>1, <1>6, <2>1
        <4> QED
          BY <1>9, <3>1, <4>1
      <3>3. e \in Int /\ Slot(begin + k) \in 0..(NumSlots - 1)
        BY <1>8, <2>1, <3>1
      <3>4. Cleared(begin + capacity, e)[Slot(begin + k)] = items[Slot(begin + k)]
        BY <2>1, <3>2, <3>3, ClearedSlots
      <3> QED
        BY <1>7, <1>11, <2>2, <3>1, <3>4
    <2>4. mainstage' = Stage(d, 0, capacity) /\ backstage' = <<>>
      BY <1>1, <1>10, <2>2
    <2> HIDE DEF c, d
    <2>5. Agree(d, 0, c, 0, capacity) /\ capacity \in Int
      BY <1>1, <2>3 DEF Agree
    <2>6. Stage(d, 0, capacity) = Stage(c, 0, capacity)
      BY <2>5, StageSame
    <2>7. /\ 1 \in 1..(Total + 1) /\ capacity \in (1 - 1)..Total
          /\ 0 + (1 - 1) = 0 /\ capacity - (1 - 1) = capacity
      BY <1>1, <2>1
    <2>8. SubSeq(both, 1, capacity) = Stage(c, 0, capacity)
      <3>1. SubSeq(Stage(c, 0, Total), 1, capacity)
                = Stage(c, 0 + (1 - 1), capacity - (1 - 1))
        BY <1>2, <2>7, StagePart
      <3> QED
        BY <1>4, <2>7, <3>1
    <2> HIDE DEF both
    <2> QED
      BY <1>1, <1>3, <1>4, <2>2, <2>4, <2>6, <2>8 DEF both
  <1> QED
    BY <1>13, <1>14, <1>15, <1>16 DEF Sync

\* Every call on the ring buffer does what the comments promise of the two stages, in any
\* order of calls; the exception is a kFault queue after it has reported an overflow.
THEOREM RefinesFifo == Spec => ImplementsFifo
  <1>1. Init => Fifo!Init
    <2> SUFFICES ASSUME Init PROVE Fifo!Init
      OBVIOUS
    <2>1. num_mainstage = 0 /\ num_backstage = 0
      BY DEF Init
    <2>2. mainstage = <<>> /\ backstage = <<>>
      <3>1. mainstage = Stage(Contents, 0, 0) /\ backstage = Stage(Contents, 0, 0)
        BY <2>1 DEF mainstage, backstage, Stage
      <3> QED
        BY <3>1, StageEmpty
    <2> QED
      BY <2>2 DEF Init, Fifo!Init, mainstage, backstage
  <1>2. TypeOK /\ TypeOK' /\ [Next]_vars => [Fifo!Next]_(Fifo!vars)
    <2> SUFFICES ASSUME TypeOK, TypeOK', [Next]_vars PROVE [Fifo!Next]_(Fifo!vars)
      OBVIOUS
    <2>1. CASE num_mainstage > capacity
      <3>1. Fifo!Faulted
        BY <2>1, MainLength DEF Fifo!Faulted, mainstage
      <3>2. UNCHANGED <<capacity, overflow_behavior>>
        BY DEF Next, vars, Pop, PopAll, Push, Sync
      <3> QED
        BY <3>1, <3>2 DEF Fifo!Next, Fifo!Undefined
    <2>2. CASE num_mainstage <= capacity
      <3>1. Len(mainstage) = num_mainstage /\ Len(backstage) = num_backstage
        BY <2>2, StagesFit
      <3>2. CASE Pop
        BY <2>2, <3>2, PopRefines DEF Fifo!Next, Fifo!Pop, mainstage, backstage
      <3>3. CASE PopAll
        BY <2>2, <3>3, PopAllRefines DEF Fifo!Next, Fifo!PopAll, mainstage, backstage
      <3>4. ASSUME NEW x \in Items, Push(x) PROVE Fifo!Next
        BY <2>2, <3>1, <3>4, PushRefines
           DEF Fifo!Next, Fifo!Push, Fifo!Pushed, mainstage, backstage
      <3>5. CASE Sync
        BY <2>2, <3>1, <3>5, SyncRefines
           DEF Fifo!Next, Fifo!Sync, Fifo!Synced, Fifo!Last, Fifo!First, mainstage, backstage
      <3>6. CASE UNCHANGED vars
        BY <3>6 DEF vars, Fifo!vars, peek, peek_backstage, Slot, NumSlots
      <3> QED
        BY <3>2, <3>3, <3>4, <3>5, <3>6 DEF Next
    <2> QED
      BY <2>1, <2>2, ContentsType
  <1> QED
    BY <1>1, <1>2, TypeCorrect, PTL DEF Spec, ImplementsFifo, Fifo!Spec
===============================================================================
