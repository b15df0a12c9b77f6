--------------------------- MODULE AsyncBufferProofs ---------------------------
(***************************************************************************)
(* What the four-slot buffer guarantees for every number of pushes on a    *)
(* memory that delays the store to reading_.                               *)
(***************************************************************************)
EXTENDS AsyncBuffer, TLAPS

(***************************************************************************)
(* Every variable keeps its type: the pairs and slots computed by 1 - x    *)
(* stay in 0..1, and a slot holds the null entity, a torn one or a message *)
(* that was pushed.                                                        *)
(***************************************************************************)
THEOREM TypeCorrect == Spec => []TypeOK
<1> USE PushesAssumption DEF None, seen
<1>0. 0 \in Pairs /\ \A i \in Pairs : 1 - i \in Pairs
  BY DEF Pairs
<1>1. Init => TypeOK
  <2> SUFFICES ASSUME Init PROVE TypeOK
    OBVIOUS
  <2>1. entity_data \in [Pairs -> [Pairs -> -1..MaxPushes]] /\ slots \in [Pairs -> Pairs]
    BY <1>0 DEF Init
  <2>2. 0 \in 0..MaxPushes /\ 0 \in -1..MaxPushes
    OBVIOUS
  <2>. QED
    BY <1>0, <2>1, <2>2, Zenon DEF Init, TypeOK
<1>2. TypeOK /\ [Next]_vars => TypeOK'
  <2> SUFFICES ASSUME TypeOK, [Next]_vars PROVE TypeOK'
    OBVIOUS
  <2> USE <1>0 DEF TypeOK, Torn, memory, reader, writer
  <2>1. CASE Push
    <3>1. CASE ChoosePair
      BY <3>1 DEF ChoosePair
    <3>2. CASE ChooseSlot
      BY <3>2 DEF ChooseSlot
    <3>3. CASE Assign
      BY <3>3 DEF Assign
    <3>4. CASE Assigned
      BY <3>4 DEF Assigned
    <3>5. CASE SetSlot
      BY <3>5 DEF SetSlot
    <3>6. CASE SetFreshest \/ SetFilled
      BY <3>6 DEF SetFreshest, SetFilled
    <3>. QED
      BY <2>1, <3>1, <3>2, <3>3, <3>4, <3>5, <3>6 DEF Push
  <2>2. CASE Pop
    <3>1. CASE PopNull \/ PopBegins \/ ReadFreshest \/ Announce \/ Count
      BY <2>2, <3>1 DEF PopNull, PopBegins, ReadFreshest, Announce, Count, vars
    <3>2. CASE Drain
      BY <3>2 DEF Drain
    <3>3. CASE ReadSlot
      BY <3>3 DEF ReadSlot
    <3>4. CASE Copy
      BY <3>4 DEF Copy
    <3>. QED
      BY <2>2, <3>1, <3>2, <3>3, <3>4 DEF Pop
  <2>3. CASE Reinitialize
    <3>1. slots' \in [Pairs -> Pairs]
      BY <2>3 DEF Reinitialize
    <3>2. freshest' = 0 /\ reading' = 0 /\ filled' = FALSE /\ complete' = 0
          /\ UNCHANGED <<entity_data, wpc, writing_pair, writing_slot, pushed,
                         reader>>
      BY <2>3, Zenon DEF Reinitialize
    <3>3. freshest' \in Pairs /\ reading' \in Pairs /\ complete' \in 0..MaxPushes
      BY <1>0, <3>2
    <3>4. filled' \in BOOLEAN
      BY <3>2
    <3>. QED
      BY <3>1, <3>2, <3>3, <3>4, Zenon
  <2>4. CASE UNCHANGED vars
    BY <2>4 DEF vars
  <2>. QED
    BY <2>1, <2>2, <2>3, <2>4 DEF Next
<1>. QED
  BY <1>1, <1>2, PTL DEF Spec

-------------------------------------------------------------------------------
(* The two threads meet in a slot only in a pop that has been overtaken.   *)

\* What the reader announced is what the writer sees, or will see.
Announced ==
    /\ rpc \in {"slot", "copy", "count"} =>
          reading_pair = IF delayed = None THEN reading ELSE delayed
    /\ rpc \notin {"slot", "copy", "count"} => delayed = None
    /\ rpc \in {"copy", "count"} /\ delayed # None => overtaken

\* The writer is about to fill the slot that its pair does not offer.
WriterOffSlot ==
    wpc \in {"assign", "assigning", "setSlot"} => writing_slot = 1 - slots[writing_pair]

\* A reader in the writer's pair has taken the slot that the pair offers, which the
\* writer leaves as it is until it is done, or it has been overtaken.
ReaderOnSlot ==
    wpc \in {"slot", "assign", "assigning"} /\ rpc \in {"copy", "count"}
        /\ writing_pair = reading_pair
    => overtaken \/ reading_slot = slots[reading_pair]

DisjointInv == TypeOK /\ Announced /\ WriterOffSlot /\ ReaderOnSlot

LEMMA DisjointStep == DisjointInv /\ TypeOK' /\ [Next]_vars => DisjointInv'
<1> SUFFICES ASSUME DisjointInv, TypeOK', [Next]_vars
             PROVE  (Announced /\ WriterOffSlot /\ ReaderOnSlot)'
  BY DEF DisjointInv
<1> USE DEF DisjointInv, Announced, WriterOffSlot, ReaderOnSlot, memory, reader, writer, seen,
            None
<1>1. CASE ChoosePair
  \* The writer takes the pair that was not announced: no reader is in it.
  BY <1>1 DEF ChoosePair, TypeOK, Pairs
<1>2. CASE ChooseSlot
  BY <1>2 DEF ChooseSlot
<1>3. CASE Assign \/ Assigned
  BY <1>3 DEF Assign, Assigned
<1>4. CASE SetSlot
  BY <1>4 DEF SetSlot, TypeOK, Pairs
<1>5. CASE SetFreshest \/ SetFilled
  BY <1>5 DEF SetFreshest, SetFilled
<1>6. CASE PopNull \/ PopBegins \/ ReadFreshest
  BY <1>6 DEF PopNull, PopBegins, ReadFreshest, vars
<1>7. CASE Announce
  BY <1>7 DEF Announce, TypeOK, Pairs
<1>12. CASE Drain
  BY <1>12 DEF Drain, TypeOK, Pairs
<1>8. CASE ReadSlot
  BY <1>8 DEF ReadSlot
<1>9. CASE Copy \/ Count
  BY <1>9 DEF Copy, Count
<1>10. CASE Reinitialize
  BY <1>10 DEF Reinitialize
<1>11. CASE UNCHANGED vars
  BY <1>11 DEF vars
<1>. QED
  BY <1>1, <1>2, <1>3, <1>4, <1>5, <1>6, <1>7, <1>8, <1>9, <1>10, <1>11, <1>12
  DEF Next, Push, Pop

LEMMA DisjointAlways == Spec => []DisjointInv
<1>1. Init /\ TypeOK => DisjointInv
  BY DEF Init, DisjointInv, Announced, WriterOffSlot, ReaderOnSlot, None
<1>. QED
  BY <1>1, DisjointStep, TypeCorrect, PTL DEF Spec

LEMMA DisjointImplies == DisjointInv => SlotsDisjoint
BY DEF DisjointInv, TypeOK, WriterOffSlot, ReaderOnSlot, SlotsDisjoint, Meeting, Pairs

(***************************************************************************)
(* push_abi and pop_abi use the same slot at the same time only if the     *)
(* load of slots_ has overtaken the store to reading_, however their       *)
(* accesses interleave and however long that store is delayed.             *)
(***************************************************************************)
THEOREM Disjoint == Spec => []SlotsDisjoint
BY DisjointAlways, DisjointImplies, PTL

-------------------------------------------------------------------------------
(* What a pop returns.                                                     *)

Offered(pair) == entity_data[pair][slots[pair]]

\* The pair announced as the freshest offers a message at least as new as the
\* last push that announced one; the slot being written holds it before that.
FreshestOffers ==
    /\ filled => complete > 0
    /\ complete > 0 => Offered(freshest) >= complete
    /\ wpc = "setSlot" => entity_data[writing_pair][writing_slot] = pushed
    /\ wpc = "setFreshest" => Offered(writing_pair) = pushed
    /\ wpc = "setFilled" => complete > 0
    /\ wpc # "idle" => pushed > 0
    /\ complete <= pushed

\* From the choice of the pair to the copy, the reader is bound to find a message
\* no older than the newest that was complete when the pop began, or a torn one when
\* it has been overtaken.
ReaderFinds ==
    /\ rpc # "idle" => filled /\ oldest > 0 /\ oldest <= complete
    /\ rpc \in {"announce", "slot"} => Offered(reading_pair) >= oldest
    /\ rpc = "copy" => \/ entity_data[reading_pair][reading_slot] >= oldest
                       \/ overtaken /\ entity_data[reading_pair][reading_slot] = Torn

FreshInv == FreshestOffers /\ ReaderFinds /\ PopIsFresh

LEMMA FreshStep ==
    DisjointInv /\ DisjointInv' /\ FreshInv /\ [Next]_vars => FreshInv'
<1> SUFFICES ASSUME DisjointInv, DisjointInv', FreshInv, [Next]_vars
             PROVE  FreshInv'
  OBVIOUS
<1> USE PushesAssumption
    DEF FreshInv, FreshestOffers, ReaderFinds, PopIsFresh, Offered, memory, reader, writer,
        seen
<1>0. TypeOK /\ TypeOK' /\ SlotsDisjoint
  BY DisjointImplies DEF DisjointInv
<1>1. CASE ChoosePair
  BY <1>0, <1>1 DEF ChoosePair, TypeOK, Pairs
<1>2. CASE ChooseSlot
  BY <1>0, <1>2 DEF ChooseSlot
<1>3. CASE Assign
  \* The slot written is offered by no pair, and read by nobody that is not overtaken.
  BY <1>0, <1>3
  DEF Assign, TypeOK, Pairs, DisjointInv, WriterOffSlot, SlotsDisjoint, Meeting
<1>4. CASE Assigned
  BY <1>0, <1>4
  DEF Assigned, TypeOK, Pairs, DisjointInv, WriterOffSlot, SlotsDisjoint, Meeting
<1>5. CASE SetSlot
  BY <1>0, <1>5 DEF SetSlot, TypeOK, Pairs
<1>6. CASE SetFreshest
  BY <1>0, <1>6 DEF SetFreshest, TypeOK, Pairs
<1>7. CASE SetFilled
  BY <1>0, <1>7 DEF SetFilled
<1>8. CASE PopNull \/ PopBegins
  BY <1>0, <1>8 DEF PopNull, PopBegins, vars, TypeOK
<1>9. CASE ReadFreshest
  BY <1>0, <1>9 DEF ReadFreshest, TypeOK, Pairs
<1>10. CASE Announce \/ Drain
  BY <1>0, <1>10 DEF Announce, Drain
<1>11. CASE ReadSlot
  BY <1>0, <1>11 DEF ReadSlot
<1>12. CASE Copy \/ Count
  BY <1>0, <1>12 DEF Copy, Count, TypeOK, Pairs
<1>13. CASE Reinitialize
  BY <1>0, <1>13 DEF Reinitialize, TypeOK, Pairs
<1>14. CASE UNCHANGED vars
  BY <1>14 DEF vars
<1>. QED
  BY <1>1, <1>2, <1>3, <1>4, <1>5, <1>6, <1>7, <1>8, <1>9, <1>10, <1>11, <1>12, <1>13,
     <1>14 DEF Next, Push, Pop

(***************************************************************************)
(* A pop of a buffer that has been filled returns a message no older than  *)
(* the newest push that was complete when the pop began, or a torn one if  *)
(* it has been overtaken.                                                  *)
(***************************************************************************)
THEOREM Fresh == Spec => []PopIsFresh
<1>1. Init => FreshInv
  BY DEF Init, FreshInv, FreshestOffers, ReaderFinds, PopIsFresh
<1>2. Spec => []DisjointInv
  BY DisjointAlways
<1>3. FreshInv => PopIsFresh
  BY DEF FreshInv
<1>. QED
  BY <1>1, <1>2, <1>3, FreshStep, PTL DEF Spec

-------------------------------------------------------------------------------
(* The order of what pops return.                                          *)

\* Where the reader has announced another pair than the freshest, the writer stays with the
\* freshest, and what the announced pair holds is older than what the freshest offers.
PairsApart ==
    /\ freshest # reading /\ wpc \notin {"idle", "setFilled"} => writing_pair = freshest
    /\ rpc = "announce" \/ delayed # None => reading_pair \in {freshest, reading}
    /\ complete > 0 /\ freshest # reading =>
          \A s \in Pairs : entity_data[reading][s] <= Offered(freshest)

\* What the buffer offers, and what the reader is bound to copy, is at least as new as
\* what it copied last; what it is bound to copy, unless it has been overtaken, is no
\* newer than what the pair offers.
OrderInv ==
    /\ PairsApart
    /\ settled <= pushed
    /\ \A p, s \in Pairs : entity_data[p][s] <= pushed
    /\ complete > 0 => settled <= Offered(freshest)
    /\ rpc \in {"announce", "slot"} => settled <= Offered(reading_pair)
    /\ rpc = "copy" =>
          /\ \/ settled <= entity_data[reading_pair][reading_slot]
             \/ overtaken /\ entity_data[reading_pair][reading_slot] = Torn
          /\ overtaken \/ entity_data[reading_pair][reading_slot] <= Offered(reading_pair)

\* One step of PopsInOrder.
Ordered == popped' # popped => popped' = Torn \/ popped' >= settled

LEMMA OrderStep ==
    DisjointInv /\ DisjointInv' /\ FreshInv /\ OrderInv /\ [Next]_vars =>
        OrderInv' /\ Ordered
<1> SUFFICES ASSUME DisjointInv, DisjointInv', FreshInv, OrderInv, [Next]_vars
             PROVE  OrderInv' /\ Ordered
  OBVIOUS
<1> USE PushesAssumption DEF OrderInv, Ordered, PairsApart, Offered, memory, reader, writer, seen
<1>0. TypeOK /\ TypeOK' /\ SlotsDisjoint
  BY DisjointImplies DEF DisjointInv
<1>1. CASE ChoosePair \/ ChooseSlot
  BY <1>0, <1>1 DEF ChoosePair, ChooseSlot, TypeOK, Pairs
<1>2. CASE Assign
  BY <1>0, <1>2
  DEF Assign, Torn, TypeOK, Pairs, DisjointInv, WriterOffSlot, SlotsDisjoint, Meeting
<1>3. CASE Assigned
  BY <1>0, <1>3
  DEF Assigned, TypeOK, Pairs, DisjointInv, WriterOffSlot, SlotsDisjoint, Meeting
<1>4. CASE SetSlot
  BY <1>0, <1>4 DEF SetSlot, TypeOK, Pairs, FreshInv, FreshestOffers
<1>5. CASE SetFreshest
  BY <1>0, <1>5 DEF SetFreshest, TypeOK, Pairs, FreshInv, FreshestOffers, Offered
<1>6. CASE SetFilled
  BY <1>0, <1>6 DEF SetFilled, TypeOK
<1>7. CASE PopNull \/ PopBegins
  BY <1>0, <1>7 DEF PopNull, PopBegins, vars, TypeOK
<1>8. CASE ReadFreshest
  BY <1>0, <1>8 DEF ReadFreshest, TypeOK, FreshInv, ReaderFinds
<1>9. CASE Announce \/ ReadSlot
  BY <1>0, <1>9 DEF Announce, ReadSlot, TypeOK
<1>14. CASE Drain
  BY <1>0, <1>14 DEF Drain, DisjointInv, Announced, TypeOK, Pairs, None
<1>10. CASE Copy
  <2>1. reading_pair \in Pairs /\ reading_slot \in Pairs
    BY <1>0 DEF TypeOK
  <2>2. /\ popped' = entity_data[reading_pair][reading_slot] /\ rpc' = "count"
        /\ settled' = IF overtaken THEN settled ELSE popped'
        /\ UNCHANGED <<memory, writer, delayed, reading_pair, reading_slot>>
    BY <1>10 DEF Copy
  <2>3. CASE overtaken
    BY <1>0, <1>10, <2>2, <2>3 DEF Copy, TypeOK
  <2>4. CASE ~overtaken
    <3>1. delayed = None /\ reading = reading_pair
      BY <1>10, <2>4 DEF Copy, DisjointInv, Announced
    <3>2. settled <= popped' /\ popped' <= pushed /\ popped' <= Offered(reading)
      BY <1>10, <2>1, <2>2, <2>4, <3>1 DEF Copy
    <3>3. complete > 0 => popped' <= Offered(freshest)
      <4>1. CASE freshest = reading
        BY <3>2, <4>1
      <4>2. CASE freshest # reading
        BY <2>1, <2>2, <3>1, <4>2
      <4>. QED
        BY <4>1, <4>2
    <3>. QED
      BY <1>0, <1>10, <2>2, <2>4, <3>2, <3>3 DEF Copy, TypeOK
  <2>. QED
    BY <2>3, <2>4
<1>11. CASE Count
  BY <1>0, <1>11 DEF Count, TypeOK
<1>12. CASE Reinitialize
  BY <1>0, <1>12 DEF Reinitialize, DisjointInv, Announced, TypeOK, Pairs, None
<1>13. CASE UNCHANGED vars
  BY <1>0, <1>13 DEF vars, TypeOK
<1>. QED
  BY <1>1, <1>2, <1>3, <1>4, <1>5, <1>6, <1>7, <1>8, <1>9, <1>10, <1>11, <1>12, <1>13,
     <1>14 DEF Next, Push, Pop

(***************************************************************************)
(* A pop never returns a message older than one that a pop has returned    *)
(* that was not overtaken, also when it overlaps with pushes, is overtaken *)
(* itself, and across restarts.                                            *)
(***************************************************************************)
THEOREM InOrder == Spec => PopsInOrder
<1>1. Init => OrderInv
  BY PushesAssumption DEF Init, OrderInv, PairsApart, Offered, Pairs, None
<1>2. Spec => [](DisjointInv /\ FreshInv)
  <2>1. Init => FreshInv
    BY DEF Init, FreshInv, FreshestOffers, ReaderFinds, PopIsFresh
  <2>. QED
    BY <2>1, DisjointAlways, FreshStep, PTL DEF Spec
<1>3. Spec => []OrderInv
  BY <1>1, <1>2, OrderStep, PTL DEF Spec
<1>4. DisjointInv /\ DisjointInv' /\ FreshInv /\ OrderInv /\ [Next]_vars => [Ordered]_vars
  BY OrderStep
<1>. QED
  BY <1>2, <1>3, <1>4, PTL DEF Spec, PopsInOrder, Ordered
===============================================================================
