----------------------------- MODULE StagingQueue -----------------------------
(***************************************************************************)
(* The double-buffered queue behind every receiver and transmitter         *)
(* (gxf/std/gems/staging_queue/staging_queue.hpp): one ring buffer of      *)
(* 2 * capacity slots that holds the main stage and, right behind it, the  *)
(* back stage.  Every method runs under the queue's mutex, so each is one  *)
(* action; concurrent callers interleave whole calls.                      *)
(*                                                                         *)
(* capacity_ and overflow_behavior_ are const fields of the class; they    *)
(* are chosen in Init, so one run covers every kind of queue.  Capacity 0  *)
(* is left out: both owners refuse it in initialize().                     *)
(***************************************************************************)
EXTENDS Integers, Sequences

CONSTANTS
    Items,         \* the items callers push
    Null,          \* the default element of empty slots
    Capacities,    \* capacities a queue may be built with
    Behaviors,     \* overflow behaviours a queue may be built with
    MaxMainstage   \* bound: nothing in the code bounds num_mainstage_ of a
                   \* kFault queue that is synced again and again while full

ASSUME NullAssumption == Null \notin Items
ASSUME CapacityAssumption == Capacities \subseteq Nat \ {0}
ASSUME BehaviorAssumption == Behaviors \subseteq {"kPop", "kReject", "kFault"}
\* Items are entities: none of them is one of the truth values calls return.
ASSUME ItemAssumption == (Items \cup {Null}) \cap BOOLEAN = {}

VARIABLES
    capacity,           \* capacity_
    overflow_behavior,  \* overflow_behavior_
    items,              \* items_: slot number -> item
    begin,              \* begin_: slot of the oldest main stage item
    num_mainstage,      \* num_mainstage_
    num_backstage,      \* num_backstage_
    result              \* what the last call returned (history)

vars == <<capacity, overflow_behavior, items, begin, num_mainstage,
          num_backstage, result>>

NumSlots == 2 * capacity

\* at(index): the slot at a position relative to the start of the buffer.
Slot(index) == index % NumSlots

\* The queue's queries: peek, peek_backstage and latest.
peek(index) ==
    IF index < num_mainstage THEN items[Slot(begin + index)] ELSE Null
peek_backstage(index) ==
    IF index < num_backstage
    THEN items[Slot(begin + num_mainstage + index)] ELSE Null
latest(index) ==
    IF index < num_mainstage
    THEN items[Slot(begin + num_mainstage - index - 1)] ELSE Null

\* items with the n slots from position `from' on set to null, the effect of
\* the loops of popAll and sync.
Cleared(from, n) ==
    [s \in DOMAIN items |->
        IF \E k \in 0..(n - 1) : Slot(from + k) = s THEN Null ELSE items[s]]

Init ==
    /\ capacity \in Capacities
    /\ overflow_behavior \in Behaviors
    /\ items = [s \in 0..(2 * capacity - 1) |-> Null]
    /\ begin = 0
    /\ num_mainstage = 0
    /\ num_backstage = 0
    /\ result = Null

-------------------------------------------------------------------------------
(* pop(): hands out the oldest item and leaves null in its slot. *)

Pop ==
    /\ \/ /\ num_mainstage > 0
          /\ result' = items[Slot(begin)]
          /\ items' = [items EXCEPT ![Slot(begin)] = Null]
          /\ begin' = Slot(begin + 1)
          /\ num_mainstage' = num_mainstage - 1
       \/ /\ num_mainstage = 0
          /\ result' = Null
          /\ begin' = Slot(begin)
          /\ UNCHANGED <<items, num_mainstage>>
    /\ UNCHANGED <<capacity, overflow_behavior, num_backstage>>

(* popAll() *)
PopAll ==
    /\ items' = Cleared(begin, num_mainstage)
    /\ begin' = Slot(begin + num_mainstage)
    /\ num_mainstage' = 0
    /\ UNCHANGED <<capacity, overflow_behavior, num_backstage, result>>

-------------------------------------------------------------------------------
(* push(item): behind the back stage, or whatever the overflow behaviour   *)
(* says when the back stage is full.                                       *)

BeginBackstage == begin + num_mainstage

PushToFreeSlot(x) ==
    /\ num_backstage # capacity
    /\ items' = [items EXCEPT ![Slot(BeginBackstage + num_backstage)] = x]
    /\ num_backstage' = num_backstage + 1
    /\ result' = TRUE

\* Mutant: the loop over the back stage ends one item early.
ShiftedOneShort(x) ==
    [s \in DOMAIN items |->
        IF s = Slot(BeginBackstage + num_backstage - 1) THEN x
        ELSE IF \E k \in 0..(num_backstage - 3) : s = Slot(BeginBackstage + k)
             THEN items[Slot(s + 1)]
             ELSE items[s]]

\* kPop: the back stage moves one slot towards its start, over its oldest item.
Shifted(x) ==
    [s \in DOMAIN items |->
        IF s = Slot(BeginBackstage + num_backstage - 1) THEN x
        ELSE IF \E k \in 0..(num_backstage - 2) : s = Slot(BeginBackstage + k)
             THEN items[Slot(s + 1)]
             ELSE items[s]]

PushToFullBackstage(x) ==
    /\ num_backstage = capacity
    /\ \/ /\ overflow_behavior = "kPop"
          /\ items' = Shifted(x)
          /\ result' = TRUE
       \/ /\ overflow_behavior = "kReject"
          /\ result' = TRUE
          /\ UNCHANGED items
       \/ /\ overflow_behavior = "kFault"
          /\ result' = FALSE
          /\ UNCHANGED items
    /\ UNCHANGED num_backstage

Push(x) ==
    /\ PushToFreeSlot(x) \/ PushToFullBackstage(x)
    /\ UNCHANGED <<capacity, overflow_behavior, begin, num_mainstage>>

-------------------------------------------------------------------------------
(* sync(): the back stage joins the main stage.                            *)

Total == num_mainstage + num_backstage

\* Mutant: the overflow test lets one item too many through.
SyncWithRoomOffByOne ==
    /\ Total <= capacity + 1
    /\ num_mainstage' = Total
    /\ begin' = Slot(begin)
    /\ result' = TRUE
    /\ UNCHANGED items

SyncWithRoom ==
    /\ Total <= capacity
    /\ num_mainstage' = Total
    /\ begin' = Slot(begin)
    /\ result' = TRUE
    /\ UNCHANGED items

\* kPop drops the oldest items of the main stage.
SyncPop ==
    /\ Total > capacity
    /\ overflow_behavior = "kPop"
    /\ items' = Cleared(begin, Total - capacity)
    /\ begin' = Slot(begin + Total - capacity)
    /\ num_mainstage' = capacity
    /\ result' = TRUE

\* Mutant: the rejected items are left in their slots.
SyncRejectKeepingItems ==
    /\ Total > capacity
    /\ overflow_behavior = "kReject"
    /\ num_mainstage' = capacity
    /\ begin' = Slot(begin)
    /\ result' = TRUE
    /\ UNCHANGED items

\* kReject drops the newest items of the back stage.
SyncReject ==
    /\ Total > capacity
    /\ overflow_behavior = "kReject"
    /\ items' = Cleared(begin + capacity, Total - capacity)
    /\ num_mainstage' = capacity
    /\ begin' = Slot(begin)
    /\ result' = TRUE

\* kFault reports the overflow, but the counters have already been changed.
SyncFault ==
    /\ Total > capacity
    /\ overflow_behavior = "kFault"
    /\ Total <= MaxMainstage
    /\ num_mainstage' = Total
    /\ result' = FALSE
    /\ UNCHANGED <<items, begin>>

Sync ==
    /\ SyncWithRoom \/ SyncPop \/ SyncReject \/ SyncFault
    /\ num_backstage' = 0
    /\ UNCHANGED <<capacity, overflow_behavior>>

Next == Pop \/ PopAll \/ (\E x \in Items : Push(x)) \/ Sync

Spec == Init /\ [][Next]_vars

-------------------------------------------------------------------------------
(* Properties.                                                             *)

\* Every field keeps its type; begin_ stays in {0, ..., items_.size() - 1}, as
\* the comment on the field guarantees, and each call leaves it there.
TypeOK ==
    /\ capacity \in Capacities
    /\ overflow_behavior \in Behaviors
    /\ items \in [0..(NumSlots - 1) -> Items \cup {Null}]
    /\ begin \in 0..(NumSlots - 1)
    /\ num_mainstage \in Nat
    /\ num_backstage \in 0..capacity
    /\ result \in Items \cup {Null} \cup BOOLEAN

\* A slot outside the two stages holds null.  The queue holds entities: a slot
\* that kept its item would keep a reference, and the message would never be
\* freed (or would come back later as a message nobody sent).
FreeSlotsNull ==
    \A k \in Total..(NumSlots - 1) : items[Slot(begin + k)] = Null

\* The main stage never holds more than capacity_ items, provided the queue was
\* told what to drop; every query of free space subtracts size() from it.
DroppingQueueWithinCapacity ==
    overflow_behavior # "kFault" => num_mainstage <= capacity

\* A pushed item is not visible to the queries of the main stage until sync: no
\* push changes an item there.  The comment on push() promises this of every
\* queue; after a kFault sync reported an overflow, the next push overwrites the
\* oldest item of the main stage.
PushInvisibleUntilSync ==
    [][ (\E x \in Items : Push(x)) =>
            \A k \in 0..(num_mainstage - 1) : peek(k)' = peek(k) ]_vars

\* The ring buffer implements two sequences: calls return what the sequences
\* say, in order, whatever wraps around, moves over or is dropped.
Fifo == INSTANCE StagedFifo WITH
    mainstage <- [k \in 1..num_mainstage |-> peek(k - 1)],
    backstage <- [k \in 1..num_backstage |-> peek_backstage(k - 1)]

ImplementsFifo == Fifo!Spec
===============================================================================
