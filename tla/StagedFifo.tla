------------------------------ MODULE StagedFifo ------------------------------
(***************************************************************************)
(* What a staging queue promises to its callers, with no ring buffer in    *)
(* sight: a main stage and a back stage, each a sequence, oldest first.    *)
(* Items enter at the back stage (push), become visible all at once (sync) *)
(* and leave the main stage in the order they entered (pop, popAll).  The  *)
(* overflow behaviour says which item is lost when a stage is full.        *)
(*                                                                         *)
(* StagingQueue implements this specification (see StagingQueueProofs);    *)
(* the modules that move messages between entities are built on the two    *)
(* stages rather than on the ring buffer.                                  *)
(***************************************************************************)
EXTENDS OverflowBehavior

CONSTANTS
    Items,       \* what the queue holds (entities, in a receiver)
    Null,        \* the item that stands for an empty slot
    Capacities,  \* the capacities a queue may be built with
    Behaviors    \* the overflow behaviours a queue may be built with

VARIABLES
    capacity, overflow_behavior,   \* fixed at construction
    mainstage, backstage,          \* sequences of items, oldest first
    result                         \* what the last call returned

vars == <<capacity, overflow_behavior, mainstage, backstage, result>>

Init ==
    /\ capacity \in Capacities
    /\ overflow_behavior \in Behaviors
    /\ mainstage = <<>>
    /\ backstage = <<>>
    /\ result = Null

Push(x) ==
    /\ backstage' = Pushed(backstage, x, capacity, overflow_behavior)
    /\ result' = (Len(backstage) < capacity \/ overflow_behavior # "kFault")
    /\ UNCHANGED <<capacity, overflow_behavior, mainstage>>

Sync ==
    /\ mainstage' = Synced(mainstage, backstage, capacity, overflow_behavior)
    /\ backstage' = <<>>
    /\ result' = ( \/ Len(mainstage) + Len(backstage) <= capacity
                   \/ overflow_behavior # "kFault" )
    /\ UNCHANGED <<capacity, overflow_behavior>>

Pop ==
    /\ \/ /\ mainstage # <<>>
          /\ result' = Head(mainstage)
          /\ mainstage' = Tail(mainstage)
       \/ /\ mainstage = <<>>
          /\ result' = Null
          /\ UNCHANGED mainstage
    /\ UNCHANGED <<capacity, overflow_behavior, backstage>>

PopAll ==
    /\ mainstage' = <<>>
    /\ UNCHANGED <<capacity, overflow_behavior, backstage, result>>

\* A main stage that holds more than its capacity is the error state of the
\* kFault behaviour.  Nothing is promised about what a queue in that state does.
Faulted == Len(mainstage) > capacity
Undefined == Faulted /\ UNCHANGED <<capacity, overflow_behavior>>

Next == (\E x \in Items : Push(x)) \/ Sync \/ Pop \/ PopAll \/ Undefined

Spec == Init /\ [][Next]_vars
===============================================================================
