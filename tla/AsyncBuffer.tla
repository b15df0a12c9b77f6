------------------------------ MODULE AsyncBuffer ------------------------------
(***************************************************************************)
(* AsyncBufferReceiver (gxf/std/async_buffer_receiver.cpp): Simpson's      *)
(* four-slot buffer between the thread that pushes, the router of the      *)
(* transmitting entity, and the thread that pops, the receiving codelet.   *)
(*                                                                         *)
(* Every access to a member that both threads use is a step.  A message is *)
(* the number of its push and 0 is the null entity; the assignment to an   *)
(* Entity is two steps, and the slot holds Torn in between.                *)
(*                                                                         *)
(* The control variables are plain ints: nothing orders the store to       *)
(* reading_ in read_freshest before the load of slots_ that follows it.  As *)
(* on x86-64, or if the compiler moves it, that store may reach the memory *)
(* any time later, but before the next atomic instruction of the thread,   *)
(* the increment of the reference count that ends the copy.  The stores of *)
(* the pushing thread leave its store buffer in order and before its next  *)
(* push loads anything, which is as if it ran later: they need no buffer.  *)
(* Its stores in another order, or loads in another order, as a weaker     *)
(* memory has them, are not modelled.                                      *)
(***************************************************************************)
EXTENDS Integers

CONSTANT MaxPushes      \* bound: messages pushed

ASSUME PushesAssumption == MaxPushes \in Nat

Pairs == {0, 1}
Torn == -1

VARIABLES
    entity_data,    \* entity_data_, by pair and slot
    freshest,       \* freshest_
    reading,        \* reading_
    slots,          \* slots_
    filled,         \* is_filled_first_time_
    delayed,        \* the store to reading_ that the memory has not got yet, or None
    wpc, writing_pair, writing_slot,    \* the pushing thread
    rpc, reading_pair, reading_slot,    \* the popping thread
    pushed,         \* pushes begun
    complete,       \* the last push that set freshest_, 0 after a reset
    oldest,         \* complete when the current pop began
    overtaken,      \* the load of slots_ of the last pop overtook its store to reading_
    popped,         \* the message of the last pop, 0 if none
    settled         \* the message of the last pop that was not overtaken, 0 if none

memory == <<entity_data, freshest, reading, slots, filled>>
writer == <<wpc, writing_pair, writing_slot, pushed, complete>>
seen == <<oldest, overtaken, popped, settled>>
reader == <<delayed, rpc, reading_pair, reading_slot, seen>>
vars == <<memory, writer, reader>>

None == -1

\* initialize(): reset_buffer().
Init ==
    /\ entity_data = [p \in Pairs |-> [s \in Pairs |-> 0]]
    /\ freshest = 0
    /\ reading = 0
    /\ slots = [p \in Pairs |-> 0]
    /\ filled = FALSE
    /\ delayed = None
    /\ wpc = "idle" /\ writing_pair = 0 /\ writing_slot = 0
    /\ rpc = "idle" /\ reading_pair = 0 /\ reading_slot = 0
    /\ pushed = 0
    /\ complete = 0
    /\ oldest = 0
    /\ overtaken = FALSE
    /\ popped = 0
    /\ settled = 0

-------------------------------------------------------------------------------
(* push_abi()                                                              *)

\* Mutant: the writer takes the pair that the reader announced.
ChoosePairOfReader ==
    /\ wpc = "idle"
    /\ pushed < MaxPushes
    /\ writing_pair' = reading
    /\ pushed' = pushed + 1
    /\ wpc' = "slot"
    /\ UNCHANGED <<memory, writing_slot, complete, reader>>

ChoosePair ==
    /\ wpc = "idle"
    /\ pushed < MaxPushes
    /\ writing_pair' = 1 - reading
    /\ pushed' = pushed + 1
    /\ wpc' = "slot"
    /\ UNCHANGED <<memory, writing_slot, complete, reader>>

ChooseSlot ==
    /\ wpc = "slot"
    /\ writing_slot' = 1 - slots[writing_pair]
    /\ wpc' = "assign"
    /\ UNCHANGED <<memory, writing_pair, pushed, complete, reader>>

\* The assignment of the entity begins ...
Assign ==
    /\ wpc = "assign"
    /\ entity_data' = [entity_data EXCEPT ![writing_pair][writing_slot] = Torn]
    /\ wpc' = "assigning"
    /\ UNCHANGED <<freshest, reading, slots, filled, writing_pair,
                   writing_slot, pushed, complete, reader>>

\* ... and ends.
Assigned ==
    /\ wpc = "assigning"
    /\ entity_data' = [entity_data EXCEPT ![writing_pair][writing_slot] = pushed]
    /\ wpc' = "setSlot"
    /\ UNCHANGED <<freshest, reading, slots, filled, writing_pair,
                   writing_slot, pushed, complete, reader>>

SetSlot ==
    /\ wpc = "setSlot"
    /\ slots' = [slots EXCEPT ![writing_pair] = writing_slot]
    /\ wpc' = "setFreshest"
    /\ UNCHANGED <<entity_data, freshest, reading, filled, writing_pair,
                   writing_slot, pushed, complete, reader>>

\* Mutant: the new message is never announced.
SetFreshestNever ==
    /\ wpc = "setFreshest"
    /\ complete' = pushed
    /\ wpc' = "setFilled"
    /\ UNCHANGED <<memory, writing_pair, writing_slot, pushed, reader>>

SetFreshest ==
    /\ wpc = "setFreshest"
    /\ freshest' = writing_pair
    /\ complete' = pushed
    /\ wpc' = "setFilled"
    /\ UNCHANGED <<entity_data, reading, slots, filled, writing_pair,
                   writing_slot, pushed, reader>>

SetFilled ==
    /\ wpc = "setFilled"
    /\ filled' = TRUE
    /\ wpc' = "idle"
    /\ UNCHANGED <<entity_data, freshest, reading, slots, writing_pair,
                   writing_slot, pushed, complete, reader>>

Push ==
    \/ ChoosePair \/ ChooseSlot \/ Assign \/ Assigned \/ SetSlot \/ SetFreshest
    \/ SetFilled

-------------------------------------------------------------------------------
(* pop_abi() and read_freshest()                                           *)

\* An empty buffer gives the null entity at once.
PopNull ==
    /\ rpc = "idle"
    /\ ~filled
    /\ UNCHANGED vars

PopBegins ==
    /\ rpc = "idle"
    /\ filled
    /\ oldest' = complete
    /\ rpc' = "freshest"
    /\ UNCHANGED <<memory, writer, delayed, reading_pair, reading_slot, overtaken,
                   popped, settled>>

ReadFreshest ==
    /\ rpc = "freshest"
    /\ reading_pair' = freshest
    /\ rpc' = "announce"
    /\ UNCHANGED <<memory, writer, delayed, reading_slot, seen>>

\* The store to reading_ is issued ...
Announce ==
    /\ rpc = "announce"
    /\ delayed' = reading_pair
    /\ rpc' = "slot"
    /\ UNCHANGED <<memory, writer, reading_pair, reading_slot, seen>>

\* ... and reaches the memory.
Drain ==
    /\ delayed # None
    /\ reading' = delayed
    /\ delayed' = None
    /\ UNCHANGED <<entity_data, freshest, slots, filled, writer, rpc, reading_pair,
                   reading_slot, seen>>

\* Mutant: the other slot of the pair.
ReadOtherSlot ==
    /\ rpc = "slot"
    /\ reading_slot' = 1 - slots[reading_pair]
    /\ overtaken' = (delayed # None)
    /\ rpc' = "copy"
    /\ UNCHANGED <<memory, writer, delayed, reading_pair, oldest, popped, settled>>

ReadSlot ==
    /\ rpc = "slot"
    /\ reading_slot' = slots[reading_pair]
    /\ overtaken' = (delayed # None)
    /\ rpc' = "copy"
    /\ UNCHANGED <<memory, writer, delayed, reading_pair, oldest, popped, settled>>

\* The copy of the entity reads the slot ...
Copy ==
    /\ rpc = "copy"
    /\ popped' = entity_data[reading_pair][reading_slot]
    /\ settled' = IF overtaken THEN settled ELSE popped'
    /\ rpc' = "count"
    /\ UNCHANGED <<memory, writer, delayed, reading_pair, reading_slot, oldest,
                   overtaken>>

\* ... and increments the reference count, which is atomic.
Count ==
    /\ rpc = "count"
    /\ delayed = None
    /\ rpc' = "idle"
    /\ UNCHANGED <<memory, writer, delayed, reading_pair, reading_slot, seen>>

Pop ==
    \/ PopNull \/ PopBegins \/ ReadFreshest \/ Announce \/ Drain \/ ReadSlot \/ Copy
    \/ Count

-------------------------------------------------------------------------------
\* deinitialize() and initialize() between two runs of the graph: reset_buffer()
\* leaves the entities where they are.
Reinitialize ==
    /\ wpc = "idle" /\ rpc = "idle"
    /\ freshest' = 0 /\ reading' = 0 /\ slots' = [p \in Pairs |-> 0]
    /\ filled' = FALSE
    /\ complete' = 0
    /\ UNCHANGED <<entity_data, wpc, writing_pair, writing_slot, pushed, reader>>

Next == Push \/ Pop \/ Reinitialize

Spec == Init /\ [][Next]_vars

-------------------------------------------------------------------------------
(* Properties.                                                             *)

TypeOK ==
    /\ entity_data \in [Pairs -> [Pairs -> -1..MaxPushes]]
    /\ freshest \in Pairs
    /\ reading \in Pairs
    /\ slots \in [Pairs -> Pairs]
    /\ filled \in BOOLEAN
    /\ delayed \in Pairs \cup {None}
    /\ wpc \in {"idle", "slot", "assign", "assigning", "setSlot", "setFreshest",
                "setFilled"}
    /\ writing_pair \in Pairs /\ writing_slot \in Pairs
    /\ rpc \in {"idle", "freshest", "announce", "slot", "copy", "count"}
    /\ reading_pair \in Pairs /\ reading_slot \in Pairs
    /\ pushed \in 0..MaxPushes
    /\ complete \in 0..MaxPushes
    /\ oldest \in 0..MaxPushes
    /\ overtaken \in BOOLEAN
    /\ popped \in -1..MaxPushes
    /\ settled \in -1..MaxPushes

\* The entity is copied while it is replaced: the handle may be torn, or one of a
\* message that has been released.
Meeting ==
    /\ wpc \in {"assign", "assigning"} /\ rpc \in {"copy", "count"}
    /\ <<writing_pair, writing_slot>> = <<reading_pair, reading_slot>>

\* The two threads are never in the same slot, unless slots_ has been loaded before
\* the store to reading_ reached the memory: nothing else that the pushing thread may
\* miss, and no restart, brings it to the slot that is being copied, and a fence after
\* the store keeps it away.
SlotsDisjoint == Meeting => overtaken

\* A pop returns a message, and none older than the newest one that was complete when
\* the pop began; only a pop that has been overtaken may return a torn one.
PopIsFresh ==
    rpc = "count" => \/ popped >= oldest /\ popped > 0
                     \/ popped = Torn /\ overtaken

\* A pop never goes back to an older message than an earlier pop, not overtaken, has
\* returned; it may itself be overtaken.
PopsInOrder == [][popped' # popped => popped' = Torn \/ popped' >= settled]_vars

\* "Asynchronous communication" in "a single producer and single consumer scenario"
\* (async_buffer_receiver.hpp): the two threads of that scenario never meet in a slot.
SingleProducerSingleConsumer == ~Meeting
===============================================================================
