---------------------------- MODULE SerialExecutor ----------------------------
(***************************************************************************)
(* What a QueueThread (gxf/std/gems/queue_thread) promises: the items that *)
(* are queued are executed one after the other, in their order and without *)
(* a gap, until the executor is closed; none is executed afterwards.       *)
(***************************************************************************)
EXTENDS Integers

VARIABLES
    queued,         \* how many items were queued
    executed,       \* the last of them that was executed, and all before it were
    open            \* whether items are still executed

Init == queued = 0 /\ executed = 0 /\ open = TRUE

QueueItem == queued' = queued + 1 /\ UNCHANGED <<executed, open>>

Execute == open /\ executed < queued /\ executed' = executed + 1 /\ UNCHANGED <<queued, open>>

Close == open' = FALSE /\ UNCHANGED <<queued, executed>>

Next == QueueItem \/ Execute \/ Close

Spec == Init /\ [][Next]_<<queued, executed, open>>
================================================================================
