--------------------------- MODULE QueueThreadProofs ---------------------------
(***************************************************************************)
(* Proofs about QueueThread.  The queue is always a suffix of the items    *)
(* queued so far, as it is emptied at once and filled one by one; while    *)
(* the thread is in its loop, the items before this suffix are exactly     *)
(* those executed and the one popped.                                      *)
(***************************************************************************)
EXTENDS QueueThread, TLAPS

\* The items in front of the queue.
before == queued - Len(guard_queue)

Looping == thread \in {"pop", "check", "run"}

\* The inductive invariant, in parts: the queue is a suffix of what was queued; an item is
\* held between its pop and its end; the loop has executed all before that; the futures that
\* are pending; a caller returns after the thread.
Suffix ==
    /\ before \in Nat
    /\ \A k \in 1 .. Len(guard_queue) : guard_queue[k] = before + k
EntryHeld == entry # 0 <=> thread \in {"check", "run"}
InStep == Looping => before = IF entry = 0 THEN executed ELSE executed + 1
EntryIsNext == entry # 0 => entry = executed + 1
Pending == \A i \in 1 .. queued : future[i] = "pending" <=> i > before \/ i = entry
ReturnsLast == \A c \in Callers : pc[c] = "returned" => thread \in {"gone", "destroyed"}

IInv == TypeOK /\ Suffix /\ EntryHeld /\ InStep /\ EntryIsNext /\ Pending /\ ReturnsLast

LEMMA InitHolds == Init => IInv
<1>. SUFFICES ASSUME Init PROVE IInv
  OBVIOUS
<1>1. Len(guard_queue) = 0 /\ Len(future) = 0 /\ before = 0
  BY DEF Init, before, queued
<1>2. TypeOK
  <2>1. guard_queue \in Seq(1 .. queued) /\ future \in Seq({"pending", "ready", "broken"})
    BY DEF Init
  <2>2. queued <= MaxItems
    BY <1>1, ItemsAssumption DEF queued
  <2>3. pc \in [Callers -> {"idle", "wakeup", "notify", "test", "block", "asleep", "woken", "join",
                            "returned"}]
    BY DEF Init
  <2>4. entry \in 0 .. queued /\ executed \in 0 .. queued
    BY <1>1 DEF Init, queued
  <2>. QED
    BY <2>1, <2>2, <2>3, <2>4 DEF Init, TypeOK
<1>. QED
  BY <1>1, <1>2 DEF Init, IInv, Suffix, EntryHeld, InStep, EntryIsNext, Pending, ReturnsLast,
     queued

(* -- Facts about the queue and the futures -------------------------------*)

LEMMA Counts ==
  ASSUME TypeOK
  PROVE  queued \in Nat /\ Len(guard_queue) \in Nat /\ DOMAIN future = 1 .. queued
  BY DEF TypeOK, queued

LEMMA EmptySequence == ASSUME NEW q, q \in Seq(Nat) PROVE q = <<>> <=> Len(q) = 0
  OBVIOUS

LEMMA BreakFutures ==
  ASSUME TypeOK, NEW items, Break(items)
  PROVE  /\ future' \in Seq({"pending", "ready", "broken"})
         /\ queued' = queued
         /\ \A i \in 1 .. queued :
                future'[i] = "pending" <=> future[i] = "pending" /\ i \notin items
<1>1. queued \in Nat /\ \A i \in 1 .. queued : future[i] \in {"pending", "ready", "broken"}
  BY DEF TypeOK, queued
<1>2. future' \in [1 .. queued -> {"pending", "ready", "broken"}]
  BY <1>1 DEF Break
<1>. QED
  BY <1>1, <1>2 DEF Break, queued

\* What an action keeps that changes neither the queue nor the futures nor the thread.
LEMMA Kept ==
  ASSUME IInv, UNCHANGED <<guard_queue, future, loop>>
  PROVE  /\ (Suffix /\ EntryHeld /\ InStep /\ EntryIsNext /\ Pending)'
         /\ guard_queue' \in Seq(1 .. queued')
         /\ future' \in Seq({"pending", "ready", "broken"}) /\ queued' <= MaxItems
         /\ (thread \in {"pop", "check", "run", "clear", "unblock", "notify", "gone", "destroyed"})'
         /\ (entry \in 0 .. queued /\ executed \in 0 .. queued)'
  BY DEF IInv, TypeOK, Suffix, before, EntryHeld, InStep, EntryIsNext, Pending, Looping, queued,
     loop

(* -- The queue -----------------------------------------------------------*)

LEMMA QueueItemKeeps ==
  ASSUME IInv, QueueItem
  PROVE  IInv'
<1>1. queued \in Nat /\ Len(guard_queue) \in Nat /\ before \in Nat
  BY Counts DEF IInv, Suffix
<1>2. queued' = queued + 1 /\ Len(guard_queue') = Len(guard_queue) + 1 /\ before' = before
  BY <1>1 DEF QueueItem, IInv, TypeOK, before, queued
<1>3. /\ \A k \in 1 .. Len(guard_queue) : guard_queue'[k] = guard_queue[k]
      /\ guard_queue'[Len(guard_queue) + 1] = queued + 1
  BY <1>1 DEF QueueItem, IInv, TypeOK
<1>4. /\ \A i \in 1 .. queued : future'[i] = future[i]
      /\ future'[queued + 1] = "pending"
  BY <1>1 DEF QueueItem, IInv, TypeOK, queued
<1>5. TypeOK'
  <2>1. guard_queue' \in Seq(1 .. queued')
    <3>1. guard_queue \in Seq(1 .. queued + 1) /\ queued + 1 \in 1 .. queued + 1
      BY <1>1 DEF IInv, TypeOK
    <3>. QED
      BY <1>2, <3>1 DEF QueueItem
  <2>2. future' \in Seq({"pending", "ready", "broken"}) /\ queued' <= MaxItems
    BY <1>1, <1>2, ItemsAssumption DEF QueueItem, IInv, TypeOK
  <2>. QED
    BY <1>1, <1>2, <2>1, <2>2 DEF QueueItem, IInv, TypeOK, stop_vars, loop
<1>6. Suffix'
  BY <1>1, <1>2, <1>3 DEF IInv, Suffix, before
<1>7. Pending'
  <2>1. entry <= queued /\ entry' = entry
    BY <1>1 DEF IInv, TypeOK, QueueItem, loop
  <2>2. \A i \in 1 .. queued : future'[i] = "pending" <=> i > before' \/ i = entry'
    BY <1>2, <1>4, <2>1 DEF IInv, Pending
  <2>3. future'[queued + 1] = "pending" /\ queued + 1 > before'
    BY <1>1, <1>2, <1>4 DEF before
  <2>. QED
    BY <1>1, <1>2, <2>2, <2>3 DEF Pending
<1>. QED
  BY <1>2, <1>5, <1>6, <1>7
     DEF IInv, EntryHeld, InStep, EntryIsNext, ReturnsLast, Looping, QueueItem, loop

(* -- The thread ----------------------------------------------------------*)

LEMMA PopItemKeeps ==
  ASSUME IInv, PopItem
  PROVE  IInv'
<1>1. queued \in Nat /\ Len(guard_queue) \in Nat /\ before \in Nat
  BY Counts DEF IInv, Suffix
<1>2. Len(guard_queue) > 0
  BY EmptySequence DEF IInv, TypeOK, PopItem
<1>3. /\ queued' = queued /\ Len(guard_queue') = Len(guard_queue) - 1 /\ before' = before + 1
      /\ \A k \in 1 .. Len(guard_queue) - 1 : guard_queue'[k] = guard_queue[k + 1]
  BY <1>1, <1>2 DEF PopItem, IInv, TypeOK, before, queued
<1>4. entry = 0 /\ entry' = before + 1 /\ before = executed /\ entry' <= queued
  <2>1. entry = 0 /\ before = executed
    BY DEF IInv, EntryHeld, InStep, Looping, PopItem
  <2>2. entry' = guard_queue[1]
    BY DEF PopItem, IInv, TypeOK
  <2>. QED
    BY <1>1, <1>2, <2>1, <2>2 DEF IInv, Suffix, before
<1>5. TypeOK'
  <2>1. guard_queue' \in Seq(1 .. queued')
    BY <1>2, <1>3 DEF PopItem, IInv, TypeOK
  <2>. QED
    BY <1>1, <1>3, <1>4, <2>1 DEF PopItem, IInv, TypeOK, stop_vars, queued
<1>6. Suffix'
  BY <1>1, <1>2, <1>3 DEF IInv, Suffix
<1>7. Pending'
  BY <1>1, <1>3, <1>4 DEF IInv, Pending, PopItem
<1>. QED
  BY <1>1, <1>3, <1>4, <1>5, <1>6, <1>7
     DEF IInv, EntryHeld, InStep, EntryIsNext, ReturnsLast, Looping, PopItem

LEMMA PopStopSignalKeeps ==
  ASSUME IInv, PopStopSignal
  PROVE  IInv'
<1>1. TypeOK'
  BY DEF IInv, TypeOK, PopStopSignal, stop_vars, queued
<1>. QED
  BY <1>1 DEF IInv, PopStopSignal, Suffix, before, queued, EntryHeld, InStep, EntryIsNext, Pending,
     ReturnsLast, Looping

LEMMA CheckStopKeeps ==
  ASSUME IInv, CheckStop
  PROVE  IInv'
<1>1. queued \in Nat /\ Len(guard_queue) \in Nat /\ before \in Nat
  BY Counts DEF IInv, Suffix
<1>2. CASE stop_requested /\ guard_queue = <<>> /\ Break({entry}) /\ entry' = 0 /\ thread' = "clear"
  <2>1. /\ future' \in Seq({"pending", "ready", "broken"})
        /\ queued' = queued
        /\ \A i \in 1 .. queued :
               future'[i] = "pending" <=> future[i] = "pending" /\ i \notin {entry}
    BY <1>2, BreakFutures DEF IInv
  <2>2. before' = before /\ guard_queue' = guard_queue /\ before = queued
    BY <1>1, <1>2, <2>1 DEF CheckStop, before
  <2>3. TypeOK'
    BY <1>1, <1>2, <2>1, <2>2 DEF CheckStop, IInv, TypeOK, stop_vars
  <2>4. Pending'
    BY <1>1, <1>2, <2>1, <2>2 DEF IInv, Pending
  <2>. QED
    BY <1>2, <2>1, <2>2, <2>3, <2>4
       DEF IInv, Suffix, EntryHeld, InStep, EntryIsNext, ReturnsLast, Looping, CheckStop
<1>3. CASE thread' = "run" /\ UNCHANGED <<future, entry>>
  <2>1. TypeOK'
    BY <1>3 DEF CheckStop, IInv, TypeOK, stop_vars, queued
  <2>. QED
    BY <1>3, <2>1 DEF IInv, CheckStop, Suffix, before, queued, EntryHeld, InStep, EntryIsNext,
       Pending, ReturnsLast, Looping
<1>. QED
  BY <1>2, <1>3 DEF CheckStop

LEMMA RunItemKeeps ==
  ASSUME IInv, RunItem
  PROVE  IInv'
<1>1. queued \in Nat /\ Len(guard_queue) \in Nat /\ before \in Nat
  BY Counts DEF IInv, Suffix
<1>2. entry # 0 /\ before = executed + 1 /\ entry = executed + 1 /\ entry \in 1 .. queued
  BY <1>1 DEF IInv, TypeOK, EntryHeld, InStep, EntryIsNext, Looping, RunItem
<1>3. /\ future' \in Seq({"pending", "ready", "broken"})
      /\ queued' = queued
      /\ \A i \in 1 .. queued :
             future'[i] = "pending" <=> future[i] = "pending" /\ i # entry
  <2>1. CASE Break({entry})
    BY <2>1, BreakFutures DEF IInv
  <2>2. CASE future' = [future EXCEPT ![entry] = "ready"]
    BY <1>1, <1>2, <2>2 DEF IInv, TypeOK, queued
  <2>. QED
    BY <2>1, <2>2 DEF RunItem
<1>4. before' = before /\ guard_queue' = guard_queue /\ entry' = 0 /\ executed' = entry
  BY <1>3 DEF RunItem, before
<1>5. TypeOK'
  BY <1>1, <1>2, <1>3, <1>4 DEF RunItem, IInv, TypeOK, stop_vars
<1>6. Pending'
  BY <1>1, <1>2, <1>3, <1>4 DEF IInv, Pending
<1>. QED
  BY <1>2, <1>3, <1>4, <1>5, <1>6
     DEF IInv, Suffix, EntryHeld, InStep, EntryIsNext, ReturnsLast, Looping, RunItem

\* The queue is emptied, by the thread on its way out or by the destructor.
LEMMA Emptied ==
  ASSUME IInv, guard_queue' = <<>>, Break(Items(guard_queue)), UNCHANGED <<entry, executed>>,
         thread \notin {"check", "run"},
         thread' \notin {"pop", "check", "run"}
  PROVE  /\ (Suffix /\ EntryHeld /\ InStep /\ EntryIsNext /\ Pending)'
         /\ guard_queue' \in Seq(1 .. queued')
         /\ future' \in Seq({"pending", "ready", "broken"}) /\ queued' = queued
<1>1. queued \in Nat /\ Len(guard_queue) \in Nat /\ before \in Nat
  BY Counts DEF IInv, Suffix
<1>2. /\ future' \in Seq({"pending", "ready", "broken"})
      /\ queued' = queued
      /\ \A i \in 1 .. queued :
             future'[i] = "pending" <=> future[i] = "pending" /\ i \notin Items(guard_queue)
  BY BreakFutures DEF IInv
<1>3. before' = queued /\ entry = 0 /\ entry' = 0
  BY <1>1, <1>2 DEF before, IInv, EntryHeld
<1>4. \A i \in 1 .. queued : i > before => i \in Items(guard_queue)
  <2>. SUFFICES ASSUME NEW i \in 1 .. queued, i > before PROVE i \in Items(guard_queue)
    OBVIOUS
  <2>1. i - before \in 1 .. Len(guard_queue) /\ guard_queue[i - before] = i
    BY <1>1 DEF IInv, Suffix, before
  <2>. QED
    BY <2>1 DEF Items
<1>5. Pending'
  BY <1>1, <1>2, <1>3, <1>4 DEF IInv, Pending
<1>. QED
  BY <1>1, <1>2, <1>3, <1>5 DEF Suffix, EntryHeld, InStep, EntryIsNext, IInv, Looping

LEMMA ClearKeeps ==
  ASSUME IInv, Clear
  PROVE  IInv'
<1>1. /\ (Suffix /\ EntryHeld /\ InStep /\ EntryIsNext /\ Pending)'
      /\ guard_queue' \in Seq(1 .. queued')
      /\ future' \in Seq({"pending", "ready", "broken"}) /\ queued' = queued
  BY Emptied DEF Clear
<1>2. TypeOK'
  BY <1>1 DEF IInv, TypeOK, Clear, stop_vars
<1>. QED
  BY <1>1, <1>2 DEF IInv, ReturnsLast, Clear

LEMMA UnblockKeeps ==
  ASSUME IInv, Unblock
  PROVE  IInv'
<1>1. TypeOK'
  BY DEF IInv, TypeOK, Unblock, queue, queued
<1>. QED
  BY <1>1 DEF IInv, Unblock, queue, Suffix, before, queued, EntryHeld, InStep, EntryIsNext, Pending,
     ReturnsLast, Looping

LEMMA WokenType ==
  ASSUME TypeOK
  PROVE  /\ Woken \in [Callers -> {"idle", "wakeup", "notify", "test", "block", "asleep", "woken",
                                   "join", "returned"}]
         /\ \A c \in Callers : Woken[c] = "returned" => pc[c] = "returned"
  BY DEF Woken, TypeOK

LEMMA NotifyWaitersKeeps ==
  ASSUME IInv, NotifyWaiters
  PROVE  IInv'
<1>1. TypeOK'
  BY WokenType DEF IInv, TypeOK, NotifyWaiters, queue, stop_vars, queued
<1>. QED
  BY <1>1 DEF IInv, NotifyWaiters, queue, Suffix, before, queued, EntryHeld, InStep, EntryIsNext,
     Pending, ReturnsLast, Looping

(* -- The callers ---------------------------------------------------------*)

LEMMA StopKeeps ==
  ASSUME IInv, NEW s \in Stoppers, RequestStop(s) \/ WakeupOnce(s) \/ NotifyStop(s)
  PROVE  IInv'
<1>1. UNCHANGED <<guard_queue, future, loop>> /\ s \in Callers
  BY DEF RequestStop, WakeupOnce, NotifyStop, queue, Callers
<1>2. TypeOK'
  BY <1>1, Kept, WokenType
     DEF IInv, TypeOK, RequestStop, WakeupOnce, NotifyStop, queue, stop_vars, Goto
<1>3. ReturnsLast'
  BY <1>1, WokenType
     DEF IInv, TypeOK, ReturnsLast, RequestStop, WakeupOnce, NotifyStop, loop, Goto
<1>. QED
  BY <1>1, <1>2, <1>3, Kept DEF IInv

LEMMA WaitKeeps ==
  ASSUME IInv, NEW w \in Waiters, LockStop(w) \/ TestStop(w) \/ Block(w)
  PROVE  IInv'
<1>1. UNCHANGED <<guard_queue, future, loop>> /\ w \in Callers
  BY DEF LockStop, TestStop, Block, queue, Callers
<1>2. TypeOK'
  BY <1>1, Kept DEF IInv, TypeOK, LockStop, TestStop, Block, queue, stop_vars, Goto
<1>3. ReturnsLast'
  BY <1>1 DEF IInv, TypeOK, ReturnsLast, LockStop, TestStop, Block, loop, Goto
<1>. QED
  BY <1>1, <1>2, <1>3, Kept DEF IInv

LEMMA JoinThreadKeeps ==
  ASSUME IInv, NEW c \in Callers, JoinThread(c)
  PROVE  IInv'
<1>1. UNCHANGED <<guard_queue, future, loop>>
  BY DEF JoinThread, queue
<1>2. TypeOK'
  BY <1>1, Kept DEF IInv, TypeOK, JoinThread, queue, Goto
<1>3. ReturnsLast'
  BY <1>1 DEF IInv, TypeOK, ReturnsLast, JoinThread, loop, Goto
<1>. QED
  BY <1>1, <1>2, <1>3, Kept DEF IInv

LEMMA DestroyKeeps ==
  ASSUME IInv, Destroy
  PROVE  IInv'
<1>1. /\ (Suffix /\ EntryHeld /\ InStep /\ EntryIsNext /\ Pending)'
      /\ guard_queue' \in Seq(1 .. queued')
      /\ future' \in Seq({"pending", "ready", "broken"}) /\ queued' = queued
  BY Emptied DEF Destroy
<1>2. TypeOK'
  BY <1>1 DEF IInv, TypeOK, Destroy, stop_vars
<1>. QED
  BY <1>1, <1>2 DEF IInv, ReturnsLast, Destroy

LEMMA StepKeeps == IInv /\ [Next]_vars => IInv'
<1>. SUFFICES ASSUME IInv, [Next]_vars PROVE IInv'
  OBVIOUS
<1>1. CASE ThreadLoop
  BY <1>1, PopItemKeeps, PopStopSignalKeeps, CheckStopKeeps, RunItemKeeps, ClearKeeps,
     UnblockKeeps, NotifyWaitersKeeps DEF ThreadLoop
<1>2. CASE \E s \in Stoppers : Stop(s)
  BY <1>2, StopKeeps, JoinThreadKeeps DEF Stop, Callers
<1>3. CASE \E w \in Waiters : Wait(w)
  BY <1>3, WaitKeeps, JoinThreadKeeps DEF Wait, Callers
<1>4. CASE UNCHANGED vars
  BY <1>4 DEF vars, queue, stop_vars, loop, IInv, TypeOK, Suffix, before, queued, EntryHeld, InStep,
     EntryIsNext, Pending, ReturnsLast, Looping
<1>. QED
  BY <1>1, <1>2, <1>3, <1>4, QueueItemKeeps, DestroyKeeps DEF Next

\* The inductive invariant holds, whoever stops, waits and queues.
THEOREM InvariantHolds == Spec => []IInv
  BY InitHolds, StepKeeps, PTL DEF Spec

\* Every variable keeps its type, whoever stops, waits and queues.
THEOREM TypeCorrect == Spec => []TypeOK
  BY InvariantHolds, PTL DEF IInv

LEMMA QueueIsItems ==
  ASSUME IInv
  PROVE  \A i \in 1 .. queued : i \in Items(guard_queue) <=> i > before
<1>1. queued \in Nat /\ Len(guard_queue) \in Nat /\ before \in Nat
  BY Counts DEF IInv, Suffix
<1>2. \A i \in 1 .. queued : i > before => i \in Items(guard_queue)
  <2>. SUFFICES ASSUME NEW i \in 1 .. queued, i > before PROVE i \in Items(guard_queue)
    OBVIOUS
  <2>1. i - before \in 1 .. Len(guard_queue) /\ guard_queue[i - before] = i
    BY <1>1 DEF IInv, Suffix, before
  <2>. QED
    BY <2>1 DEF Items
<1>3. \A i \in Items(guard_queue) : i > before
  BY <1>1 DEF IInv, Suffix, Items
<1>. QED
  BY <1>2, <1>3

\* A future is pending as long as its promise is in the queue or with the thread, and no
\* longer: pop, the dropped item, exceptions, clear and the destructor forget none.
THEOREM PendingHeld == Spec => []PendingIsHeld
<1>1. IInv => PendingIsHeld
  BY QueueIsItems DEF IInv, Pending, PendingIsHeld
<1>. QED
  BY <1>1, InvariantHolds, PTL

(* -- The refinement ------------------------------------------------------*)

LEMMA InitRefines == Init => Serial!Init
  BY DEF Init, Serial!Init, Quiet, queued, Callers

LEMMA StepRefines ==
  IInv /\ IInv' /\ [Next]_vars => [Serial!Next]_<<queued, executed, ~Quiet>>
<1>. SUFFICES ASSUME IInv, IInv', [Next]_vars,
                     <<queued, executed, ~Quiet>>' # <<queued, executed, ~Quiet>>
              PROVE  Serial!Next
  OBVIOUS
<1>1. CASE QueueItem
  BY <1>1 DEF QueueItem, IInv, TypeOK, queued, loop, Quiet, Serial!Next, Serial!QueueItem
<1>2. CASE RunItem
  <2>1. executed' = executed + 1 /\ executed < queued /\ UNCHANGED pc
    BY <1>2, Counts DEF RunItem, IInv, TypeOK, EntryHeld, EntryIsNext
  <2>2. queued' = queued
    BY <1>2, BreakFutures DEF RunItem, IInv, TypeOK, queued
  <2>3. ~Quiet
    BY <1>2 DEF RunItem, IInv, ReturnsLast, Quiet
  <2>. QED
    BY <2>1, <2>2, <2>3 DEF Quiet, Serial!Next, Serial!Execute
<1>3. CASE PopItem \/ PopStopSignal \/ CheckStop \/ Clear \/ Unblock \/ Destroy
  BY <1>3, BreakFutures DEF IInv, PopItem, PopStopSignal, CheckStop, Clear, Unblock, Destroy, queue,
     queued, Quiet
<1>4. CASE NotifyWaiters
  BY <1>4 DEF IInv, NotifyWaiters, ReturnsLast, queue, queued, Quiet, Woken, TypeOK
<1>5. CASE \E s \in Stoppers : RequestStop(s) \/ WakeupOnce(s) \/ NotifyStop(s)
  BY <1>5 DEF IInv, TypeOK, RequestStop, WakeupOnce, NotifyStop, Goto, Woken, queue, loop, queued,
     Quiet, Callers
<1>6. CASE \E w \in Waiters : LockStop(w) \/ TestStop(w) \/ Block(w)
  BY <1>6 DEF IInv, TypeOK, LockStop, TestStop, Block, Goto, queue, loop, queued, Quiet, Callers
<1>7. CASE \E c \in Callers : JoinThread(c)
  BY <1>7 DEF IInv, TypeOK, JoinThread, Goto, queue, loop, queued, Quiet, Serial!Next, Serial!Close
<1>8. CASE UNCHANGED vars
  BY <1>8 DEF vars, queue, loop, queued, Quiet
<1>. QED
  BY <1>1, <1>2, <1>3, <1>4, <1>5, <1>6, <1>7, <1>8
     DEF Next, ThreadLoop, Stop, Wait, Callers

\* The thread executes the items in their order, without a gap, and none after a stop or a
\* wait has returned, whatever the items return and whoever stops.
THEOREM RefinesSerialExecutor == Spec => ImplementsSerialExecutor
<1>1. Spec => [][IInv /\ IInv' /\ [Next]_vars]_vars
  BY InvariantHolds, PTL DEF Spec
<1>. QED
  BY InvariantHolds, InitRefines, StepRefines, PTL DEF Spec, Serial!Spec, ImplementsSerialExecutor
================================================================================
