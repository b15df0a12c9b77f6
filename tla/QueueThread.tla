------------------------------ MODULE QueueThread ------------------------------
(***************************************************************************)
(* The thread with a queue that GraphDriver, GraphWorker and SegmentRunner *)
(* are built on (gxf/std/gems/queue_thread/queue_thread.hpp): it executes  *)
(* one item after the other, each with a future for its result.            *)
(*                                                                         *)
(* GuardQueue is accessed under queue_mutex_, one access a step; the other *)
(* steps are the accesses to stop_requested_, stop_mutex_, stop_cv_ and    *)
(* the join.  Items are numbered in the order in which they are queued.    *)
(* Spurious wake-ups, and a stop by the thread itself, are left out.       *)
(***************************************************************************)
EXTENDS Integers, Sequences

CONSTANTS
    Stoppers,       \* the threads that call stop
    Waiters,        \* the threads that call wait
    None,           \* no thread
    MaxItems        \* the bound on the items queued

ASSUME CallersAssumption == Stoppers \cap Waiters = {} /\ None \notin Stoppers \union Waiters
ASSUME ItemsAssumption == MaxItems \in Nat

VARIABLES
    guard_queue,    \* guard_queue_: the items in it
    wakeup_once,    \* wakeup_once_
    future,         \* the state of the future of each item queued
    stop_requested, \* stop_requested_
    stop_mutex,     \* the waiter that has stop_mutex_
    joined,         \* joined_
    thread,         \* the next step of the thread
    entry,          \* the item it has popped, 0 for none
    executed,       \* the last item it has executed, 0 for none
    pc              \* the next step of each caller of stop or wait

queue == <<guard_queue, wakeup_once, future>>
stop_vars == <<stop_requested, stop_mutex, joined>>
loop == <<thread, entry, executed>>
vars == <<queue, stop_vars, loop, pc>>

Callers == Stoppers \union Waiters
queued == Len(future)

TypeOK ==
    /\ guard_queue \in Seq(1 .. queued)
    /\ wakeup_once \in BOOLEAN
    /\ future \in Seq({"pending", "ready", "broken"}) /\ queued <= MaxItems
    /\ stop_requested \in BOOLEAN
    /\ stop_mutex \in Waiters \union {None}
    /\ joined \in BOOLEAN
    /\ thread \in {"pop", "check", "run", "clear", "unblock", "notify", "gone", "destroyed"}
    /\ entry \in 0 .. queued /\ executed \in 0 .. queued
    /\ pc \in [Callers -> {"idle", "wakeup", "notify", "test", "block", "asleep", "woken", "join",
                          "returned"}]

Init ==
    /\ guard_queue = <<>> /\ wakeup_once = FALSE /\ future = <<>>
    /\ stop_requested = FALSE /\ stop_mutex = None /\ joined = FALSE
    /\ thread = "pop" /\ entry = 0 /\ executed = 0
    /\ pc = [c \in Callers |-> "idle"]

Goto(c, step) == pc' = [pc EXCEPT ![c] = step]

\* The promises that are destroyed unanswered break their futures.
Break(items) ==
    future' = [i \in 1 .. queued |-> IF i \in items THEN "broken" ELSE future[i]]

Items(q) == {q[k] : k \in 1 .. Len(q)}

\* stop_cv_.notify_all(), by a caller that goes on with step.
Woken == [c \in Callers |-> IF pc[c] = "asleep" THEN "woken" ELSE pc[c]]

(* -- The queue -----------------------------------------------------------*)

QueueItem ==
    /\ thread # "destroyed" /\ queued < MaxItems
    /\ guard_queue' = Append(guard_queue, queued + 1)
    /\ future' = Append(future, "pending")
    /\ UNCHANGED <<wakeup_once, stop_vars, loop, pc>>

(* -- The thread ----------------------------------------------------------*)

\* As PopItem, the last item first.
PopLastItem ==
    /\ thread = "pop" /\ ~wakeup_once /\ guard_queue # <<>>
    /\ entry' = guard_queue[Len(guard_queue)]
    /\ guard_queue' = SubSeq(guard_queue, 1, Len(guard_queue) - 1)
    /\ thread' = "check"
    /\ UNCHANGED <<wakeup_once, future, stop_vars, executed, pc>>

PopItem ==
    /\ thread = "pop" /\ ~wakeup_once /\ guard_queue # <<>>
    /\ entry' = Head(guard_queue)
    /\ guard_queue' = Tail(guard_queue)
    /\ thread' = "check"
    /\ UNCHANGED <<wakeup_once, future, stop_vars, executed, pc>>

\* The stop signal comes before the items that are queued: the thread returns.
PopStopSignal ==
    /\ thread = "pop" /\ wakeup_once
    /\ wakeup_once' = FALSE
    /\ thread' = "gone"
    /\ UNCHANGED <<guard_queue, future, stop_vars, entry, executed, pc>>

\* As CheckStop, the item dropped with its promise kept.
CheckStopKeepingPromise ==
    /\ thread = "check"
    /\ \/ /\ stop_requested /\ guard_queue = <<>>
          /\ entry' = 0
          /\ thread' = "clear"
          /\ UNCHANGED future
       \/ /\ ~stop_requested \/ guard_queue # <<>>
          /\ thread' = "run"
          /\ UNCHANGED <<future, entry>>
    /\ UNCHANGED <<guard_queue, wakeup_once, stop_vars, executed, pc>>

\* The last item is dropped once a stop was requested.
CheckStop ==
    /\ thread = "check"
    /\ \/ /\ stop_requested /\ guard_queue = <<>>
          /\ Break({entry}) /\ entry' = 0
          /\ thread' = "clear"
       \/ /\ ~stop_requested \/ guard_queue # <<>>
          /\ thread' = "run"
          /\ UNCHANGED <<future, entry>>
    /\ UNCHANGED <<guard_queue, wakeup_once, stop_vars, executed, pc>>

\* run_function_ returns true, or false, which ends the loop, or throws.
RunItem ==
    /\ thread = "run"
    /\ \/ /\ future' = [future EXCEPT ![entry] = "ready"]
          /\ thread' \in {"pop", "clear"}
       \/ /\ Break({entry})
          /\ thread' = "pop"
    /\ executed' = entry /\ entry' = 0
    /\ UNCHANGED <<guard_queue, wakeup_once, stop_vars, pc>>

Clear ==
    /\ thread = "clear"
    /\ guard_queue' = <<>> /\ wakeup_once' = FALSE
    /\ Break(Items(guard_queue))
    /\ thread' = "unblock"
    /\ UNCHANGED <<stop_vars, entry, executed, pc>>

\* Without stop_mutex_.
Unblock ==
    /\ thread = "unblock"
    /\ stop_requested' = TRUE
    /\ thread' = "notify"
    /\ UNCHANGED <<queue, stop_mutex, joined, entry, executed, pc>>

NotifyWaiters ==
    /\ thread = "notify"
    /\ thread' = "gone"
    /\ pc' = Woken
    /\ UNCHANGED <<queue, stop_vars, entry, executed>>

ThreadLoop ==
    PopItem \/ PopStopSignal \/ CheckStop \/ RunItem \/ Clear \/ Unblock \/ NotifyWaiters

(* -- stop ----------------------------------------------------------------*)

RequestStop(s) ==
    /\ pc[s] = "idle" /\ thread # "destroyed"
    /\ stop_mutex = None
    /\ stop_requested' = TRUE
    /\ Goto(s, "wakeup")
    /\ UNCHANGED <<queue, stop_mutex, joined, loop>>

\* As WakeupOnce, after the thread has been told that items are there.
WakeupEmpty(s) ==
    /\ pc[s] = "wakeup"
    /\ wakeup_once' = (guard_queue = <<>> /\ thread # "run")
    /\ Goto(s, "notify")
    /\ UNCHANGED <<guard_queue, future, stop_vars, loop>>

WakeupOnce(s) ==
    /\ pc[s] = "wakeup"
    /\ wakeup_once' = TRUE
    /\ Goto(s, "notify")
    /\ UNCHANGED <<guard_queue, future, stop_vars, loop>>

NotifyStop(s) ==
    /\ pc[s] = "notify"
    /\ pc' = [Woken EXCEPT ![s] = "join"]
    /\ UNCHANGED <<queue, stop_vars, loop>>

\* One caller joins the thread under join_mutex_, the others wait for it; a waiter has
\* stop_mutex_ until then.
JoinThread(c) ==
    /\ pc[c] = "join" /\ thread = "gone"
    /\ joined' = TRUE
    /\ stop_mutex' = IF stop_mutex = c THEN None ELSE stop_mutex
    /\ Goto(c, "returned")
    /\ UNCHANGED <<queue, stop_requested, loop>>

Stop(s) == RequestStop(s) \/ WakeupOnce(s) \/ NotifyStop(s) \/ JoinThread(s)

(* -- wait ----------------------------------------------------------------*)

LockStop(w) ==
    /\ pc[w] \in {"idle", "woken"} /\ thread # "destroyed"
    /\ stop_mutex = None
    /\ stop_mutex' = w
    /\ Goto(w, "test")
    /\ UNCHANGED <<queue, stop_requested, joined, loop>>

TestStop(w) ==
    /\ pc[w] = "test"
    /\ Goto(w, IF stop_requested /\ guard_queue = <<>> THEN "join" ELSE "block")
    /\ UNCHANGED <<queue, stop_vars, loop>>

\* It falls asleep and releases stop_mutex_ at the same time.
Block(w) ==
    /\ pc[w] = "block"
    /\ stop_mutex' = None
    /\ Goto(w, "asleep")
    /\ UNCHANGED <<queue, stop_requested, joined, loop>>

Wait(w) == LockStop(w) \/ TestStop(w) \/ Block(w) \/ JoinThread(w)

\* The destructor of a thread that was joined: no caller is inside stop or wait.
Destroy ==
    /\ thread = "gone" /\ joined
    /\ \A c \in Callers : pc[c] \in {"idle", "returned"}
    /\ guard_queue' = <<>> /\ wakeup_once' = FALSE
    /\ Break(Items(guard_queue))
    /\ thread' = "destroyed"
    /\ UNCHANGED <<stop_vars, entry, executed, pc>>

Next ==
    \/ QueueItem \/ ThreadLoop \/ Destroy
    \/ \E s \in Stoppers : Stop(s)
    \/ \E w \in Waiters : Wait(w)

Spec == Init /\ [][Next]_vars

\* run_function_ returns, a call that was begun goes on, and no thread is starved.
Fairness ==
    /\ WF_vars(ThreadLoop)
    /\ \A s \in Stoppers : WF_vars(pc[s] # "idle" /\ Stop(s))
    /\ \A w \in Waiters : WF_vars(pc[w] # "idle" /\ Wait(w))

FairSpec == Spec /\ Fairness

(* -- Properties ----------------------------------------------------------*)

Quiet == \E c \in Callers : pc[c] = "returned"

\* Items are executed one after the other, in order and without a gap, whatever they return
\* and whoever stops; none is executed after a stop or a wait has returned.
Serial == INSTANCE SerialExecutor WITH open <- ~Quiet
ImplementsSerialExecutor == Serial!Spec

\* No future is forgotten: one that is neither ready nor broken has its promise in the queue
\* or with the thread.
PendingIsHeld ==
    \A i \in 1 .. queued :
        future[i] = "pending" <=> i \in Items(guard_queue) \union {entry}

\* Every stop returns, with items in the queue, other stops and waiters.
StopReturns == \A s \in Stoppers : pc[s] = "wakeup" ~> pc[s] = "returned"

\* The README says that no thread that enters wait after stop has finished blocks for ever.
WaitReturns ==
    \A w \in Waiters : (\E s \in Stoppers : pc[s] = "returned") /\ pc[w] = "test" ~> pc[w] = "returned"
================================================================================
