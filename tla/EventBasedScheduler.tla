-------------------------- MODULE EventBasedScheduler --------------------------
(***************************************************************************)
(* The event-based scheduler (gxf/std/event_based_scheduler.cpp): one      *)
(* dispatcher thread that moves entities between the lists, one async      *)
(* thread that does the same on external events, worker threads that       *)
(* execute entities, the thread that creates them, and the threads that    *)
(* may stop it all.                                                        *)
(*                                                                         *)
(* Every access to an atomic, to a list with a mutex of its own or to a    *)
(* field under a lock is a step; pc[t] names the next one of thread t.     *)
(* The model starts when runAsync_abi has created the dispatcher thread;   *)
(* it goes on to create the others while those before run.                 *)
(*                                                                         *)
(* Abstractions: all entities share one queue (the default pool), a queue  *)
(* is the set of its jobs and a worker takes any of them, so WAIT_TIME,    *)
(* which takes the branches of READY, is not told apart from it; waiting_, *)
(* a list that nothing reads, is left out.                                 *)
(***************************************************************************)
EXTENDS Integers, Sequences, FiniteSets

CONSTANTS
    Entities,       \* the scheduled entities
    Workers,        \* the worker threads
    Stoppers,       \* of "stop_abi" and "max_duration": who may stop the run
    Null,           \* kNullUid
    MaxTicks,       \* bound: executions after which the term of each entity is NEVER
    StopOnDeadlock, \* values of the parameter stop_on_deadlock
    CanFail,        \* of "check" and "execute": calls of the executor that may fail
    Unschedulable   \* entities unschedule_abi may be called for

ASSUME NullAssumption == Null \notin Entities
ASSUME StopperAssumption == Stoppers \subseteq {"stop_abi", "max_duration"}
ASSUME WorkerAssumption ==
    Workers \cap {"dispatcher", "async", "runAsync_abi", "stop_abi", "max_duration"} = {}
ASSUME DeadlockAssumption == StopOnDeadlock \subseteq BOOLEAN
ASSUME TicksAssumption == MaxTicks \in [Entities -> Nat]
ASSUME FiniteAssumption == IsFiniteSet(Workers)

VARIABLES
    stop_on_deadlock,  \* stop_on_deadlock_
    state,             \* state_
    joining,           \* the threads in async_threads_ when stopAllThreads() reads it
    ready,             \* items_ of ready_wait_time_jobs_
    ready_running,     \* is_running_ of ready_wait_time_jobs_
    internal,          \* internal_event_notified_
    external,          \* external_event_notified_
    event_waiting,     \* event_waiting_
    running_threads,   \* running_threads_, an atomic uint8_t
    acquired,          \* entities whose ownership_ is kAcquired
    present,           \* entities with is_present_in_ready_queue_
    condition,         \* condition_.type of each entity
    unschedule,        \* entities with unschedule_
    term,              \* what the scheduling terms of each entity say
    ticks,             \* executions of each entity so far
    target,            \* the entity a worker's tick has made ready, if any
    arrived,           \* external events that have happened but are not notified
    exited,            \* the process has called std::exit
    pc,                \* the next step of each thread
    job,               \* the eid a thread is working on
    next               \* the condition a thread is about to apply

run == <<stop_on_deadlock, state, joining>>
queue == <<ready, ready_running>>
lists == <<internal, external, event_waiting>>
flags == <<acquired, present, condition, unschedule>>
terms == <<term, ticks, target, arrived>>
threads == <<pc, job, next>>
vars == <<run, queue, lists, running_threads, flags, terms, exited, threads>>

Dispatcher == "dispatcher"
Async == "async"
Dispatchers == {Dispatcher, Async}
Starter == "runAsync_abi"
Threads == Workers \cup Dispatchers \cup Stoppers \cup {Starter}

Conditions == {"READY", "WAIT", "WAIT_EVENT", "NEVER"}

\* A thread that sleeps on its condition variable looks at the predicate again.
Woken(p, t) == IF p[t] = "sleep" THEN [p EXCEPT ![t] = "wait"] ELSE p

\* UniqueEventList: hasEvent, pushEvent, and removeEvent.
Has(list, x) == \E i \in DOMAIN list : list[i] = x
Pushed(list, x) == IF Has(list, x) THEN list ELSE Append(list, x)
Removed(list, x) ==
    IF Has(list, x)
    THEN LET i == CHOOSE i \in DOMAIN list : list[i] = x
         IN  SubSeq(list, 1, i - 1) \o SubSeq(list, i + 1, Len(list))
    ELSE list

Goto(t, label) == pc' = [pc EXCEPT ![t] = label]

\* A step of t that only moves it to another label.
Jump(t, from, to) ==
    /\ pc[t] = from
    /\ Goto(t, to)
    /\ UNCHANGED <<run, queue, lists, running_threads, flags, terms, exited, job,
                   next>>

\* The thread is done with its entity.
Forget(t) ==
    /\ job' = [job EXCEPT ![t] = Null]
    /\ next' = [next EXCEPT ![t] = "READY"]

\* notifyDispatcher(e), called by t, which goes on at `label'.
NotifyDispatcher(t, e, label) ==
    /\ internal' = Pushed(internal, e)
    /\ pc' = Woken([pc EXCEPT ![t] = label], Dispatcher)

\* schedule_abi has run for every entity, runAsync_abi up to the dispatcher thread.
Init ==
    /\ stop_on_deadlock \in StopOnDeadlock
    /\ state = "kRunning"
    /\ joining = {}
    /\ ready = Entities
    /\ ready_running = TRUE
    /\ internal = <<>>
    /\ external = <<>>
    /\ event_waiting = {}
    /\ running_threads = 0
    /\ acquired = {}
    /\ present = Entities
    /\ condition = [e \in Entities |-> "READY"]
    /\ unschedule = {}
    /\ term = [e \in Entities |-> "READY"]
    /\ ticks = [e \in Entities |-> 0]
    /\ target = [w \in Workers |-> Null]
    /\ arrived = {}
    /\ exited = FALSE
    /\ pc = [t \in Threads |->
                CASE t = Dispatcher -> "loop"
                  [] t = Starter -> "startAsync"
                  [] t = "stop_abi" -> "dormant"
                  [] OTHER -> "unborn"]
    /\ job = [t \in Threads |-> Null]
    /\ next = [t \in Threads |-> "READY"]

-------------------------------------------------------------------------------
(* runAsync_abi(): the threads run from the moment they are created.       *)

StartAsync ==
    /\ pc[Starter] = "startAsync" /\ pc[Async] = "unborn"
    /\ pc' = [pc EXCEPT ![Starter] = "startWorkers", ![Async] = "loop"]
    /\ UNCHANGED <<run, queue, lists, running_threads, flags, terms, exited, job, next>>

StartWorker(w) ==
    /\ pc[Starter] = "startWorkers" /\ pc[w] = "unborn"
    /\ pc' = [pc EXCEPT ![Starter] = "addRunning", ![w] = "idle"]
    /\ UNCHANGED <<run, queue, lists, running_threads, flags, terms, exited, job, next>>

\* Mutant: the worker that was created is not counted.
AddRunningNot == Jump(Starter, "addRunning", "startWorkers")

\* The worker is counted when it may already wait for a job, or have one.
AddRunning ==
    /\ pc[Starter] = "addRunning"
    /\ running_threads' = (running_threads + 1) % 256
    /\ Goto(Starter, "startWorkers")
    /\ UNCHANGED <<run, queue, lists, flags, terms, exited, job, next>>

\* The last thread is the one of max_duration_ms.
StartTimer ==
    /\ pc[Starter] = "startWorkers" /\ \A w \in Workers : pc[w] # "unborn"
    /\ pc' = [t \in Threads |-> IF t = Starter THEN "gone"
                                ELSE IF t = "max_duration" THEN "dormant" ELSE pc[t]]
    /\ UNCHANGED <<run, queue, lists, running_threads, flags, terms, exited, job, next>>

Start ==
    \/ StartAsync \/ AddRunning \/ StartTimer
    \/ \E w \in Workers : StartWorker(w)

-------------------------------------------------------------------------------
(* stopAllJobs(), called by workers, dispatchers and stoppers.             *)

\* Where the caller goes on: a worker after a failed execution, a dispatcher
\* after a failed check (it still has its job) or after a deadlock.
AfterStop(t) ==
    CASE t \in Workers -> "fail"
      [] t \in Stoppers -> "tell"
      [] OTHER -> IF job[t] # Null THEN "drain" ELSE "loop"

StopState(t) ==
    /\ pc[t] = "stopState"
    /\ state' = "kStopping"
    /\ Goto(t, "stopQueue")
    /\ UNCHANGED <<stop_on_deadlock, joining, queue, lists, running_threads, flags, terms,
                   exited, job, next>>

\* TimedJobList::stop(): no worker gets a job any more.
StopQueue(t) ==
    /\ pc[t] = "stopQueue"
    /\ ready_running' = FALSE
    /\ Goto(t, "flush")
    /\ UNCHANGED <<run, ready, lists, running_threads, flags, terms, exited, job,
                   next>>

\* The two lists are cleared and the async thread is woken.
Flush(t) ==
    /\ pc[t] = "flush"
    /\ external' = <<>>
    /\ event_waiting' = {}
    /\ pc' = Woken([pc EXCEPT ![t] = AfterStop(t)], Async)
    /\ Forget(t)
    /\ UNCHANGED <<run, queue, internal, running_threads, flags, terms, exited>>

StopAllJobs(t) == StopState(t) \/ StopQueue(t) \/ Flush(t)

-------------------------------------------------------------------------------
(* updateCondition(job[t], next[t]), called by dispatchers and workers.    *)

AfterUpdate(t) ==
    CASE t \in Workers -> "idle"
      [] t = Async /\ stop_on_deadlock -> "loadRunning"
      [] OTHER -> "drain"

\* The entity leaves the list of its previous condition.
LeaveCondition(t) ==
    LET e == job[t] IN
    /\ pc[t] = "update"
    /\ event_waiting' = IF condition[e] = "WAIT_EVENT" /\ next[t] # "WAIT_EVENT"
                        THEN event_waiting \ {e} ELSE event_waiting
    /\ condition' = [condition EXCEPT ![e] = next[t]]
    /\ Goto(t, "place")
    /\ UNCHANGED <<run, queue, internal, external, running_threads, acquired,
                   present, unschedule, terms, exited, job, next>>

\* Mutant: the entity is marked present whatever its condition is.
EnterConditionMarkingAll(t) ==
    LET e == job[t] IN
    /\ pc[t] = "place"
    /\ ready' = IF next[t] = "READY" THEN ready \cup {e} ELSE ready
    /\ present' = present \cup {e}
    /\ Goto(t, AfterUpdate(t))
    /\ Forget(t)
    /\ UNCHANGED <<run, ready_running, lists, running_threads, acquired,
                   condition, unschedule, terms, exited>>

\* The entity enters the list of its new condition.
EnterCondition(t) ==
    LET e == job[t] IN
    /\ pc[t] = "place"
    /\ \/ /\ next[t] = "READY"
          /\ ready' = ready \cup {e}
          /\ present' = present \cup {e}
          /\ UNCHANGED <<internal, event_waiting>>
       \/ /\ next[t] = "WAIT_EVENT"
          /\ event_waiting' = event_waiting \cup {e}
          /\ UNCHANGED <<ready, present, internal>>
       \/ /\ next[t] = "NEVER"
          /\ internal' = Removed(internal, e)
          /\ UNCHANGED <<ready, present, event_waiting>>
       \/ /\ next[t] = "WAIT"
          /\ UNCHANGED <<ready, present, internal, event_waiting>>
    /\ Goto(t, AfterUpdate(t))
    /\ Forget(t)
    /\ UNCHANGED <<run, ready_running, external, running_threads, acquired,
                   condition, unschedule, terms, exited>>

UpdateCondition(t) == LeaveCondition(t) \/ EnterCondition(t)

-------------------------------------------------------------------------------
(* workerThreadEntrance()                                                  *)

Idle(w) ==
    /\ pc[w] = "idle"
    /\ running_threads' = (running_threads - 1) % 256
    /\ Goto(w, "waitForJob")
    /\ UNCHANGED <<run, queue, lists, flags, terms, exited, job, next>>

\* waitForJob(): blocks until there is a job or the queue has been stopped.
TakeJob(w) ==
    /\ pc[w] = "waitForJob"
    /\ ready_running
    /\ \E e \in ready :
          /\ ready' = ready \ {e}
          /\ job' = [job EXCEPT ![w] = e]
    /\ Goto(w, "clear")
    /\ UNCHANGED <<run, ready_running, lists, running_threads, flags, terms,
                   exited, next>>

NoMoreJobs(w) == ~ready_running /\ Jump(w, "waitForJob", "gone")

\* Mutant: the flag is never cleared.
ClearPresentNever(w) == Jump(w, "clear", "count")

ClearPresent(w) ==
    /\ pc[w] = "clear"
    /\ present' = present \ {job[w]}
    /\ Goto(w, "count")
    /\ UNCHANGED <<run, queue, lists, running_threads, acquired, condition,
                   unschedule, terms, exited, job, next>>

CountRunning(w) ==
    /\ pc[w] = "count"
    /\ running_threads' = (running_threads + 1) % 256
    /\ Goto(w, "acquire")
    /\ UNCHANGED <<run, queue, lists, flags, terms, exited, job, next>>

\* Mutant: the worker does not look whether the entity is free.
AcquireAlways(w) ==
    /\ pc[w] = "acquire"
    /\ acquired' = acquired \cup {job[w]}
    /\ Goto(w, "execute")
    /\ UNCHANGED <<run, queue, lists, running_threads, present, condition,
                   unschedule, terms, exited, job, next>>

\* tryToAcquire()
Acquire(w) ==
    /\ pc[w] = "acquire"
    /\ job[w] \notin acquired
    /\ acquired' = acquired \cup {job[w]}
    /\ Goto(w, "execute")
    /\ UNCHANGED <<run, queue, lists, running_threads, present, condition,
                   unschedule, terms, exited, job, next>>

\* Another worker has acquired the entity: drop it.
DropJob(w) ==
    /\ pc[w] = "acquire"
    /\ job[w] \in acquired
    /\ Goto(w, "idle")
    /\ Forget(w)
    /\ UNCHANGED <<run, queue, lists, running_threads, flags, terms, exited>>

\* A pending request to unschedule: the entity is never released.
ExecuteUnscheduled(w) ==
    /\ pc[w] = "execute"
    /\ job[w] \in unschedule
    /\ next' = [next EXCEPT ![w] = "NEVER"]
    /\ Goto(w, "update")
    /\ UNCHANGED <<run, queue, lists, running_threads, flags, terms, exited, job>>

\* executeEntity(): checks the terms again and ticks only a READY entity.
Execute(w) ==
    /\ job[w] \notin unschedule
    /\ Jump(w, "execute", IF term[job[w]] = "READY" THEN "tick" ELSE "release")

\* tick(): the terms say something new of this entity, and of an entity that
\* was waiting for a message of this one.
Tick(w) ==
    LET e == job[w] IN
    /\ pc[w] = "tick"
    /\ ticks' = [ticks EXCEPT ![e] = @ + 1]
    /\ \E mine \in IF ticks[e] + 1 < MaxTicks[e]
                   THEN Conditions \ {"NEVER"} ELSE {"NEVER"},
          f \in {x \in Entities \ {e} : term[x] = "WAIT"} \cup {Null} :
          /\ term' = [x \in Entities |-> IF x = e THEN mine
                                         ELSE IF x = f THEN "READY" ELSE term[x]]
          /\ target' = [target EXCEPT ![w] = f]
    /\ Goto(w, "notify")
    /\ UNCHANGED <<run, queue, lists, running_threads, flags, arrived, exited, job,
                   next>>

\* The tick fails: the error stops the scheduler.
TickFails(w) == "execute" \in CanFail /\ Jump(w, "tick", "stopState")

\* The end of the tick: the router notifies the scheduler of the entity whose
\* inbox has changed.
NotifyTarget(w) ==
    /\ pc[w] = "notify"
    /\ IF target[w] = Null
       THEN Goto(w, "release") /\ UNCHANGED internal
       ELSE NotifyDispatcher(w, target[w], "release")
    /\ target' = [target EXCEPT ![w] = Null]
    /\ UNCHANGED <<run, queue, external, event_waiting, running_threads, flags,
                   term, ticks, arrived, exited, job, next>>

\* releaseOwnership()
Release(w) ==
    /\ pc[w] = "release"
    /\ acquired' = acquired \ {job[w]}
    /\ Goto(w, "report")
    /\ UNCHANGED <<run, queue, lists, running_threads, present, condition,
                   unschedule, terms, exited, job, next>>

Report(w) == Jump(w, "report", IF state = "kRunning" THEN "push" ELSE "done")

\* Mutant: the event is pushed but the dispatcher is not woken.
ReportJobSilently(w) ==
    /\ pc[w] = "push"
    /\ internal' = Pushed(internal, job[w])
    /\ Goto(w, "idle")
    /\ Forget(w)
    /\ UNCHANGED <<run, queue, external, event_waiting, running_threads, flags,
                   terms, exited>>

ReportJob(w) ==
    /\ pc[w] = "push"
    /\ NotifyDispatcher(w, job[w], "idle")
    /\ Forget(w)
    /\ UNCHANGED <<run, queue, external, event_waiting, running_threads, flags,
                   terms, exited>>

\* work_done_cv_.notify_one()
ReportDone(w) ==
    /\ pc[w] = "done"
    /\ pc' = [t \in Threads |->
                IF t = w THEN "idle"
                ELSE IF pc[t] = "drainedSleep" THEN "drained" ELSE pc[t]]
    /\ Forget(w)
    /\ UNCHANGED <<run, queue, lists, running_threads, flags, terms, exited>>

ReportFailure(w) ==
    /\ pc[w] = "fail"
    /\ NotifyDispatcher(w, Null, "discount")
    /\ UNCHANGED <<run, queue, external, event_waiting, running_threads, flags,
                   terms, exited, job, next>>

\* Mutant: the worker does not count itself out.
GoneAfterFailureCounted(w) == Jump(w, "discount", "gone")

GoneAfterFailure(w) ==
    /\ pc[w] = "discount"
    /\ running_threads' = (running_threads - 1) % 256
    /\ Goto(w, "gone")
    /\ UNCHANGED <<run, queue, lists, flags, terms, exited, job, next>>

Worker(w) ==
    \/ Idle(w) \/ TakeJob(w) \/ NoMoreJobs(w) \/ ClearPresent(w)
    \/ CountRunning(w) \/ Acquire(w) \/ DropJob(w) \/ ExecuteUnscheduled(w)
    \/ Execute(w) \/ Tick(w) \/ TickFails(w) \/ NotifyTarget(w) \/ Release(w)
    \/ Report(w) \/ ReportJob(w) \/ ReportDone(w) \/ ReportFailure(w)
    \/ GoneAfterFailure(w) \/ UpdateCondition(w) \/ StopAllJobs(w)

-------------------------------------------------------------------------------
(* dispatcherThreadEntrance() and asyncEventThreadEntrance(): the same     *)
(* loop over the notifications of two lists.                               *)

Notified(t) == IF t = Dispatcher THEN internal ELSE external

\* isEntityBusy(): the entity's status is TICK_PENDING or TICKING.
Busy(e) == \E w \in Workers : job[w] = e /\ pc[w] \in {"tick", "notify"}

Loop(t) ==
    Jump(t, "loop", IF state = "kRunning" THEN "drain"
                    ELSE IF t = Dispatcher THEN "join" ELSE "gone")

\* The inner loop: while the list is not empty ...
Drain(t) ==
    Jump(t, "drain", IF Notified(t) # <<>> THEN "pop"
                     ELSE IF t = Dispatcher /\ stop_on_deadlock
                          THEN "loadRunning" ELSE "wait")

\* ... pop its first event.
Pop(t) ==
    /\ pc[t] = "pop"
    /\ Notified(t) # <<>>
    /\ LET e == Head(Notified(t)) IN
       /\ job' = [job EXCEPT ![t] = e]
       /\ Goto(t, IF e = Null THEN "drain" ELSE "busy")
    /\ IF t = Dispatcher
       THEN internal' = Tail(internal) /\ UNCHANGED external
       ELSE external' = Tail(external) /\ UNCHANGED internal
    /\ UNCHANGED <<run, queue, event_waiting, running_threads, flags, terms,
                   exited, next>>

\* The list has become empty since the loop looked: value() of the error that
\* popEvent returns is an assertion failure, which exits the process.
PopNothing(t) ==
    /\ pc[t] = "pop"
    /\ Notified(t) = <<>>
    /\ exited' = TRUE
    /\ UNCHANGED <<run, queue, lists, running_threads, flags, terms, threads>>

\* A busy or queued entity is left alone.
DropNotification(t) ==
    /\ \/ pc[t] = "busy" /\ Busy(job[t])
       \/ pc[t] = "present" /\ job[t] \in present
    /\ Goto(t, "drain")
    /\ Forget(t)
    /\ UNCHANGED <<run, queue, lists, running_threads, flags, terms, exited>>

NotBusy(t) == ~Busy(job[t]) /\ Jump(t, "busy", "present")
NotPresent(t) == job[t] \notin present /\ Jump(t, "present", "check")

\* dispatchEntity(): what the terms of the entity say now.
Check(t) ==
    /\ pc[t] = "check"
    /\ next' = [next EXCEPT ![t] = IF job[t] \in unschedule THEN "NEVER"
                                   ELSE term[job[t]]]
    /\ Goto(t, "update")
    /\ UNCHANGED <<run, queue, lists, running_threads, flags, terms, exited, job>>

CheckFails(t) ==
    /\ "check" \in CanFail
    /\ job[t] \notin unschedule
    /\ Jump(t, "check", "stopState")

\* wait(): on the condition variable of the list.
Wait(t) ==
    Jump(t, "wait", IF Notified(t) # <<>> \/ state # "kRunning"
                    THEN "loop" ELSE "sleep")

-------------------------------------------------------------------------------
(* checkEndingCriteria(): running_threads_ is loaded first, then state_    *)
(* and the lists are read; the first that says no decides.                 *)

\* Where the criteria lead: the dispatcher asks twice, the second time after
\* stop_on_deadlock_timeout; the async thread asks once and tells the
\* dispatcher.
Holds(t) ==
    IF t = Async THEN "reportDeadlock"
    ELSE IF pc[t] = "readWaiting" THEN "timedWait" ELSE "kStopping"
Fails(t) ==
    IF t = Async THEN "drain"
    ELSE IF pc[t] \in {"loadRunning", "readReady", "readWaiting"} THEN "wait"
    ELSE "loop"

LoadRunning(t) ==
    \/ Jump(t, "loadRunning", IF running_threads = 0 THEN "readReady" ELSE Fails(t))
    \/ Jump(t, "loadRunning2", IF running_threads = 0 THEN "readReady2" ELSE Fails(t))

ReadReady(t) ==
    LET holds == state = "kRunning" /\ ready = {} IN
    \/ Jump(t, "readReady", IF holds THEN "readWaiting" ELSE Fails(t))
    \/ Jump(t, "readReady2", IF holds THEN "readWaiting2" ELSE Fails(t))

ReadWaiting(t) ==
    \/ Jump(t, "readWaiting", IF event_waiting = {} THEN Holds(t) ELSE Fails(t))
    \/ Jump(t, "readWaiting2", IF event_waiting = {} THEN Holds(t) ELSE Fails(t))

CheckEndingCriteria(t) == LoadRunning(t) \/ ReadReady(t) \/ ReadWaiting(t)

\* wait_for(): an event or a change of state ends it; else it times out.
TimedWait ==
    Jump(Dispatcher, "timedWait",
         IF internal # <<>> \/ state # "kRunning" THEN "loop" ELSE "loadRunning2")

\* The deadlock is believed: no more work, but the jobs in the queue are done.
DeadlockStop ==
    /\ pc[Dispatcher] = "kStopping"
    /\ state' = "kStopping"
    /\ Goto(Dispatcher, "drained")
    /\ UNCHANGED <<stop_on_deadlock, joining, queue, lists, running_threads, flags, terms,
                   exited, job, next>>

\* work_done_cv_.wait()
Drained ==
    Jump(Dispatcher, "drained", IF ready = {} THEN "stopState" ELSE "drainedSleep")

\* stopAllThreads(): the loop over async_threads_ takes the threads created so far ...
BeginJoin ==
    /\ pc[Dispatcher] = "join"
    /\ joining' = {t \in Workers \cup {Async} : pc[t] # "unborn"}
    /\ Goto(Dispatcher, "joining")
    /\ UNCHANGED <<stop_on_deadlock, state, queue, lists, running_threads, flags, terms,
                   exited, job, next>>

\* ... joins them ...
Join ==
    /\ \A t \in joining : pc[t] = "gone"
    /\ Jump(Dispatcher, "joining", "joinTimer")

\* ... and the max duration thread, if that can be joined; the entities are deactivated.
Stopped ==
    /\ pc[Dispatcher] = "joinTimer"
    /\ "max_duration" \in Stoppers => pc["max_duration"] \in {"gone", "unborn"}
    /\ state' = "kStopped"
    /\ Goto(Dispatcher, "gone")
    /\ UNCHANGED <<stop_on_deadlock, joining, queue, lists, running_threads, flags, terms,
                   exited, job, next>>

\* dispatchEntityAsync() tells the dispatcher of a deadlock.
ReportDeadlock ==
    /\ pc[Async] = "reportDeadlock"
    /\ NotifyDispatcher(Async, Null, "drain")
    /\ UNCHANGED <<run, queue, external, event_waiting, running_threads, flags,
                   terms, exited, job, next>>

Dispatch(t) ==
    \/ Loop(t) \/ Drain(t) \/ Pop(t) \/ PopNothing(t) \/ DropNotification(t)
    \/ NotBusy(t) \/ NotPresent(t) \/ Check(t) \/ CheckFails(t) \/ Wait(t)
    \/ CheckEndingCriteria(t) \/ UpdateCondition(t) \/ StopAllJobs(t)

DispatcherStep ==
    \/ Dispatch(Dispatcher) \/ TimedWait \/ DeadlockStop \/ Drained
    \/ BeginJoin \/ Join \/ Stopped

AsyncStep == Dispatch(Async) \/ ReportDeadlock

-------------------------------------------------------------------------------
(* The threads that stop the run, and the actors outside the scheduler.    *)

\* stop_abi() is called, which Program::interrupt does after runAsync_abi has returned,
\* or max_duration_ms has passed; the timer needs max_duration_sync_mutex_ then.
StopRequested(t) ==
    /\ pc[Starter] = "gone"
    /\ t = "max_duration" /\ "stop_abi" \in Stoppers => pc["stop_abi"] # "joinTimer"
    /\ Jump(t, "dormant", "stopState")

\* Mutant: the condition variable is not notified.
NotifyStoppedSilently(t) ==
    Jump(t, "tell", IF t = "stop_abi" THEN "joinDispatcher" ELSE "gone")

\* The dispatcher is told: by an event, or by the condition variable alone.
NotifyStopped(t) ==
    /\ pc[t] = "tell"
    /\ IF t = "stop_abi" THEN NotifyDispatcher(t, Null, "joinDispatcher")
       ELSE /\ pc' = Woken([pc EXCEPT ![t] = "gone"], Dispatcher)
            /\ UNCHANGED internal
    /\ UNCHANGED <<run, queue, external, event_waiting, running_threads, flags,
                   terms, exited, job, next>>

JoinDispatcher(t) == pc[Dispatcher] = "gone" /\ Jump(t, "joinDispatcher", "lockTimer")

\* stop_abi() joins the max duration thread with max_duration_sync_mutex_ locked, which
\* that thread has while it stops the jobs.
LockTimer(t) ==
    /\ "max_duration" \in Stoppers => pc["max_duration"] \in {"dormant", "gone"}
    /\ Jump(t, "lockTimer", "joinTimer")

JoinTimer(t) ==
    /\ "max_duration" \in Stoppers => pc["max_duration"] = "gone"
    /\ Jump(t, "joinTimer", "gone")

\* stopAllThreads() wakes the max duration thread before it joins it.
TimerCancelled(t) ==
    /\ t = "max_duration"
    /\ pc[Dispatcher] = "joinTimer"
    /\ Jump(t, "dormant", "gone")

StopperStep(t) ==
    \/ StopAllJobs(t) \/ NotifyStopped(t)
    \/ JoinDispatcher(t) \/ LockTimer(t) \/ JoinTimer(t) \/ TimerCancelled(t)

\* An event an entity waits for happens; then event_notify_abi is called.
EventArrives(e) ==
    /\ term[e] = "WAIT_EVENT"
    /\ term' = [term EXCEPT ![e] = "READY"]
    /\ arrived' = arrived \cup {e}
    /\ UNCHANGED <<run, queue, lists, running_threads, flags, ticks, target,
                   exited, threads>>

EventNotify(e) ==
    /\ e \in arrived
    /\ arrived' = arrived \ {e}
    /\ external' = Pushed(external, e)
    /\ pc' = Woken(pc, Async)
    /\ UNCHANGED <<run, queue, internal, event_waiting, running_threads, flags,
                   term, ticks, target, exited, job, next>>

\* unschedule_abi()
Unschedule(e) ==
    /\ e \in Unschedulable \ unschedule
    /\ unschedule' = unschedule \cup {e}
    /\ UNCHANGED <<run, queue, lists, running_threads, acquired, present,
                   condition, terms, exited, threads>>

Next ==
    /\ ~exited
    /\ \/ Start
       \/ \E w \in Workers : Worker(w)
       \/ DispatcherStep
       \/ AsyncStep
       \/ \E t \in Stoppers : StopRequested(t) \/ StopperStep(t)
       \/ \E e \in Entities : EventArrives(e) \/ EventNotify(e) \/ Unschedule(e)

\* Threads keep running and codelets return; nobody has to stop the scheduler
\* and no event has to arrive, but one that has arrived is notified.
Fairness ==
    /\ WF_vars(~exited /\ Start)
    /\ \A w \in Workers : WF_vars(~exited /\ Worker(w))
    /\ WF_vars(~exited /\ DispatcherStep)
    /\ WF_vars(~exited /\ AsyncStep)
    /\ \A t \in Stoppers : WF_vars(~exited /\ StopperStep(t))
    /\ \A e \in Entities : WF_vars(~exited /\ EventNotify(e))

Spec == Init /\ [][Next]_vars /\ Fairness

-------------------------------------------------------------------------------
(* Properties.                                                             *)

Labels == {"idle", "waitForJob", "clear", "count", "acquire", "execute", "tick",
    "notify", "release", "report", "push", "done", "fail", "discount", "loop",
    "drain", "pop", "busy", "present", "check", "update", "place", "wait",
    "sleep", "tell", "loadRunning", "readReady", "readWaiting", "timedWait",
    "loadRunning2", "readReady2", "readWaiting2", "kStopping", "drained",
    "drainedSleep", "reportDeadlock", "join", "joining", "joinTimer", "joinDispatcher",
    "lockTimer", "dormant", "unborn", "startAsync", "startWorkers", "addRunning",
    "stopState", "stopQueue", "flush", "gone"}

\* Every field keeps its type; running_threads_ stays within its eight bits.
TypeOK ==
    /\ stop_on_deadlock \in BOOLEAN
    /\ state \in {"kRunning", "kStopping", "kStopped"}
    /\ joining \subseteq Workers \cup {Async}
    /\ ready \subseteq Entities
    /\ ready_running \in BOOLEAN
    /\ internal \in Seq(Entities \cup {Null})
    /\ external \in Seq(Entities)
    /\ event_waiting \subseteq Entities
    /\ running_threads \in 0..255
    /\ acquired \subseteq Entities
    /\ present \subseteq Entities
    /\ condition \in [Entities -> Conditions]
    /\ unschedule \subseteq Entities
    /\ term \in [Entities -> Conditions]
    /\ ticks \in [Entities -> Nat]
    /\ target \in [Workers -> Entities \cup {Null}]
    /\ arrived \subseteq Entities
    /\ exited \in BOOLEAN
    /\ pc \in [Threads -> Labels]
    /\ job \in [Threads -> Entities \cup {Null}]
    /\ next \in [Threads -> Conditions]

\* Two workers never hold the same entity: an entity's codelets run in one
\* thread at a time, and execute() never sees a status that it answers with
\* GXF_INVALID_EXECUTION_SEQUENCE, which would stop the whole graph.
Holding == {"execute", "tick", "notify", "release", "update", "place",
            "stopState", "stopQueue", "flush"}
OneWorkerPerEntity ==
    \A v, w \in Workers :
        v # w /\ pc[v] \in Holding /\ pc[w] \in Holding => job[v] # job[w]

\* is_present_in_ready_queue_ never claims too much: the dispatchers drop the
\* notifications of an entity that has it, so the entity must be in the queue,
\* or with the worker that took it from there and has yet to clear the flag.
PresentIsQueued ==
    \A e \in present :
        e \in ready \/ \E w \in Workers : pc[w] = "clear" /\ job[w] = e

\* Somebody will look at the entity again, or put it into the queue.
Attended(e) ==
    \/ e \in ready \cup arrived
    \/ Has(internal, e) \/ Has(external, e)
    \/ \E w \in Workers : job[w] = e \/ target[w] = e
    \/ \E t \in Dispatchers :
          /\ job[t] = e
          /\ pc[t] \in {"update", "place"} => next[t] = "READY"

\* No lost wakeup: while the scheduler runs, an entity that may tick is attended
\* to, whatever notifications were dropped because it was busy, queued or
\* acquired when they came.
ReadyNotForgotten ==
    state = "kRunning" =>
        \A e \in Entities \ unschedule : term[e] = "READY" => Attended(e)

\* The workers between two waits.
Awake == {w \in Workers : pc[w] \notin {"unborn", "waitForJob", "clear", "count", "gone"}}

\* running_threads_ counts the workers that are awake, except the one runAsync_abi has
\* created and is about to count: until then the number is one less, which is 255 when that
\* worker waits for its first job, and 0 when it executes it.  The deadlock detection takes
\* zero to mean that nobody is executing anything.
RunningThreadsExact ==
    running_threads =
        (Cardinality(Awake) - (IF pc[Starter] = "addRunning" THEN 1 ELSE 0)) % 256

\* "Running count of entities in flight / execution" is the comment on running_threads_.  A
\* worker that executes before runAsync_abi has counted it is not in that number.
ExecutingIsCounted == (\E w \in Workers : pc[w] = "tick") => running_threads # 0

\* A request to stop leads to the end of every thread, unless the process exits.
\* (With stop_on_deadlock the dispatcher may be waiting for a queue to drain that has
\* been stopped.  An execution that fails while runAsync_abi creates the threads breaks
\* it too: the dispatcher ends before there is a max duration thread to wake, and
\* stop_abi() then keeps that thread from the mutex it needs to end.)
StopCompletes ==
    \A t \in Stoppers :
        pc[t] = "stopState" /\ ~stop_on_deadlock
            ~> exited \/ \A u \in Threads : pc[u] \in {"gone", "dormant"}

\* An entity that may tick is executed, unless it is unscheduled or the
\* scheduler stops: no notification and no wakeup of a condition variable is
\* lost.
ReadyIsExecuted ==
    \A e \in Entities :
        term[e] = "READY" ~>
            term[e] # "READY" \/ e \in unschedule \/ state # "kRunning" \/ exited

\* stop_on_deadlock stops the scheduler only when all entities are in a waiting
\* state, as the parameter's description says.  A worker that has taken a job
\* and not yet counted itself is overlooked.
DeadlockStopJustified ==
    [][ DeadlockStop => \A e \in Entities \ unschedule : term[e] # "READY" ]_vars

\* The scheduler runs until all work is done, as the description of
\* max_duration_ms says: with stop_on_deadlock it does not outlive the last
\* entity.  The dispatcher may look at running_threads_ before the last worker
\* has counted itself out, and is not woken again.
WorkDoneStops ==
    (stop_on_deadlock /\ \A e \in Entities : term[e] = "NEVER")
        ~> (state # "kRunning" \/ exited)
===============================================================================
