------------------------- MODULE MultiThreadScheduler -------------------------
(***************************************************************************)
(* The multi-thread scheduler (gxf/std/multi_thread_scheduler.cpp).  A     *)
(* dispatcher checks the entities in check_jobs and hands those that are   *)
(* ready to the workers, through worker_jobs; a worker executes an entity  *)
(* and hands it back.  Entities that wait for an event are in              *)
(* event_waiting until the async thread, told by event_notify_abi, hands   *)
(* them back to the dispatcher.                                            *)
(*                                                                         *)
(* Every access to an atomic or to a list with a mutex of its own is a     *)
(* step; pc[t] names the next one of thread t.  The model starts when      *)
(* runAsync_abi has created every thread and none has taken a step.        *)
(*                                                                         *)
(* Abstractions: an event list is the bag of its events, which the async   *)
(* thread goes through in any order, a job list is the set of its jobs     *)
(* and gives any of them, so WAIT_TIME, whose branches are those of        *)
(* READY, is not told apart from it; every worker may execute every        *)
(* entity (no pinned threads); whether the timeout of a deadlock has       *)
(* passed is left open.                                                    *)
(***************************************************************************)
EXTENDS Integers, FiniteSets

CONSTANTS
    Entities,       \* the entities with codelets
    Initial,        \* those scheduled before the run
    Workers,        \* the worker threads
    Null,           \* kNullUid
    MaxTicks,       \* bound: executions after which the term of each entity is NEVER
    StopOnDeadlock, \* the parameter stop_on_deadlock
    CanStop,        \* of "stop_abi" and "max_duration": what may stop the run
    CanFail,        \* of "check" and "execute": calls of the executor that may fail
    Schedulable,    \* bound: entities schedule_abi is called for once during the run
    Unschedulable   \* bound: entities unschedule_abi is called for once

ASSUME NullAssumption == Null \notin Entities
ASSUME InitialAssumption == Initial \subseteq Entities
ASSUME WorkerAssumption ==  \* the names of the other threads and of the lists
    Workers \cap {"dispatcher", "async", "stop_abi", "check", "worker", "event"} = {}
ASSUME DeadlockAssumption == StopOnDeadlock \in BOOLEAN
ASSUME TicksAssumption == MaxTicks \in [Entities -> Nat]
ASSUME FiniteAssumption == IsFiniteSet(Entities)

VARIABLES
    state,                  \* state_
    check_jobs,             \* jobs in check_jobs_
    check_running,          \* is_running_ of check_jobs_
    worker_jobs,            \* jobs in worker_jobs_
    worker_running,         \* is_running_ of worker_jobs_
    event_notified,         \* event_notified_
    event_waiting,          \* event_waiting_
    unschedule_entities,    \* unschedule_entities_
    conditions,             \* conditions_: a type for each entity, "none" if it has none
    ready_count,            \* ready_count_ and wait_time_count_
    wait_event_count,       \* wait_event_count_
    wait_count,             \* wait_count_
    term,                   \* what the scheduling terms of each entity say
    ticks,                  \* executions of each entity so far
    arrived,                \* external events that have happened but are not notified
    asked,                  \* calls of schedule_abi and unschedule_abi so far
    pc,                     \* the next step of each thread
    job,                    \* the eid a thread is working on
    next,                   \* the condition the dispatcher has found, or "none"
    notifications           \* the async thread's copy of event_notified_

jobs == <<check_jobs, check_running, worker_jobs, worker_running>>
events == <<event_notified, event_waiting, unschedule_entities>>
counts == <<ready_count, wait_event_count, wait_count>>
terms == <<term, ticks, arrived, asked>>
threads == <<pc, job, next, notifications>>
vars == <<state, jobs, events, conditions, counts, terms, threads>>

Dispatcher == "dispatcher"
Async == "async"
Stopper == "stop_abi"
Threads == Workers \cup {Dispatcher, Async, Stopper}

Conditions == {"READY", "WAIT", "WAIT_EVENT", "NEVER"}

Goto(t, label) == pc' = [pc EXCEPT ![t] = label]

\* A step of t that only moves it to another label.
Jump(t, from, to) ==
    /\ pc[t] = from
    /\ Goto(t, to)
    /\ UNCHANGED <<state, jobs, events, conditions, counts, terms, job, next,
                   notifications>>

\* t goes on at `label' and has no entity any more.
Leave(t, label) ==
    /\ Goto(t, label)
    /\ job' = [job EXCEPT ![t] = Null]

\* EventList: how often it has each event.  removeEvent removes every instance.
NoEvents == [e \in Entities |-> 0]
Has(list, e) == list[e] > 0
Added(list, e) == [list EXCEPT ![e] = @ + 1]
Removed(list, e) == [list EXCEPT ![e] = 0]

\* Whether an entity counts as ready, as waiting for an event, or as waiting.
Counts(condition, type) == IF condition = type THEN 1 ELSE 0

\* schedule_abi has run for the initial entities, runAsync_abi up to its end.
Init ==
    /\ state = "kRunning"
    /\ check_jobs = Initial /\ check_running = TRUE
    /\ worker_jobs = {} /\ worker_running = TRUE
    /\ event_notified = NoEvents /\ event_waiting = {} /\ unschedule_entities = {}
    /\ conditions = [e \in Entities |-> IF e \in Initial THEN "READY" ELSE "none"]
    /\ ready_count = Cardinality(Initial) /\ wait_event_count = 0 /\ wait_count = 0
    /\ term = [e \in Entities |-> "READY"]
    /\ ticks = [e \in Entities |-> 0]
    /\ arrived = {}
    /\ asked = {}
    /\ pc = [t \in Threads |->
                CASE t \in Workers -> "waitForJob"
                  [] t \in {Dispatcher, Async} -> "loop"
                  [] OTHER -> "dormant"]
    /\ job = [t \in Threads |-> Null]
    /\ next = "none"
    /\ notifications = NoEvents

-------------------------------------------------------------------------------
(* updateCondition(e, type), under conditions_mutex_.                      *)

\* Mutant: a new entity is not counted.
UpdateConditionUncounted(e, type) ==
    /\ conditions' = [conditions EXCEPT ![e] = IF type = "NEVER" THEN "none" ELSE type]
    /\ ready_count' = IF conditions[e] = "none" THEN ready_count
                      ELSE ready_count + Counts(type, "READY") - Counts(conditions[e], "READY")
    /\ wait_event_count' = wait_event_count + Counts(type, "WAIT_EVENT")
                                            - Counts(conditions[e], "WAIT_EVENT")
    /\ wait_count' = wait_count + Counts(type, "WAIT") - Counts(conditions[e], "WAIT")
    /\ check_jobs' = IF conditions[e] = "none" THEN check_jobs \cup {e} ELSE check_jobs

\* Mutant: an entity that is already scheduled goes to the dispatcher again.
UpdateConditionInserting(e, type) ==
    /\ conditions' = [conditions EXCEPT ![e] = IF type = "NEVER" THEN "none" ELSE type]
    /\ ready_count' = ready_count + Counts(type, "READY") - Counts(conditions[e], "READY")
    /\ wait_event_count' = wait_event_count + Counts(type, "WAIT_EVENT")
                                            - Counts(conditions[e], "WAIT_EVENT")
    /\ wait_count' = wait_count + Counts(type, "WAIT") - Counts(conditions[e], "WAIT")
    /\ check_jobs' = IF type = "READY" THEN check_jobs \cup {e} ELSE check_jobs

\* A new entity goes to the dispatcher; one that will never run is erased.
UpdateCondition(e, type) ==
    \/ /\ conditions[e] = "none"
       /\ conditions' = [conditions EXCEPT ![e] = type]
       /\ ready_count' = ready_count + 1
       /\ check_jobs' = check_jobs \cup {e}
       /\ UNCHANGED <<wait_event_count, wait_count>>
    \/ /\ conditions[e] # "none"
       /\ conditions' = [conditions EXCEPT ![e] = IF type = "NEVER" THEN "none" ELSE type]
       /\ ready_count' = ready_count + Counts(type, "READY") - Counts(conditions[e], "READY")
       /\ wait_event_count' = wait_event_count + Counts(type, "WAIT_EVENT")
                                               - Counts(conditions[e], "WAIT_EVENT")
       /\ wait_count' = wait_count + Counts(type, "WAIT") - Counts(conditions[e], "WAIT")
       /\ UNCHANGED check_jobs

-------------------------------------------------------------------------------
(* stopAllJobs()                                                           *)

\* Where the caller goes on: the dispatcher after a failed check, when it has
\* found no condition, or after it has decided to end.
AfterStop(t) ==
    CASE t \in Workers -> "gone"
      [] t = Stopper -> "joinDispatcher"
      [] OTHER -> IF next = "none" THEN "join" ELSE "place"

StopState(t) ==
    /\ pc[t] = "stopState"
    /\ state' = "kStopping"
    /\ Goto(t, "stopCheck")
    /\ UNCHANGED <<jobs, events, conditions, counts, terms, job, next, notifications>>

\* TimedJobList::stop(): nobody gets a job any more.
StopCheckJobs(t) ==
    /\ pc[t] = "stopCheck"
    /\ check_running' = FALSE
    /\ Goto(t, "stopWorker")
    /\ UNCHANGED <<state, check_jobs, worker_jobs, worker_running, events, conditions,
                   counts, terms, job, next, notifications>>

\* Mutant: the workers' list is left running.
StopWorkerJobsNot(t) == Jump(t, "stopWorker", "flush")

StopWorkerJobs(t) ==
    /\ pc[t] = "stopWorker"
    /\ worker_running' = FALSE
    /\ Goto(t, "flush")
    /\ UNCHANGED <<state, check_jobs, check_running, worker_jobs, events, conditions,
                   counts, terms, job, next, notifications>>

\* A thread asleep on event_notification_cv_ looks at its predicate again.
Woken(p) == IF p[Async] = "sleep" THEN [p EXCEPT ![Async] = "wait"] ELSE p

\* The event lists are cleared and the async thread is notified, not under the
\* mutex of its condition variable.
Flush(t) ==
    /\ pc[t] = "flush"
    /\ event_notified' = NoEvents /\ event_waiting' = {} /\ unschedule_entities' = {}
    /\ pc' = Woken([pc EXCEPT ![t] = AfterStop(t)])
    /\ job' = IF AfterStop(t) = "place" THEN job ELSE [job EXCEPT ![t] = Null]
    /\ UNCHANGED <<state, jobs, conditions, counts, terms, next, notifications>>

StopAllJobs(t) == StopState(t) \/ StopCheckJobs(t) \/ StopWorkerJobs(t) \/ Flush(t)

-------------------------------------------------------------------------------
(* dispatcherThreadEntrance()                                              *)

Loop == Jump(Dispatcher, "loop", IF state = "kRunning" THEN "waitForJob" ELSE "join")

\* waitForJob(): blocks until there is a job or the list has been stopped.
TakeCheckJob(e) ==
    /\ pc[Dispatcher] = "waitForJob"
    /\ check_running
    /\ e \in check_jobs
    /\ check_jobs' = check_jobs \ {e}
    /\ job' = [job EXCEPT ![Dispatcher] = e]
    /\ Goto(Dispatcher, "check")
    /\ UNCHANGED <<state, check_running, worker_jobs, worker_running, events, conditions,
                   counts, terms, next, notifications>>

NoCheckJobs == ~check_running /\ Jump(Dispatcher, "waitForJob", "join")

\* A request to unschedule the entity, or what its terms say now.
Check ==
    LET e == job[Dispatcher] IN
    /\ pc[Dispatcher] = "check"
    /\ unschedule_entities' = unschedule_entities \ {e}
    /\ next' = IF e \in unschedule_entities THEN "NEVER" ELSE term[e]
    /\ Goto(Dispatcher, "update")
    /\ UNCHANGED <<state, jobs, event_notified, event_waiting, conditions, counts,
                   terms, job, notifications>>

CheckFails ==
    /\ "check" \in CanFail
    /\ job[Dispatcher] \notin unschedule_entities
    /\ Jump(Dispatcher, "check", "stopState")

UpdateJob ==
    /\ pc[Dispatcher] = "update"
    /\ UpdateCondition(job[Dispatcher], next)
    /\ Goto(Dispatcher, "criteria")
    /\ UNCHANGED <<state, check_running, worker_jobs, worker_running, events, terms, job,
                   next, notifications>>

(* checkEndingCriteria()                                                   *)

\* Nothing is ready and nothing waits for an event.
NothingToRun == StopOnDeadlock /\ ready_count = 0 /\ wait_event_count = 0

\* Mutant: the ready entities are not considered.
DeadlockIgnoringReady ==
    /\ StopOnDeadlock /\ wait_event_count = 0
    /\ Jump(Dispatcher, "criteria", "kStopping")

\* Either no entity is left, or the timeout has passed.
Deadlock == NothingToRun /\ Jump(Dispatcher, "criteria", "kStopping")

\* No deadlock, or the timeout has not passed and some entity waits.
NoDeadlock ==
    /\ NothingToRun => wait_count # 0
    /\ Jump(Dispatcher, "criteria", "place")

\* max_duration_ms has passed.
DurationExpired ==
    /\ "max_duration" \in CanStop
    /\ NothingToRun => wait_count # 0
    /\ Jump(Dispatcher, "criteria", "stopState")

Ending ==
    /\ pc[Dispatcher] = "kStopping"
    /\ state' = "kStopping"
    /\ Goto(Dispatcher, "pending")
    /\ UNCHANGED <<jobs, events, conditions, counts, terms, job, next, notifications>>

\* popFront() of check_jobs_: an entity that has become ready is executed.
CheckPending(e) ==
    /\ pc[Dispatcher] = "pending"
    /\ e \in check_jobs
    /\ check_jobs' = check_jobs \ {e}
    /\ worker_jobs' = IF term[e] = "READY" THEN worker_jobs \cup {e} ELSE worker_jobs
    /\ UNCHANGED <<state, check_running, worker_running, events, conditions, counts, terms,
                   threads>>

\* checkEndingCriteria() returns; nothing stops the workers.
CheckPendingFails(e) ==
    /\ "check" \in CanFail
    /\ pc[Dispatcher] = "pending"
    /\ e \in check_jobs
    /\ check_jobs' = check_jobs \ {e}
    /\ Goto(Dispatcher, "place")
    /\ UNCHANGED <<state, check_running, worker_jobs, worker_running, events, conditions,
                   counts, terms, job, next, notifications>>

NonePending == check_jobs = {} /\ Jump(Dispatcher, "pending", "drained")

\* work_done_cv_.wait()
Drained ==
    Jump(Dispatcher, "drained", IF worker_jobs = {} THEN "stopState" ELSE "drainedSleep")

(* The rest of the loop.                                                   *)

\* The entity enters the list of its condition.
Place ==
    LET e == job[Dispatcher] IN
    /\ pc[Dispatcher] = "place"
    /\ \/ /\ next = "READY"
          /\ worker_jobs' = worker_jobs \cup {e}
          /\ UNCHANGED <<check_jobs, event_waiting>>
       \/ /\ next = "WAIT_EVENT"
          /\ event_waiting' = event_waiting \cup {e}
          /\ UNCHANGED <<check_jobs, worker_jobs>>
       \/ /\ next = "WAIT"
          /\ check_jobs' = check_jobs \cup {e}
          /\ UNCHANGED <<worker_jobs, event_waiting>>
       \/ /\ next = "NEVER"
          /\ UNCHANGED <<check_jobs, worker_jobs, event_waiting>>
    /\ Leave(Dispatcher, "loop")
    /\ next' = "none"
    /\ UNCHANGED <<state, check_running, worker_running, event_notified,
                   unschedule_entities, conditions, counts, terms, notifications>>

\* stopAllThreads(): joins the other threads and deactivates the entities.
Join ==
    /\ pc[Dispatcher] = "join"
    /\ \A t \in Workers \cup {Async} : pc[t] = "gone"
    /\ state' = "kStopped"
    /\ Goto(Dispatcher, "gone")
    /\ UNCHANGED <<jobs, events, conditions, counts, terms, job, next, notifications>>

DispatcherStep ==
    \/ Loop \/ NoCheckJobs \/ Check \/ CheckFails \/ UpdateJob \/ Deadlock \/ NoDeadlock
    \/ DurationExpired \/ Ending \/ NonePending \/ Drained \/ Place \/ Join
    \/ StopAllJobs(Dispatcher)
    \/ \E e \in Entities : TakeCheckJob(e) \/ CheckPending(e) \/ CheckPendingFails(e)

-------------------------------------------------------------------------------
(* workerThreadEntrance()                                                  *)

TakeWorkerJob(w, e) ==
    /\ pc[w] = "waitForJob"
    /\ worker_running
    /\ e \in worker_jobs
    /\ worker_jobs' = worker_jobs \ {e}
    /\ job' = [job EXCEPT ![w] = e]
    /\ Goto(w, "unschedule")
    /\ UNCHANGED <<state, check_jobs, check_running, worker_running, events, conditions,
                   counts, terms, next, notifications>>

NoWorkerJobs(w) == ~worker_running /\ Jump(w, "waitForJob", "gone")

\* A pending request to unschedule the entity.
Unscheduled(w) ==
    /\ pc[w] = "unschedule"
    /\ job[w] \in unschedule_entities
    /\ unschedule_entities' = unschedule_entities \ {job[w]}
    /\ Goto(w, "never")
    /\ UNCHANGED <<state, jobs, event_notified, event_waiting, conditions, counts, terms,
                   job, next, notifications>>

\* Mutant: the entity is dropped but its condition stays.
DropJobStillScheduled(w) ==
    /\ pc[w] = "never"
    /\ Leave(w, "waitForJob")
    /\ UNCHANGED <<state, jobs, events, conditions, counts, terms, next, notifications>>

DropJob(w) ==
    /\ pc[w] = "never"
    /\ UpdateCondition(job[w], "NEVER")
    /\ Leave(w, "waitForJob")
    /\ UNCHANGED <<state, check_running, worker_jobs, worker_running, events, terms, next,
                   notifications>>

\* executeEntity() checks the terms again and ticks only a READY entity.
Execute(w) ==
    /\ job[w] \notin unschedule_entities
    /\ Jump(w, "unschedule", IF term[job[w]] = "READY" THEN "tick" ELSE "done")

\* tick(): the terms say something new of this entity, and of an entity that was
\* waiting for a message of this one.
Tick(w) ==
    LET e == job[w] IN
    /\ pc[w] = "tick"
    /\ ticks' = [ticks EXCEPT ![e] = @ + 1]
    /\ \E mine \in IF ticks[e] + 1 < MaxTicks[e] THEN Conditions \ {"NEVER"} ELSE {"NEVER"},
          f \in {x \in Entities \ {e} : term[x] = "WAIT"} \cup {Null} :
          term' = [x \in Entities |-> IF x = e THEN mine
                                      ELSE IF x = f THEN "READY" ELSE term[x]]
    /\ Goto(w, "done")
    /\ UNCHANGED <<state, jobs, events, conditions, counts, arrived, asked, job, next,
                   notifications>>

\* The tick fails: the error stops the scheduler and the worker returns.
TickFails(w) == "execute" \in CanFail /\ Jump(w, "tick", "stopState")

Done(w) == Jump(w, "done", IF state = "kRunning" THEN "return" ELSE "notify")

ReturnJob(w) ==
    /\ pc[w] = "return"
    /\ check_jobs' = check_jobs \cup {job[w]}
    /\ Leave(w, "waitForJob")
    /\ UNCHANGED <<state, check_running, worker_jobs, worker_running, events, conditions,
                   counts, terms, next, notifications>>

\* work_done_cv_.notify_one()
NotifyDone(w) ==
    /\ pc[w] = "notify"
    /\ pc' = [pc EXCEPT ![w] = "waitForJob",
                        ![Dispatcher] = IF @ = "drainedSleep" THEN "drained" ELSE @]
    /\ job' = [job EXCEPT ![w] = Null]
    /\ UNCHANGED <<state, jobs, events, conditions, counts, terms, next, notifications>>

WorkerStep(w) ==
    \/ NoWorkerJobs(w) \/ Unscheduled(w) \/ DropJob(w) \/ Execute(w) \/ Tick(w)
    \/ TickFails(w) \/ Done(w) \/ ReturnJob(w) \/ NotifyDone(w) \/ StopAllJobs(w)
    \/ \E e \in Entities : TakeWorkerJob(w, e)

-------------------------------------------------------------------------------
(* asyncEventThreadEntrance()                                              *)

AsyncLoop == Jump(Async, "loop", IF state = "kRunning" THEN "export" ELSE "gone")

Export ==
    /\ pc[Async] = "export"
    /\ notifications' = event_notified
    /\ Goto(Async, "scan")
    /\ UNCHANGED <<state, jobs, events, conditions, counts, terms, job, next>>

\* Mutant: a notification is consumed although nobody waits for it.
ScanConsumingAll ==
    /\ pc[Async] = "scan"
    /\ \E e \in Entities :
          /\ Has(notifications, e)
          /\ notifications' = [notifications EXCEPT ![e] = @ - 1]
          /\ event_notified' = Removed(event_notified, e)
          /\ event_waiting' = event_waiting \ {e}
          /\ check_jobs' = IF e \in event_waiting THEN check_jobs \cup {e} ELSE check_jobs
    /\ UNCHANGED <<state, check_running, worker_jobs, worker_running, unschedule_entities,
                   conditions, counts, terms, pc, job, next>>

\* The entity waits for the event: it leaves event_waiting_; if it does not, its
\* notification stays.
Scan ==
    /\ pc[Async] = "scan"
    /\ \E e \in Entities :
          /\ Has(notifications, e)
          /\ notifications' = [notifications EXCEPT ![e] = @ - 1]
          /\ event_waiting' = event_waiting \ {e}
          /\ IF e \in event_waiting
             THEN Goto(Async, "forget") /\ job' = [job EXCEPT ![Async] = e]
             ELSE UNCHANGED <<pc, job>>
    /\ UNCHANGED <<state, jobs, event_notified, unschedule_entities, conditions, counts,
                   terms, next>>

ForgetEvent ==
    /\ pc[Async] = "forget"
    /\ event_notified' = Removed(event_notified, job[Async])
    /\ Goto(Async, "insert")
    /\ UNCHANGED <<state, jobs, event_waiting, unschedule_entities, conditions, counts,
                   terms, job, next, notifications>>

InsertJob ==
    /\ pc[Async] = "insert"
    /\ check_jobs' = check_jobs \cup {job[Async]}
    /\ Leave(Async, "scan")
    /\ UNCHANGED <<state, check_running, worker_jobs, worker_running, events, conditions,
                   counts, terms, next, notifications>>

\* event_notification_cv_.wait(), under event_notification_mutex_: the predicate
\* is evaluated, and if it does not hold the thread blocks.
ScanEnds == notifications = NoEvents /\ Jump(Async, "scan", "wait")
Wait == Jump(Async, "wait", IF event_notified # NoEvents \/ state # "kRunning"
                            THEN "loop" ELSE "block")
Block == Jump(Async, "block", "sleep")

AsyncStep ==
    AsyncLoop \/ Export \/ Scan \/ ForgetEvent \/ InsertJob \/ ScanEnds \/ Wait \/ Block

-------------------------------------------------------------------------------
(* Callers from outside, and events.                                       *)

\* stop_abi(): stops all jobs and joins the dispatcher.
StopRequested == "stop_abi" \in CanStop /\ Jump(Stopper, "dormant", "stopState")
JoinDispatcher == pc[Dispatcher] = "gone" /\ Jump(Stopper, "joinDispatcher", "gone")
StopperStep == StopAllJobs(Stopper) \/ JoinDispatcher

\* schedule_abi()
Schedule(e) ==
    /\ e \in Schedulable /\ <<"schedule", e>> \notin asked
    /\ asked' = asked \cup {<<"schedule", e>>}
    /\ UpdateCondition(e, "READY")
    /\ UNCHANGED <<state, check_running, worker_jobs, worker_running, events, term, ticks,
                   arrived, threads>>

\* unschedule_abi()
Unschedule(e) ==
    /\ e \in Unschedulable /\ <<"unschedule", e>> \notin asked
    /\ asked' = asked \cup {<<"unschedule", e>>}
    /\ unschedule_entities' = unschedule_entities \cup {e}
    /\ UNCHANGED <<state, jobs, event_notified, event_waiting, conditions, counts, term,
                   ticks, arrived, threads>>

\* An event an entity waits for happens ...
EventArrives(e) ==
    /\ term[e] = "WAIT_EVENT"
    /\ term' = [term EXCEPT ![e] = "READY"]
    /\ arrived' = arrived \cup {e}
    /\ UNCHANGED <<state, jobs, events, conditions, counts, ticks, asked, threads>>

\* ... and event_notify_abi() is called; it needs the mutex of the async thread.
EventNotify(e) ==
    /\ e \in arrived
    /\ pc[Async] # "block"
    /\ arrived' = arrived \ {e}
    /\ event_notified' = Added(event_notified, e)
    /\ pc' = Woken(pc)
    /\ UNCHANGED <<state, jobs, event_waiting, unschedule_entities, conditions, counts,
                   term, ticks, asked, job, next, notifications>>

Next ==
    \/ DispatcherStep
    \/ \E w \in Workers : WorkerStep(w)
    \/ AsyncStep
    \/ StopRequested \/ StopperStep
    \/ \E e \in Entities : Schedule(e) \/ Unschedule(e) \/ EventArrives(e) \/ EventNotify(e)

\* Threads keep running and codelets return; an event that has arrived is
\* notified.  The job lists give the job that is due first, so that no job is
\* passed over for ever.
Fairness ==
    /\ WF_vars(DispatcherStep)
    /\ \A w \in Workers : WF_vars(WorkerStep(w))
    /\ WF_vars(AsyncStep)
    /\ WF_vars(StopperStep)
    /\ \A e \in Entities :
          /\ WF_vars(EventNotify(e))
          /\ SF_vars(TakeCheckJob(e))
          /\ SF_vars(\E w \in Workers : TakeWorkerJob(w, e))

Spec == Init /\ [][Next]_vars /\ Fairness

-------------------------------------------------------------------------------
(* Properties.                                                             *)

Labels == {"loop", "waitForJob", "check", "update", "criteria", "kStopping", "pending",
    "drained", "drainedSleep", "place", "join", "unschedule", "never", "tick", "done",
    "return", "notify", "export", "scan", "forget", "insert", "wait", "block", "sleep",
    "dormant", "stopState", "stopCheck", "stopWorker", "flush", "joinDispatcher", "gone"}

TypeOK ==
    /\ state \in {"kRunning", "kStopping", "kStopped"}
    /\ check_jobs \subseteq Entities /\ check_running \in BOOLEAN
    /\ worker_jobs \subseteq Entities /\ worker_running \in BOOLEAN
    /\ event_notified \in [Entities -> Nat]
    /\ event_waiting \subseteq Entities
    /\ unschedule_entities \subseteq Entities
    /\ conditions \in [Entities -> {"READY", "WAIT", "WAIT_EVENT", "none"}]
    /\ ready_count \in Nat /\ wait_event_count \in Nat /\ wait_count \in Nat
    /\ term \in [Entities -> Conditions]
    /\ ticks \in [Entities -> Nat]
    /\ arrived \subseteq Entities
    /\ asked \subseteq {"schedule", "unschedule"} \X Entities
    /\ pc \in [Threads -> Labels]
    /\ job \in [Threads -> Entities \cup {Null}]
    /\ next \in Conditions \cup {"none"}
    /\ notifications \in [Entities -> Nat]

\* The threads that hold an entity: a dispatcher that has not just ended it.
Holders(e) ==
    {t \in Threads : job[t] = e /\ ~(t = Dispatcher /\ next = "NEVER" /\ pc[t] # "update")}

\* Where an entity is.
Places(e) ==
    {l \in {"check", "worker", "event"} :
        CASE l = "check" -> e \in check_jobs
          [] l = "worker" -> e \in worker_jobs
          [] OTHER -> e \in event_waiting} \cup Holders(e)

\* No entity is in two places: two threads never work on one entity, and it is
\* not executed while it is checked.
OnePlace == \A e \in Entities : \A p, q \in Places(e) : p = q

\* While the scheduler runs, the scheduled entities, those with a condition, are
\* exactly those that are somewhere: none is lost between the lists, and none
\* goes on after it has been dropped.
ScheduledIsSomewhere ==
    state = "kRunning" =>
        \A e \in Entities : conditions[e] # "none" <=> Places(e) # {}

\* The counters on which the end of the run is decided agree with the conditions.
CountsExact ==
    LET Number(type) == Cardinality({e \in Entities : conditions[e] = type}) IN
    /\ ready_count = Number("READY")
    /\ wait_event_count = Number("WAIT_EVENT")
    /\ wait_count = Number("WAIT")

\* An entity that waits for an event that has come is going to be told.
EventNotLost ==
    state = "kRunning" =>
        \A e \in event_waiting :
            term[e] = "READY" => e \in arrived \/ Has(event_notified, e)

\* When the dispatcher decides that there is nothing to run, no worker has, or
\* is about to get, an entity.
DeadlockMeansIdle ==
    pc[Dispatcher] = "kStopping" =>
        /\ worker_jobs = {}
        /\ \A w \in Workers : job[w] = Null

\* A stop by anyone ends the workers.
StopEndsWorkers ==
    (\E t \in Threads : pc[t] = "stopState") ~> \A w \in Workers : pc[w] = "gone"

\* An entity that is scheduled and may tick is executed, unless it is
\* unscheduled or the scheduler stops.
ReadyIsExecuted ==
    \A e \in Entities :
        (term[e] = "READY" /\ conditions[e] # "none") ~>
            \/ term[e] # "READY"
            \/ <<"unschedule", e>> \in asked
            \/ state # "kRunning"

\* stop_abi returns.  The comment on the notification that stopAllJobs sends to
\* the async thread says that it stops that thread.
StopReturns == (pc[Stopper] = "stopState") ~> (pc[Stopper] = "gone")
===============================================================================
