---------------------- MODULE MultiThreadSchedulerProofs ----------------------
(***************************************************************************)
(* Theorems of MultiThreadScheduler, for any number of entities, workers   *)
(* and executions.                                                         *)
(***************************************************************************)
EXTENDS MultiThreadScheduler, TLAPS, FiniteSetTheorems

StopLabels == {"stopState", "stopCheck", "stopWorker", "flush"}
\* Where the dispatcher has decided about its entity and not yet placed it.
DecidedLabels == {"criteria", "kStopping", "pending", "drained", "drainedSleep", "place"}

\* A thread has an entity where it needs one ...
HasJob ==
    /\ pc[Dispatcher] \in {"check", "update"} \cup DecidedLabels => job[Dispatcher] \in Entities
    /\ pc[Dispatcher] \in StopLabels /\ next # "none" => job[Dispatcher] \in Entities
    /\ \A w \in Workers :
          pc[w] \in {"unschedule", "never", "tick", "done", "return"} => job[w] \in Entities
    /\ pc[Async] \in {"forget", "insert"} => job[Async] \in Entities

\* ... and none where it takes one.
NoJob ==
    /\ pc[Dispatcher] \in {"loop", "waitForJob"} => job[Dispatcher] = Null
    /\ \A w \in Workers : pc[w] = "waitForJob" => job[w] = Null
    /\ pc[Async] \notin {"forget", "insert"} => job[Async] = Null

\* The dispatcher has found a condition from the check to the placing.
NextKnown ==
    /\ pc[Dispatcher] \in {"loop", "waitForJob", "check"} => next = "none"
    /\ pc[Dispatcher] \in {"update"} \cup DecidedLabels => next # "none"

\* Entities are dropped only when the scheduler is not running any more.
StopKnown ==
    /\ \A t \in Threads : pc[t] \in {"stopCheck", "stopWorker", "flush"} => state # "kRunning"
    /\ pc[Dispatcher] \in {"pending", "drained", "drainedSleep"} => state # "kRunning"
    /\ \A w \in Workers : pc[w] = "notify" => state # "kRunning"

ThreadFacts == HasJob /\ NoJob /\ NextKnown /\ StopKnown

\* Thread t holds entity e, and OnePlace in terms of it.
Held(t, e) == job[t] = e /\ ~(t = Dispatcher /\ next = "NEVER" /\ pc[t] # "update")
Apart ==
    \A e \in Entities :
        /\ ~(e \in check_jobs /\ e \in worker_jobs)
        /\ ~(e \in check_jobs /\ e \in event_waiting)
        /\ ~(e \in worker_jobs /\ e \in event_waiting)
        /\ \A t \in Threads :
              Held(t, e) => /\ e \notin check_jobs /\ e \notin worker_jobs
                            /\ e \notin event_waiting
                            /\ \A u \in Threads : Held(u, e) => u = t

Somewhere(e) ==
    \/ e \in check_jobs \/ e \in worker_jobs \/ e \in event_waiting
    \/ \E t \in Threads : Held(t, e)

\* What is somewhere is scheduled, also when the scheduler stops.
PlacedIsScheduled == \A e \in Entities : Somewhere(e) => conditions[e] # "none"
\* While it runs, what is scheduled is somewhere.
ScheduledIsPlaced ==
    state = "kRunning" => \A e \in Entities : conditions[e] # "none" => Somewhere(e)

\* What goes to the workers counts as ready, until the dispatcher has decided to end.
DecidedReady ==
    pc[Dispatcher] \in DecidedLabels \cup StopLabels /\ next = "READY" =>
        conditions[job[Dispatcher]] = "READY"
WorkersReady ==
    (state = "kRunning" \/
     pc[Dispatcher] \in {"waitForJob", "check", "update", "criteria", "kStopping"}) =>
        \A e \in Entities :
            e \in worker_jobs \/ (\E w \in Workers : job[w] = e) => conditions[e] = "READY"

\* An event an entity waits for, or is about to wait for, has not come or is not
\* yet forgotten.
EventPending ==
    state = "kRunning" =>
        \A e \in Entities :
            e \in event_waiting \/ (job[Dispatcher] = e /\ next = "WAIT_EVENT") =>
                term[e] = "WAIT_EVENT" \/ e \in arrived \/ Has(event_notified, e)

\* The inductive invariant.
IInv ==
    /\ TypeOK /\ ThreadFacts
    /\ Apart /\ PlacedIsScheduled /\ ScheduledIsPlaced
    /\ CountsExact /\ DecidedReady /\ WorkersReady /\ DeadlockMeansIdle
    /\ EventPending

USE DEF jobs, events, counts, terms, threads, Threads, Dispatcher, Async, Stopper,
        Goto, Jump, Leave, Woken, AfterStop
USE NullAssumption, WorkerAssumption

\* Each step keeps what the threads know.
LEMMA ThreadFactsStep ==
    ASSUME IInv, Next
    PROVE  ThreadFacts'
<1>. USE DEF IInv, TypeOK, ThreadFacts, HasJob, NoJob, NextKnown, StopKnown, StopLabels,
             DecidedLabels, Conditions
<1>1. CASE \/ Loop \/ NoCheckJobs \/ CheckFails \/ Deadlock
           \/ NoDeadlock \/ DurationExpired \/ NonePending \/ Drained
  BY <1>1 DEF Loop, NoCheckJobs, CheckFails, Deadlock, NothingToRun, NoDeadlock,
       DurationExpired, NonePending, Drained
<1>2. CASE \/ AsyncLoop \/ ScanEnds \/ Wait \/ Block
           \/ \E w \in Workers : NoWorkerJobs(w) \/ Execute(w) \/ TickFails(w) \/ Done(w)
           \/ StopRequested \/ JoinDispatcher
  BY <1>2 DEF AsyncLoop, ScanEnds, Wait, Block, NoWorkerJobs, Execute, TickFails,
       Done, StopRequested, JoinDispatcher
<1>3. CASE \/ \E t \in Threads \ {Async} : StopState(t)
           \/ \E t \in Threads \ {Async} : StopCheckJobs(t)
           \/ \E t \in Threads \ {Async} : StopWorkerJobs(t)
  BY <1>3 DEF StopState, StopCheckJobs, StopWorkerJobs
<1>4. CASE \E t \in Threads \ {Async} : Flush(t)
  BY <1>4 DEF Flush
<1>5. CASE \E e \in Entities : TakeCheckJob(e)
  BY <1>5 DEF TakeCheckJob
<1>6. CASE Check
  BY <1>6 DEF Check
<1>7. CASE UpdateJob
  BY <1>7 DEF UpdateJob
<1>8. CASE Ending
  BY <1>8 DEF Ending
<1>9. CASE \/ \E e \in Entities : CheckPending(e)
           \/ \E e \in Entities : CheckPendingFails(e)
  BY <1>9 DEF CheckPending, CheckPendingFails
<1>10. CASE Place
  BY <1>10 DEF Place
<1>11. CASE Join
  BY <1>11 DEF Join
<1>12. CASE \E w \in Workers, e \in Entities : TakeWorkerJob(w, e)
  BY <1>12 DEF TakeWorkerJob
<1>13. CASE \E w \in Workers : Unscheduled(w)
  BY <1>13 DEF Unscheduled
<1>14. CASE \E w \in Workers : DropJob(w)
  BY <1>14 DEF DropJob
<1>15. CASE \E w \in Workers : Tick(w)
  BY <1>15 DEF Tick
<1>16. CASE \/ \E w \in Workers : ReturnJob(w)
            \/ \E w \in Workers : NotifyDone(w)
  BY <1>16 DEF ReturnJob, NotifyDone
<1>17. CASE Export
  BY <1>17 DEF Export
<1>18. CASE Scan
  BY <1>18 DEF Scan
<1>19. CASE ForgetEvent
  BY <1>19 DEF ForgetEvent
<1>20. CASE InsertJob
  BY <1>20 DEF InsertJob
<1>21. CASE \E e \in Entities : Schedule(e)
  BY <1>21 DEF Schedule
<1>22. CASE \E e \in Entities : Unschedule(e)
  BY <1>22 DEF Unschedule
<1>23. CASE \E e \in Entities : EventArrives(e)
  BY <1>23 DEF EventArrives
<1>24. CASE \E e \in Entities : EventNotify(e)
  BY <1>24 DEF EventNotify
<1>. QED  BY <1>1, <1>2, <1>3, <1>4, <1>5, <1>6, <1>7, <1>8, <1>9, <1>10, <1>11, <1>12,
            <1>13, <1>14, <1>15, <1>16, <1>17, <1>18, <1>19, <1>20, <1>21, <1>22, <1>23,
            <1>24
         DEF Next, DispatcherStep, WorkerStep, AsyncStep, StopperStep, StopAllJobs

-------------------------------------------------------------------------------
(* The counters.                                                           *)

Number(c, type) == Cardinality({x \in Entities : c[x] = type})

\* A changed condition changes the number of entities of each type by what
\* updateCondition adds to the counter of that type.
LEMMA NumberUpdate ==
    ASSUME NEW c, NEW d, NEW e \in Entities, NEW v, NEW type,
           \A x \in Entities : d[x] = IF x = e THEN v ELSE c[x]
    PROVE  /\ Number(c, type) \in Nat
           /\ Number(d, type) =
                 Number(c, type) + Counts(v, type) - Counts(c[e], type)
<1>. DEFINE A == {x \in Entities : c[x] = type}
            B == {x \in Entities : d[x] = type}
<1>1. /\ IsFiniteSet(A) /\ IsFiniteSet(B) /\ Cardinality(A) \in Nat
      /\ Number(c, type) = Cardinality(A)
      /\ Number(d, type) = Cardinality(B)
  BY FiniteAssumption, FS_Subset, FS_CardinalityType DEF Number
<1>2. CASE (v = type) <=> (c[e] = type)
  <2>1. A = B
    BY <1>2
  <2>2. Counts(v, type) = Counts(c[e], type) /\ Counts(v, type) \in Nat
    BY <1>2 DEF Counts
  <2>. HIDE DEF A, B
  <2>. QED  BY <2>1, <2>2, <1>1
<1>3. CASE v = type /\ c[e] # type
  <2>1. B = A \cup {e} /\ e \notin A
    BY <1>3
  <2>. HIDE DEF A, B
  <2>2. Cardinality(B) = Cardinality(A) + 1
    BY <2>1, <1>1, FS_AddElement
  <2>. QED  BY <2>2, <1>1, <1>3 DEF Counts
<1>4. CASE v # type /\ c[e] = type
  <2>1. A = B \cup {e} /\ e \notin B
    BY <1>4
  <2>. HIDE DEF A, B
  <2>2. Cardinality(A) = Cardinality(B) + 1 /\ Cardinality(B) \in Nat
    BY <2>1, <1>1, FS_AddElement, FS_CardinalityType
  <2>. QED  BY <2>2, <1>1, <1>4 DEF Counts
<1>. QED  BY <1>2, <1>3, <1>4

\* What the lemma says of the three counters.
LEMMA CountsAsNumbers ==
    CountsExact <=>
        /\ ready_count = Number(conditions, "READY")
        /\ wait_event_count = Number(conditions, "WAIT_EVENT")
        /\ wait_count = Number(conditions, "WAIT")
BY DEF CountsExact, Number

LEMMA CountsAsNumbersPrime ==
    CountsExact' <=>
        /\ ready_count' = Number(conditions', "READY")
        /\ wait_event_count' = Number(conditions', "WAIT_EVENT")
        /\ wait_count' = Number(conditions', "WAIT")
BY DEF CountsExact, Number

\* updateCondition keeps the counters exact: a new entity is ready.
LEMMA UpdateConditionCounts ==
    ASSUME IInv, NEW e \in Entities, NEW type \in Conditions, UpdateCondition(e, type),
           conditions[e] = "none" => type = "READY"
    PROVE  /\ CountsExact'
           /\ conditions' \in [Entities -> {"READY", "WAIT", "WAIT_EVENT", "none"}]
<1>. DEFINE v == IF type = "NEVER" THEN "none" ELSE type
            Types == {"READY", "WAIT", "WAIT_EVENT"}
<1>1. /\ conditions \in [Entities -> {"READY", "WAIT", "WAIT_EVENT", "none"}]
      /\ conditions' = [conditions EXCEPT ![e] = v]
  BY DEF IInv, TypeOK, UpdateCondition, Conditions
<1>2. \A T \in Types : /\ Number(conditions, T) \in Nat
                       /\ Number(conditions', T) =
                             Number(conditions, T) + Counts(v, T) - Counts(conditions[e], T)
  <2>1. \A x \in Entities : conditions'[x] = IF x = e THEN v ELSE conditions[x]
    BY <1>1
  <2>. HIDE DEF v
  <2>. QED  BY <2>1, NumberUpdate
<1>3. /\ ready_count = Number(conditions, "READY")
      /\ wait_event_count = Number(conditions, "WAIT_EVENT")
      /\ wait_count = Number(conditions, "WAIT")
  BY CountsAsNumbers DEF IInv
<1>4. CASE conditions[e] = "none"
  BY <1>4, <1>2, <1>3, CountsAsNumbersPrime, <1>1 DEF UpdateCondition, Counts, Conditions
<1>5. CASE conditions[e] # "none"
  <2>1. \A T \in Types : Counts(type, T) = Counts(v, T)
    BY DEF Counts
  <2>2. CountsExact'
    BY <1>5, <2>1, <1>2, <1>3, CountsAsNumbersPrime DEF UpdateCondition
  <2>. QED  BY <2>2, <1>1 DEF Conditions
<1>. QED  BY <1>4, <1>5

\* Who calls updateCondition has an entity that is scheduled, except schedule.
LEMMA UpdateConditionCalls ==
    ASSUME IInv
    PROVE  /\ UpdateJob => /\ job[Dispatcher] \in Entities /\ next \in Conditions
                           /\ conditions[job[Dispatcher]] # "none"
           /\ \A w \in Workers : DropJob(w) => /\ job[w] \in Entities
                                               /\ conditions[job[w]] # "none"
BY DEF IInv, TypeOK, ThreadFacts, HasJob, NextKnown, PlacedIsScheduled, Somewhere, Held,
       UpdateJob, DropJob, DecidedLabels, Conditions

\* Each step keeps the counters exact.
LEMMA CountsStep ==
    ASSUME IInv, Next
    PROVE  CountsExact'
<1>. USE DEF IInv, CountsExact
<1>1. CASE \/ Loop \/ NoCheckJobs \/ CheckFails \/ Deadlock
           \/ NoDeadlock \/ DurationExpired \/ NonePending \/ Drained
           \/ AsyncLoop \/ ScanEnds \/ Wait \/ Block
           \/ \E w \in Workers : NoWorkerJobs(w) \/ Execute(w) \/ TickFails(w) \/ Done(w)
           \/ StopRequested \/ JoinDispatcher
  BY <1>1 DEF Loop, NoCheckJobs, CheckFails, Deadlock, NothingToRun, NoDeadlock,
       DurationExpired, NonePending, Drained, AsyncLoop, ScanEnds, Wait, Block,
       NoWorkerJobs, Execute, TickFails, Done, StopRequested, JoinDispatcher
<1>2. CASE \/ \E t \in Threads \ {Async} : StopState(t)
           \/ \E t \in Threads \ {Async} : StopCheckJobs(t)
           \/ \E t \in Threads \ {Async} : StopWorkerJobs(t)
           \/ \E t \in Threads \ {Async} : Flush(t)
  BY <1>2 DEF StopState, StopCheckJobs, StopWorkerJobs, Flush
<1>3. CASE \/ \E e \in Entities : TakeCheckJob(e)
           \/ Check
           \/ Ending
           \/ \E e \in Entities : CheckPending(e)
           \/ \E e \in Entities : CheckPendingFails(e)
           \/ Place
           \/ Join
  BY <1>3 DEF TakeCheckJob, Check, Ending, CheckPending, CheckPendingFails, Place,
       Join
<1>4. CASE UpdateJob
  BY <1>4, UpdateConditionCalls, UpdateConditionCounts DEF UpdateJob
<1>5. CASE \/ \E w \in Workers, e \in Entities : TakeWorkerJob(w, e)
           \/ \E w \in Workers : Unscheduled(w)
           \/ \E w \in Workers : Tick(w)
           \/ \E w \in Workers : ReturnJob(w)
           \/ \E w \in Workers : NotifyDone(w)
  BY <1>5 DEF TakeWorkerJob, Unscheduled, Tick, ReturnJob, NotifyDone
<1>6. CASE \E w \in Workers : DropJob(w)
  BY <1>6, UpdateConditionCalls, UpdateConditionCounts DEF DropJob, Conditions
<1>7. CASE \/ Export
           \/ Scan
           \/ ForgetEvent
           \/ InsertJob
  BY <1>7 DEF Export, Scan, ForgetEvent, InsertJob
<1>8. CASE \E e \in Entities : Schedule(e)
  BY <1>8, UpdateConditionCounts DEF Schedule, Conditions
<1>9. CASE \/ \E e \in Entities : Unschedule(e)
           \/ \E e \in Entities : EventArrives(e)
           \/ \E e \in Entities : EventNotify(e)
  BY <1>9 DEF Unschedule, EventArrives, EventNotify
<1>. QED  BY <1>1, <1>2, <1>3, <1>4, <1>5, <1>6, <1>7, <1>8, <1>9
         DEF Next, DispatcherStep, WorkerStep, AsyncStep, StopperStep, StopAllJobs

-------------------------------------------------------------------------------
(* Types.                                                                  *)

\* The counters are numbers because they are exact.
LEMMA CountersAreNumbers ==
    ASSUME CountsExact'
    PROVE  ready_count' \in Nat /\ wait_event_count' \in Nat /\ wait_count' \in Nat
BY FiniteAssumption, FS_Subset, FS_CardinalityType DEF CountsExact

\* Each step keeps the types.
LEMMA TypeStep ==
    ASSUME IInv, Next, CountsExact'
    PROVE  TypeOK'
<1>. USE DEF IInv, TypeOK, ThreadFacts, HasJob, NextKnown, Labels, Conditions,
             DecidedLabels, NoEvents, Has, Added, Removed
<1>1. CASE \/ Loop \/ NoCheckJobs \/ CheckFails \/ Deadlock
           \/ NoDeadlock \/ DurationExpired \/ NonePending \/ Drained
  BY <1>1, CountersAreNumbers DEF Loop, NoCheckJobs, CheckFails, Deadlock,
       NothingToRun, NoDeadlock, DurationExpired, NonePending, Drained
<1>2. CASE \/ AsyncLoop \/ ScanEnds \/ Wait \/ Block
           \/ \E w \in Workers : NoWorkerJobs(w) \/ Execute(w) \/ TickFails(w) \/ Done(w)
           \/ StopRequested \/ JoinDispatcher
  BY <1>2, CountersAreNumbers DEF AsyncLoop, ScanEnds, Wait, Block, NoWorkerJobs,
       Execute, TickFails, Done, StopRequested, JoinDispatcher
<1>3. CASE \E t \in Threads \ {Async} : StopState(t)
  BY <1>3, CountersAreNumbers DEF StopState
<1>4. CASE \E t \in Threads \ {Async} : StopCheckJobs(t)
  <2>1. check_running' \in BOOLEAN
    BY <1>4 DEF StopCheckJobs
  <2>. QED  BY <1>4, <2>1, CountersAreNumbers DEF StopCheckJobs
<1>5. CASE \E t \in Threads \ {Async} : StopWorkerJobs(t)
  <2>1. worker_running' \in BOOLEAN
    BY <1>5 DEF StopWorkerJobs
  <2>. QED  BY <1>5, <2>1, CountersAreNumbers DEF StopWorkerJobs
<1>6. CASE \E t \in Threads \ {Async} : Flush(t)
  BY <1>6, CountersAreNumbers DEF Flush
<1>7. CASE \E e \in Entities : TakeCheckJob(e)
  BY <1>7, CountersAreNumbers DEF TakeCheckJob
<1>8. CASE Check
  BY <1>8, CountersAreNumbers DEF Check
<1>9. CASE UpdateJob
  <2>1. conditions' \in [Entities -> {"READY", "WAIT", "WAIT_EVENT", "none"}]
    BY <1>9, UpdateConditionCalls, UpdateConditionCounts DEF UpdateJob, Conditions
  <2>. QED  BY <1>9, <2>1, CountersAreNumbers DEF UpdateJob, UpdateCondition
<1>10. CASE Ending
  BY <1>10, CountersAreNumbers DEF Ending
<1>11. CASE \/ \E e \in Entities : CheckPending(e)
            \/ \E e \in Entities : CheckPendingFails(e)
  BY <1>11, CountersAreNumbers DEF CheckPending, CheckPendingFails
<1>12. CASE Place
  BY <1>12, CountersAreNumbers DEF Place
<1>13. CASE Join
  BY <1>13, CountersAreNumbers DEF Join
<1>14. CASE \E w \in Workers, e \in Entities : TakeWorkerJob(w, e)
  BY <1>14, CountersAreNumbers DEF TakeWorkerJob
<1>15. CASE \E w \in Workers : Unscheduled(w)
  BY <1>15, CountersAreNumbers DEF Unscheduled
<1>16. CASE \E w \in Workers : DropJob(w)
  <2>1. conditions' \in [Entities -> {"READY", "WAIT", "WAIT_EVENT", "none"}]
    BY <1>16, UpdateConditionCalls, UpdateConditionCounts DEF DropJob, Conditions
  <2>. QED  BY <1>16, <2>1, CountersAreNumbers DEF DropJob, UpdateCondition
<1>17. CASE \E w \in Workers : Tick(w)
  BY <1>17, CountersAreNumbers DEF Tick
<1>18. CASE \/ \E w \in Workers : ReturnJob(w)
            \/ \E w \in Workers : NotifyDone(w)
  BY <1>18, CountersAreNumbers DEF ReturnJob, NotifyDone
<1>19. CASE Export
  BY <1>19, CountersAreNumbers DEF Export
<1>20. CASE Scan
  BY <1>20, CountersAreNumbers DEF Scan
<1>21. CASE ForgetEvent
  BY <1>21, CountersAreNumbers DEF ForgetEvent
<1>22. CASE InsertJob
  BY <1>22, CountersAreNumbers DEF InsertJob
<1>23. CASE \E e \in Entities : Schedule(e)
  <2>1. conditions' \in [Entities -> {"READY", "WAIT", "WAIT_EVENT", "none"}]
    BY <1>23, UpdateConditionCounts DEF Schedule, Conditions
  <2>. QED  BY <1>23, <2>1, CountersAreNumbers DEF Schedule, UpdateCondition
<1>24. CASE \E e \in Entities : Unschedule(e)
  BY <1>24, CountersAreNumbers DEF Unschedule
<1>25. CASE \E e \in Entities : EventArrives(e)
  BY <1>25, CountersAreNumbers DEF EventArrives
<1>26. CASE \E e \in Entities : EventNotify(e)
  BY <1>26, CountersAreNumbers DEF EventNotify
<1>. QED  BY <1>1, <1>2, <1>3, <1>4, <1>5, <1>6, <1>7, <1>8, <1>9, <1>10, <1>11, <1>12,
            <1>13, <1>14, <1>15, <1>16, <1>17, <1>18, <1>19, <1>20, <1>21, <1>22, <1>23,
            <1>24, <1>25, <1>26
         DEF Next, DispatcherStep, WorkerStep, AsyncStep, StopperStep, StopAllJobs

-------------------------------------------------------------------------------
(* Where the entities are.                                                 *)

\* No step puts an entity that is somewhere in a second place.
LEMMA ApartStep ==
    ASSUME IInv, Next
    PROVE  Apart'
<1>. USE DEF IInv, TypeOK, ThreadFacts, HasJob, NoJob, NextKnown, StopKnown, StopLabels,
             DecidedLabels, Conditions, Somewhere, Held, Apart, PlacedIsScheduled,
             UpdateCondition
<1>1. CASE \/ Loop \/ NoCheckJobs \/ CheckFails \/ Deadlock
           \/ NoDeadlock \/ DurationExpired \/ NonePending \/ Drained
  BY <1>1 DEF Loop, NoCheckJobs, CheckFails, Deadlock, NothingToRun, NoDeadlock,
       DurationExpired, NonePending, Drained
<1>2. CASE \/ AsyncLoop \/ ScanEnds \/ Wait \/ Block
           \/ \E w \in Workers : NoWorkerJobs(w) \/ Execute(w) \/ TickFails(w) \/ Done(w)
           \/ StopRequested \/ JoinDispatcher
  BY <1>2 DEF AsyncLoop, ScanEnds, Wait, Block, NoWorkerJobs, Execute, TickFails,
       Done, StopRequested, JoinDispatcher
<1>3. CASE \/ \E t \in Threads \ {Async} : StopState(t)
           \/ \E t \in Threads \ {Async} : StopCheckJobs(t)
           \/ \E t \in Threads \ {Async} : StopWorkerJobs(t)
  BY <1>3 DEF StopState, StopCheckJobs, StopWorkerJobs
<1>4. CASE \E t \in Threads \ {Async} : Flush(t)
  BY <1>4 DEF Flush
<1>5. CASE \E e \in Entities : TakeCheckJob(e)
  BY <1>5 DEF TakeCheckJob
<1>6. CASE Check
  BY <1>6 DEF Check
<1>7. CASE UpdateJob
  BY <1>7 DEF UpdateJob
<1>8. CASE Ending
  BY <1>8 DEF Ending
<1>9. CASE \/ \E e \in Entities : CheckPending(e)
           \/ \E e \in Entities : CheckPendingFails(e)
  BY <1>9 DEF CheckPending, CheckPendingFails
<1>10. CASE Place
  BY <1>10 DEF Place
<1>11. CASE Join
  BY <1>11 DEF Join
<1>12. CASE \E w \in Workers, e \in Entities : TakeWorkerJob(w, e)
  BY <1>12 DEF TakeWorkerJob
<1>13. CASE \E w \in Workers : Unscheduled(w)
  BY <1>13 DEF Unscheduled
<1>14. CASE \E w \in Workers : DropJob(w)
  BY <1>14 DEF DropJob
<1>15. CASE \E w \in Workers : Tick(w)
  BY <1>15 DEF Tick
<1>16. CASE \/ \E w \in Workers : ReturnJob(w)
            \/ \E w \in Workers : NotifyDone(w)
  BY <1>16 DEF ReturnJob, NotifyDone
<1>17. CASE Export
  BY <1>17 DEF Export
<1>18. CASE Scan
  BY <1>18 DEF Scan
<1>19. CASE ForgetEvent
  BY <1>19 DEF ForgetEvent
<1>20. CASE InsertJob
  BY <1>20 DEF InsertJob
<1>21. CASE \E e \in Entities : Schedule(e)
  BY <1>21 DEF Schedule
<1>22. CASE \E e \in Entities : Unschedule(e)
  BY <1>22 DEF Unschedule
<1>23. CASE \E e \in Entities : EventArrives(e)
  BY <1>23 DEF EventArrives
<1>24. CASE \E e \in Entities : EventNotify(e)
  BY <1>24 DEF EventNotify
<1>. QED  BY <1>1, <1>2, <1>3, <1>4, <1>5, <1>6, <1>7, <1>8, <1>9, <1>10, <1>11, <1>12,
            <1>13, <1>14, <1>15, <1>16, <1>17, <1>18, <1>19, <1>20, <1>21, <1>22, <1>23,
            <1>24
         DEF Next, DispatcherStep, WorkerStep, AsyncStep, StopperStep, StopAllJobs

\* No step keeps an entity whose condition it has erased.
LEMMA PlacedStep ==
    ASSUME IInv, Next
    PROVE  PlacedIsScheduled'
<1>. USE DEF IInv, TypeOK, ThreadFacts, HasJob, NoJob, NextKnown, StopKnown, StopLabels,
             DecidedLabels, Conditions, Somewhere, Held, Apart, PlacedIsScheduled,
             UpdateCondition
<1>1. CASE \/ Loop \/ NoCheckJobs \/ CheckFails \/ Deadlock
           \/ NoDeadlock \/ DurationExpired \/ NonePending \/ Drained
  BY <1>1 DEF Loop, NoCheckJobs, CheckFails, Deadlock, NothingToRun, NoDeadlock,
       DurationExpired, NonePending, Drained
<1>2. CASE \/ AsyncLoop \/ ScanEnds \/ Wait \/ Block
           \/ \E w \in Workers : NoWorkerJobs(w) \/ Execute(w) \/ TickFails(w) \/ Done(w)
           \/ StopRequested \/ JoinDispatcher
  BY <1>2 DEF AsyncLoop, ScanEnds, Wait, Block, NoWorkerJobs, Execute, TickFails,
       Done, StopRequested, JoinDispatcher
<1>3. CASE \/ \E t \in Threads \ {Async} : StopState(t)
           \/ \E t \in Threads \ {Async} : StopCheckJobs(t)
           \/ \E t \in Threads \ {Async} : StopWorkerJobs(t)
  BY <1>3 DEF StopState, StopCheckJobs, StopWorkerJobs
<1>4. CASE \E t \in Threads \ {Async} : Flush(t)
  BY <1>4 DEF Flush
<1>5. CASE \E e \in Entities : TakeCheckJob(e)
  BY <1>5 DEF TakeCheckJob
<1>6. CASE Check
  BY <1>6 DEF Check
<1>7. CASE UpdateJob
  BY <1>7 DEF UpdateJob
<1>8. CASE Ending
  BY <1>8 DEF Ending
<1>9. CASE \/ \E e \in Entities : CheckPending(e)
           \/ \E e \in Entities : CheckPendingFails(e)
  BY <1>9 DEF CheckPending, CheckPendingFails
<1>10. CASE Place
  BY <1>10 DEF Place
<1>11. CASE Join
  BY <1>11 DEF Join
<1>12. CASE \E w \in Workers, e \in Entities : TakeWorkerJob(w, e)
  BY <1>12 DEF TakeWorkerJob
<1>13. CASE \E w \in Workers : Unscheduled(w)
  BY <1>13 DEF Unscheduled
<1>14. CASE \E w \in Workers : DropJob(w)
  BY <1>14 DEF DropJob
<1>15. CASE \E w \in Workers : Tick(w)
  BY <1>15 DEF Tick
<1>16. CASE \/ \E w \in Workers : ReturnJob(w)
            \/ \E w \in Workers : NotifyDone(w)
  BY <1>16 DEF ReturnJob, NotifyDone
<1>17. CASE Export
  BY <1>17 DEF Export
<1>18. CASE Scan
  BY <1>18 DEF Scan
<1>19. CASE ForgetEvent
  BY <1>19 DEF ForgetEvent
<1>20. CASE InsertJob
  BY <1>20 DEF InsertJob
<1>21. CASE \E e \in Entities : Schedule(e)
  BY <1>21 DEF Schedule
<1>22. CASE \E e \in Entities : Unschedule(e)
  BY <1>22 DEF Unschedule
<1>23. CASE \E e \in Entities : EventArrives(e)
  BY <1>23 DEF EventArrives
<1>24. CASE \E e \in Entities : EventNotify(e)
  BY <1>24 DEF EventNotify
<1>. QED  BY <1>1, <1>2, <1>3, <1>4, <1>5, <1>6, <1>7, <1>8, <1>9, <1>10, <1>11, <1>12,
            <1>13, <1>14, <1>15, <1>16, <1>17, <1>18, <1>19, <1>20, <1>21, <1>22, <1>23,
            <1>24
         DEF Next, DispatcherStep, WorkerStep, AsyncStep, StopperStep, StopAllJobs

\* While the scheduler runs, no step loses an entity that is scheduled.
LEMMA ScheduledStep ==
    ASSUME IInv, Next
    PROVE  ScheduledIsPlaced'
<1>. USE DEF IInv, TypeOK, ThreadFacts, HasJob, NoJob, NextKnown, StopKnown, StopLabels,
             DecidedLabels, Conditions, Somewhere, Held, Apart, PlacedIsScheduled,
             ScheduledIsPlaced, UpdateCondition
<1>1. CASE \/ Loop \/ NoCheckJobs \/ CheckFails \/ Deadlock
           \/ NoDeadlock \/ DurationExpired \/ NonePending \/ Drained
  BY <1>1 DEF Loop, NoCheckJobs, CheckFails, Deadlock, NothingToRun, NoDeadlock,
       DurationExpired, NonePending, Drained
<1>2. CASE \/ AsyncLoop \/ ScanEnds \/ Wait \/ Block
           \/ \E w \in Workers : NoWorkerJobs(w) \/ Execute(w) \/ TickFails(w) \/ Done(w)
           \/ StopRequested \/ JoinDispatcher
  BY <1>2 DEF AsyncLoop, ScanEnds, Wait, Block, NoWorkerJobs, Execute, TickFails,
       Done, StopRequested, JoinDispatcher
<1>3. CASE \/ \E t \in Threads \ {Async} : StopState(t)
           \/ \E t \in Threads \ {Async} : StopCheckJobs(t)
           \/ \E t \in Threads \ {Async} : StopWorkerJobs(t)
  BY <1>3 DEF StopState, StopCheckJobs, StopWorkerJobs
<1>4. CASE \E t \in Threads \ {Async} : Flush(t)
  BY <1>4 DEF Flush
<1>5. CASE \E e \in Entities : TakeCheckJob(e)
  BY <1>5 DEF TakeCheckJob
<1>6. CASE Check
  BY <1>6 DEF Check
<1>7. CASE UpdateJob
  BY <1>7 DEF UpdateJob
<1>8. CASE Ending
  BY <1>8 DEF Ending
<1>9. CASE \/ \E e \in Entities : CheckPending(e)
           \/ \E e \in Entities : CheckPendingFails(e)
  BY <1>9 DEF CheckPending, CheckPendingFails
<1>10. CASE Place
  BY <1>10 DEF Place
<1>11. CASE Join
  BY <1>11 DEF Join
<1>12. CASE \E w \in Workers, e \in Entities : TakeWorkerJob(w, e)
  BY <1>12 DEF TakeWorkerJob
<1>13. CASE \E w \in Workers : Unscheduled(w)
  BY <1>13 DEF Unscheduled
<1>14. CASE \E w \in Workers : DropJob(w)
  BY <1>14 DEF DropJob
<1>15. CASE \E w \in Workers : Tick(w)
  BY <1>15 DEF Tick
<1>16. CASE \/ \E w \in Workers : ReturnJob(w)
            \/ \E w \in Workers : NotifyDone(w)
  BY <1>16 DEF ReturnJob, NotifyDone
<1>17. CASE Export
  BY <1>17 DEF Export
<1>18. CASE Scan
  BY <1>18 DEF Scan
<1>19. CASE ForgetEvent
  BY <1>19 DEF ForgetEvent
<1>20. CASE InsertJob
  BY <1>20 DEF InsertJob
<1>21. CASE \E e \in Entities : Schedule(e)
  BY <1>21 DEF Schedule
<1>22. CASE \E e \in Entities : Unschedule(e)
  BY <1>22 DEF Unschedule
<1>23. CASE \E e \in Entities : EventArrives(e)
  BY <1>23 DEF EventArrives
<1>24. CASE \E e \in Entities : EventNotify(e)
  BY <1>24 DEF EventNotify
<1>. QED  BY <1>1, <1>2, <1>3, <1>4, <1>5, <1>6, <1>7, <1>8, <1>9, <1>10, <1>11, <1>12,
            <1>13, <1>14, <1>15, <1>16, <1>17, <1>18, <1>19, <1>20, <1>21, <1>22, <1>23,
            <1>24
         DEF Next, DispatcherStep, WorkerStep, AsyncStep, StopperStep, StopAllJobs

-------------------------------------------------------------------------------
(* What the dispatcher decides.                                            *)

\* The condition of an entity the dispatcher is about to hand to a worker stays READY.
LEMMA DecidedReadyStep ==
    ASSUME IInv, Next
    PROVE  DecidedReady'
<1>. USE DEF IInv, TypeOK, ThreadFacts, HasJob, NoJob, NextKnown, StopKnown, StopLabels,
             DecidedLabels, Conditions, Somewhere, Held, Apart, DecidedReady,
             UpdateCondition
<1>1. CASE \/ Loop \/ NoCheckJobs \/ CheckFails \/ Deadlock
           \/ NoDeadlock \/ DurationExpired \/ NonePending \/ Drained
           \/ Ending
           \/ \E e \in Entities : CheckPending(e)
           \/ \E e \in Entities : CheckPendingFails(e)
           \/ Join
  BY <1>1 DEF Loop, NoCheckJobs, CheckFails, Deadlock, NothingToRun, NoDeadlock,
       DurationExpired, NonePending, Drained, Ending, CheckPending, CheckPendingFails, Join
<1>2. CASE \/ AsyncLoop \/ ScanEnds \/ Wait \/ Block
           \/ \E w \in Workers : NoWorkerJobs(w) \/ Execute(w) \/ TickFails(w) \/ Done(w)
           \/ StopRequested \/ JoinDispatcher
  BY <1>2 DEF AsyncLoop, ScanEnds, Wait, Block, NoWorkerJobs, Execute, TickFails,
       Done, StopRequested, JoinDispatcher
<1>3. CASE \/ \E t \in Threads \ {Async} : StopState(t)
           \/ \E t \in Threads \ {Async} : StopCheckJobs(t)
           \/ \E t \in Threads \ {Async} : StopWorkerJobs(t)
  BY <1>3 DEF StopState, StopCheckJobs, StopWorkerJobs
<1>4. CASE \E t \in Threads \ {Async} : Flush(t)
  BY <1>4 DEF Flush
<1>5. CASE \E e \in Entities : TakeCheckJob(e)
  BY <1>5 DEF TakeCheckJob
<1>6. CASE Check
  BY <1>6 DEF Check
<1>7. CASE UpdateJob
  BY <1>7 DEF UpdateJob
<1>8. CASE Place
  BY <1>8 DEF Place
<1>9. CASE \/ \E w \in Workers, e \in Entities : TakeWorkerJob(w, e)
           \/ \E w \in Workers : Unscheduled(w)
  BY <1>9 DEF TakeWorkerJob, Unscheduled
<1>10. CASE \E w \in Workers : DropJob(w)
  BY <1>10 DEF DropJob
<1>11. CASE \E w \in Workers : Tick(w)
  BY <1>11 DEF Tick
<1>12. CASE \/ \E w \in Workers : ReturnJob(w)
            \/ \E w \in Workers : NotifyDone(w)
  BY <1>12 DEF ReturnJob, NotifyDone
<1>13. CASE \/ Export
            \/ Scan
            \/ ForgetEvent
            \/ InsertJob
  BY <1>13 DEF Export, Scan, ForgetEvent, InsertJob
<1>14. CASE \E e \in Entities : Schedule(e)
  BY <1>14 DEF Schedule
<1>15. CASE \E e \in Entities : Unschedule(e)
  BY <1>15 DEF Unschedule
<1>16. CASE \E e \in Entities : EventArrives(e)
  BY <1>16 DEF EventArrives
<1>17. CASE \E e \in Entities : EventNotify(e)
  BY <1>17 DEF EventNotify
<1>. QED  BY <1>1, <1>2, <1>3, <1>4, <1>5, <1>6, <1>7, <1>8, <1>9, <1>10, <1>11, <1>12,
            <1>13, <1>14, <1>15, <1>16, <1>17
         DEF Next, DispatcherStep, WorkerStep, AsyncStep, StopperStep, StopAllJobs

\* What has been handed to the workers keeps its condition.
LEMMA WorkersReadyStep ==
    ASSUME IInv, Next
    PROVE  WorkersReady'
<1>. USE DEF IInv, TypeOK, ThreadFacts, HasJob, NoJob, NextKnown, StopKnown, StopLabels,
             DecidedLabels, Conditions, Somewhere, Held, Apart, DecidedReady,
             WorkersReady, UpdateCondition
<1>1. CASE \/ Loop \/ NoCheckJobs \/ CheckFails \/ Deadlock
           \/ NoDeadlock \/ DurationExpired \/ NonePending \/ Drained
           \/ Ending
           \/ \E e \in Entities : CheckPending(e)
           \/ \E e \in Entities : CheckPendingFails(e)
           \/ Join
  BY <1>1 DEF Loop, NoCheckJobs, CheckFails, Deadlock, NothingToRun, NoDeadlock,
       DurationExpired, NonePending, Drained, Ending, CheckPending, CheckPendingFails, Join
<1>2. CASE \/ AsyncLoop \/ ScanEnds \/ Wait \/ Block
           \/ \E w \in Workers : NoWorkerJobs(w) \/ Execute(w) \/ TickFails(w) \/ Done(w)
           \/ StopRequested \/ JoinDispatcher
  BY <1>2 DEF AsyncLoop, ScanEnds, Wait, Block, NoWorkerJobs, Execute, TickFails,
       Done, StopRequested, JoinDispatcher
<1>3. CASE \/ \E t \in Threads \ {Async} : StopState(t)
           \/ \E t \in Threads \ {Async} : StopCheckJobs(t)
           \/ \E t \in Threads \ {Async} : StopWorkerJobs(t)
  BY <1>3 DEF StopState, StopCheckJobs, StopWorkerJobs
<1>4. CASE \E t \in Threads \ {Async} : Flush(t)
  BY <1>4 DEF Flush
<1>5. CASE \E e \in Entities : TakeCheckJob(e)
  BY <1>5 DEF TakeCheckJob
<1>6. CASE Check
  BY <1>6 DEF Check
<1>7. CASE UpdateJob
  BY <1>7 DEF UpdateJob
<1>8. CASE Place
  BY <1>8 DEF Place
<1>9. CASE \/ \E w \in Workers, e \in Entities : TakeWorkerJob(w, e)
           \/ \E w \in Workers : Unscheduled(w)
  BY <1>9 DEF TakeWorkerJob, Unscheduled
<1>10. CASE \E w \in Workers : DropJob(w)
  BY <1>10 DEF DropJob
<1>11. CASE \E w \in Workers : Tick(w)
  BY <1>11 DEF Tick
<1>12. CASE \/ \E w \in Workers : ReturnJob(w)
            \/ \E w \in Workers : NotifyDone(w)
  BY <1>12 DEF ReturnJob, NotifyDone
<1>13. CASE \/ Export
            \/ Scan
            \/ ForgetEvent
            \/ InsertJob
  BY <1>13 DEF Export, Scan, ForgetEvent, InsertJob
<1>14. CASE \E e \in Entities : Schedule(e)
  BY <1>14 DEF Schedule
<1>15. CASE \E e \in Entities : Unschedule(e)
  BY <1>15 DEF Unschedule
<1>16. CASE \E e \in Entities : EventArrives(e)
  BY <1>16 DEF EventArrives
<1>17. CASE \E e \in Entities : EventNotify(e)
  BY <1>17 DEF EventNotify
<1>. QED  BY <1>1, <1>2, <1>3, <1>4, <1>5, <1>6, <1>7, <1>8, <1>9, <1>10, <1>11, <1>12,
            <1>13, <1>14, <1>15, <1>16, <1>17
         DEF Next, DispatcherStep, WorkerStep, AsyncStep, StopperStep, StopAllJobs

\* If no entity counts as ready, none has the condition READY.
LEMMA NoneReady ==
    ASSUME CountsExact, ready_count = 0
    PROVE  \A e \in Entities : conditions[e] # "READY"
<1>. DEFINE R == {e \in Entities : conditions[e] = "READY"}
<1>1. IsFiniteSet(R) /\ Cardinality(R) = 0
  BY FiniteAssumption, FS_Subset DEF CountsExact
<1>2. R = {}
  BY <1>1, FS_EmptySet
<1>. QED  BY <1>2

\* The workers have nothing when the dispatcher decides to end, and get nothing
\* until it goes on.
LEMMA IdleStep ==
    ASSUME IInv, Next
    PROVE  DeadlockMeansIdle'
<1>. USE DEF IInv, TypeOK, ThreadFacts, HasJob, NoJob, NextKnown, StopKnown, StopLabels,
             DecidedLabels, Conditions, Somewhere, Held, Apart, WorkersReady,
             DeadlockMeansIdle
<1>1. CASE \/ Loop \/ NoCheckJobs \/ CheckFails \/ Deadlock
           \/ NoDeadlock \/ DurationExpired \/ NonePending \/ Drained
           \/ Ending
           \/ \E e \in Entities : CheckPending(e)
           \/ \E e \in Entities : CheckPendingFails(e)
           \/ Join
  BY <1>1, NoneReady DEF Loop, NoCheckJobs, CheckFails, Deadlock, NothingToRun,
       NoDeadlock, DurationExpired, NonePending, Drained, Ending, CheckPending,
       CheckPendingFails, Join
<1>2. CASE \/ AsyncLoop \/ ScanEnds \/ Wait \/ Block
           \/ \E w \in Workers : NoWorkerJobs(w) \/ Execute(w) \/ TickFails(w) \/ Done(w)
           \/ StopRequested \/ JoinDispatcher
  BY <1>2 DEF AsyncLoop, ScanEnds, Wait, Block, NoWorkerJobs, Execute, TickFails,
       Done, StopRequested, JoinDispatcher
<1>3. CASE \/ \E t \in Threads \ {Async} : StopState(t)
           \/ \E t \in Threads \ {Async} : StopCheckJobs(t)
           \/ \E t \in Threads \ {Async} : StopWorkerJobs(t)
  BY <1>3 DEF StopState, StopCheckJobs, StopWorkerJobs
<1>4. CASE \E t \in Threads \ {Async} : Flush(t)
  BY <1>4 DEF Flush
<1>5. CASE \E e \in Entities : TakeCheckJob(e)
  BY <1>5 DEF TakeCheckJob
<1>6. CASE Check
  BY <1>6 DEF Check
<1>7. CASE UpdateJob
  BY <1>7 DEF UpdateJob
<1>8. CASE Place
  BY <1>8 DEF Place
<1>9. CASE \/ \E w \in Workers, e \in Entities : TakeWorkerJob(w, e)
           \/ \E w \in Workers : Unscheduled(w)
  BY <1>9 DEF TakeWorkerJob, Unscheduled
<1>10. CASE \E w \in Workers : DropJob(w)
  BY <1>10 DEF DropJob
<1>11. CASE \E w \in Workers : Tick(w)
  BY <1>11 DEF Tick
<1>12. CASE \/ \E w \in Workers : ReturnJob(w)
            \/ \E w \in Workers : NotifyDone(w)
  BY <1>12 DEF ReturnJob, NotifyDone
<1>13. CASE \/ Export
            \/ Scan
            \/ ForgetEvent
            \/ InsertJob
  BY <1>13 DEF Export, Scan, ForgetEvent, InsertJob
<1>14. CASE \E e \in Entities : Schedule(e)
  BY <1>14 DEF Schedule
<1>15. CASE \E e \in Entities : Unschedule(e)
  BY <1>15 DEF Unschedule
<1>16. CASE \E e \in Entities : EventArrives(e)
  BY <1>16 DEF EventArrives
<1>17. CASE \E e \in Entities : EventNotify(e)
  BY <1>17 DEF EventNotify
<1>. QED  BY <1>1, <1>2, <1>3, <1>4, <1>5, <1>6, <1>7, <1>8, <1>9, <1>10, <1>11, <1>12,
            <1>13, <1>14, <1>15, <1>16, <1>17
         DEF Next, DispatcherStep, WorkerStep, AsyncStep, StopperStep, StopAllJobs

-------------------------------------------------------------------------------
(* Events.                                                                 *)

\* No step forgets an event an entity waits for.
LEMMA EventPendingStep ==
    ASSUME IInv, Next
    PROVE  EventPending'
<1>. USE DEF IInv, TypeOK, ThreadFacts, HasJob, NoJob, NextKnown, StopKnown, StopLabels,
             DecidedLabels, Conditions, Somewhere, Held, Apart, EventPending, Has, Added,
             Removed
<1>1. CASE \/ Loop \/ NoCheckJobs \/ CheckFails \/ Deadlock
           \/ NoDeadlock \/ DurationExpired \/ NonePending \/ Drained
           \/ UpdateJob
           \/ Ending
           \/ \E e \in Entities : CheckPending(e)
           \/ \E e \in Entities : CheckPendingFails(e)
           \/ Join
  BY <1>1 DEF Loop, NoCheckJobs, CheckFails, Deadlock, NothingToRun, NoDeadlock,
       DurationExpired, NonePending, Drained, UpdateJob, Ending, CheckPending,
       CheckPendingFails, Join
<1>2. CASE \/ AsyncLoop \/ ScanEnds \/ Wait \/ Block
           \/ \E w \in Workers : NoWorkerJobs(w) \/ Execute(w) \/ TickFails(w) \/ Done(w)
           \/ StopRequested \/ JoinDispatcher
  BY <1>2 DEF AsyncLoop, ScanEnds, Wait, Block, NoWorkerJobs, Execute, TickFails,
       Done, StopRequested, JoinDispatcher
<1>3. CASE \/ \E t \in Threads \ {Async} : StopState(t)
           \/ \E t \in Threads \ {Async} : StopCheckJobs(t)
           \/ \E t \in Threads \ {Async} : StopWorkerJobs(t)
           \/ \E t \in Threads \ {Async} : Flush(t)
  BY <1>3 DEF StopState, StopCheckJobs, StopWorkerJobs, Flush
<1>4. CASE \E e \in Entities : TakeCheckJob(e)
  BY <1>4 DEF TakeCheckJob
<1>5. CASE Check
  BY <1>5 DEF Check
<1>6. CASE Place
  BY <1>6 DEF Place
<1>7. CASE \/ \E w \in Workers, e \in Entities : TakeWorkerJob(w, e)
           \/ \E w \in Workers : Unscheduled(w)
           \/ \E w \in Workers : DropJob(w)
           \/ \E w \in Workers : ReturnJob(w)
           \/ \E w \in Workers : NotifyDone(w)
  BY <1>7 DEF TakeWorkerJob, Unscheduled, DropJob, ReturnJob, NotifyDone
<1>8. CASE \E w \in Workers : Tick(w)
  BY <1>8 DEF Tick
<1>9. CASE \/ Export
           \/ InsertJob
  BY <1>9 DEF Export, InsertJob
<1>10. CASE Scan
  BY <1>10 DEF Scan
<1>11. CASE ForgetEvent
  BY <1>11 DEF ForgetEvent
<1>12. CASE \/ \E e \in Entities : Schedule(e)
            \/ \E e \in Entities : Unschedule(e)
  BY <1>12 DEF Schedule, Unschedule
<1>13. CASE \E e \in Entities : EventArrives(e)
  BY <1>13 DEF EventArrives
<1>14. CASE \E e \in Entities : EventNotify(e)
  BY <1>14 DEF EventNotify
<1>. QED  BY <1>1, <1>2, <1>3, <1>4, <1>5, <1>6, <1>7, <1>8, <1>9, <1>10, <1>11, <1>12,
            <1>13, <1>14
         DEF Next, DispatcherStep, WorkerStep, AsyncStep, StopperStep, StopAllJobs

-------------------------------------------------------------------------------
(* The invariant and its consequences.                                     *)

LEMMA InitInvariant == Init => IInv
<1>. SUFFICES ASSUME Init PROVE IInv
  OBVIOUS
<1>1. pc \in [Threads -> {"waitForJob", "loop", "dormant"}]
  BY DEF Init
<1>2. /\ pc[Dispatcher] = "loop" /\ pc[Async] = "loop"
      /\ \A w \in Workers : pc[w] = "waitForJob"
      /\ \A t \in Threads : job[t] = Null
      /\ state = "kRunning" /\ next = "none"
  BY DEF Init
<1>3. CountsExact
  <2>1. /\ {e \in Entities : conditions[e] = "READY"} = Initial
        /\ {e \in Entities : conditions[e] = "WAIT"} = {}
        /\ {e \in Entities : conditions[e] = "WAIT_EVENT"} = {}
    BY InitialAssumption DEF Init
  <2>. QED  BY <2>1, FS_EmptySet DEF Init, CountsExact
<1>4. TypeOK
  <2>1. Cardinality(Initial) \in Nat
    BY InitialAssumption, FiniteAssumption, FS_Subset, FS_CardinalityType
  <2>2. pc \in [Threads -> Labels]
    BY <1>1 DEF Labels
  <2>3. conditions \in [Entities -> {"READY", "WAIT", "WAIT_EVENT", "none"}]
    BY DEF Init
  <2>4. check_running \in BOOLEAN /\ worker_running \in BOOLEAN
    BY DEF Init
  <2>. QED  BY <2>1, <2>2, <2>3, <2>4, InitialAssumption
            DEF Init, TypeOK, NoEvents, Conditions
<1>5. ThreadFacts
  BY <1>2 DEF ThreadFacts, HasJob, NoJob, NextKnown, StopKnown, DecidedLabels, StopLabels,
              Init
<1>6. Apart /\ PlacedIsScheduled /\ ScheduledIsPlaced
  BY <1>2, InitialAssumption DEF Init, Apart, PlacedIsScheduled, ScheduledIsPlaced,
                                 Somewhere, Held
<1>7. DecidedReady /\ WorkersReady /\ DeadlockMeansIdle /\ EventPending
  BY <1>2 DEF Init, DecidedReady, WorkersReady, DeadlockMeansIdle, EventPending
<1>. QED  BY <1>3, <1>4, <1>5, <1>6, <1>7 DEF IInv

LEMMA Inductive == IInv /\ [Next]_vars => IInv'
<1>. SUFFICES ASSUME IInv, [Next]_vars PROVE IInv'
  OBVIOUS
<1>1. CASE Next
  <2>1. CountsExact'
    BY <1>1, CountsStep
  <2>2. TypeOK' /\ ThreadFacts'
    BY <1>1, <2>1, TypeStep, ThreadFactsStep
  <2>3. Apart' /\ PlacedIsScheduled' /\ ScheduledIsPlaced'
    BY <1>1, ApartStep, PlacedStep, ScheduledStep
  <2>4. DecidedReady' /\ WorkersReady' /\ DeadlockMeansIdle' /\ EventPending'
    BY <1>1, DecidedReadyStep, WorkersReadyStep, IdleStep, EventPendingStep
  <2>. QED  BY <2>1, <2>2, <2>3, <2>4 DEF IInv
<1>2. CASE UNCHANGED vars
  BY <1>2 DEF vars, IInv, TypeOK, ThreadFacts, HasJob, NoJob, NextKnown, StopKnown, Apart,
              PlacedIsScheduled, ScheduledIsPlaced, Somewhere, Held, CountsExact,
              DecidedReady, WorkersReady, DeadlockMeansIdle, EventPending
<1>. QED  BY <1>1, <1>2

LEMMA Invariant == Spec => []IInv
<1>. QED  BY InitInvariant, Inductive, PTL DEF Spec

\* The places of an entity, one by one.
LEMMA PlacesFacts ==
    ASSUME NEW e \in Entities
    PROVE  \A p : p \in Places(e) <=>
                     \/ p = "check" /\ e \in check_jobs
                     \/ p = "worker" /\ e \in worker_jobs
                     \/ p = "event" /\ e \in event_waiting
                     \/ p \in Threads /\ Held(p, e)
BY DEF Places, Holders, Held

\* Every member has its type, the counters that decide the end of a run included:
\* an updateCondition never counts below zero.
THEOREM TypeCorrect == Spec => []TypeOK
<1>1. IInv => TypeOK
  BY DEF IInv
<1>. QED  BY <1>1, Invariant, PTL

\* No entity is in two lists, in a list and with a thread, or with two threads:
\* insert and waitForJob of the job lists, the event list and schedule_abi move one
\* entity without a common lock.
THEOREM OnePlaceCorrect == Spec => []OnePlace
<1>1. IInv => OnePlace
  <2>. SUFFICES ASSUME IInv, NEW e \in Entities, NEW p \in Places(e), NEW q \in Places(e)
                PROVE  p = q
    BY DEF OnePlace
  <2>. QED  BY PlacesFacts DEF IInv, Apart
<1>. QED  BY <1>1, Invariant, PTL

\* Until the scheduler stops, the entities in conditions_ are those the lists and
\* the threads have: none is lost, and none goes on after it has been unscheduled.
THEOREM NoEntityLost == Spec => []ScheduledIsSomewhere
<1>1. IInv => ScheduledIsSomewhere
  <2>. SUFFICES ASSUME IInv, state = "kRunning", NEW e \in Entities
                PROVE  conditions[e] # "none" <=> Places(e) # {}
    BY DEF ScheduledIsSomewhere
  <2>1. Places(e) # {} <=> Somewhere(e)
    BY PlacesFacts DEF Somewhere
  <2>. QED  BY <2>1 DEF IInv, PlacedIsScheduled, ScheduledIsPlaced
<1>. QED  BY <1>1, Invariant, PTL

\* updateCondition keeps the counters equal to the numbers of entities.
THEOREM CountersCorrect == Spec => []CountsExact
<1>1. IInv => CountsExact
  BY DEF IInv
<1>. QED  BY <1>1, Invariant, PTL

\* When checkEndingCriteria decides that there is nothing to run, no worker has an
\* entity or is about to get one.
THEOREM DeadlockCorrect == Spec => []DeadlockMeansIdle
<1>1. IInv => DeadlockMeansIdle
  BY DEF IInv
<1>. QED  BY <1>1, Invariant, PTL

\* While the scheduler runs, no event is lost, even one that is notified before its
\* entity has been put into event_waiting_.
THEOREM NoEventLost == Spec => []EventNotLost
<1>1. IInv => EventNotLost
  BY DEF IInv, TypeOK, EventPending, EventNotLost
<1>. QED  BY <1>1, Invariant, PTL
===============================================================================
