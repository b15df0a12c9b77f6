--------------------- MODULE EventBasedSchedulerProofs ----------------------
(***************************************************************************)
(* Theorems of EventBasedScheduler, for any number of entities, workers    *)
(* and executions.                                                         *)
(***************************************************************************)
EXTENDS EventBasedScheduler, TLAPS, SequenceTheorems, FiniteSetTheorems

\* Where a thread has an entity, and where it has none.
JobLabels == {"clear", "count", "acquire", "execute", "tick", "notify",
              "release", "report", "push", "done", "busy", "present", "check",
              "update", "place"}
FreeLabels == {"idle", "waitForJob", "loop", "drain", "pop", "wait", "sleep",
               "loadRunning", "readReady", "readWaiting", "timedWait",
               "loadRunning2", "readReady2", "readWaiting2", "kStopping",
               "drained", "drainedSleep", "reportDeadlock", "unborn"}

\* A thread has an entity exactly where it needs one.
HasJob == \A t \in Threads : pc[t] \in JobLabels => job[t] \in Entities
NoJob ==
    \A t \in Threads : pc[t] \in FreeLabels => job[t] = Null

\* An entity a worker holds is acquired, and an acquired one is held.
Owned == \A w \in Workers : pc[w] \in Holding => job[w] \in acquired
AcquiredHeld ==
    state = "kRunning" =>
        \A e \in acquired \ unschedule :
            \E w \in Workers : pc[w] \in Holding /\ job[w] = e

\* The lists are cleared, and a worker keeps its result to itself, only when
\* the scheduler is not running.
StopKnown ==
    \A t \in Threads : pc[t] \in {"stopQueue", "flush", "done"} => state # "kRunning"

\* What is ticked is ready, and what is dropped for ever will never tick.
TickReady == \A w \in Workers : pc[w] = "tick" => term[job[w]] = "READY"
NeverFinal ==
    \A t \in Threads :
        pc[t] \in {"update", "place"} /\ next[t] = "NEVER" =>
            job[t] \in unschedule \/ term[job[t]] = "NEVER"
WorkerUnscheduled ==
    \A w \in Workers : pc[w] \in {"update", "place"} => job[w] \in unschedule

\* A tick leaves no entity to notify once it has been notified.
TargetNotified == \A w \in Workers : target[w] # Null => pc[w] = "notify"

\* What each thread knows by itself, and the inductive invariant.
ThreadFacts ==
    /\ HasJob /\ NoJob /\ StopKnown
    /\ Owned /\ OneWorkerPerEntity /\ WorkerUnscheduled
    /\ TickReady /\ NeverFinal /\ TargetNotified
IInv == TypeOK /\ ThreadFacts /\ AcquiredHeld /\ PresentIsQueued /\ ReadyNotForgotten

USE DEF run, queue, lists, flags, terms, threads, Threads, Dispatchers,
        Dispatcher, Async, Starter, Goto, Forget, Woken

-------------------------------------------------------------------------------
(* Facts about the lists of events.                                        *)

\* pushEvent keeps the type of a list and adds just its argument.
LEMMA PushedFacts ==
    ASSUME NEW S, NEW list \in Seq(S), NEW x \in S
    PROVE  /\ Pushed(list, x) \in Seq(S)
           /\ Has(Pushed(list, x), x)
           /\ \A y : Has(list, y) => Has(Pushed(list, x), y)
<1>1. CASE Has(list, x)
  BY <1>1 DEF Pushed
<1>2. CASE ~Has(list, x)
  <2>1. /\ Pushed(list, x) = Append(list, x)
        /\ Len(Append(list, x)) = Len(list) + 1
        /\ Append(list, x)[Len(list) + 1] = x
        /\ \A i \in 1..Len(list) : Append(list, x)[i] = list[i]
        /\ Append(list, x) \in Seq(S)
    BY <1>2, AppendProperties DEF Pushed
  <2>2. /\ DOMAIN list = 1..Len(list)
        /\ DOMAIN Append(list, x) = 1..(Len(list) + 1)
        /\ Len(list) \in Nat
    BY <2>1
  <2>. QED  BY <2>1, <2>2 DEF Has
<1>. QED  BY <1>1, <1>2

\* pushEvent loses no event that is in the list already.
LEMMA PushedKeeps ==
    ASSUME NEW S, NEW list \in Seq(S), NEW x \in S, NEW y, Has(list, y)
    PROVE  Has(Pushed(list, x), y)
BY PushedFacts

\* removeEvent keeps the type of a list and every other event in it.
LEMMA RemovedFacts ==
    ASSUME NEW S, NEW list \in Seq(S), NEW x
    PROVE  /\ Removed(list, x) \in Seq(S)
           /\ \A y : y # x /\ Has(list, y) => Has(Removed(list, x), y)
<1>1. CASE ~Has(list, x)
  BY <1>1 DEF Removed
<1>2. CASE Has(list, x)
  <2>. DEFINE i == CHOOSE k \in DOMAIN list : list[k] = x
              front == SubSeq(list, 1, i - 1)
              back == SubSeq(list, i + 1, Len(list))
  <2>1. i \in 1..Len(list) /\ list[i] = x
    BY <1>2 DEF Has
  <2>2. Removed(list, x) = front \o back
    BY <1>2 DEF Removed
  <2>. HIDE DEF i
  <2>3. /\ front \in Seq(S) /\ Len(front) = i - 1
        /\ \A k \in 1..(i - 1) : front[k] = list[k]
    BY <2>1, SubSeqProperties
  <2>4. /\ back \in Seq(S) /\ Len(back) = Len(list) - i
        /\ \A k \in 1..(Len(list) - i) : back[k] = list[i + k]
    <3>1. CASE i = Len(list)
      <4>1. back = << >>
        BY <3>1, <2>1
      <4>. QED  BY <4>1, <3>1, <2>1
    <3>2. CASE i < Len(list)
      BY <3>2, <2>1, SubSeqProperties
    <3>. QED  BY <3>1, <3>2, <2>1
  <2>. HIDE DEF front, back
  <2>5. /\ front \o back \in Seq(S)
        /\ Len(front \o back) = Len(list) - 1
        /\ \A k \in 1..(i - 1) : (front \o back)[k] = list[k]
        /\ \A k \in (i + 1)..Len(list) : (front \o back)[k - 1] = list[k]
    <3>1. /\ front \o back \in Seq(S)
          /\ Len(front \o back) = Len(front) + Len(back)
          /\ \A k \in 1..(Len(front) + Len(back)) :
                (front \o back)[k] = IF k <= Len(front) THEN front[k]
                                     ELSE back[k - Len(front)]
      BY <2>3, <2>4, ConcatProperties
    <3>2. ASSUME NEW k \in (i + 1)..Len(list)
          PROVE  (front \o back)[k - 1] = list[k]
      <4>1. /\ k - 1 \in 1..(Len(front) + Len(back))
            /\ ~(k - 1 <= Len(front))
            /\ (k - 1) - Len(front) = k - i
            /\ k - i \in 1..(Len(list) - i)
            /\ i + (k - i) = k
        BY <2>1, <2>3, <2>4
      <4>. QED  BY <4>1, <3>1, <2>4
    <3>. QED  BY <3>1, <3>2, <2>1, <2>3, <2>4
  <2>6. ASSUME NEW y, y # x, Has(list, y)
        PROVE  Has(front \o back, y)
    <3>1. PICK k \in 1..Len(list) : list[k] = y
      BY <2>6 DEF Has
    <3>2. k # i
      BY <3>1, <2>1, <2>6
    <3>3. DOMAIN (front \o back) = 1..(Len(list) - 1)
      BY <2>5
    <3>4. CASE k < i
      <4>1. k \in 1..(Len(list) - 1) /\ (front \o back)[k] = y
        BY <3>1, <3>4, <2>1, <2>5
      <4>. QED  BY <4>1, <3>3 DEF Has
    <3>5. CASE k > i
      <4>1. k - 1 \in 1..(Len(list) - 1) /\ (front \o back)[k - 1] = y
        BY <3>1, <3>5, <2>1, <2>5
      <4>. QED  BY <4>1, <3>3 DEF Has
    <3>. QED  BY <3>1, <3>2, <3>4, <3>5, <2>1
  <2>. QED  BY <2>2, <2>5, <2>6
<1>. QED  BY <1>1, <1>2

\* popEvent loses only the event it returns.
LEMMA PoppedFacts ==
    ASSUME NEW S, NEW list \in Seq(S), list # << >>
    PROVE  /\ Head(list) \in S
           /\ Tail(list) \in Seq(S)
           /\ \A y : Has(list, y) => y = Head(list) \/ Has(Tail(list), y)
<1>1. /\ Head(list) \in S /\ Head(list) = list[1]
      /\ Tail(list) \in Seq(S) /\ Len(Tail(list)) = Len(list) - 1
      /\ \A k \in 1..Len(Tail(list)) : Tail(list)[k] = list[k + 1]
      /\ Len(list) \in Nat \ {0}
  BY HeadTailProperties, EmptySeq
<1>2. ASSUME NEW y, Has(list, y), y # Head(list)
      PROVE  Has(Tail(list), y)
  <2>1. PICK k \in 1..Len(list) : list[k] = y
    BY <1>2 DEF Has
  <2>2. k - 1 \in 1..Len(Tail(list)) /\ Tail(list)[k - 1] = y
    BY <2>1, <1>1, <1>2
  <2>3. DOMAIN Tail(list) = 1..Len(Tail(list))
    BY <1>1
  <2>. QED  BY <2>2, <2>3 DEF Has
<1>. QED  BY <1>1, <1>2

-------------------------------------------------------------------------------
(* Type correctness.                                                       *)

\* A step that only moves a thread to another label.
LEMMA JumpType ==
    ASSUME TypeOK, NEW t \in Threads, NEW from, NEW to \in Labels, Jump(t, from, to)
    PROVE  TypeOK'
BY DEF TypeOK, Jump

\* A step that pushes an event and wakes the dispatcher.
LEMMA NotifyType ==
    ASSUME TypeOK, NEW t \in Threads, NEW e \in Entities \cup {Null},
           NEW label \in Labels, NotifyDispatcher(t, e, label)
    PROVE  internal' \in Seq(Entities \cup {Null}) /\ pc' \in [Threads -> Labels]
<1>1. Pushed(internal, e) \in Seq(Entities \cup {Null})
  BY PushedFacts DEF TypeOK
<1>2. pc' \in [Threads -> Labels]
  BY DEF TypeOK, Labels, NotifyDispatcher
<1>. QED  BY <1>1, <1>2 DEF NotifyDispatcher

\* The steps of each kind of thread keep the types.
LEMMA StopAllJobsType ==
    ASSUME TypeOK, NEW t \in Threads, StopAllJobs(t)
    PROVE  TypeOK'
<1>1. CASE StopState(t)
  BY <1>1 DEF StopState, TypeOK, Labels
<1>2. CASE StopQueue(t)
  BY <1>2 DEF StopQueue, TypeOK, Labels
<1>3. CASE Flush(t)
  <2>1. AfterStop(t) \in Labels
    BY DEF AfterStop, Labels
  <2>2. pc' \in [Threads -> Labels]
    BY <1>3, <2>1 DEF Flush, TypeOK, Labels
  <2>3. external' \in Seq(Entities) /\ event_waiting' \subseteq Entities
    BY <1>3 DEF Flush
  <2>. QED  BY <1>3, <2>2, <2>3 DEF Flush, TypeOK, Conditions
<1>. QED  BY <1>1, <1>2, <1>3 DEF StopAllJobs

LEMMA UpdateConditionType ==
    ASSUME TypeOK, HasJob, NEW t \in Threads, UpdateCondition(t)
    PROVE  TypeOK'
<1>. USE DEF TypeOK, Conditions
<1>1. CASE LeaveCondition(t)
  BY <1>1 DEF LeaveCondition, Labels
<1>2. CASE EnterCondition(t)
  <2>1. job[t] \in Entities
    BY <1>2 DEF EnterCondition, HasJob, JobLabels
  <2>2. AfterUpdate(t) \in Labels
    BY DEF AfterUpdate, Labels
  <2>3. Removed(internal, job[t]) \in Seq(Entities \cup {Null})
    BY RemovedFacts
  <2>4. internal' \in Seq(Entities \cup {Null})
    BY <1>2, <2>3 DEF EnterCondition
  <2>5. ready' \subseteq Entities /\ present' \subseteq Entities /\ event_waiting' \subseteq Entities
    BY <1>2, <2>1 DEF EnterCondition
  <2>. QED  BY <1>2, <2>2, <2>4, <2>5 DEF EnterCondition
<1>. QED  BY <1>1, <1>2 DEF UpdateCondition

LEMMA WorkerType ==
    ASSUME TypeOK, HasJob, NEW w \in Workers, Worker(w)
    PROVE  TypeOK'
<1>. USE DEF TypeOK, Conditions
<1>0. w \in Threads
  OBVIOUS
<1>1. CASE Idle(w)
  BY <1>0, <1>1 DEF Idle, Labels
<1>2. CASE TakeJob(w)
  BY <1>0, <1>2 DEF TakeJob, Labels
<1>3. CASE CountRunning(w)
  BY <1>0, <1>3 DEF CountRunning, Labels
<1>4. CASE DropJob(w)
  BY <1>0, <1>4 DEF DropJob, Labels
<1>5. CASE ExecuteUnscheduled(w)
  BY <1>0, <1>5 DEF ExecuteUnscheduled, Labels
<1>6. CASE Release(w)
  BY <1>0, <1>6 DEF Release, Labels
<1>7. CASE ReportDone(w)
  BY <1>0, <1>7 DEF ReportDone, Labels
<1>8. CASE GoneAfterFailure(w)
  BY <1>0, <1>8 DEF GoneAfterFailure, Labels
<1>9. CASE Acquire(w)
  BY <1>0, <1>9 DEF Acquire, HasJob, JobLabels, Labels
<1>10. CASE ClearPresent(w)
  BY <1>0, <1>10 DEF ClearPresent, HasJob, JobLabels, Labels
<1>11. CASE Tick(w)
  <2>1. job[w] \in Entities
    BY <1>0, <1>11 DEF Tick, HasJob, JobLabels
  <2>. QED  BY <1>0, <2>1, <1>11 DEF Tick, Labels
<1>12. CASE NoMoreJobs(w)
  BY <1>0, <1>12, JumpType DEF NoMoreJobs, Labels
<1>13. CASE Execute(w)
  BY <1>0, <1>13, JumpType DEF Execute, Labels
<1>14. CASE TickFails(w)
  BY <1>0, <1>14, JumpType DEF TickFails, Labels
<1>15. CASE Report(w)
  BY <1>0, <1>15, JumpType DEF Report, Labels
<1>16. CASE NotifyTarget(w)
  <2>1. CASE target[w] = Null
    <3>1. internal' = internal /\ pc' = [pc EXCEPT ![w] = "release"]
      BY <1>16, <2>1 DEF NotifyTarget, Goto
    <3>2. internal' \in Seq(Entities \cup {Null}) /\ pc' \in [Threads -> Labels]
      BY <1>0, <3>1 DEF Labels
    <3>. QED  BY <1>0, <1>16, <3>2 DEF NotifyTarget
  <2>2. CASE target[w] # Null
    <3>1. internal' \in Seq(Entities \cup {Null}) /\ pc' \in [Threads -> Labels]
      BY <1>0, <1>16, <2>2, NotifyType DEF NotifyTarget, Labels
    <3>. QED  BY <1>0, <1>16, <3>1 DEF NotifyTarget
  <2>. QED  BY <2>1, <2>2
<1>17. CASE ReportJob(w)
  <2>1. internal' \in Seq(Entities \cup {Null}) /\ pc' \in [Threads -> Labels]
    BY <1>0, <1>17, NotifyType DEF ReportJob, Labels
  <2>. QED  BY <1>0, <1>17, <2>1 DEF ReportJob
<1>18. CASE ReportFailure(w)
  <2>1. internal' \in Seq(Entities \cup {Null}) /\ pc' \in [Threads -> Labels]
    BY <1>0, <1>18, NotifyType DEF ReportFailure, Labels
  <2>. QED  BY <1>0, <1>18, <2>1 DEF ReportFailure
<1>19. CASE UpdateCondition(w)
  BY <1>0, <1>19, UpdateConditionType
<1>20. CASE StopAllJobs(w)
  BY <1>0, <1>20, StopAllJobsType
<1>. QED  BY <1>1, <1>2, <1>3, <1>4, <1>5, <1>6, <1>7, <1>8, <1>9, <1>10, <1>11,
           <1>12, <1>13, <1>14, <1>15, <1>16, <1>17, <1>18, <1>19, <1>20 DEF Worker

LEMMA DispatchType ==
    ASSUME TypeOK, HasJob, NEW t \in Dispatchers, Dispatch(t)
    PROVE  TypeOK'
<1>. USE DEF TypeOK, Conditions
<1>0. t \in Threads
  OBVIOUS
<1>1. CASE Loop(t)
  BY <1>0, <1>1, JumpType DEF Loop, Labels
<1>2. CASE Drain(t)
  BY <1>0, <1>2, JumpType DEF Drain, Labels
<1>3. CASE NotBusy(t)
  BY <1>0, <1>3, JumpType DEF NotBusy, Labels
<1>4. CASE NotPresent(t)
  BY <1>0, <1>4, JumpType DEF NotPresent, Labels
<1>5. CASE CheckFails(t)
  BY <1>0, <1>5, JumpType DEF CheckFails, Labels
<1>6. CASE Wait(t)
  BY <1>0, <1>6, JumpType DEF Wait, Labels
<1>7. CASE LoadRunning(t)
  <2>1. Fails(t) \in Labels /\ Holds(t) \in Labels
    BY DEF Fails, Holds, Labels
  <2>. DEFINE to == IF running_threads = 0 THEN "readReady" ELSE Fails(t)
              to2 == IF running_threads = 0 THEN "readReady2" ELSE Fails(t)
  <2>2. to \in Labels /\ to2 \in Labels
    BY <2>1 DEF Labels
  <2>3. Jump(t, "loadRunning", to) \/ Jump(t, "loadRunning2", to2)
    BY <1>7 DEF LoadRunning
  <2>. HIDE DEF to, to2
  <2>4. CASE Jump(t, "loadRunning", to)
    BY <1>0, <2>2, <2>4, JumpType
  <2>5. CASE Jump(t, "loadRunning2", to2)
    BY <1>0, <2>2, <2>5, JumpType
  <2>. QED  BY <2>3, <2>4, <2>5
<1>8. CASE ReadReady(t)
  <2>1. Fails(t) \in Labels /\ Holds(t) \in Labels
    BY DEF Fails, Holds, Labels
  <2>. DEFINE to == IF state = "kRunning" /\ ready = {} THEN "readWaiting" ELSE Fails(t)
              to2 == IF state = "kRunning" /\ ready = {} THEN "readWaiting2" ELSE Fails(t)
  <2>2. to \in Labels /\ to2 \in Labels
    BY <2>1 DEF Labels
  <2>3. Jump(t, "readReady", to) \/ Jump(t, "readReady2", to2)
    BY <1>8 DEF ReadReady
  <2>. HIDE DEF to, to2
  <2>4. CASE Jump(t, "readReady", to)
    BY <1>0, <2>2, <2>4, JumpType
  <2>5. CASE Jump(t, "readReady2", to2)
    BY <1>0, <2>2, <2>5, JumpType
  <2>. QED  BY <2>3, <2>4, <2>5
<1>9. CASE ReadWaiting(t)
  <2>1. Fails(t) \in Labels /\ Holds(t) \in Labels
    BY DEF Fails, Holds, Labels
  <2>. DEFINE to == IF event_waiting = {} THEN Holds(t) ELSE Fails(t)
  <2>2. to \in Labels
    BY <2>1
  <2>. HIDE DEF to
  <2>3. Jump(t, "readWaiting", to) \/ Jump(t, "readWaiting2", to)
    BY <1>9 DEF ReadWaiting, to
  <2>4. CASE Jump(t, "readWaiting", to)
    BY <1>0, <2>2, <2>4, JumpType
  <2>5. CASE Jump(t, "readWaiting2", to)
    BY <1>0, <2>2, <2>5, JumpType
  <2>. QED  BY <2>3, <2>4, <2>5
<1>10. CASE PopNothing(t)
  BY <1>10 DEF PopNothing
<1>11. CASE DropNotification(t)
  BY <1>0, <1>11 DEF DropNotification, Labels
<1>12. CASE Check(t)
  <2>1. job[t] \in Entities
    BY <1>0, <1>12 DEF Check, HasJob, JobLabels
  <2>. QED  BY <1>0, <1>12, <2>1 DEF Check, Labels
<1>13. CASE Pop(t)
  <2>1. CASE t = Dispatcher
    <3>1. Head(internal) \in Entities \cup {Null} /\ Tail(internal) \in Seq(Entities \cup {Null})
      BY <1>13, <2>1, PoppedFacts DEF Pop, Notified
    <3>. QED  BY <1>0, <1>13, <2>1, <3>1 DEF Pop, Notified, Labels
  <2>2. CASE t # Dispatcher
    <3>1. Head(external) \in Entities /\ Tail(external) \in Seq(Entities)
      BY <1>13, <2>2, PoppedFacts DEF Pop, Notified
    <3>. QED  BY <1>0, <1>13, <2>2, <3>1 DEF Pop, Notified, Labels
  <2>. QED  BY <2>1, <2>2
<1>14. CASE UpdateCondition(t)
  BY <1>0, <1>14, UpdateConditionType
<1>15. CASE StopAllJobs(t)
  BY <1>0, <1>15, StopAllJobsType
<1>. QED  BY <1>1, <1>2, <1>3, <1>4, <1>5, <1>6, <1>7, <1>8, <1>9, <1>10, <1>11,
           <1>12, <1>13, <1>14, <1>15 DEF Dispatch, CheckEndingCriteria

LEMMA StartType ==
    ASSUME TypeOK, Start
    PROVE  TypeOK'
<1>. USE DEF TypeOK
<1>1. CASE StartAsync
  BY <1>1 DEF StartAsync, Labels
<1>2. ASSUME NEW w \in Workers, StartWorker(w)
      PROVE  TypeOK'
  BY <1>2 DEF StartWorker, Labels
<1>3. CASE AddRunning
  BY <1>3 DEF AddRunning, Labels
<1>4. CASE StartTimer
  BY <1>4 DEF StartTimer, Labels
<1>. QED  BY <1>1, <1>2, <1>3, <1>4 DEF Start

LEMMA NextType ==
    ASSUME TypeOK, HasJob, Next
    PROVE  TypeOK'
<1>. USE DEF TypeOK
<1>0. CASE Start
  BY <1>0, StartType
<1>1. CASE \E w \in Workers : Worker(w)
  BY <1>1, WorkerType
<1>2. CASE DispatcherStep
  <2>1. CASE Dispatch(Dispatcher)
    BY <2>1, DispatchType
  <2>2. CASE TimedWait \/ Drained \/ Join
    BY <2>2, JumpType DEF TimedWait, Drained, Join, Labels
  <2>3. CASE DeadlockStop
    BY <2>3 DEF DeadlockStop, Labels
  <2>4. CASE Stopped
    BY <2>4 DEF Stopped, Labels
  <2>5. CASE BeginJoin
    BY <2>5 DEF BeginJoin, Labels
  <2>. QED  BY <1>2, <2>1, <2>2, <2>3, <2>4, <2>5 DEF DispatcherStep
<1>3. CASE AsyncStep
  <2>1. CASE Dispatch(Async)
    BY <2>1, DispatchType
  <2>2. CASE ReportDeadlock
    <3>1. internal' \in Seq(Entities \cup {Null}) /\ pc' \in [Threads -> Labels]
      BY <2>2, NotifyType DEF ReportDeadlock, Labels
    <3>. QED  BY <2>2, <3>1 DEF ReportDeadlock
  <2>. QED  BY <1>3, <2>1, <2>2 DEF AsyncStep
<1>4. ASSUME NEW t \in Stoppers, StopRequested(t) \/ StopperStep(t)
      PROVE  TypeOK'
  <2>1. CASE StopRequested(t) \/ JoinDispatcher(t) \/ LockTimer(t) \/ JoinTimer(t)
             \/ TimerCancelled(t)
    BY <2>1, JumpType
       DEF StopRequested, JoinDispatcher, LockTimer, JoinTimer, TimerCancelled, Labels
  <2>2. CASE StopAllJobs(t)
    BY <2>2, StopAllJobsType
  <2>3. CASE NotifyStopped(t)
    <3>1. CASE t = "stop_abi"
      <4>1. internal' \in Seq(Entities \cup {Null}) /\ pc' \in [Threads -> Labels]
        BY <2>3, <3>1, NotifyType DEF NotifyStopped, Labels
      <4>. QED  BY <2>3, <4>1 DEF NotifyStopped
    <3>2. CASE t # "stop_abi"
      <4>1. pc' \in [Threads -> Labels]
        <5>1. pc' = Woken([pc EXCEPT ![t] = "gone"], Dispatcher)
          BY <2>3, <3>2 DEF NotifyStopped
        <5>. QED  BY <5>1 DEF Labels
      <4>. QED  BY <2>3, <3>2, <4>1 DEF NotifyStopped
    <3>. QED  BY <3>1, <3>2
  <2>. QED  BY <1>4, <2>1, <2>2, <2>3 DEF StopperStep
<1>5. ASSUME NEW e \in Entities, EventArrives(e) \/ EventNotify(e) \/ Unschedule(e)
      PROVE  TypeOK'
  <2>1. CASE EventArrives(e)
    BY <2>1 DEF EventArrives, Conditions
  <2>2. CASE Unschedule(e)
    BY <2>2 DEF Unschedule
  <2>3. CASE EventNotify(e)
    <3>1. Pushed(external, e) \in Seq(Entities)
      BY PushedFacts
    <3>. QED  BY <2>3, <3>1 DEF EventNotify, Labels
  <2>. QED  BY <1>5, <2>1, <2>2, <2>3
<1>. QED  BY <1>0, <1>1, <1>2, <1>3, <1>4, <1>5 DEF Next

-------------------------------------------------------------------------------
(* The parts of the invariant that speak of each thread by itself.         *)

\* The steps of each kind of thread keep what every thread knows by itself.
LEMMA WorkerThreadFacts ==
    ASSUME TypeOK, ThreadFacts, NEW w \in Workers, Worker(w)
    PROVE  ThreadFacts'
<1>. USE NullAssumption, StopperAssumption, WorkerAssumption
     DEF Jump, NotifyDispatcher, TypeOK, ThreadFacts,
           Idle, TakeJob, NoMoreJobs, ClearPresent, CountRunning, Acquire, DropJob,
           ExecuteUnscheduled, Execute, Tick, TickFails, NotifyTarget, Release,
           Report, ReportJob, ReportDone, ReportFailure, GoneAfterFailure,
           StopAllJobs, StopState, StopQueue, Flush, AfterStop,
           UpdateCondition, LeaveCondition, EnterCondition, AfterUpdate
<1>1. HasJob'
  <2>1. CASE UpdateCondition(w) \/ StopState(w) \/ StopQueue(w)
    BY <2>1, SMTT(30) DEF HasJob, JobLabels
  <2>2. CASE Flush(w)
    BY <2>2, SMTT(30) DEF HasJob, JobLabels
  <2>5. CASE NotifyTarget(w)
    BY <2>5, SMTT(30) DEF HasJob, JobLabels
  <2>6. CASE ReportJob(w) \/ ReportFailure(w)
    <3>1. \A t \in Threads : /\ pc'[t] \in JobLabels => t # w /\ pc'[t] = pc[t]
                             /\ t # w => job'[t] = job[t]
      BY <2>6 DEF JobLabels
    <3>. QED  BY <3>1 DEF HasJob
  <2>7. CASE ReportDone(w)
    BY <2>7, SMTT(30) DEF HasJob, JobLabels
  <2>3. CASE Release(w) \/ Report(w) \/ GoneAfterFailure(w) \/ Tick(w) \/ TickFails(w)
    BY <2>3, SMTT(30) DEF HasJob, JobLabels
  <2>4. CASE \/ Idle(w) \/ TakeJob(w) \/ NoMoreJobs(w) \/ ClearPresent(w)
             \/ CountRunning(w) \/ Acquire(w) \/ DropJob(w)
             \/ ExecuteUnscheduled(w) \/ Execute(w)
    BY <2>4, SMTT(30) DEF HasJob, JobLabels
  <2>. QED  BY <2>1, <2>2, <2>3, <2>4, <2>5, <2>6, <2>7 DEF Worker
<1>2. NoJob'
  BY SMTT(30) DEF Worker, NoJob, FreeLabels
<1>3. StopKnown'
  BY SMTT(30) DEF Worker, StopKnown
<1>4. Owned'
  BY SMTT(30) DEF Worker, Owned, HasJob, JobLabels, Holding, OneWorkerPerEntity
<1>5. OneWorkerPerEntity'
  BY SMTT(30) DEF Worker, OneWorkerPerEntity, Owned, HasJob, JobLabels, Holding
<1>6. WorkerUnscheduled'
  BY SMTT(30) DEF Worker, WorkerUnscheduled
<1>7. TickReady'
  BY SMTT(30) DEF Worker, TickReady, OneWorkerPerEntity, HasJob, JobLabels, Holding
<1>8. NeverFinal'
  <2>1. CASE UpdateCondition(w) \/ StopAllJobs(w)
    BY <2>1, SMTT(30) DEF NeverFinal, HasJob, JobLabels
  <2>2. CASE ExecuteUnscheduled(w)
    BY <2>2, SMTT(30) DEF NeverFinal, HasJob, JobLabels, TickReady, WorkerUnscheduled
  <2>5. CASE Tick(w)
    BY <2>5, SMTT(30) DEF NeverFinal, HasJob, JobLabels, TickReady, WorkerUnscheduled
  <2>6. CASE ReportDone(w)
    BY <2>6, SMTT(30) DEF NeverFinal, HasJob, JobLabels
  <2>3. CASE \/ Idle(w) \/ TakeJob(w) \/ NoMoreJobs(w) \/ ClearPresent(w)
             \/ CountRunning(w) \/ Acquire(w) \/ DropJob(w) \/ Execute(w)
    BY <2>3, SMTT(30) DEF NeverFinal, HasJob, JobLabels
  <2>4. CASE \/ TickFails(w) \/ NotifyTarget(w) \/ Release(w) \/ Report(w)
             \/ ReportJob(w) \/ ReportFailure(w) \/ GoneAfterFailure(w)
    BY <2>4, SMTT(30) DEF NeverFinal, HasJob, JobLabels
  <2>. QED  BY <2>1, <2>2, <2>3, <2>4, <2>5, <2>6 DEF Worker
<1>9. TargetNotified'
  BY SMTT(30) DEF Worker, TargetNotified
<1>. QED  BY <1>1, <1>2, <1>3, <1>4, <1>5, <1>6, <1>7, <1>8, <1>9

LEMMA DispatcherThreadFacts ==
    ASSUME TypeOK, ThreadFacts, DispatcherStep
    PROVE  ThreadFacts'
<1>. USE NullAssumption, StopperAssumption, WorkerAssumption
     DEF Jump, NotifyDispatcher, TypeOK, ThreadFacts,
           DispatcherStep, Dispatch, TimedWait, DeadlockStop, Drained, BeginJoin, Join, Stopped,
           Loop, Drain, Pop, PopNothing, DropNotification, NotBusy, NotPresent, Check,
           CheckFails, Wait, CheckEndingCriteria, LoadRunning, ReadReady,
           ReadWaiting, Holds, Fails, Notified,
           StopAllJobs, StopState, StopQueue, Flush, AfterStop,
           UpdateCondition, LeaveCondition, EnterCondition, AfterUpdate
<1>1. HasJob'
  BY SMTT(30) DEF HasJob, JobLabels
<1>2. NoJob'
  BY SMTT(30) DEF NoJob, FreeLabels
<1>3. StopKnown'
  BY SMTT(30) DEF StopKnown
<1>4. Owned'
  BY SMTT(30) DEF Owned, HasJob, JobLabels, Holding, OneWorkerPerEntity
<1>5. OneWorkerPerEntity'
  BY SMTT(30) DEF OneWorkerPerEntity, Owned, HasJob, JobLabels, Holding
<1>6. WorkerUnscheduled'
  BY SMTT(30) DEF WorkerUnscheduled
<1>7. TickReady'
  BY SMTT(30) DEF TickReady, OneWorkerPerEntity, HasJob, JobLabels, Holding
<1>8. NeverFinal'
  BY SMTT(30) DEF NeverFinal, HasJob, JobLabels, TickReady, WorkerUnscheduled
<1>9. TargetNotified'
  BY SMTT(30) DEF TargetNotified
<1>. QED  BY <1>1, <1>2, <1>3, <1>4, <1>5, <1>6, <1>7, <1>8, <1>9

LEMMA AsyncThreadFacts ==
    ASSUME TypeOK, ThreadFacts, AsyncStep
    PROVE  ThreadFacts'
<1>. USE NullAssumption, StopperAssumption, WorkerAssumption
     DEF Jump, NotifyDispatcher, TypeOK, ThreadFacts,
           AsyncStep, Dispatch, ReportDeadlock,
           Loop, Drain, Pop, PopNothing, DropNotification, NotBusy, NotPresent, Check,
           CheckFails, Wait, CheckEndingCriteria, LoadRunning, ReadReady,
           ReadWaiting, Holds, Fails, Notified,
           StopAllJobs, StopState, StopQueue, Flush, AfterStop,
           UpdateCondition, LeaveCondition, EnterCondition, AfterUpdate
<1>1. HasJob'
  BY SMTT(30) DEF HasJob, JobLabels
<1>2. NoJob'
  BY SMTT(30) DEF NoJob, FreeLabels
<1>3. StopKnown'
  BY SMTT(30) DEF StopKnown
<1>4. Owned'
  BY SMTT(30) DEF Owned, HasJob, JobLabels, Holding, OneWorkerPerEntity
<1>5. OneWorkerPerEntity'
  BY SMTT(30) DEF OneWorkerPerEntity, Owned, HasJob, JobLabels, Holding
<1>6. WorkerUnscheduled'
  BY SMTT(30) DEF WorkerUnscheduled
<1>7. TickReady'
  BY SMTT(30) DEF TickReady, OneWorkerPerEntity, HasJob, JobLabels, Holding
<1>8. NeverFinal'
  BY SMTT(30) DEF NeverFinal, HasJob, JobLabels, TickReady, WorkerUnscheduled
<1>9. TargetNotified'
  BY SMTT(30) DEF TargetNotified
<1>. QED  BY <1>1, <1>2, <1>3, <1>4, <1>5, <1>6, <1>7, <1>8, <1>9

LEMMA StopperThreadFacts ==
    ASSUME TypeOK, ThreadFacts, NEW t \in Stoppers, StopRequested(t) \/ StopperStep(t)
    PROVE  ThreadFacts'
<1>. USE NullAssumption, StopperAssumption, WorkerAssumption
     DEF Jump, NotifyDispatcher, TypeOK, ThreadFacts,
           StopRequested, StopperStep, NotifyStopped, JoinDispatcher, LockTimer,
           JoinTimer, TimerCancelled, StopAllJobs, StopState, StopQueue, Flush, AfterStop
<1>1. HasJob'
  BY SMTT(30) DEF HasJob, JobLabels
<1>2. NoJob'
  BY SMTT(30) DEF NoJob, FreeLabels
<1>3. StopKnown'
  BY SMTT(30) DEF StopKnown
<1>4. Owned'
  BY SMTT(30) DEF Owned, HasJob, JobLabels, Holding, OneWorkerPerEntity
<1>5. OneWorkerPerEntity'
  BY SMTT(30) DEF OneWorkerPerEntity, Owned, HasJob, JobLabels, Holding
<1>6. WorkerUnscheduled'
  BY SMTT(30) DEF WorkerUnscheduled
<1>7. TickReady'
  BY SMTT(30) DEF TickReady, OneWorkerPerEntity, HasJob, JobLabels, Holding
<1>8. NeverFinal'
  BY SMTT(30) DEF NeverFinal, HasJob, JobLabels, TickReady, WorkerUnscheduled
<1>9. TargetNotified'
  BY SMTT(30) DEF TargetNotified
<1>. QED  BY <1>1, <1>2, <1>3, <1>4, <1>5, <1>6, <1>7, <1>8, <1>9

LEMMA EventThreadFacts ==
    ASSUME TypeOK, ThreadFacts, NEW e \in Entities,
           EventArrives(e) \/ EventNotify(e) \/ Unschedule(e)
    PROVE  ThreadFacts'
<1>. USE NullAssumption, StopperAssumption, WorkerAssumption
     DEF Jump, NotifyDispatcher, TypeOK, ThreadFacts,
           EventArrives, EventNotify, Unschedule
<1>1. HasJob'
  BY SMTT(30) DEF HasJob, JobLabels
<1>2. NoJob'
  BY SMTT(30) DEF NoJob, FreeLabels
<1>3. StopKnown'
  BY SMTT(30) DEF StopKnown
<1>4. Owned'
  BY SMTT(30) DEF Owned, HasJob, JobLabels, Holding, OneWorkerPerEntity
<1>5. OneWorkerPerEntity'
  BY SMTT(30) DEF OneWorkerPerEntity, Owned, HasJob, JobLabels, Holding
<1>6. WorkerUnscheduled'
  BY SMTT(30) DEF WorkerUnscheduled
<1>7. TickReady'
  BY SMTT(30) DEF TickReady, OneWorkerPerEntity, HasJob, JobLabels, Holding
<1>8. NeverFinal'
  BY SMTT(30) DEF NeverFinal, HasJob, JobLabels, TickReady, WorkerUnscheduled
<1>9. TargetNotified'
  BY SMTT(30) DEF TargetNotified
<1>. QED  BY <1>1, <1>2, <1>3, <1>4, <1>5, <1>6, <1>7, <1>8, <1>9

\* The threads are created without a job, and nothing but their labels changes, and the count.
LEMMA StartFrame ==
    ASSUME TypeOK, Start
    PROVE  /\ UNCHANGED <<run, queue, lists, flags, terms, exited, job, next>>
           /\ \A t \in Threads :
                 \/ pc'[t] = pc[t]
                 \/ pc[t] = "unborn" /\ pc'[t] \in {"idle", "loop"}
                 \/ pc'[t] \in {"startWorkers", "addRunning", "gone", "dormant"} /\ t \notin Workers
<1>. USE WorkerAssumption, StopperAssumption DEF TypeOK
<1>1. CASE StartAsync
  BY <1>1 DEF StartAsync
<1>2. ASSUME NEW w \in Workers, StartWorker(w)
      PROVE  /\ UNCHANGED <<run, queue, lists, flags, terms, exited, job, next>>
             /\ \A t \in Threads :
                   \/ pc'[t] = pc[t]
                   \/ pc[t] = "unborn" /\ pc'[t] = "idle"
                   \/ pc'[t] = "addRunning" /\ t \notin Workers
  BY <1>2 DEF StartWorker
<1>3. CASE AddRunning
  BY <1>3 DEF AddRunning
<1>4. CASE StartTimer
  BY <1>4 DEF StartTimer
<1>. QED  BY <1>1, <1>2, <1>3, <1>4 DEF Start

LEMMA StartThreadFacts ==
    ASSUME TypeOK, ThreadFacts, Start
    PROVE  ThreadFacts'
<1>. USE StartFrame DEF ThreadFacts
<1>1. HasJob' /\ NoJob'
  BY DEF HasJob, NoJob, JobLabels, FreeLabels
<1>2. StopKnown' /\ NeverFinal'
  BY DEF StopKnown, NeverFinal
<1>3. Owned' /\ OneWorkerPerEntity'
  BY DEF Owned, OneWorkerPerEntity, Holding
<1>4. WorkerUnscheduled' /\ TickReady'
  BY DEF WorkerUnscheduled, TickReady
<1>5. TargetNotified'
  BY DEF TargetNotified
<1>. QED  BY <1>1, <1>2, <1>3, <1>4, <1>5

LEMMA NextThreadFacts ==
    ASSUME TypeOK, ThreadFacts, Next
    PROVE  ThreadFacts'
BY StartThreadFacts, WorkerThreadFacts, DispatcherThreadFacts, AsyncThreadFacts, StopperThreadFacts,
   EventThreadFacts DEF Next

-------------------------------------------------------------------------------
(* An acquired entity is with a worker.                                    *)

\* It is enough that no worker leaves an entity that stays acquired.
LEMMA HeldFrame ==
    ASSUME AcquiredHeld,
           acquired' \subseteq acquired,
           unschedule \subseteq unschedule',
           state' = "kRunning" => state = "kRunning",
           \A w \in Workers : pc[w] \in Holding =>
              \/ state' # "kRunning"
              \/ job[w] \in unschedule'
              \/ job[w] \notin acquired'
              \/ pc'[w] \in Holding /\ job'[w] = job[w]
    PROVE  AcquiredHeld'
BY DEF AcquiredHeld

\* A worker leaves an entity only after it has released it.
LEMMA WorkerHeld ==
    ASSUME TypeOK, ThreadFacts, AcquiredHeld, NEW w \in Workers, Worker(w)
    PROVE  AcquiredHeld'
<1>1. CASE Acquire(w)
  BY <1>1 DEF Acquire, AcquiredHeld, Holding, TypeOK
<1>2. CASE UpdateCondition(w) \/ StopAllJobs(w)
  BY <1>2, HeldFrame, SMTT(30), WorkerAssumption
     DEF StopAllJobs, StopState, StopQueue, Flush, AfterStop, TypeOK, Holding,
         UpdateCondition, LeaveCondition, EnterCondition, AfterUpdate,
         ThreadFacts, WorkerUnscheduled, StopKnown
<1>3. CASE \/ Idle(w) \/ TakeJob(w) \/ NoMoreJobs(w) \/ ClearPresent(w)
           \/ CountRunning(w) \/ DropJob(w) \/ ExecuteUnscheduled(w) \/ Execute(w)
  BY <1>3, HeldFrame, SMTT(30)
     DEF Idle, TakeJob, NoMoreJobs, ClearPresent, CountRunning, DropJob,
         ExecuteUnscheduled, Execute, Jump, TypeOK, Holding
<1>4. CASE Tick(w) \/ TickFails(w) \/ Release(w) \/ Report(w) \/ GoneAfterFailure(w)
  BY <1>4, HeldFrame, SMTT(30)
     DEF Tick, TickFails, Release, Report, GoneAfterFailure, Jump, TypeOK, Holding
<1>5. CASE NotifyTarget(w) \/ ReportJob(w)
  BY <1>5, HeldFrame, SMTT(30), WorkerAssumption
     DEF NotifyTarget, ReportJob, NotifyDispatcher, TypeOK, Holding
<1>6. CASE ReportDone(w) \/ ReportFailure(w)
  BY <1>6, HeldFrame, SMTT(30), WorkerAssumption
     DEF ReportDone, ReportFailure, NotifyDispatcher, TypeOK, Holding
<1>. QED  BY <1>1, <1>2, <1>3, <1>4, <1>5, <1>6 DEF Worker

\* The other threads touch no worker's entity.
LEMMA OthersHeld ==
    ASSUME TypeOK, ThreadFacts, AcquiredHeld,
           \/ Start \/ DispatcherStep \/ AsyncStep
           \/ \E t \in Stoppers : StopRequested(t) \/ StopperStep(t)
           \/ \E e \in Entities : EventArrives(e) \/ EventNotify(e) \/ Unschedule(e)
    PROVE  AcquiredHeld'
<1>. USE StopperAssumption, WorkerAssumption, HeldFrame
     DEF Jump, NotifyDispatcher, TypeOK, StopAllJobs, StopState, StopQueue, Flush,
         UpdateCondition, LeaveCondition, EnterCondition
<1>1. ASSUME NEW t \in Dispatchers, Dispatch(t)
      PROVE  AcquiredHeld'
  <2>1. CASE UpdateCondition(t) \/ StopAllJobs(t)
    BY <2>1
  <2>2. CASE Pop(t) \/ PopNothing(t) \/ DropNotification(t) \/ Check(t)
    BY <2>2 DEF Pop, PopNothing, DropNotification, Check
  <2>3. CASE \/ Loop(t) \/ Drain(t) \/ NotBusy(t) \/ NotPresent(t) \/ CheckFails(t)
             \/ Wait(t) \/ CheckEndingCriteria(t)
    BY <2>3 DEF Loop, Drain, NotBusy, NotPresent, CheckFails, Wait, CheckEndingCriteria,
         LoadRunning, ReadReady, ReadWaiting
  <2>. QED  BY <1>1, <2>1, <2>2, <2>3 DEF Dispatch
<1>5. CASE \/ TimedWait \/ DeadlockStop \/ Drained \/ BeginJoin \/ Join \/ Stopped
           \/ ReportDeadlock
  BY <1>5 DEF TimedWait, DeadlockStop, Drained, BeginJoin, Join, Stopped, ReportDeadlock
<1>2. CASE \E t \in Stoppers : StopRequested(t) \/ StopperStep(t)
  BY <1>2 DEF StopRequested, StopperStep, NotifyStopped, JoinDispatcher, LockTimer,
        JoinTimer, TimerCancelled
<1>3. CASE \E e \in Entities : EventArrives(e) \/ EventNotify(e) \/ Unschedule(e)
  BY <1>3 DEF EventArrives, EventNotify, Unschedule
<1>4. CASE Start
  BY <1>4, StartFrame DEF Holding
<1>. QED  BY <1>1, <1>2, <1>3, <1>4, <1>5 DEF DispatcherStep, AsyncStep

-------------------------------------------------------------------------------
(* An entity marked present is in the queue, or about to lose the mark.    *)

\* It is enough that an entity is marked only when it is queued, and that only
\* a worker that has cleared the mark moves on.
LEMMA PresentFrame ==
    ASSUME PresentIsQueued,
           present' \subseteq present \cup ready',
           ready \subseteq ready',
           \A w \in Workers : pc[w] = "clear" =>
              \/ job[w] \notin present'
              \/ pc'[w] = "clear" /\ job'[w] = job[w]
    PROVE  PresentIsQueued'
BY DEF PresentIsQueued

\* A worker that has taken an entity from the queue clears the mark.
LEMMA WorkerPresent ==
    ASSUME TypeOK, PresentIsQueued, NEW w \in Workers, Worker(w)
    PROVE  PresentIsQueued'
<1>1. CASE TakeJob(w)
  BY <1>1 DEF TakeJob, PresentIsQueued, TypeOK
<1>2. CASE UpdateCondition(w) \/ StopAllJobs(w)
  BY <1>2, PresentFrame, SMTT(30), WorkerAssumption
     DEF StopAllJobs, StopState, StopQueue, Flush, TypeOK,
         UpdateCondition, LeaveCondition, EnterCondition
<1>3. CASE \/ Idle(w) \/ NoMoreJobs(w) \/ ClearPresent(w) \/ CountRunning(w)
           \/ Acquire(w) \/ DropJob(w) \/ ExecuteUnscheduled(w) \/ Execute(w)
  BY <1>3, PresentFrame, SMTT(30)
     DEF Idle, NoMoreJobs, ClearPresent, CountRunning, Acquire, DropJob,
         ExecuteUnscheduled, Execute, Jump, TypeOK
<1>4. CASE Tick(w) \/ TickFails(w) \/ Release(w) \/ Report(w) \/ GoneAfterFailure(w)
  BY <1>4, PresentFrame, SMTT(30)
     DEF Tick, TickFails, Release, Report, GoneAfterFailure, Jump, TypeOK
<1>5. CASE NotifyTarget(w) \/ ReportJob(w)
  BY <1>5, PresentFrame, SMTT(30), WorkerAssumption
     DEF NotifyTarget, ReportJob, NotifyDispatcher, TypeOK
<1>6. CASE ReportDone(w) \/ ReportFailure(w)
  BY <1>6, PresentFrame, SMTT(30), WorkerAssumption
     DEF ReportDone, ReportFailure, NotifyDispatcher, TypeOK
<1>. QED  BY <1>1, <1>2, <1>3, <1>4, <1>5, <1>6 DEF Worker

\* The dispatchers mark an entity and queue it in one step.
LEMMA OthersPresent ==
    ASSUME TypeOK, PresentIsQueued,
           \/ Start \/ DispatcherStep \/ AsyncStep
           \/ \E t \in Stoppers : StopRequested(t) \/ StopperStep(t)
           \/ \E e \in Entities : EventArrives(e) \/ EventNotify(e) \/ Unschedule(e)
    PROVE  PresentIsQueued'
<1>. USE StopperAssumption, WorkerAssumption, PresentFrame
     DEF Jump, NotifyDispatcher, TypeOK, StopAllJobs, StopState, StopQueue, Flush,
         UpdateCondition, LeaveCondition, EnterCondition
<1>1. ASSUME NEW t \in Dispatchers, Dispatch(t)
      PROVE  PresentIsQueued'
  <2>1. CASE UpdateCondition(t) \/ StopAllJobs(t)
    BY <2>1
  <2>2. CASE Pop(t) \/ PopNothing(t) \/ DropNotification(t) \/ Check(t)
    BY <2>2 DEF Pop, PopNothing, DropNotification, Check
  <2>3. CASE \/ Loop(t) \/ Drain(t) \/ NotBusy(t) \/ NotPresent(t) \/ CheckFails(t)
             \/ Wait(t) \/ CheckEndingCriteria(t)
    BY <2>3 DEF Loop, Drain, NotBusy, NotPresent, CheckFails, Wait, CheckEndingCriteria,
         LoadRunning, ReadReady, ReadWaiting
  <2>. QED  BY <1>1, <2>1, <2>2, <2>3 DEF Dispatch
<1>5. CASE \/ TimedWait \/ DeadlockStop \/ Drained \/ BeginJoin \/ Join \/ Stopped
           \/ ReportDeadlock
  BY <1>5 DEF TimedWait, DeadlockStop, Drained, BeginJoin, Join, Stopped, ReportDeadlock
<1>2. CASE \E t \in Stoppers : StopRequested(t) \/ StopperStep(t)
  BY <1>2 DEF StopRequested, StopperStep, NotifyStopped, JoinDispatcher, LockTimer,
        JoinTimer, TimerCancelled
<1>3. CASE \E e \in Entities : EventArrives(e) \/ EventNotify(e) \/ Unschedule(e)
  BY <1>3 DEF EventArrives, EventNotify, Unschedule
<1>4. CASE Start
  BY <1>4, StartFrame
<1>. QED  BY <1>1, <1>2, <1>3, <1>4, <1>5 DEF DispatcherStep, AsyncStep

-------------------------------------------------------------------------------
(* A ready entity is attended to.                                          *)

\* A dispatcher that has the entity will queue it.
WillQueue(t, e) ==
    job[t] = e /\ (pc[t] \in {"update", "place"} => next[t] = "READY")

\* A step that takes nothing away from what attends to an entity.
LEMMA AttendedFrame ==
    ASSUME NEW e, Attended(e),
           e \in ready => e \in ready',
           e \in arrived => e \in arrived',
           Has(internal, e) => Has(internal', e),
           Has(external, e) => Has(external', e),
           \A w \in Workers : /\ job[w] = e => job'[w] = e
                              /\ target[w] = e => target'[w] = e,
           \A t \in Dispatchers : WillQueue(t, e) => WillQueue(t, e)'
    PROVE  Attended(e)'
BY DEF Attended, WillQueue

\* A step that only moves a thread, but not to where it places an entity.
LEMMA AttendedJump ==
    ASSUME TypeOK, NEW e, Attended(e), NEW t \in Threads, NEW from,
           NEW to \in Labels \ {"update", "place"}, Jump(t, from, to)
    PROVE  Attended(e)'
BY AttendedFrame DEF Jump, WillQueue, TypeOK

\* A worker that gives up an entity leaves it queued, notified, or with another.
LEMMA WorkerReady ==
    ASSUME TypeOK, ThreadFacts, AcquiredHeld, ReadyNotForgotten,
           NEW w \in Workers, Worker(w)
    PROVE  ReadyNotForgotten'
<1>. SUFFICES ASSUME state' = "kRunning", NEW e \in Entities, e \notin unschedule',
                     term'[e] = "READY"
              PROVE  Attended(e)'
  BY DEF ReadyNotForgotten
<1>. USE NullAssumption, WorkerAssumption DEF TypeOK
<1>1. CASE Tick(w)
  <2>1. CASE e = job[w]
    BY <1>1, <2>1 DEF Tick, Attended
  <2>2. CASE e # job[w] /\ term[e] = "READY"
    <3>1. Attended(e)
      BY <1>1, <2>2 DEF Tick, ReadyNotForgotten
    <3>2. target[w] # e
      BY <1>1 DEF Tick, ThreadFacts, TargetNotified
    <3>. QED  BY <1>1, <3>1, <3>2, AttendedFrame DEF Tick, WillQueue
  <2>3. CASE e # job[w] /\ term[e] # "READY"
    <3>1. target'[w] = e
      BY <1>1, <2>3 DEF Tick
    <3>. QED  BY <3>1 DEF Attended
  <2>. QED  BY <2>1, <2>2, <2>3
<1>2. ASSUME ~Tick(w)
      PROVE  Attended(e)'
  <2>1. state = "kRunning" /\ e \notin unschedule /\ term[e] = "READY"
    BY <1>2 DEF Worker, Idle, TakeJob, NoMoreJobs, ClearPresent, CountRunning,
         Acquire, DropJob, ExecuteUnscheduled, Execute, TickFails,
         NotifyTarget, Release, Report, ReportJob, ReportDone, ReportFailure,
         GoneAfterFailure, UpdateCondition, LeaveCondition, EnterCondition,
         StopAllJobs, StopState, StopQueue, Flush, Jump, NotifyDispatcher
  <2>2. Attended(e)
    BY <2>1 DEF ReadyNotForgotten
  <2>3. CASE TakeJob(w)
    <3>1. job[w] = Null
      BY <2>3 DEF TakeJob, ThreadFacts, NoJob, FreeLabels
    <3>2. CASE job'[w] = e
      BY <3>2 DEF Attended
    <3>3. CASE job'[w] # e
      BY <2>2, <2>3, <3>1, <3>3, AttendedFrame DEF TakeJob, WillQueue
    <3>. QED  BY <3>2, <3>3
  <2>4. CASE DropJob(w)
    <3>1. CASE job[w] = e
      <4>1. PICK v \in Workers : pc[v] \in Holding /\ job[v] = e
        BY <2>1, <2>4, <3>1 DEF DropJob, AcquiredHeld
      <4>2. v # w
        BY <2>4, <4>1 DEF DropJob, Holding
      <4>. QED  BY <2>4, <4>1, <4>2 DEF DropJob, Attended
    <3>2. CASE job[w] # e
      BY <2>2, <2>4, <3>2, AttendedFrame DEF DropJob, WillQueue
    <3>. QED  BY <3>1, <3>2
  <2>5. CASE NotifyTarget(w)
    <3>1. CASE target[w] = e
      <4>1. Has(internal', e)
        BY <2>5, <3>1, PushedFacts DEF NotifyTarget, NotifyDispatcher
      <4>. QED  BY <4>1 DEF Attended
    <3>2. CASE target[w] # e
      <4>1. Has(internal, e) => Has(internal', e)
        <5>1. CASE target[w] = Null
          BY <2>5, <5>1 DEF NotifyTarget
        <5>2. CASE target[w] # Null
          <6>1. internal' = Pushed(internal, target[w])
            BY <2>5, <5>2 DEF NotifyTarget, NotifyDispatcher
          <6>. QED  BY <6>1, PushedFacts
        <5>. QED  BY <5>1, <5>2
      <4>. QED  BY <2>2, <2>5, <3>2, <4>1, AttendedFrame
              DEF NotifyTarget, NotifyDispatcher, WillQueue
    <3>. QED  BY <3>1, <3>2
  <2>6. CASE ReportJob(w)
    <3>1. job[w] \in Entities
      BY <2>6 DEF ReportJob, NotifyDispatcher, ThreadFacts, HasJob, JobLabels
    <3>5. /\ internal' = Pushed(internal, job[w])
          /\ internal \in Seq(Entities \cup {Null}) /\ job[w] \in Entities \cup {Null}
      BY <2>6, <3>1 DEF ReportJob, NotifyDispatcher
    <3>6. Has(Pushed(internal, job[w]), job[w])
      BY <3>5, PushedFacts
    <3>7. ASSUME Has(internal, e)
          PROVE  Has(Pushed(internal, job[w]), e)
      BY ONLY <3>5, <3>7, PushedKeeps
    <3>2. Has(internal', job[w]) /\ (Has(internal, e) => Has(internal', e))
      BY <3>5, <3>6, <3>7, Zenon
    <3>3. CASE job[w] = e
      BY <3>2, <3>3 DEF Attended
    <3>4. CASE job[w] # e
      BY <2>2, <2>6, <3>2, <3>4, AttendedFrame
         DEF ReportJob, NotifyDispatcher, WillQueue
    <3>. QED  BY <3>3, <3>4
  <2>7. CASE ReportFailure(w)
    <3>1. Has(internal, e) => Has(internal', e)
      BY <2>7, PushedFacts DEF ReportFailure, NotifyDispatcher
    <3>. QED  BY <2>2, <2>7, <3>1, AttendedFrame
            DEF ReportFailure, NotifyDispatcher, WillQueue
  <2>8. CASE ReportDone(w) \/ StopAllJobs(w)
    <3>1. CASE StopQueue(w)
      BY <2>2, <3>1, AttendedFrame DEF StopQueue, WillQueue
    <3>. QED  BY <2>1, <2>8, <3>1
            DEF ReportDone, StopAllJobs, StopState, Flush, ThreadFacts, StopKnown
  <2>9. CASE LeaveCondition(w)
    BY <2>2, <2>9, AttendedFrame DEF LeaveCondition, WillQueue
  <2>10. CASE EnterCondition(w)
    <3>1. job[w] # e
      BY <2>1, <2>10 DEF EnterCondition, ThreadFacts, WorkerUnscheduled
    <3>2. Has(internal, e) => Has(internal', e)
      BY <2>10, <3>1, RemovedFacts DEF EnterCondition
    <3>. QED  BY <2>2, <2>10, <3>1, <3>2, AttendedFrame DEF EnterCondition, WillQueue
  <2>11. CASE NoMoreJobs(w) \/ Execute(w) \/ TickFails(w) \/ Report(w)
    BY <2>2, <2>11, AttendedJump DEF NoMoreJobs, Execute, TickFails, Report, Labels
  <2>12. CASE Idle(w)
    BY <2>2, <2>12, AttendedFrame DEF Idle, WillQueue
  <2>13. CASE CountRunning(w)
    BY <2>2, <2>13, AttendedFrame DEF CountRunning, WillQueue
  <2>14. CASE GoneAfterFailure(w)
    BY <2>2, <2>14, AttendedFrame DEF GoneAfterFailure, WillQueue
  <2>15. CASE ClearPresent(w)
    BY <2>2, <2>15, AttendedFrame DEF ClearPresent, WillQueue
  <2>16. CASE Acquire(w)
    BY <2>2, <2>16, AttendedFrame DEF Acquire, WillQueue
  <2>17. CASE ExecuteUnscheduled(w)
    BY <2>2, <2>17, AttendedFrame DEF ExecuteUnscheduled, WillQueue
  <2>18. CASE Release(w)
    BY <2>2, <2>18, AttendedFrame DEF Release, WillQueue
  <2>. QED  BY <1>2, <2>3, <2>4, <2>5, <2>6, <2>7, <2>8, <2>9, <2>10, <2>11,
             <2>12, <2>13, <2>14, <2>15, <2>16, <2>17, <2>18
          DEF Worker, UpdateCondition
<1>. QED  BY <1>1, <1>2

\* A notification is dropped only when something else attends to the entity.
LEMMA DispatchReady ==
    ASSUME TypeOK, ThreadFacts, PresentIsQueued, ReadyNotForgotten,
           NEW t \in Dispatchers, Dispatch(t)
    PROVE  ReadyNotForgotten'
<1>. SUFFICES ASSUME state' = "kRunning", NEW e \in Entities, e \notin unschedule',
                     term'[e] = "READY"
              PROVE  Attended(e)'
  BY DEF ReadyNotForgotten
<1>. USE NullAssumption, WorkerAssumption DEF TypeOK
<1>1. state = "kRunning" /\ e \notin unschedule /\ term[e] = "READY"
  BY DEF Dispatch, Loop, Drain, Pop, PopNothing, DropNotification, NotBusy,
       NotPresent, Check, CheckFails, Wait, CheckEndingCriteria, LoadRunning,
       ReadReady, ReadWaiting, UpdateCondition, LeaveCondition, EnterCondition,
       StopAllJobs, StopState, StopQueue, Flush, Jump
<1>2. Attended(e)
  BY <1>1 DEF ReadyNotForgotten
<1>3. CASE Pop(t)
  <2>1. job[t] = Null
    BY <1>3 DEF Pop, ThreadFacts, NoJob, FreeLabels
  <2>2. CASE job'[t] = e
    <3>1. pc'[t] \notin {"update", "place"}
      BY <1>3 DEF Pop
    <3>. QED  BY <2>2, <3>1 DEF Attended
  <2>3. CASE job'[t] # e
    <3>1. /\ Has(internal, e) => Has(internal', e)
          /\ Has(external, e) => Has(external', e)
      <4>1. CASE t = Dispatcher
        <5>1. /\ internal # << >> /\ internal' = Tail(internal)
              /\ Head(internal) # e /\ external' = external
          BY <1>3, <2>3, <4>1 DEF Pop, Notified
        <5>. QED  BY <5>1, PoppedFacts
      <4>2. CASE t # Dispatcher
        <5>1. /\ external # << >> /\ external' = Tail(external)
              /\ Head(external) # e /\ internal' = internal
          BY <1>3, <2>3, <4>2 DEF Pop, Notified
        <5>. QED  BY <5>1, PoppedFacts
      <4>. QED  BY <4>1, <4>2
    <3>. QED  BY <1>2, <1>3, <2>1, <3>1, AttendedFrame DEF Pop, WillQueue
  <2>. QED  BY <2>2, <2>3
<1>4. CASE DropNotification(t)
  <2>1. CASE job[t] = e
    <3>1. e \in ready \/ \E w \in Workers : job[w] = e
      BY <1>4, <2>1 DEF DropNotification, Busy, PresentIsQueued
    <3>2. ready' = ready /\ \A w \in Workers : job'[w] = job[w]
      BY <1>4 DEF DropNotification
    <3>. QED  BY <3>1, <3>2 DEF Attended
  <2>2. CASE job[t] # e
    BY <1>2, <1>4, <2>2, AttendedFrame DEF DropNotification, WillQueue
  <2>. QED  BY <2>1, <2>2
<1>5. CASE Check(t)
  BY <1>1, <1>2, <1>5, AttendedFrame DEF Check, WillQueue
<1>6. CASE LeaveCondition(t)
  BY <1>2, <1>6, AttendedFrame DEF LeaveCondition, WillQueue
<1>7. CASE EnterCondition(t)
  <2>1. CASE job[t] = e /\ next[t] = "READY"
    BY <1>7, <2>1 DEF EnterCondition, Attended
  <2>2. CASE ~(job[t] = e /\ next[t] = "READY")
    <3>1. Has(internal, e) => Has(internal', e)
      <4>1. next[t] = "NEVER" => job[t] # e
        BY <1>1, <1>7, <2>2 DEF EnterCondition, ThreadFacts, NeverFinal
      <4>. QED  BY <1>7, <4>1, RemovedFacts DEF EnterCondition
    <3>. QED  BY <1>2, <1>7, <2>2, <3>1, AttendedFrame DEF EnterCondition, WillQueue
  <2>. QED  BY <2>1, <2>2
<1>8. CASE StopAllJobs(t)
  <2>1. CASE StopQueue(t)
    BY <1>2, <2>1, AttendedFrame DEF StopQueue, WillQueue
  <2>. QED  BY <1>1, <1>8, <2>1 DEF StopAllJobs, StopState, Flush, ThreadFacts, StopKnown
<1>10. CASE PopNothing(t)
  BY <1>2, <1>10, AttendedFrame DEF PopNothing, WillQueue
<1>11. CASE Loop(t) \/ Drain(t) \/ NotBusy(t) \/ NotPresent(t) \/ CheckFails(t) \/ Wait(t)
  <2>1. PICK from, to \in Labels \ {"update", "place"} : Jump(t, from, to)
    <3>1. {"join", "gone", "drain", "pop", "loadRunning", "wait", "busy", "present", "check",
           "stopState", "loop", "sleep"} \subseteq Labels \ {"update", "place"}
      BY DEF Labels
    <3>2. CASE Loop(t) \/ Drain(t)
      BY <3>1, <3>2 DEF Loop, Drain
    <3>3. CASE NotBusy(t) \/ NotPresent(t)
      BY <3>1, <3>3 DEF NotBusy, NotPresent
    <3>4. CASE CheckFails(t) \/ Wait(t)
      BY <3>1, <3>4 DEF CheckFails, Wait
    <3>. QED  BY <1>11, <3>2, <3>3, <3>4
  <2>. QED  BY ONLY TypeOK, <1>2, <2>1, t \in Threads, AttendedJump
<1>12. CASE CheckEndingCriteria(t)
  <2>1. PICK from, to \in Labels \ {"update", "place"} : Jump(t, from, to)
    <3>1. {Fails(t), Holds(t), "loadRunning", "loadRunning2", "readReady", "readReady2",
           "readWaiting", "readWaiting2"} \subseteq Labels \ {"update", "place"}
      BY DEF Fails, Holds, Labels
    <3>2. CASE LoadRunning(t)
      BY <3>1, <3>2 DEF LoadRunning
    <3>3. CASE ReadReady(t)
      BY <3>1, <3>3 DEF ReadReady
    <3>4. CASE ReadWaiting(t)
      BY <3>1, <3>4 DEF ReadWaiting
    <3>. QED  BY <1>12, <3>2, <3>3, <3>4 DEF CheckEndingCriteria
  <2>. QED  BY ONLY TypeOK, <1>2, <2>1, t \in Threads, AttendedJump
<1>. QED  BY <1>3, <1>4, <1>5, <1>6, <1>7, <1>8, <1>10, <1>11, <1>12
        DEF Dispatch, UpdateCondition

\* The remaining steps notify, or stop the scheduler.
LEMMA OthersReady ==
    ASSUME TypeOK, ThreadFacts, PresentIsQueued, ReadyNotForgotten,
           \/ Start \/ DispatcherStep \/ AsyncStep
           \/ \E t \in Stoppers : StopRequested(t) \/ StopperStep(t)
           \/ \E e \in Entities : EventArrives(e) \/ EventNotify(e) \/ Unschedule(e)
    PROVE  ReadyNotForgotten'
<1>1. CASE Dispatch(Dispatcher) \/ Dispatch(Async)
  BY <1>1, DispatchReady
<1>. SUFFICES ASSUME ~Dispatch(Dispatcher), ~Dispatch(Async), state' = "kRunning",
                     NEW e \in Entities, e \notin unschedule', term'[e] = "READY"
              PROVE  Attended(e)'
  BY <1>1 DEF ReadyNotForgotten
<1>. USE NullAssumption, WorkerAssumption, StopperAssumption DEF TypeOK
<1>3. ASSUME NEW x \in Entities, EventArrives(x)
      PROVE  Attended(e)'
  <2>1. CASE e = x
    BY <1>3, <2>1 DEF EventArrives, Attended
  <2>2. CASE e # x
    <3>1. Attended(e)
      BY <1>3, <2>2 DEF EventArrives, ReadyNotForgotten
    <3>. QED  BY <1>3, <3>1, AttendedFrame DEF EventArrives, WillQueue
  <2>. QED  BY <2>1, <2>2
<1>4. CASE ~ \E x \in Entities : EventArrives(x)
  <2>1. state = "kRunning" /\ e \notin unschedule /\ term[e] = "READY"
    BY <1>4, StartFrame DEF DispatcherStep, AsyncStep, TimedWait, DeadlockStop, Drained,
         BeginJoin, Join, Stopped, ReportDeadlock, StopRequested, StopperStep, NotifyStopped,
         JoinDispatcher, LockTimer, JoinTimer, TimerCancelled, StopAllJobs, StopState, StopQueue, Flush,
         EventNotify, Unschedule, Jump, NotifyDispatcher
  <2>2. Attended(e)
    BY <2>1 DEF ReadyNotForgotten
  <2>3. CASE DispatcherStep
    <3>1. CASE TimedWait \/ Drained \/ Join
      BY <2>2, <3>1, AttendedJump DEF TimedWait, Drained, Join, Labels
    <3>2. CASE BeginJoin
      BY <2>2, <3>2, AttendedFrame DEF BeginJoin, WillQueue
    <3>. QED  BY <2>3, <3>1, <3>2 DEF DispatcherStep, DeadlockStop, Stopped
  <2>4. CASE AsyncStep
    <3>1. ReportDeadlock
      BY <2>4 DEF AsyncStep
    <3>2. Has(internal, e) => Has(internal', e)
      BY <3>1, PushedFacts DEF ReportDeadlock, NotifyDispatcher
    <3>. QED  BY <2>2, <3>1, <3>2, AttendedFrame
            DEF ReportDeadlock, NotifyDispatcher, WillQueue
  <2>5. ASSUME NEW t \in Stoppers, StopRequested(t) \/ StopperStep(t)
        PROVE  Attended(e)'
    <3>1. CASE NotifyStopped(t)
      <4>1. Has(internal, e) => Has(internal', e)
        <5>1. CASE t = "stop_abi"
          <6>1. internal' = Pushed(internal, Null)
            BY <3>1, <5>1 DEF NotifyStopped, NotifyDispatcher
          <6>. QED  BY <6>1, PushedFacts
        <5>2. CASE t # "stop_abi"
          BY <3>1, <5>2 DEF NotifyStopped
        <5>. QED  BY <5>1, <5>2
      <4>2. \A u \in Dispatchers : pc'[u] \in {"update", "place"} => pc'[u] = pc[u]
        BY <3>1 DEF NotifyStopped, NotifyDispatcher
      <4>. QED  BY <2>2, <3>1, <4>1, <4>2, AttendedFrame DEF NotifyStopped, WillQueue
    <3>2. CASE StopState(t) \/ Flush(t)
      BY <2>1, <3>2 DEF StopState, Flush, ThreadFacts, StopKnown
    <3>3. CASE StopQueue(t)
      BY <2>2, <3>3, AttendedFrame DEF StopQueue, WillQueue
    <3>4. CASE StopRequested(t) \/ JoinDispatcher(t) \/ LockTimer(t) \/ JoinTimer(t)
               \/ TimerCancelled(t)
      BY <2>2, <3>4, AttendedJump
         DEF StopRequested, JoinDispatcher, LockTimer, JoinTimer, TimerCancelled, Labels
    <3>. QED  BY <2>5, <3>1, <3>2, <3>3, <3>4 DEF StopperStep, StopAllJobs
  <2>6. ASSUME NEW x \in Entities, EventNotify(x)
        PROVE  Attended(e)'
    <3>1. Has(external', x) /\ (Has(external, e) => Has(external', e))
      BY <2>6, PushedFacts DEF EventNotify
    <3>2. CASE e = x
      BY <3>1, <3>2 DEF Attended
    <3>3. CASE e # x
      BY <2>2, <2>6, <3>1, <3>3, AttendedFrame DEF EventNotify, WillQueue
    <3>. QED  BY <3>2, <3>3
  <2>7. ASSUME NEW x \in Entities, Unschedule(x)
        PROVE  Attended(e)'
    BY <2>2, <2>7, AttendedFrame DEF Unschedule, WillQueue
  <2>8. CASE Start
    <3>1. \A t \in Dispatchers : WillQueue(t, e) => WillQueue(t, e)'
      BY <2>8, StartFrame DEF WillQueue
    <3>2. /\ ready' = ready /\ internal' = internal /\ external' = external
          /\ arrived' = arrived /\ target' = target /\ job' = job
      BY <2>8, StartFrame
    <3>. QED  BY <2>2, <3>1, <3>2, AttendedFrame
  <2>. QED  BY <1>4, <2>3, <2>4, <2>5, <2>6, <2>7, <2>8
<1>. QED  BY <1>3, <1>4

-------------------------------------------------------------------------------
(* running_threads_ counts the workers that are awake.                     *)

\* The worker that runs and is not counted yet.
Uncounted == IF pc[Starter] = "addRunning" THEN 1 ELSE 0

\* The eight bits of a number that grows or shrinks by one.
LEMMA Bits ==
    ASSUME NEW n \in Int
    PROVE  /\ ((n % 256) + 1) % 256 = (n + 1) % 256
           /\ ((n % 256) - 1) % 256 = (n - 1) % 256
OBVIOUS

LEMMA AwakeFinite == IsFiniteSet(Awake) /\ Cardinality(Awake) \in Nat
<1>1. IsFiniteSet(Awake)
  BY FiniteAssumption, FS_Subset DEF Awake
<1>. QED  BY <1>1, FS_CardinalityType

LEMMA CountIn ==
    ASSUME RunningThreadsExact, NEW w \in Workers \ Awake, Awake' = Awake \cup {w},
           Uncounted' = Uncounted, running_threads' = (running_threads + 1) % 256
    PROVE  RunningThreadsExact'
<1>. DEFINE n == Cardinality(Awake) - Uncounted
<1>1. Cardinality(Awake') = Cardinality(Awake) + 1
  BY AwakeFinite, FS_AddElement
<1>2. n \in Int /\ Cardinality(Awake') - Uncounted' = n + 1
  BY <1>1, AwakeFinite DEF Uncounted
<1>3. running_threads = n % 256
  BY DEF RunningThreadsExact, Uncounted
<1>. HIDE DEF n
<1>4. running_threads' = (n + 1) % 256
  BY <1>2, <1>3, Bits
<1>. QED  BY <1>2, <1>4 DEF RunningThreadsExact, Uncounted

LEMMA CountOut ==
    ASSUME RunningThreadsExact, NEW w \in Awake, Awake' = Awake \ {w},
           Uncounted' = Uncounted, running_threads' = (running_threads - 1) % 256
    PROVE  RunningThreadsExact'
<1>. DEFINE n == Cardinality(Awake) - Uncounted
<1>1. Cardinality(Awake') = Cardinality(Awake) - 1
  BY AwakeFinite, FS_RemoveElement
<1>2. n \in Int /\ Cardinality(Awake') - Uncounted' = n - 1
  BY <1>1, AwakeFinite DEF Uncounted
<1>3. running_threads = n % 256
  BY DEF RunningThreadsExact, Uncounted
<1>. HIDE DEF n
<1>4. running_threads' = (n - 1) % 256
  BY <1>2, <1>3, Bits
<1>. QED  BY <1>2, <1>4 DEF RunningThreadsExact, Uncounted

LEMMA CountSame ==
    ASSUME RunningThreadsExact, Awake' = Awake, Uncounted' = Uncounted,
           running_threads' = running_threads
    PROVE  RunningThreadsExact'
BY DEF RunningThreadsExact, Awake, Uncounted

\* A worker is awake and not counted from its creation to the addition that follows.
LEMMA StartCounts ==
    ASSUME TypeOK, RunningThreadsExact, Start
    PROVE  RunningThreadsExact'
<1>. USE WorkerAssumption, StopperAssumption DEF TypeOK
<1>1. CASE StartAsync
  BY <1>1, CountSame DEF StartAsync, Awake, Uncounted
<1>2. ASSUME NEW w \in Workers, StartWorker(w)
      PROVE  RunningThreadsExact'
  <2>1. w \notin Awake /\ Awake' = Awake \cup {w}
    BY <1>2 DEF StartWorker, Awake
  <2>2. Cardinality(Awake') = Cardinality(Awake) + 1
    BY <2>1, AwakeFinite, FS_AddElement
  <2>3. pc[Starter] = "startWorkers" /\ pc'[Starter] = "addRunning"
        /\ running_threads' = running_threads
    BY <1>2 DEF StartWorker
  <2>4. Cardinality(Awake') - 1 = Cardinality(Awake) - 0
    BY <2>2, AwakeFinite
  <2>. QED  BY <2>3, <2>4 DEF RunningThreadsExact
<1>3. CASE AddRunning
  <2>. DEFINE n == Cardinality(Awake) - 1
  <2>4. Awake' = Awake
    BY <1>3 DEF AddRunning, Goto, Awake
  <2>1. n \in Int /\ n + 1 = Cardinality(Awake') - 0
    BY <2>4, AwakeFinite
  <2>2. running_threads = n % 256 /\ running_threads' = (running_threads + 1) % 256
        /\ pc'[Starter] # "addRunning"
    BY <1>3 DEF AddRunning, RunningThreadsExact
  <2>. HIDE DEF n
  <2>3. running_threads' = (n + 1) % 256
    BY <2>1, <2>2, Bits
  <2>. QED  BY <2>1, <2>2, <2>3 DEF RunningThreadsExact
<1>4. CASE StartTimer
  <2>1. Awake' = Awake /\ Uncounted' = Uncounted
    BY <1>4 DEF StartTimer, Awake, Uncounted
  <2>. QED  BY <1>4, <2>1, CountSame DEF StartTimer
<1>. QED  BY <1>1, <1>2, <1>3, <1>4 DEF Start

LEMMA WorkerCounts ==
    ASSUME TypeOK, RunningThreadsExact, NEW w \in Workers, Worker(w)
    PROVE  RunningThreadsExact'
<1>0. /\ DOMAIN pc = Threads /\ Dispatcher \notin Workers /\ Async \notin Workers
      /\ Starter \notin Workers
  BY WorkerAssumption DEF TypeOK
<1>1. CASE Idle(w) \/ GoneAfterFailure(w)
  <2>1. w \in Awake /\ Awake' = Awake \ {w}
    BY <1>0, <1>1 DEF Idle, GoneAfterFailure, Awake, Uncounted
  <2>2. Uncounted' = Uncounted /\ running_threads' = (running_threads - 1) % 256
    BY <1>0, <1>1 DEF Idle, GoneAfterFailure, Goto, Uncounted
  <2>. QED  BY <2>1, <2>2, CountOut
<1>2. CASE CountRunning(w)
  <2>1. w \notin Awake /\ Awake' = Awake \cup {w}
    BY <1>0, <1>2 DEF CountRunning, Awake, Uncounted
  <2>2. Uncounted' = Uncounted /\ running_threads' = (running_threads + 1) % 256
    BY <1>0, <1>2 DEF CountRunning, Goto, Uncounted
  <2>. QED  BY <2>1, <2>2, CountIn
<1>3. CASE TakeJob(w) \/ NoMoreJobs(w) \/ ClearPresent(w)
  BY <1>0, <1>3, CountSame DEF TakeJob, NoMoreJobs, ClearPresent, Jump, Awake, Uncounted
<1>4. CASE \/ Acquire(w) \/ DropJob(w) \/ ExecuteUnscheduled(w) \/ Execute(w) \/ Tick(w)
           \/ TickFails(w) \/ Release(w) \/ Report(w)
  BY <1>0, <1>4, CountSame
     DEF Acquire, DropJob, ExecuteUnscheduled, Execute, Tick, TickFails, Release, Report,
         Jump, Awake, Uncounted
<1>5. CASE NotifyTarget(w) \/ ReportJob(w) \/ ReportFailure(w) \/ ReportDone(w)
  BY <1>0, <1>5, CountSame
     DEF NotifyTarget, ReportJob, ReportFailure, ReportDone, NotifyDispatcher, Awake, Uncounted
<1>6. CASE UpdateCondition(w) \/ StopAllJobs(w)
  BY <1>0, <1>6, CountSame
     DEF UpdateCondition, LeaveCondition, EnterCondition, AfterUpdate, StopAllJobs, StopState,
         StopQueue, Flush, AfterStop, Awake, Uncounted
<1>. QED  BY <1>1, <1>2, <1>3, <1>4, <1>5, <1>6 DEF Worker

\* Nobody else counts, or moves a worker.
LEMMA DispatchCounts ==
    ASSUME TypeOK, RunningThreadsExact, NEW t \in Dispatchers, Dispatch(t)
    PROVE  RunningThreadsExact'
<1>0. /\ DOMAIN pc = Threads /\ t \notin Workers /\ Async \notin Workers
      /\ t # Starter
  BY WorkerAssumption DEF TypeOK
<1>1. running_threads' = running_threads /\ \A w \in Workers \cup {Starter} : pc'[w] = pc[w]
  BY <1>0
     DEF Dispatch, Loop, Drain, Pop, PopNothing, DropNotification, NotBusy, NotPresent, Check,
         CheckFails, Wait, CheckEndingCriteria, LoadRunning, ReadReady, ReadWaiting,
         UpdateCondition, LeaveCondition, EnterCondition, StopAllJobs, StopState, StopQueue,
         Flush, Jump
<1>. QED  BY <1>1, CountSame DEF Awake, Uncounted

LEMMA OthersCount ==
    ASSUME TypeOK, RunningThreadsExact, Next, ~ \E w \in Workers : Worker(w)
    PROVE  RunningThreadsExact'
<1>0. /\ DOMAIN pc = Threads /\ Dispatcher \notin Workers /\ Async \notin Workers
      /\ Stoppers \cap Workers = {} /\ Starter \notin Workers \cup Stoppers
  BY WorkerAssumption, StopperAssumption DEF TypeOK
<1>1. CASE Dispatch(Dispatcher) \/ Dispatch(Async)
  BY <1>1, DispatchCounts
<1>2. CASE \/ TimedWait \/ DeadlockStop \/ Drained \/ BeginJoin \/ Join \/ Stopped
           \/ ReportDeadlock
  BY <1>0, <1>2, CountSame
     DEF TimedWait, DeadlockStop, Drained, BeginJoin, Join, Stopped, ReportDeadlock, NotifyDispatcher, Jump,
         Awake, Uncounted
<1>3. ASSUME NEW t \in Stoppers, StopRequested(t) \/ StopperStep(t) PROVE RunningThreadsExact'
  BY <1>0, <1>3, CountSame
     DEF StopRequested, StopperStep, StopAllJobs, StopState, StopQueue, Flush, NotifyStopped,
         JoinDispatcher, LockTimer, JoinTimer, TimerCancelled, NotifyDispatcher, Jump, Awake, Uncounted
<1>4. ASSUME NEW e \in Entities, EventArrives(e) \/ EventNotify(e) \/ Unschedule(e)
      PROVE  RunningThreadsExact'
  BY <1>0, <1>4, CountSame DEF EventArrives, EventNotify, Unschedule, Awake, Uncounted
<1>5. CASE Start
  BY <1>5, StartCounts
<1>. QED  BY <1>1, <1>2, <1>3, <1>4, <1>5 DEF Next, DispatcherStep, AsyncStep

-------------------------------------------------------------------------------
(* The theorems.                                                           *)

\* The inductive invariant: it holds initially, every step keeps it.
LEMMA InitInvariant ==
    ASSUME Init
    PROVE  IInv
<1>1. TypeOK
  <2>1. running_threads \in 0..255 /\ joining \subseteq Workers \cup {Async}
    BY DEF Init
  <2>2. pc \in [Threads -> Labels]
    BY DEF Init, Labels
  <2>3. /\ job \in [Threads -> Entities \cup {Null}]
        /\ next \in [Threads -> Conditions]
    BY DEF Init, Conditions
  <2>4. internal \in Seq(Entities \cup {Null}) /\ external \in Seq(Entities)
    BY DEF Init
  <2>. QED  BY <2>1, <2>2, <2>3, <2>4, DeadlockAssumption DEF Init, TypeOK, Conditions
<1>2. ThreadFacts
  BY NullAssumption, WorkerAssumption, StopperAssumption
     DEF Init, ThreadFacts, HasJob, NoJob, StopKnown, Owned, OneWorkerPerEntity,
         WorkerUnscheduled, TickReady, NeverFinal, TargetNotified, JobLabels,
         FreeLabels, Holding
<1>3. AcquiredHeld /\ PresentIsQueued /\ ReadyNotForgotten
  BY DEF Init, AcquiredHeld, PresentIsQueued, ReadyNotForgotten, Attended
<1>. QED  BY <1>1, <1>2, <1>3 DEF IInv

LEMMA NextInvariant ==
    ASSUME IInv, [Next]_vars
    PROVE  IInv'
<1>1. CASE Next
  <2>1. TypeOK' /\ ThreadFacts'
    BY <1>1, NextType, NextThreadFacts DEF IInv, ThreadFacts
  <2>2. CASE \E w \in Workers : Worker(w)
    BY <2>1, <2>2, WorkerHeld, WorkerPresent, WorkerReady DEF IInv
  <2>3. CASE ~ \E w \in Workers : Worker(w)
    <3>1. \/ Start \/ DispatcherStep \/ AsyncStep
          \/ \E t \in Stoppers : StopRequested(t) \/ StopperStep(t)
          \/ \E e \in Entities : EventArrives(e) \/ EventNotify(e) \/ Unschedule(e)
      BY <1>1, <2>3 DEF Next
    <3>2. AcquiredHeld'
      BY <3>1, OthersHeld DEF IInv
    <3>3. PresentIsQueued'
      BY <3>1, OthersPresent DEF IInv
    <3>4. ReadyNotForgotten'
      BY <3>1, OthersReady DEF IInv
    <3>. QED  BY <2>1, <3>2, <3>3, <3>4 DEF IInv
  <2>. QED  BY <2>2, <2>3
<1>2. CASE UNCHANGED vars
  <2>. USE <1>2 DEF vars
  <2>1. TypeOK' /\ ThreadFacts'
    BY DEF IInv, TypeOK, ThreadFacts, HasJob, NoJob, StopKnown, Owned,
         OneWorkerPerEntity, WorkerUnscheduled, TickReady, NeverFinal,
         TargetNotified
  <2>2. AcquiredHeld' /\ PresentIsQueued' /\ ReadyNotForgotten'
    BY DEF IInv, AcquiredHeld, PresentIsQueued, ReadyNotForgotten, Attended
  <2>. QED  BY <2>1, <2>2 DEF IInv
<1>. QED  BY <1>1, <1>2

LEMMA Invariance == Spec => []IInv
<1>. QED  BY InitInvariant, NextInvariant, PTL DEF Spec

\* Every field keeps its type, the eight bits of running_threads_ included.
THEOREM TypeCorrect == Spec => []TypeOK
<1>1. IInv => TypeOK
  BY DEF IInv
<1>. QED  BY <1>1, Invariance, PTL

\* tryToAcquire and releaseOwnership keep an entity with one worker at a time,
\* also while entities are unscheduled and executions fail.
THEOREM Exclusive == Spec => []OneWorkerPerEntity
<1>1. IInv => OneWorkerPerEntity
  BY DEF IInv, ThreadFacts
<1>. QED  BY <1>1, Invariance, PTL

\* The flag that makes the dispatchers drop notifications is never stale.
THEOREM PresentCorrect == Spec => []PresentIsQueued
<1>1. IInv => PresentIsQueued
  BY DEF IInv
<1>. QED  BY <1>1, Invariance, PTL

\* No interleaving of workers, dispatchers, notifications and requests to
\* unschedule makes the scheduler forget an entity that may tick.
THEOREM NoLostWakeup == Spec => []ReadyNotForgotten
<1>1. IInv => ReadyNotForgotten
  BY DEF IInv
<1>. QED  BY <1>1, Invariance, PTL

\* From its creation on, whichever way a worker takes to its next wait, it counts itself out
\* just once, and in again when it has a job; only the worker created last may be missing in
\* the number, until runAsync_abi adds it.  With nobody being created, zero means that every
\* worker waits, has just been given a job, or is gone.
THEOREM RunningIsExact == Spec => []RunningThreadsExact
<1>1. Init => RunningThreadsExact
  <2>. SUFFICES ASSUME Init PROVE RunningThreadsExact
    OBVIOUS
  <2>1. Awake = {} /\ pc[Starter] # "addRunning" /\ running_threads = 0
    BY WorkerAssumption DEF Init, Awake
  <2>2. Cardinality(Awake) = 0
    BY <2>1, FS_EmptySet
  <2>3. (0 - 0) % 256 = 0
    OBVIOUS
  <2>. QED  BY <2>1, <2>2, <2>3 DEF RunningThreadsExact
<1>2. TypeOK /\ RunningThreadsExact /\ [Next]_vars => RunningThreadsExact'
  <2>. SUFFICES ASSUME TypeOK, RunningThreadsExact, [Next]_vars PROVE RunningThreadsExact'
    OBVIOUS
  <2>1. CASE \E w \in Workers : Worker(w)
    BY <2>1, WorkerCounts
  <2>2. CASE Next /\ ~ \E w \in Workers : Worker(w)
    BY <2>2, OthersCount
  <2>3. CASE UNCHANGED vars
    BY <2>3, CountSame DEF vars, Awake, Uncounted
  <2>. QED  BY <2>1, <2>2, <2>3
<1>. QED  BY <1>1, <1>2, TypeCorrect, PTL DEF Spec
===============================================================================
