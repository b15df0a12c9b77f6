---------------------------- MODULE EntityExecutor ----------------------------
(***************************************************************************)
(* The entity executor (gxf/std/entity_executor.cpp): starts, ticks and    *)
(* stops the codelets of an entity.  Workers of a scheduler call           *)
(* executeEntity; other threads activate and deactivate entities.          *)
(*                                                                         *)
(* executeEntity takes the address of the entity's item under the mutex of *)
(* items_, looks at its status without a lock and executes it under        *)
(* execution_mutex_.  deactivate takes the item out of items_, stops it    *)
(* under execution_mutex_ and frees it.  A thread that still has the       *)
(* address of a freed item is "dangling": what it does is undefined, and   *)
(* here it does nothing more.                                              *)
(*                                                                         *)
(* Every call of a codelet, and every step that takes or releases a lock,  *)
(* is a step; pc[t] names the next one of thread t.  The conditions of the *)
(* scheduling terms, and whether a call of a codelet, a term or the router *)
(* succeeds, are left open.  The schedulers do not have two workers        *)
(* execute an entity at the same time.  Timestamps, statistics and tracing *)
(* are left out.                                                           *)
(***************************************************************************)
EXTENDS Naturals

CONSTANTS
    Entities,       \* the entities with codelets
    Workers,        \* the threads that execute entities
    Callers,        \* the threads that activate and deactivate entities
    None,           \* no thread, and no entity
    NumCodelets,    \* how many codelets each entity has
    Controlled,     \* the entities with an EntityCountFailureRepeatController
    MaxRepeatCount, \* its parameter max_repeat_count
    Overtaking      \* whether deactivate may come between taking an address and the lock

ASSUME CodeletsAssumption == NumCodelets \in [Entities -> Nat \ {0}]
ASSUME NoneAssumption == None \notin Workers \union Callers \union Entities
ASSUME ThreadsAssumption == Workers \cap Callers = {}
ASSUME RepeatAssumption == MaxRepeatCount \in Nat
ASSUME OvertakingAssumption == Overtaking \in BOOLEAN

VARIABLES
    items,          \* the entities in items_
    status,         \* status_ of the item of each entity
    lock,           \* the thread that has its execution_mutex_
    executions,     \* execution_count_ of its codelets, 2 standing for two and more
    repeat_count,   \* repeat_count_ of its controller
    started,        \* its codelets started and not stopped since
    failed,         \* whether the last codelet started failed to start
    ticked,         \* how often each was ticked since its start, 2 standing for two and more
    pc,             \* the next step of each thread
    item,           \* the entity whose item the thread has the address of
    codelet,        \* the index in the loop over the codelets
    code,           \* what tick has returned
    result          \* what executeEntity returns

item_vars == <<items, status, lock, executions, repeat_count>>
codelets == <<started, failed, ticked>>
threads == <<pc, item, codelet, code, result>>
vars == <<item_vars, codelets, threads>>

Threads == Workers \union Callers
Codelets(e) == 1 .. NumCodelets[e]
Once(n) == IF n = 2 THEN 2 ELSE n + 1

Status == {"NOT_STARTED", "START_PENDING", "STARTED", "TICK_PENDING", "TICKING", "IDLE",
           "STOP_PENDING"}
\* As Stoppable, an idle entity forgotten.
StoppableActive == {"STARTED", "TICK_PENDING", "TICKING"}

Stoppable == {"STARTED", "IDLE", "TICK_PENDING", "TICKING"}

\* The steps taken under execution_mutex_.
Locked == {"start", "check", "sync", "tick", "control", "stop"}
WorkerSteps == Locked \union {"idle", "fetched", "locking", "monitor", "dangling"}
CallerSteps == {"idle", "deactivating", "stop", "free"}

Code == {"success", "not finished", "failure"}
Result == {"ready", "wait", "never", "given up", "error"}

TypeOK ==
    /\ items \in SUBSET Entities
    /\ status \in [Entities -> Status]
    /\ lock \in [Entities -> Threads \union {None}]
    /\ executions \in [Entities -> 0 .. 2]
    /\ repeat_count \in [Entities -> 0 .. MaxRepeatCount + 1]
    /\ DOMAIN started = Entities /\ \A e \in Entities : started[e] \in SUBSET Codelets(e)
    /\ failed \in [Entities -> BOOLEAN]
    /\ DOMAIN ticked = Entities /\ \A e \in Entities : ticked[e] \in [Codelets(e) -> 0 .. 2]
    /\ pc \in [Threads -> WorkerSteps \union CallerSteps]
    /\ \A t \in Workers : pc[t] \in WorkerSteps
    /\ \A t \in Callers : pc[t] \in CallerSteps
    /\ item \in [Threads -> Entities \union {None}]
    /\ \A t \in Threads : pc[t] # "idle" => item[t] \in Entities
    /\ codelet \in [Threads -> Nat]
    /\ \A t \in Threads : pc[t] \in {"start", "tick", "stop"} => codelet[t] \in Codelets(item[t])
    /\ code \in [Threads -> Code]
    /\ result \in [Threads -> Result]

Init ==
    /\ items = {}
    /\ status = [e \in Entities |-> "NOT_STARTED"]
    /\ lock = [e \in Entities |-> None]
    /\ executions = [e \in Entities |-> 0]
    /\ repeat_count = [e \in Entities |-> 0]
    /\ started = [e \in Entities |-> {}]
    /\ failed = [e \in Entities |-> FALSE]
    /\ ticked = [e \in Entities |-> [i \in Codelets(e) |-> 0]]
    /\ pc = [t \in Threads |-> "idle"]
    /\ item = [t \in Threads |-> None]
    /\ codelet = [t \in Threads |-> 1]
    /\ code = [t \in Threads |-> "success"]
    /\ result = [t \in Threads |-> "ready"]

(* -- Steps ---------------------------------------------------------------*)

Goto(t, step) == pc' = [pc EXCEPT ![t] = step]
SetStatus(e, s) == status' = [status EXCEPT ![e] = s]
Unlock(e) == lock' = [lock EXCEPT ![e] = None]
Return(t, r) == result' = [result EXCEPT ![t] = r]

\* The variables of a call are gone when it returns.
Forget(t) ==
    /\ item' = [item EXCEPT ![t] = None]
    /\ codelet' = [codelet EXCEPT ![t] = 1]
    /\ code' = [code EXCEPT ![t] = "success"]
    /\ Return(t, "ready")

\* The loop over the codelets goes on after this one.
More(t) == codelet[t] < NumCodelets[item[t]]

\* As Leave, execution_mutex_ kept.
LeaveLocked(t, r) == UNCHANGED lock /\ Return(t, r) /\ Goto(t, "monitor")

\* Execution ends: execution_mutex_ is released and the monitors are called.
Leave(t, r) == Unlock(item[t]) /\ Return(t, r) /\ Goto(t, "monitor")

\* stop(): the codelets are stopped one by one; r is what is returned when they are.
BeginStop(t, r) ==
    /\ SetStatus(item[t], "STOP_PENDING")
    /\ codelet' = [codelet EXCEPT ![t] = 1]
    /\ Return(t, r)
    /\ Goto(t, "stop")

(* -- Activation and deactivation -----------------------------------------*)

\* No thread is deactivating an earlier item of e: the warden initializes the entity again
\* only after that.
Activate(t, e) ==
    /\ pc[t] = "idle" /\ e \notin items
    /\ \A u \in Callers : item[u] # e
    /\ items' = items \union {e}
    /\ SetStatus(e, "NOT_STARTED")
    /\ repeat_count' = [repeat_count EXCEPT ![e] = 0]
    /\ UNCHANGED <<lock, executions, codelets, threads>>

\* Without Overtaking no worker has the address of the item of e and not yet its lock.
Deactivate(t, e) ==
    /\ pc[t] = "idle" /\ e \in items
    /\ Overtaking \/ \A u \in Workers : item[u] = e => pc[u] \notin {"fetched", "locking"}
    /\ items' = items \ {e}
    /\ item' = [item EXCEPT ![t] = e]
    /\ Goto(t, "deactivating")
    /\ UNCHANGED <<status, lock, executions, repeat_count, codelets, codelet, code, result>>

DeactivateLock(t) ==
    /\ pc[t] = "deactivating" /\ lock[item[t]] = None
    /\ \/ /\ status[item[t]] \in Stoppable
          /\ lock' = [lock EXCEPT ![item[t]] = t]
          /\ BeginStop(t, "never")
       \/ /\ status[item[t]] \notin Stoppable
          /\ Goto(t, "free")
          /\ UNCHANGED <<status, lock, codelet, result>>
    /\ UNCHANGED <<items, executions, repeat_count, codelets, item, code>>

\* The item is freed at the end of deactivate, whoever still has its address.
Free(t) ==
    /\ pc[t] = "free"
    /\ pc' = [u \in Threads |->
                IF u = t THEN "idle"
                ELSE IF u \in Workers /\ item[u] = item[t] THEN "dangling"
                ELSE pc[u]]
    /\ lock' = [lock EXCEPT ![item[t]] = None]
    /\ Forget(t)
    /\ UNCHANGED <<items, status, executions, repeat_count, codelets>>

(* -- Execution -----------------------------------------------------------*)

ExecuteEntity(t, e) ==
    /\ pc[t] = "idle" /\ e \in items
    /\ \A u \in Workers : item[u] # e
    /\ item' = [item EXCEPT ![t] = e]
    /\ Goto(t, "fetched")
    /\ UNCHANGED <<item_vars, codelets, codelet, code, result>>

\* As CheckStatus, START_PENDING not looked for.
CheckStatusStarted(t) ==
    /\ pc[t] = "fetched"
    /\ \/ /\ status[item[t]] \in {"TICK_PENDING", "TICKING", "STOP_PENDING"}
          /\ Return(t, "error") /\ Goto(t, "monitor")
       \/ /\ status[item[t]] \in {"NOT_STARTED", "START_PENDING", "STARTED", "IDLE"}
          /\ Goto(t, "locking")
          /\ UNCHANGED result
    /\ UNCHANGED <<item_vars, codelets, item, codelet, code>>

CheckStatus(t) ==
    /\ pc[t] = "fetched"
    /\ \/ /\ status[item[t]] \in {"START_PENDING", "TICK_PENDING", "TICKING", "STOP_PENDING"}
          /\ Return(t, "error") /\ Goto(t, "monitor")
       \/ /\ status[item[t]] \in {"NOT_STARTED", "STARTED", "IDLE"}
          /\ Goto(t, "locking")
          /\ UNCHANGED result
    /\ UNCHANGED <<item_vars, codelets, item, codelet, code>>

\* As ExecuteLock, beforeStart not called.
ExecuteLockCounting(t) ==
    /\ pc[t] = "locking" /\ lock[item[t]] = None
    /\ lock' = [lock EXCEPT ![item[t]] = t]
    /\ \/ /\ status[item[t]] = "NOT_STARTED"
          /\ SetStatus(item[t], "START_PENDING")
          /\ codelet' = [codelet EXCEPT ![t] = 1]
          /\ Goto(t, "start")
       \/ /\ status[item[t]] # "NOT_STARTED"
          /\ Goto(t, "check")
          /\ UNCHANGED <<status, codelet>>
    /\ UNCHANGED <<items, executions, repeat_count, codelets, item, code, result>>

\* An entity that is not started is started, and not checked: beforeStart comes first.
ExecuteLock(t) ==
    /\ pc[t] = "locking" /\ lock[item[t]] = None
    /\ lock' = [lock EXCEPT ![item[t]] = t]
    /\ \/ /\ status[item[t]] = "NOT_STARTED"
          /\ SetStatus(item[t], "START_PENDING")
          /\ executions' = [executions EXCEPT ![item[t]] = 0]
          /\ codelet' = [codelet EXCEPT ![t] = 1]
          /\ Goto(t, "start")
       \/ /\ status[item[t]] # "NOT_STARTED"
          /\ Goto(t, "check")
          /\ UNCHANGED <<status, executions, codelet>>
    /\ UNCHANGED <<items, repeat_count, codelets, item, code, result>>

\* A codelet that fails to start leaves the status, and the codelets before it, as they are.
StartCodelet(t) ==
    LET e == item[t]
        i == codelet[t]
    IN  /\ pc[t] = "start"
        /\ started' = [started EXCEPT ![e] = (IF failed[e] THEN {} ELSE @) \union {i}]
        /\ ticked' = [ticked EXCEPT ![e][i] = 0]
        /\ \/ /\ failed' = [failed EXCEPT ![e] = TRUE]
              /\ Leave(t, "error")
              /\ UNCHANGED <<status, codelet>>
           \/ /\ More(t)
              /\ failed' = [failed EXCEPT ![e] = FALSE]
              /\ codelet' = [codelet EXCEPT ![t] = i + 1]
              /\ UNCHANGED <<status, lock, pc, result>>
           \/ /\ ~More(t)
              /\ failed' = [failed EXCEPT ![e] = FALSE]
              /\ SetStatus(e, "STARTED") /\ Leave(t, "ready")
              /\ UNCHANGED codelet
        /\ UNCHANGED <<items, executions, repeat_count, item, code>>

\* The terms say that the entity is ready, waits (or its time has not come), or will never
\* be executed again; or one of them fails.
Check(t) ==
    /\ pc[t] = "check"
    /\ \/ /\ SetStatus(item[t], "TICK_PENDING")
          /\ Goto(t, "sync")
          /\ UNCHANGED <<lock, codelet, result>>
       \/ Leave(t, "wait") /\ UNCHANGED <<status, codelet>>
       \/ BeginStop(t, "never") /\ UNCHANGED lock
       \/ BeginStop(t, "error") /\ UNCHANGED lock
    /\ UNCHANGED <<items, executions, repeat_count, codelets, item, code>>

\* tick() returns c.
TickReturns(t, c) == code' = [code EXCEPT ![t] = c] /\ Goto(t, "control")

\* The router fills the receivers, and every codelet counts the execution (beforeTick).
SyncInbox(t) ==
    /\ pc[t] = "sync"
    /\ \/ /\ TickReturns(t, "failure")
          /\ UNCHANGED <<status, executions, codelet>>
       \/ /\ SetStatus(item[t], "TICKING")
          /\ executions' = [executions EXCEPT ![item[t]] = Once(@)]
          /\ codelet' = [codelet EXCEPT ![t] = 1]
          /\ Goto(t, "tick")
          /\ UNCHANGED code
    /\ UNCHANGED <<items, lock, repeat_count, codelets, item, result>>

\* The first codelet that does not succeed ends the tick; after the last one the terms are
\* told and the router empties the transmitters, which may fail.
TickCodelet(t) ==
    LET e == item[t]
        i == codelet[t]
    IN  /\ pc[t] = "tick"
        /\ ticked' = [ticked EXCEPT ![e][i] = Once(@)]
        /\ \/ /\ \E c \in {"not finished", "failure"} : TickReturns(t, c)
              /\ UNCHANGED <<status, codelet>>
           \/ /\ More(t)
              /\ codelet' = [codelet EXCEPT ![t] = i + 1]
              /\ UNCHANGED <<status, pc, code>>
           \/ /\ ~More(t)
              /\ SetStatus(e, "IDLE") /\ TickReturns(t, "success")
              /\ UNCHANGED codelet
        /\ UNCHANGED <<items, lock, executions, repeat_count, started, failed, item, result>>

\* Without a controller an entity whose tick does not succeed is stopped.  The controller
\* takes "not finished" as running, and repeats a failure max_repeat_count times.
Control(t) ==
    LET e == item[t] IN
    /\ pc[t] = "control"
    /\ \/ /\ e \notin Controlled /\ code[t] = "success"
          /\ Leave(t, "ready")
          /\ UNCHANGED <<status, codelet, repeat_count>>
       \/ /\ e \notin Controlled /\ code[t] # "success"
          /\ BeginStop(t, "error")
          /\ UNCHANGED <<lock, repeat_count>>
       \/ /\ e \in Controlled /\ code[t] = "success"
          /\ Leave(t, "given up")
          /\ UNCHANGED <<status, codelet, repeat_count>>
       \/ /\ e \in Controlled /\ code[t] = "not finished"
          /\ SetStatus(e, "STARTED") /\ Leave(t, "ready")
          /\ UNCHANGED <<codelet, repeat_count>>
       \/ /\ e \in Controlled /\ code[t] = "failure" /\ repeat_count[e] < MaxRepeatCount
          /\ repeat_count' = [repeat_count EXCEPT ![e] = @ + 1]
          /\ SetStatus(e, "STARTED") /\ Leave(t, "ready")
          /\ UNCHANGED codelet
       \/ /\ e \in Controlled /\ code[t] = "failure" /\ repeat_count[e] >= MaxRepeatCount
          /\ repeat_count' = [repeat_count EXCEPT ![e] = MaxRepeatCount + 1]
          /\ BeginStop(t, "given up")
          /\ UNCHANGED lock
    /\ UNCHANGED <<items, executions, codelets, item, code>>

\* Every codelet is stopped, also after one that fails to stop; then NEVER becomes an error.
StopCodelet(t) ==
    LET e == item[t]
        i == codelet[t]
    IN  /\ pc[t] = "stop"
        /\ started' = [started EXCEPT ![e] = @ \ {i}]
        /\ ticked' = [ticked EXCEPT ![e][i] = 0]
        /\ \/ UNCHANGED result
           \/ result[t] = "never" /\ Return(t, "error")
        /\ \/ /\ More(t)
              /\ codelet' = [codelet EXCEPT ![t] = i + 1]
              /\ UNCHANGED <<status, lock, pc>>
           \/ /\ ~More(t)
              /\ SetStatus(e, "NOT_STARTED") /\ Unlock(e)
              /\ Goto(t, IF t \in Workers THEN "monitor" ELSE "free")
              /\ UNCHANGED codelet
        /\ UNCHANGED <<items, executions, repeat_count, failed, item, code>>

\* The monitors are told of the entity of the item, after execution_mutex_ was released.
Monitor(t) ==
    /\ pc[t] \in {"monitor", "dangling"}
    /\ Goto(t, "idle")
    /\ Forget(t)
    /\ UNCHANGED <<item_vars, codelets>>

Execute(t) ==
    \/ CheckStatus(t) \/ ExecuteLock(t) \/ StartCodelet(t) \/ Check(t) \/ SyncInbox(t)
    \/ TickCodelet(t) \/ Control(t) \/ StopCodelet(t) \/ Monitor(t)

EndDeactivation(t) == DeactivateLock(t) \/ StopCodelet(t) \/ Free(t)

Next ==
    \/ \E t \in Workers : Execute(t) \/ \E e \in Entities : ExecuteEntity(t, e)
    \/ \E t \in Callers : EndDeactivation(t)
                          \/ \E e \in Entities : Activate(t, e) \/ Deactivate(t, e)

Spec == Init /\ [][Next]_vars

\* A call that was begun goes on: codelets, terms and monitors return, and no thread is
\* starved by the operating system.
Fairness ==
    /\ \A t \in Workers : WF_vars(Execute(t))
    /\ \A t \in Callers : WF_vars(EndDeactivation(t))

FairSpec == Spec /\ Fairness

(* -- Properties ----------------------------------------------------------*)

\* What codelet.hpp promises: start before the first tick, no second start before stop,
\* stop after the last tick, whatever fails and whoever deactivates meanwhile.
Contract == INSTANCE CodeletContract
KeepsContract == Contract!Spec

\* Once an entity is deactivated none of its codelets is left started, unless one of them
\* failed to start (EveryStartIsStopped).
Deactivated(e) == e \notin items /\ \A t \in Callers : item[t] # e
NoneLeftStarted ==
    \A e \in Entities : Deactivated(e) /\ ~failed[e] => started[e] = {}

\* isFirstTick: the first tick since start is the one that counts as execution 1, where a
\* tick that fails is the last one (no controller) or there is one codelet only.
FirstTickIsCounted ==
    \A t \in Workers : pc[t] = "tick" /\ (item[t] \in Controlled => NumCodelets[item[t]] = 1) =>
        (ticked[item[t]][codelet[t]] = 0 <=> executions[item[t]] = 1)

\* gxf.h: deactivating an entity that is being executed waits until the execution is
\* finished; it does not wait forever, nor does the execution.
DeactivateReturns == \A t \in Callers : pc[t] = "deactivating" ~> pc[t] = "idle"

\* gxf.h says of GxfEntityDeactivate that it waits until the current execution is finished:
\* no thread is left with the address of a freed item.
WaitsForExecution == \A t \in Workers : pc[t] # "dangling"

\* codelet.hpp says "When start was called stop will be called, too": a codelet that was
\* started is stopped when its entity is deactivated.
EveryStartIsStopped == \A e \in Entities : Deactivated(e) => started[e] = {}
================================================================================
