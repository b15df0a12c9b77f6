# GXF: a verification development

GXF runs graphs of *entities*. An entity holds *components*: codelets, which do the work;
receivers and transmitters, the queues through which entities exchange messages; scheduling
terms, which say when the entity may be executed. A *scheduler* executes ready entities on
worker threads. This directory holds TLA+ models of the parts in which that can go wrong, TLC
configurations that check them on small instances, and TLAPS proofs of what matters most for all
instances.

All source paths below are relative to `src/com_nvidia_gxf/`.

Contents: [inventory](#inventory) · [how the parts interact](#how-the-parts-interact) ·
[modules](#modules) · [runs](#runs) · [bounds](#bounds) · [fairness and
deadlock](#fairness-and-deadlock) · [proofs](#proofs) · [findings](#findings) · [not
modelled](#not-modelled) · [plan](#plan)

## Inventory

The core of the program is `gxf/std` (the standard extension: schedulers, queues, terms,
routers, life cycle) on top of `gxf/core` (runtime, registries, entities, parameters). The other
directories of `gxf/` are extensions and front ends.

### Message queues

**StagingQueue** (`gxf/std/gems/staging_queue/staging_queue.hpp`) is under every double-buffer
receiver and transmitter. *State*: a ring buffer of twice the capacity, the
start of the main stage, the number of items in the main stage and in the backstage.
*Operations*: `push` (to the backstage), `sync` (backstage to main stage), `pop`, `popAll`, and
peeks. Three overflow behaviours: pop the oldest, reject the newest, fault. *Hard*: wrap-around,
both stages nearly full, what a fault leaves behind. *Correct when*: it is a two-stage FIFO of
the given capacity that keeps no item it no longer has.

**AsyncBufferReceiver** (`gxf/std/async_buffer_receiver.cpp`) replaces the queue by Simpson's
four-slot buffer between one producing and one consuming thread. *State*: four entities, the
freshest pair, the announced pair, a slot per pair. *Operations*: `push_abi`, `pop_abi`, reset.
*Hard*: no lock at all; memory order. *Correct when*: the threads never use one slot at once,
and a pop is whole, fresh and never goes back; the memory of the code keeps this only where no
load overtakes the announcement.

**DoubleBufferReceiver/Transmitter, Receiver, Transmitter, Queue** wrap the above and notify:
`receiver.cpp:15` notifies the upstream entity after a pop.

### Schedulers

**EventBasedScheduler** (`gxf/std/event_based_scheduler.cpp`). *State*: a job queue, two lists
of notifications (internal and external), a set of entities that wait for events, a count of
running workers, `state_`, and four fields per entity (ownership, present-in-queue, condition,
unschedule). *Operations*: the start of the threads, the loops of the dispatcher, of the async thread and of the workers;
`stop_abi`, the max duration timer, `event_notify_abi`, `unschedule_abi`, `stopAllJobs`,
`stopAllThreads`, `checkEndingCriteria`. *Hard*: each list has a mutex of its own and nothing
guards the whole, so every decision rests on values that other threads change meanwhile;
notifications of busy or queued entities are dropped; condition variables. *Correct when*: one
worker per entity, no ready entity is forgotten, the count is exact, a stop ends every thread,
and a detected deadlock is one.

**MultiThreadScheduler** (`multi_thread_scheduler.cpp`): a timed job list for checking and one
for executing, an event list, three counters; dispatcher, workers, async thread, stop. *Hard*:
unscheduling and rescheduling, the deadlock timeout, joining at a stop. *Correct when*: every
entity is in exactly one place, the counters agree with the places, a stop completes.

**GreedyScheduler, EpochScheduler** (`greedy_scheduler.cpp`, `epoch_scheduler.cpp`): one thread
that checks and executes the entities in turn. *Correct when*: no ready entity starves; a
deadlock is reported only when nothing can become ready.

**TimedJobList** and the **event lists** (`gxf/std/gems`): a heap of jobs by due time with a
pending list, and (unique) lists of notifications, each with its mutex and condition variable.
*Correct when*: a job inserted is delivered once, not before it is due, unless the list is
stopped.

### Execution

**EntityExecutor** (`entity_executor.cpp`): the stages of an entity (start, tick, stop), its
status, its behaviour status, the check of its terms. *Hard*: a stage that fails half-way;
deactivation while a tick runs. *Correct when*: start before tick before stop, each once, also
after a failure.

**Scheduling terms** (`scheduling_terms.cpp`, `scheduling_condition.cpp`,
`scheduling_term_combiner.hpp`): small state machines that answer READY, WAIT, WAIT_TIME,
WAIT_EVENT or NEVER, and their combination. *Hard*: unsigned subtraction, terms that read queues
other threads change. *Correct when*: the combination is READY only if every term allows it, and
a term that says READY for a queue is right when the codelet runs.

**MessageRouter** and its relatives (`message_router.cpp`, `network_router.cpp`,
`router_group.cpp`): tables from transmitters to receivers; `syncInbox`, `syncOutbox`,
distribution, connect and disconnect. *Correct when*: a published message reaches every
connected receiver once and in order, or the loss is one the overflow behaviour names.

### Life cycle

**Program, EntityWarden, SystemGroup** (`program.cpp`, `entity_warden.cpp`, `system_group.cpp`):
the states of a graph, activation and deactivation of its entities by three tables, and the
scheduler that runs them. *Operations*: `activate`, `runAsync`, `interrupt`, `wait`,
`deactivate`, from any thread. *Hard*: an activation that fails half-way, callers that change
`state_` between each other's looks at it, the order in which things are taken down. *Correct
when*: no codelet is called on components that are not initialized, no item is freed under a
worker, nothing is left over at ORIGIN, and `state_` says what the scheduler does.

### Distributed graphs

**QueueThread** (`gems/queue_thread/queue_thread.hpp`): a thread that executes items from a queue
and answers a future for each. *Operations*: `queueItem`, `stop`, `wait`, the destructor. *Hard*:
several callers stop and wait while the thread may end by itself; a stop signal that overtakes the
items. *Correct when*: items run one at a time and in order, none after a `stop` or `wait` has
returned, every future is answered.

**GraphDriver, GraphWorker, SegmentRunner** (`graph_driver.cpp`, `graph_worker.cpp`), each a
QueueThread with a server: workers register their segments with the driver, which connects,
activates, runs and takes down all of them by requests. *Hard*: requests and answers that get
lost, workers that fail. *Correct when*: all segments are known before one is activated, and all
have run before one is taken down, each once; everything stops.

### The rest

Memory pools (`block_memory_pool.cpp`, `gems/pool`), Vault, Synchronization, TimedThrottler,
Gather, Broadcast (single codelets with small state), clocks, statistics and monitors, resources
and thread pools, loaders of graphs and extensions, tensors; `gxf/core` (registries under one
lock); `common` (value types); the extensions `behavior_tree`, `network`, `ucx`, `ipc`,
`serialization`, `cuda`, `rmm`, `stream`, `npp`, `multimedia`; the front ends `app`,
`python_codelet`, `benchmark`, `gxe`, `cli`; `registry`, `engine`, `release`, `third_party`.

## How the parts interact

    codelet --publish--> transmitter (StagingQueue)
                             | syncOutbox at the end of the tick   (worker thread)
                             v
                         receiver (StagingQueue, or AsyncBuffer) -- notify --> scheduler
                             | syncInbox before the check           (worker thread)
                             v
    scheduling terms --check--> EntityExecutor --tick--> codelet --receive--> notify upstream
         ^                           ^
         | READY/WAIT/...            | executeEntity
         +------- scheduler (dispatcher, async thread, workers) <--- GxfEntityNotifyEventType

    Program --activate--> EntityWarden, EntityExecutor, SystemGroup --run/stop/wait--> scheduler

    GraphDriver <==requests==> GraphWorker --queueItem--> SegmentRunner --activate/run/...--> Program

Within a thread these are calls. Between threads the parts share the receivers' queues, the
scheduler's lists, atomics and condition variables, the items of the executor and the state of the
program; between processes they exchange synchronous requests. A scheduler sees the terms and
queues only through the condition that `checkEntity` returns; the queues see the scheduler only
through the thread that calls them; a driver sees a graph only through the end of its run. That is
where the modules are cut. `MessageFlow` composes terms, queues and router, `Program` composes the
life cycle with `EntityExecutor` and a scheduler, `GraphExecution` the threads of driver, workers
and segments.

## Modules

| module | models | as |
|---|---|---|
| `StagedFifo` | what the comments of StagingQueue promise | two sequences and the rules for overflow: the abstract specification |
| `StagingQueue` | `staging_queue.hpp` | ring buffer and counters; one action per operation and branch of `sync` |
| `MCStagingQueue` | | capacities, behaviours, symmetry |
| `StagingQueueProofs` | | proofs about `StagingQueue` |
| `EventBasedScheduler` | `event_based_scheduler.cpp/.hpp`, parts of the executor, job list and event list it uses | one action per access to shared state, `pc[t]` for each thread |
| `MCEventBasedScheduler` | | instances |
| `EventBasedSchedulerProofs` | | proofs about `EventBasedScheduler` |
| `MultiThreadScheduler` | `multi_thread_scheduler.cpp/.hpp`, the lists it uses | one action per access to an atomic or to a list with a mutex of its own |
| `MCMultiThreadScheduler` | | instances |
| `MultiThreadSchedulerProofs` | | proofs about `MultiThreadScheduler` |
| `AsyncBuffer` | `async_buffer_receiver.cpp` | one action per access to a shared member, the store to `reading_` delayed at will |
| `AsyncBufferProofs` | | proofs about `AsyncBuffer` |
| `OverflowBehavior` | the overflow behaviours of `staging_queue.hpp` | operators on sequences, shared by `StagedFifo` and `MessageFlow` |
| `MessageChannel` | what a graph promises about messages | per route, a count published and a count received: the abstract specification |
| `MessageFlow` | terms, transmitters, receivers and router around an execution | one action per call on a queue |
| `MCMessageFlow`, `MessageFlowProofs` | | instance, proofs |
| `CodeletContract` | what `codelet.hpp` promises | which codelets are started, and how often ticked: the abstract specification |
| `EntityExecutor` | `entity_executor.cpp`, `codelet.cpp`, the failure-repeat controller | one action per lock taken or released and per call of a codelet |
| `MCEntityExecutor` | | instance; the proofs are part 1 of `ProgramProofs` |
| `Program` | `program.cpp`, `entity_warden.cpp`, `system_group.cpp` | extends `EntityExecutor`; one action per access to `state_` and per call of a table |
| `MCProgram`, `ProgramProofs` | | instance, proofs about `EntityExecutor` and `Program` |
| `SerialExecutor` | what a QueueThread promises | three counters: the abstract specification |
| `QueueThread` | `queue_thread.hpp` | one action per access to the queue, the flag or a condition variable |
| `MCQueueThread`, `QueueThreadProofs` | | instances, proofs |
| `GraphBarriers` | what driver and workers promise of segments | the stage of each segment: the abstract specification |
| `GraphExecution` | `graph_driver.cpp`, `graph_worker.cpp` and the requests between them | one action per event, request, answer and item |
| `MCGraphExecution`, `GraphExecutionProofs` | | instance, proofs |

**StagingQueue.** `items`, `begin`, `num_mainstage`, `num_backstage` are the members of the
class; `capacity` and `behavior` are chosen in `Init` from constants, so one run covers all
combinations. `Push` splits by whether the backstage is full, `Sync` into the four branches of
`sync()`. An entity handle in a slot is an element of `Items`, a default-constructed one is
`Null`. `StagedFifo` is instantiated with the main stage and the backstage read off the ring
buffer; `ImplementsFifo` is its specification, as a property.

**EventBasedScheduler.** The variables carry the names of the members (`ready` is the content of
the default queue, `internal` and `external` the two event lists, `running_threads` the atomic
byte modulo 256). `job[t]` is the entity id in a local variable, `next[t]` the condition it is
about to apply. `updateCondition` is two steps because it takes two locks, `stopAllJobs` three,
and `checkEndingCriteria` one per value it reads. `Woken` is `notify_one`/`notify_all` on a
condition variable: a thread at "sleep" goes back to look at its predicate, and one that is not
yet asleep is not affected; the code pushes the event under the mutex, so the predicate is what
it then finds. The terms of an entity are a variable `term`, which a tick may set to any
condition and which a tick of another entity or an external event may turn from waiting to
READY: this is the most a set of terms can do. `exited` records the assertion failure of
`popEvent().value()`, which calls `std::exit`. The model starts when `runAsync_abi` has created
the dispatcher; `pc["runAsync_abi"]` goes on to create the async thread, one worker after the
other, adding each to `running_threads` in a step of its own, and the timer, while the threads
that exist run. A thread before its creation is "unborn"; `joining` holds the threads that
`stopAllThreads` finds in `async_threads_`. `stop_abi` is called after `runAsync_abi` has
returned, as `Program::interrupt` does, and takes `max_duration_sync_mutex_` (`LockTimer`) for
the join of the timer.

**MultiThreadScheduler.** `check_jobs` and `worker_jobs` are the sets of jobs of the two timed
job lists, with `check_running` and `worker_running` for what `stop()` changes; a list gives any
of its jobs. Therefore WAIT_TIME, which differs from READY only in the due time, is not told
apart from READY, and `ready_count` stands for `ready_count_` and `wait_time_count_`, which the
code only ever adds. An event list is the bag of its events: `hasEvent` and `removeEvent`, which
removes every instance, do not depend on the order, and the async thread goes through its copy
in any order. `conditions[e]` is "none" where `conditions_` has no entry. `updateCondition` and
the counters in `checkEndingCriteria` are one step each: both run under `conditions_mutex_`.
Whether the deadlock timeout has passed is left open, except where no entity is left: there the
code stops in any case. `Wait` and `Block` are the evaluation of the predicate of a condition
variable and the falling asleep, under one mutex; a notification sent without that mutex can
fall between them, one sent with it (`EventNotify`) cannot. `term` is treated as in
EventBasedScheduler.

**AsyncBuffer.** `wpc` and `rpc` are the positions of the two threads in `push_abi` and
`pop_abi`. A message is the number of its push. The assignment of an `Entity`, three fields and
a reference count, is two steps with `Torn` in between. `Reinitialize` resets the control
variables and leaves the entities, as `deinitialize()` does. The members are plain integers, so
the store to `reading_` goes to `delayed` (`Announce`) and reaches the memory at any later step
(`Drain`), at the latest before the atomic increment of the reference count that ends the copy:
this is the store buffer of x86-64, and also covers a compiler that moves the store past the
loads. The stores of the pushing thread need no buffer there: they become visible in order, and
before the atomic increment at the start of its next push, so a delay of them is the same as the
thread running later. Weaker memories (aarch64, for which the repository has build
configurations too), where the stores of a push may be seen in another order, are not modelled.
`complete`, `oldest`, `overtaken` and `settled` are history variables, read by no guard:
`overtaken` says that the load of `slots_` of the last pop came before its store to `reading_`
reached the memory, `settled` is the message of the last pop of which that is not true.

**MessageFlow.** `pc[e]` is the place of the thread that executes entity `e` in
`EntityItem::execute`; that there is at most one is what the scheduler modules show. The
downstream term reads each receiver in two calls (`ReadBackSize`, `ReadSize`), between which the
receiving entity may sync its inbox. A tick receives (`Pop`, then `FinishReceive`, which notifies
the transmitter that `connect` has noted) and publishes; `Distribute` pushes to one receiver at a
time. An entity is looked at only when it was notified, as under EventBasedScheduler, the
scheduler that depends most on notifications. Two transmitters that feed one receiver are modelled but
excluded from `NoOverflow` (`SingleWriter`): there both terms may find its last slot free.

**EntityExecutor.** `pc[t]` is the next step of a worker in `executeEntity` or of a caller of
`deactivate`. The item is taken from `items_` and its status looked at before
`execution_mutex_` is taken; `Overtaking` says whether a deactivation may come in between. Then
the worker is "dangling", that is, undefined, and takes no further step. Counters of executions and ticks saturate at two. Each
call of a codelet, a term or the router may fail. That no two workers execute one entity is assumed of
the schedulers, for which it is proved.

**Program.** One caller (`Main`) uses the graph in the order of every application: activate, run,
wait, deactivate, again; the other callers interrupt at any time. The scheduler stands for
any of them: it executes activated entities, and ends when no entity is left, after a stop, or
when an execution fails. A deactivation that fails leaves the program in DEINITALIZING for ever
(`Reset`), as in the code.

**QueueThread.** `guard_queue` holds the numbers of the items, `future` the state of the future of each. A stop
signal is popped before any item. `wait` has a mutex (`stop_mutex`), falls asleep
(`Block`) and is woken by `Woken`.

**GraphExecution.** A thread (driver, worker, segment) has a queue of events; stopping one is a
single step here, because `QueueThread` shows in detail what it does. `call` is the one request of
the driver that is on its way, `report[w]` that of worker `w`. `Lose` makes a caller see an error
though the request was not handled, or was handled and only its answer is lost. `harmed` notes a
loss for which the code has no remedy: all but a registration that can still be repeated and
was not handled, and the requests that only prepare or take down.

## Runs

| run | properties | shows |
|---|---|---|
| `staging_queue` | `FreeSlotsNull`, `DroppingQueueWithinCapacity`, `ImplementsFifo` | the ring buffer implements the FIFO, keeps no stale item, and stays within its capacity |
| `event_based` | `OneWorkerPerEntity`, `PresentIsQueued`, `ReadyNotForgotten`, `RunningThreadsExact` | two entities, two workers: exclusion, exact marks and counts, no lost wakeup, from the start of the threads on |
| `event_based_live` | `RunningThreadsExact`, `ReadyIsExecuted` | one entity, two workers, failures and unscheduling at any moment: a worker that starts, fails or drops its entity is counted once, and a ready entity is executed |
| `event_based_stop` | `StopCompletes` | one entity, two workers, `stop_abi` and max duration: a stop completes |
| `multi_thread` | `OnePlace`, `ScheduledIsSomewhere`, `CountsExact`, `EventNotLost`, `DeadlockMeansIdle` | two entities, two workers, deadlock and max duration, failures, scheduling and unscheduling during the run |
| `multi_thread_live` | `StopEndsWorkers`, `ReadyIsExecuted` | one entity, two workers, `stop_abi`, failures |
| `async_buffer` | `SlotsDisjoint`, `PopIsFresh`, `PopsInOrder` | exclusion, freshness and order of the four-slot buffer, as far as a delayed store to `reading_` leaves them |
| `message_flow` | `NoOverflow`, `ReadyEntityHasRoom`, `ImplementsChannel`, `SourcesUseUpCount` | a source, a relay and two sinks: messages arrive once, in order and in the end, and no receiver overflows |
| `entity_executor` | `NoneLeftStarted`, `FirstTickIsCounted`, `KeepsContract`, `DeactivateReturns` | codelets see start, tick and stop in the promised order on every path |
| `program` | `WaitsForExecution`, `CodeletsRunInitialized`, `StateTellsRunning`, `OriginIsClean`, `InterruptEndsWait` | a graph is activated, run, interrupted, waited for and deactivated again and again, every call failing |
| `queue_thread` | `PendingIsHeld`, `ImplementsSerialExecutor`, `StopReturns` | two stops, two waits, three items: serial and in order, no forgotten future |
| `graph_execution` | `RunsConnected`, `TakeDownAnswered`, `ImplementsBarriers`, `EverythingStops` | three segments, two workers, two lost requests or answers |

Every property has a mutant: a variant of one action with a plausible mistake, under which TLC
finds the property violated. The mutants stand next to the actions, marked as such, and belong to
no next-state relation.

Nine further configurations each check one property that a comment or a description promises and
the code does not keep; TLC shows a counterexample with
`tlc -config <configuration> <module>`. They belong to the [findings](#findings).

| configuration | module | property |
|---|---|---|
| `StagingQueueFault.cfg` | `MCStagingQueue` | `PushInvisibleUntilSync` |
| `EventBasedSchedulerEarly.cfg` | `MCEventBasedScheduler` | `DeadlockStopJustified` |
| `EventBasedSchedulerMissed.cfg` | `MCEventBasedScheduler` | `WorkDoneStops` |
| `EventBasedSchedulerUncounted.cfg` | `MCEventBasedScheduler` | `ExecutingIsCounted` |
| `EventBasedSchedulerStart.cfg` | `MCEventBasedScheduler` | `StopCompletes` |
| `MultiThreadSchedulerStop.cfg` | `MCMultiThreadScheduler` | `StopReturns` |
| `AsyncBufferReordered.cfg` | `AsyncBuffer` | `SingleProducerSingleConsumer` |
| `MessageFlowTopic.cfg` | `MCMessageFlow` | `SourcesUseUpCount` |
| `QueueThreadWait.cfg` | `MCQueueThread` | `WaitReturns` |

## Bounds

* `staging_queue`: capacities 1 to 3 make a ring of 2, 4 or 6 slots, so that the start takes every
  position and both stages wrap; three is the first capacity at which the shift of the backstage
  moves more than one item. Two items distinguish order. `MaxMainstage` = 8 bounds what repeated
  faults can add, beyond the ring itself.
* `event_based`: two entities suffice for every pair of threads to meet over one entity and for
  one entity to make another ready; two workers are the least that can contend. The executions
  (two of one entity, one of the other, `MaxTicks`) allow an entity to be notified while it
  executes, while it is queued, and after it has been released.
* `event_based_live`: one entity and two executions; the hazards of liveness are between one
  entity and the threads. Failures and unscheduling are here, where they leave the state space
  small; that the safety properties survive them with any number of entities is what the
  theorems prove.
* `event_based_stop`: one execution, since every stop happens within one; both stoppers, so
  that either may come first, or while the other is at it. No execution fails and
  `stop_on_deadlock` is off: with them `StopCompletes` is not kept (finding 18, and the wait for
  the queue under [Not modelled](#not-modelled)).
* `multi_thread`: two entities, one scheduled from the start and one during the run, so that new
  entities, `schedule` of an entity that is already scheduled, and `unschedule` followed by
  `schedule` all occur; two executions of the first leave room for an event before, while and
  after it is put into `event_waiting_`. `Schedulable` and `Unschedulable` bound the calls from
  outside to one per entity.
* `multi_thread_live`: one entity, for the same reason as in
  `event_based_live`.
* `async_buffer`: six pushes go through every combination of pair and slot more than once; four
  suffice for an overtaken pop to meet the pushing thread.
* `message_flow`: four entities with all roles (source, relay, sink), one fan-out and one chain of queues;
  one slot per receiver makes every queue full and empty again; two messages distinguish order.
* `entity_executor`: two codelets show a failure between the first and the last, with and without
  a controller (which may repeat once); one worker per entity is all that executes it, one caller
  activates and deactivates without end.
* `program`: two entities and the scheduler, so that an activation can fail before, between and
  after; one worker executes them in any order. The run has no bound on the number of
  activations.
* `queue_thread`: two callers of each kind meet at the flag, the condition variable and the join;
  three items leave one executed, one with the thread and one in the queue.
* `graph_execution`: two segments on one worker and one on another, so that a worker counts more
  than one end; one retry; two losses can hit a registration and its repetition, or two requests.

## Fairness and deadlock

`EventBasedScheduler` assumes weak fairness of each worker, the dispatcher, the async thread and
a stopper *once it has begun to stop*, and of `runAsync_abi`, which is running: the operating system schedules threads, locks are held
for a few instructions, and codelets return. No fairness is assumed of `Unschedule`, of
`EventArrives` or of the request to stop. `EventNotify` is fair: who signals an event calls
`GxfEntityNotifyEventType`. A condition variable has no spurious wakeups in the model, so
liveness does not rest on them.

`MultiThreadScheduler` assumes the same of its threads, of a stopper and of `EventNotify`. Its
job lists are heaps by due time, and the due time of an inserted job is the present or a fixed
delay after it, so a job is passed over only by those inserted until it is due; since the model's lists give any job, strong
fairness of `TakeCheckJob(e)` and of `TakeWorkerJob(w, e)` for some `w` stands for this.

`MessageFlow` assumes weak fairness of each entity's steps: the scheduler has a thread for it, and a
codelet returns. Nothing makes a codelet publish except its count term. `EntityExecutor` assumes
weak fairness of each worker and of each caller of `deactivate`; `Program` of the run and of each call
that was begun, never of a call from outside. `QueueThread` assumes the same of the thread and of
a `stop` or `wait` that was begun. `GraphExecution` assumes that no thread and no server is
starved and that the graph of a segment comes to its end; no fairness makes a loss happen.

The runs of the schedulers, of `MessageFlow`, `Program`, `QueueThread` and `GraphExecution` set
`CHECK_DEADLOCK FALSE`: entities that wait for events that never arrive, a source whose count is
used up, a program that could not be deactivated, and threads that have ended have no further
step. The other runs check for deadlock.

## Proofs

All proofs hold for every value of the constants that satisfies the named assumptions of the
module.

* `StagingQueueProofs` (any set of items, capacities, behaviours): `TypeCorrect`,
  `WithinCapacity`, `NoStaleItem`, `RefinesFifo`. The inductive invariant is the type invariant
  plus "free slots hold Null"; the lemmas are about `Slot`, the modulo arithmetic of positions
  (distinct offsets are distinct slots, an offset and the start determine each other). For the
  refinement, `Contents` is the ring read from its start on and a stage is a part of it
  (`Stage`); a call moves the start (`ContentsMoved`) or changes some places, and lemmas about
  parts of a function (`StageHeadTail`, `StageAppend`, `ListsConcat`, `StagePart`) turn this into what the call
  does to the sequences. A queue beyond its capacity is in the state of which `StagedFifo`
  promises nothing.
* `EventBasedSchedulerProofs` (any entities, finite workers, executions): `TypeCorrect`;
  `Exclusive` from "a worker that holds an entity has acquired it and two do not hold the same
  one"; `PresentCorrect`; `NoLostWakeup`; `RunningIsExact`, where the count is the number of
  workers at certain steps (`Awake`) modulo 256, less the one `runAsync_abi` has created and not
  yet added, so that a step adds a worker, removes one, settles that difference or leaves all
  alone. `ReadyNotForgotten` is not inductive: an entity is
  forgotten if a dispatcher drops its notification while it is marked present or busy, so the
  invariant needs `PresentIsQueued` and the position of the worker that is busy with it; and an
  unscheduled entity or one that has reached NEVER must never become READY again. The proofs
  have one step per action, groups of actions that leave the relevant variables alone being
  handled by frame lemmas.
* `MultiThreadSchedulerProofs` (any finite set of entities, any workers, executions and calls
  from outside): all six invariants of its run. `TypeCorrect` needs `CountersCorrect` (the
  counters are natural numbers because they are the sizes of sets of entities), which needs that
  the entity a thread holds has a condition, which needs that no other thread has it; so one
  inductive invariant carries all of them. It says where each thread has an entity (`HasJob`,
  `NoJob`), that lists and holders are disjoint (`Apart`) and agree with the conditions
  (`PlacedIsScheduled`, `ScheduledIsPlaced`), and that what has been handed to the workers is
  counted as ready (`WorkersReady`), from which `DeadlockCorrect` follows; `EventPending`
  extends `EventNotLost` to the time between the check of an entity and its arrival in
  `event_waiting_`. One lemma for each part, one step for each action or group of actions.
* `AsyncBufferProofs` (any number of pushes, any delay of the store to `reading_`):
  `TypeCorrect`; `Disjoint`, by the argument of the algorithm (the reader has announced its pair
  and taken the slot the pair offers; a writer in that pair came before the announcement and
  fills the other slot), which needs the announcement in memory when the slot is loaded, that is,
  a pop that is not overtaken (`Announced`); `Fresh`, from what the announced pair offers at each
  step, an overtaken pop finding either that or a torn entity; `InOrder`, because what the
  freshest pair offers, and what the reader is bound to copy, is never older than what was popped
  without being overtaken (`OrderInv`), for which the pair the reader has announced must be older
  than the freshest whenever they differ (`PairsApart`).
* `MessageFlowProofs` (any graph, capacity, minimum size, policy and count): `TypeCorrect`,
  `NeverOverflows`, `KeepsRoom`, `MessagesInOrder`. For the bounds the invariant gives, for each
  route whose receiver has one writer (`PairOK`), what the two stages can hold at each place of
  the writer: while the term has read only the back stage, the size it has seen bounds what the
  main stage can gain from it; after a positive answer there is room for `MinSize` until the last
  push; during distribution the messages still in the outbox fit. The receiving entity only moves
  messages and removes them (`Drain`). `MessagesInOrder` is `Spec => Channel!Safety`, every step
  of the flow being one of `MessageChannel`, under the hypothesis `OneWriter` (every receiver has
  one transmitter; with two a push can be rejected). Its invariant (`OrderInv`) says that along a
  route the messages are numbered without a gap: the count received, then what is in the inbox,
  the main stage and the back stage, then what is still in the outbox, up to the count published;
  each action moves the border between two of these parts.
* `ProgramProofs`, part 1 about `EntityExecutor` (any entities, codelets, workers, callers): `TypeCorrect`, with overtaking
  as well; without it `DeactivatedIsStopped`, `FirstTickCounts` and `CodeletsKeepContract`, a
  refinement of `CodeletContract`. The invariant says for each entity which codelets are started
  at each status when nobody holds its mutex, and at each step of the thread that holds it, that
  threads at work on an entity hold its mutex (`LocksHeld`), that an item that left the table
  is stopped by its caller (`ItemsLeft`, `Awaited`), and that two calls do not meet
  (`CallsApart`).
* `ProgramProofs`, part 2 about `Program` (any entities, codelets and workers, any number of callers that interrupt,
  and one, `Main`, that also waits: `OneWaiter`, a hypothesis of all but the first theorem, since
  a second waiter breaks `StateTellsRunning`, see finding 13): `ImplementsExecutor` (every behaviour of the program
  is one of `EntityExecutor`, so that all that is proved there holds for the composition),
  `ExecutionIsWaitedFor`, `CodeletsAreInitialized`, `StateIsTrue`, `OriginCorrect`. The invariant
  gives, for each step `Main` is at, the entities that are activated and the value of `state_`
  (`Phase`), when the scheduler may run (`RunPhase`), that a worker has an item only while it
  runs (`WorkersRun`) and a caller only while it deactivates that entity (`MainDeactivates`).
* `QueueThreadProofs` (any callers and number of items): `TypeCorrect`, `PendingHeld`,
  `RefinesSerialExecutor`. The invariant: the queue is the suffix of all items after those that
  were popped (`Suffix`), the popped one is the next to be executed (`EntryIsNext`), and a caller
  returns only after the thread has (`ReturnsLast`); from this a step that executes an item is a step of
  the abstract executor.

* `GraphExecutionProofs` (any workers, finite set of segments, distribution, retries and
  losses): `TypeCorrect`, `WorkersCompleteOnce`, `Connected`, `RefinesBarriers`,
  `EachTakeDownAnswered`. What the thread
  of a segment was given, executed or still queued, is its class: nothing (`Fresh`), activate, then run,
  deactivate, destroy. The steps of that thread keep the class (`RunnerKeeps`); a request moves a
  segment to the next one. So the barriers become statements about the driver: the position of
  the driver in its queue of events, the event it handles and its call determine which workers
  have had which request (`SegmentInv`: a worker not yet told to execute has only fresh segments,
  one not yet told to deactivate has none in the last two classes); the driver begins
  to take down when all workers have completed (`BarrierInv`), each of them has run all its
  segments when it reports (`RanInv`), because it has counted each run once (`CountInv`:
  what is queued and what is counted is the number of segments that have run), and it reports
  once (`OnceInv`). `ConnInv` adds, as long as nothing is lost, for which segments the driver has
  still to send the addresses. `RefinesBarriers` reads the stage off the class and holds with any
  number of losses; the hypothesis `faults = 0` of `RunsConnected` is part of that property.
  `EachTakeDownAnswered` needs `UnharmedInv`: while the losses are made up for, a registration
  fails less often than it is repeated and a completion never, so no worker gives up, and the stop
  signals come with the last event of the driver, when no segment is waited for any more. After a
  loss that is not made up for, a worker may give up and stop the thread it is waiting for
  (`graph_worker.cpp:476`); neither the property nor the code excludes that.

Assumptions on constants that only the proofs need: `NoneAssumption` of `GraphExecution` (the value
that stands for "no worker" is none) and the finiteness of its segments in `SegmentsAssumption`,
which are the names of a parsed configuration.

Only model-checked: the liveness properties (`StopCompletes`, both `ReadyIsExecuted`,
`StopEndsWorkers`, `DeactivateReturns`, `InterruptEndsWait`, `StopReturns`, `EverythingStops`,
`SourcesUseUpCount`) and the fairness part of `ImplementsChannel` (that what is published is
received in the end; its safety part is `MessagesInOrder`), which are out of the prover's reach.
Every other property of a run is stated by a theorem.

## Findings

Where a configuration is named, it shows the counterexample.

1. `staging_queue.hpp:345`: `sync()` on a kFault queue reports the overflow after it has moved
   the items. The main stage then exceeds the capacity, and a later `push` overwrites its oldest
   item, although the comment says a pushed item is not visible before `sync`.
   (`StagingQueueFault.cfg`)
2. `event_based_scheduler.cpp:307`: a worker has taken a job but is not yet counted; the
   deadlock detection sees no job and no running worker, and stops the scheduler.
   (`EventBasedSchedulerEarly.cfg`)
3. `event_based_scheduler.cpp:344`: the last worker notifies the dispatcher before it counts
   itself out; the dispatcher then waits for a notification nobody sends.
   (`EventBasedSchedulerMissed.cfg`)
4. `event_based_scheduler.cpp:239`: a negative `stop_on_deadlock_timeout` stops at once instead
   of never; the function that implements the documented behaviour is not called.
5. `multi_thread_scheduler.cpp:701`: `stopAllJobs` notifies the async thread without the mutex
   of its condition variable; a thread between its test and its sleep misses it, and `stop_abi`
   never returns. (`MultiThreadSchedulerStop.cfg`)
6. `multi_thread_scheduler.cpp:446`: after a deadlock, a failing check of a pending job leaves
   the workers running and the dispatcher waiting for them. (The action `CheckPendingFails`.)
7. `async_buffer_receiver.cpp:39`: the protocol needs the store to `reading_` to be visible
   before `slots_` is loaded, the members are plain integers. A pop whose load overtakes the
   store may copy a slot while it is replaced. (`AsyncBufferReordered.cfg`; by `SlotsDisjoint` no
   other pop can, so that on x86-64 a fence after line 39 is enough.)
8. `receiver.cpp:19`: with a route by Topic the receiver knows no transmitter to notify, and an
   event-driven source that found it full waits for ever. (`MessageFlowTopic.cfg`)
9. `entity_executor.cpp:538`: a codelet that fails to start leaves those before it started, and
   no call stops them. (`EveryStartIsStopped` of `EntityExecutor`)
10. `entity_executor.cpp:154`: a deactivation can free an item between the look-up and the lock
    of an execution. (`WaitsForExecution` with `Overtaking = TRUE` in `EntityExecutor`; `Program`
    shows that a graph deactivated after `wait` is safe.)
11. `codelet.hpp:67`: with a controller and several codelets the first tick of the second codelet
    need not be the one with `isFirstTick`. (`FirstTickIsCounted` without its premise)
12. `program.cpp:292`: an activation that fails before the scheduler has joined the system group
    leaves the program in DEINITALIZING. (`FailedActivationDeactivates`)
13. `program.cpp:590`: a second thread that waits can make `runAsync` store RUNNING after the
    run has ended. (`WaitLeavesActivated`, `StateTellsRunning` with two waiters)
14. `queue_thread.hpp:236`: a `wait` that comes after a `stop` that left items in the queue never
    returns. (`QueueThreadWait.cfg`)
15. `graph_driver.cpp:363`: a worker without segments that registers last has the whole graph
    activated and run twice. (`GraphExecution` without the last part of `SegmentsAssumption`)
16. `graph_driver.cpp:346`: the repetition of a registration whose answer was lost is rejected,
    and the driver waits for the worker for ever. (`EverythingStops` without `harmed`)
17. `event_based_scheduler.cpp:559`: a worker is added to `running_threads_` after it was created
    and runs; until then the count is 255, or 0 while it executes, which the dispatcher may take
    for a deadlock. (`EventBasedSchedulerUncounted.cfg`)
18. `event_based_scheduler.cpp:601`: `stop_abi`, and `wait_abi` (626), join the max duration
    thread while they hold the mutex that thread needs. If an execution fails during the start,
    the dispatcher ends before there is that thread to end, and `stop_abi` waits for ever.
    (`EventBasedSchedulerStart.cfg`)

## Not modelled

PROJECT.json lists every component with its status and the reason. In short:

* data and its formats (tensors, serialization, parsing, parameters), device libraries and
  transports whose behaviour is not in this repository, measurement, and front ends;
* GreedyScheduler and EpochScheduler: one thread that executes the entities in turn, whose
  schedules are among those of `MessageFlow` and `EntityExecutor`. Their requests from other
  threads are not covered, for instance a stop that comes before the new thread clears
  `stopping_` (`greedy_scheduler.cpp:195`) and is lost;
* terms that read a clock or a counter of their own, and their combination by OR: no module has a
  clock, a timed wait may end at any moment;
* TimedJobList beyond a set of jobs (the heap by due time, the pending list), memory pools and
  single codelets, each with its state under one mutex;
* the registries and parameters of `gxf/core`: tables under one lock each.

Left out of the modules that exist: several thread pools, `wait_abi`, what `runAsync_abi` does
before it creates the dispatcher (no other thread runs then), a second run and scheduling
during a run (EventBasedScheduler); memories weaker than that of x86-64 (AsyncBuffer); thread pinning, `wait_abi` and a second run
(MultiThreadScheduler); the iterator (StagingQueue), which only tests use; routes that are changed
while running (MessageFlow); `deactivateAll`, statistics and the other controllers
(EntityExecutor); entities added or removed one by one while running, reference counts, and a
program after a failed deactivation (Program); a thread that stops itself (QueueThread); workers
without segments, stops by the programs themselves and the instantiation of segments
(GraphExecution).

Weaknesses of the code that the modules contain and no property speaks of, because no document
says what should happen: an entity that becomes NEVER removes its own pending notification
(`event_based_scheduler.cpp:137`); `value()` of a `popEvent` that finds the list emptied ends the
process (213, action `PopNothing`); a stop during the wait for the queue to drain after a
deadlock (251); a failing check on the async thread (183); two updates of one condition (104); an
old request of `unschedule` that undoes a new `schedule` (`multi_thread_scheduler.cpp:581`); a
request to take down segments that meets a worker that has failed after a loss
(`graph_worker.cpp:476`, without one `TakeDownAnswered`).

## Plan

What would add most next, in this order: the timed terms with a clock, and TimedJobList against an abstract delay queue under them; the requests
to GreedyScheduler from other threads.
