-------------------------------- MODULE Program --------------------------------
(***************************************************************************)
(* The life of a graph (gxf/std/program.cpp): it is activated, run, waited *)
(* for and deactivated, over the entity warden (gxf/std/entity_warden.cpp) *)
(* that initializes the entities, the entity executor that runs them and   *)
(* the system group with the scheduler.                                    *)
(*                                                                         *)
(* One caller activates, runs, waits and deactivates, in the order of      *)
(* every application; others interrupt, or wait as well.  call[c] is the   *)
(* next step of caller c: every access to state_, and every call of the    *)
(* warden, the executor or the system group, is a step.                    *)
(*                                                                         *)
(* The scheduler is what any of them does: it executes the entities that   *)
(* are activated when it is run, drops one that will never be ready again, *)
(* and ends when none is left, when it is stopped, or when an execution    *)
(* fails; wait returns when it has ended.                                  *)
(*                                                                         *)
(* After a deactivation that fails the program has dropped its entities    *)
(* and is not followed further.  Entities that are added, activated or     *)
(* deactivated one by one while the graph runs are left out.               *)
(***************************************************************************)
EXTENDS EntityExecutor

CONSTANTS
    Scheduler,      \* the entity with the scheduler
    Main,           \* the caller that activates, runs, waits and deactivates
    Waiters,        \* the callers that wait
    CanFail         \* of "routes", "initialize", "deinitialize" and "run": what may fail

ASSUME MainAssumption == Main \in Callers /\ Main \in Waiters /\ Waiters \subseteq Callers
ASSUME SchedulerAssumption == Scheduler \notin Entities \union {None}

VARIABLES
    state,          \* state_
    unscheduled,    \* unscheduled_entities_
    scheduled,      \* scheduled_entities_
    schedulers,     \* schedulers_
    systems,        \* the entities whose system is in the system group
    initialized,    \* the entities whose stage is kInitialized
    running,        \* whether the scheduler is
    stopping,       \* whether it was stopped, or an execution has failed
    run_failed,     \* whether an execution has failed
    jobs,           \* the entities it still executes
    call,           \* the next step of each caller
    loaded,         \* the value of state_ a waiting caller has loaded
    eids,           \* the entities a deactivating caller has not come to
    eid,            \* the one it is deactivating
    last,           \* the last call of Main
    activation      \* "failed" if the last activation has failed

program == <<state, unscheduled, scheduled, schedulers, systems, initialized>>
scheduler == <<running, stopping, run_failed, jobs>>
calls == <<call, loaded, eids, eid, last, activation>>
allvars == <<vars, program, scheduler, calls>>

All == Entities \union {Scheduler}

ProgramInit ==
    /\ Init
    /\ state = "ORIGIN"
    /\ unscheduled = All /\ scheduled = {}
    /\ schedulers = {} /\ systems = {}
    /\ initialized = {}
    /\ running = FALSE /\ stopping = FALSE /\ run_failed = FALSE
    /\ jobs = {}
    /\ call = [c \in Callers |-> "idle"]
    /\ loaded = [c \in Callers |-> "ORIGIN"]
    /\ eids = [c \in Callers |-> {}] /\ eid = [c \in Callers |-> None]
    /\ last = "deactivate"
    /\ activation = "succeeded"

Then(c, step) == call' = [call EXCEPT ![c] = step]

(* -- Deactivation --------------------------------------------------------*)

\* deactivate(): nothing at ORIGIN, else every entity, those with a scheduler last.
BeginDeactivate(c) ==
    /\ state' = "DEINITALIZING"
    /\ eids' = [eids EXCEPT ![c] = unscheduled \union scheduled]
    /\ Then(c, "deactivate")

\* resetProgram(): the program drops its entities and stays in DEINITALIZING.
Reset(c) ==
    /\ unscheduled' = {} /\ scheduled' = {}
    /\ Then(c, "dropped")

\* unscheduleEntity: an error where the system of the entity is not in the group.
UnscheduleEntity(c, x) ==
    /\ call[c] = "deactivate" /\ x \in eids[c]
    /\ x \in schedulers => eids[c] \subseteq schedulers
    /\ jobs' = jobs \ {x}
    /\ schedulers' = schedulers \ {x}
    /\ eid' = [eid EXCEPT ![c] = x]
    /\ eids' = [eids EXCEPT ![c] = @ \ {x}]
    /\ systems' = systems \ {x}
    /\ \/ /\ x = Scheduler /\ x \notin systems
          /\ Reset(c)
       \/ /\ x = Scheduler => x \in systems
          /\ scheduled' = scheduled \ {x} /\ unscheduled' = unscheduled \union {x}
          /\ Then(c, "remove")
    /\ UNCHANGED <<vars, state, initialized, running, stopping, run_failed, loaded, last,
                   activation>>

\* The executor stops the codelets of the entity, if it has an item for it.
RemoveItem(c) ==
    /\ call[c] = "remove"
    /\ \/ Deactivate(c, eid[c])
       \/ eid[c] \notin items /\ UNCHANGED vars
    /\ Then(c, "deinitialize")
    /\ UNCHANGED <<program, scheduler, loaded, eids, eid, last, activation>>

StopItem(c) == EndDeactivation(c) /\ UNCHANGED <<program, scheduler, calls>>

\* As Deinitialize, before the executor has stopped the codelets.
DeinitializeEarly(c) ==
    /\ call[c] = "deinitialize"
    /\ initialized' = initialized \ {eid[c]}
    /\ eid' = [eid EXCEPT ![c] = None]
    /\ \/ Then(c, "deactivate") /\ UNCHANGED <<unscheduled, scheduled>>
       \/ "deinitialize" \in CanFail /\ eid[c] \in initialized /\ Reset(c)
    /\ UNCHANGED <<vars, state, schedulers, systems, scheduler, loaded, eids, last,
                   activation>>

\* The warden deinitializes every component; an error of one of them ends the deactivation.
Deinitialize(c) ==
    /\ call[c] = "deinitialize" /\ pc[c] = "idle"
    /\ initialized' = initialized \ {eid[c]}
    /\ eid' = [eid EXCEPT ![c] = None]
    /\ \/ Then(c, "deactivate") /\ UNCHANGED <<unscheduled, scheduled>>
       \/ "deinitialize" \in CanFail /\ eid[c] \in initialized /\ Reset(c)
    /\ UNCHANGED <<vars, state, schedulers, systems, scheduler, loaded, eids, last,
                   activation>>

\* As EndDeactivate, the schedulers left out.
EndDeactivateEntities(c) ==
    /\ call[c] = "deactivate" /\ eids[c] \subseteq {Scheduler}
    /\ state' = "ORIGIN"
    /\ Then(c, "idle")
    /\ UNCHANGED <<vars, unscheduled, scheduled, schedulers, systems, initialized, scheduler,
                   loaded, eids, eid, last, activation>>

EndDeactivate(c) ==
    /\ call[c] = "deactivate" /\ eids[c] = {}
    /\ systems' = {}
    /\ state' = "ORIGIN"
    /\ Then(c, "idle")
    /\ UNCHANGED <<vars, unscheduled, scheduled, schedulers, initialized, scheduler, loaded,
                   eids, eid, last, activation>>

\* GxfGraphDeactivate, called when the graph has not been run or was waited for.
GraphDeactivate ==
    /\ call[Main] = "idle" /\ last \in {"activate", "wait"} /\ state # "ORIGIN"
    /\ BeginDeactivate(Main)
    /\ last' = "deactivate"
    /\ UNCHANGED <<vars, unscheduled, scheduled, schedulers, systems, initialized, scheduler,
                   loaded, eid, activation>>

(* -- Activation ----------------------------------------------------------*)

\* A graph whose routes cannot be added is deactivated; that fails, as its system is not in
\* the group yet, and so does the activation.
GraphActivate ==
    /\ call[Main] = "idle" /\ state = "ORIGIN"
    /\ last' = "activate"
    /\ \/ /\ state' = "ACTIVATING" /\ Then(Main, "activate")
          /\ activation' = "succeeded"
          /\ UNCHANGED eids
       \/ /\ "routes" \in CanFail /\ BeginDeactivate(Main)
          /\ activation' = "failed"
    /\ UNCHANGED <<vars, unscheduled, scheduled, schedulers, systems, initialized, scheduler,
                   loaded, eid>>

\* GxfEntityActivate: initialize the components, activate the item, schedule.  The system
\* comes first.  The components initialized before one that fails are deinitialized again.
ActivateEntity(x) ==
    /\ call[Main] = "activate" /\ x \in unscheduled
    /\ Scheduler \in unscheduled => x = Scheduler
    /\ \/ /\ initialized' = initialized \union {x}
          /\ unscheduled' = unscheduled \ {x} /\ scheduled' = scheduled \union {x}
          /\ IF x = Scheduler THEN /\ systems' = {x} /\ schedulers' = {x}
                                   /\ UNCHANGED vars
             ELSE Activate(Main, x) /\ UNCHANGED <<systems, schedulers>>
          /\ UNCHANGED <<state, call, eids, activation>>
       \/ /\ "initialize" \in CanFail
          /\ BeginDeactivate(Main)
          /\ activation' = "failed"
          /\ UNCHANGED <<vars, unscheduled, scheduled, schedulers, systems, initialized>>
    /\ UNCHANGED <<scheduler, loaded, eid, last>>

EndActivate ==
    /\ call[Main] = "activate" /\ unscheduled = {}
    /\ state' = "ACTIVATED"
    /\ Then(Main, "idle")
    /\ UNCHANGED <<vars, unscheduled, scheduled, schedulers, systems, initialized, scheduler,
                   loaded, eids, eid, last, activation>>

(* -- Running, interrupting and waiting -----------------------------------*)

GraphRunAsync ==
    /\ call[Main] = "idle" /\ last \in {"activate", "wait"} /\ state = "ACTIVATED"
    /\ state' = "STARTING"
    /\ Then(Main, "run")
    /\ last' = "run"
    /\ UNCHANGED <<vars, unscheduled, scheduled, schedulers, systems, initialized, scheduler,
                   loaded, eids, eid, activation>>

\* The system group runs the scheduler, with the entities that are activated.
RunSystems ==
    /\ call[Main] = "run"
    /\ \/ /\ running' = TRUE /\ stopping' = FALSE /\ run_failed' = FALSE
          /\ jobs' = items
          /\ Then(Main, "started")
          /\ UNCHANGED <<state, eids>>
       \/ /\ "run" \in CanFail
          /\ BeginDeactivate(Main)
          /\ UNCHANGED scheduler
    /\ UNCHANGED <<vars, unscheduled, scheduled, schedulers, systems, initialized, loaded, eid,
                   last, activation>>

\* A plain store: the state may have changed since STARTING.
Started ==
    /\ call[Main] = "started"
    /\ state' = "RUNNING"
    /\ Then(Main, "idle")
    /\ UNCHANGED <<vars, unscheduled, scheduled, schedulers, systems, initialized, scheduler,
                   loaded, eids, eid, last, activation>>

GraphInterrupt(c) ==
    /\ call[c] = "idle" /\ state = "RUNNING"
    /\ state' = "INTERRUPTING"
    /\ Then(c, "stop")
    /\ UNCHANGED <<vars, unscheduled, scheduled, schedulers, systems, initialized, scheduler,
                   loaded, eids, eid, last, activation>>

\* As StopSystems, the schedulers not told.
StopNoSystem(c) ==
    /\ call[c] = "stop"
    /\ Then(c, "idle")
    /\ UNCHANGED <<vars, program, scheduler, loaded, eids, eid, last, activation>>

StopSystems(c) ==
    /\ call[c] = "stop"
    /\ stopping' = running
    /\ Then(c, "idle")
    /\ UNCHANGED <<vars, program, running, run_failed, jobs, loaded, eids, eid, last, activation>>

\* wait() returns at once where the graph is stopped already.
GraphWait(c) ==
    /\ call[c] = "idle" /\ (c = Main => last = "run")
    /\ \/ /\ state \in {"STARTING", "RUNNING", "INTERRUPTING"}
          /\ Then(c, "waiting") /\ UNCHANGED last
       \/ /\ state \notin {"STARTING", "RUNNING", "INTERRUPTING"}
          /\ c = Main /\ last' = "wait" /\ UNCHANGED call
    /\ UNCHANGED <<vars, program, scheduler, loaded, eids, eid, activation>>

\* As WaitSystems, the schedulers not waited for.
WaitForNoSystem(c) ==
    /\ call[c] = "waiting"
    /\ Then(c, "waited")
    /\ UNCHANGED <<vars, program, scheduler, loaded, eids, eid, last, activation>>

\* A wait that fails, because an execution has, deactivates the graph.
WaitSystems(c) ==
    /\ call[c] = "waiting" /\ ~running
    /\ \/ /\ ~run_failed
          /\ Then(c, "waited")
          /\ UNCHANGED <<state, eids, last>>
       \/ /\ run_failed
          /\ IF state = "ORIGIN" THEN Then(c, "idle") /\ UNCHANGED <<state, eids>>
             ELSE BeginDeactivate(c)
          /\ last' = IF c = Main THEN "deactivate" ELSE last
    /\ UNCHANGED <<vars, unscheduled, scheduled, schedulers, systems, initialized, scheduler,
                   loaded, eid, activation>>

LoadState(c) ==
    /\ call[c] = "waited"
    /\ loaded' = [loaded EXCEPT ![c] = state]
    /\ Then(c, "exchange")
    /\ UNCHANGED <<vars, program, scheduler, eids, eid, last, activation>>

\* A strong compare-and-exchange with the value loaded.
ExchangeState(c) ==
    /\ call[c] = "exchange"
    /\ \/ /\ loaded[c] \in {"RUNNING", "INTERRUPTING"} /\ state = loaded[c]
          /\ state' = "ACTIVATED"
       \/ /\ loaded[c] \notin {"RUNNING", "INTERRUPTING"} \/ state # loaded[c]
          /\ UNCHANGED state
    /\ Then(c, "idle")
    /\ loaded' = [loaded EXCEPT ![c] = "ORIGIN"]
    /\ last' = IF c = Main THEN "wait" ELSE last
    /\ UNCHANGED <<vars, unscheduled, scheduled, schedulers, systems, initialized, scheduler,
                   eids, eid, activation>>

(* -- The scheduler -------------------------------------------------------*)

Pick(w) ==
    /\ running /\ ~stopping
    /\ \E e \in jobs : ExecuteEntity(w, e)
    /\ UNCHANGED <<program, scheduler, calls>>

Work(w) ==
    /\ pc[w] # "monitor" /\ Execute(w)
    /\ UNCHANGED <<program, scheduler, calls>>

\* The condition executeEntity returns, or its error.
Executed(w) ==
    /\ pc[w] = "monitor" /\ Monitor(w)
    /\ jobs' = IF result[w] \in {"never", "given up"} THEN jobs \ {item[w]} ELSE jobs
    /\ stopping' = (stopping \/ result[w] = "error")
    /\ run_failed' = (run_failed \/ result[w] = "error")
    /\ UNCHANGED <<program, running, calls>>

\* As EndRun, the workers not joined.
EndRunEarly ==
    /\ running /\ (stopping \/ jobs = {})
    /\ running' = FALSE /\ stopping' = FALSE
    /\ jobs' = {}
    /\ UNCHANGED <<vars, program, run_failed, calls>>

EndRun ==
    /\ running /\ (stopping \/ jobs = {}) /\ \A w \in Workers : pc[w] = "idle"
    /\ running' = FALSE /\ stopping' = FALSE
    /\ jobs' = {}
    /\ UNCHANGED <<vars, program, run_failed, calls>>

Run == (\E w \in Workers : Pick(w) \/ Work(w) \/ Executed(w)) \/ EndRun

Deactivation(c) ==
    \/ \E x \in All : UnscheduleEntity(c, x)
    \/ RemoveItem(c) \/ StopItem(c) \/ Deinitialize(c) \/ EndDeactivate(c)

\* The steps of a call that was begun.
Proceed(c) ==
    \/ c = Main /\ (EndActivate \/ RunSystems \/ Started \/ \E x \in All : ActivateEntity(x))
    \/ StopSystems(c) \/ WaitSystems(c) \/ LoadState(c) \/ ExchangeState(c)
    \/ Deactivation(c)

ProgramNext ==
    \/ Run
    \/ GraphActivate \/ GraphRunAsync \/ GraphDeactivate
    \/ \E c \in Callers \ {Main} : GraphInterrupt(c)
    \/ \E c \in Waiters : GraphWait(c)
    \/ \E c \in Callers : Proceed(c)

ProgramSpec == ProgramInit /\ [][ProgramNext]_allvars

\* A call that was begun goes on, and so does a run: codelets and monitors return.
ProgramFairness ==
    /\ WF_allvars(Run)
    /\ \A c \in Callers : WF_allvars(Proceed(c))

ProgramFairSpec == ProgramSpec /\ ProgramFairness

(* -- Properties ----------------------------------------------------------*)

\* WaitsForExecution (EntityExecutor) holds of a graph that is deactivated after wait has
\* returned, although Overtaking is possible: no item is freed while a worker has its address.

\* Codelets are started, ticked and stopped only while the components of their entity are
\* initialized, whoever calls.
CodeletsRunInitialized ==
    \A t \in Threads : pc[t] \in {"start", "tick", "stop"} => item[t] \in initialized

\* state_ does not say that the graph is not running while its scheduler is.
StateTellsRunning == running => state \in {"STARTING", "RUNNING", "INTERRUPTING"}

\* Nothing is left of a graph that is back at ORIGIN.
OriginIsClean ==
    state = "ORIGIN" => /\ initialized = {} /\ items = {} /\ scheduled = {}
                        /\ schedulers = {} /\ systems = {} /\ ~running

\* An interrupted graph stops, and the caller that waits for it is told.
InterruptEndsWait ==
    \A c \in Callers : call[c] = "stop" /\ call[Main] = "waiting" ~> call[Main] # "waiting"

\* program.hpp says that the entire program is deactivated if an entity fails to activate.
FailedActivationDeactivates ==
    activation = "failed" /\ call[Main] \in {"idle", "dropped"} => state = "ORIGIN"

\* wait() is to leave the graph activated, for the next run.
WaitLeavesActivated == last = "wait" /\ call[Main] = "idle" => state \in {"ACTIVATED", "ORIGIN"}
================================================================================
