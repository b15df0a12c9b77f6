----------------------------- MODULE GraphExecution -----------------------------
(***************************************************************************)
(* The execution of a graph whose segments are spread over several         *)
(* workers: GraphDriver (gxf/std/graph_driver.cpp), GraphWorker and        *)
(* SegmentRunner (gxf/std/graph_worker.cpp), each a QueueThread, and the   *)
(* synchronous calls between them.                                         *)
(*                                                                         *)
(* The workers register with the driver; once every segment is there the   *)
(* driver sends the addresses of the receivers, and has the segments       *)
(* activated and run.  A worker reports when all of its segments have run; *)
(* when all workers have, the driver takes the segments and workers down.  *)
(* A server handles one request at a time.  A request or its answer may be *)
(* lost: the caller gets an error, whether it was handled or not.          *)
(*                                                                         *)
(* Stopping a QueueThread is one step here: the signal comes before all    *)
(* that is queued (QueueThread).  The result of a graph that fails changes *)
(* nothing of what follows.  Left out are stops by the programs themselves *)
(* and workers without a segment.                                          *)
(***************************************************************************)
EXTENDS Integers, Sequences, FiniteSets

CONSTANTS
    Workers,        \* the workers
    Segments,       \* the segments that the connections of the driver name
    Worker,         \* the worker of each segment
    Sources,        \* the segments with a transmitter to another segment
    Retries,        \* driver_reconnection_times_
    None,           \* no worker and no segment
    MaxFaults       \* the bound on the requests and answers lost

ASSUME SegmentsAssumption ==
    /\ Worker \in [Segments -> Workers] /\ Sources \subseteq Segments
    /\ \A w \in Workers : \E s \in Segments : Worker[s] = w
    /\ IsFiniteSet(Segments)
ASSUME NoneAssumption == None \notin Workers \cup Segments
ASSUME BoundsAssumption == Retries \in Nat /\ MaxFaults \in Nat

VARIABLES
    requested,      \* requested_segment_names_
    workers,        \* workers_
    completed,      \* completed_workers_
    events,         \* the queue of the driver's thread
    driver,         \* the event it handles and the workers still to be called
    call,           \* its call: to whom, for what, and the segments waited for and still to come
    registration,   \* the step of each worker's thread
    attempts,       \* retry_times of each worker
    report,         \* the call of each worker to the driver
    checks,         \* how many segment-runner-complete events are queued with a worker
    done,           \* completed_segment_runner_nums_
    queue,          \* the queue of each segment's thread
    runner,         \* what it does
    stopping,       \* the threads, of segments and workers, that have a stop signal
    executed,       \* the events each segment's thread has executed
    connected,      \* the segments whose transmitters have their addresses
    faults,         \* how many requests and answers were lost
    harmed          \* whether one was lost that the driver and the workers do not make up for

driver_vars == <<requested, workers, completed, events>>
worker_vars == <<registration, attempts, report, checks, done>>
segment_vars == <<queue, runner, executed, connected>>
fault_vars == <<faults, harmed>>
vars == <<driver_vars, driver, call, worker_vars, segment_vars, stopping, fault_vars>>

Events == {"ResolveConnections", "ExecuteWorkers", "DeactivateWorkers", "StopWorkers"}

\* The requests that an event sends to each worker.
Requests(event) ==
    CASE event = "ResolveConnections" -> <<"SetComponentParams">>
      [] event = "ExecuteWorkers" -> <<"ActivateSegments", "RunSegments">>
      [] event = "DeactivateWorkers" -> <<"DeactivateSegments", "DestroySegments">>
      [] event = "StopWorkers" -> <<"StopWorker">>

SegmentsOf(w) == {s \in Segments : Worker[s] = w}
NoCall == [to |-> None, request |-> "none", state |-> "none", at |-> None, todo |-> {}]
Calling(w, request) ==
    [to |-> w, request |-> request, state |-> "sent", at |-> None, todo |-> SegmentsOf(w)]

Init ==
    /\ requested = {} /\ workers = {} /\ completed = {} /\ events = <<>>
    /\ driver = [event |-> "none", todo |-> {}] /\ call = NoCall
    /\ registration = [w \in Workers |-> "register"]
    /\ attempts = [w \in Workers |-> 0] /\ report = [w \in Workers |-> "sent"]
    /\ checks = [w \in Workers |-> 0] /\ done = [w \in Workers |-> 0]
    /\ queue = [s \in Segments |-> <<>>] /\ runner = [s \in Segments |-> "pop"]
    /\ executed = [s \in Segments |-> <<>>] /\ connected = {}
    /\ stopping = {}
    /\ faults = 0 /\ harmed = FALSE

(* -- The driver's thread -------------------------------------------------*)

\* As Called, the workers with a target.
CalledTargets(event) ==
    IF event = "ResolveConnections" THEN {w \in workers : SegmentsOf(w) \ Sources # {}} ELSE workers

\* resolveConnections calls only the workers with a source of a connection.
Called(event) ==
    IF event = "ResolveConnections" THEN {w \in workers : SegmentsOf(w) \cap Sources # {}} ELSE workers

PopEvent ==
    /\ driver.event = "none" /\ events # <<>>
    /\ driver' = [event |-> Head(events), todo |-> Called(Head(events))]
    /\ events' = Tail(events)
    /\ UNCHANGED <<requested, workers, completed, call, worker_vars, segment_vars, stopping,
                   fault_vars>>

SendRequest ==
    /\ driver.event \in Events /\ call = NoCall
    /\ \E w \in driver.todo :
         /\ call' = Calling(w, Requests(driver.event)[1])
         /\ driver' = [driver EXCEPT !.todo = @ \ {w}]
    /\ UNCHANGED <<driver_vars, worker_vars, segment_vars, stopping, fault_vars>>

\* executeWorkers gives up at the first error, which ends the thread; the others go on.
TakeAnswer ==
    /\ call.state \in {"ok", "failed"}
    /\ LET both == Requests(driver.event) IN
       IF call.state = "failed" /\ driver.event = "ExecuteWorkers"
       THEN call' = NoCall /\ driver' = [event |-> "gone", todo |-> {}] /\ events' = <<>>
       ELSE /\ call' = IF Len(both) = 2 /\ call.request = both[1]
                       THEN Calling(call.to, both[2]) ELSE NoCall
            /\ UNCHANGED <<driver, events>>
    /\ UNCHANGED <<requested, workers, completed, worker_vars, segment_vars, stopping, fault_vars>>

FinishEvent ==
    /\ driver.event \in Events /\ call = NoCall /\ driver.todo = {}
    /\ driver' = [event |-> IF driver.event = "StopWorkers" THEN "gone" ELSE "none", todo |-> {}]
    /\ events' = CASE driver.event = "ResolveConnections" -> Append(events, "ExecuteWorkers")
                   [] driver.event = "StopWorkers" -> <<>>
                   [] OTHER -> events
    /\ UNCHANGED <<requested, workers, completed, call, worker_vars, segment_vars, stopping,
                   fault_vars>>

Driver == PopEvent \/ SendRequest \/ TakeAnswer \/ FinishEvent

(* -- The driver's server -------------------------------------------------*)

\* As AllRequested, content with the first worker.
SomeRequested(all) == all # {}

AllRequested(all) == all = Segments

\* onRegisterGraphWorker.
HandleRegister(w) ==
    /\ registration[w] = "register" /\ report[w] = "sent"
    /\ IF SegmentsOf(w) \cap requested # {}
       THEN report' = [report EXCEPT ![w] = "failed"] /\ UNCHANGED driver_vars
       ELSE /\ report' = [report EXCEPT ![w] = "ok"]
            /\ requested' = requested \union SegmentsOf(w)
            /\ workers' = workers \union {w}
            /\ events' = IF AllRequested(requested') THEN Append(events, "ResolveConnections") ELSE events
            /\ UNCHANGED completed
    /\ UNCHANGED <<driver, call, registration, attempts, checks, done, segment_vars, stopping,
                   fault_vars>>

\* onGraphWorkerComplete.
HandleComplete(w) ==
    /\ registration[w] = "complete" /\ report[w] = "sent"
    /\ IF w \notin workers
       THEN report' = [report EXCEPT ![w] = "failed"] /\ UNCHANGED driver_vars
       ELSE /\ report' = [report EXCEPT ![w] = "ok"]
            /\ completed' = completed \union {w}
            /\ events' = IF completed' = workers
                         THEN events \o <<"DeactivateWorkers", "StopWorkers">> ELSE events
            /\ UNCHANGED <<requested, workers>>
    /\ UNCHANGED <<driver, call, registration, attempts, checks, done, segment_vars, stopping,
                   fault_vars>>

(* -- A worker's server ---------------------------------------------------*)

Queue(s, event) == queue' = [queue EXCEPT ![s] = Append(@, event)]
Executed(s, event) == \E k \in 1 .. Len(executed[s]) : executed[s][k] = event

\* Each handler goes through the segments of the worker; a step for each of them.
Handling(requests) == call.state = "sent" /\ call.request \in requests /\ call.at = None
Handled(s) == call' = [call EXCEPT !.at = None, !.todo = @ \ {s}]

\* setParameter waits for context_mutex_.
SetComponentParams(s) ==
    /\ Handling({"SetComponentParams"}) /\ runner[s] \in {"pop", "gone"}
    /\ connected' = connected \union {s}
    /\ Handled(s)
    /\ UNCHANGED <<driver_vars, driver, worker_vars, queue, runner, executed, stopping, fault_vars>>

QueueSegment(s) ==
    /\ \/ Handling({"ActivateSegments"}) /\ Queue(s, "activate")
       \/ Handling({"RunSegments"}) /\ Queue(s, "run")
    /\ Handled(s)
    /\ UNCHANGED <<driver_vars, driver, worker_vars, runner, executed, connected, stopping,
                   fault_vars>>

TakenDown == [DeactivateSegments |-> "deactivate", DestroySegments |-> "destroy"]

\* The future of an event is waited for before the next segment has its turn.
TakeDown(s) ==
    /\ Handling(DOMAIN TakenDown)
    /\ Queue(s, TakenDown[call.request])
    /\ call' = [call EXCEPT !.at = s]
    /\ UNCHANGED <<driver_vars, driver, worker_vars, runner, executed, connected, stopping,
                   fault_vars>>

TakenDownIs(s) ==
    /\ call.at = s /\ call.request \in DOMAIN TakenDown
    /\ Executed(s, TakenDown[call.request])
    /\ Handled(s)
    /\ UNCHANGED <<driver_vars, driver, worker_vars, segment_vars, stopping, fault_vars>>

\* stop_all_segments stops and joins one thread after the other.
StopSegment(s) ==
    /\ Handling({"StopWorker"})
    /\ stopping' = stopping \union {s}
    /\ call' = [call EXCEPT !.at = s]
    /\ UNCHANGED <<driver_vars, driver, worker_vars, segment_vars, fault_vars>>

SegmentStopped(s) ==
    /\ call.at = s /\ call.request = "StopWorker" /\ runner[s] = "gone"
    /\ Handled(s)
    /\ UNCHANGED <<driver_vars, driver, worker_vars, segment_vars, stopping, fault_vars>>

StopThread ==
    /\ Handling({"StopWorker"}) /\ call.todo = {} /\ call.to \notin stopping
    /\ stopping' = stopping \union {call.to}
    /\ UNCHANGED <<driver_vars, driver, call, worker_vars, segment_vars, fault_vars>>

AnswerRequest ==
    /\ call.state = "sent" /\ call.todo = {}
    /\ call.request = "StopWorker" => call.to \in stopping /\ registration[call.to] = "gone"
    /\ call' = [call EXCEPT !.state = "ok"]
    /\ UNCHANGED <<driver_vars, driver, worker_vars, segment_vars, stopping, fault_vars>>

Server ==
    \/ StopThread \/ AnswerRequest
    \/ \E s \in call.todo :
         SetComponentParams(s) \/ QueueSegment(s) \/ TakeDown(s) \/ TakenDownIs(s)
           \/ StopSegment(s) \/ SegmentStopped(s)

(* -- A worker's thread ---------------------------------------------------*)

Step(w, step) == registration' = [registration EXCEPT ![w] = step]

\* As ReportAccepted, with the end of the loop after the completion.
ReportAcceptedEnding(w) ==
    /\ report[w] = "ok"
    /\ report' = [report EXCEPT ![w] = "none"]
    /\ Step(w, IF registration[w] = "complete" THEN "failing" ELSE "pop")
    /\ UNCHANGED <<driver_vars, driver, call, attempts, checks, done, segment_vars, stopping,
                   fault_vars>>

ReportAccepted(w) ==
    /\ report[w] = "ok"
    /\ report' = [report EXCEPT ![w] = "none"]
    /\ Step(w, "pop")
    /\ UNCHANGED <<driver_vars, driver, call, attempts, checks, done, segment_vars, stopping,
                   fault_vars>>

\* As ReportFailed, without a second try.
ReportFailedOnce(w) ==
    /\ report[w] = "failed"
    /\ report' = [report EXCEPT ![w] = "none"]
    /\ Step(w, "failing")
    /\ UNCHANGED <<driver_vars, driver, call, attempts, checks, done, segment_vars, stopping,
                   fault_vars>>

\* registerGraphWorker tries again; whatever else fails stops the segments.
ReportFailed(w) ==
    /\ report[w] = "failed"
    /\ LET again == registration[w] = "register" /\ attempts[w] < Retries IN
       /\ report' = [report EXCEPT ![w] = IF again THEN "sent" ELSE "none"]
       /\ Step(w, IF again THEN "register" ELSE "failing")
    /\ attempts' = IF registration[w] = "register" THEN [attempts EXCEPT ![w] = @ + 1] ELSE attempts
    /\ UNCHANGED <<driver_vars, driver, call, checks, done, segment_vars, stopping, fault_vars>>

\* checkComplete.
CheckComplete(w) ==
    /\ registration[w] = "pop" /\ w \notin stopping /\ checks[w] > 0
    /\ checks' = [checks EXCEPT ![w] = @ - 1]
    /\ done' = [done EXCEPT ![w] = @ + 1]
    /\ LET runners == Cardinality(SegmentsOf(w)) IN
       /\ Step(w, CASE done'[w] < runners -> "pop"
                    [] done'[w] = runners -> "complete"
                    [] OTHER -> "failing")
       /\ report' = IF done'[w] = runners THEN [report EXCEPT ![w] = "sent"] ELSE report
    /\ UNCHANGED <<driver_vars, driver, call, attempts, segment_vars, stopping, fault_vars>>

\* stop_all_segments of the thread that has failed.
StopFailed(w) ==
    /\ registration[w] = "failing"
    /\ LET left == {s \in SegmentsOf(w) : runner[s] # "gone"} IN
       \/ left = {} /\ Step(w, "gone") /\ UNCHANGED stopping
       \/ /\ left # {} /\ left \cap stopping = {}
          /\ \E s \in left : stopping' = stopping \union {s}
          /\ UNCHANGED registration
    /\ UNCHANGED <<driver_vars, driver, call, attempts, report, checks, done, segment_vars,
                   fault_vars>>

EndThread(w) ==
    /\ registration[w] = "pop" /\ w \in stopping
    /\ Step(w, "gone")
    /\ UNCHANGED <<driver_vars, driver, call, attempts, report, checks, done, segment_vars,
                   stopping, fault_vars>>

Thread(w) ==
    ReportAccepted(w) \/ ReportFailed(w) \/ CheckComplete(w) \/ StopFailed(w) \/ EndThread(w)

(* -- A segment's thread --------------------------------------------------*)

PopSegment(s) ==
    /\ runner[s] = "pop"
    /\ IF s \in stopping
       THEN runner' = [runner EXCEPT ![s] = "gone"] /\ UNCHANGED queue
       ELSE /\ queue[s] # <<>>
            /\ runner' = [runner EXCEPT ![s] = Head(queue[s])]
            /\ queue' = [queue EXCEPT ![s] = Tail(@)]
    /\ UNCHANGED <<driver_vars, driver, call, worker_vars, executed, connected, stopping,
                   fault_vars>>

ExecuteSegment(s) ==
    /\ runner[s] \notin {"pop", "gone"}
    /\ executed' = [executed EXCEPT ![s] = Append(@, runner[s])]
    /\ checks' = IF runner[s] = "run" THEN [checks EXCEPT ![Worker[s]] = @ + 1] ELSE checks
    /\ runner' = [runner EXCEPT ![s] = "pop"]
    /\ UNCHANGED <<driver_vars, driver, call, registration, attempts, report, done, queue,
                   connected, stopping, fault_vars>>

Runner(s) == PopSegment(s) \/ ExecuteSegment(s)

(* -- Faults --------------------------------------------------------------*)

\* What may be lost without harm: the driver goes on without these.
Spared ==
    \/ call.request \in {"SetComponentParams", "DeactivateSegments", "DestroySegments"}
    \/ call.request = "StopWorker" /\ call.state = "ok"

LoseOfDriver ==
    /\ call.state \in {"sent", "ok"}
    /\ call.state = "sent" => call.at = None /\ call.todo = SegmentsOf(call.to) /\ call.to \notin stopping
    /\ call' = [call EXCEPT !.state = "failed"]
    /\ harmed' = (harmed \/ ~Spared)
    /\ UNCHANGED report

LoseOfWorker ==
    \E w \in Workers :
        /\ report[w] \in {"sent", "ok"}
        /\ report' = [report EXCEPT ![w] = "failed"]
        /\ harmed' = (harmed \/ registration[w] # "register" \/ report[w] = "ok" \/ attempts[w] = Retries)
        /\ UNCHANGED call

Lose ==
    /\ faults < MaxFaults
    /\ faults' = faults + 1
    /\ LoseOfDriver \/ LoseOfWorker
    /\ UNCHANGED <<driver_vars, driver, registration, attempts, checks, done, segment_vars,
                   stopping>>

Next ==
    \/ Driver \/ Server \/ Lose
    \/ \E w \in Workers : HandleRegister(w) \/ HandleComplete(w) \/ Thread(w)
    \/ \E s \in Segments : Runner(s)

Spec == Init /\ [][Next]_vars

\* No thread and no server is starved, and the graph of every segment comes to its end.
Fairness ==
    /\ WF_vars(Driver) /\ WF_vars(Server)
    /\ \A w \in Workers : WF_vars(HandleRegister(w) \/ HandleComplete(w)) /\ WF_vars(Thread(w))
    /\ \A s \in Segments : WF_vars(Runner(s))

FairSpec == Spec /\ Fairness

(* -- Properties ----------------------------------------------------------*)

Stage(s) ==
    IF runner[s] \in {"deactivate", "destroy"} \/ Executed(s, "deactivate") \/ Executed(s, "destroy")
    THEN "down"
    ELSE IF runner[s] = "run" THEN "running"
    ELSE IF Executed(s, "run") THEN "ran"
    ELSE IF runner[s] = "activate" \/ Executed(s, "activate") THEN "active"
    ELSE "loaded"

\* The segments go through their stages once and in order, with a barrier before the first
\* activation and one after the last run, whatever requests and answers are lost.
Barriers == INSTANCE GraphBarriers WITH known <- requested, stage <- [s \in Segments |-> Stage(s)]
ImplementsBarriers == Barriers!Spec

\* Nothing runs before the transmitters of all segments have their addresses, unless a
\* request was lost.
RunsConnected == faults = 0 /\ (\E s \in Segments : Stage(s) # "loaded") => Sources \subseteq connected

\* onDeactivateSegments and onDestroySegments, which wait for the thread of a segment to execute
\* their item, get the answer: that thread was not told to stop before, by the worker's own
\* stop_all_segments, unless something was lost for good.
TakeDownAnswered ==
    ~harmed /\ call.request \in DOMAIN TakenDown /\ call.at # None => call.at \notin stopping

\* In the end the driver, the workers and the segments have stopped, though registrations were
\* lost no more often than they are repeated, and any of the requests that only prepare or
\* take down.
EverythingStops ==
    <>(harmed \/ /\ driver.event = "gone"
                 /\ \A w \in Workers : registration[w] = "gone"
                 /\ \A s \in Segments : runner[s] = "gone")
================================================================================
