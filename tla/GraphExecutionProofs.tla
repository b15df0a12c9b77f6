-------------------------- MODULE GraphExecutionProofs --------------------------
(***************************************************************************)
(* For every set of workers and segments, every distribution of the        *)
(* segments and whatever requests and answers are lost: the segments of    *)
(* GraphExecution go through their stages behind the two barriers of       *)
(* GraphBarriers, and, when nothing is lost, none is activated before all  *)
(* transmitters have their addresses.                                      *)
(*                                                                         *)
(* What has been given to the thread of a segment, executed or not, is its *)
(* class: nothing (Fresh), activate, then run, then deactivate, destroy.   *)
(* The thread's own steps keep the class.  A request of the driver moves   *)
(* the segments of one worker from one class to the next, and the queue    *)
(* of the driver, the event it handles and its call tell which workers     *)
(* have had which requests.                                                *)
(***************************************************************************)
EXTENDS GraphExecution, FiniteSetTheorems, SequenceTheorems, TLAPS

-------------------------------------------------------------------------------
(* What is queued and executed. *)

H0 == <<>>
HA == <<"activate">>
HAR == <<"activate", "run">>
HARD == <<"activate", "run", "deactivate">>
HARX == <<"activate", "run", "destroy">>
HARDX == <<"activate", "run", "deactivate", "destroy">>
QR == <<"run">>
QD == <<"deactivate">>
QX == <<"destroy">>

Histories == {H0, HA, HAR, HARD, HARX, HARDX}
Queues == {H0, HA, HAR, QR, QD, QX}
Ranks == {HAR, HARD, HARX, HARDX}

Resting(s) == runner[s] \in {"pop", "gone"}
Rests(s, h, q) == Resting(s) /\ executed[s] = h /\ queue[s] = q
Busy(s, h, event, q) == runner[s] = event /\ executed[s] = h /\ queue[s] = q

Fresh(s) == Rests(s, H0, H0)
AtActivate(s) == Rests(s, H0, HA) \/ Busy(s, H0, "activate", H0) \/ Rests(s, HA, H0)
AtRun(s) ==
    \/ Rests(s, H0, HAR) \/ Busy(s, H0, "activate", QR) \/ Rests(s, HA, QR)
    \/ Busy(s, HA, "run", H0) \/ Rests(s, HAR, H0)
AtDeactivate(s) ==
    Rests(s, HAR, QD) \/ Busy(s, HAR, "deactivate", H0) \/ Rests(s, HARD, H0)
AtDestroy(s) ==
    \/ Rests(s, HAR, QX) \/ Busy(s, HAR, "destroy", H0) \/ Rests(s, HARX, H0)
    \/ Rests(s, HARD, QX) \/ Busy(s, HARD, "destroy", H0) \/ Rests(s, HARDX, H0)

\* All that was given to s is executed, up to its deactivation.
Down(s) == Rests(s, HARD, H0)
Ran(s) == executed[s] \in Ranks

Class(s) == Fresh(s) \/ AtActivate(s) \/ AtRun(s) \/ AtDeactivate(s) \/ AtDestroy(s)
Shapes == \A s \in Segments : Class(s)

V0 == <<>>
VR == <<"ResolveConnections">>
VE == <<"ExecuteWorkers">>
VDS == <<"DeactivateWorkers", "StopWorkers">>
VS == <<"StopWorkers">>

RunnerStates == {"pop", "gone", "activate", "run", "deactivate", "destroy"}
RequestNames == {"SetComponentParams", "ActivateSegments", "RunSegments",
                 "DeactivateSegments", "DestroySegments", "StopWorker"}

Calls ==
    [to : Workers \cup {None}, request : RequestNames \cup {"none"},
     state : {"none", "sent", "ok", "failed"}, at : Segments \cup {None},
     todo : SUBSET Segments]
USE DEF Calls

TypeOK ==
    /\ requested \in SUBSET Segments /\ workers \in SUBSET Workers
    /\ completed \in SUBSET Workers /\ events \in {V0, VR, VE, VDS, VS}
    /\ driver \in [event : Events \cup {"none", "gone"}, todo : SUBSET Workers]
    /\ call \in Calls
    /\ registration \in [Workers -> {"register", "pop", "complete", "failing", "gone"}]
    /\ report \in [Workers -> {"none", "sent", "ok", "failed"}]
    /\ attempts \in [Workers -> Nat] /\ checks \in [Workers -> Nat] /\ done \in [Workers -> Nat]
    /\ queue \in [Segments -> Queues] /\ runner \in [Segments -> RunnerStates]
    /\ executed \in [Segments -> Histories]
    /\ connected \in SUBSET Segments /\ stopping \in SUBSET (Workers \cup Segments)
    /\ faults \in Nat /\ harmed \in BOOLEAN

\* What an Append makes of a short tuple.
LEMMA Append1 == ASSUME NEW a, NEW b PROVE Append(<<a>>, b) = <<a, b>>
  <1> DEFINE S == {a, b}
             s == Append(<<a>>, b)
             t == <<a, b>>
  <1>1. s \in Seq(S) /\ t \in Seq(S) /\ Len(s) = 2 /\ Len(t) = 2
    OBVIOUS
  <1>2. s[1] = t[1] /\ s[2] = t[2]
    OBVIOUS
  <1>3. \A i \in 1 .. 2 : i = 1 \/ i = 2
    OBVIOUS
  <1> HIDE DEF s, t, S
  <1>4. \A i \in 1 .. Len(s) : s[i] = t[i]
    BY <1>1, <1>2, <1>3
  <1>5. s = t
    BY <1>1, <1>4, SeqEqual
  <1>6. QED
    BY <1>5 DEF s, t

LEMMA Append2 == ASSUME NEW a, NEW b, NEW c PROVE Append(<<a, b>>, c) = <<a, b, c>>
  <1> DEFINE S == {a, b, c}
             s == Append(<<a, b>>, c)
             t == <<a, b, c>>
  <1>1. s \in Seq(S) /\ t \in Seq(S) /\ Len(s) = 3 /\ Len(t) = 3
    OBVIOUS
  <1>2. s[1] = t[1] /\ s[2] = t[2] /\ s[3] = t[3]
    OBVIOUS
  <1>3. \A i \in 1 .. 3 : i = 1 \/ i = 2 \/ i = 3
    OBVIOUS
  <1> HIDE DEF s, t, S
  <1>4. \A i \in 1 .. Len(s) : s[i] = t[i]
    BY <1>1, <1>2, <1>3
  <1>5. s = t
    BY <1>1, <1>4, SeqEqual
  <1>6. QED
    BY <1>5 DEF s, t

LEMMA Append3 == ASSUME NEW a, NEW b, NEW c, NEW d PROVE Append(<<a, b, c>>, d) = <<a, b, c, d>>
  <1> DEFINE S == {a, b, c, d}
             s == Append(<<a, b, c>>, d)
             t == <<a, b, c, d>>
  <1>1. s \in Seq(S) /\ t \in Seq(S) /\ Len(s) = 4 /\ Len(t) = 4
    OBVIOUS
  <1>2. s[1] = t[1] /\ s[2] = t[2] /\ s[3] = t[3] /\ s[4] = t[4]
    OBVIOUS
  <1>3. \A i \in 1 .. 4 : i = 1 \/ i = 2 \/ i = 3 \/ i = 4
    OBVIOUS
  <1> HIDE DEF s, t, S
  <1>4. \A i \in 1 .. Len(s) : s[i] = t[i]
    BY <1>1, <1>2, <1>3
  <1>5. s = t
    BY <1>1, <1>4, SeqEqual
  <1>6. QED
    BY <1>5 DEF s, t

LEMMA HistoryTable ==
    /\ Append(H0, "activate") = HA /\ Append(HA, "run") = HAR
    /\ Append(HAR, "deactivate") = HARD /\ Append(HAR, "destroy") = HARX
    /\ Append(HARD, "destroy") = HARDX
    /\ Append(H0, "run") = QR /\ Append(H0, "deactivate") = QD /\ Append(H0, "destroy") = QX
    /\ Head(HA) = "activate" /\ Tail(HA) = H0 /\ Head(HAR) = "activate" /\ Tail(HAR) = QR
    /\ Head(QR) = "run" /\ Tail(QR) = H0 /\ Head(QD) = "deactivate" /\ Tail(QD) = H0
    /\ Head(QX) = "destroy" /\ Tail(QX) = H0
  <1>1. Append(H0, "activate") = HA
    BY DEF H0, HA
  <1>2. /\ Append(HA, "run") = HAR
        /\ Append(HAR, "deactivate") = HARD /\ Append(HAR, "destroy") = HARX
        /\ Append(HARD, "destroy") = HARDX
    BY Append1, Append2, Append3 DEF HA, HAR, HARD, HARX, HARDX
  <1>3. /\ Append(H0, "run") = QR /\ Append(H0, "deactivate") = QD
        /\ Append(H0, "destroy") = QX
    BY DEF H0, QR, QD, QX
  <1>4. /\ Head(HA) = "activate" /\ Tail(HA) = H0 /\ Head(HAR) = "activate" /\ Tail(HAR) = QR
    BY DEF H0, HA, HAR, QR
  <1>5. /\ Head(QR) = "run" /\ Tail(QR) = H0 /\ Head(QD) = "deactivate" /\ Tail(QD) = H0
        /\ Head(QX) = "destroy" /\ Tail(QX) = H0
    BY DEF H0, QR, QD, QX
  <1>6. QED
    BY <1>1, <1>2, <1>3, <1>4, <1>5

LEMMA HistoriesDiffer ==
    /\ H0 \notin {HA, HAR, HARD, HARX, HARDX, QR, QD, QX}
    /\ HA \notin {HAR, HARD, HARX, HARDX, QR, QD, QX}
    /\ HAR \notin {HARD, HARX, HARDX, QR, QD, QX}
    /\ HARD \notin {HARX, HARDX} /\ HARX # HARDX
    /\ QR \notin {QD, QX} /\ QD # QX
  BY DEF H0, HA, HAR, HARD, HARX, HARDX, QR, QD, QX

LEMMA EventTable ==
    /\ V0 \notin {VR, VE, VDS, VS} /\ VR \notin {VE, VDS, VS} /\ VE \notin {VDS, VS} /\ VDS # VS
    /\ Append(V0, "ResolveConnections") = VR /\ Append(V0, "ExecuteWorkers") = VE
    /\ V0 \o <<"DeactivateWorkers", "StopWorkers">> = VDS
    /\ Head(VR) = "ResolveConnections" /\ Tail(VR) = V0
    /\ Head(VE) = "ExecuteWorkers" /\ Tail(VE) = V0
    /\ Head(VDS) = "DeactivateWorkers" /\ Tail(VDS) = VS
    /\ Head(VS) = "StopWorkers" /\ Tail(VS) = V0
  BY DEF V0, VR, VE, VDS, VS

\* The events that have been executed, read off the history.
LEMMA ExecutedTable ==
    ASSUME NEW s \in Segments, executed[s] \in Histories
    PROVE  /\ Executed(s, "activate") <=> executed[s] # H0
           /\ Executed(s, "run") <=> executed[s] \in Ranks
           /\ Executed(s, "deactivate") <=> executed[s] \in {HARD, HARDX}
           /\ Executed(s, "destroy") <=> executed[s] \in {HARX, HARDX}
  <1>1. CASE executed[s] = H0
    <2>1. Len(executed[s]) = 0
      BY <1>1 DEF H0
    <2>2. QED
      BY <1>1, <2>1, HistoriesDiffer DEF Executed, Ranks
  <1>2. CASE executed[s] = HA
    <2>1. Len(executed[s]) = 1 /\ executed[s][1] = "activate"
      BY <1>2 DEF HA
    <2>2. QED
      BY <1>2, <2>1, HistoriesDiffer DEF Executed, Ranks
  <1>3. CASE executed[s] = HAR
    <2>1. Len(executed[s]) = 2 /\ executed[s][1] = "activate" /\ executed[s][2] = "run"
      BY <1>3 DEF HAR
    <2>2. QED
      BY <1>3, <2>1, HistoriesDiffer DEF Executed, Ranks
  <1>4. CASE executed[s] = HARD
    <2>1. /\ Len(executed[s]) = 3 /\ executed[s][1] = "activate" /\ executed[s][2] = "run"
          /\ executed[s][3] = "deactivate"
      BY <1>4 DEF HARD
    <2>2. QED
      BY <1>4, <2>1, HistoriesDiffer DEF Executed, Ranks
  <1>5. CASE executed[s] = HARX
    <2>1. /\ Len(executed[s]) = 3 /\ executed[s][1] = "activate" /\ executed[s][2] = "run"
          /\ executed[s][3] = "destroy"
      BY <1>5 DEF HARX
    <2>2. QED
      BY <1>5, <2>1, HistoriesDiffer DEF Executed, Ranks
  <1>6. CASE executed[s] = HARDX
    <2>1. /\ Len(executed[s]) = 4 /\ executed[s][1] = "activate" /\ executed[s][2] = "run"
          /\ executed[s][3] = "deactivate" /\ executed[s][4] = "destroy"
      BY <1>6 DEF HARDX
    <2>2. QED
      BY <1>6, <2>1, HistoriesDiffer DEF Executed, Ranks
  <1>7. QED
    BY <1>1, <1>2, <1>3, <1>4, <1>5, <1>6 DEF Histories

\* The classes exclude one another.
LEMMA ClassesDiffer ==
    ASSUME NEW s
    PROVE  /\ Fresh(s) => ~AtActivate(s) /\ ~AtRun(s) /\ ~AtDeactivate(s) /\ ~AtDestroy(s)
           /\ AtActivate(s) => ~AtRun(s) /\ ~AtDeactivate(s) /\ ~AtDestroy(s)
           /\ AtRun(s) => ~AtDeactivate(s) /\ ~AtDestroy(s)
           /\ AtDeactivate(s) => ~AtDestroy(s)
           /\ Ran(s) => ~Fresh(s) /\ ~AtActivate(s)
           /\ AtDeactivate(s) \/ AtDestroy(s) => Ran(s)
           /\ Down(s) => AtDeactivate(s)
  BY HistoriesDiffer DEF Fresh, AtActivate, AtRun, AtDeactivate, AtDestroy, Down, Ran, Ranks,
       Rests, Busy, Resting

-------------------------------------------------------------------------------
(* The inductive invariant. *)

Registered ==
    /\ \A s \in Segments : s \in requested <=> Worker[s] \in workers
    /\ completed \subseteq workers

\* The driver's queue and the event it handles.
DriverInv ==
    /\ driver.todo \subseteq workers
    /\ driver.event \in {"none", "gone"} => driver.todo = {} /\ call = NoCall
    /\ requested # Segments => events = V0 /\ driver.event = "none"
    /\ events \in {VR, VE} => driver.event = "none"
    /\ driver.event = "ResolveConnections" => events = V0
    /\ driver.event = "ExecuteWorkers" => events \in {V0, VDS}
    /\ driver.event = "DeactivateWorkers" => events = VS
    /\ driver.event = "StopWorkers" => events = V0
    /\ events = VS => driver.event \in {"none", "DeactivateWorkers"}

\* Which event each request belongs to.
Asks(event, request) ==
    \/ event = "ResolveConnections" /\ request = "SetComponentParams"
    \/ event = "ExecuteWorkers" /\ request \in {"ActivateSegments", "RunSegments"}
    \/ event = "DeactivateWorkers" /\ request \in {"DeactivateSegments", "DestroySegments"}
    \/ event = "StopWorkers" /\ request = "StopWorker"

CallOK ==
    /\ Asks(driver.event, call.request)
    /\ call.to \in workers \ driver.todo
    /\ call.state # "none"
    /\ call.todo \subseteq SegmentsOf(call.to)
    /\ call.at \in call.todo \cup {None}
    /\ call.state = "ok" => call.todo = {}
    /\ call.state # "sent" => call.at = None

CallInv == call # NoCall => CallOK

\* The segments of w have had no request of the event ExecuteWorkers, or of
\* DeactivateWorkers.
NotExecuted(w) ==
    \/ requested # Segments
    \/ events \in {VR, VE}
    \/ driver.event = "ResolveConnections"
    \/ driver.event = "ExecuteWorkers" /\ w \in driver.todo

NotTakenDown(w) ==
    \/ driver.event \in {"none", "ResolveConnections", "ExecuteWorkers"} /\ events # VS
    \/ driver.event = "DeactivateWorkers" /\ w \in driver.todo

Unexecuted(s) == NotExecuted(Worker[s]) => Fresh(s)
Untaken(s) == NotTakenDown(Worker[s]) => ~AtDeactivate(s) /\ ~AtDestroy(s)

\* What the request that is handled has made of s.
Called1(s) ==
    call.to = Worker[s] /\ call.request = "ActivateSegments" =>
        /\ s \in call.todo => Fresh(s)
        /\ s \notin call.todo => AtActivate(s)

Called2(s) ==
    call.to = Worker[s] /\ call.request = "RunSegments" /\ s \in call.todo => AtActivate(s)

Called3(s) ==
    call.to = Worker[s] /\ call.request = "DeactivateSegments" =>
        /\ ~AtDestroy(s)
        /\ s \in call.todo /\ call.at # s => ~AtDeactivate(s)
        /\ s \notin call.todo => Down(s)

Called4(s) ==
    call.to = Worker[s] /\ call.request = "DestroySegments" /\ s \in call.todo /\ call.at # s =>
        ~AtDestroy(s) /\ (AtDeactivate(s) => Down(s))

SegmentOK(s) == Unexecuted(s) /\ Untaken(s) /\ Called1(s) /\ Called2(s) /\ Called3(s) /\ Called4(s)
SegmentInv == \A s \in Segments : SegmentOK(s)

\* The two barriers: a worker that has completed has run all of its segments, and
\* nothing is taken down before all workers have completed.
AllRan(w) == \A s \in SegmentsOf(w) : Ran(s)
EachRan == \A s \in Segments : Ran(s)
TakingDown == events \in {VDS, VS} \/ driver.event \in {"DeactivateWorkers", "StopWorkers"}

RanInv == \A w \in Workers : w \in completed \/ registration[w] = "complete" => AllRan(w)
BarrierInv ==
    /\ TakingDown => completed = workers
    /\ \A s \in Segments : AtDeactivate(s) \/ AtDestroy(s) => EachRan

\* A worker reports once: it has counted every run of its segments.
RanOf(w) == {s \in SegmentsOf(w) : Ran(s)}
CountInv == \A w \in Workers : checks[w] + done[w] = Cardinality(RanOf(w))
OnceInv ==
    \A w \in Workers :
        /\ w \in completed \/ registration[w] = "complete" => done[w] = Cardinality(SegmentsOf(w))
        /\ w \in completed => ~(registration[w] = "complete" /\ report[w] = "sent")

\* As long as nothing is lost, the transmitters of a segment have their addresses
\* unless the driver is still to ask for it.
Unresolved(s) ==
    \/ requested # Segments
    \/ events = VR
    \/ driver.event = "ResolveConnections" /\ Worker[s] \in driver.todo
    \/ call.request = "SetComponentParams" /\ call.to = Worker[s] /\ s \in call.todo

ConnInv ==
    faults = 0 =>
        /\ call.state # "failed"
        /\ \A s \in Sources : s \in connected \/ Unresolved(s)

IInv ==
    /\ TypeOK /\ Shapes /\ Registered /\ DriverInv /\ CallInv /\ SegmentInv
    /\ RanInv /\ BarrierInv /\ CountInv /\ OnceInv /\ ConnInv

-------------------------------------------------------------------------------
(* What a step leaves alone. *)

segment_state == <<queue, runner, executed>>

LEMMA ClassKept ==
    ASSUME NEW s, UNCHANGED segment_state
    PROVE  /\ Fresh(s)' = Fresh(s) /\ AtActivate(s)' = AtActivate(s) /\ AtRun(s)' = AtRun(s)
           /\ AtDeactivate(s)' = AtDeactivate(s) /\ AtDestroy(s)' = AtDestroy(s)
           /\ Down(s)' = Down(s) /\ Ran(s)' = Ran(s)
  BY DEF segment_state, Fresh, AtActivate, AtRun, AtDeactivate, AtDestroy, Down, Ran,
       Rests, Busy, Resting

\* The class of every segment stays, and what it has executed.
KeepsClass(s) ==
    /\ Fresh(s)' <=> Fresh(s)
    /\ AtActivate(s)' <=> AtActivate(s)
    /\ AtRun(s)' <=> AtRun(s)
    /\ AtDeactivate(s)' <=> AtDeactivate(s)
    /\ AtDestroy(s)' <=> AtDestroy(s)
    /\ Down(s) => Down(s)'
    /\ Ran(s) => Ran(s)'

KeepsClasses == \A s \in Segments : KeepsClass(s)

LEMMA SameClasses == UNCHANGED segment_state => KeepsClasses
  BY ClassKept DEF KeepsClasses, KeepsClass

-------------------------------------------------------------------------------
(* The steps of a segment's thread. *)

\* What the thread of s may do, by what it has executed and what is queued.
Moves(s) ==
    \/ Resting(s) /\ Resting(s)' /\ UNCHANGED <<executed[s], queue[s]>>
    \/ Rests(s, H0, HA) /\ Busy(s, H0, "activate", H0)'
    \/ Rests(s, H0, HAR) /\ Busy(s, H0, "activate", QR)'
    \/ Rests(s, HA, QR) /\ Busy(s, HA, "run", H0)'
    \/ Rests(s, HAR, QD) /\ Busy(s, HAR, "deactivate", H0)'
    \/ Rests(s, HAR, QX) /\ Busy(s, HAR, "destroy", H0)'
    \/ Rests(s, HARD, QX) /\ Busy(s, HARD, "destroy", H0)'
    \/ Busy(s, H0, "activate", H0) /\ Rests(s, HA, H0)'
    \/ Busy(s, H0, "activate", QR) /\ Rests(s, HA, QR)'
    \/ Busy(s, HA, "run", H0) /\ Rests(s, HAR, H0)'
    \/ Busy(s, HAR, "deactivate", H0) /\ Rests(s, HARD, H0)'
    \/ Busy(s, HAR, "destroy", H0) /\ Rests(s, HARX, H0)'
    \/ Busy(s, HARD, "destroy", H0) /\ Rests(s, HARDX, H0)'

LeftAlone(s) == UNCHANGED <<queue[s], runner[s], executed[s]>>

LEMMA AloneKept ==
    ASSUME NEW s, LeftAlone(s)
    PROVE  KeepsClass(s) /\ (Class(s) => Class(s)') /\ (Ran(s)' <=> Ran(s))
  BY DEF LeftAlone, KeepsClass, Class, Fresh, AtActivate, AtRun, AtDeactivate, AtDestroy, Down,
       Ran, Rests, Busy, Resting

LEMMA PopMoves ==
    ASSUME TypeOK, NEW s \in Segments, Class(s), PopSegment(s)
    PROVE  Moves(s) /\ \A t \in Segments \ {s} : LeftAlone(t)
  <1>1. /\ queue \in [Segments -> Queues] /\ runner \in [Segments -> RunnerStates]
        /\ executed \in [Segments -> Histories] /\ runner[s] = "pop" /\ executed' = executed
    BY DEF TypeOK, PopSegment
  <1>2. CASE s \in stopping
    <2>1. runner' = [runner EXCEPT ![s] = "gone"] /\ queue' = queue
      BY <1>2 DEF PopSegment
    <2>2. QED
      BY <1>1, <2>1 DEF Moves, LeftAlone, Resting
  <1>3. CASE s \notin stopping
    <2>1. /\ queue[s] # H0 /\ runner' = [runner EXCEPT ![s] = Head(queue[s])]
          /\ queue' = [queue EXCEPT ![s] = Tail(queue[s])]
      BY <1>3 DEF PopSegment, H0
    <2>2. /\ runner'[s] = Head(queue[s]) /\ queue'[s] = Tail(queue[s])
          /\ \A t \in Segments \ {s} : LeftAlone(t)
      BY <1>1, <2>1 DEF LeftAlone
    <2>3. Resting(s)
      BY <1>1 DEF Resting
    <2>4. \/ Rests(s, H0, HA) \/ Rests(s, H0, HAR) \/ Rests(s, HA, QR)
          \/ Rests(s, HAR, QD) \/ Rests(s, HAR, QX) \/ Rests(s, HARD, QX)
      BY <1>1, <2>1 DEF Class, Fresh, AtActivate, AtRun, AtDeactivate, AtDestroy, Rests, Busy
    <2>5. QED
      BY <1>1, <2>2, <2>4, HistoryTable DEF Moves, Rests, Busy
  <1>4. QED
    BY <1>2, <1>3

LEMMA ExecuteMoves ==
    ASSUME TypeOK, NEW s \in Segments, Class(s), ExecuteSegment(s)
    PROVE  Moves(s) /\ \A t \in Segments \ {s} : LeftAlone(t)
  <1>1. /\ runner \in [Segments -> RunnerStates] /\ executed \in [Segments -> Histories]
        /\ runner[s] \notin {"pop", "gone"} /\ queue' = queue
        /\ executed' = [executed EXCEPT ![s] = Append(executed[s], runner[s])]
        /\ runner' = [runner EXCEPT ![s] = "pop"]
    BY DEF TypeOK, ExecuteSegment
  <1>2. /\ runner'[s] = "pop" /\ executed'[s] = Append(executed[s], runner[s])
        /\ \A t \in Segments \ {s} : LeftAlone(t)
    BY <1>1 DEF LeftAlone
  <1>3. \/ Busy(s, H0, "activate", H0) \/ Busy(s, H0, "activate", QR) \/ Busy(s, HA, "run", H0)
        \/ Busy(s, HAR, "deactivate", H0) \/ Busy(s, HAR, "destroy", H0)
        \/ Busy(s, HARD, "destroy", H0)
    BY <1>1 DEF Class, Fresh, AtActivate, AtRun, AtDeactivate, AtDestroy, Rests, Resting
  <1>4. QED
    BY <1>1, <1>2, <1>3, HistoryTable DEF Moves, Rests, Busy, Resting

LEMMA MovesKeep ==
    ASSUME NEW s, Class(s), Moves(s)
    PROVE  KeepsClass(s) /\ Class(s)'
  <1> USE HistoriesDiffer DEF Fresh, AtActivate, AtRun, AtDeactivate, AtDestroy, Down, Ran, Ranks,
        Rests, Busy
  <1>1. CASE Resting(s) /\ Resting(s)' /\ UNCHANGED <<executed[s], queue[s]>>
    BY <1>1 DEF Class, KeepsClass, Resting
  <1>2. CASE ~(Resting(s) /\ Resting(s)' /\ UNCHANGED <<executed[s], queue[s]>>)
    BY <1>2 DEF Moves, Class, KeepsClass, Resting
  <1>3. QED
    BY <1>1, <1>2

LEMMA RunnerKeeps ==
    ASSUME TypeOK, Shapes, NEW s \in Segments, Runner(s)
    PROVE  KeepsClasses /\ Shapes'
  <1>1. Class(s) /\ \A t \in Segments : Class(t)
    BY DEF Shapes
  <1>2. Moves(s) /\ \A t \in Segments \ {s} : LeftAlone(t)
    BY <1>1, PopMoves, ExecuteMoves DEF Runner
  <1>3. KeepsClass(s) /\ Class(s)'
    BY <1>1, <1>2, MovesKeep
  <1>4. ASSUME NEW t \in Segments PROVE KeepsClass(t) /\ Class(t)'
    BY <1>1, <1>2, <1>3, AloneKept
  <1>5. QED
    BY <1>4 DEF KeepsClasses, Shapes

-------------------------------------------------------------------------------
(* The parts of the invariant that a step does not touch. *)

LEMMA RegisteredKept ==
    ASSUME Registered, UNCHANGED <<requested, workers, completed>>
    PROVE  Registered'
  BY DEF Registered

LEMMA DriverKept ==
    ASSUME DriverInv, UNCHANGED <<requested, workers, events, driver>>,
           call = NoCall => call' = NoCall
    PROVE  DriverInv'
  BY DEF DriverInv, NoCall

LEMMA CallKept ==
    ASSUME CallInv, UNCHANGED <<workers, driver, call>>
    PROVE  CallInv'
  BY DEF CallInv, CallOK, NoCall, Asks, SegmentsOf

\* The call still asks the same of the same segments.
SameCall == UNCHANGED <<call.to, call.request, call.at, call.todo>>

LEMMA CalledKept ==
    ASSUME NEW s \in Segments, SegmentOK(s), KeepsClass(s), SameCall
    PROVE  Called1(s)' /\ Called2(s)' /\ Called3(s)' /\ Called4(s)'
  BY DEF SegmentOK, KeepsClass, SameCall, Called1, Called2, Called3, Called4

LEMMA PendingKept ==
    ASSUME NEW s \in Segments, SegmentOK(s), KeepsClass(s),
           NotExecuted(Worker[s])' => NotExecuted(Worker[s]),
           NotTakenDown(Worker[s])' => NotTakenDown(Worker[s])
    PROVE  Unexecuted(s)' /\ Untaken(s)'
  BY DEF SegmentOK, KeepsClass, Unexecuted, Untaken

LEMMA SegmentsKept ==
    ASSUME SegmentInv, KeepsClasses, SameCall, UNCHANGED <<requested, events, driver>>
    PROVE  SegmentInv'
  <1>1. ASSUME NEW s \in Segments PROVE SegmentOK(s)'
    <2>1. SegmentOK(s) /\ KeepsClass(s)
      BY DEF SegmentInv, KeepsClasses
    <2>2. /\ NotExecuted(Worker[s])' => NotExecuted(Worker[s])
          /\ NotTakenDown(Worker[s])' => NotTakenDown(Worker[s])
      BY DEF NotExecuted, NotTakenDown
    <2>3. QED
      BY <2>1, <2>2, CalledKept, PendingKept DEF SegmentOK
  <1>2. QED
    BY <1>1 DEF SegmentInv

LEMMA AllRanKept ==
    ASSUME KeepsClasses, NEW w, AllRan(w)
    PROVE  AllRan(w)'
  BY DEF KeepsClasses, KeepsClass, AllRan, SegmentsOf

LEMMA EachRanKept ==
    ASSUME KeepsClasses, EachRan
    PROVE  EachRan'
  BY DEF KeepsClasses, KeepsClass, EachRan

LEMMA RanKept ==
    ASSUME RanInv, KeepsClasses, UNCHANGED completed,
           \A w \in Workers : registration'[w] = "complete" => registration[w] = "complete"
    PROVE  RanInv'
  BY AllRanKept DEF RanInv

LEMMA BarrierKept ==
    ASSUME BarrierInv, KeepsClasses, TakingDown' => TakingDown, UNCHANGED <<completed, workers>>
    PROVE  BarrierInv'
  <1>1. TakingDown' => completed' = workers'
    BY DEF BarrierInv
  <1>2. ASSUME NEW s \in Segments, AtDeactivate(s)' \/ AtDestroy(s)' PROVE EachRan'
    <2>1. AtDeactivate(s) \/ AtDestroy(s)
      BY <1>2 DEF KeepsClasses, KeepsClass
    <2>2. QED
      BY <2>1, EachRanKept DEF BarrierInv
  <1>3. QED
    BY <1>1, <1>2 DEF BarrierInv

LEMMA CountKept ==
    ASSUME CountInv, UNCHANGED <<executed, checks, done>>
    PROVE  CountInv'
  BY DEF CountInv, RanOf, Ran, SegmentsOf

LEMMA OnceKept ==
    ASSUME OnceInv, UNCHANGED <<completed, done>>,
           \A w \in Workers : registration'[w] = "complete" =>
               /\ registration[w] = "complete"
               /\ report'[w] = "sent" => report[w] = "sent"
    PROVE  OnceInv'
  BY DEF OnceInv, SegmentsOf

LEMMA ConnKept ==
    ASSUME ConnInv, UNCHANGED <<faults, requested, events, driver, call, connected>>
    PROVE  ConnInv'
  BY DEF ConnInv, Unresolved

LEMMA RequestTable ==
    /\ Len(Requests("ResolveConnections")) = 1
    /\ Requests("ResolveConnections")[1] = "SetComponentParams"
    /\ Len(Requests("ExecuteWorkers")) = 2
    /\ Requests("ExecuteWorkers")[1] = "ActivateSegments"
    /\ Requests("ExecuteWorkers")[2] = "RunSegments"
    /\ Len(Requests("DeactivateWorkers")) = 2
    /\ Requests("DeactivateWorkers")[1] = "DeactivateSegments"
    /\ Requests("DeactivateWorkers")[2] = "DestroySegments"
    /\ Len(Requests("StopWorkers")) = 1
    /\ Requests("StopWorkers")[1] = "StopWorker"
  BY DEF Requests

\* A worker has a segment, so all are known when their segments are.
LEMMA AllWorkersKnown ==
    ASSUME Registered, requested = Segments, TypeOK
    PROVE  workers = Workers
  <1>1. workers \subseteq Workers
    BY DEF TypeOK
  <1>2. ASSUME NEW w \in Workers PROVE w \in workers
    <2>1. PICK s \in Segments : Worker[s] = w
      BY SegmentsAssumption
    <2>2. QED
      BY <2>1 DEF Registered
  <1>3. QED
    BY <1>1, <1>2

\* While the graph is taken down, all segments have run.
LEMMA TakingDownRan ==
    ASSUME Registered, DriverInv, RanInv, BarrierInv, TypeOK, TakingDown
    PROVE  EachRan
  <1>1. requested = Segments
    BY EventTable DEF TakingDown, DriverInv
  <1>2. \A w \in Workers : AllRan(w)
    BY <1>1, AllWorkersKnown DEF BarrierInv, RanInv
  <1>3. QED
    BY <1>2, SegmentsAssumption DEF AllRan, EachRan, SegmentsOf

-------------------------------------------------------------------------------
(* Types. *)

LEMMA CalledSubset ==
    ASSUME TypeOK, NEW e PROVE Called(e) \subseteq workers
  BY DEF Called

LEMMA CallingType ==
    ASSUME NEW w \in Workers, NEW request \in RequestNames
    PROVE  Calling(w, request) \in Calls
  <1>1. SegmentsOf(w) \in SUBSET Segments
    BY DEF SegmentsOf
  <1>2. QED
    BY <1>1 DEF Calling

LEMMA NoCallType ==
    NoCall \in Calls
  BY DEF NoCall

LEMMA DriverTypes ==
    ASSUME IInv, Driver
    PROVE  TypeOK'
  <1>0. TypeOK /\ DriverInv /\ CallInv
    BY DEF IInv
  <1> USE DEF TypeOK, driver_vars, worker_vars, segment_vars, fault_vars, Events
  <1>1. ASSUME PopEvent PROVE TypeOK'
    <2>1. events \in {VR, VE, VDS, VS}
      BY <1>1, <1>0 DEF PopEvent, V0
    <2>2. Called(Head(events)) \in SUBSET Workers
      BY <1>0, CalledSubset
    <2>3. Head(events) \in Events /\ Tail(events) \in {V0, VR, VE, VDS, VS}
      BY <2>1, EventTable
    <2>4. QED
      BY <2>2, <2>3, <1>0, <1>1 DEF PopEvent
  <1>2. ASSUME SendRequest PROVE TypeOK'
    <2>1. PICK w \in driver.todo :
             /\ call' = Calling(w, Requests(driver.event)[1])
             /\ driver' = [driver EXCEPT !.todo = @ \ {w}]
      BY <1>2 DEF SendRequest
    <2>2. w \in Workers /\ Requests(driver.event)[1] \in RequestNames
      BY <1>0, <1>2, RequestTable DEF SendRequest, RequestNames
    <2>3. QED
      BY <2>1, <2>2, <1>0, <1>2, CallingType DEF SendRequest
  <1>3. ASSUME TakeAnswer PROVE TypeOK'
    <2>1. call # NoCall
      BY <1>3 DEF TakeAnswer, NoCall
    <2>2. CallOK /\ call.to \in Workers
      BY <2>1, <1>0 DEF CallInv, CallOK
    <2>3. CASE call.state = "failed" /\ driver.event = "ExecuteWorkers"
      BY <2>3, <1>0, <1>3, NoCallType DEF TakeAnswer, V0
    <2>4. CASE ~(call.state = "failed" /\ driver.event = "ExecuteWorkers")
      <3>1. \/ /\ Len(Requests(driver.event)) = 2
               /\ call' = Calling(call.to, Requests(driver.event)[2])
            \/ call' = NoCall
        BY <2>4, <1>3 DEF TakeAnswer
      <3>2. driver.event \in Events
        BY <2>1, <1>0 DEF DriverInv
      <3>3. Len(Requests(driver.event)) = 2 => Requests(driver.event)[2] \in RequestNames
        BY <3>2, RequestTable DEF RequestNames
      <3>4. call' \in Calls
        BY <3>1, <3>3, <2>2, CallingType, NoCallType
      <3>5. UNCHANGED <<driver, events>>
        BY <2>4, <1>3 DEF TakeAnswer
      <3>6. QED
        BY <3>4, <3>5, <1>0, <1>3 DEF TakeAnswer
    <2>5. QED
      BY <2>3, <2>4
  <1>4. ASSUME FinishEvent PROVE TypeOK'
    <2>1. events' \in {V0, VR, VE, VDS, VS}
      <3>1. CASE driver.event = "ResolveConnections"
        BY <3>1, <1>0, <1>4, EventTable DEF FinishEvent, DriverInv
      <3>2. CASE driver.event = "StopWorkers"
        BY <3>2, <1>4 DEF FinishEvent, V0
      <3>3. CASE driver.event \notin {"ResolveConnections", "StopWorkers"}
        BY <3>3, <1>0, <1>4 DEF FinishEvent
      <3>4. QED
        BY <3>1, <3>2, <3>3
    <2>2. driver' = [event |-> IF driver.event = "StopWorkers" THEN "gone" ELSE "none", todo |-> {}]
      BY <1>4 DEF FinishEvent
    <2>3. QED
      BY <2>1, <2>2, <1>0, <1>4 DEF FinishEvent
  <1>5. QED
    BY <1>1, <1>2, <1>3, <1>4 DEF Driver

LEMMA HandlerTypes ==
    ASSUME IInv, NEW w \in Workers, HandleRegister(w) \/ HandleComplete(w)
    PROVE  TypeOK'
  <1>0. TypeOK /\ DriverInv
    BY DEF IInv
  <1> USE DEF TypeOK, driver_vars, segment_vars, fault_vars
  <1>1. ASSUME HandleRegister(w) PROVE TypeOK'
    <2>1. CASE SegmentsOf(w) \cap requested # {}
      BY <2>1, <1>0, <1>1 DEF HandleRegister
    <2>2. CASE SegmentsOf(w) \cap requested = {}
      <3>1. PICK s \in Segments : Worker[s] = w
        BY SegmentsAssumption
      <3>2. requested # Segments
        BY <3>1, <2>2 DEF SegmentsOf
      <3>3. events' \in {V0, VR}
        BY <3>2, <2>2, <1>0, <1>1, EventTable DEF HandleRegister, DriverInv
      <3>4. SegmentsOf(w) \subseteq Segments
        BY DEF SegmentsOf
      <3>5. QED
        BY <3>3, <3>4, <2>2, <1>0, <1>1 DEF HandleRegister
    <2>3. QED
      BY <2>1, <2>2
  <1>2. ASSUME HandleComplete(w) PROVE TypeOK'
    <2>1. CASE w \notin workers
      BY <2>1, <1>0, <1>2 DEF HandleComplete
    <2>2. CASE w \in workers
      <3>1. AllRan(w) /\ w \notin completed
        BY <1>2 DEF HandleComplete, IInv, RanInv, OnceInv
      <3>2. ~TakingDown
        BY <3>1, <2>2 DEF IInv, BarrierInv
      <3>3. PICK s \in Segments : Worker[s] = w
        BY SegmentsAssumption
      <3>4. ~NotExecuted(w)
        BY <3>1, <3>3, ClassesDiffer DEF AllRan, SegmentsOf, IInv, SegmentInv, SegmentOK, Unexecuted
      <3>5. events = V0
        BY <3>2, <3>4, <1>0 DEF TakingDown, NotExecuted
      <3>6. events' \in {V0, VDS}
        BY <3>5, <2>2, <1>2, EventTable DEF HandleComplete
      <3>7. QED
        BY <3>6, <2>2, <1>0, <1>2 DEF HandleComplete
    <2>3. QED
      BY <2>1, <2>2
  <1>3. QED
    BY <1>1, <1>2

\* A request that reaches a segment in the class before it moves it to the next.
LEMMA Given ==
    ASSUME TypeOK, NEW s \in Segments, NEW event, Queue(s, event),
           UNCHANGED <<runner, executed>>,
           \/ event = "activate" /\ Fresh(s)
           \/ event = "run" /\ AtActivate(s)
           \/ event = "deactivate" /\ AtRun(s) /\ Ran(s)
           \/ event = "destroy" /\ Ran(s) /\ (AtRun(s) \/ Down(s))
    PROVE  /\ event = "activate" => AtActivate(s)'
           /\ event = "run" => AtRun(s)'
           /\ event = "deactivate" => AtDeactivate(s)'
           /\ event = "destroy" => AtDestroy(s)'
           /\ \A t \in Segments \ {s} : LeftAlone(t)
           /\ queue' \in [Segments -> Queues]
           /\ Class(s)'
  <1>1. /\ queue \in [Segments -> Queues]
        /\ queue' = [queue EXCEPT ![s] = Append(queue[s], event)]
    BY DEF TypeOK, Queue
  <1>2. queue'[s] = Append(queue[s], event) /\ \A t \in Segments \ {s} : LeftAlone(t)
    BY <1>1 DEF LeftAlone
  <1> USE HistoriesDiffer DEF Fresh, AtActivate, AtRun, AtDeactivate, AtDestroy, Down, Ran, Ranks,
        Rests, Busy, Resting
  <1>3. CASE event = "activate" /\ Fresh(s)
    <2>1. AtActivate(s)' /\ queue'[s] \in Queues
      BY <1>2, <1>3, HistoryTable DEF Queues
    <2>2. QED
      BY <1>1, <1>2, <1>3, <2>1 DEF Class
  <1>4. CASE event = "run" /\ AtActivate(s)
    <2>1. AtRun(s)' /\ queue'[s] \in Queues
      BY <1>2, <1>4, HistoryTable DEF Queues
    <2>2. QED
      BY <1>1, <1>2, <1>4, <2>1 DEF Class
  <1>5. CASE event = "deactivate" /\ AtRun(s) /\ Ran(s)
    <2>1. Rests(s, HAR, H0)
      BY <1>5
    <2>2. AtDeactivate(s)' /\ queue'[s] \in Queues
      BY <1>2, <1>5, <2>1, HistoryTable DEF Queues
    <2>3. QED
      BY <1>1, <1>2, <1>5, <2>2 DEF Class
  <1>6. CASE event = "destroy" /\ Ran(s) /\ (AtRun(s) \/ Down(s))
    <2>1. Rests(s, HAR, H0) \/ Rests(s, HARD, H0)
      BY <1>6
    <2>2. AtDestroy(s)' /\ queue'[s] \in Queues
      BY <1>2, <1>6, <2>1, HistoryTable DEF Queues
    <2>3. QED
      BY <1>1, <1>2, <1>6, <2>2 DEF Class
  <1>7. QED
    BY <1>3, <1>4, <1>5, <1>6

\* The facts about a request that is being handled.
LEMMA HandlingFacts ==
    ASSUME IInv, call.state = "sent"
    PROVE  /\ CallOK /\ driver.event \in Events /\ requested = Segments
           /\ call.to \in Workers
           /\ driver.event = "DeactivateWorkers" => ~NotTakenDown(call.to)
           /\ driver.event = "ExecuteWorkers" => ~NotExecuted(call.to)
           /\ \A s \in call.todo : s \in Segments /\ Worker[s] = call.to /\ s # None
  <1>1. TypeOK /\ DriverInv /\ CallInv /\ call # NoCall
    BY DEF IInv, NoCall
  <1>2. CallOK
    BY <1>1 DEF CallInv
  <1>3. driver.event \in Events /\ requested = Segments
    BY <1>1 DEF DriverInv, TypeOK
  <1>4. call.to \in Workers /\ call.to \in workers /\ call.to \notin driver.todo
    BY <1>1, <1>2 DEF CallOK, TypeOK
  <1>5. driver.event = "DeactivateWorkers" => ~NotTakenDown(call.to)
    BY <1>4 DEF NotTakenDown
  <1>6. driver.event = "ExecuteWorkers" => ~NotExecuted(call.to)
    BY <1>1, <1>3, <1>4, EventTable DEF NotExecuted, DriverInv
  <1>7. \A s \in call.todo : s \in Segments /\ Worker[s] = call.to /\ s # None
    BY <1>2, NoneAssumption DEF CallOK, SegmentsOf
  <1>8. QED
    BY <1>2, <1>3, <1>4, <1>5, <1>6, <1>7

\* What a request finds before it is queued with s.
LEMMA QueueSegmentFinds ==
    ASSUME IInv, NEW s \in call.todo, QueueSegment(s)
    PROVE  \/ call.request = "ActivateSegments" /\ Queue(s, "activate") /\ Fresh(s)
           \/ call.request = "RunSegments" /\ Queue(s, "run") /\ AtActivate(s)
  <1>1. CallOK /\ s \in Segments /\ Worker[s] = call.to
    BY HandlingFacts DEF QueueSegment, Handling
  <1>2. Called1(s) /\ Called2(s)
    BY <1>1 DEF IInv, SegmentInv, SegmentOK
  <1>3. QED
    BY <1>1, <1>2 DEF QueueSegment, Handling, Called1, Called2

LEMMA TakeDownFinds ==
    ASSUME IInv, NEW s \in call.todo, TakeDown(s)
    PROVE  /\ EachRan /\ driver.event = "DeactivateWorkers"
           /\ \/ call.request = "DeactivateSegments" /\ Queue(s, "deactivate") /\ AtRun(s)
              \/ /\ call.request = "DestroySegments" /\ Queue(s, "destroy")
                 /\ AtRun(s) \/ Down(s)
  <1>1. /\ CallOK /\ s \in Segments /\ Worker[s] = call.to /\ s # None
        /\ call.at = None /\ call.request \in {"DeactivateSegments", "DestroySegments"}
    BY HandlingFacts DEF TakeDown, Handling, TakenDown
  <1>2. driver.event = "DeactivateWorkers"
    BY <1>1 DEF CallOK, Asks
  <1>3. EachRan
    BY <1>2, TakingDownRan DEF IInv, TakingDown
  <1>4. Class(s) /\ Ran(s) /\ Called3(s) /\ Called4(s)
    BY <1>1, <1>3 DEF IInv, Shapes, SegmentInv, SegmentOK, EachRan
  <1>5. ~Fresh(s) /\ ~AtActivate(s)
    BY <1>4, ClassesDiffer
  <1>6. CASE call.request = "DeactivateSegments"
    <2>1. Queue(s, "deactivate")
      BY <1>6 DEF TakeDown, TakenDown
    <2>2. ~AtDeactivate(s) /\ ~AtDestroy(s)
      BY <1>1, <1>4, <1>6 DEF Called3
    <2>3. QED
      BY <1>2, <1>3, <1>4, <1>5, <1>6, <2>1, <2>2 DEF Class
  <1>7. CASE call.request = "DestroySegments"
    <2>1. Queue(s, "destroy")
      BY <1>7 DEF TakeDown, TakenDown
    <2>2. ~AtDestroy(s) /\ (AtDeactivate(s) => Down(s))
      BY <1>1, <1>4, <1>7 DEF Called4
    <2>3. QED
      BY <1>2, <1>3, <1>4, <1>5, <1>7, <2>1, <2>2 DEF Class
  <1>8. QED
    BY <1>1, <1>6, <1>7

LEMMA ServerTypes ==
    ASSUME IInv, Server
    PROVE  TypeOK'
  <1>0. TypeOK
    BY DEF IInv
  <1> USE DEF TypeOK, driver_vars, worker_vars, segment_vars, fault_vars
  <1>1. ASSUME StopThread PROVE TypeOK'
    <2>1. call.to \in Workers
      BY <1>1, HandlingFacts DEF StopThread, Handling
    <2>2. QED
      BY <2>1, <1>0, <1>1 DEF StopThread
  <1>2. ASSUME AnswerRequest PROVE TypeOK'
    BY <1>0, <1>2 DEF AnswerRequest
  <1>3. ASSUME NEW s \in call.todo, SetComponentParams(s) PROVE TypeOK'
    BY <1>0, <1>3 DEF SetComponentParams, Handled
  <1>4. ASSUME NEW s \in call.todo, QueueSegment(s) PROVE TypeOK'
    <2>1. queue' \in [Segments -> Queues]
      BY <1>0, <1>4, QueueSegmentFinds, Given DEF QueueSegment
    <2>2. QED
      BY <2>1, <1>0, <1>4 DEF QueueSegment, Handled
  <1>5. ASSUME NEW s \in call.todo, TakeDown(s) PROVE TypeOK'
    <2>1. queue' \in [Segments -> Queues]
      BY <1>0, <1>5, TakeDownFinds, Given DEF TakeDown, EachRan
    <2>2. QED
      BY <2>1, <1>0, <1>5 DEF TakeDown
  <1>6. ASSUME NEW s \in call.todo, TakenDownIs(s) PROVE TypeOK'
    BY <1>0, <1>6 DEF TakenDownIs, Handled
  <1>7. ASSUME NEW s \in call.todo, StopSegment(s) PROVE TypeOK'
    BY <1>0, <1>7 DEF StopSegment
  <1>8. ASSUME NEW s \in call.todo, SegmentStopped(s) PROVE TypeOK'
    BY <1>0, <1>8 DEF SegmentStopped, Handled
  <1>9. QED
    BY <1>1, <1>2, <1>3, <1>4, <1>5, <1>6, <1>7, <1>8 DEF Server

LEMMA ThreadTypes ==
    ASSUME IInv, NEW w \in Workers, Thread(w)
    PROVE  TypeOK'
  <1>0. TypeOK
    BY DEF IInv
  <1> USE DEF TypeOK, driver_vars, segment_vars, fault_vars, Step
  <1>1. ASSUME ReportAccepted(w) PROVE TypeOK'
    BY <1>0, <1>1 DEF ReportAccepted
  <1>2. ASSUME ReportFailed(w) PROVE TypeOK'
    BY <1>0, <1>2 DEF ReportFailed
  <1>3. ASSUME CheckComplete(w) PROVE TypeOK'
    <2>1. registration' \in [Workers -> {"register", "pop", "complete", "failing", "gone"}]
      BY <1>0, <1>3 DEF CheckComplete
    <2>2. report' \in [Workers -> {"none", "sent", "ok", "failed"}]
      BY <1>0, <1>3 DEF CheckComplete
    <2>3. checks' \in [Workers -> Nat] /\ done' \in [Workers -> Nat]
      BY <1>0, <1>3 DEF CheckComplete
    <2>4. QED
      BY <2>1, <2>2, <2>3, <1>0, <1>3 DEF CheckComplete
  <1>4. ASSUME StopFailed(w) PROVE TypeOK'
    BY <1>0, <1>4 DEF StopFailed, SegmentsOf
  <1>5. ASSUME EndThread(w) PROVE TypeOK'
    BY <1>0, <1>5 DEF EndThread
  <1>6. QED
    BY <1>1, <1>2, <1>3, <1>4, <1>5 DEF Thread

LEMMA RunnerTypes ==
    ASSUME IInv, NEW s \in Segments, Runner(s)
    PROVE  TypeOK'
  <1>0. TypeOK /\ Class(s)
    BY DEF IInv, Shapes
  <1>1. Moves(s)
    BY <1>0, PopMoves, ExecuteMoves DEF Runner
  <1>2. Resting(s)' => runner'[s] \in RunnerStates
    BY DEF Resting, RunnerStates
  <1>3. /\ runner'[s] \in RunnerStates
        /\ queue'[s] \in Queues /\ executed'[s] \in Histories
    BY <1>0, <1>1, <1>2 DEF Moves, Rests, Busy, RunnerStates, Queues, Histories, TypeOK
  <1> USE DEF TypeOK, driver_vars, worker_vars, fault_vars
  <1>4. ASSUME PopSegment(s) PROVE TypeOK'
    <2>1. runner' \in [Segments -> RunnerStates] /\ queue' \in [Segments -> Queues]
      BY <1>0, <1>3, <1>4 DEF PopSegment
    <2>2. QED
      BY <2>1, <1>0, <1>4 DEF PopSegment
  <1>5. ASSUME ExecuteSegment(s) PROVE TypeOK'
    <2>1. runner' \in [Segments -> RunnerStates] /\ executed' \in [Segments -> Histories]
      BY <1>0, <1>3, <1>5 DEF ExecuteSegment
    <2>2. checks' \in [Workers -> Nat]
      <3>1. Worker[s] \in Workers /\ checks \in [Workers -> Nat]
        BY <1>0, SegmentsAssumption
      <3>2. checks' \in {checks, [checks EXCEPT ![Worker[s]] = @ + 1]}
        BY <1>5 DEF ExecuteSegment
      <3>3. [checks EXCEPT ![Worker[s]] = @ + 1] \in [Workers -> Nat]
        BY <3>1
      <3>4. QED
        BY <3>1, <3>2, <3>3
    <2>3. QED
      BY <2>1, <2>2, <1>0, <1>5 DEF ExecuteSegment
  <1>6. QED
    BY <1>4, <1>5 DEF Runner

LEMMA LoseTypes ==
    ASSUME IInv, Lose
    PROVE  TypeOK'
  <1>0. TypeOK
    BY DEF IInv
  <1> USE DEF TypeOK, driver_vars, segment_vars, Spared
  <1>1. CASE LoseOfDriver
    BY <1>0, <1>1 DEF Lose, LoseOfDriver
  <1>2. CASE LoseOfWorker
    BY <1>0, <1>2 DEF Lose, LoseOfWorker
  <1>3. QED
    BY <1>1, <1>2 DEF Lose

-------------------------------------------------------------------------------
(* The driver's thread. *)

DriverAlone ==
    UNCHANGED <<queue, runner, executed, connected, requested, workers, completed,
                registration, attempts, report, checks, done, faults, harmed>>

LEMMA DriverFrame == Driver => DriverAlone
  BY DEF Driver, PopEvent, SendRequest, TakeAnswer, FinishEvent, DriverAlone, driver_vars,
       worker_vars, segment_vars, fault_vars

LEMMA DriverKeeps ==
    ASSUME IInv, TypeOK', DriverAlone, DriverInv', CallInv', SegmentInv',
           TakingDown' => TakingDown, ConnInv'
    PROVE  IInv'
  <1>1. KeepsClasses
    BY SameClasses DEF segment_state, DriverAlone
  <1>2. Shapes'
    BY <1>1 DEF IInv, Shapes, Class, KeepsClasses, KeepsClass
  <1>3. Registered' /\ RanInv' /\ BarrierInv' /\ CountInv' /\ OnceInv'
    BY <1>1, RegisteredKept, RanKept, BarrierKept, CountKept, OnceKept DEF IInv, DriverAlone
  <1>4. QED
    BY <1>2, <1>3 DEF IInv

LEMMA PopEventStep ==
    ASSUME IInv, TypeOK', PopEvent
    PROVE  IInv'
  <1>a. TypeOK /\ Registered /\ DriverInv /\ CallInv /\ SegmentInv /\ BarrierInv /\ ConnInv
    BY DEF IInv
  <1>b. DriverAlone /\ KeepsClasses
    BY DriverFrame, SameClasses DEF Driver, segment_state, DriverAlone
  <1>c. /\ driver.event = "none" /\ call = NoCall /\ call' = NoCall
        /\ driver'.event = Head(events) /\ driver'.todo = Called(Head(events))
        /\ events' = Tail(events) /\ events \in {VR, VE, VDS, VS}
    BY <1>a DEF PopEvent, TypeOK, DriverInv, V0
  <1>d. requested = Segments /\ requested' = Segments /\ workers = Workers
        /\ workers' = workers
    BY <1>a, <1>b, <1>c, AllWorkersKnown, EventTable DEF DriverInv, DriverAlone
  <1>e. /\ events = VR => driver'.event = "ResolveConnections" /\ events' = V0
        /\ events = VE => /\ driver'.event = "ExecuteWorkers" /\ events' = V0
                          /\ driver'.todo = Workers
        /\ events = VDS => /\ driver'.event = "DeactivateWorkers" /\ events' = VS
                           /\ driver'.todo = Workers
        /\ events = VS => driver'.event = "StopWorkers" /\ events' = V0
    BY <1>c, <1>d, EventTable DEF Called
  <1>1. DriverInv'
    <2>1. driver'.todo \subseteq workers'
      BY <1>a, <1>c, <1>d, CalledSubset
    <2>2. QED
      BY <2>1, <1>c, <1>d, <1>e, EventTable DEF DriverInv
  <1>2. CallInv'
    BY <1>c DEF CallInv, NoCall
  <1>3. SegmentInv'
    <2>1. ASSUME NEW s \in Segments PROVE SegmentOK(s)'
      <3>1. SegmentOK(s) /\ KeepsClass(s)
        BY <1>a, <1>b DEF SegmentInv, KeepsClasses
      <3>2. SameCall
        BY <1>c DEF SameCall
      <3>3. NotExecuted(Worker[s])' => NotExecuted(Worker[s])
        BY <1>c, <1>d, <1>e, EventTable DEF NotExecuted
      <3>4. NotTakenDown(Worker[s])' => NotTakenDown(Worker[s])
        BY <1>c, <1>d, <1>e, EventTable DEF NotTakenDown
      <3>5. QED
        BY <3>1, <3>2, <3>3, <3>4, CalledKept, PendingKept DEF SegmentOK
    <2>2. QED
      BY <2>1 DEF SegmentInv
  <1>4. TakingDown' => TakingDown
    BY <1>c, <1>e, EventTable DEF TakingDown
  <1>5. ConnInv'
    <2>1. SUFFICES ASSUME faults = 0 PROVE ConnInv'
      BY <1>b DEF ConnInv, DriverAlone
    <2>2. call'.state # "failed"
      BY <1>c DEF NoCall
    <2>3. ASSUME NEW s \in Sources PROVE s \in connected' \/ Unresolved(s)'
      <3>1. s \in Segments /\ s \in SegmentsOf(Worker[s]) /\ Worker[s] \in workers
        BY <1>d, SegmentsAssumption DEF SegmentsOf
      <3>2. CASE events = VR
        <4>1. Worker[s] \in driver'.todo
          BY <3>1, <3>2, <1>c, EventTable DEF Called
        <4>2. QED
          BY <4>1, <3>2, <1>e DEF Unresolved
      <3>3. CASE events # VR
        <4>1. ~Unresolved(s)
          BY <3>3, <1>c, <1>d DEF Unresolved, NoCall
        <4>2. QED
          BY <4>1, <1>a, <1>b, <2>1 DEF ConnInv, DriverAlone
      <3>4. QED
        BY <3>2, <3>3
    <2>4. QED
      BY <2>2, <2>3 DEF ConnInv
  <1>6. QED
    BY <1>b, <1>1, <1>2, <1>3, <1>4, <1>5, DriverKeeps

LEMMA SendRequestStep ==
    ASSUME IInv, TypeOK', SendRequest
    PROVE  IInv'
  <1>a. TypeOK /\ Registered /\ DriverInv /\ CallInv /\ SegmentInv /\ BarrierInv /\ ConnInv
    BY DEF IInv
  <1>b. DriverAlone /\ KeepsClasses
    BY DriverFrame, SameClasses DEF Driver, segment_state, DriverAlone
  <1>c. PICK w \in driver.todo :
           /\ call' = Calling(w, Requests(driver.event)[1])
           /\ driver' = [driver EXCEPT !.todo = @ \ {w}]
    BY DEF SendRequest
  <1>d. /\ driver.event \in Events /\ call = NoCall /\ events' = events
        /\ requested = Segments /\ requested' = Segments /\ w \in workers /\ w \in Workers
        /\ workers' = workers
    BY <1>a, <1>b, <1>c DEF SendRequest, DriverInv, TypeOK, Events, DriverAlone, driver_vars
  <1>e. /\ driver'.event = driver.event /\ driver'.todo = driver.todo \ {w}
        /\ call'.to = w /\ call'.request = Requests(driver.event)[1] /\ call'.state = "sent"
        /\ call'.at = None /\ call'.todo = SegmentsOf(w)
    BY <1>a, <1>c DEF Calling, TypeOK
  <1>f. /\ Asks(driver.event, call'.request)
        /\ driver.event = "ResolveConnections" => call'.request = "SetComponentParams"
        /\ call'.request = "ActivateSegments" => driver.event = "ExecuteWorkers"
        /\ call'.request = "DeactivateSegments" => driver.event = "DeactivateWorkers"
        /\ call'.request \notin {"RunSegments", "DestroySegments"}
    BY <1>d, <1>e, RequestTable DEF Asks, Events
  <1>1. DriverInv'
    BY <1>a, <1>d, <1>e DEF DriverInv, Events
  <1>2. CallInv'
    <2>1. CallOK'
      BY <1>d, <1>e, <1>f DEF CallOK, SegmentsOf
    <2>2. QED
      BY <2>1 DEF CallInv
  <1>3. SegmentInv'
    <2>1. ASSUME NEW s \in Segments PROVE SegmentOK(s)'
      <3>1. SegmentOK(s) /\ KeepsClass(s)
        BY <1>a, <1>b DEF SegmentInv, KeepsClasses
      <3>2. NotExecuted(Worker[s])' => NotExecuted(Worker[s])
        BY <1>d, <1>e DEF NotExecuted
      <3>3. NotTakenDown(Worker[s])' => NotTakenDown(Worker[s])
        BY <1>d, <1>e DEF NotTakenDown
      <3>4. s \in call'.todo <=> call'.to = Worker[s]
        BY <1>e DEF SegmentsOf
      <3>5. Called1(s)'
        <4>1. SUFFICES ASSUME call'.to = Worker[s], call'.request = "ActivateSegments"
                       PROVE  Fresh(s)'
          BY <3>4 DEF Called1
        <4>2. NotExecuted(Worker[s])
          BY <4>1, <1>c, <1>e, <1>f DEF NotExecuted
        <4>3. QED
          BY <4>2, <3>1 DEF SegmentOK, Unexecuted, KeepsClass
      <3>6. Called2(s)' /\ Called4(s)'
        BY <1>f DEF Called2, Called4
      <3>7. Called3(s)'
        <4>1. SUFFICES ASSUME call'.to = Worker[s], call'.request = "DeactivateSegments"
                       PROVE  ~AtDeactivate(s)' /\ ~AtDestroy(s)'
          BY <3>4 DEF Called3
        <4>2. NotTakenDown(Worker[s])
          BY <4>1, <1>c, <1>e, <1>f DEF NotTakenDown
        <4>3. QED
          BY <4>2, <3>1 DEF SegmentOK, Untaken, KeepsClass
      <3>8. QED
        BY <3>1, <3>2, <3>3, <3>5, <3>6, <3>7, PendingKept DEF SegmentOK
    <2>2. QED
      BY <2>1 DEF SegmentInv
  <1>4. TakingDown' => TakingDown
    BY <1>d, <1>e DEF TakingDown
  <1>5. ConnInv'
    <2>1. SUFFICES ASSUME faults = 0 PROVE ConnInv'
      BY <1>b DEF ConnInv, DriverAlone
    <2>2. call'.state # "failed"
      BY <1>e
    <2>3. ASSUME NEW s \in Sources PROVE s \in connected' \/ Unresolved(s)'
      <3>1. s \in Segments /\ s \in SegmentsOf(Worker[s])
        BY SegmentsAssumption DEF SegmentsOf
      <3>2. CASE s \in connected
        BY <3>2, <1>b DEF DriverAlone
      <3>3. CASE Unresolved(s)
        <4>1. \/ events = VR
              \/ driver.event = "ResolveConnections" /\ Worker[s] \in driver.todo
          <5>1. call.request # "SetComponentParams" /\ requested = Segments
            BY <1>d DEF NoCall
          <5>2. QED
            BY <3>3, <5>1 DEF Unresolved
        <4>2. CASE events = VR
          BY <4>2, <1>d DEF Unresolved
        <4>3. CASE driver.event = "ResolveConnections" /\ Worker[s] \in driver.todo /\ Worker[s] # w
          BY <4>3, <1>e DEF Unresolved
        <4>4. CASE driver.event = "ResolveConnections" /\ Worker[s] = w
          BY <4>4, <3>1, <1>e, <1>f DEF Unresolved
        <4>5. QED
          BY <4>1, <4>2, <4>3, <4>4
      <3>4. QED
        BY <3>2, <3>3, <1>a, <2>1 DEF ConnInv
    <2>4. QED
      BY <2>2, <2>3 DEF ConnInv
  <1>6. QED
    BY <1>b, <1>1, <1>2, <1>3, <1>4, <1>5, DriverKeeps

LEMMA TakeAnswerStep ==
    ASSUME IInv, TypeOK', TakeAnswer
    PROVE  IInv'
  <1>a. TypeOK /\ Registered /\ DriverInv /\ CallInv /\ SegmentInv /\ BarrierInv /\ ConnInv
    BY DEF IInv
  <1>b. DriverAlone /\ KeepsClasses
    BY DriverFrame, SameClasses DEF Driver, segment_state, DriverAlone
  <1>c. call # NoCall /\ call.state \in {"ok", "failed"} /\ CallOK /\ call.at = None
    BY <1>a DEF TakeAnswer, NoCall, CallInv, CallOK
  <1>d. /\ driver.event \in Events /\ requested = Segments /\ requested' = Segments
        /\ workers' = workers /\ events \in {V0, VDS, VS} /\ call.to \in workers
    BY <1>a, <1>b, <1>c DEF DriverInv, TypeOK, CallOK, DriverAlone, Events
  <1>1. CASE call.state = "failed" /\ driver.event = "ExecuteWorkers"
    <2>1. call' = NoCall /\ driver'.event = "gone" /\ driver'.todo = {} /\ events' = V0
      BY <1>1 DEF TakeAnswer, V0
    <2>2. DriverInv'
      BY <2>1, <1>d, EventTable DEF DriverInv
    <2>3. CallInv'
      BY <2>1 DEF CallInv, NoCall
    <2>4. SegmentInv'
      <3>1. ASSUME NEW s \in Segments PROVE SegmentOK(s)'
        <4>1. SegmentOK(s) /\ KeepsClass(s)
          BY <1>a, <1>b DEF SegmentInv, KeepsClasses
        <4>2. ~NotExecuted(Worker[s])' /\ ~NotTakenDown(Worker[s])'
          BY <2>1, <1>d, EventTable DEF NotExecuted, NotTakenDown
        <4>3. Called1(s)' /\ Called2(s)' /\ Called3(s)' /\ Called4(s)'
          BY <2>1 DEF NoCall, Called1, Called2, Called3, Called4
        <4>4. QED
          BY <4>1, <4>2, <4>3, PendingKept DEF SegmentOK
      <3>2. QED
        BY <3>1 DEF SegmentInv
    <2>5. ~TakingDown'
      BY <2>1, EventTable DEF TakingDown
    <2>6. ConnInv'
      BY <1>1, <1>a, <1>b DEF ConnInv, DriverAlone
    <2>7. QED
      BY <1>b, <2>2, <2>3, <2>4, <2>5, <2>6, DriverKeeps
  <1>2. CASE ~(call.state = "failed" /\ driver.event = "ExecuteWorkers")
    <2>1. UNCHANGED <<driver, events>>
      BY <1>2 DEF TakeAnswer
    <2>2. DriverInv'
      BY <2>1, <1>a, <1>b, <1>d DEF DriverInv, DriverAlone, Events
    <2>3. TakingDown' => TakingDown
      BY <2>1 DEF TakingDown
    <2>4. ASSUME NEW s \in Segments PROVE Unexecuted(s)' /\ Untaken(s)'
      <3>1. SegmentOK(s) /\ KeepsClass(s)
        BY <1>a, <1>b DEF SegmentInv, KeepsClasses
      <3>2. /\ NotExecuted(Worker[s])' => NotExecuted(Worker[s])
            /\ NotTakenDown(Worker[s])' => NotTakenDown(Worker[s])
        BY <2>1, <1>d DEF NotExecuted, NotTakenDown
      <3>3. QED
        BY <3>1, <3>2, PendingKept
    <2>5. CallInv' /\ (\A s \in Segments : Called1(s)' /\ Called2(s)' /\ Called3(s)' /\ Called4(s)')
          /\ (faults = 0 => call'.state # "failed")
      <3>1. CASE call' = NoCall
        BY <3>1 DEF NoCall, CallInv, Called1, Called2, Called3, Called4
      <3>2. CASE call' # NoCall
        <4>1. /\ Len(Requests(driver.event)) = 2 /\ call.request = Requests(driver.event)[1]
              /\ call' = Calling(call.to, Requests(driver.event)[2])
          BY <3>2, <1>2 DEF TakeAnswer
        <4>2. /\ call'.to = call.to /\ call'.request = Requests(driver.event)[2]
              /\ call'.state = "sent" /\ call'.at = None /\ call'.todo = SegmentsOf(call.to)
          BY <4>1 DEF Calling
        <4>3. \/ /\ driver.event = "ExecuteWorkers" /\ call.request = "ActivateSegments"
                 /\ call'.request = "RunSegments"
              \/ /\ driver.event = "DeactivateWorkers" /\ call.request = "DeactivateSegments"
                 /\ call'.request = "DestroySegments"
          BY <4>1, <4>2, <1>d, RequestTable DEF Events
        <4>4. CallOK'
          BY <4>2, <4>3, <1>c, <1>d, <2>1 DEF CallOK, Asks, SegmentsOf
        <4>5. ASSUME NEW s \in Segments
              PROVE  Called1(s)' /\ Called2(s)' /\ Called3(s)' /\ Called4(s)'
          <5>1. SegmentOK(s) /\ KeepsClass(s) /\ s # None
            BY <1>a, <1>b, NoneAssumption DEF SegmentInv, KeepsClasses
          <5>2. Called1(s)' /\ Called3(s)'
            BY <4>3 DEF Called1, Called3
          <5>3. Called2(s)'
            <6>1. SUFFICES ASSUME call'.to = Worker[s], call'.request = "RunSegments"
                           PROVE  AtActivate(s)'
              BY DEF Called2
            <6>2. call.to = Worker[s] /\ call.request = "ActivateSegments" /\ call.todo = {}
              BY <6>1, <4>2, <4>3, <1>2, <1>c DEF CallOK
            <6>3. QED
              BY <6>2, <5>1 DEF SegmentOK, Called1, KeepsClass
          <5>4. Called4(s)'
            <6>1. SUFFICES ASSUME call'.to = Worker[s], call'.request = "DestroySegments"
                           PROVE  ~AtDestroy(s)' /\ (AtDeactivate(s)' => Down(s)')
              BY DEF Called4
            <6>2. call.to = Worker[s] /\ call.request = "DeactivateSegments" /\ call.at # s
              BY <6>1, <4>2, <4>3, <1>c, <5>1
            <6>3. QED
              BY <6>2, <5>1 DEF SegmentOK, Called3, KeepsClass
          <5>5. QED
            BY <5>2, <5>3, <5>4
        <4>6. QED
          BY <4>2, <4>4, <4>5 DEF CallInv
      <3>3. QED
        BY <3>1, <3>2
    <2>6. SegmentInv'
      BY <2>4, <2>5 DEF SegmentInv, SegmentOK
    <2>7. ConnInv'
      <3>1. SUFFICES ASSUME faults = 0 PROVE ConnInv'
        BY <1>b DEF ConnInv, DriverAlone
      <3>2. call.state = "ok" /\ call.todo = {}
        BY <3>1, <1>a, <1>c DEF ConnInv, CallOK
      <3>3. ASSUME NEW s \in Sources PROVE s \in connected' \/ Unresolved(s)'
        <4>1. s \in connected \/ Unresolved(s)
          BY <3>1, <1>a DEF ConnInv
        <4>2. Unresolved(s) => Unresolved(s)'
          BY <3>2, <2>1, <1>d DEF Unresolved
        <4>3. QED
          BY <4>1, <4>2, <1>b DEF DriverAlone
      <3>4. QED
        BY <3>1, <3>3, <2>5 DEF ConnInv
    <2>8. QED
      BY <1>b, <2>2, <2>3, <2>5, <2>6, <2>7, DriverKeeps
  <1>3. QED
    BY <1>1, <1>2

LEMMA FinishEventStep ==
    ASSUME IInv, TypeOK', FinishEvent
    PROVE  IInv'
  <1>a. TypeOK /\ Registered /\ DriverInv /\ CallInv /\ SegmentInv /\ BarrierInv /\ ConnInv
    BY DEF IInv
  <1>b. DriverAlone /\ KeepsClasses
    BY DriverFrame, SameClasses DEF Driver, segment_state, DriverAlone
  <1>c. /\ driver.event \in Events /\ call = NoCall /\ call' = NoCall /\ driver.todo = {}
        /\ driver'.event = (IF driver.event = "StopWorkers" THEN "gone" ELSE "none")
        /\ driver'.todo = {}
        /\ requested = Segments /\ requested' = Segments /\ workers' = workers
    BY <1>a, <1>b DEF FinishEvent, DriverInv, DriverAlone, Events
  <1>d. \/ driver.event = "ResolveConnections" /\ events = V0 /\ events' = VE
        \/ driver.event = "ExecuteWorkers" /\ events \in {V0, VDS} /\ events' = events
        \/ driver.event = "DeactivateWorkers" /\ events = VS /\ events' = VS
        \/ driver.event = "StopWorkers" /\ events' = V0
    <2>1. CASE driver.event = "ResolveConnections"
      BY <2>1, <1>a, EventTable DEF FinishEvent, DriverInv
    <2>2. CASE driver.event = "ExecuteWorkers"
      BY <2>2, <1>a DEF FinishEvent, DriverInv
    <2>3. CASE driver.event = "DeactivateWorkers"
      BY <2>3, <1>a DEF FinishEvent, DriverInv
    <2>4. CASE driver.event = "StopWorkers"
      BY <2>4 DEF FinishEvent, V0
    <2>5. QED
      BY <1>c, <2>1, <2>2, <2>3, <2>4 DEF Events
  <1>1. DriverInv'
    BY <1>c, <1>d, EventTable DEF DriverInv
  <1>2. CallInv'
    BY <1>c DEF CallInv, NoCall
  <1>3. SegmentInv'
    <2>1. ASSUME NEW s \in Segments PROVE SegmentOK(s)'
      <3>1. SegmentOK(s) /\ KeepsClass(s)
        BY <1>a, <1>b DEF SegmentInv, KeepsClasses
      <3>2. SameCall
        BY <1>c DEF SameCall
      <3>3. NotExecuted(Worker[s])' => NotExecuted(Worker[s])
        BY <1>c, <1>d, EventTable DEF NotExecuted
      <3>4. NotTakenDown(Worker[s])' => NotTakenDown(Worker[s])
        BY <1>c, <1>d, EventTable DEF NotTakenDown
      <3>5. QED
        BY <3>1, <3>2, <3>3, <3>4, CalledKept, PendingKept DEF SegmentOK
    <2>2. QED
      BY <2>1 DEF SegmentInv
  <1>4. TakingDown' => TakingDown
    BY <1>c, <1>d, EventTable DEF TakingDown
  <1>5. ConnInv'
    <2>1. SUFFICES ASSUME faults = 0 PROVE ConnInv'
      BY <1>b DEF ConnInv, DriverAlone
    <2>2. call'.state # "failed" /\ call.request # "SetComponentParams"
      BY <1>c DEF NoCall
    <2>3. events # VR
      BY <1>a, <1>c DEF DriverInv, Events
    <2>4. ASSUME NEW s \in Sources PROVE s \in connected'
      <3>1. ~Unresolved(s)
        BY <1>c, <2>2, <2>3 DEF Unresolved
      <3>2. QED
        BY <3>1, <1>a, <1>b, <2>1 DEF ConnInv, DriverAlone
    <2>5. QED
      BY <2>2, <2>4 DEF ConnInv
  <1>6. QED
    BY <1>b, <1>1, <1>2, <1>3, <1>4, <1>5, DriverKeeps

LEMMA DriverStep ==
    ASSUME IInv, Driver
    PROVE  IInv'
  BY DriverTypes, PopEventStep, SendRequestStep, TakeAnswerStep, FinishEventStep DEF Driver

-------------------------------------------------------------------------------
(* The driver's server. *)

LEMMA ShapesKept ==
    ASSUME Shapes, KeepsClasses
    PROVE  Shapes'
  BY DEF Shapes, Class, KeepsClasses, KeepsClass

\* A step that neither the driver nor a request takes part in.
LEMMA SameControl ==
    ASSUME IInv, TypeOK', KeepsClasses, RanInv', CountInv', OnceInv',
           UNCHANGED <<requested, workers, completed, events, driver, call, connected, faults>>
    PROVE  IInv'
  <1>1. Shapes' /\ Registered' /\ DriverInv' /\ CallInv' /\ ConnInv'
    BY ShapesKept, RegisteredKept, DriverKept, CallKept, ConnKept DEF IInv
  <1>2. SameCall /\ TakingDown' = TakingDown
    BY DEF SameCall, TakingDown
  <1>3. SegmentInv' /\ BarrierInv'
    BY <1>2, SegmentsKept, BarrierKept DEF IInv
  <1>4. QED
    BY <1>1, <1>3 DEF IInv

HandlerAlone ==
    UNCHANGED <<queue, runner, executed, connected, driver, call, registration, checks, done, faults>>

LEMMA HandlerFrame ==
    ASSUME IInv, NEW w \in Workers, HandleRegister(w) \/ HandleComplete(w)
    PROVE  HandlerAlone /\ KeepsClasses /\ CountInv'
  <1>1. HandlerAlone
    BY DEF HandleRegister, HandleComplete, segment_vars, fault_vars, HandlerAlone
  <1>2. KeepsClasses
    BY <1>1, SameClasses DEF HandlerAlone, segment_state
  <1>3. CountInv'
    BY <1>1, CountKept DEF IInv, HandlerAlone
  <1>4. QED
    BY <1>1, <1>2, <1>3

\* The server turns a report away.
LEMMA TurnedAway ==
    ASSUME IInv, TypeOK', NEW w \in Workers, HandleRegister(w) \/ HandleComplete(w),
           report' = [report EXCEPT ![w] = "failed"], UNCHANGED driver_vars
    PROVE  IInv'
  <1>1. HandlerAlone /\ KeepsClasses /\ CountInv'
    BY HandlerFrame
  <1>2. UNCHANGED <<requested, workers, completed, events>>
    BY DEF driver_vars
  <1>3. RanInv'
    BY <1>1, <1>2, RanKept DEF IInv, HandlerAlone
  <1>4. \A v \in Workers : report'[v] = "sent" => report[v] = "sent"
    BY DEF IInv, TypeOK
  <1>5. OnceInv'
    BY <1>1, <1>2, <1>4, OnceKept DEF IInv, HandlerAlone
  <1>6. QED
    BY <1>1, <1>2, <1>3, <1>5, SameControl DEF HandlerAlone

LEMMA RegisterStep ==
    ASSUME IInv, TypeOK', NEW w \in Workers, HandleRegister(w)
    PROVE  IInv'
  <1>a. /\ TypeOK /\ Shapes /\ Registered /\ DriverInv /\ SegmentInv /\ RanInv /\ BarrierInv
        /\ OnceInv /\ ConnInv
    BY DEF IInv
  <1>b. HandlerAlone /\ KeepsClasses /\ CountInv'
    BY HandlerFrame
  <1>1. CASE SegmentsOf(w) \cap requested # {}
    BY <1>1, TurnedAway DEF HandleRegister
  <1>2. CASE SegmentsOf(w) \cap requested = {}
    <2>1. PICK t \in Segments : Worker[t] = w
      BY SegmentsAssumption
    <2>2. requested # Segments
      BY <1>2, <2>1 DEF SegmentsOf
    <2>3. /\ events = V0 /\ driver.event = "none" /\ driver.todo = {} /\ call = NoCall
          /\ driver' = driver /\ call' = NoCall
      BY <2>2, <1>a, <1>b DEF DriverInv, HandlerAlone
    <2>4. /\ requested' = requested \cup SegmentsOf(w) /\ workers' = workers \cup {w}
          /\ completed' = completed /\ report' = [report EXCEPT ![w] = "ok"]
          /\ events' = IF requested' = Segments THEN VR ELSE V0
      BY <1>2, <2>3, EventTable DEF HandleRegister, AllRequested
    <2>5. Registered'
      BY <2>4, <1>a DEF Registered, SegmentsOf
    <2>6. DriverInv'
      BY <2>3, <2>4, EventTable DEF DriverInv
    <2>7. CallInv'
      BY <2>3 DEF CallInv, NoCall
    <2>8. ASSUME NEW s \in Segments PROVE SegmentOK(s)'
      <3>1. SegmentOK(s) /\ KeepsClass(s)
        BY <1>a, <1>b DEF SegmentInv, KeepsClasses
      <3>2. NotExecuted(Worker[s])' => NotExecuted(Worker[s])
        BY <2>2 DEF NotExecuted
      <3>3. NotTakenDown(Worker[s])' => NotTakenDown(Worker[s])
        BY <2>3, EventTable DEF NotTakenDown
      <3>4. SameCall
        BY <2>3 DEF SameCall
      <3>5. QED
        BY <3>1, <3>2, <3>3, <3>4, CalledKept, PendingKept DEF SegmentOK
    <2>9. SegmentInv'
      BY <2>8 DEF SegmentInv
    <2>10. ~TakingDown'
      BY <2>3, <2>4, EventTable DEF TakingDown
    <2>11. BarrierInv'
      <3>1. ASSUME NEW s \in Segments, AtDeactivate(s)' \/ AtDestroy(s)' PROVE EachRan'
        <4>1. AtDeactivate(s) \/ AtDestroy(s)
          BY <3>1, <1>b DEF KeepsClasses, KeepsClass
        <4>2. QED
          BY <4>1, <1>a, <1>b, EachRanKept DEF BarrierInv
      <3>2. QED
        BY <2>10, <3>1 DEF BarrierInv
    <2>12. RanInv'
      BY <2>4, <1>a, <1>b, RanKept DEF HandlerAlone
    <2>13. OnceInv'
      <3>1. \A v \in Workers : report'[v] = "sent" => report[v] = "sent"
        BY <2>4, <1>a DEF TypeOK
      <3>2. QED
        BY <3>1, <2>4, <1>a, <1>b, OnceKept DEF HandlerAlone
    <2>14. ConnInv'
      <3>1. call'.state # "failed"
        BY <2>3 DEF NoCall
      <3>2. \A s \in Segments : Unresolved(s)'
        BY <2>4 DEF Unresolved
      <3>3. QED
        BY <3>1, <3>2, SegmentsAssumption DEF ConnInv
    <2>15. QED
      BY <1>a, <1>b, <2>5, <2>6, <2>7, <2>9, <2>11, <2>12, <2>13, <2>14, ShapesKept DEF IInv
  <1>3. QED
    BY <1>1, <1>2

LEMMA CompleteStep ==
    ASSUME IInv, TypeOK', NEW w \in Workers, HandleComplete(w)
    PROVE  IInv'
  <1>a. /\ TypeOK /\ Shapes /\ Registered /\ DriverInv /\ CallInv /\ SegmentInv /\ RanInv
        /\ BarrierInv /\ OnceInv /\ ConnInv
    BY DEF IInv
  <1>b. HandlerAlone /\ KeepsClasses /\ CountInv'
    BY HandlerFrame
  <1>1. CASE w \notin workers
    BY <1>1, TurnedAway DEF HandleComplete
  <1>2. CASE w \in workers
    <2>1. AllRan(w) /\ w \notin completed /\ registration[w] = "complete"
      BY <1>a DEF HandleComplete, RanInv, OnceInv
    <2>2. ~TakingDown
      BY <2>1, <1>2, <1>a DEF BarrierInv
    <2>3. PICK t \in Segments : Worker[t] = w
      BY SegmentsAssumption
    <2>4. ~NotExecuted(w)
      BY <2>1, <2>3, <1>a, ClassesDiffer DEF AllRan, SegmentsOf, SegmentInv, SegmentOK, Unexecuted
    <2>5. /\ requested = Segments /\ events = V0
          /\ driver.event \in {"none", "ExecuteWorkers", "gone"}
      BY <2>2, <2>4, <1>a DEF TakingDown, NotExecuted, TypeOK, Events
    <2>6. /\ requested' = requested /\ workers' = workers /\ completed' = completed \cup {w}
          /\ report' = [report EXCEPT ![w] = "ok"]
          /\ events' = IF completed' = workers THEN VDS ELSE V0
      BY <1>2, <2>5, EventTable DEF HandleComplete
    <2>7. driver' = driver /\ call' = call /\ registration' = registration
      BY <1>b DEF HandlerAlone
    <2>8. Registered'
      BY <2>6, <1>2, <1>a DEF Registered
    <2>9. DriverInv'
      BY <2>5, <2>6, <2>7, <1>a, EventTable DEF DriverInv
    <2>10. CallInv'
      BY <2>6, <2>7, <1>a, CallKept
    <2>11. ASSUME NEW s \in Segments PROVE SegmentOK(s)'
      <3>1. SegmentOK(s) /\ KeepsClass(s)
        BY <1>a, <1>b DEF SegmentInv, KeepsClasses
      <3>2. NotExecuted(Worker[s])' => NotExecuted(Worker[s])
        BY <2>5, <2>6, <2>7, EventTable DEF NotExecuted
      <3>3. NotTakenDown(Worker[s])' => NotTakenDown(Worker[s])
        BY <2>5, <2>7, EventTable DEF NotTakenDown
      <3>4. SameCall
        BY <2>7 DEF SameCall
      <3>5. QED
        BY <3>1, <3>2, <3>3, <3>4, CalledKept, PendingKept DEF SegmentOK
    <2>12. SegmentInv'
      BY <2>11 DEF SegmentInv
    <2>13. TakingDown' => completed' = workers'
      BY <2>5, <2>6, <2>7, EventTable DEF TakingDown
    <2>14. BarrierInv'
      <3>1. ASSUME NEW s \in Segments, AtDeactivate(s)' \/ AtDestroy(s)' PROVE EachRan'
        <4>1. AtDeactivate(s) \/ AtDestroy(s)
          BY <3>1, <1>b DEF KeepsClasses, KeepsClass
        <4>2. QED
          BY <4>1, <1>a, <1>b, EachRanKept DEF BarrierInv
      <3>2. QED
        BY <2>13, <3>1 DEF BarrierInv
    <2>15. RanInv'
      <3>1. ASSUME NEW v \in Workers, v \in completed' \/ registration'[v] = "complete"
            PROVE  AllRan(v)'
        <4>1. AllRan(v)
          BY <3>1, <2>1, <2>6, <2>7, <1>a DEF RanInv
        <4>2. QED
          BY <4>1, <1>b, AllRanKept
      <3>2. QED
        BY <3>1 DEF RanInv
    <2>16. OnceInv'
      <3>1. report' \in [Workers -> {"none", "sent", "ok", "failed"}] /\ report'[w] = "ok"
            /\ \A v \in Workers \ {w} : report'[v] = report[v]
        BY <2>6, <1>a DEF TypeOK
      <3>2. done' = done
        BY <1>b DEF HandlerAlone
      <3>3. QED
        BY <3>1, <3>2, <2>1, <2>6, <2>7, <1>a DEF OnceInv, SegmentsOf
    <2>17. ConnInv'
      <3>1. SUFFICES ASSUME faults = 0 PROVE ConnInv'
        BY <1>b DEF ConnInv, HandlerAlone
      <3>2. ASSUME NEW s \in Sources PROVE s \in connected' \/ Unresolved(s)'
        <4>1. s \in connected \/ Unresolved(s)
          BY <3>1, <1>a DEF ConnInv
        <4>2. Unresolved(s) => Unresolved(s)'
          BY <2>5, <2>7, EventTable DEF Unresolved
        <4>3. QED
          BY <4>1, <4>2, <1>b DEF HandlerAlone
      <3>3. QED
        BY <3>1, <3>2, <2>7, <1>a DEF ConnInv
    <2>18. QED
      BY <1>a, <1>b, <2>8, <2>9, <2>10, <2>12, <2>14, <2>15, <2>16, <2>17, ShapesKept DEF IInv
  <1>3. QED
    BY <1>1, <1>2

-------------------------------------------------------------------------------
(* A worker's server. *)

ServerAlone ==
    UNCHANGED <<runner, executed, requested, workers, completed, events, driver,
                registration, report, checks, done, faults>>

LEMMA ServerFrame == Server => ServerAlone
  BY DEF Server, StopThread, AnswerRequest, SetComponentParams, QueueSegment, TakeDown,
       TakenDownIs, StopSegment, SegmentStopped, ServerAlone, driver_vars, worker_vars,
       segment_vars, fault_vars

LEMMA ServerKeeps ==
    ASSUME IInv, TypeOK', ServerAlone, call # NoCall, Shapes', CallOK', SegmentInv', ConnInv',
           \A s \in Segments : AtDeactivate(s)' \/ AtDestroy(s)' => EachRan
    PROVE  IInv'
  <1>1. Registered' /\ DriverInv'
    BY RegisteredKept, DriverKept DEF IInv, ServerAlone
  <1>2. CallInv'
    BY DEF CallInv
  <1>3. RanInv' /\ (EachRan => EachRan')
    BY DEF IInv, RanInv, AllRan, EachRan, Ran, SegmentsOf, ServerAlone
  <1>4. BarrierInv'
    <2>1. TakingDown' = TakingDown /\ completed' = completed /\ workers' = workers
      BY DEF TakingDown, ServerAlone
    <2>2. QED
      BY <2>1, <1>3 DEF IInv, BarrierInv
  <1>5. CountInv' /\ OnceInv'
    BY CountKept, OnceKept DEF IInv, ServerAlone
  <1>6. QED
    BY <1>1, <1>2, <1>3, <1>4, <1>5 DEF IInv

\* What is still to be asked of the workers stays.
LEMMA StillPending ==
    ASSUME ServerAlone, NEW w
    PROVE  NotExecuted(w)' = NotExecuted(w) /\ NotTakenDown(w)' = NotTakenDown(w)
  BY DEF NotExecuted, NotTakenDown, ServerAlone

LEMMA ServerConn ==
    ASSUME ConnInv, ServerAlone, call'.state \in {call.state, "ok"},
           call'.request = call.request, call'.to = call.to, connected \subseteq connected',
           call.request = "SetComponentParams" => call.todo \subseteq call'.todo \cup connected'
    PROVE  ConnInv'
  <1>1. SUFFICES ASSUME faults = 0 PROVE ConnInv'
    BY DEF ConnInv, ServerAlone
  <1>2. call'.state # "failed"
    BY <1>1 DEF ConnInv
  <1>3. ASSUME NEW s \in Sources PROVE s \in connected' \/ Unresolved(s)'
    <2>1. s \in connected \/ Unresolved(s)
      BY <1>1 DEF ConnInv
    <2>2. Unresolved(s) => s \in connected' \/ Unresolved(s)'
      BY DEF Unresolved, ServerAlone
    <2>3. QED
      BY <2>1, <2>2
  <1>4. QED
    BY <1>2, <1>3 DEF ConnInv

LEMMA ClassesDifferNext ==
    ASSUME NEW s
    PROVE  /\ AtActivate(s)' => ~AtDeactivate(s)' /\ ~AtDestroy(s)'
           /\ AtRun(s)' => ~AtDeactivate(s)' /\ ~AtDestroy(s)'
           /\ AtDeactivate(s)' => ~AtDestroy(s)'
  BY HistoriesDiffer DEF AtActivate, AtRun, AtDeactivate, AtDestroy, Rests, Busy, Resting

\* The steps that leave the segments alone.
LEMMA ServerStays ==
    ASSUME IInv, TypeOK', Server, KeepsClasses, call # NoCall, CallOK', ConnInv',
           \A s \in Segments : Called1(s)' /\ Called2(s)' /\ Called3(s)' /\ Called4(s)'
    PROVE  IInv'
  <1>1. ServerAlone
    BY ServerFrame
  <1>2. SegmentInv'
    <2>1. ASSUME NEW s \in Segments PROVE SegmentOK(s)'
      <3>1. SegmentOK(s) /\ KeepsClass(s)
        BY DEF IInv, SegmentInv, KeepsClasses
      <3>2. QED
        BY <3>1, <1>1, StillPending, PendingKept DEF SegmentOK
    <2>2. QED
      BY <2>1 DEF SegmentInv
  <1>3. Shapes'
    BY ShapesKept DEF IInv
  <1>4. \A s \in Segments : AtDeactivate(s)' \/ AtDestroy(s)' => EachRan
    BY DEF IInv, BarrierInv, KeepsClasses, KeepsClass
  <1>5. QED
    BY <1>1, <1>2, <1>3, <1>4, ServerKeeps

LEMMA SetComponentParamsStep ==
    ASSUME IInv, TypeOK', NEW s \in call.todo, SetComponentParams(s)
    PROVE  IInv'
  <1>1. /\ call.state = "sent" /\ call.request = "SetComponentParams" /\ call.at = None
        /\ CallOK /\ call # NoCall /\ call \in Calls
    BY HandlingFacts DEF SetComponentParams, Handling, NoCall, IInv, TypeOK
  <1>2. /\ Server /\ ServerAlone /\ KeepsClasses /\ connected' = connected \cup {s}
    BY ServerFrame, SameClasses DEF SetComponentParams, Server, segment_state
  <1>3. /\ call'.to = call.to /\ call'.request = call.request /\ call'.state = call.state
        /\ call'.at = None /\ call'.todo = call.todo \ {s}
    BY <1>1 DEF SetComponentParams, Handled
  <1>4. CallOK'
    BY <1>1, <1>2, <1>3 DEF CallOK, Asks, ServerAlone, SegmentsOf
  <1>5. \A t \in Segments : Called1(t)' /\ Called2(t)' /\ Called3(t)' /\ Called4(t)'
    BY <1>1, <1>3 DEF Called1, Called2, Called3, Called4
  <1>6. ConnInv'
    BY <1>2, <1>3, ServerConn DEF IInv
  <1>7. QED
    BY <1>1, <1>2, <1>4, <1>5, <1>6, ServerStays

LEMMA StopStep ==
    ASSUME IInv, TypeOK', NEW s \in call.todo, StopSegment(s) \/ SegmentStopped(s)
    PROVE  IInv'
  <1>1. CallOK /\ call # NoCall /\ call.request = "StopWorker"
        /\ call \in Calls
    BY DEF StopSegment, SegmentStopped, Handling, NoCall, IInv, CallInv, TypeOK
  <1>2. /\ call.state = "sent"
        /\ s # None
    BY <1>1, NoneAssumption DEF StopSegment, SegmentStopped, Handling, CallOK, SegmentsOf
  <1>3. /\ Server /\ ServerAlone /\ KeepsClasses /\ connected' = connected
    BY ServerFrame, SameClasses DEF StopSegment, SegmentStopped, Server, segment_state, segment_vars
  <1>4. /\ call'.to = call.to /\ call'.request = call.request /\ call'.state = call.state
        /\ call'.at \in call'.todo \cup {None} /\ call'.todo \subseteq call.todo
    BY <1>1 DEF StopSegment, SegmentStopped, Handled
  <1>5. CallOK'
    BY <1>1, <1>2, <1>3, <1>4 DEF CallOK, Asks, ServerAlone, SegmentsOf
  <1>6. \A t \in Segments : Called1(t)' /\ Called2(t)' /\ Called3(t)' /\ Called4(t)'
    BY <1>1, <1>4 DEF Called1, Called2, Called3, Called4
  <1>7. ConnInv'
    BY <1>1, <1>3, <1>4, ServerConn DEF IInv
  <1>8. QED
    BY <1>1, <1>3, <1>5, <1>6, <1>7, ServerStays

LEMMA AnswerStep ==
    ASSUME IInv, TypeOK', StopThread \/ AnswerRequest
    PROVE  IInv'
  <1>1. CallOK /\ call # NoCall /\ call.todo = {} /\ call.state = "sent"
        /\ call \in Calls
    BY HandlingFacts DEF StopThread, AnswerRequest, Handling, NoCall, IInv, TypeOK
  <1>2. /\ Server /\ ServerAlone /\ KeepsClasses /\ connected' = connected
    BY ServerFrame, SameClasses DEF StopThread, AnswerRequest, Server, segment_state, segment_vars
  <1>3. SameCall /\ call'.state \in {"sent", "ok"}
    BY <1>1 DEF StopThread, AnswerRequest, SameCall
  <1>4. CallOK'
    <2>1. call.at = None
      BY <1>1 DEF CallOK
    <2>2. QED
      BY <1>1, <1>2, <1>3, <2>1 DEF CallOK, Asks, ServerAlone, SegmentsOf, SameCall
  <1>5. \A t \in Segments : Called1(t)' /\ Called2(t)' /\ Called3(t)' /\ Called4(t)'
    BY <1>2, <1>3, CalledKept DEF IInv, SegmentInv, KeepsClasses
  <1>6. ConnInv'
    BY <1>1, <1>2, <1>3, ServerConn DEF IInv, SameCall
  <1>7. QED
    BY <1>1, <1>2, <1>4, <1>5, <1>6, ServerStays

\* A request that reaches s while the others are left alone.
LEMMA QueueSegmentStep ==
    ASSUME IInv, TypeOK', NEW s \in call.todo, QueueSegment(s)
    PROVE  IInv'
  <1>1. /\ call.state = "sent" /\ call.request \in {"ActivateSegments", "RunSegments"}
        /\ call.at = None /\ CallOK /\ call # NoCall /\ call \in Calls
        /\ s \in Segments /\ Worker[s] = call.to /\ driver.event = "ExecuteWorkers"
        /\ ~NotExecuted(call.to)
    BY HandlingFacts DEF QueueSegment, Handling, NoCall, IInv, TypeOK, CallOK, Asks
  <1>2. ServerAlone
    BY ServerFrame DEF Server
  <1>3. /\ call'.to = call.to /\ call'.request = call.request /\ call'.state = call.state
        /\ call'.at = None /\ call'.todo = call.todo \ {s} /\ connected' = connected
    BY <1>1 DEF QueueSegment, Handled
  <1>4. /\ call.request = "ActivateSegments" => AtActivate(s)'
        /\ AtActivate(s)' \/ AtRun(s)'
        /\ Class(s)' /\ \A t \in Segments \ {s} : LeftAlone(t)
    <2>1. CASE call.request = "ActivateSegments" /\ Queue(s, "activate") /\ Fresh(s)
      BY <1>1, <1>2, <2>1, Given DEF IInv, ServerAlone
    <2>2. CASE call.request = "RunSegments" /\ Queue(s, "run") /\ AtActivate(s)
      BY <1>1, <1>2, <2>2, Given DEF IInv, ServerAlone
    <2>3. QED
      BY <2>1, <2>2, QueueSegmentFinds
  <1>5. \A t \in Segments \ {s} : KeepsClass(t) /\ Class(t)'
    BY <1>4, AloneKept DEF IInv, Shapes
  <1>6. Shapes'
    BY <1>4, <1>5 DEF Shapes
  <1>7. CallOK'
    BY <1>1, <1>2, <1>3 DEF CallOK, Asks, ServerAlone, SegmentsOf
  <1>8. SegmentInv'
    <2>1. ASSUME NEW t \in Segments \ {s} PROVE SegmentOK(t)'
      <3>1. SegmentOK(t) /\ KeepsClass(t)
        BY <1>5 DEF IInv, SegmentInv
      <3>2. Unexecuted(t)' /\ Untaken(t)'
        BY <3>1, <1>2, StillPending, PendingKept
      <3>3. Called1(t)' /\ Called2(t)'
        BY <3>1, <1>3 DEF SegmentOK, Called1, Called2, KeepsClass
      <3>4. Called3(t)' /\ Called4(t)'
        BY <1>1, <1>3 DEF Called3, Called4
      <3>5. QED
        BY <3>2, <3>3, <3>4 DEF SegmentOK
    <2>2. SegmentOK(s)'
      <3>1. Unexecuted(s)'
        BY <1>1, <1>2, StillPending DEF Unexecuted
      <3>2. Untaken(s)'
        BY <1>4, ClassesDifferNext DEF Untaken
      <3>3. Called1(s)' /\ Called2(s)'
        BY <1>3, <1>4 DEF Called1, Called2
      <3>4. Called3(s)' /\ Called4(s)'
        BY <1>1, <1>3 DEF Called3, Called4
      <3>5. QED
        BY <3>1, <3>2, <3>3, <3>4 DEF SegmentOK
    <2>3. QED
      BY <2>1, <2>2 DEF SegmentInv
  <1>9. ASSUME NEW t \in Segments, AtDeactivate(t)' \/ AtDestroy(t)' PROVE EachRan
    <2>1. t # s
      BY <1>4, <1>9, ClassesDifferNext
    <2>2. AtDeactivate(t) \/ AtDestroy(t)
      BY <2>1, <1>5, <1>9 DEF KeepsClass
    <2>3. QED
      BY <2>2 DEF IInv, BarrierInv
  <1>10. ConnInv'
    BY <1>1, <1>2, <1>3, ServerConn DEF IInv
  <1>11. QED
    BY <1>1, <1>2, <1>6, <1>7, <1>8, <1>9, <1>10, ServerKeeps

LEMMA TakeDownStep ==
    ASSUME IInv, TypeOK', NEW s \in call.todo, TakeDown(s)
    PROVE  IInv'
  <1>1. /\ call.state = "sent" /\ call.request \in {"DeactivateSegments", "DestroySegments"}
        /\ call.at = None /\ CallOK /\ call # NoCall /\ call \in Calls
        /\ s \in Segments /\ s # None /\ Worker[s] = call.to /\ driver.event = "DeactivateWorkers"
        /\ ~NotTakenDown(call.to) /\ requested = Segments
    BY HandlingFacts DEF TakeDown, TakenDown, Handling, NoCall, IInv, TypeOK, CallOK, Asks
  <1>2. ServerAlone /\ EachRan
    BY ServerFrame, TakeDownFinds DEF Server
  <1>3. /\ call'.to = call.to /\ call'.request = call.request /\ call'.state = call.state
        /\ call'.at = s /\ call'.todo = call.todo /\ connected' = connected
    BY <1>1 DEF TakeDown
  <1>4. /\ call.request = "DeactivateSegments" => AtDeactivate(s)'
        /\ Class(s)' /\ \A t \in Segments \ {s} : LeftAlone(t)
    <2>1. Ran(s) /\ TypeOK /\ UNCHANGED <<runner, executed>>
      BY <1>1, <1>2 DEF EachRan, IInv, ServerAlone
    <2>2. CASE call.request = "DeactivateSegments" /\ Queue(s, "deactivate") /\ AtRun(s)
      BY <1>1, <2>1, <2>2, Given
    <2>3. CASE call.request = "DestroySegments" /\ Queue(s, "destroy") /\ (AtRun(s) \/ Down(s))
      BY <1>1, <2>1, <2>3, Given
    <2>4. QED
      BY <2>2, <2>3, TakeDownFinds
  <1>5. \A t \in Segments \ {s} : KeepsClass(t) /\ Class(t)'
    BY <1>4, AloneKept DEF IInv, Shapes
  <1>6. Shapes'
    BY <1>4, <1>5 DEF Shapes
  <1>7. CallOK'
    BY <1>1, <1>2, <1>3 DEF CallOK, Asks, ServerAlone, SegmentsOf
  <1>8. SegmentInv'
    <2>1. ASSUME NEW t \in Segments \ {s} PROVE SegmentOK(t)'
      <3>1. SegmentOK(t) /\ KeepsClass(t) /\ call.at # t
        BY <1>1, <1>5, NoneAssumption DEF IInv, SegmentInv
      <3>2. Unexecuted(t)' /\ Untaken(t)'
        BY <3>1, <1>2, StillPending, PendingKept
      <3>3. Called1(t)' /\ Called2(t)'
        BY <1>1, <1>3 DEF Called1, Called2
      <3>4. Called3(t)'
        BY <3>1, <1>3 DEF SegmentOK, Called3, KeepsClass
      <3>5. Called4(t)'
        BY <3>1, <1>3 DEF SegmentOK, Called4, KeepsClass
      <3>6. QED
        BY <3>2, <3>3, <3>4, <3>5 DEF SegmentOK
    <2>2. SegmentOK(s)'
      <3>1. Untaken(s)'
        BY <1>1, <1>2, StillPending DEF Untaken
      <3>2. ~NotExecuted(Worker[s])
        BY <1>1, EventTable DEF NotExecuted, IInv, DriverInv
      <3>3. Unexecuted(s)'
        BY <3>2, <1>2, StillPending DEF Unexecuted
      <3>4. Called1(s)' /\ Called2(s)'
        BY <1>1, <1>3 DEF Called1, Called2
      <3>5. Called3(s)' /\ Called4(s)'
        BY <1>3, <1>4, ClassesDifferNext DEF Called3, Called4
      <3>6. QED
        BY <3>1, <3>3, <3>4, <3>5 DEF SegmentOK
    <2>3. QED
      BY <2>1, <2>2 DEF SegmentInv
  <1>9. ConnInv'
    BY <1>1, <1>2, <1>3, ServerConn DEF IInv
  <1>10. QED
    BY <1>1, <1>2, <1>6, <1>7, <1>8, <1>9, ServerKeeps

LEMMA TakenDownIsStep ==
    ASSUME IInv, TypeOK', NEW s \in call.todo, TakenDownIs(s)
    PROVE  IInv'
  <1>1. /\ call # NoCall /\ CallOK /\ call \in Calls /\ call.at = s
        /\ call.request \in {"DeactivateSegments", "DestroySegments"}
    BY DEF TakenDownIs, TakenDown, NoCall, IInv, CallInv, TypeOK
  <1>2. /\ s \in Segments /\ Worker[s] = call.to /\ call.state = "sent"
    BY <1>1, NoneAssumption DEF CallOK, SegmentsOf
  <1>3. /\ Server /\ ServerAlone /\ KeepsClasses /\ connected' = connected
    BY ServerFrame, SameClasses DEF TakenDownIs, Server, segment_state, segment_vars
  <1>4. /\ call'.to = call.to /\ call'.request = call.request /\ call'.state = call.state
        /\ call'.at = None /\ call'.todo = call.todo \ {s}
    BY <1>1 DEF TakenDownIs, Handled
  <1>5. CallOK'
    BY <1>1, <1>3, <1>4 DEF CallOK, Asks, ServerAlone, SegmentsOf
  <1>6. SegmentOK(s) /\ Class(s) /\ executed[s] \in Histories
    BY <1>2 DEF IInv, SegmentInv, Shapes, TypeOK
  <1>7. call.request = "DeactivateSegments" => Down(s)
    <2>1. SUFFICES ASSUME call.request = "DeactivateSegments" PROVE Down(s)
      OBVIOUS
    <2>2. executed[s] \in {HARD, HARDX}
      BY <2>1, <1>2, <1>6, ExecutedTable DEF TakenDownIs, TakenDown
    <2>3. ~AtDestroy(s)
      BY <2>1, <1>2, <1>6 DEF SegmentOK, Called3
    <2>4. QED
      BY <2>2, <2>3, <1>6, HistoriesDiffer DEF Class, Fresh, AtActivate, AtRun, AtDeactivate,
           Rests, Busy, Down
  <1>8. ASSUME NEW t \in Segments PROVE Called1(t)' /\ Called2(t)' /\ Called3(t)' /\ Called4(t)'
    <2>1. SegmentOK(t) /\ KeepsClass(t)
      BY <1>3 DEF IInv, SegmentInv, KeepsClasses
    <2>2. Called1(t)' /\ Called2(t)'
      BY <1>1, <1>4 DEF Called1, Called2
    <2>3. Called3(t)'
      BY <2>1, <1>1, <1>4, <1>7 DEF SegmentOK, Called3, KeepsClass
    <2>4. Called4(t)'
      BY <2>1, <1>1, <1>4 DEF SegmentOK, Called4, KeepsClass
    <2>5. QED
      BY <2>2, <2>3, <2>4
  <1>9. ConnInv'
    BY <1>1, <1>3, <1>4, ServerConn DEF IInv
  <1>10. QED
    BY <1>1, <1>3, <1>5, <1>8, <1>9, ServerStays

LEMMA ServerStep ==
    ASSUME IInv, Server
    PROVE  IInv'
  <1>1. TypeOK'
    BY ServerTypes
  <1>2. CASE StopThread \/ AnswerRequest
    BY <1>1, <1>2, AnswerStep
  <1>3. ASSUME NEW s \in call.todo,
               SetComponentParams(s) \/ QueueSegment(s) \/ TakeDown(s) \/ TakenDownIs(s)
                 \/ StopSegment(s) \/ SegmentStopped(s)
        PROVE  IInv'
    BY <1>1, <1>3, SetComponentParamsStep, QueueSegmentStep, TakeDownStep, TakenDownIsStep, StopStep
  <1>4. QED
    BY <1>2, <1>3 DEF Server

-------------------------------------------------------------------------------
(* A worker's thread. *)

ThreadAlone ==
    UNCHANGED <<queue, runner, executed, connected, requested, workers, completed, events,
                driver, call, faults>>

LEMMA ThreadFrame ==
    ASSUME NEW w, Thread(w)
    PROVE  ThreadAlone /\ KeepsClasses
  <1>1. ThreadAlone
    BY DEF Thread, ReportAccepted, ReportFailed, CheckComplete, StopFailed, EndThread,
         ThreadAlone, driver_vars, segment_vars, fault_vars
  <1>2. QED
    BY <1>1, SameClasses DEF ThreadAlone, segment_state

\* The runs that w has counted and the ones it has still to count.
LEMMA CountedRuns ==
    ASSUME IInv, NEW w \in Workers
    PROVE  /\ Cardinality(SegmentsOf(w)) \in Nat /\ checks[w] \in Nat /\ done[w] \in Nat
           /\ checks[w] + done[w] <= Cardinality(SegmentsOf(w))
           /\ checks[w] + done[w] = Cardinality(SegmentsOf(w)) => AllRan(w)
  <1>1. IsFiniteSet(SegmentsOf(w))
    <2>1. SegmentsOf(w) \subseteq Segments
      BY DEF SegmentsOf
    <2>2. QED
      BY <2>1, SegmentsAssumption, FS_Subset
  <1>2. RanOf(w) \subseteq SegmentsOf(w)
    BY DEF RanOf
  <1>3. Cardinality(SegmentsOf(w)) \in Nat /\ Cardinality(RanOf(w)) \in Nat
    BY <1>1, <1>2, FS_Subset, FS_CardinalityType
  <1>4. /\ Cardinality(RanOf(w)) <= Cardinality(SegmentsOf(w))
        /\ Cardinality(SegmentsOf(w)) = Cardinality(RanOf(w)) => SegmentsOf(w) = RanOf(w)
    BY <1>1, <1>2, FS_Subset
  <1>5. SegmentsOf(w) = RanOf(w) => AllRan(w)
    BY DEF RanOf, AllRan
  <1>6. checks[w] \in Nat /\ done[w] \in Nat /\ checks[w] + done[w] = Cardinality(RanOf(w))
    BY DEF IInv, TypeOK, CountInv
  <1>7. QED
    BY <1>3, <1>4, <1>5, <1>6

LEMMA CheckCompleteStep ==
    ASSUME IInv, TypeOK', NEW w \in Workers, CheckComplete(w)
    PROVE  IInv'
  <1> DEFINE all == Cardinality(SegmentsOf(w))
  <1>a. TypeOK /\ RanInv /\ CountInv /\ OnceInv
    BY DEF IInv
  <1>b. ThreadAlone /\ KeepsClasses
    BY ThreadFrame DEF Thread
  <1>1. /\ checks[w] \in Nat /\ done[w] \in Nat /\ all \in Nat /\ checks[w] > 0
        /\ checks[w] + done[w] <= all /\ (checks[w] + done[w] = all => AllRan(w))
    BY CountedRuns DEF CheckComplete
  <1>2. /\ checks'[w] = checks[w] - 1 /\ done'[w] = done[w] + 1
        /\ \A v \in Workers \ {w} : checks'[v] = checks[v] /\ done'[v] = done[v]
    BY <1>a DEF CheckComplete, TypeOK
  <1>3. /\ registration'[w] = "complete" => done'[w] = all
        /\ \A v \in Workers \ {w} : registration'[v] = registration[v] /\ report'[v] = report[v]
    BY <1>a DEF CheckComplete, Step, TypeOK
  <1>4. w \notin completed /\ completed' = completed
    <2> HIDE DEF all
    <2>1. done[w] # all
      BY <1>1
    <2>2. QED
      BY <2>1, <1>a, <1>b DEF OnceInv, ThreadAlone, all
  <1>5. registration'[w] = "complete" => AllRan(w)
    <2> HIDE DEF all
    <2>1. QED
      BY <1>1, <1>2, <1>3
  <1>6. RanInv'
    <2>1. ASSUME NEW v \in Workers, v \in completed' \/ registration'[v] = "complete"
          PROVE  AllRan(v)
      BY <2>1, <1>a, <1>3, <1>4, <1>5 DEF RanInv
    <2>2. QED
      BY <2>1, <1>b, AllRanKept DEF RanInv
  <1>7. CountInv'
    <2>1. \A v \in Workers : checks'[v] + done'[v] = checks[v] + done[v]
      BY <1>1, <1>2
    <2>2. \A v \in Workers : RanOf(v)' = RanOf(v)
      BY <1>b DEF RanOf, Ran, SegmentsOf, ThreadAlone
    <2>3. QED
      BY <2>1, <2>2, <1>a DEF CountInv
  <1>8. OnceInv'
    <2>1. \A v \in Workers : SegmentsOf(v)' = SegmentsOf(v)
      BY DEF SegmentsOf
    <2>2. QED
      BY <2>1, <1>a, <1>2, <1>3, <1>4 DEF OnceInv
  <1>9. QED
    BY <1>b, <1>6, <1>7, <1>8, SameControl DEF ThreadAlone

LEMMA ThreadStep ==
    ASSUME IInv, NEW w \in Workers, Thread(w)
    PROVE  IInv'
  <1>a. TypeOK' /\ ThreadAlone /\ KeepsClasses
    BY ThreadTypes, ThreadFrame
  <1>b. TypeOK /\ RanInv /\ CountInv /\ OnceInv
    BY DEF IInv
  <1>1. CASE CheckComplete(w)
    BY <1>1, <1>a, CheckCompleteStep
  <1>2. CASE ReportAccepted(w) \/ ReportFailed(w) \/ StopFailed(w) \/ EndThread(w)
    <2>1. UNCHANGED <<checks, done>>
      BY <1>2 DEF ReportAccepted, ReportFailed, StopFailed, EndThread
    <2>2. ASSUME NEW v \in Workers, registration'[v] = "complete"
          PROVE  registration[v] = "complete" /\ (report'[v] = "sent" => report[v] = "sent")
      BY <2>2, <1>2, <1>b DEF ReportAccepted, ReportFailed, StopFailed, EndThread, Step, TypeOK
    <2>3. RanInv' /\ CountInv' /\ OnceInv'
      BY <2>1, <2>2, <1>a, <1>b, RanKept, CountKept, OnceKept DEF ThreadAlone
    <2>4. QED
      BY <2>3, <1>a, SameControl DEF ThreadAlone
  <1>3. QED
    BY <1>1, <1>2 DEF Thread

-------------------------------------------------------------------------------
(* A segment's thread. *)

\* A run is executed once, and reported with it.
LEMMA RanGrows ==
    ASSUME TypeOK, NEW s \in Segments, Class(s), ExecuteSegment(s)
    PROVE  /\ runner[s] = "run" => ~Ran(s) /\ Ran(s)'
           /\ runner[s] # "run" => (Ran(s)' <=> Ran(s))
           /\ \A t \in Segments \ {s} : Ran(t)' <=> Ran(t)
  <1>1. Moves(s) /\ \A t \in Segments \ {s} : LeftAlone(t)
    BY ExecuteMoves
  <1>2. \A t \in Segments \ {s} : Ran(t)' <=> Ran(t)
    BY <1>1, AloneKept
  <1>3. ~Resting(s)
    BY DEF ExecuteSegment, Resting
  <1>4. QED
    BY <1>1, <1>2, <1>3, HistoriesDiffer DEF Moves, Rests, Busy, Ran, Ranks

LEMMA RunnerCounts ==
    ASSUME IInv, NEW s \in Segments, Runner(s)
    PROVE  CountInv'
  <1>a. TypeOK /\ Class(s) /\ CountInv
    BY DEF IInv, Shapes
  <1>1. CASE PopSegment(s)
    BY <1>1, <1>a, CountKept DEF PopSegment, worker_vars
  <1>2. CASE ExecuteSegment(s) /\ runner[s] # "run"
    <2>1. \A w \in Workers : RanOf(w)' = RanOf(w)
      BY <1>2, <1>a, RanGrows DEF RanOf, SegmentsOf
    <2>2. UNCHANGED <<checks, done>>
      BY <1>2 DEF ExecuteSegment
    <2>3. QED
      BY <2>1, <2>2, <1>a DEF CountInv
  <1>3. CASE ExecuteSegment(s) /\ runner[s] = "run"
    <2> DEFINE v == Worker[s]
    <2>1. /\ v \in Workers /\ checks \in [Workers -> Nat] /\ done \in [Workers -> Nat]
          /\ checks' = [checks EXCEPT ![v] = @ + 1] /\ done' = done
      BY <1>3, <1>a, SegmentsAssumption DEF ExecuteSegment, TypeOK
    <2>2. s \notin RanOf(v) /\ RanOf(v)' = RanOf(v) \cup {s}
      BY <1>3, <1>a, RanGrows DEF RanOf, SegmentsOf
    <2>3. \A w \in Workers \ {v} : RanOf(w)' = RanOf(w)
      BY <1>3, <1>a, RanGrows DEF RanOf, SegmentsOf
    <2>4. IsFiniteSet(RanOf(v))
      <3>1. RanOf(v) \subseteq Segments
        BY DEF RanOf, SegmentsOf
      <3>2. QED
        BY <3>1, SegmentsAssumption, FS_Subset
    <2>5. Cardinality(RanOf(v)') = Cardinality(RanOf(v)) + 1
      BY <2>2, <2>4, FS_AddElement
    <2> HIDE DEF v
    <2>6. checks'[v] + done'[v] = Cardinality(RanOf(v)')
      <3>1. checks[v] + done[v] = Cardinality(RanOf(v)) /\ checks[v] \in Nat /\ done[v] \in Nat
        BY <2>1, <1>a DEF CountInv
      <3>2. checks'[v] = checks[v] + 1 /\ done'[v] = done[v]
        BY <2>1
      <3>3. QED
        BY <3>1, <3>2, <2>5
    <2>7. ASSUME NEW w \in Workers \ {v} PROVE checks'[w] + done'[w] = Cardinality(RanOf(w)')
      BY <2>1, <2>3, <1>a DEF CountInv
    <2>8. QED
      BY <2>6, <2>7 DEF CountInv
  <1>4. QED
    BY <1>1, <1>2, <1>3 DEF Runner

LEMMA RunnerStep ==
    ASSUME IInv, NEW s \in Segments, Runner(s)
    PROVE  IInv'
  <1>1. TypeOK' /\ CountInv'
    BY RunnerTypes, RunnerCounts
  <1>2. KeepsClasses
    BY RunnerKeeps DEF IInv
  <1>3. UNCHANGED <<requested, workers, completed, events, driver, call, connected, faults,
                    registration, report, done>>
    BY DEF Runner, PopSegment, ExecuteSegment, driver_vars, worker_vars, fault_vars
  <1>4. RanInv' /\ OnceInv'
    BY <1>2, <1>3, RanKept, OnceKept DEF IInv
  <1>5. QED
    BY <1>1, <1>2, <1>3, <1>4, SameControl

-------------------------------------------------------------------------------
(* A request or an answer is lost. *)

LEMMA LoseStep ==
    ASSUME IInv, Lose
    PROVE  IInv'
  <1>a. TypeOK' /\ TypeOK
    BY LoseTypes DEF IInv
  <1>1. UNCHANGED <<queue, runner, executed, requested, workers, completed, events, driver,
                    registration, checks, done, connected>>
    BY DEF Lose, driver_vars, segment_vars
  <1>2. KeepsClasses
    BY <1>1, SameClasses DEF segment_state
  <1>3. faults' # 0
    BY <1>a DEF Lose, TypeOK
  <1>4. /\ SameCall /\ (call = NoCall => call' = NoCall) /\ CallInv'
        /\ \A v \in Workers : report'[v] = "sent" => report[v] = "sent"
    <2>1. CASE LoseOfDriver
      <3>1. call # NoCall /\ CallOK /\ call.at = None /\ call \in Calls
        BY <2>1, <1>a DEF LoseOfDriver, NoCall, IInv, CallInv, CallOK, TypeOK
      <3>2. call' = [call EXCEPT !.state = "failed"] /\ report' = report
        BY <2>1 DEF LoseOfDriver
      <3>3. SameCall /\ call'.state = "failed"
        BY <3>1, <3>2 DEF SameCall
      <3>4. CallOK'
        BY <3>1, <3>3, <1>1 DEF CallOK, SameCall, Asks, SegmentsOf
      <3>5. QED
        BY <3>1, <3>2, <3>3, <3>4 DEF CallInv
    <2>2. CASE LoseOfWorker
      <3>1. call' = call
        BY <2>2 DEF LoseOfWorker
      <3>2. \A v \in Workers : report'[v] = "sent" => report[v] = "sent"
        BY <2>2, <1>a DEF LoseOfWorker, TypeOK
      <3>3. QED
        BY <3>1, <3>2, <1>1, CallKept DEF SameCall, IInv
    <2>3. QED
      BY <2>1, <2>2 DEF Lose
  <1>5. Shapes' /\ Registered' /\ DriverInv'
    BY <1>1, <1>2, <1>4, ShapesKept, RegisteredKept, DriverKept DEF IInv
  <1>6. SegmentInv' /\ RanInv'
    BY <1>1, <1>2, <1>4, SegmentsKept, RanKept DEF IInv
  <1>7. BarrierInv'
    <2>1. TakingDown' => TakingDown
      BY <1>1 DEF TakingDown
    <2>2. QED
      BY <2>1, <1>1, <1>2, BarrierKept DEF IInv
  <1>8. CountInv' /\ OnceInv'
    BY <1>1, <1>4, CountKept, OnceKept DEF IInv
  <1>9. ConnInv'
    BY <1>3 DEF ConnInv
  <1>10. QED
    BY <1>a, <1>4, <1>5, <1>6, <1>7, <1>8, <1>9 DEF IInv

-------------------------------------------------------------------------------
(* The invariant holds. *)

LEMMA InitInv == Init => IInv
  <1> SUFFICES ASSUME Init PROVE IInv
    OBVIOUS
  <1>1. /\ requested = {} /\ workers = {} /\ completed = {} /\ events = V0
        /\ driver.event = "none" /\ driver.todo = {} /\ call = NoCall /\ connected = {}
        /\ \A w \in Workers : registration[w] = "register" /\ checks[w] = 0 /\ done[w] = 0
        /\ \A s \in Segments : runner[s] = "pop" /\ executed[s] = H0 /\ queue[s] = H0
    BY DEF Init, V0, H0
  <1>2. TypeOK
    <2>1. H0 \in Queues /\ H0 \in Histories
      BY DEF Queues, Histories
    <2>2. /\ queue \in [Segments -> Queues] /\ executed \in [Segments -> Histories]
          /\ runner \in [Segments -> RunnerStates]
      BY <2>1 DEF Init, H0, RunnerStates
    <2>3. call \in Calls
      BY <1>1, NoCallType
    <2>4. QED
      BY <1>1, <2>2, <2>3 DEF Init, TypeOK
  <1>3. \A s \in Segments : Fresh(s) /\ ~Ran(s)
    BY <1>1, HistoriesDiffer DEF Fresh, Rests, Resting, Ran, Ranks
  <1>4. Shapes /\ Registered
    BY <1>1, <1>3 DEF Shapes, Class, Registered
  <1>5. DriverInv /\ CallInv
    BY <1>1, EventTable DEF DriverInv, CallInv
  <1>6. SegmentInv
    BY <1>1, <1>3, ClassesDiffer DEF SegmentInv, SegmentOK, Unexecuted, Untaken, Called1, Called2,
         Called3, Called4, NoCall
  <1>7. RanInv /\ BarrierInv
    BY <1>1, <1>3, ClassesDiffer, EventTable DEF RanInv, BarrierInv, TakingDown
  <1>8. CountInv
    <2>1. \A w \in Workers : RanOf(w) = {}
      BY <1>3 DEF RanOf, SegmentsOf
    <2>2. QED
      BY <1>1, <2>1, FS_EmptySet DEF CountInv
  <1>9. OnceInv
    BY <1>1 DEF OnceInv
  <1>10. ConnInv
    BY <1>1, SegmentsAssumption DEF ConnInv, Unresolved, NoCall
  <1>11. QED
    BY <1>2, <1>4, <1>5, <1>6, <1>7, <1>8, <1>9, <1>10 DEF IInv

LEMMA StutterStep ==
    ASSUME IInv, UNCHANGED vars
    PROVE  IInv'
  <1>1. UNCHANGED <<requested, workers, completed, events, driver, call, registration, attempts,
                    report, checks, done, queue, runner, executed, connected, stopping, faults,
                    harmed>>
    BY DEF vars, driver_vars, worker_vars, segment_vars, fault_vars
  <1>2. KeepsClasses
    BY <1>1, SameClasses DEF segment_state
  <1>3. TypeOK' /\ RanInv' /\ CountInv' /\ OnceInv'
    BY <1>1, <1>2, RanKept, CountKept, OnceKept DEF IInv, TypeOK
  <1>4. QED
    BY <1>1, <1>2, <1>3, SameControl

LEMMA Inductive ==
    ASSUME IInv, [Next]_vars
    PROVE  IInv'
  <1>1. CASE Driver
    BY <1>1, DriverStep
  <1>2. CASE Server
    BY <1>2, ServerStep
  <1>3. CASE Lose
    BY <1>3, LoseStep
  <1>4. ASSUME NEW w \in Workers, HandleRegister(w) \/ HandleComplete(w) \/ Thread(w) PROVE IInv'
    BY <1>4, HandlerTypes, RegisterStep, CompleteStep, ThreadStep
  <1>5. ASSUME NEW s \in Segments, Runner(s) PROVE IInv'
    BY <1>5, RunnerStep
  <1>6. CASE UNCHANGED vars
    BY <1>6, StutterStep
  <1>7. QED
    BY <1>1, <1>2, <1>3, <1>4, <1>5, <1>6 DEF Next

\* The control of the driver, the requests and the segments stay what IInv says, whatever is
\* lost.
LEMMA AlwaysIInv == Spec => []IInv
  BY InitInv, Inductive, PTL DEF Spec

\* The variables have their types; in particular no thread of a segment ever executes anything
\* but activate, run, deactivate and destroy, once each and in this order (the deactivation is
\* missing when its request was lost), and never more than two events are queued with it.
THEOREM TypeCorrect == Spec => []TypeOK
  <1>1. IInv => TypeOK
    BY DEF IInv
  <1>2. QED
    BY <1>1, AlwaysIInv, PTL

\* A worker is accepted by onGraphWorkerComplete at most once, and only after all of its
\* segments have run; checkComplete never meets its "More segment-runner-complete event
\* received than actual segment runners".
CompletesOnce ==
    \A w \in Workers :
        /\ checks[w] + done[w] <= Cardinality(SegmentsOf(w))
        /\ registration[w] = "complete" \/ w \in completed => AllRan(w)
        /\ w \in completed => ~(registration[w] = "complete" /\ report[w] = "sent")

THEOREM WorkersCompleteOnce == Spec => []CompletesOnce
  <1>1. ASSUME IInv PROVE CompletesOnce
    <2>1. ASSUME NEW w \in Workers
          PROVE  /\ checks[w] + done[w] <= Cardinality(SegmentsOf(w))
                 /\ registration[w] = "complete" \/ w \in completed => AllRan(w)
                 /\ w \in completed => ~(registration[w] = "complete" /\ report[w] = "sent")
      BY <1>1, CountedRuns DEF IInv, RanInv, OnceInv
    <2>2. QED
      BY <2>1 DEF CompletesOnce
  <1>2. QED
    BY <1>1, AlwaysIInv, PTL

-------------------------------------------------------------------------------
(* The stages of the segments. *)

LEMMA StageTable ==
    \A s \in Segments : executed[s] \in Histories =>
        /\ Resting(s) /\ executed[s] = H0 => Stage(s) = "loaded"
        /\ runner[s] = "activate" /\ executed[s] = H0 => Stage(s) = "active"
        /\ Resting(s) /\ executed[s] = HA => Stage(s) = "active"
        /\ runner[s] = "run" /\ executed[s] = HA => Stage(s) = "running"
        /\ Resting(s) /\ executed[s] = HAR => Stage(s) = "ran"
        /\ runner[s] \in {"deactivate", "destroy"} => Stage(s) = "down"
        /\ executed[s] \in {HARD, HARX, HARDX} => Stage(s) = "down"
  <1> SUFFICES ASSUME NEW s \in Segments, executed[s] \in Histories
               PROVE  /\ Resting(s) /\ executed[s] = H0 => Stage(s) = "loaded"
                      /\ runner[s] = "activate" /\ executed[s] = H0 => Stage(s) = "active"
                      /\ Resting(s) /\ executed[s] = HA => Stage(s) = "active"
                      /\ runner[s] = "run" /\ executed[s] = HA => Stage(s) = "running"
                      /\ Resting(s) /\ executed[s] = HAR => Stage(s) = "ran"
                      /\ runner[s] \in {"deactivate", "destroy"} => Stage(s) = "down"
                      /\ executed[s] \in {HARD, HARX, HARDX} => Stage(s) = "down"
    OBVIOUS
  <1>1. /\ Executed(s, "activate") <=> executed[s] # H0
        /\ Executed(s, "run") <=> executed[s] \in Ranks
        /\ Executed(s, "deactivate") <=> executed[s] \in {HARD, HARDX}
        /\ Executed(s, "destroy") <=> executed[s] \in {HARX, HARDX}
    BY ExecutedTable
  <1>2. Resting(s) => runner[s] \notin {"activate", "run", "deactivate", "destroy"}
    BY DEF Resting
  <1>3. CASE executed[s] = H0
    <2>1. /\ ~Executed(s, "activate") /\ ~Executed(s, "run") /\ ~Executed(s, "deactivate")
          /\ ~Executed(s, "destroy") /\ executed[s] \notin {HA, HAR, HARD, HARX, HARDX}
      BY <1>1, <1>3, HistoriesDiffer DEF Ranks
    <2>2. QED
      BY <1>2, <1>3, <2>1 DEF Stage
  <1>4. CASE executed[s] = HA
    <2>1. /\ Executed(s, "activate") /\ ~Executed(s, "run") /\ ~Executed(s, "deactivate")
          /\ ~Executed(s, "destroy") /\ executed[s] \notin {H0, HAR, HARD, HARX, HARDX}
      BY <1>1, <1>4, HistoriesDiffer DEF Ranks
    <2>2. Resting(s) => Stage(s) = "active"
      BY <1>2, <2>1 DEF Stage
    <2>3. runner[s] = "run" => Stage(s) = "running"
      BY <2>1 DEF Stage
    <2>4. runner[s] \in {"deactivate", "destroy"} => Stage(s) = "down"
      BY DEF Stage
    <2>5. QED
      BY <1>4, <2>1, <2>2, <2>3, <2>4
  <1>5. CASE executed[s] = HAR
    <2>1. /\ Executed(s, "activate") /\ Executed(s, "run") /\ ~Executed(s, "deactivate")
          /\ ~Executed(s, "destroy") /\ executed[s] \notin {H0, HA, HARD, HARX, HARDX}
      BY <1>1, <1>5, HistoriesDiffer DEF Ranks
    <2>2. Resting(s) => Stage(s) = "ran"
      BY <1>2, <2>1 DEF Stage
    <2>3. runner[s] \in {"deactivate", "destroy"} => Stage(s) = "down"
      BY DEF Stage
    <2>4. QED
      BY <1>5, <2>1, <2>2, <2>3
  <1>6. CASE executed[s] \in {HARD, HARX, HARDX}
    <2>1. /\ Executed(s, "deactivate") \/ Executed(s, "destroy")
          /\ executed[s] \notin {H0, HA, HAR}
      BY <1>1, <1>6, HistoriesDiffer
    <2>2. Stage(s) = "down"
      BY <2>1 DEF Stage
    <2>3. QED
      BY <1>6, <2>1, <2>2
  <1>7. QED
    BY <1>3, <1>4, <1>5, <1>6 DEF Histories

LEMMA StageTableNext ==
    \A s \in Segments : executed'[s] \in Histories =>
        /\ Resting(s)' /\ executed'[s] = H0 => Stage(s)' = "loaded"
        /\ runner'[s] = "activate" /\ executed'[s] = H0 => Stage(s)' = "active"
        /\ Resting(s)' /\ executed'[s] = HA => Stage(s)' = "active"
        /\ runner'[s] = "run" /\ executed'[s] = HA => Stage(s)' = "running"
        /\ Resting(s)' /\ executed'[s] = HAR => Stage(s)' = "ran"
        /\ runner'[s] \in {"deactivate", "destroy"} => Stage(s)' = "down"
        /\ executed'[s] \in {HARD, HARX, HARDX} => Stage(s)' = "down"
  <1>1. (\A s \in Segments : executed[s] \in Histories =>
        /\ Resting(s) /\ executed[s] = H0 => Stage(s) = "loaded"
        /\ runner[s] = "activate" /\ executed[s] = H0 => Stage(s) = "active"
        /\ Resting(s) /\ executed[s] = HA => Stage(s) = "active"
        /\ runner[s] = "run" /\ executed[s] = HA => Stage(s) = "running"
        /\ Resting(s) /\ executed[s] = HAR => Stage(s) = "ran"
        /\ runner[s] \in {"deactivate", "destroy"} => Stage(s) = "down"
        /\ executed[s] \in {HARD, HARX, HARDX} => Stage(s) = "down")'
    BY StageTable, PTL
  <1>2. QED
    BY <1>1

\* Without lost requests nothing runs before it is connected.
LEMMA ConnectedNow ==
    ASSUME IInv
    PROVE  RunsConnected
  <1>1. SUFFICES ASSUME faults = 0, NEW s \in Segments, Stage(s) # "loaded"
                 PROVE  Sources \subseteq connected
    BY DEF RunsConnected
  <1>2. ~Fresh(s)
    BY <1>1, StageTable DEF IInv, TypeOK, Fresh, Rests
  <1>3. ~NotExecuted(Worker[s])
    BY <1>2 DEF IInv, SegmentInv, SegmentOK, Unexecuted
  <1>4. call.request # "SetComponentParams"
    BY <1>3 DEF IInv, CallInv, CallOK, Asks, NoCall, NotExecuted
  <1>5. ASSUME NEW t \in Sources PROVE t \in connected
    BY <1>1, <1>3, <1>4 DEF IInv, ConnInv, Unresolved, NotExecuted
  <1>6. QED
    BY <1>5

\* No segment is activated before the driver has given all transmitters their addresses
\* (resolveConnections before executeWorkers), unless something was lost.
THEOREM Connected == Spec => []RunsConnected
  BY ConnectedNow, AlwaysIInv, PTL

LEMMA RanStage ==
    ASSUME IInv, NEW s \in Segments, Ran(s)
    PROVE  Stage(s) \in {"ran", "down"}
  <1>1. Class(s) /\ executed[s] \in Histories
    BY DEF IInv, Shapes, TypeOK
  <1>2. CASE executed[s] = HAR
    <2>1. Resting(s) \/ runner[s] \in {"deactivate", "destroy"}
      BY <1>1, <1>2, HistoriesDiffer DEF Class, Fresh, AtActivate, AtRun, AtDeactivate, AtDestroy,
           Rests, Busy
    <2>2. QED
      BY <1>1, <1>2, <2>1, StageTable
  <1>3. CASE executed[s] \in {HARD, HARX, HARDX}
    BY <1>1, <1>3, StageTable
  <1>4. QED
    BY <1>2, <1>3 DEF Ran, Ranks

-------------------------------------------------------------------------------
(* The barriers. *)

Stages == [s \in Segments |-> Stage(s)]

LEMMA StageAlone ==
    ASSUME NEW s, UNCHANGED <<runner[s], executed[s]>>
    PROVE  Stage(s)' = Stage(s)
  BY DEF Stage, Executed

LEMMA AdvanceStages ==
    ASSUME NEW s \in Segments, NEW from, NEW to, Stage(s) = from, Stage(s)' = to,
           \A t \in Segments \ {s} : LeftAlone(t), requested' = requested
    PROVE  Barriers!Advance(s, from, to)
  <1>1. \A t \in Segments \ {s} : Stage(t)' = Stage(t)
    BY StageAlone DEF LeftAlone
  <1>2. Stages' = [Stages EXCEPT ![s] = to] /\ Stages[s] = from
    BY <1>1 DEF Stages
  <1>3. QED
    BY <1>2 DEF Barriers!Advance, Stages

LEMMA SameStage ==
    ASSUME NEW s \in Segments, Stage(s)' = Stage(s), \A t \in Segments \ {s} : LeftAlone(t)
    PROVE  UNCHANGED Stages
  <1>1. \A t \in Segments : Stage(t)' = Stage(t)
    BY StageAlone DEF LeftAlone
  <1>2. QED
    BY <1>1 DEF Stages

\* How a step of a segment's thread moves its stage.
StageMoves(s) ==
    \/ Stage(s)' = Stage(s)
    \/ Stage(s) = "loaded" /\ Stage(s)' = "active" /\ ~Fresh(s)
    \/ Stage(s) = "active" /\ Stage(s)' = "running"
    \/ Stage(s) = "running" /\ Stage(s)' = "ran"
    \/ Stage(s) = "ran" /\ Stage(s)' = "down" /\ (AtDeactivate(s) \/ AtDestroy(s))

LEMMA MovesStage ==
    ASSUME NEW s \in Segments, executed[s] \in Histories, executed'[s] \in Histories, Moves(s)
    PROVE  StageMoves(s)
  <1> USE DEF Rests, Busy
  <1>1. CASE Resting(s) /\ Resting(s)' /\ UNCHANGED <<executed[s], queue[s]>>
    <2>1. Stage(s)' = Stage(s)
      BY <1>1, StageTable, StageTableNext DEF Histories
    <2>2. QED
      BY <2>1 DEF StageMoves
  <1>2. CASE \/ Rests(s, H0, HA) /\ Busy(s, H0, "activate", H0)'
             \/ Rests(s, H0, HAR) /\ Busy(s, H0, "activate", QR)'
    <2>1. Stage(s) = "loaded" /\ Stage(s)' = "active"
      BY <1>2, StageTable, StageTableNext
    <2>2. ~Fresh(s)
      BY <1>2, HistoriesDiffer DEF Fresh
    <2>3. QED
      BY <2>1, <2>2 DEF StageMoves
  <1>3. CASE Rests(s, HA, QR) /\ Busy(s, HA, "run", H0)'
    <2>1. Stage(s) = "active" /\ Stage(s)' = "running"
      BY <1>3, StageTable, StageTableNext
    <2>2. QED
      BY <2>1 DEF StageMoves
  <1>4. CASE \/ Rests(s, HAR, QD) /\ Busy(s, HAR, "deactivate", H0)'
             \/ Rests(s, HAR, QX) /\ Busy(s, HAR, "destroy", H0)'
    <2>1. Stage(s) = "ran" /\ Stage(s)' = "down"
      BY <1>4, StageTable, StageTableNext
    <2>2. AtDeactivate(s) \/ AtDestroy(s)
      BY <1>4 DEF AtDeactivate, AtDestroy
    <2>3. QED
      BY <2>1, <2>2 DEF StageMoves
  <1>5. CASE \/ Busy(s, H0, "activate", H0) /\ Rests(s, HA, H0)'
             \/ Busy(s, H0, "activate", QR) /\ Rests(s, HA, QR)'
    <2>1. Stage(s) = "active" /\ Stage(s)' = "active"
      BY <1>5, StageTable, StageTableNext
    <2>2. QED
      BY <2>1 DEF StageMoves
  <1>6. CASE Busy(s, HA, "run", H0) /\ Rests(s, HAR, H0)'
    <2>1. Stage(s) = "running" /\ Stage(s)' = "ran"
      BY <1>6, StageTable, StageTableNext
    <2>2. QED
      BY <2>1 DEF StageMoves
  <1>7. CASE \/ Rests(s, HARD, QX) /\ Busy(s, HARD, "destroy", H0)'
             \/ Busy(s, HAR, "deactivate", H0) /\ Rests(s, HARD, H0)'
             \/ Busy(s, HAR, "destroy", H0) /\ Rests(s, HARX, H0)'
             \/ Busy(s, HARD, "destroy", H0) /\ Rests(s, HARDX, H0)'
    <2>1. Stage(s) = "down" /\ Stage(s)' = "down"
      BY <1>7, StageTable, StageTableNext
    <2>2. QED
      BY <2>1 DEF StageMoves
  <1>8. QED
    BY <1>1, <1>2, <1>3, <1>4, <1>5, <1>6, <1>7 DEF Moves

\* A segment's thread activates after the first barrier and takes down after the second.
LEMMA RunnerRefines ==
    ASSUME IInv, IInv', NEW s \in Segments, Runner(s)
    PROVE  Barriers!Next \/ UNCHANGED <<requested, Stages>>
  <1>1. /\ TypeOK /\ Class(s) /\ executed[s] \in Histories /\ executed'[s] \in Histories
    BY DEF IInv, Shapes, TypeOK
  <1>2. Moves(s) /\ \A t \in Segments \ {s} : LeftAlone(t)
    BY <1>1, PopMoves, ExecuteMoves DEF Runner
  <1>3. requested' = requested
    BY DEF Runner, PopSegment, ExecuteSegment, driver_vars
  <1>4. StageMoves(s)
    BY <1>1, <1>2, MovesStage
  <1>5. CASE Stage(s)' = Stage(s)
    BY <1>2, <1>3, <1>5, SameStage
  <1>6. CASE Stage(s) = "loaded" /\ Stage(s)' = "active" /\ ~Fresh(s)
    <2>1. requested = Segments
      BY <1>6 DEF IInv, SegmentInv, SegmentOK, Unexecuted, NotExecuted
    <2>2. Barriers!Advance(s, "loaded", "active")
      BY <1>2, <1>3, <1>6, AdvanceStages
    <2>3. QED
      BY <2>1, <2>2 DEF Barriers!Next, Barriers!Activate
  <1>7. CASE Stage(s) = "active" /\ Stage(s)' = "running"
    <2>1. Barriers!Advance(s, "active", "running")
      BY <1>2, <1>3, <1>7, AdvanceStages
    <2>2. QED
      BY <2>1 DEF Barriers!Next, Barriers!Run
  <1>8. CASE Stage(s) = "running" /\ Stage(s)' = "ran"
    <2>1. Barriers!Advance(s, "running", "ran")
      BY <1>2, <1>3, <1>8, AdvanceStages
    <2>2. QED
      BY <2>1 DEF Barriers!Next, Barriers!Finish
  <1>9. CASE Stage(s) = "ran" /\ Stage(s)' = "down" /\ (AtDeactivate(s) \/ AtDestroy(s))
    <2>1. \A t \in Segments : Stages[t] \in {"ran", "down"}
      BY <1>9, RanStage DEF IInv, BarrierInv, EachRan, Stages
    <2>2. Barriers!Advance(s, "ran", "down")
      BY <1>2, <1>3, <1>9, AdvanceStages
    <2>3. QED
      BY <2>1, <2>2 DEF Barriers!Next, Barriers!TakeDown, Stages
  <1>10. QED
    BY <1>4, <1>5, <1>6, <1>7, <1>8, <1>9 DEF StageMoves

LEMMA BarriersStep ==
    ASSUME IInv, IInv', [Next]_vars
    PROVE  Barriers!Next \/ UNCHANGED <<requested, Stages>>
  <1>1. ASSUME NEW s \in Segments, Runner(s)
        PROVE  Barriers!Next \/ UNCHANGED <<requested, Stages>>
    BY <1>1, RunnerRefines
  <1>2. UNCHANGED <<runner, executed>> => UNCHANGED Stages
    <2>1. UNCHANGED <<runner, executed>> => \A s \in Segments : Stage(s)' = Stage(s)
      BY StageAlone
    <2>2. QED
      BY <2>1 DEF Stages
  <1>3. CASE Driver \/ Server \/ Lose \/ UNCHANGED vars
    <2>1. UNCHANGED <<runner, executed, requested>>
      BY <1>3, DriverFrame, ServerFrame DEF DriverAlone, ServerAlone, Lose, vars, driver_vars, segment_vars
    <2>2. QED
      BY <2>1, <1>2
  <1>4. ASSUME NEW w \in Workers, HandleRegister(w) \/ HandleComplete(w) \/ Thread(w)
        PROVE  Barriers!Next \/ UNCHANGED <<requested, Stages>>
    <2>1. UNCHANGED <<runner, executed>>
      BY <1>4, HandlerFrame, ThreadFrame DEF HandlerAlone, ThreadAlone
    <2>2. requested' \in SUBSET Segments /\ requested \subseteq requested'
      BY <1>4, ThreadFrame DEF IInv, TypeOK, HandleRegister, HandleComplete, ThreadAlone, driver_vars
    <2>3. QED
      BY <2>1, <2>2, <1>2 DEF Barriers!Next, Barriers!Register, Stages
  <1>5. QED
    BY <1>1, <1>3, <1>4 DEF Next

LEMMA BarriersInit == Init => Barriers!Init
  <1> SUFFICES ASSUME Init PROVE Barriers!Init
    OBVIOUS
  <1>2. IInv
    BY InitInv
  <1>3. ASSUME NEW s \in Segments PROVE Stage(s) = "loaded"
    <2>1. Resting(s) /\ executed[s] = H0 /\ executed[s] \in Histories
      BY DEF Init, Resting, H0, Histories
    <2>2. QED
      BY <2>1, StageTable
  <1>4. requested = {}
    BY DEF Init
  <1>5. QED
    BY <1>3, <1>4 DEF Barriers!Init

\* Whatever is lost, the segments keep behind the two barriers of GraphBarriers: GraphDriver
\* and GraphWorker activate none before all segments are registered, and deactivate or destroy
\* none before all have run; each is activated, run and taken down at most once.
THEOREM RefinesBarriers == Spec => ImplementsBarriers
  <1>1. Init => Barriers!Init
    BY BarriersInit
  <1>2. IInv /\ IInv' /\ [Next]_vars => [Barriers!Next]_<<requested, Stages>>
    BY BarriersStep
  <1>3. QED
    BY <1>1, <1>2, AlwaysIInv, PTL DEF Spec, ImplementsBarriers, Barriers!Spec, Stages

-------------------------------------------------------------------------------
(* The answers to the requests that take segments down. *)

\* While the losses are made up for, no worker gives up, and the driver knows it
\* from the moment a registration is accepted.
WorkerFine(w) ==
    /\ registration[w] # "failing" /\ attempts[w] <= Retries
    /\ report[w] = "failed" => registration[w] = "register" /\ attempts[w] < Retries
    /\ w \in workers <=> ~(registration[w] = "register" /\ report[w] \in {"sent", "failed"})

\* No segment is stopped before the last event of the driver.
StopsLast == stopping \cap Segments # {} => driver.event \in {"StopWorkers", "gone"}

UnharmedInv == ~harmed => StopsLast /\ \A w \in Workers : WorkerFine(w)

LEMMA UnharmedKept ==
    ASSUME UnharmedInv, UNCHANGED <<registration, attempts, report, workers>>, harmed' = harmed,
           StopsLast => StopsLast'
    PROVE  UnharmedInv'
  BY DEF UnharmedInv, WorkerFine

LEMMA UnharmedDriver ==
    ASSUME IInv, UnharmedInv, Driver
    PROVE  UnharmedInv'
  <1>1. DriverAlone /\ stopping' = stopping
    BY DriverFrame DEF Driver, PopEvent, SendRequest, TakeAnswer, FinishEvent
  <1>2. driver.event \in {"StopWorkers", "gone"} => driver'.event \in {"StopWorkers", "gone"}
    <2>1. driver \in [event : Events \cup {"none", "gone"}, todo : SUBSET Workers]
      BY DEF IInv, TypeOK
    <2>2. CASE PopEvent
      BY <2>1, <2>2 DEF PopEvent
    <2>3. CASE SendRequest
      <3>1. PICK w \in Workers : driver' = [driver EXCEPT !.todo = @ \ {w}]
        BY <2>3 DEF SendRequest, IInv, TypeOK
      <3>2. QED
        BY <2>1, <3>1
    <2>4. CASE TakeAnswer
      BY <2>1, <2>4 DEF TakeAnswer
    <2>5. CASE FinishEvent
      BY <2>1, <2>5 DEF FinishEvent, Events
    <2>6. QED
      BY <2>2, <2>3, <2>4, <2>5 DEF Driver
  <1>3. QED
    BY <1>1, <1>2, UnharmedKept DEF DriverAlone, StopsLast

LEMMA UnharmedServer ==
    ASSUME IInv, UnharmedInv, Server
    PROVE  UnharmedInv'
  <1>1. ServerAlone /\ UNCHANGED <<attempts, harmed>>
    BY ServerFrame DEF Server, StopThread, AnswerRequest, SetComponentParams, QueueSegment,
       TakeDown, TakenDownIs, StopSegment, SegmentStopped, worker_vars, fault_vars
  <1>2. stopping' = stopping \/ (call.request = "StopWorker" /\ call.state = "sent")
    BY DEF Server, StopThread, AnswerRequest, SetComponentParams, QueueSegment, TakeDown,
       TakenDownIs, StopSegment, SegmentStopped, Handling
  <1>3. call.request = "StopWorker" /\ call.state = "sent" => driver.event = "StopWorkers"
    BY HandlingFacts DEF CallOK, Asks
  <1>4. QED
    BY <1>1, <1>2, <1>3, UnharmedKept DEF ServerAlone, StopsLast

LEMMA UnharmedHandler ==
    ASSUME IInv, UnharmedInv, NEW w \in Workers, HandleRegister(w) \/ HandleComplete(w)
    PROVE  UnharmedInv'
  <1>1. HandlerAlone /\ UNCHANGED <<attempts, harmed, stopping>>
    BY HandlerFrame DEF HandleRegister, HandleComplete, fault_vars
  <1>2. SUFFICES ASSUME ~harmed PROVE StopsLast' /\ \A v \in Workers : WorkerFine(v)'
    BY <1>1 DEF UnharmedInv
  <1>3. StopsLast /\ \A v \in Workers : WorkerFine(v)
    BY <1>2 DEF UnharmedInv
  <1>4. StopsLast'
    BY <1>1, <1>3 DEF StopsLast, HandlerAlone
  <1>5. report' = [report EXCEPT ![w] = "ok"] /\ workers' = workers \cup {w}
    <2>1. CASE HandleRegister(w)
      <3>1. w \notin workers
        BY <2>1, <1>3 DEF HandleRegister, WorkerFine
      <3>2. SegmentsOf(w) \cap requested = {}
        BY <3>1 DEF IInv, Registered, SegmentsOf
      <3>3. QED
        BY <2>1, <3>2 DEF HandleRegister
    <2>2. CASE HandleComplete(w)
      <3>1. w \in workers
        BY <2>2, <1>3 DEF HandleComplete, WorkerFine
      <3>2. QED
        BY <2>2, <3>1 DEF HandleComplete
    <2>3. QED
      BY <2>1, <2>2
  <1>6. report' \in [Workers -> {"none", "sent", "ok", "failed"}] /\ report'[w] = "ok"
        /\ \A v \in Workers \ {w} : report'[v] = report[v]
    BY <1>5 DEF IInv, TypeOK
  <1>7. UNCHANGED <<registration, attempts>>
    BY <1>1 DEF HandlerAlone
  <1>8. ASSUME NEW v \in Workers PROVE WorkerFine(v)'
    <2>1. WorkerFine(v)
      BY <1>3
    <2>2. CASE v = w
      BY <2>1, <2>2, <1>5, <1>6, <1>7 DEF WorkerFine
    <2>3. CASE v # w
      BY <2>1, <2>3, <1>5, <1>6, <1>7 DEF WorkerFine
    <2>4. QED
      BY <2>2, <2>3
  <1>9. QED
    BY <1>4, <1>8

LEMMA UnharmedThread ==
    ASSUME IInv, UnharmedInv, NEW w \in Workers, Thread(w)
    PROVE  UnharmedInv'
  <1>1. ThreadAlone /\ harmed' = harmed
    BY ThreadFrame DEF Thread, ReportAccepted, ReportFailed, CheckComplete, StopFailed, EndThread,
       fault_vars
  <1>2. SUFFICES ASSUME ~harmed PROVE StopsLast' /\ \A v \in Workers : WorkerFine(v)'
    BY <1>1 DEF UnharmedInv
  <1>3. StopsLast /\ \A v \in Workers : WorkerFine(v)
    BY <1>2 DEF UnharmedInv
  <1>4. /\ registration \in [Workers -> {"register", "pop", "complete", "failing", "gone"}]
        /\ report \in [Workers -> {"none", "sent", "ok", "failed"}]
        /\ attempts \in [Workers -> Nat] /\ Retries \in Nat
        /\ checks \in [Workers -> Nat] /\ done \in [Workers -> Nat]
    BY BoundsAssumption DEF IInv, TypeOK
  <1>5. WorkerFine(w)
    BY <1>3
  <1>6. ~StopFailed(w)
    BY <1>5 DEF StopFailed, WorkerFine
  <1>7. stopping' = stopping
    BY <1>6 DEF Thread, ReportAccepted, ReportFailed, CheckComplete, EndThread
  <1>8. StopsLast'
    BY <1>1, <1>3, <1>7 DEF StopsLast, ThreadAlone
  <1>9. \A v \in Workers \ {w} : UNCHANGED <<registration[v], report[v], attempts[v]>>
    BY <1>4, <1>6 DEF Thread, ReportAccepted, ReportFailed, CheckComplete, EndThread, Step
  <1>10. WorkerFine(w)'
    <2>1. CASE ReportAccepted(w) \/ EndThread(w)
      BY <2>1, <1>1, <1>4, <1>5 DEF ReportAccepted, EndThread, Step, WorkerFine, ThreadAlone
    <2>2. CASE ReportFailed(w)
      <3>1. registration[w] = "register" /\ attempts[w] < Retries
        BY <2>2, <1>5 DEF ReportFailed, WorkerFine
      <3>2. /\ registration'[w] = "register" /\ report'[w] = "sent"
            /\ attempts'[w] = attempts[w] + 1
        BY <3>1, <2>2, <1>4 DEF ReportFailed, Step
      <3>3. attempts'[w] <= Retries
        BY <3>1, <3>2, <1>4
      <3>4. QED
        BY <3>2, <3>3, <2>2, <1>1, <1>5 DEF ReportFailed, WorkerFine, ThreadAlone
    <2>3. CASE CheckComplete(w)
      <3>1. done[w] + 1 <= Cardinality(SegmentsOf(w)) /\ Cardinality(SegmentsOf(w)) \in Nat
        BY <2>3, <1>4, CountedRuns DEF CheckComplete
      <3>2. /\ registration[w] = "pop" /\ attempts' = attempts
            /\ registration'[w] \in {"pop", "complete"} /\ report'[w] \in {"sent", report[w]}
        BY <3>1, <2>3, <1>4 DEF CheckComplete, Step
      <3>3. QED
        BY <3>2, <1>1, <1>5 DEF WorkerFine, ThreadAlone
    <2>4. QED
      BY <2>1, <2>2, <2>3, <1>6 DEF Thread
  <1>11. \A v \in Workers \ {w} : WorkerFine(v)'
    BY <1>1, <1>3, <1>9 DEF WorkerFine, ThreadAlone
  <1>12. QED
    BY <1>8, <1>10, <1>11

LEMMA UnharmedLose ==
    ASSUME IInv, UnharmedInv, Lose
    PROVE  UnharmedInv'
  <1>1. UNCHANGED <<workers, driver, registration, attempts, stopping>>
    BY DEF Lose, driver_vars
  <1>2. SUFFICES ASSUME ~harmed' PROVE StopsLast' /\ \A v \in Workers : WorkerFine(v)'
    BY DEF UnharmedInv
  <1>3. ~harmed
    BY <1>2 DEF Lose, LoseOfDriver, LoseOfWorker
  <1>4. StopsLast /\ \A v \in Workers : WorkerFine(v)
    BY <1>3 DEF UnharmedInv
  <1>5. StopsLast'
    BY <1>1, <1>4 DEF StopsLast
  <1>6. CASE LoseOfDriver
    BY <1>1, <1>4, <1>5, <1>6 DEF LoseOfDriver, WorkerFine
  <1>7. CASE LoseOfWorker
    <2>1. PICK w \in Workers :
             /\ report[w] \in {"sent", "ok"}
             /\ report' = [report EXCEPT ![w] = "failed"]
             /\ harmed' = (harmed \/ registration[w] # "register" \/ report[w] = "ok"
                             \/ attempts[w] = Retries)
      BY <1>7 DEF LoseOfWorker
    <2>2. registration[w] = "register" /\ report[w] = "sent" /\ attempts[w] # Retries
      BY <2>1, <1>2
    <2>3. report'[w] = "failed" /\ \A v \in Workers \ {w} : report'[v] = report[v]
      BY <2>1 DEF IInv, TypeOK
    <2>4. attempts[w] < Retries
      <3>1. attempts[w] \in Nat /\ Retries \in Nat /\ attempts[w] <= Retries
        BY <1>4, BoundsAssumption DEF IInv, TypeOK, WorkerFine
      <3>2. QED
        BY <3>1, <2>2
    <2>5. WorkerFine(w)'
      BY <2>2, <2>3, <2>4, <1>1, <1>4 DEF WorkerFine
    <2>6. \A v \in Workers \ {w} : WorkerFine(v)'
      BY <2>3, <1>1, <1>4 DEF WorkerFine
    <2>7. QED
      BY <2>5, <2>6, <1>5
  <1>8. QED
    BY <1>6, <1>7 DEF Lose

LEMMA UnharmedStep ==
    ASSUME IInv, UnharmedInv, [Next]_vars
    PROVE  UnharmedInv'
  <1>1. CASE Driver \/ Server \/ Lose
    BY <1>1, UnharmedDriver, UnharmedServer, UnharmedLose
  <1>2. ASSUME NEW w \in Workers, HandleRegister(w) \/ HandleComplete(w) \/ Thread(w)
        PROVE  UnharmedInv'
    BY <1>2, UnharmedHandler, UnharmedThread
  <1>3. CASE (\E s \in Segments : Runner(s)) \/ UNCHANGED vars
    <2>1. UNCHANGED <<registration, attempts, report, workers, harmed, stopping, driver>>
      BY <1>3 DEF Runner, PopSegment, ExecuteSegment, vars, driver_vars, worker_vars, fault_vars
    <2>2. QED
      BY <2>1, UnharmedKept DEF StopsLast
  <1>4. QED
    BY <1>1, <1>2, <1>3 DEF Next

LEMMA UnharmedInit == Init => UnharmedInv
  BY BoundsAssumption DEF Init, UnharmedInv, WorkerFine, StopsLast

LEMMA StoppedLast ==
    ASSUME IInv, UnharmedInv
    PROVE  TakeDownAnswered
  <1>1. SUFFICES ASSUME ~harmed, call.request \in {"DeactivateSegments", "DestroySegments"},
                        call.at # None
                 PROVE  call.at \notin stopping
    BY DEF TakeDownAnswered, TakenDown
  <1>2. CallOK /\ driver.event = "DeactivateWorkers"
    BY <1>1 DEF IInv, CallInv, CallOK, Asks, NoCall
  <1>3. call.at \in Segments
    BY <1>1, <1>2 DEF CallOK, SegmentsOf
  <1>4. QED
    BY <1>1, <1>2, <1>3 DEF UnharmedInv, StopsLast

\* Unless a loss cannot be made up for, a worker that waits for the end of a segment
\* (onDeactivateSegments, onDestroySegments) waits for an item that is executed: no thread of a
\* segment has a stop signal before the driver stops the workers.
THEOREM EachTakeDownAnswered == Spec => []TakeDownAnswered
  <1>1. Spec => []UnharmedInv
    BY AlwaysIInv, UnharmedInit, UnharmedStep, PTL DEF Spec
  <1>2. QED
    BY <1>1, AlwaysIInv, StoppedLast, PTL
================================================================================
