----------------------------- MODULE ProgramProofs -----------------------------
(***************************************************************************)
(* Part 1, for all entities, threads and codelets: the types of            *)
(* EntityExecutor, and, where deactivate does not come between the address *)
(* of an item and its lock, that every codelet is called in the order      *)
(* codelet.hpp promises, that a deactivated entity has no codelet left     *)
(* started, and that the first tick is counted as the first.               *)
(*                                                                         *)
(* The invariant says what the status of an item tells of its codelets:    *)
(* Settled while nobody has execution_mutex_, Holds for the step the       *)
(* thread that has it is at.  A thread changes only what its lock covers,  *)
(* so the other entities keep theirs (OthersKeep).                         *)
(*                                                                         *)
(* Part 2, for all entities, workers and callers, where only the caller    *)
(* that runs the graph waits for it: no worker is left with a freed item,  *)
(* codelets are called only while their entity is initialized, state_      *)
(* tells whether the scheduler runs, and nothing is left of a graph that   *)
(* is back at ORIGIN.                                                      *)
(*                                                                         *)
(* The invariant says, for each step Main may be at, which entities have   *)
(* been activated (Phase); that the scheduler runs only between runAsync   *)
(* and the end of wait (RunPhase); and that only a running scheduler has   *)
(* workers with an item (WorkersRun), and only a deactivation has a caller *)
(* with one (MainDeactivates).                                             *)
(***************************************************************************)
EXTENDS Program, TLAPS

-------------------------------------------------------------------------------
(* Part 1: EntityExecutor. *)

AllStarted(e) == ~failed[e] /\ started[e] = Codelets(e)

\* The entities FirstTickIsCounted is about.
Counts(e) == e \in Controlled => NumCodelets[e] = 1
SameCount(e) == Counts(e) => \A i \in Codelets(e) : ticked[e][i] = executions[e]

Ready == {"STARTED", "IDLE"}
Unstarted == {"NOT_STARTED", "START_PENDING"}

Settled(e) ==
    /\ status[e] \in Ready \union Unstarted
    /\ status[e] = "NOT_STARTED" => failed[e] \/ started[e] = {}
    /\ status[e] = "START_PENDING" => failed[e]
    /\ status[e] \in Ready => AllStarted(e) /\ SameCount(e)

\* At the loop over the codelets in start, tick and stop.
Starting(e, t) ==
    /\ status[e] = "START_PENDING"
    /\ IF failed[e] THEN codelet[t] = 1 ELSE started[e] = 1 .. (codelet[t] - 1)
    /\ executions[e] = 0
    /\ \A i \in Codelets(e) : i < codelet[t] => ticked[e][i] = 0

Ticking(e, t) ==
    /\ status[e] = "TICKING"
    /\ AllStarted(e)
    /\ Counts(e) => \A i \in Codelets(e) :
                        executions[e] = IF i < codelet[t] THEN ticked[e][i] ELSE Once(ticked[e][i])

Stopping(e, t) ==
    /\ status[e] = "STOP_PENDING"
    /\ ~failed[e] /\ started[e] = codelet[t] .. NumCodelets[e]

Controlling(e, t) ==
    /\ status[e] \in {"TICK_PENDING", "TICKING", "IDLE"}
    /\ AllStarted(e)
    /\ code[t] = "success" => status[e] = "IDLE"
    /\ code[t] = "success" \/ e \in Controlled => SameCount(e)

Holds(e, t) ==
    /\ pc[t] = "start" => Starting(e, t)
    /\ pc[t] = "check" => status[e] \in Ready /\ AllStarted(e) /\ SameCount(e)
    /\ pc[t] = "sync" => status[e] = "TICK_PENDING" /\ AllStarted(e) /\ SameCount(e)
    /\ pc[t] = "tick" => Ticking(e, t)
    /\ pc[t] = "control" => Controlling(e, t)
    /\ pc[t] = "stop" => Stopping(e, t)

EntityOK(e) ==
    /\ lock[e] = None => Settled(e)
    /\ lock[e] # None => /\ item[lock[e]] = e /\ pc[lock[e]] \in Locked
                         /\ Holds(e, lock[e])

\* A thread in its call has its entity for itself among the threads of its kind.
CallsApart ==
    /\ \A t \in Threads : pc[t] = "idle" => item[t] = None
    /\ \A t, u \in Workers : item[t] = item[u] /\ item[t] # None => t = u
    /\ \A t, u \in Callers : item[t] = item[u] /\ item[t] # None => t = u
    /\ \A c \in Callers : item[c] \notin items

LocksHeld == \A t \in Threads : pc[t] \in Locked => lock[item[t]] = t

\* Whoever waits for the lock in executeEntity will find the item as he has seen it.
Awaited ==
    \A w \in Workers :
        /\ pc[w] \in {"fetched", "locking"} => item[w] \in items
        /\ pc[w] = "locking" => status[item[w]] \in Ready \union {"NOT_STARTED"}

\* Nobody is in an item that is freed, or was.
Left(e) == lock[e] = None /\ status[e] \in Unstarted
ItemsLeft ==
    /\ \A c \in Callers : pc[c] = "free" => Left(item[c])
    /\ \A e \in Entities : Deactivated(e) => Left(e)

IInv ==
    /\ TypeOK /\ CallsApart /\ LocksHeld /\ Awaited /\ ItemsLeft
    /\ \A e \in Entities : EntityOK(e)


(* -- Types ---------------------------------------------------------------*)

USE CodeletsAssumption, NoneAssumption, ThreadsAssumption, RepeatAssumption

\* TypeOK in parts.
Few == 0 .. 2
Repeats == 0 .. MaxRepeatCount + 1

ItemTypes ==
    /\ items \in SUBSET Entities
    /\ status \in [Entities -> Status]
    /\ lock \in [Entities -> Threads \union {None}]
    /\ executions \in [Entities -> Few]
    /\ repeat_count \in [Entities -> Repeats]

CodeletTypes ==
    /\ DOMAIN started = Entities /\ \A e \in Entities : started[e] \in SUBSET Codelets(e)
    /\ failed \in [Entities -> BOOLEAN]
    /\ DOMAIN ticked = Entities /\ \A e \in Entities : ticked[e] \in [Codelets(e) -> Few]

StepTypes ==
    /\ pc \in [Threads -> WorkerSteps \union CallerSteps]
    /\ \A t \in Workers : pc[t] \in WorkerSteps
    /\ \A t \in Callers : pc[t] \in CallerSteps

CallTypes ==
    /\ item \in [Threads -> Entities \union {None}]
    /\ codelet \in [Threads -> Nat]
    /\ code \in [Threads -> Code]
    /\ result \in [Threads -> Result]

CallSteps ==
    \A t \in Threads :
        /\ pc[t] # "idle" => item[t] \in Entities
        /\ pc[t] \in {"start", "tick", "stop"} => codelet[t] \in Codelets(item[t])

LEMMA TypeParts == TypeOK <=> ItemTypes /\ CodeletTypes /\ StepTypes /\ CallTypes /\ CallSteps
BY DEF TypeOK, ItemTypes, CodeletTypes, StepTypes, CallTypes, CallSteps, Few, Repeats

LEMMA StatusNames ==
    /\ "NOT_STARTED" \in Status /\ "START_PENDING" \in Status /\ "STARTED" \in Status
    /\ "TICK_PENDING" \in Status /\ "TICKING" \in Status /\ "IDLE" \in Status
    /\ "STOP_PENDING" \in Status
BY DEF Status

LEMMA CodeNames == "success" \in Code /\ "not finished" \in Code /\ "failure" \in Code
BY DEF Code

LEMMA ResultNames ==
    /\ "ready" \in Result /\ "wait" \in Result /\ "never" \in Result
    /\ "given up" \in Result /\ "error" \in Result
BY DEF Result

LEMMA StepNames ==
    /\ "start" \in WorkerSteps /\ "check" \in WorkerSteps /\ "sync" \in WorkerSteps
    /\ "tick" \in WorkerSteps /\ "control" \in WorkerSteps /\ "stop" \in WorkerSteps
    /\ "idle" \in WorkerSteps /\ "fetched" \in WorkerSteps /\ "locking" \in WorkerSteps
    /\ "monitor" \in WorkerSteps /\ "dangling" \in WorkerSteps
    /\ "idle" \in CallerSteps /\ "deactivating" \in CallerSteps /\ "stop" \in CallerSteps
    /\ "free" \in CallerSteps
BY DEF WorkerSteps, CallerSteps, Locked

LEMMA CodeletsNat ==
    ASSUME NEW e \in Entities
    PROVE  NumCodelets[e] \in Nat /\ NumCodelets[e] >= 1 /\ 1 \in Codelets(e)
BY DEF Codelets

LEMMA Ranges ==
    /\ 0 \in Few /\ \A n \in Few : Once(n) \in Few /\ Once(n) # 0
    /\ 0 \in Repeats /\ MaxRepeatCount + 1 \in Repeats
    /\ \A n \in Repeats : n < MaxRepeatCount => n + 1 \in Repeats
BY DEF Few, Repeats, Once

LEMMA TypeInit == Init => TypeOK
<1> SUFFICES ASSUME Init PROVE TypeOK
    OBVIOUS
<1>1. ItemTypes
    BY StatusNames, Ranges DEF Init, ItemTypes
<1>2. CodeletTypes
    BY Ranges DEF Init, CodeletTypes
<1>3. StepTypes
    BY StepNames DEF Init, StepTypes, Threads
<1>4. CallTypes
    BY CodeNames, ResultNames DEF Init, CallTypes, Threads
<1>5. CallSteps
    BY DEF Init, CallSteps
<1> QED
    BY <1>1, <1>2, <1>3, <1>4, <1>5, TypeParts

\* More codelets follow, or this is the last one.
LEMMA NextCodelet ==
    ASSUME TypeOK, NEW t \in Threads, pc[t] \in {"start", "tick", "stop"}
    PROVE  /\ item[t] \in Entities /\ codelet[t] \in Codelets(item[t]) /\ codelet[t] \in Nat
           /\ More(t) => codelet[t] + 1 \in Codelets(item[t]) /\ codelet[t] + 1 \in Nat
           /\ ~More(t) => codelet[t] = NumCodelets[item[t]]
BY DEF TypeOK, More, Codelets

LEMMA TypeStep == TypeOK /\ [Next]_vars => TypeOK'
<1> SUFFICES ASSUME TypeOK, [Next]_vars PROVE TypeOK'
    OBVIOUS
<1>a. ItemTypes
    BY TypeParts
<1>b. CodeletTypes
    BY TypeParts
<1>c. StepTypes
    BY TypeParts
<1>d. CallTypes
    BY TypeParts
<1>e. CallSteps
    BY TypeParts
<1>1. ASSUME NEW t \in Workers, CheckStatus(t) PROVE TypeOK'
  <2>0. t \in Threads /\ item[t] \in Entities /\ 1 \in Codelets(item[t]) /\ 1 \in Nat
    BY <1>d, <1>e, <1>1, CodeletsNat DEF Threads, CallSteps, CheckStatus
  <2>1. ItemTypes'
    <3>0. items' \in SUBSET Entities
      BY <1>a, <1>1, <2>0 DEF ItemTypes, CheckStatus, Goto, Return, item_vars, codelets
    <3>1. status' \in [Entities -> Status]
      BY <1>a, <1>1, <2>0, StatusNames DEF ItemTypes, CheckStatus, Goto, Return, item_vars, codelets
    <3>2. lock' \in [Entities -> Threads \union {None}]
      BY <1>a, <1>1, <2>0 DEF ItemTypes, CheckStatus, Goto, Return, item_vars, codelets
    <3>3. executions' \in [Entities -> Few]
      BY <1>a, <1>1, <2>0, Ranges DEF ItemTypes, CheckStatus, Goto, Return, item_vars, codelets
    <3>4. repeat_count' \in [Entities -> Repeats]
      BY <1>a, <1>1, <2>0, Ranges DEF ItemTypes, CheckStatus, Goto, Return, item_vars, codelets
    <3> QED
      BY <3>0, <3>1, <3>2, <3>3, <3>4 DEF ItemTypes
  <2>2. CodeletTypes'
    BY <1>b, Ranges, <1>1, <2>0 DEF CodeletTypes, CheckStatus, Goto, Return, item_vars, codelets
  <2>3. StepTypes'
    BY <1>c, StepNames, <1>1, <2>0 DEF StepTypes, CheckStatus, Goto, Return, item_vars, codelets, Threads
  <2>4. CallTypes'
    <3>1. item' \in [Threads -> Entities \union {None}] /\ codelet' \in [Threads -> Nat]
      BY <1>d, <1>1, <2>0 DEF CallTypes, CheckStatus, Goto, Return, item_vars, codelets
    <3>2. code' \in [Threads -> Code]
      BY <1>d, <1>1, <2>0, CodeNames DEF CallTypes, CheckStatus, Goto, Return, item_vars, codelets
    <3>3. result' \in [Threads -> Result]
      BY <1>d, <1>1, <2>0, ResultNames DEF CallTypes, CheckStatus, Goto, Return, item_vars, codelets
    <3> QED
      BY <3>1, <3>2, <3>3 DEF CallTypes
  <2>5. CallSteps'
    <3> SUFFICES ASSUME NEW u \in Threads
                 PROVE  /\ pc'[u] # "idle" => item'[u] \in Entities
                        /\ pc'[u] \in {"start", "tick", "stop"} => codelet'[u] \in Codelets(item'[u])
      BY DEF CallSteps
    <3>1. CASE u = t
      BY <1>c, <1>d, <1>e, <1>1, <2>0, <3>1 DEF CallSteps, StepTypes, CallTypes, CheckStatus, Goto, Return, item_vars, codelets
    <3>2. CASE u # t
      BY <1>c, <1>d, <1>e, <1>1, <2>0, <3>2 DEF CallSteps, StepTypes, CallTypes, CheckStatus, Goto, Return, item_vars, codelets
    <3> QED
      BY <3>1, <3>2
  <2> QED
    BY <2>1, <2>2, <2>3, <2>4, <2>5, TypeParts DEF TypeOK, ItemTypes, CodeletTypes, StepTypes, CallTypes, CallSteps,
       Few, Repeats
<1>2. ASSUME NEW t \in Workers, ExecuteLock(t) PROVE TypeOK'
  <2>0. t \in Threads /\ item[t] \in Entities /\ 1 \in Codelets(item[t]) /\ 1 \in Nat
    BY <1>d, <1>e, <1>2, CodeletsNat DEF Threads, CallSteps, ExecuteLock
  <2>1. ItemTypes'
    <3>0. items' \in SUBSET Entities
      BY <1>a, <1>2, <2>0 DEF ItemTypes, ExecuteLock, Goto, SetStatus, codelets
    <3>1. status' \in [Entities -> Status]
      BY <1>a, <1>2, <2>0, StatusNames DEF ItemTypes, ExecuteLock, Goto, SetStatus, codelets
    <3>2. lock' \in [Entities -> Threads \union {None}]
      BY <1>a, <1>2, <2>0 DEF ItemTypes, ExecuteLock, Goto, SetStatus, codelets
    <3>3. executions' \in [Entities -> Few]
      BY <1>a, <1>2, <2>0, Ranges DEF ItemTypes, ExecuteLock, Goto, SetStatus, codelets
    <3>4. repeat_count' \in [Entities -> Repeats]
      BY <1>a, <1>2, <2>0, Ranges DEF ItemTypes, ExecuteLock, Goto, SetStatus, codelets
    <3> QED
      BY <3>0, <3>1, <3>2, <3>3, <3>4 DEF ItemTypes
  <2>2. CodeletTypes'
    BY <1>b, Ranges, <1>2, <2>0 DEF CodeletTypes, ExecuteLock, Goto, SetStatus, codelets
  <2>3. StepTypes'
    BY <1>c, StepNames, <1>2, <2>0 DEF StepTypes, ExecuteLock, Goto, SetStatus, codelets, Threads
  <2>4. CallTypes'
    <3>1. item' \in [Threads -> Entities \union {None}] /\ codelet' \in [Threads -> Nat]
      BY <1>d, <1>2, <2>0 DEF CallTypes, ExecuteLock, Goto, SetStatus, codelets
    <3>2. code' \in [Threads -> Code]
      BY <1>d, <1>2, <2>0, CodeNames DEF CallTypes, ExecuteLock, Goto, SetStatus, codelets
    <3>3. result' \in [Threads -> Result]
      BY <1>d, <1>2, <2>0, ResultNames DEF CallTypes, ExecuteLock, Goto, SetStatus, codelets
    <3> QED
      BY <3>1, <3>2, <3>3 DEF CallTypes
  <2>5. CallSteps'
    <3> SUFFICES ASSUME NEW u \in Threads
                 PROVE  /\ pc'[u] # "idle" => item'[u] \in Entities
                        /\ pc'[u] \in {"start", "tick", "stop"} => codelet'[u] \in Codelets(item'[u])
      BY DEF CallSteps
    <3>1. CASE u = t
      BY <1>c, <1>d, <1>e, <1>2, <2>0, <3>1 DEF CallSteps, StepTypes, CallTypes, ExecuteLock, Goto, SetStatus, codelets
    <3>2. CASE u # t
      BY <1>c, <1>d, <1>e, <1>2, <2>0, <3>2 DEF CallSteps, StepTypes, CallTypes, ExecuteLock, Goto, SetStatus, codelets
    <3> QED
      BY <3>1, <3>2
  <2> QED
    BY <2>1, <2>2, <2>3, <2>4, <2>5, TypeParts DEF TypeOK, ItemTypes, CodeletTypes, StepTypes, CallTypes, CallSteps,
       Few, Repeats
<1>3. ASSUME NEW t \in Workers, StartCodelet(t) PROVE TypeOK'
  <2>0. t \in Threads /\ item[t] \in Entities /\ codelet[t] \in Codelets(item[t])
        /\ (More(t) => codelet[t] + 1 \in Codelets(item[t]) /\ codelet[t] + 1 \in Nat)
    BY <1>3, NextCodelet DEF Threads, StartCodelet
  <2>1. ItemTypes'
    <3>0. items' \in SUBSET Entities
      BY <1>a, <1>3, <2>0 DEF ItemTypes, StartCodelet, Goto, SetStatus, Leave, Unlock, Return
    <3>1. status' \in [Entities -> Status]
      BY <1>a, <1>3, <2>0, StatusNames DEF ItemTypes, StartCodelet, Goto, SetStatus, Leave, Unlock, Return
    <3>2. lock' \in [Entities -> Threads \union {None}]
      BY <1>a, <1>3, <2>0 DEF ItemTypes, StartCodelet, Goto, SetStatus, Leave, Unlock, Return
    <3>3. executions' \in [Entities -> Few]
      BY <1>a, <1>3, <2>0, Ranges DEF ItemTypes, StartCodelet, Goto, SetStatus, Leave, Unlock, Return
    <3>4. repeat_count' \in [Entities -> Repeats]
      BY <1>a, <1>3, <2>0, Ranges DEF ItemTypes, StartCodelet, Goto, SetStatus, Leave, Unlock, Return
    <3> QED
      BY <3>0, <3>1, <3>2, <3>3, <3>4 DEF ItemTypes
  <2>2. CodeletTypes'
    <3>1. 0 \in Few
      BY <1>b, <2>0, Ranges DEF CodeletTypes
    <3>2. ticked' = [ticked EXCEPT ![item[t]][codelet[t]] = 0]
      BY <1>3 DEF StartCodelet
    <3>3. DOMAIN ticked' = Entities /\ \A f \in Entities : ticked'[f] \in [Codelets(f) -> Few]
      BY <1>b, <2>0, <3>1, <3>2 DEF CodeletTypes
    <3>4. DOMAIN started' = Entities /\ \A f \in Entities : started'[f] \in SUBSET Codelets(f)
      BY <1>b, <1>3, <2>0 DEF CodeletTypes, StartCodelet
    <3>5. failed' \in [Entities -> BOOLEAN]
      BY <1>b, <1>3, <2>0 DEF CodeletTypes, StartCodelet
    <3> QED
      BY <3>3, <3>4, <3>5 DEF CodeletTypes
  <2>3. StepTypes'
    BY <1>c, StepNames, <1>3, <2>0 DEF StepTypes, StartCodelet, Goto, SetStatus, Leave, Unlock, Return, Threads
  <2>4. CallTypes'
    <3>1. item' \in [Threads -> Entities \union {None}] /\ codelet' \in [Threads -> Nat]
      BY <1>d, <1>3, <2>0 DEF CallTypes, StartCodelet, Goto, SetStatus, Leave, Unlock, Return
    <3>2. code' \in [Threads -> Code]
      BY <1>d, <1>3, <2>0, CodeNames DEF CallTypes, StartCodelet, Goto, SetStatus, Leave, Unlock, Return
    <3>3. result' \in [Threads -> Result]
      BY <1>d, <1>3, <2>0, ResultNames DEF CallTypes, StartCodelet, Goto, SetStatus, Leave, Unlock, Return
    <3> QED
      BY <3>1, <3>2, <3>3 DEF CallTypes
  <2>5. CallSteps'
    <3> SUFFICES ASSUME NEW u \in Threads
                 PROVE  /\ pc'[u] # "idle" => item'[u] \in Entities
                        /\ pc'[u] \in {"start", "tick", "stop"} => codelet'[u] \in Codelets(item'[u])
      BY DEF CallSteps
    <3>1. CASE u = t
      BY <1>c, <1>d, <1>e, <1>3, <2>0, <3>1 DEF CallSteps, StepTypes, CallTypes, StartCodelet, Goto, SetStatus, Leave, Unlock, Return
    <3>2. CASE u # t
      BY <1>c, <1>d, <1>e, <1>3, <2>0, <3>2 DEF CallSteps, StepTypes, CallTypes, StartCodelet, Goto, SetStatus, Leave, Unlock, Return
    <3> QED
      BY <3>1, <3>2
  <2> QED
    BY <2>1, <2>2, <2>3, <2>4, <2>5, TypeParts DEF TypeOK, ItemTypes, CodeletTypes, StepTypes, CallTypes, CallSteps,
       Few, Repeats
<1>4. ASSUME NEW t \in Workers, Check(t) PROVE TypeOK'
  <2>0. t \in Threads /\ item[t] \in Entities /\ 1 \in Codelets(item[t]) /\ 1 \in Nat
    BY <1>d, <1>e, <1>4, CodeletsNat DEF Threads, CallSteps, Check
  <2>1. ItemTypes'
    <3>0. items' \in SUBSET Entities
      BY <1>a, <1>4, <2>0 DEF ItemTypes, Check, Goto, SetStatus, Leave, Unlock, Return, BeginStop, codelets
    <3>1. status' \in [Entities -> Status]
      BY <1>a, <1>4, <2>0, StatusNames DEF ItemTypes, Check, Goto, SetStatus, Leave, Unlock, Return, BeginStop, codelets
    <3>2. lock' \in [Entities -> Threads \union {None}]
      BY <1>a, <1>4, <2>0 DEF ItemTypes, Check, Goto, SetStatus, Leave, Unlock, Return, BeginStop, codelets
    <3>3. executions' \in [Entities -> Few]
      BY <1>a, <1>4, <2>0, Ranges DEF ItemTypes, Check, Goto, SetStatus, Leave, Unlock, Return, BeginStop, codelets
    <3>4. repeat_count' \in [Entities -> Repeats]
      BY <1>a, <1>4, <2>0, Ranges DEF ItemTypes, Check, Goto, SetStatus, Leave, Unlock, Return, BeginStop, codelets
    <3> QED
      BY <3>0, <3>1, <3>2, <3>3, <3>4 DEF ItemTypes
  <2>2. CodeletTypes'
    BY <1>b, Ranges, <1>4, <2>0 DEF CodeletTypes, Check, Goto, SetStatus, Leave, Unlock, Return, BeginStop, codelets
  <2>3. StepTypes'
    BY <1>c, StepNames, <1>4, <2>0 DEF StepTypes, Check, Goto, SetStatus, Leave, Unlock, Return, BeginStop, codelets, Threads
  <2>4. CallTypes'
    <3>1. item' \in [Threads -> Entities \union {None}] /\ codelet' \in [Threads -> Nat]
      BY <1>d, <1>4, <2>0 DEF CallTypes, Check, Goto, SetStatus, Leave, Unlock, Return, BeginStop, codelets
    <3>2. code' \in [Threads -> Code]
      BY <1>d, <1>4, <2>0, CodeNames DEF CallTypes, Check, Goto, SetStatus, Leave, Unlock, Return, BeginStop, codelets
    <3>3. result' \in [Threads -> Result]
      BY <1>d, <1>4, <2>0, ResultNames DEF CallTypes, Check, Goto, SetStatus, Leave, Unlock, Return, BeginStop, codelets
    <3> QED
      BY <3>1, <3>2, <3>3 DEF CallTypes
  <2>5. CallSteps'
    <3> SUFFICES ASSUME NEW u \in Threads
                 PROVE  /\ pc'[u] # "idle" => item'[u] \in Entities
                        /\ pc'[u] \in {"start", "tick", "stop"} => codelet'[u] \in Codelets(item'[u])
      BY DEF CallSteps
    <3>1. CASE u = t
      BY <1>c, <1>d, <1>e, <1>4, <2>0, <3>1 DEF CallSteps, StepTypes, CallTypes, Check, Goto, SetStatus, Leave, Unlock, Return, BeginStop, codelets
    <3>2. CASE u # t
      BY <1>c, <1>d, <1>e, <1>4, <2>0, <3>2 DEF CallSteps, StepTypes, CallTypes, Check, Goto, SetStatus, Leave, Unlock, Return, BeginStop, codelets
    <3> QED
      BY <3>1, <3>2
  <2> QED
    BY <2>1, <2>2, <2>3, <2>4, <2>5, TypeParts DEF TypeOK, ItemTypes, CodeletTypes, StepTypes, CallTypes, CallSteps,
       Few, Repeats
<1>5. ASSUME NEW t \in Workers, SyncInbox(t) PROVE TypeOK'
  <2>0. t \in Threads /\ item[t] \in Entities /\ 1 \in Codelets(item[t]) /\ 1 \in Nat
    BY <1>d, <1>e, <1>5, CodeletsNat DEF Threads, CallSteps, SyncInbox
  <2>1. ItemTypes'
    <3>0. items' \in SUBSET Entities
      BY <1>a, <1>5, <2>0 DEF ItemTypes, SyncInbox, Goto, SetStatus, TickReturns, codelets
    <3>1. status' \in [Entities -> Status]
      BY <1>a, <1>5, <2>0, StatusNames DEF ItemTypes, SyncInbox, Goto, SetStatus, TickReturns, codelets
    <3>2. lock' \in [Entities -> Threads \union {None}]
      BY <1>a, <1>5, <2>0 DEF ItemTypes, SyncInbox, Goto, SetStatus, TickReturns, codelets
    <3>3. executions' \in [Entities -> Few]
      BY <1>a, <1>5, <2>0, Ranges DEF ItemTypes, SyncInbox, Goto, SetStatus, TickReturns, codelets
    <3>4. repeat_count' \in [Entities -> Repeats]
      BY <1>a, <1>5, <2>0, Ranges DEF ItemTypes, SyncInbox, Goto, SetStatus, TickReturns, codelets
    <3> QED
      BY <3>0, <3>1, <3>2, <3>3, <3>4 DEF ItemTypes
  <2>2. CodeletTypes'
    BY <1>b, Ranges, <1>5, <2>0 DEF CodeletTypes, SyncInbox, Goto, SetStatus, TickReturns, codelets
  <2>3. StepTypes'
    BY <1>c, StepNames, <1>5, <2>0 DEF StepTypes, SyncInbox, Goto, SetStatus, TickReturns, codelets, Threads
  <2>4. CallTypes'
    <3>1. item' \in [Threads -> Entities \union {None}] /\ codelet' \in [Threads -> Nat]
      BY <1>d, <1>5, <2>0 DEF CallTypes, SyncInbox, Goto, SetStatus, TickReturns, codelets
    <3>2. code' \in [Threads -> Code]
      BY <1>d, <1>5, <2>0, CodeNames DEF CallTypes, SyncInbox, Goto, SetStatus, TickReturns, codelets
    <3>3. result' \in [Threads -> Result]
      BY <1>d, <1>5, <2>0, ResultNames DEF CallTypes, SyncInbox, Goto, SetStatus, TickReturns, codelets
    <3> QED
      BY <3>1, <3>2, <3>3 DEF CallTypes
  <2>5. CallSteps'
    <3> SUFFICES ASSUME NEW u \in Threads
                 PROVE  /\ pc'[u] # "idle" => item'[u] \in Entities
                        /\ pc'[u] \in {"start", "tick", "stop"} => codelet'[u] \in Codelets(item'[u])
      BY DEF CallSteps
    <3>1. CASE u = t
      BY <1>c, <1>d, <1>e, <1>5, <2>0, <3>1 DEF CallSteps, StepTypes, CallTypes, SyncInbox, Goto, SetStatus, TickReturns, codelets
    <3>2. CASE u # t
      BY <1>c, <1>d, <1>e, <1>5, <2>0, <3>2 DEF CallSteps, StepTypes, CallTypes, SyncInbox, Goto, SetStatus, TickReturns, codelets
    <3> QED
      BY <3>1, <3>2
  <2> QED
    BY <2>1, <2>2, <2>3, <2>4, <2>5, TypeParts DEF TypeOK, ItemTypes, CodeletTypes, StepTypes, CallTypes, CallSteps,
       Few, Repeats
<1>6. ASSUME NEW t \in Workers, TickCodelet(t) PROVE TypeOK'
  <2>0. t \in Threads /\ item[t] \in Entities /\ codelet[t] \in Codelets(item[t])
        /\ (More(t) => codelet[t] + 1 \in Codelets(item[t]) /\ codelet[t] + 1 \in Nat)
    BY <1>6, NextCodelet DEF Threads, TickCodelet
  <2>1. ItemTypes'
    <3>0. items' \in SUBSET Entities
      BY <1>a, <1>6, <2>0 DEF ItemTypes, TickCodelet, Goto, SetStatus, TickReturns
    <3>1. status' \in [Entities -> Status]
      BY <1>a, <1>6, <2>0, StatusNames DEF ItemTypes, TickCodelet, Goto, SetStatus, TickReturns
    <3>2. lock' \in [Entities -> Threads \union {None}]
      BY <1>a, <1>6, <2>0 DEF ItemTypes, TickCodelet, Goto, SetStatus, TickReturns
    <3>3. executions' \in [Entities -> Few]
      BY <1>a, <1>6, <2>0, Ranges DEF ItemTypes, TickCodelet, Goto, SetStatus, TickReturns
    <3>4. repeat_count' \in [Entities -> Repeats]
      BY <1>a, <1>6, <2>0, Ranges DEF ItemTypes, TickCodelet, Goto, SetStatus, TickReturns
    <3> QED
      BY <3>0, <3>1, <3>2, <3>3, <3>4 DEF ItemTypes
  <2>2. CodeletTypes'
    <3>1. Once(ticked[item[t]][codelet[t]]) \in Few
      BY <1>b, <2>0, Ranges DEF CodeletTypes
    <3>2. ticked' = [ticked EXCEPT ![item[t]][codelet[t]] = Once(ticked[item[t]][codelet[t]])]
      BY <1>6 DEF TickCodelet
    <3>3. DOMAIN ticked' = Entities /\ \A f \in Entities : ticked'[f] \in [Codelets(f) -> Few]
      BY <1>b, <2>0, <3>1, <3>2 DEF CodeletTypes
    <3>4. DOMAIN started' = Entities /\ \A f \in Entities : started'[f] \in SUBSET Codelets(f)
      BY <1>b, <1>6, <2>0 DEF CodeletTypes, TickCodelet
    <3>5. failed' \in [Entities -> BOOLEAN]
      BY <1>b, <1>6, <2>0 DEF CodeletTypes, TickCodelet
    <3> QED
      BY <3>3, <3>4, <3>5 DEF CodeletTypes
  <2>3. StepTypes'
    BY <1>c, StepNames, <1>6, <2>0 DEF StepTypes, TickCodelet, Goto, SetStatus, TickReturns, Threads
  <2>4. CallTypes'
    <3>1. item' \in [Threads -> Entities \union {None}] /\ codelet' \in [Threads -> Nat]
      BY <1>d, <1>6, <2>0 DEF CallTypes, TickCodelet, Goto, SetStatus, TickReturns
    <3>2. code' \in [Threads -> Code]
      <4>1. code' = code \/ \E c \in {"success", "not finished", "failure"} : code' = [code EXCEPT ![t] = c]
        BY <1>6 DEF TickCodelet, TickReturns
      <4> QED
        BY <1>d, <2>0, <4>1 DEF CallTypes, Code
    <3>3. result' \in [Threads -> Result]
      BY <1>d, <1>6, <2>0, ResultNames DEF CallTypes, TickCodelet, Goto, SetStatus, TickReturns
    <3> QED
      BY <3>1, <3>2, <3>3 DEF CallTypes
  <2>5. CallSteps'
    <3> SUFFICES ASSUME NEW u \in Threads
                 PROVE  /\ pc'[u] # "idle" => item'[u] \in Entities
                        /\ pc'[u] \in {"start", "tick", "stop"} => codelet'[u] \in Codelets(item'[u])
      BY DEF CallSteps
    <3>1. CASE u = t
      BY <1>c, <1>d, <1>e, <1>6, <2>0, <3>1 DEF CallSteps, StepTypes, CallTypes, TickCodelet, Goto, SetStatus, TickReturns
    <3>2. CASE u # t
      BY <1>c, <1>d, <1>e, <1>6, <2>0, <3>2 DEF CallSteps, StepTypes, CallTypes, TickCodelet, Goto, SetStatus, TickReturns
    <3> QED
      BY <3>1, <3>2
  <2> QED
    BY <2>1, <2>2, <2>3, <2>4, <2>5, TypeParts DEF TypeOK, ItemTypes, CodeletTypes, StepTypes, CallTypes, CallSteps,
       Few, Repeats
<1>7. ASSUME NEW t \in Workers, Control(t) PROVE TypeOK'
  <2>0. t \in Threads /\ item[t] \in Entities /\ 1 \in Codelets(item[t]) /\ 1 \in Nat
    BY <1>d, <1>e, <1>7, CodeletsNat DEF Threads, CallSteps, Control
  <2>1. ItemTypes'
    <3>0. items' \in SUBSET Entities
      BY <1>a, <1>7, <2>0 DEF ItemTypes, Control, Goto, SetStatus, Leave, Unlock, Return, BeginStop, codelets
    <3>1. status' \in [Entities -> Status]
      BY <1>a, <1>7, <2>0, StatusNames DEF ItemTypes, Control, Goto, SetStatus, Leave, Unlock, Return, BeginStop, codelets
    <3>2. lock' \in [Entities -> Threads \union {None}]
      BY <1>a, <1>7, <2>0 DEF ItemTypes, Control, Goto, SetStatus, Leave, Unlock, Return, BeginStop, codelets
    <3>3. executions' \in [Entities -> Few]
      BY <1>a, <1>7, <2>0, Ranges DEF ItemTypes, Control, Goto, SetStatus, Leave, Unlock, Return, BeginStop, codelets
    <3>4. repeat_count' \in [Entities -> Repeats]
      <4>1. \/ repeat_count' = repeat_count
            \/ /\ repeat_count[item[t]] < MaxRepeatCount
               /\ repeat_count' = [repeat_count EXCEPT ![item[t]] = repeat_count[item[t]] + 1]
            \/ repeat_count' = [repeat_count EXCEPT ![item[t]] = MaxRepeatCount + 1]
        BY <1>7, Zenon DEF Control
      <4>2. repeat_count \in [Entities -> Repeats]
        BY <1>a DEF ItemTypes
      <4> QED
        BY <2>0, <4>1, <4>2, Ranges
    <3> QED
      BY <3>0, <3>1, <3>2, <3>3, <3>4 DEF ItemTypes
  <2>2. CodeletTypes'
    BY <1>b, Ranges, <1>7, <2>0 DEF CodeletTypes, Control, Goto, SetStatus, Leave, Unlock, Return, BeginStop, codelets
  <2>3. StepTypes'
    BY <1>c, StepNames, <1>7, <2>0 DEF StepTypes, Control, Goto, SetStatus, Leave, Unlock, Return, BeginStop, codelets, Threads
  <2>4. CallTypes'
    <3>1. item' \in [Threads -> Entities \union {None}] /\ codelet' \in [Threads -> Nat]
      BY <1>d, <1>7, <2>0 DEF CallTypes, Control, Goto, SetStatus, Leave, Unlock, Return, BeginStop, codelets
    <3>2. code' \in [Threads -> Code]
      BY <1>d, <1>7, <2>0, CodeNames DEF CallTypes, Control, Goto, SetStatus, Leave, Unlock, Return, BeginStop, codelets
    <3>3. result' \in [Threads -> Result]
      BY <1>d, <1>7, <2>0, ResultNames DEF CallTypes, Control, Goto, SetStatus, Leave, Unlock, Return, BeginStop, codelets
    <3> QED
      BY <3>1, <3>2, <3>3 DEF CallTypes
  <2>5. CallSteps'
    <3> SUFFICES ASSUME NEW u \in Threads
                 PROVE  /\ pc'[u] # "idle" => item'[u] \in Entities
                        /\ pc'[u] \in {"start", "tick", "stop"} => codelet'[u] \in Codelets(item'[u])
      BY DEF CallSteps
    <3>1. CASE u = t
      BY <1>c, <1>d, <1>e, <1>7, <2>0, <3>1 DEF CallSteps, StepTypes, CallTypes, Control, Goto, SetStatus, Leave, Unlock, Return, BeginStop, codelets
    <3>2. CASE u # t
      BY <1>c, <1>d, <1>e, <1>7, <2>0, <3>2 DEF CallSteps, StepTypes, CallTypes, Control, Goto, SetStatus, Leave, Unlock, Return, BeginStop, codelets
    <3> QED
      BY <3>1, <3>2
  <2> QED
    BY <2>1, <2>2, <2>3, <2>4, <2>5, TypeParts DEF TypeOK, ItemTypes, CodeletTypes, StepTypes, CallTypes, CallSteps,
       Few, Repeats
<1>8. ASSUME NEW t \in Threads, StopCodelet(t) PROVE TypeOK'
  <2>0. t \in Threads /\ item[t] \in Entities /\ codelet[t] \in Codelets(item[t])
        /\ (More(t) => codelet[t] + 1 \in Codelets(item[t]) /\ codelet[t] + 1 \in Nat)
    BY <1>8, NextCodelet DEF Threads, StopCodelet
  <2>1. ItemTypes'
    <3>0. items' \in SUBSET Entities
      BY <1>a, <1>8, <2>0 DEF ItemTypes, StopCodelet, Goto, SetStatus, Unlock, Return
    <3>1. status' \in [Entities -> Status]
      BY <1>a, <1>8, <2>0, StatusNames DEF ItemTypes, StopCodelet, Goto, SetStatus, Unlock, Return
    <3>2. lock' \in [Entities -> Threads \union {None}]
      BY <1>a, <1>8, <2>0 DEF ItemTypes, StopCodelet, Goto, SetStatus, Unlock, Return
    <3>3. executions' \in [Entities -> Few]
      BY <1>a, <1>8, <2>0, Ranges DEF ItemTypes, StopCodelet, Goto, SetStatus, Unlock, Return
    <3>4. repeat_count' \in [Entities -> Repeats]
      BY <1>a, <1>8, <2>0, Ranges DEF ItemTypes, StopCodelet, Goto, SetStatus, Unlock, Return
    <3> QED
      BY <3>0, <3>1, <3>2, <3>3, <3>4 DEF ItemTypes
  <2>2. CodeletTypes'
    <3>1. 0 \in Few
      BY <1>b, <2>0, Ranges DEF CodeletTypes
    <3>2. ticked' = [ticked EXCEPT ![item[t]][codelet[t]] = 0]
      BY <1>8 DEF StopCodelet
    <3>3. DOMAIN ticked' = Entities /\ \A f \in Entities : ticked'[f] \in [Codelets(f) -> Few]
      BY <1>b, <2>0, <3>1, <3>2 DEF CodeletTypes
    <3>4. DOMAIN started' = Entities /\ \A f \in Entities : started'[f] \in SUBSET Codelets(f)
      BY <1>b, <1>8, <2>0 DEF CodeletTypes, StopCodelet
    <3>5. failed' \in [Entities -> BOOLEAN]
      BY <1>b, <1>8, <2>0 DEF CodeletTypes, StopCodelet
    <3> QED
      BY <3>3, <3>4, <3>5 DEF CodeletTypes
  <2>3. StepTypes'
    BY <1>c, StepNames, <1>8, <2>0 DEF StepTypes, StopCodelet, Goto, SetStatus, Unlock, Return, Threads
  <2>4. CallTypes'
    <3>1. item' \in [Threads -> Entities \union {None}] /\ codelet' \in [Threads -> Nat]
      BY <1>d, <1>8, <2>0 DEF CallTypes, StopCodelet, Goto, SetStatus, Unlock, Return
    <3>2. code' \in [Threads -> Code]
      BY <1>d, <1>8, <2>0, CodeNames DEF CallTypes, StopCodelet, Goto, SetStatus, Unlock, Return
    <3>3. result' \in [Threads -> Result]
      BY <1>d, <1>8, <2>0, ResultNames DEF CallTypes, StopCodelet, Goto, SetStatus, Unlock, Return
    <3> QED
      BY <3>1, <3>2, <3>3 DEF CallTypes
  <2>5. CallSteps'
    <3> SUFFICES ASSUME NEW u \in Threads
                 PROVE  /\ pc'[u] # "idle" => item'[u] \in Entities
                        /\ pc'[u] \in {"start", "tick", "stop"} => codelet'[u] \in Codelets(item'[u])
      BY DEF CallSteps
    <3>1. CASE u = t
      BY <1>c, <1>d, <1>e, <1>8, <2>0, <3>1 DEF CallSteps, StepTypes, CallTypes, StopCodelet, Goto, SetStatus, Unlock, Return
    <3>2. CASE u # t
      BY <1>c, <1>d, <1>e, <1>8, <2>0, <3>2 DEF CallSteps, StepTypes, CallTypes, StopCodelet, Goto, SetStatus, Unlock, Return
    <3> QED
      BY <3>1, <3>2
  <2> QED
    BY <2>1, <2>2, <2>3, <2>4, <2>5, TypeParts DEF TypeOK, ItemTypes, CodeletTypes, StepTypes, CallTypes, CallSteps,
       Few, Repeats
<1>9. ASSUME NEW t \in Workers, Monitor(t) PROVE TypeOK'
  <2>0. t \in Threads /\ item[t] \in Entities /\ 1 \in Codelets(item[t]) /\ 1 \in Nat
    BY <1>d, <1>e, <1>9, CodeletsNat DEF Threads, CallSteps, Monitor
  <2>1. ItemTypes'
    <3>0. items' \in SUBSET Entities
      BY <1>a, <1>9, <2>0 DEF ItemTypes, Monitor, Goto, Forget, Return, item_vars, codelets
    <3>1. status' \in [Entities -> Status]
      BY <1>a, <1>9, <2>0, StatusNames DEF ItemTypes, Monitor, Goto, Forget, Return, item_vars, codelets
    <3>2. lock' \in [Entities -> Threads \union {None}]
      BY <1>a, <1>9, <2>0 DEF ItemTypes, Monitor, Goto, Forget, Return, item_vars, codelets
    <3>3. executions' \in [Entities -> Few]
      BY <1>a, <1>9, <2>0, Ranges DEF ItemTypes, Monitor, Goto, Forget, Return, item_vars, codelets
    <3>4. repeat_count' \in [Entities -> Repeats]
      BY <1>a, <1>9, <2>0, Ranges DEF ItemTypes, Monitor, Goto, Forget, Return, item_vars, codelets
    <3> QED
      BY <3>0, <3>1, <3>2, <3>3, <3>4 DEF ItemTypes
  <2>2. CodeletTypes'
    BY <1>b, Ranges, <1>9, <2>0 DEF CodeletTypes, Monitor, Goto, Forget, Return, item_vars, codelets
  <2>3. StepTypes'
    BY <1>c, StepNames, <1>9, <2>0 DEF StepTypes, Monitor, Goto, Forget, Return, item_vars, codelets, Threads
  <2>4. CallTypes'
    <3>1. item' \in [Threads -> Entities \union {None}] /\ codelet' \in [Threads -> Nat]
      BY <1>d, <1>9, <2>0 DEF CallTypes, Monitor, Goto, Forget, Return, item_vars, codelets
    <3>2. code' \in [Threads -> Code]
      BY <1>d, <1>9, <2>0, CodeNames DEF CallTypes, Monitor, Goto, Forget, Return, item_vars, codelets
    <3>3. result' \in [Threads -> Result]
      BY <1>d, <1>9, <2>0, ResultNames DEF CallTypes, Monitor, Goto, Forget, Return, item_vars, codelets
    <3> QED
      BY <3>1, <3>2, <3>3 DEF CallTypes
  <2>5. CallSteps'
    <3> SUFFICES ASSUME NEW u \in Threads
                 PROVE  /\ pc'[u] # "idle" => item'[u] \in Entities
                        /\ pc'[u] \in {"start", "tick", "stop"} => codelet'[u] \in Codelets(item'[u])
      BY DEF CallSteps
    <3>1. CASE u = t
      BY <1>c, <1>d, <1>e, <1>9, <2>0, <3>1 DEF CallSteps, StepTypes, CallTypes, Monitor, Goto, Forget, Return, item_vars, codelets
    <3>2. CASE u # t
      BY <1>c, <1>d, <1>e, <1>9, <2>0, <3>2 DEF CallSteps, StepTypes, CallTypes, Monitor, Goto, Forget, Return, item_vars, codelets
    <3> QED
      BY <3>1, <3>2
  <2> QED
    BY <2>1, <2>2, <2>3, <2>4, <2>5, TypeParts DEF TypeOK, ItemTypes, CodeletTypes, StepTypes, CallTypes, CallSteps,
       Few, Repeats
<1>10. ASSUME NEW t \in Callers, DeactivateLock(t) PROVE TypeOK'
  <2>0. t \in Threads /\ item[t] \in Entities /\ 1 \in Codelets(item[t]) /\ 1 \in Nat
    BY <1>d, <1>e, <1>10, CodeletsNat DEF Threads, CallSteps, DeactivateLock
  <2>1. ItemTypes'
    <3>0. items' \in SUBSET Entities
      BY <1>a, <1>10, <2>0 DEF ItemTypes, DeactivateLock, Goto, SetStatus, BeginStop, Return, codelets, Stoppable
    <3>1. status' \in [Entities -> Status]
      BY <1>a, <1>10, <2>0, StatusNames DEF ItemTypes, DeactivateLock, Goto, SetStatus, BeginStop, Return, codelets, Stoppable
    <3>2. lock' \in [Entities -> Threads \union {None}]
      BY <1>a, <1>10, <2>0 DEF ItemTypes, DeactivateLock, Goto, SetStatus, BeginStop, Return, codelets, Stoppable
    <3>3. executions' \in [Entities -> Few]
      BY <1>a, <1>10, <2>0, Ranges DEF ItemTypes, DeactivateLock, Goto, SetStatus, BeginStop, Return, codelets, Stoppable
    <3>4. repeat_count' \in [Entities -> Repeats]
      BY <1>a, <1>10, <2>0, Ranges DEF ItemTypes, DeactivateLock, Goto, SetStatus, BeginStop, Return, codelets, Stoppable
    <3> QED
      BY <3>0, <3>1, <3>2, <3>3, <3>4 DEF ItemTypes
  <2>2. CodeletTypes'
    BY <1>b, Ranges, <1>10, <2>0 DEF CodeletTypes, DeactivateLock, Goto, SetStatus, BeginStop, Return, codelets, Stoppable
  <2>3. StepTypes'
    BY <1>c, StepNames, <1>10, <2>0 DEF StepTypes, DeactivateLock, Goto, SetStatus, BeginStop, Return, codelets, Stoppable, Threads
  <2>4. CallTypes'
    <3>1. item' \in [Threads -> Entities \union {None}] /\ codelet' \in [Threads -> Nat]
      BY <1>d, <1>10, <2>0 DEF CallTypes, DeactivateLock, Goto, SetStatus, BeginStop, Return, codelets, Stoppable
    <3>2. code' \in [Threads -> Code]
      BY <1>d, <1>10, <2>0, CodeNames DEF CallTypes, DeactivateLock, Goto, SetStatus, BeginStop, Return, codelets, Stoppable
    <3>3. result' \in [Threads -> Result]
      BY <1>d, <1>10, <2>0, ResultNames DEF CallTypes, DeactivateLock, Goto, SetStatus, BeginStop, Return, codelets, Stoppable
    <3> QED
      BY <3>1, <3>2, <3>3 DEF CallTypes
  <2>5. CallSteps'
    <3> SUFFICES ASSUME NEW u \in Threads
                 PROVE  /\ pc'[u] # "idle" => item'[u] \in Entities
                        /\ pc'[u] \in {"start", "tick", "stop"} => codelet'[u] \in Codelets(item'[u])
      BY DEF CallSteps
    <3>1. CASE u = t
      BY <1>c, <1>d, <1>e, <1>10, <2>0, <3>1 DEF CallSteps, StepTypes, CallTypes, DeactivateLock, Goto, SetStatus, BeginStop, Return, codelets, Stoppable
    <3>2. CASE u # t
      BY <1>c, <1>d, <1>e, <1>10, <2>0, <3>2 DEF CallSteps, StepTypes, CallTypes, DeactivateLock, Goto, SetStatus, BeginStop, Return, codelets, Stoppable
    <3> QED
      BY <3>1, <3>2
  <2> QED
    BY <2>1, <2>2, <2>3, <2>4, <2>5, TypeParts DEF TypeOK, ItemTypes, CodeletTypes, StepTypes, CallTypes, CallSteps,
       Few, Repeats
<1>11. ASSUME NEW t \in Callers, Free(t) PROVE TypeOK'
  <2>0. t \in Threads /\ item[t] \in Entities /\ 1 \in Codelets(item[t]) /\ 1 \in Nat
    BY <1>d, <1>e, <1>11, CodeletsNat DEF Threads, CallSteps, Free
  <2>1. ItemTypes'
    <3>0. items' \in SUBSET Entities
      BY <1>a, <1>11, <2>0 DEF ItemTypes, Free, Forget, Return, codelets
    <3>1. status' \in [Entities -> Status]
      BY <1>a, <1>11, <2>0, StatusNames DEF ItemTypes, Free, Forget, Return, codelets
    <3>2. lock' \in [Entities -> Threads \union {None}]
      BY <1>a, <1>11, <2>0 DEF ItemTypes, Free, Forget, Return, codelets
    <3>3. executions' \in [Entities -> Few]
      BY <1>a, <1>11, <2>0, Ranges DEF ItemTypes, Free, Forget, Return, codelets
    <3>4. repeat_count' \in [Entities -> Repeats]
      BY <1>a, <1>11, <2>0, Ranges DEF ItemTypes, Free, Forget, Return, codelets
    <3> QED
      BY <3>0, <3>1, <3>2, <3>3, <3>4 DEF ItemTypes
  <2>2. CodeletTypes'
    BY <1>b, Ranges, <1>11, <2>0 DEF CodeletTypes, Free, Forget, Return, codelets
  <2>3. StepTypes'
    BY <1>c, StepNames, <1>11, <2>0 DEF StepTypes, Free, Forget, Return, codelets, Threads
  <2>4. CallTypes'
    <3>1. item' \in [Threads -> Entities \union {None}] /\ codelet' \in [Threads -> Nat]
      BY <1>d, <1>11, <2>0 DEF CallTypes, Free, Forget, Return, codelets
    <3>2. code' \in [Threads -> Code]
      BY <1>d, <1>11, <2>0, CodeNames DEF CallTypes, Free, Forget, Return, codelets
    <3>3. result' \in [Threads -> Result]
      BY <1>d, <1>11, <2>0, ResultNames DEF CallTypes, Free, Forget, Return, codelets
    <3> QED
      BY <3>1, <3>2, <3>3 DEF CallTypes
  <2>5. CallSteps'
    <3> SUFFICES ASSUME NEW u \in Threads
                 PROVE  /\ pc'[u] # "idle" => item'[u] \in Entities
                        /\ pc'[u] \in {"start", "tick", "stop"} => codelet'[u] \in Codelets(item'[u])
      BY DEF CallSteps
    <3>1. CASE u = t
      BY <1>c, <1>d, <1>e, <1>11, <2>0, <3>1 DEF CallSteps, StepTypes, CallTypes, Free, Forget, Return, codelets
    <3>2. CASE u # t
      BY <1>c, <1>d, <1>e, <1>11, <2>0, <3>2 DEF CallSteps, StepTypes, CallTypes, Free, Forget, Return, codelets
    <3> QED
      BY <3>1, <3>2
  <2> QED
    BY <2>1, <2>2, <2>3, <2>4, <2>5, TypeParts DEF TypeOK, ItemTypes, CodeletTypes, StepTypes, CallTypes, CallSteps,
       Few, Repeats
<1>12. ASSUME NEW t \in Workers, NEW e \in Entities, ExecuteEntity(t, e) PROVE TypeOK'
  <2>0. t \in Threads
    BY <1>d, <1>e, <1>12, CodeletsNat DEF Threads, CallSteps, ExecuteEntity
  <2>1. ItemTypes'
    <3>0. items' \in SUBSET Entities
      BY <1>a, <1>12, <2>0 DEF ItemTypes, ExecuteEntity, Goto, item_vars, codelets
    <3>1. status' \in [Entities -> Status]
      BY <1>a, <1>12, <2>0, StatusNames DEF ItemTypes, ExecuteEntity, Goto, item_vars, codelets
    <3>2. lock' \in [Entities -> Threads \union {None}]
      BY <1>a, <1>12, <2>0 DEF ItemTypes, ExecuteEntity, Goto, item_vars, codelets
    <3>3. executions' \in [Entities -> Few]
      BY <1>a, <1>12, <2>0, Ranges DEF ItemTypes, ExecuteEntity, Goto, item_vars, codelets
    <3>4. repeat_count' \in [Entities -> Repeats]
      BY <1>a, <1>12, <2>0, Ranges DEF ItemTypes, ExecuteEntity, Goto, item_vars, codelets
    <3> QED
      BY <3>0, <3>1, <3>2, <3>3, <3>4 DEF ItemTypes
  <2>2. CodeletTypes'
    BY <1>b, Ranges, <1>12, <2>0 DEF CodeletTypes, ExecuteEntity, Goto, item_vars, codelets
  <2>3. StepTypes'
    BY <1>c, StepNames, <1>12, <2>0 DEF StepTypes, ExecuteEntity, Goto, item_vars, codelets, Threads
  <2>4. CallTypes'
    <3>1. item' \in [Threads -> Entities \union {None}] /\ codelet' \in [Threads -> Nat]
      BY <1>d, <1>12, <2>0 DEF CallTypes, ExecuteEntity, Goto, item_vars, codelets
    <3>2. code' \in [Threads -> Code]
      BY <1>d, <1>12, <2>0, CodeNames DEF CallTypes, ExecuteEntity, Goto, item_vars, codelets
    <3>3. result' \in [Threads -> Result]
      BY <1>d, <1>12, <2>0, ResultNames DEF CallTypes, ExecuteEntity, Goto, item_vars, codelets
    <3> QED
      BY <3>1, <3>2, <3>3 DEF CallTypes
  <2>5. CallSteps'
    <3> SUFFICES ASSUME NEW u \in Threads
                 PROVE  /\ pc'[u] # "idle" => item'[u] \in Entities
                        /\ pc'[u] \in {"start", "tick", "stop"} => codelet'[u] \in Codelets(item'[u])
      BY DEF CallSteps
    <3>1. CASE u = t
      BY <1>c, <1>d, <1>e, <1>12, <2>0, <3>1 DEF CallSteps, StepTypes, CallTypes, ExecuteEntity, Goto, item_vars, codelets
    <3>2. CASE u # t
      BY <1>c, <1>d, <1>e, <1>12, <2>0, <3>2 DEF CallSteps, StepTypes, CallTypes, ExecuteEntity, Goto, item_vars, codelets
    <3> QED
      BY <3>1, <3>2
  <2> QED
    BY <2>1, <2>2, <2>3, <2>4, <2>5, TypeParts DEF TypeOK, ItemTypes, CodeletTypes, StepTypes, CallTypes, CallSteps,
       Few, Repeats
<1>13. ASSUME NEW t \in Callers, NEW e \in Entities, Activate(t, e) PROVE TypeOK'
  <2>0. t \in Threads
    BY <1>d, <1>e, <1>13, CodeletsNat DEF Threads, CallSteps, Activate
  <2>1. ItemTypes'
    <3>0. items' \in SUBSET Entities
      BY <1>a, <1>13, <2>0 DEF ItemTypes, Activate, SetStatus, codelets, threads
    <3>1. status' \in [Entities -> Status]
      BY <1>a, <1>13, <2>0, StatusNames DEF ItemTypes, Activate, SetStatus, codelets, threads
    <3>2. lock' \in [Entities -> Threads \union {None}]
      BY <1>a, <1>13, <2>0 DEF ItemTypes, Activate, SetStatus, codelets, threads
    <3>3. executions' \in [Entities -> Few]
      BY <1>a, <1>13, <2>0, Ranges DEF ItemTypes, Activate, SetStatus, codelets, threads
    <3>4. repeat_count' \in [Entities -> Repeats]
      BY <1>a, <1>13, <2>0, Ranges DEF ItemTypes, Activate, SetStatus, codelets, threads
    <3> QED
      BY <3>0, <3>1, <3>2, <3>3, <3>4 DEF ItemTypes
  <2>2. CodeletTypes'
    BY <1>b, Ranges, <1>13, <2>0 DEF CodeletTypes, Activate, SetStatus, codelets, threads
  <2>3. StepTypes'
    BY <1>c, StepNames, <1>13, <2>0 DEF StepTypes, Activate, SetStatus, codelets, threads, Threads
  <2>4. CallTypes'
    <3>1. item' \in [Threads -> Entities \union {None}] /\ codelet' \in [Threads -> Nat]
      BY <1>d, <1>13, <2>0 DEF CallTypes, Activate, SetStatus, codelets, threads
    <3>2. code' \in [Threads -> Code]
      BY <1>d, <1>13, <2>0, CodeNames DEF CallTypes, Activate, SetStatus, codelets, threads
    <3>3. result' \in [Threads -> Result]
      BY <1>d, <1>13, <2>0, ResultNames DEF CallTypes, Activate, SetStatus, codelets, threads
    <3> QED
      BY <3>1, <3>2, <3>3 DEF CallTypes
  <2>5. CallSteps'
    <3> SUFFICES ASSUME NEW u \in Threads
                 PROVE  /\ pc'[u] # "idle" => item'[u] \in Entities
                        /\ pc'[u] \in {"start", "tick", "stop"} => codelet'[u] \in Codelets(item'[u])
      BY DEF CallSteps
    <3>1. CASE u = t
      BY <1>c, <1>d, <1>e, <1>13, <2>0, <3>1 DEF CallSteps, StepTypes, CallTypes, Activate, SetStatus, codelets, threads
    <3>2. CASE u # t
      BY <1>c, <1>d, <1>e, <1>13, <2>0, <3>2 DEF CallSteps, StepTypes, CallTypes, Activate, SetStatus, codelets, threads
    <3> QED
      BY <3>1, <3>2
  <2> QED
    BY <2>1, <2>2, <2>3, <2>4, <2>5, TypeParts DEF TypeOK, ItemTypes, CodeletTypes, StepTypes, CallTypes, CallSteps,
       Few, Repeats
<1>14. ASSUME NEW t \in Callers, NEW e \in Entities, Deactivate(t, e) PROVE TypeOK'
  <2>0. t \in Threads
    BY <1>d, <1>e, <1>14, CodeletsNat DEF Threads, CallSteps, Deactivate
  <2>1. ItemTypes'
    <3>0. items' \in SUBSET Entities
      BY <1>a, <1>14, <2>0 DEF ItemTypes, Deactivate, Goto, codelets
    <3>1. status' \in [Entities -> Status]
      BY <1>a, <1>14, <2>0, StatusNames DEF ItemTypes, Deactivate, Goto, codelets
    <3>2. lock' \in [Entities -> Threads \union {None}]
      BY <1>a, <1>14, <2>0 DEF ItemTypes, Deactivate, Goto, codelets
    <3>3. executions' \in [Entities -> Few]
      BY <1>a, <1>14, <2>0, Ranges DEF ItemTypes, Deactivate, Goto, codelets
    <3>4. repeat_count' \in [Entities -> Repeats]
      BY <1>a, <1>14, <2>0, Ranges DEF ItemTypes, Deactivate, Goto, codelets
    <3> QED
      BY <3>0, <3>1, <3>2, <3>3, <3>4 DEF ItemTypes
  <2>2. CodeletTypes'
    BY <1>b, Ranges, <1>14, <2>0 DEF CodeletTypes, Deactivate, Goto, codelets
  <2>3. StepTypes'
    BY <1>c, StepNames, <1>14, <2>0 DEF StepTypes, Deactivate, Goto, codelets, Threads
  <2>4. CallTypes'
    <3>1. item' \in [Threads -> Entities \union {None}] /\ codelet' \in [Threads -> Nat]
      BY <1>d, <1>14, <2>0 DEF CallTypes, Deactivate, Goto, codelets
    <3>2. code' \in [Threads -> Code]
      BY <1>d, <1>14, <2>0, CodeNames DEF CallTypes, Deactivate, Goto, codelets
    <3>3. result' \in [Threads -> Result]
      BY <1>d, <1>14, <2>0, ResultNames DEF CallTypes, Deactivate, Goto, codelets
    <3> QED
      BY <3>1, <3>2, <3>3 DEF CallTypes
  <2>5. CallSteps'
    <3> SUFFICES ASSUME NEW u \in Threads
                 PROVE  /\ pc'[u] # "idle" => item'[u] \in Entities
                        /\ pc'[u] \in {"start", "tick", "stop"} => codelet'[u] \in Codelets(item'[u])
      BY DEF CallSteps
    <3>1. CASE u = t
      BY <1>c, <1>d, <1>e, <1>14, <2>0, <3>1 DEF CallSteps, StepTypes, CallTypes, Deactivate, Goto, codelets
    <3>2. CASE u # t
      BY <1>c, <1>d, <1>e, <1>14, <2>0, <3>2 DEF CallSteps, StepTypes, CallTypes, Deactivate, Goto, codelets
    <3> QED
      BY <3>1, <3>2
  <2> QED
    BY <2>1, <2>2, <2>3, <2>4, <2>5, TypeParts DEF TypeOK, ItemTypes, CodeletTypes, StepTypes, CallTypes, CallSteps,
       Few, Repeats
<1>15. CASE UNCHANGED vars
    BY <1>15 DEF TypeOK, vars, item_vars, codelets, threads
<1> QED
    BY <1>1, <1>2, <1>3, <1>4, <1>5, <1>6, <1>7, <1>8, <1>9, <1>10, <1>11, <1>12, <1>13, <1>14, <1>15
       DEF Next, Execute, EndDeactivation, Threads

\* The state of every item, codelet and thread is one its type has.
THEOREM TypeCorrect == Spec => []TypeOK
BY TypeInit, TypeStep, PTL DEF Spec

(* -- What a step leaves alone --------------------------------------------*)

\* Only the call of t, and only the item and the codelets of e change.
ThreadsKeep(t) ==
    \A u \in Threads \ {t} :
        pc'[u] = pc[u] /\ item'[u] = item[u] /\ codelet'[u] = codelet[u] /\ code'[u] = code[u]

CodeletsKeep(f) == started'[f] = started[f] /\ failed'[f] = failed[f] /\ ticked'[f] = ticked[f]

EntitiesKeep(e) ==
    \A f \in Entities \ {e} :
        /\ lock'[f] = lock[f] /\ status'[f] = status[f] /\ executions'[f] = executions[f]
        /\ CodeletsKeep(f)

\* An entity keeps its invariant when neither it nor the call of its owner changes.
LEMMA Keeps ==
    ASSUME NEW f \in Entities, EntityOK(f),
           lock'[f] = lock[f], status'[f] = status[f], executions'[f] = executions[f],
           CodeletsKeep(f),
           lock[f] # None => LET o == lock[f]
                             IN  pc'[o] = pc[o] /\ item'[o] = item[o] /\ codelet'[o] = codelet[o]
                                 /\ code'[o] = code[o]
    PROVE  EntityOK(f)'
<1>1. CASE lock[f] = None
  <2>1. Settled(f) => Settled(f)'
    BY DEF CodeletsKeep, Settled, AllStarted, SameCount
  <2> QED
    BY <1>1, <2>1 DEF EntityOK
<1>2. CASE lock[f] # None
  <2> DEFINE o == lock[f]
  <2>1. pc'[o] = pc[o] /\ item'[o] = item[o] /\ codelet'[o] = codelet[o] /\ code'[o] = code[o]
    BY <1>2
  <2>2. Starting(f, o) => Starting(f, o)'
    BY <2>1 DEF Starting, CodeletsKeep
  <2>3. Ticking(f, o) => Ticking(f, o)'
    BY <2>1 DEF Ticking, CodeletsKeep, AllStarted
  <2>4. Stopping(f, o) => Stopping(f, o)'
    BY <2>1 DEF Stopping, CodeletsKeep
  <2>5. SameCount(f) => SameCount(f)'
    BY DEF SameCount, CodeletsKeep
  <2>6. AllStarted(f) => AllStarted(f)'
    BY DEF AllStarted, CodeletsKeep
  <2>7. Controlling(f, o) => Controlling(f, o)'
    BY <2>1, <2>5, <2>6 DEF Controlling
  <2>8. Holds(f, o) => Holds(f, o)'
    BY <2>1, <2>2, <2>3, <2>4, <2>5, <2>6, <2>7 DEF Holds
  <2> QED
    BY <1>2, <2>1, <2>8 DEF EntityOK
<1> QED
    BY <1>1, <1>2

\* A step of t on e leaves the other entities as they are: their owners are other threads.
LEMMA OthersKeep ==
    ASSUME NEW t \in Threads, NEW e \in Entities, NEW f \in Entities \ {e},
           TypeOK, EntityOK(f), item[t] \in {e, None}, ThreadsKeep(t), EntitiesKeep(e)
    PROVE  EntityOK(f)'
<1>1. lock[f] # None => lock[f] \in Threads \ {t}
    BY DEF TypeOK, EntityOK
<1>2. /\ lock'[f] = lock[f] /\ status'[f] = status[f] /\ executions'[f] = executions[f]
      /\ CodeletsKeep(f)
    BY DEF EntitiesKeep
<1> QED
    BY <1>1, <1>2, Keeps DEF ThreadsKeep

\* Nor does an entity change when its owner is another thread, and it is left alone itself.
LEMMA OwnKeeps ==
    ASSUME NEW t \in Threads, NEW e \in Entities, TypeOK, EntityOK(e), ThreadsKeep(t),
           lock[e] # t, lock'[e] = lock[e], status'[e] = status[e],
           executions'[e] = executions[e], CodeletsKeep(e)
    PROVE  EntityOK(e)'
<1>1. lock[e] # None => lock[e] \in Threads \ {t}
    BY DEF TypeOK
<1> QED
    BY <1>1, Keeps DEF ThreadsKeep

(* -- Steps under the lock ------------------------------------------------*)

\* What every step under execution_mutex_ does: it keeps the lock, or releases it when the
\* call is over or the entity is stopped.
LockedFrame(t) ==
    /\ pc[t] \in Locked
    /\ items' = items /\ item' = item
    /\ ThreadsKeep(t) /\ EntitiesKeep(item[t])
    /\ \/ lock' = lock /\ pc'[t] \in Locked
       \/ lock'[item[t]] = None /\ pc'[t] = "monitor"
       \/ lock'[item[t]] = None /\ pc'[t] = "free" /\ status'[item[t]] \in Unstarted

LEMMA LockedStep ==
    ASSUME NEW t \in Threads, NEW e \in Entities, e = item[t],
           IInv, TypeOK', LockedFrame(t), EntityOK(e)'
    PROVE  IInv'
<1>0. TypeOK /\ CallsApart /\ LocksHeld /\ Awaited /\ ItemsLeft
    BY DEF IInv
<1>1. e \in Entities /\ e # None /\ lock[e] = t /\ t # None
    BY <1>0 DEF TypeOK, LocksHeld, LockedFrame, Locked, Threads
<1>2. \A u \in Threads : lock[item[u]] = u /\ item[u] = e => u = t
    BY <1>1
<1>3. CallsApart'
    BY <1>0 DEF CallsApart, LockedFrame, ThreadsKeep, Locked, Threads
<1>4. LocksHeld'
  <2> SUFFICES ASSUME NEW u \in Threads, pc'[u] \in Locked
               PROVE  lock'[item'[u]] = u
    BY DEF LocksHeld
  <2>1. CASE u = t
    BY <1>1, <2>1 DEF LockedFrame, Locked
  <2>2. CASE u # t
    <3>1. pc[u] \in Locked /\ lock[item[u]] = u /\ item[u] \in Entities
      BY <1>0, <2>2 DEF LocksHeld, LockedFrame, ThreadsKeep, TypeOK, Locked
    <3>2. item[u] # e
      BY <1>2, <2>2, <3>1
    <3> QED
      BY <3>1, <3>2 DEF LockedFrame, EntitiesKeep
  <2> QED
    BY <2>1, <2>2
<1>5. Awaited'
  <2> SUFFICES ASSUME NEW w \in Workers, pc'[w] \in {"fetched", "locking"}
               PROVE  /\ item'[w] \in items'
                      /\ pc'[w] = "locking" => status'[item'[w]] \in Ready \union {"NOT_STARTED"}
    BY DEF Awaited
  <2>1. w # t /\ pc[w] = pc'[w] /\ w \in Threads
    BY DEF LockedFrame, ThreadsKeep, Locked, Threads
  <2>2. item[w] \in items
    BY <1>0, <2>1 DEF Awaited
  <2>3. item[w] # e
    BY <1>0, <1>1, <2>1, <2>2 DEF CallsApart, Threads
  <2>4. item[w] \in Entities /\ status'[item[w]] = status[item[w]]
    BY <1>0, <2>2, <2>3 DEF LockedFrame, EntitiesKeep, TypeOK
  <2> QED
    BY <1>0, <2>1, <2>2, <2>4 DEF LockedFrame, Awaited
<1>6. ItemsLeft'
  <2>1. \A c \in Callers : pc'[c] = "free" => Left(item[c])'
    <3> SUFFICES ASSUME NEW c \in Callers, pc'[c] = "free" PROVE Left(item[c])'
      OBVIOUS
    <3>1. CASE c = t
      BY <3>1 DEF LockedFrame, Left, Locked
    <3>2. CASE c # t
      <4>1. pc[c] = "free" /\ Left(item[c]) /\ item[c] \in Entities
        BY <1>0, <3>2 DEF LockedFrame, ThreadsKeep, ItemsLeft, TypeOK, Threads
      <4>2. item[c] # e
        BY <1>1, <4>1 DEF Left
      <4> QED
        BY <4>1, <4>2 DEF LockedFrame, EntitiesKeep, Left
    <3> QED
      BY <3>1, <3>2
  <2>2. \A f \in Entities : Deactivated(f)' => Left(f)'
    <3> SUFFICES ASSUME NEW f \in Entities, Deactivated(f)' PROVE Left(f)'
      OBVIOUS
    <3>1. Left(f)
      BY <1>0 DEF Deactivated, LockedFrame, ItemsLeft
    <3>2. f # e
      BY <1>1, <3>1 DEF Left
    <3> QED
      BY <3>1, <3>2 DEF LockedFrame, EntitiesKeep, Left
  <2> QED
    BY <2>1, <2>2 DEF ItemsLeft, LockedFrame
<1>7. \A f \in Entities : EntityOK(f)'
  <2> SUFFICES ASSUME NEW f \in Entities PROVE EntityOK(f)'
    OBVIOUS
  <2>1. CASE f = e
    BY <2>1
  <2>2. CASE f # e
    BY <1>0, <1>1, <2>2, OthersKeep DEF IInv, LockedFrame
  <2> QED
    BY <2>1, <2>2
<1> QED
    BY <1>3, <1>4, <1>5, <1>6, <1>7 DEF IInv

\* The thread that has the lock finds the entity as its step expects it.
LEMMA Held ==
    ASSUME IInv, NEW t \in Threads, pc[t] \in Locked
    PROVE  item[t] \in Entities /\ lock[item[t]] = t /\ t # None /\ Holds(item[t], t)
<1>1. item[t] \in Entities /\ lock[item[t]] = t /\ t # None
    BY DEF IInv, TypeOK, LocksHeld, Locked, Threads
<1> QED
    BY <1>1 DEF IInv, EntityOK

LEMMA Domains ==
    TypeOK => /\ DOMAIN lock = Entities /\ DOMAIN status = Entities /\ DOMAIN executions = Entities
              /\ DOMAIN started = Entities /\ DOMAIN failed = Entities /\ DOMAIN ticked = Entities
              /\ DOMAIN pc = Threads /\ DOMAIN item = Threads /\ DOMAIN codelet = Threads
              /\ DOMAIN code = Threads /\ DOMAIN result = Threads
              /\ \A e \in Entities : DOMAIN ticked[e] = Codelets(e)
BY DEF TypeOK

\* What is left once the frame of a step is known: its own entity.
LEMMA StartCodeletKeeps ==
    ASSUME NEW t \in Workers, IInv, TypeOK', StartCodelet(t) PROVE IInv'
<1>0. t \in Threads /\ pc[t] = "start" /\ pc[t] \in Locked /\ TypeOK
    BY DEF Threads, StartCodelet, Locked, IInv
<1>1. PICK e \in Entities : e = item[t]
    BY <1>0, Held
<1>2. lock[e] = t /\ t # None /\ Starting(e, t)
    BY <1>0, <1>1, Held DEF Holds
<1>3. PICK i \in Codelets(e) : i = codelet[t]
    BY <1>0, <1>1, NextCodelet
<1>4. LockedFrame(t)
    BY <1>0, <1>1, <1>2, Domains DEF StartCodelet, LockedFrame, ThreadsKeep, EntitiesKeep, CodeletsKeep,
       Goto, SetStatus, Leave, Unlock, Return, Locked
<1>5. started'[e] = 1 .. i
  <2>1. started'[e] = (IF failed[e] THEN {} ELSE started[e]) \union {i}
    BY <1>0, <1>1, <1>3, Domains DEF StartCodelet
  <2>2. i \in Nat /\ i >= 1
    BY <1>3, CodeletsNat DEF Codelets
  <2> QED
    BY <1>2, <1>3, <2>1, <2>2 DEF Starting
<1>6. /\ ticked'[e] = [ticked[e] EXCEPT ![i] = 0]
      /\ executions'[e] = 0
    BY <1>0, <1>1, <1>2, <1>3, Domains DEF StartCodelet, Starting
<1>7. \A j \in Codelets(e) : j <= i => ticked'[e][j] = 0
    BY <1>0, <1>2, <1>3, <1>6, Domains DEF Starting, Codelets
<1>8. EntityOK(e)'
  <2>1. CASE lock'[e] = None /\ failed'[e] /\ status'[e] = "START_PENDING"
    BY <2>1 DEF EntityOK, Settled, Ready, Unstarted
  <2>2. CASE /\ More(t) /\ lock'[e] = t /\ ~failed'[e] /\ status'[e] = "START_PENDING"
             /\ pc'[t] = "start" /\ item'[t] = e /\ codelet'[t] = i + 1
    <3>1. Starting(e, t)'
      BY <1>3, <1>5, <1>6, <1>7, <2>2 DEF Starting, Codelets
    <3> QED
      BY <1>2, <2>2, <3>1 DEF EntityOK, Holds, Locked
  <2>3. CASE ~More(t) /\ lock'[e] = None /\ ~failed'[e] /\ status'[e] = "STARTED"
    <3>1. i = NumCodelets[e]
      BY <1>0, <1>1, <1>3, <2>3, NextCodelet
    <3>2. AllStarted(e)'
      BY <1>5, <2>3, <3>1 DEF AllStarted, Codelets
    <3>3. SameCount(e)'
      BY <1>6, <1>7, <3>1 DEF SameCount, Codelets
    <3> QED
      BY <2>3, <3>2, <3>3 DEF EntityOK, Settled, Ready
  <2> QED
    BY <1>0, <1>1, <1>2, <1>3, <2>1, <2>2, <2>3, Domains
       DEF StartCodelet, Starting, Leave, SetStatus, Unlock, Goto, Return
<1> QED
    BY <1>0, <1>1, <1>4, <1>8, LockedStep

LEMMA CheckKeeps ==
    ASSUME NEW t \in Workers, IInv, TypeOK', Check(t) PROVE IInv'
<1>0. t \in Threads /\ pc[t] = "check" /\ pc[t] \in Locked /\ TypeOK
    BY DEF Threads, Check, Locked, IInv
<1>1. PICK e \in Entities : e = item[t]
    BY <1>0, Held
<1>2. lock[e] = t /\ t # None /\ status[e] \in Ready /\ AllStarted(e) /\ SameCount(e)
    BY <1>0, <1>1, Held DEF Holds
<1>4. LockedFrame(t)
    BY <1>0, <1>1, <1>2, Domains DEF Check, LockedFrame, ThreadsKeep, EntitiesKeep, CodeletsKeep,
       Goto, SetStatus, Leave, Unlock, Return, BeginStop, Locked, codelets
<1>5. AllStarted(e)'
    BY <1>2 DEF AllStarted, Check, codelets
<1>6. SameCount(e)'
    BY <1>2 DEF SameCount, Check, codelets
<1>7. \/ lock'[e] = t /\ pc'[t] = "sync" /\ status'[e] = "TICK_PENDING"
      \/ lock'[e] = None /\ status'[e] = status[e]
      \/ lock'[e] = t /\ pc'[t] = "stop" /\ status'[e] = "STOP_PENDING" /\ codelet'[t] = 1
    BY <1>0, <1>1, <1>2, Domains DEF Check, Leave, BeginStop, SetStatus, Unlock, Goto
<1>8. EntityOK(e)'
  <2>1. item'[t] = e
    BY <1>1 DEF Check
  <2>2. CASE lock'[e] = t /\ pc'[t] = "sync" /\ status'[e] = "TICK_PENDING"
    BY <1>2, <1>5, <1>6, <2>1, <2>2 DEF EntityOK, Holds, Locked
  <2>3. CASE lock'[e] = None /\ status'[e] = status[e]
    BY <1>2, <1>5, <1>6, <2>3 DEF EntityOK, Settled, Ready
  <2>4. CASE lock'[e] = t /\ pc'[t] = "stop" /\ status'[e] = "STOP_PENDING" /\ codelet'[t] = 1
    <3>1. Stopping(e, t)'
      BY <1>5, <2>4 DEF Stopping, AllStarted, Codelets
    <3> QED
      BY <1>2, <2>1, <2>4, <3>1 DEF EntityOK, Holds, Locked
  <2> QED
    BY <1>7, <2>2, <2>3, <2>4
<1> QED
    BY <1>0, <1>1, <1>4, <1>8, LockedStep

LEMMA SyncInboxKeeps ==
    ASSUME NEW t \in Workers, IInv, TypeOK', SyncInbox(t) PROVE IInv'
<1>0. t \in Threads /\ pc[t] = "sync" /\ pc[t] \in Locked /\ TypeOK
    BY DEF Threads, SyncInbox, Locked, IInv
<1>1. PICK e \in Entities : e = item[t]
    BY <1>0, Held
<1>2. lock[e] = t /\ t # None /\ status[e] = "TICK_PENDING" /\ AllStarted(e) /\ SameCount(e)
    BY <1>0, <1>1, Held DEF Holds
<1>4. LockedFrame(t)
    BY <1>0, <1>1, <1>2, Domains DEF SyncInbox, LockedFrame, ThreadsKeep, EntitiesKeep, CodeletsKeep,
       Goto, SetStatus, TickReturns, Locked, codelets
<1>5. AllStarted(e)'
    BY <1>2 DEF AllStarted, SyncInbox, codelets
<1>6. lock'[e] = t /\ item'[t] = e /\ ticked'[e] = ticked[e]
    BY <1>1, <1>2 DEF SyncInbox, codelets
<1>7. \/ /\ pc'[t] = "control" /\ status'[e] = "TICK_PENDING" /\ code'[t] = "failure"
         /\ executions'[e] = executions[e]
      \/ /\ pc'[t] = "tick" /\ status'[e] = "TICKING" /\ codelet'[t] = 1
         /\ executions'[e] = Once(executions[e])
    BY <1>0, <1>1, <1>2, Domains DEF SyncInbox, TickReturns, SetStatus, Goto
<1>8. EntityOK(e)'
  <2>1. CASE /\ pc'[t] = "control" /\ status'[e] = "TICK_PENDING" /\ code'[t] = "failure"
             /\ executions'[e] = executions[e]
    <3>1. SameCount(e)'
      BY <1>2, <1>6, <2>1 DEF SameCount
    <3>2. Controlling(e, t)'
      BY <1>5, <2>1, <3>1 DEF Controlling
    <3> QED
      BY <1>2, <1>6, <2>1, <3>2 DEF EntityOK, Holds, Locked
  <2>2. CASE /\ pc'[t] = "tick" /\ status'[e] = "TICKING" /\ codelet'[t] = 1
             /\ executions'[e] = Once(executions[e])
    <3>1. Counts(e) => \A j \in Codelets(e) : ~(j < 1) /\ executions'[e] = Once(ticked'[e][j])
      BY <1>2, <1>6, <2>2 DEF SameCount, Codelets
    <3>2. Ticking(e, t)'
      BY <1>5, <2>2, <3>1 DEF Ticking, Counts
    <3> QED
      BY <1>2, <1>6, <2>2, <3>2 DEF EntityOK, Holds, Locked
  <2> QED
    BY <1>7, <2>1, <2>2
<1> QED
    BY <1>0, <1>1, <1>4, <1>8, LockedStep

LEMMA TickCodeletKeeps ==
    ASSUME NEW t \in Workers, IInv, TypeOK', TickCodelet(t) PROVE IInv'
<1>0. t \in Threads /\ pc[t] = "tick" /\ pc[t] \in Locked /\ TypeOK
    BY DEF Threads, TickCodelet, Locked, IInv
<1>1. PICK e \in Entities : e = item[t]
    BY <1>0, Held
<1>2. lock[e] = t /\ t # None /\ Ticking(e, t)
    BY <1>0, <1>1, Held DEF Holds
<1>3. PICK i \in Codelets(e) : i = codelet[t]
    BY <1>0, <1>1, NextCodelet
<1>4. LockedFrame(t)
    BY <1>0, <1>1, <1>2, Domains DEF TickCodelet, LockedFrame, ThreadsKeep, EntitiesKeep, CodeletsKeep,
       Goto, SetStatus, TickReturns, Locked
<1>5. AllStarted(e)'
    BY <1>2 DEF Ticking, AllStarted, TickCodelet
<1>6. /\ lock'[e] = t /\ item'[t] = e /\ executions'[e] = executions[e]
      /\ ticked'[e] = [ticked[e] EXCEPT ![i] = Once(ticked[e][i])]
    BY <1>0, <1>1, <1>2, <1>3, Domains DEF TickCodelet
<1>7. Counts(e) => \A j \in Codelets(e) :
                       executions'[e] = IF j <= i THEN ticked'[e][j] ELSE Once(ticked'[e][j])
  <2> SUFFICES ASSUME Counts(e), NEW j \in Codelets(e)
               PROVE  executions'[e] = IF j <= i THEN ticked'[e][j] ELSE Once(ticked'[e][j])
    OBVIOUS
  <2>1. executions[e] = IF j < i THEN ticked[e][j] ELSE Once(ticked[e][j])
    BY <1>2, <1>3 DEF Ticking
  <2>2. ticked'[e][j] = IF j = i THEN Once(ticked[e][j]) ELSE ticked[e][j]
    BY <1>0, <1>6, Domains
  <2>3. i \in Nat /\ j \in Nat
    BY <1>3, CodeletsNat DEF Codelets
  <2> QED
    BY <1>6, <2>1, <2>2, <2>3
<1>8. \/ pc'[t] = "control" /\ status'[e] = "TICKING" /\ code'[t] \in {"not finished", "failure"}
      \/ More(t) /\ pc'[t] = "tick" /\ status'[e] = "TICKING" /\ codelet'[t] = i + 1
      \/ ~More(t) /\ pc'[t] = "control" /\ status'[e] = "IDLE" /\ code'[t] = "success"
    BY <1>0, <1>1, <1>2, <1>3, Domains DEF TickCodelet, Ticking, TickReturns, SetStatus, Goto
<1>9. i \in Nat /\ NumCodelets[e] \in Nat /\ 1 <= i /\ i <= NumCodelets[e]
    BY <1>3, CodeletsNat DEF Codelets
<1>10. EntityOK(e)'
  <2>1. CASE pc'[t] = "control" /\ status'[e] = "TICKING" /\ code'[t] \in {"not finished", "failure"}
    <3>1. e \in Controlled /\ Counts(e) => i = 1 /\ \A j \in Codelets(e) : j <= i
      BY <1>9 DEF Counts, Codelets
    <3>2. e \in Controlled => SameCount(e)'
      BY <1>7, <3>1 DEF SameCount, Counts
    <3>3. Controlling(e, t)'
      BY <1>5, <2>1, <3>2 DEF Controlling
    <3> QED
      BY <1>2, <1>6, <2>1, <3>3 DEF EntityOK, Holds, Locked
  <2>2. CASE More(t) /\ pc'[t] = "tick" /\ status'[e] = "TICKING" /\ codelet'[t] = i + 1
    <3>1. \A j \in Codelets(e) : j < i + 1 <=> j <= i
      BY <1>9 DEF Codelets
    <3>2. Ticking(e, t)'
      BY <1>5, <1>7, <2>2, <3>1 DEF Ticking, Counts
    <3> QED
      BY <1>2, <1>6, <2>2, <3>2 DEF EntityOK, Holds, Locked
  <2>3. CASE ~More(t) /\ pc'[t] = "control" /\ status'[e] = "IDLE" /\ code'[t] = "success"
    <3>1. i = NumCodelets[e]
      BY <1>0, <1>1, <1>3, <2>3, NextCodelet
    <3>2. \A j \in Codelets(e) : j <= i
      BY <1>9, <3>1 DEF Codelets
    <3>3. SameCount(e)'
      BY <1>7, <3>2 DEF SameCount, Counts
    <3>4. Controlling(e, t)'
      BY <1>5, <2>3, <3>3 DEF Controlling
    <3> QED
      BY <1>2, <1>6, <2>3, <3>4 DEF EntityOK, Holds, Locked
  <2> QED
    BY <1>8, <2>1, <2>2, <2>3
<1> QED
    BY <1>0, <1>1, <1>4, <1>10, LockedStep

LEMMA ControlKeeps ==
    ASSUME NEW t \in Workers, IInv, TypeOK', Control(t) PROVE IInv'
<1>0. t \in Threads /\ pc[t] = "control" /\ pc[t] \in Locked /\ TypeOK
    BY DEF Threads, Control, Locked, IInv
<1>1. PICK e \in Entities : e = item[t]
    BY <1>0, Held
<1>2. lock[e] = t /\ t # None /\ Controlling(e, t)
    BY <1>0, <1>1, Held DEF Holds
<1>4. LockedFrame(t)
    BY <1>0, <1>1, <1>2, Domains DEF Control, LockedFrame, ThreadsKeep, EntitiesKeep, CodeletsKeep,
       Goto, SetStatus, Leave, Unlock, Return, BeginStop, Locked, codelets
<1>5. AllStarted(e)'
    BY <1>2 DEF Controlling, AllStarted, Control, codelets
<1>6. item'[t] = e /\ executions'[e] = executions[e] /\ ticked'[e] = ticked[e]
    BY <1>1 DEF Control, codelets
<1>7. \/ /\ lock'[e] = None /\ status'[e] = status[e] /\ code[t] = "success"
      \/ /\ lock'[e] = None /\ status'[e] = "STARTED" /\ e \in Controlled
      \/ /\ lock'[e] = t /\ pc'[t] = "stop" /\ status'[e] = "STOP_PENDING" /\ codelet'[t] = 1
    BY <1>0, <1>1, <1>2, Domains DEF Control, Leave, BeginStop, SetStatus, Unlock, Goto
<1>8. EntityOK(e)'
  <2>1. code[t] = "success" \/ e \in Controlled => SameCount(e)'
    BY <1>2, <1>6 DEF Controlling, SameCount
  <2>2. CASE lock'[e] = None /\ status'[e] = status[e] /\ code[t] = "success"
    <3>1. status'[e] = "IDLE"
      BY <1>2, <2>2 DEF Controlling
    <3> QED
      BY <1>5, <2>1, <2>2, <3>1 DEF EntityOK, Settled, Ready
  <2>3. CASE lock'[e] = None /\ status'[e] = "STARTED" /\ e \in Controlled
    BY <1>5, <2>1, <2>3 DEF EntityOK, Settled, Ready
  <2>4. CASE lock'[e] = t /\ pc'[t] = "stop" /\ status'[e] = "STOP_PENDING" /\ codelet'[t] = 1
    <3>1. Stopping(e, t)'
      BY <1>5, <2>4 DEF Stopping, AllStarted, Codelets
    <3> QED
      BY <1>2, <1>6, <2>4, <3>1 DEF EntityOK, Holds, Locked
  <2> QED
    BY <1>7, <2>2, <2>3, <2>4
<1> QED
    BY <1>0, <1>1, <1>4, <1>8, LockedStep

LEMMA StopCodeletKeeps ==
    ASSUME NEW t \in Threads, IInv, TypeOK', StopCodelet(t) PROVE IInv'
<1>0. pc[t] = "stop" /\ pc[t] \in Locked /\ TypeOK
    BY DEF StopCodelet, Locked, IInv
<1>1. PICK e \in Entities : e = item[t]
    BY <1>0, Held
<1>2. lock[e] = t /\ t # None /\ Stopping(e, t)
    BY <1>0, <1>1, Held DEF Holds
<1>3. PICK i \in Codelets(e) : i = codelet[t]
    BY <1>0, <1>1, NextCodelet
<1>4. LockedFrame(t)
    BY <1>0, <1>1, <1>2, Domains DEF StopCodelet, LockedFrame, ThreadsKeep, EntitiesKeep, CodeletsKeep,
       Goto, SetStatus, Unlock, Locked, Unstarted
<1>5. ~failed'[e] /\ item'[t] = e /\ started'[e] = started[e] \ {i} /\ started[e] = i .. NumCodelets[e]
    BY <1>0, <1>1, <1>2, <1>3, Domains DEF StopCodelet, Stopping
<1>6. \/ More(t) /\ lock'[e] = t /\ pc'[t] = "stop" /\ status'[e] = "STOP_PENDING" /\ codelet'[t] = i + 1
      \/ ~More(t) /\ lock'[e] = None /\ status'[e] = "NOT_STARTED"
    BY <1>0, <1>1, <1>2, <1>3, Domains DEF StopCodelet, Stopping, SetStatus, Unlock
<1>7. i \in Nat /\ NumCodelets[e] \in Nat
    BY <1>3, CodeletsNat DEF Codelets
<1>8. EntityOK(e)'
  <2>1. CASE More(t) /\ lock'[e] = t /\ pc'[t] = "stop" /\ status'[e] = "STOP_PENDING" /\ codelet'[t] = i + 1
    <3>1. started'[e] = (i + 1) .. NumCodelets[e]
      BY <1>5, <1>7
    <3>2. Stopping(e, t)'
      BY <1>5, <2>1, <3>1 DEF Stopping
    <3> QED
      BY <1>2, <1>5, <2>1, <3>2 DEF EntityOK, Holds, Locked
  <2>2. CASE ~More(t) /\ lock'[e] = None /\ status'[e] = "NOT_STARTED"
    <3>1. i = NumCodelets[e]
      BY <1>0, <1>1, <1>3, <2>2, NextCodelet
    <3>2. started'[e] = {}
      BY <1>5, <1>7, <3>1
    <3> QED
      BY <2>2, <3>2 DEF EntityOK, Settled, Ready, Unstarted
  <2> QED
    BY <1>6, <2>1, <2>2
<1> QED
    BY <1>0, <1>1, <1>4, <1>8, LockedStep

(* -- Steps without the lock ----------------------------------------------*)

\* Taking the lock in executeEntity.
LEMMA ExecuteLockKeeps ==
    ASSUME NEW t \in Workers, IInv, TypeOK', ExecuteLock(t) PROVE IInv'
<1>0. t \in Threads /\ pc[t] = "locking" /\ TypeOK /\ CallsApart /\ LocksHeld /\ Awaited /\ ItemsLeft
    BY DEF Threads, ExecuteLock, IInv
<1>1. PICK e \in Entities : e = item[t]
    BY <1>0 DEF TypeOK
<1>2. e # None /\ t # None /\ lock[e] = None /\ EntityOK(e) /\ Settled(e) /\ e \in items
      /\ status[e] \in Ready \union {"NOT_STARTED"}
    BY <1>0, <1>1 DEF ExecuteLock, IInv, EntityOK, Awaited, Threads
<1>3. /\ items' = items /\ item' = item /\ ThreadsKeep(t) /\ EntitiesKeep(e) /\ lock'[e] = t
      /\ CodeletsKeep(e)
    BY <1>0, <1>1, Domains DEF ExecuteLock, ThreadsKeep, EntitiesKeep, CodeletsKeep, Goto, SetStatus, codelets
<1>4. \/ /\ status[e] = "NOT_STARTED" /\ status'[e] = "START_PENDING" /\ pc'[t] = "start"
         /\ executions'[e] = 0 /\ codelet'[t] = 1
      \/ status[e] \in Ready /\ pc'[t] = "check" /\ status'[e] = status[e] /\ executions'[e] = executions[e]
    BY <1>0, <1>1, <1>2, Domains DEF ExecuteLock, Goto, SetStatus
<1>5. \A u \in Workers \ {t} : item[u] # e
    BY <1>0, <1>1, <1>2 DEF CallsApart
<1>6. CallsApart'
    BY <1>0, <1>3, <1>4 DEF CallsApart, ThreadsKeep, Threads
<1>7. LocksHeld'
  <2> SUFFICES ASSUME NEW u \in Threads, pc'[u] \in Locked PROVE lock'[item'[u]] = u
    BY DEF LocksHeld
  <2>1. CASE u = t
    BY <1>1, <1>3, <2>1
  <2>2. CASE u # t
    <3>1. pc[u] \in Locked /\ lock[item[u]] = u /\ item[u] \in Entities
      BY <1>0, <1>3, <2>2 DEF LocksHeld, ThreadsKeep, TypeOK, Locked
    <3>2. item[u] # e
      BY <1>2, <3>1 DEF Threads
    <3> QED
      BY <1>3, <3>1, <3>2 DEF EntitiesKeep
  <2> QED
    BY <2>1, <2>2
<1>8. Awaited'
  <2> SUFFICES ASSUME NEW w \in Workers, pc'[w] \in {"fetched", "locking"}
               PROVE  /\ item'[w] \in items'
                      /\ pc'[w] = "locking" => status'[item'[w]] \in Ready \union {"NOT_STARTED"}
    BY DEF Awaited
  <2>1. w # t /\ pc[w] = pc'[w] /\ w \in Threads
    BY <1>3, <1>4 DEF ThreadsKeep, Threads
  <2>2. item[w] \in items /\ item[w] # e /\ item[w] \in Entities
    BY <1>0, <1>5, <2>1 DEF Awaited, TypeOK
  <2> QED
    BY <1>0, <1>3, <2>1, <2>2 DEF Awaited, EntitiesKeep
<1>9. ItemsLeft'
  <2>1. \A c \in Callers : pc[c] = pc'[c] /\ c \in Threads /\ item[c] # e
    BY <1>0, <1>2, <1>3 DEF ThreadsKeep, CallsApart, Threads
  <2>2. \A c \in Callers : pc'[c] = "free" => Left(item[c])'
    BY <1>0, <1>3, <2>1 DEF ItemsLeft, EntitiesKeep, Left, TypeOK
  <2>3. \A f \in Entities : Deactivated(f)' => f # e /\ Left(f)
    BY <1>0, <1>2, <1>3 DEF ItemsLeft, Deactivated
  <2>4. \A f \in Entities : Deactivated(f)' => Left(f)'
    BY <1>3, <2>3 DEF EntitiesKeep, Left
  <2> QED
    BY <1>3, <2>2, <2>4 DEF ItemsLeft
<1>10. EntityOK(e)'
  <2>1. CASE /\ status[e] = "NOT_STARTED" /\ status'[e] = "START_PENDING" /\ pc'[t] = "start"
             /\ executions'[e] = 0 /\ codelet'[t] = 1
    <3>1. IF failed'[e] THEN codelet'[t] = 1 ELSE started'[e] = 1 .. (codelet'[t] - 1)
      BY <1>2, <1>3, <2>1 DEF Settled, CodeletsKeep, Unstarted, Ready
    <3>2. \A j \in Codelets(e) : ~(j < codelet'[t])
      BY <2>1 DEF Codelets
    <3>3. Starting(e, t)'
      BY <2>1, <3>1, <3>2 DEF Starting
    <3> QED
      BY <1>1, <1>2, <1>3, <2>1, <3>3 DEF EntityOK, Holds, Locked
  <2>2. CASE status[e] \in Ready /\ pc'[t] = "check" /\ status'[e] = status[e] /\ executions'[e] = executions[e]
    <3>1. AllStarted(e)' /\ SameCount(e)'
      BY <1>2, <1>3, <2>2 DEF Settled, AllStarted, SameCount, CodeletsKeep
    <3> QED
      BY <1>1, <1>2, <1>3, <2>2, <3>1 DEF EntityOK, Holds, Locked
  <2> QED
    BY <1>4, <2>1, <2>2
<1>11. \A f \in Entities : EntityOK(f)'
  <2> SUFFICES ASSUME NEW f \in Entities PROVE EntityOK(f)'
    OBVIOUS
  <2>1. CASE f = e
    BY <1>10, <2>1
  <2>2. CASE f # e
    BY <1>0, <1>1, <1>3, <2>2, OthersKeep DEF IInv
  <2> QED
    BY <2>1, <2>2
<1> QED
    BY <1>6, <1>7, <1>8, <1>9, <1>11 DEF IInv

\* A thread without a lock changes no entity as long as it changes no item and no codelet.
LEMMA UnlockedKeeps ==
    ASSUME NEW t \in Threads, IInv, pc[t] \notin Locked, ThreadsKeep(t),
           lock' = lock, status' = status, executions' = executions, codelets' = codelets
    PROVE  \A f \in Entities : EntityOK(f)'
<1> SUFFICES ASSUME NEW f \in Entities PROVE EntityOK(f)'
    OBVIOUS
<1>1. lock[f] # None => lock[f] \in Threads \ {t}
    BY DEF IInv, TypeOK, EntityOK
<1>2. CodeletsKeep(f) /\ EntityOK(f)
    BY DEF codelets, CodeletsKeep, IInv
<1> QED
    BY <1>1, <1>2, Keeps DEF ThreadsKeep

LEMMA CheckStatusKeeps ==
    ASSUME NEW t \in Workers, IInv, TypeOK', CheckStatus(t) PROVE IInv'
<1>0. t \in Threads /\ pc[t] = "fetched" /\ TypeOK /\ CallsApart /\ LocksHeld /\ Awaited /\ ItemsLeft
    BY DEF Threads, CheckStatus, IInv
<1>1. /\ items' = items /\ lock' = lock /\ status' = status /\ item' = item
      /\ executions' = executions /\ codelets' = codelets
    BY DEF CheckStatus, item_vars
<1>2. \/ pc'[t] = "monitor"
      \/ pc'[t] = "locking" /\ status[item[t]] \in Ready \union {"NOT_STARTED"}
    BY <1>0, Domains DEF CheckStatus, Goto, Ready
<1>3. ThreadsKeep(t)
    BY <1>0, Domains DEF CheckStatus, ThreadsKeep, Goto
<1>4. CallsApart'
    BY <1>0, <1>1, <1>2, <1>3 DEF CallsApart, ThreadsKeep, Threads
<1>5. LocksHeld'
    BY <1>0, <1>1, <1>2, <1>3 DEF LocksHeld, ThreadsKeep, Locked
<1>6. Awaited'
    BY <1>0, <1>1, <1>2, <1>3 DEF Awaited, ThreadsKeep, Threads
<1>7. ItemsLeft'
  <2>1. \A c \in Callers : pc'[c] = "free" => pc[c] = "free"
    BY <1>0, <1>3 DEF ThreadsKeep, Threads
  <2> QED
    BY <1>0, <1>1, <2>1 DEF ItemsLeft, Left, Deactivated
<1>8. \A f \in Entities : EntityOK(f)'
    BY <1>0, <1>1, <1>3, UnlockedKeeps DEF Locked
<1> QED
    BY <1>4, <1>5, <1>6, <1>7, <1>8 DEF IInv

LEMMA MonitorKeeps ==
    ASSUME NEW t \in Workers, IInv, TypeOK', Monitor(t) PROVE IInv'
<1>0. t \in Threads /\ pc[t] \notin Locked /\ TypeOK /\ CallsApart /\ LocksHeld /\ Awaited /\ ItemsLeft
    BY DEF Threads, Monitor, IInv, Locked
<1>1. /\ items' = items /\ lock' = lock /\ status' = status /\ item'[t] = None
      /\ executions' = executions /\ codelets' = codelets /\ pc'[t] = "idle"
    BY <1>0, Domains DEF Monitor, Goto, Forget, item_vars
<1>3. ThreadsKeep(t)
    BY <1>0, Domains DEF Monitor, ThreadsKeep, Goto, Forget
<1>4. CallsApart'
    BY <1>0, <1>1, <1>3 DEF CallsApart, ThreadsKeep, Threads
<1>5. LocksHeld'
    BY <1>0, <1>1, <1>3 DEF LocksHeld, ThreadsKeep, Locked
<1>6. Awaited'
    BY <1>0, <1>1, <1>3 DEF Awaited, ThreadsKeep, Threads
<1>7. ItemsLeft'
  <2>1. \A c \in Callers : pc'[c] = pc[c] /\ item'[c] = item[c]
    BY <1>3 DEF ThreadsKeep, Threads
  <2> QED
    BY <1>0, <1>1, <2>1 DEF ItemsLeft, Left, Deactivated
<1>8. \A f \in Entities : EntityOK(f)'
    BY <1>0, <1>1, <1>3, UnlockedKeeps
<1> QED
    BY <1>4, <1>5, <1>6, <1>7, <1>8 DEF IInv

LEMMA ExecuteEntityKeeps ==
    ASSUME NEW t \in Workers, NEW e \in Entities, IInv, TypeOK', ExecuteEntity(t, e) PROVE IInv'
<1>0. t \in Threads /\ pc[t] \notin Locked /\ TypeOK /\ CallsApart /\ LocksHeld /\ Awaited /\ ItemsLeft
    BY DEF Threads, ExecuteEntity, IInv, Locked
<1>1. /\ items' = items /\ lock' = lock /\ status' = status /\ item'[t] = e /\ e \in items
      /\ executions' = executions /\ codelets' = codelets /\ pc'[t] = "fetched"
      /\ \A u \in Workers : item[u] # e
    BY <1>0, Domains DEF ExecuteEntity, Goto, item_vars
<1>3. ThreadsKeep(t)
    BY <1>0, Domains DEF ExecuteEntity, ThreadsKeep, Goto
<1>4. CallsApart'
    BY <1>0, <1>1, <1>3 DEF CallsApart, ThreadsKeep, Threads
<1>5. LocksHeld'
    BY <1>0, <1>1, <1>3 DEF LocksHeld, ThreadsKeep, Locked
<1>6. Awaited'
    BY <1>0, <1>1, <1>3 DEF Awaited, ThreadsKeep, Threads
<1>7. ItemsLeft'
  <2>1. \A c \in Callers : pc'[c] = pc[c] /\ item'[c] = item[c]
    BY <1>3 DEF ThreadsKeep, Threads
  <2> QED
    BY <1>0, <1>1, <2>1 DEF ItemsLeft, Left, Deactivated
<1>8. \A f \in Entities : EntityOK(f)'
    BY <1>0, <1>1, <1>3, UnlockedKeeps
<1> QED
    BY <1>4, <1>5, <1>6, <1>7, <1>8 DEF IInv

LEMMA ActivateKeeps ==
    ASSUME NEW t \in Callers, NEW e \in Entities, IInv, TypeOK', Activate(t, e) PROVE IInv'
<1>0. t \in Threads /\ TypeOK /\ CallsApart /\ LocksHeld /\ Awaited /\ ItemsLeft
    BY DEF Threads, IInv
<1>1. /\ e \notin items /\ items' = items \union {e} /\ lock' = lock /\ executions' = executions
      /\ status'[e] = "NOT_STARTED" /\ \A f \in Entities \ {e} : status'[f] = status[f]
      /\ pc' = pc /\ item' = item /\ codelet' = codelet /\ code' = code
      /\ started' = started /\ failed' = failed /\ ticked' = ticked
      /\ \A u \in Callers : item[u] # e
    BY <1>0, Domains DEF Activate, SetStatus, codelets, threads
<1>2. Left(e) /\ EntityOK(e)
    BY <1>0, <1>1 DEF ItemsLeft, Deactivated, IInv
<1>4. CallsApart'
    BY <1>0, <1>1 DEF CallsApart
<1>5. LocksHeld'
    BY <1>0, <1>1 DEF LocksHeld
<1>6. Awaited'
  <2>1. \A w \in Workers : pc[w] = "locking" => item[w] \in Entities \ {e}
    BY <1>0, <1>1 DEF Awaited, TypeOK
  <2> QED
    BY <1>0, <1>1, <2>1 DEF Awaited
<1>7. ItemsLeft'
  <2>1. \A c \in Callers : pc[c] = "free" => item[c] \in Entities \ {e}
    BY <1>0, <1>1 DEF TypeOK, Threads
  <2>2. \A f \in Entities : Deactivated(f)' => f # e /\ Deactivated(f)
    BY <1>1 DEF Deactivated
  <2> QED
    BY <1>0, <1>1, <2>1, <2>2 DEF ItemsLeft, Left
<1>8. ASSUME NEW f \in Entities PROVE EntityOK(f)'
  <2>1. CASE f = e
    <3>1. failed[e] \/ started[e] = {}
      BY <1>2 DEF Left, EntityOK, Settled, Unstarted
    <3> QED
      BY <1>1, <1>2, <2>1, <3>1 DEF EntityOK, Settled, Left, Unstarted, Ready
  <2>2. CASE f # e
    BY <1>1, <2>2, Keeps DEF IInv, CodeletsKeep
  <2> QED
    BY <2>1, <2>2
<1> QED
    BY <1>4, <1>5, <1>6, <1>7, <1>8 DEF IInv

\* This is where it matters that deactivate does not overtake a worker on its way to the lock.
LEMMA DeactivateKeeps ==
    ASSUME NEW t \in Callers, NEW e \in Entities, ~Overtaking, IInv, TypeOK', Deactivate(t, e)
    PROVE  IInv'
<1>0. /\ t \in Threads /\ pc[t] \notin Locked
      /\ TypeOK /\ CallsApart /\ LocksHeld /\ Awaited /\ ItemsLeft
    BY DEF Threads, Deactivate, IInv, Locked
<1>1. /\ e \in items /\ items' = items \ {e} /\ lock' = lock /\ status' = status
      /\ executions' = executions /\ codelets' = codelets
      /\ pc'[t] = "deactivating" /\ item'[t] = e
      /\ \A u \in Workers : item[u] = e => pc[u] \notin {"fetched", "locking"}
    BY <1>0, Domains DEF Deactivate, Goto
<1>3. ThreadsKeep(t)
    BY <1>0, Domains DEF Deactivate, ThreadsKeep, Goto
<1>4. CallsApart'
    BY <1>0, <1>1, <1>3 DEF CallsApart, ThreadsKeep, Threads
<1>5. LocksHeld'
    BY <1>0, <1>1, <1>3 DEF LocksHeld, ThreadsKeep, Locked
<1>6. Awaited'
  <2>1. \A w \in Workers : w # t /\ w \in Threads
    BY DEF Threads
  <2> QED
    BY <1>0, <1>1, <1>3, <2>1 DEF Awaited, ThreadsKeep
<1>7. ItemsLeft'
  <2>1. \A c \in Callers : pc'[c] = "free" => pc[c] = "free" /\ item'[c] = item[c]
    BY <1>0, <1>1, <1>3 DEF ThreadsKeep, Threads
  <2>2. \A f \in Entities : Deactivated(f)' => f # e /\ f \notin items
    BY <1>1 DEF Deactivated
  <2>3. \A f \in Entities : Deactivated(f)' => Deactivated(f)
    <3> SUFFICES ASSUME NEW f \in Entities, Deactivated(f)', NEW c \in Callers PROVE item[c] # f
      BY <2>2 DEF Deactivated
    <3>1. CASE c = t
      BY <1>0, <3>1 DEF CallsApart, Deactivate
    <3>2. CASE c # t
      BY <1>3, <3>2 DEF ThreadsKeep, Threads, Deactivated
    <3> QED
      BY <3>1, <3>2
  <2> QED
    BY <1>0, <1>1, <2>1, <2>3 DEF ItemsLeft, Left
<1>8. \A f \in Entities : EntityOK(f)'
    BY <1>0, <1>1, <1>3, UnlockedKeeps
<1> QED
    BY <1>4, <1>5, <1>6, <1>7, <1>8 DEF IInv

LEMMA DeactivateLockKeeps ==
    ASSUME NEW t \in Callers, IInv, TypeOK', DeactivateLock(t) PROVE IInv'
<1>0. /\ t \in Threads /\ t \notin Workers /\ pc[t] = "deactivating" /\ pc[t] \notin Locked
      /\ TypeOK /\ CallsApart /\ LocksHeld /\ Awaited /\ ItemsLeft
    BY DEF Threads, DeactivateLock, IInv, Locked
<1>1. PICK e \in Entities : e = item[t]
    BY <1>0 DEF TypeOK
<1>2. /\ e # None /\ t # None /\ lock[e] = None /\ EntityOK(e) /\ Settled(e) /\ e \notin items
      /\ \A c \in Callers : item[c] = e => c = t
    BY <1>0, <1>1 DEF DeactivateLock, IInv, EntityOK, CallsApart, Threads
<1>3. items' = items /\ item' = item /\ executions' = executions /\ codelets' = codelets
    BY DEF DeactivateLock
<1>4. ThreadsKeep(t) /\ EntitiesKeep(e)
    BY <1>0, <1>1, Domains DEF DeactivateLock, ThreadsKeep, EntitiesKeep, CodeletsKeep, BeginStop,
       Goto, SetStatus, Return, codelets
<1>5. CASE status[e] \in Stoppable
  <2>1. lock'[e] = t /\ status'[e] = "STOP_PENDING" /\ codelet'[t] = 1 /\ pc'[t] = "stop"
    BY <1>0, <1>1, <1>5, Domains DEF DeactivateLock, BeginStop, Goto, SetStatus
  <2>2. CallsApart'
    BY <1>0, <1>3, <1>4, <2>1 DEF CallsApart, ThreadsKeep, Threads
  <2>3. LocksHeld'
    <3> SUFFICES ASSUME NEW u \in Threads, pc'[u] \in Locked PROVE lock'[item'[u]] = u
      BY DEF LocksHeld
    <3>1. CASE u = t
      BY <1>1, <1>3, <2>1, <3>1
    <3>2. CASE u # t
      <4>1. pc[u] \in Locked /\ lock[item[u]] = u /\ item[u] \in Entities
        BY <1>0, <1>4, <3>2 DEF LocksHeld, ThreadsKeep, TypeOK, Locked
      <4>2. item[u] # e
        BY <1>2, <4>1 DEF Threads
      <4> QED
        BY <1>3, <1>4, <4>1, <4>2 DEF EntitiesKeep
    <3> QED
      BY <3>1, <3>2
  <2>4. Awaited'
    <3> SUFFICES ASSUME NEW w \in Workers, pc'[w] \in {"fetched", "locking"}
                 PROVE  /\ item'[w] \in items'
                        /\ pc'[w] = "locking" => status'[item'[w]] \in Ready \union {"NOT_STARTED"}
      BY DEF Awaited
    <3>1. w # t /\ pc[w] = pc'[w] /\ w \in Threads
      BY <1>0, <1>4 DEF ThreadsKeep, Threads
    <3>2. item[w] \in items /\ item[w] # e /\ item[w] \in Entities
      BY <1>0, <1>2, <3>1 DEF Awaited, TypeOK
    <3> QED
      BY <1>0, <1>3, <1>4, <3>1, <3>2 DEF Awaited, EntitiesKeep
  <2>5. ItemsLeft'
    <3>1. \A c \in Callers : pc'[c] = "free" => Left(item[c])'
      <4> SUFFICES ASSUME NEW c \in Callers, pc'[c] = "free" PROVE Left(item[c])'
        OBVIOUS
      <4>1. c # t /\ c \in Threads /\ pc[c] = "free"
        BY <1>4, <2>1 DEF ThreadsKeep, Threads
      <4>2. item[c] \in Entities \ {e} /\ Left(item[c])
        BY <1>0, <1>2, <4>1 DEF ItemsLeft, TypeOK
      <4> QED
        BY <1>3, <1>4, <4>2 DEF EntitiesKeep, Left
    <3>2. \A f \in Entities : Deactivated(f)' => f # e /\ Left(f)
      BY <1>0, <1>1, <1>3 DEF ItemsLeft, Deactivated
    <3>3. \A f \in Entities : Deactivated(f)' => Left(f)'
      BY <1>4, <3>2 DEF EntitiesKeep, Left
    <3> QED
      BY <1>3, <3>1, <3>3 DEF ItemsLeft
  <2>6. EntityOK(e)'
    <3>1. AllStarted(e)
      BY <1>2, <1>5 DEF Settled, Stoppable, Ready, Unstarted
    <3>2. Stopping(e, t)'
      BY <1>3, <2>1, <3>1 DEF Stopping, AllStarted, Codelets, codelets
    <3> QED
      BY <1>1, <1>2, <1>3, <2>1, <3>2 DEF EntityOK, Holds, Locked
  <2>7. \A f \in Entities : EntityOK(f)'
    <3> SUFFICES ASSUME NEW f \in Entities PROVE EntityOK(f)'
      OBVIOUS
    <3>1. CASE f = e
      BY <2>6, <3>1
    <3>2. CASE f # e
      BY <1>0, <1>1, <1>4, <3>2, OthersKeep DEF IInv
    <3> QED
      BY <3>1, <3>2
  <2> QED
    BY <2>2, <2>3, <2>4, <2>5, <2>7 DEF IInv
<1>6. CASE status[e] \notin Stoppable
  <2>1. lock' = lock /\ status' = status /\ pc'[t] = "free"
    BY <1>0, <1>1, <1>6, Domains DEF DeactivateLock, Goto
  <2>2. Left(e)
    BY <1>2, <1>6 DEF Left, Settled, Ready, Stoppable
  <2>3. CallsApart'
    BY <1>0, <1>3, <1>4, <2>1 DEF CallsApart, ThreadsKeep, Threads
  <2>4. LocksHeld'
    BY <1>0, <1>3, <1>4, <2>1 DEF LocksHeld, ThreadsKeep, Locked
  <2>5. Awaited'
    <3>1. \A w \in Workers : w # t /\ w \in Threads
      BY <1>0 DEF Threads
    <3> QED
      BY <1>0, <1>3, <1>4, <2>1, <3>1 DEF Awaited, ThreadsKeep
  <2>6. ItemsLeft'
    <3>1. \A c \in Callers : pc'[c] = "free" => Left(item[c])
      <4> SUFFICES ASSUME NEW c \in Callers, pc'[c] = "free" PROVE Left(item[c])
        OBVIOUS
      <4>1. CASE c = t
        BY <1>1, <2>2, <4>1
      <4>2. CASE c # t
        BY <1>0, <1>4, <4>2 DEF ItemsLeft, ThreadsKeep, Threads
      <4> QED
        BY <4>1, <4>2
    <3>2. \A f \in Entities : Deactivated(f)' => Left(f)
      BY <1>0, <1>3 DEF ItemsLeft, Deactivated
    <3> QED
      BY <1>3, <2>1, <3>1, <3>2 DEF ItemsLeft, Left
  <2>7. \A f \in Entities : EntityOK(f)'
    BY <1>0, <1>3, <1>4, <2>1, UnlockedKeeps
  <2> QED
    BY <2>3, <2>4, <2>5, <2>6, <2>7 DEF IInv
<1> QED
    BY <1>5, <1>6

\* The workers that are left with the address have no lock: nobody is at the item any more.
LEMMA FreeKeeps ==
    ASSUME NEW t \in Callers, IInv, TypeOK', Free(t) PROVE IInv'
<1>0. /\ t \in Threads /\ t \notin Workers /\ pc[t] = "free"
      /\ TypeOK /\ CallsApart /\ LocksHeld /\ Awaited /\ ItemsLeft
    BY DEF Threads, Free, IInv
<1>1. PICK e \in Entities : e = item[t]
    BY <1>0 DEF TypeOK
<1>2. Left(e) /\ lock[e] = None
    BY <1>0, <1>1 DEF ItemsLeft, Left
<1>3. /\ items' = items /\ status' = status /\ executions' = executions /\ codelets' = codelets
      /\ pc'[t] = "idle" /\ item'[t] = None
      /\ \A f \in Entities : lock'[f] = lock[f]
      /\ \A u \in Threads \ {t} : item'[u] = item[u] /\ codelet'[u] = codelet[u] /\ code'[u] = code[u]
      /\ \A u \in Threads \ {t} : pc'[u] = pc[u] \/ (u \in Workers /\ item[u] = e /\ pc'[u] = "dangling")
    BY <1>0, <1>1, <1>2, Domains DEF Free, Forget
<1>4. \A u \in Threads \ {t} : pc[u] \in Locked => pc'[u] = pc[u] /\ item[u] \in Entities
  <2> SUFFICES ASSUME NEW u \in Threads \ {t}, pc[u] \in Locked
               PROVE  pc'[u] = pc[u] /\ item[u] \in Entities
    OBVIOUS
  <2>1. lock[item[u]] = u /\ u # None /\ item[u] \in Entities
    BY <1>0 DEF LocksHeld, Threads, TypeOK, Locked
  <2> QED
    BY <1>2, <1>3, <2>1
<1>5. CallsApart'
  <2>1. \A u \in Threads \ {t} : pc'[u] = "idle" => item'[u] = None
    BY <1>0, <1>3 DEF CallsApart
  <2>2. \A u \in Workers : u # t /\ item'[u] = item[u]
    BY <1>0, <1>3 DEF Threads
  <2>3. \A c \in Callers : item'[c] = None \/ (c # t /\ item'[c] = item[c])
    BY <1>3 DEF Threads
  <2>4. \A c \in Callers : item'[c] \notin items'
    BY <1>0, <1>3, <2>3 DEF CallsApart, TypeOK
  <2>5. \A c, d \in Callers : item'[c] = item'[d] /\ item'[c] # None => c = d
    BY <1>0, <2>3 DEF CallsApart
  <2>6. \A u, v \in Workers : item'[u] = item'[v] /\ item'[u] # None => u = v
    BY <1>0, <2>2 DEF CallsApart
  <2> QED
    BY <1>3, <2>1, <2>4, <2>5, <2>6 DEF CallsApart
<1>6. LocksHeld'
  <2> SUFFICES ASSUME NEW u \in Threads, pc'[u] \in Locked PROVE lock'[item'[u]] = u
    BY DEF LocksHeld
  <2>1. u # t /\ pc[u] \in Locked
    BY <1>3 DEF Locked
  <2> QED
    BY <1>0, <1>3, <1>4, <2>1 DEF LocksHeld
<1>7. Awaited'
  <2>1. \A w \in Workers : w # t /\ w \in Threads
    BY <1>0 DEF Threads
  <2>2. \A w \in Workers : pc'[w] \in {"fetched", "locking"} => pc'[w] = pc[w] /\ item'[w] = item[w]
    BY <1>3, <2>1
  <2> QED
    BY <1>0, <1>3, <2>2 DEF Awaited
<1>8. ItemsLeft'
  <2>1. \A f \in Entities : Left(f)' <=> Left(f)
    BY <1>3 DEF Left
  <2>2. \A c \in Callers : pc'[c] = "free" => c # t /\ pc[c] = "free" /\ item'[c] = item[c] /\ item[c] \in Entities
    BY <1>0, <1>3 DEF Threads, TypeOK
  <2>3. \A c \in Callers : pc'[c] = "free" => lock'[item'[c]] = None /\ status'[item'[c]] \in Unstarted
    BY <1>0, <1>3, <2>2 DEF ItemsLeft, Left
  <2>4. \A f \in Entities : Deactivated(f)' => f = e \/ Deactivated(f)
    BY <1>1, <1>3 DEF Deactivated, Threads
  <2>5. \A f \in Entities : Deactivated(f)' => lock'[f] = None /\ status'[f] \in Unstarted
    BY <1>0, <1>2, <1>3, <2>4 DEF ItemsLeft, Left
  <2> QED
    BY <2>3, <2>5 DEF ItemsLeft, Left
<1>9. ASSUME NEW f \in Entities PROVE EntityOK(f)'
  <2>1. lock[f] # None => lock[f] \in Threads \ {t} /\ pc[lock[f]] \in Locked
    BY <1>0 DEF IInv, EntityOK, TypeOK, Locked
  <2>2. CodeletsKeep(f) /\ EntityOK(f)
    BY <1>3 DEF codelets, CodeletsKeep, IInv
  <2> QED
    BY <1>3, <1>4, <2>1, <2>2, Keeps
<1> QED
    BY <1>5, <1>6, <1>7, <1>8, <1>9 DEF IInv

(* -- The invariant -------------------------------------------------------*)

LEMMA InvInit == Init => IInv
<1> SUFFICES ASSUME Init PROVE IInv
    OBVIOUS
<1>1. TypeOK
    BY TypeInit
<1>2. CallsApart /\ LocksHeld /\ Awaited /\ ItemsLeft
    BY DEF Init, CallsApart, LocksHeld, Awaited, ItemsLeft, Left, Unstarted, Locked, Threads
<1>3. \A e \in Entities : EntityOK(e)
    BY DEF Init, EntityOK, Settled, Ready, Unstarted
<1> QED
    BY <1>1, <1>2, <1>3 DEF IInv

LEMMA InvStep == ~Overtaking /\ IInv /\ [Next]_vars => IInv'
<1> SUFFICES ASSUME ~Overtaking, IInv, [Next]_vars PROVE IInv'
    OBVIOUS
<1>0. TypeOK'
    BY TypeStep DEF IInv
<1>1. ASSUME NEW t \in Workers, Execute(t) PROVE IInv'
  <2>1. t \in Threads
    BY DEF Threads
  <2> QED
    BY <1>0, <1>1, <2>1, CheckStatusKeeps, ExecuteLockKeeps, StartCodeletKeeps, CheckKeeps,
       SyncInboxKeeps, TickCodeletKeeps, ControlKeeps, StopCodeletKeeps, MonitorKeeps DEF Execute
<1>2. ASSUME NEW t \in Callers, EndDeactivation(t) PROVE IInv'
  <2>1. t \in Threads
    BY DEF Threads
  <2> QED
    BY <1>0, <1>2, <2>1, DeactivateLockKeeps, StopCodeletKeeps, FreeKeeps DEF EndDeactivation
<1>3. ASSUME NEW t \in Threads, NEW e \in Entities,
             \/ t \in Workers /\ ExecuteEntity(t, e)
             \/ t \in Callers /\ (Activate(t, e) \/ Deactivate(t, e))
      PROVE  IInv'
    BY <1>0, <1>3, ExecuteEntityKeeps, ActivateKeeps, DeactivateKeeps
<1>4. CASE UNCHANGED vars
  <2>1. /\ UNCHANGED item_vars /\ UNCHANGED codelets /\ UNCHANGED threads
    BY <1>4 DEF vars
  <2>2. CallsApart' /\ LocksHeld' /\ Awaited' /\ ItemsLeft'
    BY <2>1 DEF IInv, CallsApart, LocksHeld, Awaited, ItemsLeft, Left, Deactivated, item_vars, threads
  <2>3. ASSUME NEW f \in Entities PROVE EntityOK(f)'
    BY <2>1, Keeps DEF IInv, CodeletsKeep, item_vars, codelets, threads
  <2> QED
    BY <1>0, <2>2, <2>3 DEF IInv
<1> QED
    BY <1>1, <1>2, <1>3, <1>4 DEF Next, Threads

\* The status of an item tells how far its codelets are, whoever calls whatever.
THEOREM InvariantHolds ==
    ASSUME ~Overtaking
    PROVE  Spec => []IInv
<1>1. IInv /\ [Next]_vars => IInv'
    BY InvStep
<1> QED
    BY <1>1, InvInit, PTL DEF Spec

\* An entity that is deactivated has no codelet left started unless one failed to start.
THEOREM DeactivatedIsStopped ==
    ASSUME ~Overtaking
    PROVE  Spec => []NoneLeftStarted
<1>1. IInv => NoneLeftStarted
  <2> SUFFICES ASSUME IInv, NEW e \in Entities, Deactivated(e), ~failed[e] PROVE started[e] = {}
    BY DEF NoneLeftStarted
  <2>1. lock[e] = None /\ status[e] \in Unstarted /\ Settled(e)
    BY DEF IInv, ItemsLeft, Left, EntityOK
  <2> QED
    BY <2>1 DEF Settled, Unstarted
<1> QED
    BY <1>1, InvariantHolds, PTL

\* The first tick of a codelet after its start is the one isFirstTick says is the first.
THEOREM FirstTickCounts ==
    ASSUME ~Overtaking
    PROVE  Spec => []FirstTickIsCounted
<1>1. IInv => FirstTickIsCounted
  <2> SUFFICES ASSUME IInv, NEW t \in Workers, pc[t] = "tick",
                      item[t] \in Controlled => NumCodelets[item[t]] = 1
               PROVE  ticked[item[t]][codelet[t]] = 0 <=> executions[item[t]] = 1
    BY DEF FirstTickIsCounted
  <2>0. t \in Threads /\ pc[t] \in Locked /\ TypeOK
    BY DEF Threads, Locked, IInv
  <2>1. PICK e \in Entities : e = item[t]
    BY <2>0, Held
  <2>2. Ticking(e, t) /\ Counts(e)
    BY <2>0, <2>1, Held DEF Holds, Counts
  <2>3. PICK i \in Codelets(e) : i = codelet[t]
    BY <2>0, <2>1, NextCodelet
  <2>4. i \in Nat /\ ~(i < i)
    BY <2>3, CodeletsNat DEF Codelets
  <2>5. executions[e] = Once(ticked[e][i])
    BY <2>2, <2>3, <2>4 DEF Ticking
  <2>6. ticked[e][i] \in 0 .. 2
    BY <2>0 DEF TypeOK
  <2> QED
    BY <2>1, <2>3, <2>5, <2>6 DEF Once
<1> QED
    BY <1>1, InvariantHolds, PTL

(* -- The contract of a codelet -------------------------------------------*)

LEMMA StartIsStart ==
    ASSUME IInv, NEW t \in Workers, StartCodelet(t)
    PROVE  Contract!Next
<1>0. t \in Threads /\ pc[t] = "start" /\ pc[t] \in Locked /\ TypeOK
    BY DEF Threads, StartCodelet, Locked, IInv
<1>1. PICK e \in Entities : e = item[t]
    BY <1>0, Held
<1>2. Starting(e, t)
    BY <1>0, <1>1, Held DEF Holds
<1>3. PICK i \in Codelets(e) : i = codelet[t]
    BY <1>0, <1>1, NextCodelet
<1>4. i \in Nat /\ i >= 1
    BY <1>3, CodeletsNat DEF Codelets
<1>5. \/ ~failed[e] /\ started[e] = 1 .. (i - 1)
      \/ failed[e] /\ i = 1
    BY <1>0, <1>2, <1>3 DEF Starting, TypeOK
<1>6. (IF failed[e] THEN {} ELSE started[e]) \union {i} = 1 .. i
    BY <1>4, <1>5
<1>7. /\ started' = [started EXCEPT ![e] = 1 .. i]
      /\ ticked' = [ticked EXCEPT ![e][i] = 0]
      /\ \E b \in BOOLEAN : failed' = [failed EXCEPT ![e] = b]
    BY <1>0, <1>1, <1>3, <1>6 DEF StartCodelet
<1>8. Contract!Start(e, i)
    BY <1>5, <1>7 DEF Contract!Start
<1> QED
    BY <1>3, <1>8 DEF Contract!Next, Contract!Codelets, Codelets

LEMMA TickIsTick ==
    ASSUME IInv, NEW t \in Workers, TickCodelet(t)
    PROVE  Contract!Next
<1>0. t \in Threads /\ pc[t] = "tick" /\ pc[t] \in Locked /\ TypeOK
    BY DEF Threads, TickCodelet, Locked, IInv
<1>1. PICK e \in Entities : e = item[t]
    BY <1>0, Held
<1>2. AllStarted(e)
    BY <1>0, <1>1, Held DEF Holds, Ticking
<1>3. PICK i \in Codelets(e) : i = codelet[t]
    BY <1>0, <1>1, NextCodelet
<1>4. /\ ticked' = [ticked EXCEPT ![e][i] = Once(ticked[e][i])]
      /\ started' = started /\ failed' = failed
    BY <1>1, <1>3 DEF TickCodelet
<1>5. Contract!Tick(e, i)
    BY <1>2, <1>4 DEF Contract!Tick, Contract!Once, Contract!Codelets, Once, Codelets, AllStarted
<1> QED
    BY <1>3, <1>5 DEF Contract!Next, Contract!Codelets, Codelets

LEMMA StopIsStop ==
    ASSUME IInv, NEW t \in Threads, StopCodelet(t)
    PROVE  Contract!Next
<1>0. pc[t] = "stop" /\ pc[t] \in Locked /\ TypeOK
    BY DEF StopCodelet, Locked, IInv
<1>1. PICK e \in Entities : e = item[t]
    BY <1>0, Held
<1>2. Stopping(e, t)
    BY <1>0, <1>1, Held DEF Holds
<1>3. PICK i \in Codelets(e) : i = codelet[t]
    BY <1>0, <1>1, NextCodelet
<1>4. /\ started' = [started EXCEPT ![e] = started[e] \ {i}]
      /\ ticked' = [ticked EXCEPT ![e][i] = 0]
      /\ failed' = failed
    BY <1>1, <1>3 DEF StopCodelet
<1>5. Contract!Stop(e, i)
    BY <1>2, <1>3, <1>4 DEF Contract!Stop, Stopping
<1> QED
    BY <1>3, <1>5 DEF Contract!Next, Contract!Codelets, Codelets

\* Only starting, ticking and stopping a codelet calls one.
LEMMA StepKeepsContract == IInv /\ [Next]_vars => [Contract!Next]_<<started, failed, ticked>>
<1> SUFFICES ASSUME IInv, [Next]_vars, ~(UNCHANGED <<started, failed, ticked>>)
             PROVE  Contract!Next
    OBVIOUS
<1>1. ASSUME NEW t \in Workers, Execute(t) PROVE Contract!Next
  <2>1. StartCodelet(t) \/ TickCodelet(t) \/ StopCodelet(t)
    BY <1>1 DEF Execute, CheckStatus, ExecuteLock, Check, SyncInbox, Control, Monitor, codelets
  <2>2. t \in Threads
    BY DEF Threads
  <2> QED
    BY <2>1, <2>2, StartIsStart, TickIsTick, StopIsStop
<1>2. ASSUME NEW t \in Callers, EndDeactivation(t) PROVE Contract!Next
  <2>1. StopCodelet(t)
    BY <1>2 DEF EndDeactivation, DeactivateLock, Free, codelets
  <2>2. t \in Threads
    BY DEF Threads
  <2> QED
    BY <2>1, <2>2, StopIsStop
<1>3. ASSUME NEW t \in Threads, NEW e \in Entities,
             ExecuteEntity(t, e) \/ Activate(t, e) \/ Deactivate(t, e)
      PROVE  Contract!Next
    BY <1>3 DEF ExecuteEntity, Activate, Deactivate, codelets
<1>4. CASE UNCHANGED vars
    BY <1>4 DEF vars, codelets
<1> QED
    BY <1>1, <1>2, <1>3, <1>4 DEF Next, Threads

\* Codelets are started, ticked and stopped in the order their author is promised.
THEOREM CodeletsKeepContract ==
    ASSUME ~Overtaking
    PROVE  Spec => KeepsContract
<1>1. Init => Contract!Init
    BY DEF Init, Contract!Init, Contract!Codelets, Codelets
<1>2. Spec => []IInv
    BY InvariantHolds
<1>3. IInv /\ [Next]_vars => [Contract!Next]_<<started, failed, ticked>>
    BY StepKeepsContract
<1> QED
    BY <1>1, <1>2, <1>3, PTL DEF Spec, KeepsContract, Contract!Spec

-------------------------------------------------------------------------------
(* Part 2: Program. *)

OneWaiter == Waiters = {Main}

States == {"ORIGIN", "ACTIVATING", "ACTIVATED", "STARTING", "RUNNING", "INTERRUPTING",
           "DEINITALIZING"}
MainSteps == {"idle", "activate", "run", "started", "waiting", "waited", "exchange",
              "deactivate", "remove", "deinitialize", "dropped"}

ProgramTypes ==
    /\ state \in States
    /\ call \in [Callers -> MainSteps \union {"stop"}] /\ call[Main] \in MainSteps
    /\ eids \in [Callers -> SUBSET All]
    /\ eid \in [Callers -> All \union {None}]
    /\ unscheduled \in SUBSET All /\ scheduled \in SUBSET All
    /\ schedulers \in SUBSET All /\ initialized \in SUBSET All
    /\ running \in BOOLEAN

Clean ==
    /\ unscheduled = All /\ scheduled = {}
    /\ initialized = {} /\ items = {}
    /\ schedulers = {} /\ systems = {}
    /\ ~running

Activated == unscheduled = {} /\ scheduled = All /\ initialized = All

\* What a deactivation has yet to come to.
Remaining ==
    /\ unscheduled \union scheduled = All
    /\ scheduled \subseteq eids[Main] /\ schedulers \subseteq eids[Main]

Phase ==
    /\ call[Main] = "idle" =>
          \/ state = "ORIGIN" /\ Clean
          \/ state \in {"ACTIVATED", "RUNNING", "INTERRUPTING"} /\ Activated
    /\ call[Main] = "activate" =>
          /\ state = "ACTIVATING" /\ last = "activate"
          /\ initialized = scheduled /\ unscheduled \union scheduled = All
    /\ call[Main] \in {"run", "started"} => state = "STARTING" /\ last = "run" /\ Activated
    /\ call[Main] \in {"waiting", "waited", "exchange"} =>
          state \in {"RUNNING", "INTERRUPTING"} /\ Activated
    /\ call[Main] \in {"deactivate", "remove", "deinitialize"} => state = "DEINITALIZING" /\ Remaining
    /\ call[Main] = "deactivate" => initialized \subseteq eids[Main]
    /\ call[Main] \in {"remove", "deinitialize"} =>
          initialized \subseteq eids[Main] \union {eid[Main]}
    /\ call[Main] = "deinitialize" => eid[Main] \notin items
    /\ call[Main] = "dropped" => state = "DEINITALIZING"
    /\ call[Main] # "dropped" => items \subseteq initialized

RunPhase ==
    running => /\ call[Main] \in {"started", "idle", "waiting"}
               /\ call[Main] = "idle" => last = "run"
               /\ state \in {"STARTING", "RUNNING", "INTERRUPTING"}

Others == \A c \in Callers \ {Main} : call[c] \in {"idle", "stop"} /\ pc[c] = "idle"

WorkersRun ==
    \A w \in Workers : IF pc[w] = "idle" THEN item[w] = None
                       ELSE running /\ pc[w] # "dangling"

MainDeactivates ==
    pc[Main] # "idle" =>
        call[Main] = "deinitialize" /\ item[Main] = eid[Main] /\ eid[Main] \in initialized

PInv ==
    /\ TypeOK /\ ProgramTypes
    /\ Phase /\ RunPhase
    /\ Others /\ WorkersRun /\ MainDeactivates

(* -- The steps of the executor -------------------------------------------*)

\* Every step of the program is one of the entity executor, or leaves it alone.
LEMMA ExecutorStep == TypeOK /\ [ProgramNext]_allvars => [Next]_vars
<1> SUFFICES ASSUME TypeOK, [ProgramNext]_allvars PROVE [Next]_vars
    OBVIOUS
<1>0. items \subseteq Entities
    BY DEF TypeOK
<1>1. CASE Run
    <2>1. ASSUME NEW w \in Workers, Pick(w) PROVE Next
        <3>1. PICK e \in jobs : ExecuteEntity(w, e)
            BY <2>1 DEF Pick
        <3>2. e \in Entities
            BY <3>1, <1>0 DEF ExecuteEntity
        <3> QED
            BY <3>1, <3>2 DEF Next
    <2>2. ASSUME NEW w \in Workers, Work(w) PROVE Next
        BY <2>2 DEF Work, Next
    <2>3. ASSUME NEW w \in Workers, Executed(w) PROVE Next
        BY <2>3 DEF Executed, Execute, Next
    <2>4. CASE EndRun
        BY <2>4 DEF EndRun
    <2> QED
        BY <1>1, <2>1, <2>2, <2>3, <2>4 DEF Run
<1>2. CASE GraphActivate \/ GraphRunAsync \/ GraphDeactivate
    BY <1>2 DEF GraphActivate, GraphRunAsync, GraphDeactivate
<1>3. CASE \E c \in Callers : GraphInterrupt(c) \/ GraphWait(c)
    BY <1>3 DEF GraphInterrupt, GraphWait
<1>4. ASSUME NEW c \in Callers, Proceed(c) PROVE [Next]_vars
    <2>1. CASE c = Main /\ (EndActivate \/ RunSystems \/ Started)
        BY <2>1 DEF EndActivate, RunSystems, Started
    <2>2. ASSUME NEW x \in All, c = Main, ActivateEntity(x) PROVE [Next]_vars
        <3>1. CASE UNCHANGED vars
            BY <3>1
        <3>2. CASE x # Scheduler /\ Activate(Main, x)
            <4>1. x \in Entities /\ Main \in Callers
                BY <3>2, MainAssumption DEF All
            <4> QED
                BY <3>2, <4>1 DEF Next
        <3> QED
            BY <2>2, <3>1, <3>2 DEF ActivateEntity
    <2>3. CASE StopSystems(c) \/ WaitSystems(c) \/ LoadState(c) \/ ExchangeState(c)
        BY <2>3 DEF StopSystems, WaitSystems, LoadState, ExchangeState
    <2>4. CASE Deinitialize(c) \/ EndDeactivate(c) \/ \E x \in All : UnscheduleEntity(c, x)
        BY <2>4 DEF Deinitialize, EndDeactivate, UnscheduleEntity
    <2>5. CASE RemoveItem(c)
        <3>1. CASE Deactivate(c, eid[c])
            <4>1. eid[c] \in Entities
                BY <3>1, <1>0 DEF Deactivate
            <4> QED
                BY <3>1, <4>1 DEF Next
        <3> QED
            BY <2>5, <3>1 DEF RemoveItem
    <2>6. CASE StopItem(c)
        BY <2>6 DEF StopItem, Next
    <2> QED
        BY <1>4, <2>1, <2>2, <2>3, <2>4, <2>5, <2>6 DEF Proceed, Deactivation
<1>5. CASE UNCHANGED allvars
    BY <1>5 DEF allvars
<1> QED
    BY <1>1, <1>2, <1>3, <1>4, <1>5, MainAssumption DEF ProgramNext

\* What a step of a worker in an execution leaves alone.
WorkerFrame(w) ==
    /\ items' = items
    /\ \A u \in Threads \ {w} : pc'[u] = pc[u] /\ item'[u] = item[u]
    /\ pc'[w] # "dangling"
    /\ pc'[w] = "idle" => item'[w] = None

\* A step that neither ends an execution nor dangles.
LEMMA ExecuteFrame ==
    ASSUME TypeOK, NEW w \in Workers, Execute(w), pc[w] # "dangling"
    PROVE  WorkerFrame(w)
<1> USE DEF WorkerFrame, Goto, Leave, BeginStop, item_vars, codelets
<1>0. /\ w \in Threads /\ pc[w] \in WorkerSteps
      /\ DOMAIN pc = Threads /\ DOMAIN item = Threads
    BY DEF TypeOK, Threads
<1>1. CASE CheckStatus(w)
    BY <1>0, <1>1 DEF CheckStatus
<1>2. CASE ExecuteLock(w)
    BY <1>0, <1>2 DEF ExecuteLock
<1>3. CASE StartCodelet(w)
    BY <1>0, <1>3 DEF StartCodelet
<1>4. CASE Check(w)
    BY <1>0, <1>4 DEF Check
<1>5. CASE SyncInbox(w)
    BY <1>0, <1>5 DEF SyncInbox, TickReturns
<1>6. CASE TickCodelet(w)
    BY <1>0, <1>6 DEF TickCodelet, TickReturns
<1>7. CASE Control(w)
    BY <1>0, <1>7 DEF Control
<1>8. CASE StopCodelet(w)
    BY <1>0, <1>8 DEF StopCodelet
<1>9. CASE Monitor(w)
    BY <1>0, <1>9 DEF Monitor, Forget
<1> QED
    BY <1>1, <1>2, <1>3, <1>4, <1>5, <1>6, <1>7, <1>8, <1>9 DEF Execute

LEMMA WorkerKeeps ==
    ASSUME PInv, TypeOK', NEW w \in Workers, WorkerFrame(w), running,
           UNCHANGED <<program, running, calls>>
    PROVE  PInv'
<1>1. Main \in Callers /\ \A c \in Callers : c \in Threads \ {w}
    BY MainAssumption, ThreadsAssumption DEF Threads
<1>2. ProgramTypes' /\ Phase' /\ RunPhase'
    BY DEF PInv, ProgramTypes, Phase, RunPhase, Clean, Activated, Remaining, WorkerFrame,
           program, calls
<1>3. Others' /\ MainDeactivates'
    BY <1>1 DEF PInv, Others, MainDeactivates, WorkerFrame, program, calls
<1>4. WorkersRun'
    <2> SUFFICES ASSUME NEW v \in Workers
                 PROVE  IF pc'[v] = "idle" THEN item'[v] = None
                        ELSE running' /\ pc'[v] # "dangling"
        BY DEF WorkersRun
    <2>1. CASE v = w
        BY <2>1 DEF WorkerFrame
    <2>2. CASE v # w
        BY <2>2 DEF PInv, WorkersRun, WorkerFrame, Threads
    <2> QED
        BY <2>1, <2>2
<1> QED
    BY <1>2, <1>3, <1>4 DEF PInv

LEMMA RunKeeps == ASSUME PInv, TypeOK', Run PROVE PInv'
<1>1. ASSUME NEW w \in Workers, Pick(w) PROVE PInv'
    <2>1. PICK e \in jobs : ExecuteEntity(w, e)
        BY <1>1 DEF Pick
    <2>2. WorkerFrame(w)
        BY <2>1 DEF ExecuteEntity, WorkerFrame, Goto, item_vars, PInv, TypeOK, Threads
    <2> QED
        BY <1>1, <2>2, WorkerKeeps DEF Pick, scheduler
<1>2. ASSUME NEW w \in Workers, Work(w) \/ Executed(w) PROVE PInv'
    <2>1. Execute(w)
        BY <1>2 DEF Work, Executed, Execute
    <2>2. pc[w] # "idle"
        BY <2>1 DEF Execute, CheckStatus, ExecuteLock, StartCodelet, Check, SyncInbox,
                    TickCodelet, Control, StopCodelet, Monitor
    <2>3. running /\ pc[w] # "dangling"
        BY <2>2 DEF PInv, WorkersRun
    <2>4. WorkerFrame(w)
        BY <2>1, <2>3, ExecuteFrame DEF PInv
    <2> QED
        BY <1>2, <2>3, <2>4, WorkerKeeps DEF Work, Executed, scheduler
<1>3. CASE EndRun
    <2> USE <1>3 DEF PInv, EndRun, vars, item_vars, threads, program, calls
    <2>1. ProgramTypes' /\ Phase' /\ RunPhase'
        BY DEF ProgramTypes, Phase, RunPhase, Clean, Activated, Remaining
    <2>2. Others' /\ MainDeactivates' /\ WorkersRun'
        BY DEF Others, MainDeactivates, WorkersRun
    <2> QED
        BY <2>1, <2>2
<1> QED
    BY <1>1, <1>2, <1>3 DEF Run

(* -- The steps of the callers --------------------------------------------*)

\* The steps of Main, and of others, that leave the executor alone.
Idle ==
    /\ UNCHANGED vars
    /\ \A c \in Callers \ {Main} : call'[c] \in {"idle", "stop"}

LEMMA IdleKeeps ==
    ASSUME PInv, TypeOK', Idle, running => running',
           call'[Main] = "deinitialize" \/ pc[Main] = "idle",
           UNCHANGED <<eid, initialized>> \/ pc[Main] = "idle"
    PROVE  Others' /\ WorkersRun' /\ MainDeactivates'
<1> USE DEF PInv, Idle, vars, threads
<1>1. Others'
    BY DEF Others
<1>2. WorkersRun'
    BY DEF WorkersRun
<1>3. MainDeactivates'
    BY DEF MainDeactivates
<1> QED
    BY <1>1, <1>2, <1>3

\* Main is not in the executor unless it deinitializes an entity.
LEMMA MainIdle == PInv /\ call[Main] # "deinitialize" => pc[Main] = "idle"
BY DEF PInv, MainDeactivates

\* What a call of Main changes: nothing but its own next step.
LEMMA MainCalls ==
    ASSUME ProgramTypes, Others, NEW step, Then(Main, step)
    PROVE  /\ call'[Main] = step
           /\ \A c \in Callers \ {Main} : call'[c] = call[c] /\ call'[c] \in {"idle", "stop"}
           /\ step \in MainSteps => call' \in [Callers -> MainSteps \union {"stop"}]
BY MainAssumption DEF Then, ProgramTypes, Others

LEMMA MainSets ==
    ASSUME ProgramTypes, NEW f, f \in [Callers -> SUBSET All], NEW S \in SUBSET All
    PROVE  /\ [f EXCEPT ![Main] = S] \in [Callers -> SUBSET All]
           /\ [f EXCEPT ![Main] = S][Main] = S
BY MainAssumption

LEMMA BeginDeactivateKeeps ==
    ASSUME PInv, TypeOK', BeginDeactivate(Main), UNCHANGED vars, ~running, ~running',
           running' \in BOOLEAN,
           call[Main] \in MainSteps \ {"deactivate", "remove", "deinitialize", "dropped"},
           UNCHANGED <<unscheduled, scheduled, schedulers, initialized, eid>>
    PROVE  PInv'
<1>1. /\ ProgramTypes /\ Others /\ pc[Main] = "idle"
    BY MainIdle DEF PInv
<1>2. /\ call'[Main] = "deactivate" /\ call' \in [Callers -> MainSteps \union {"stop"}]
      /\ \A c \in Callers \ {Main} : call'[c] \in {"idle", "stop"}
    BY <1>1, MainCalls DEF BeginDeactivate, MainSteps
<1>3. unscheduled \union scheduled = All /\ items \subseteq initialized
    BY DEF PInv, Phase, Clean, Activated, ProgramTypes, MainSteps
<1>4. eids'[Main] = All /\ eids' \in [Callers -> SUBSET All]
    BY <1>1, <1>3, MainAssumption DEF BeginDeactivate, ProgramTypes
<1>5. ProgramTypes'
    BY <1>1, <1>2, <1>4 DEF ProgramTypes, BeginDeactivate, States, MainSteps
<1>6. Phase'
    BY <1>1, <1>2, <1>3, <1>4
       DEF Phase, Remaining, BeginDeactivate, ProgramTypes, vars, item_vars
<1>7. RunPhase'
    BY DEF RunPhase
<1>8. Others' /\ WorkersRun' /\ MainDeactivates'
    BY <1>1, <1>2, IdleKeeps DEF Idle
<1> QED
    BY <1>5, <1>6, <1>7, <1>8 DEF PInv

LEMMA EndActivateKeeps == ASSUME PInv, TypeOK', EndActivate PROVE PInv'
<1>1. ProgramTypes /\ Others /\ pc[Main] = "idle"
    BY MainIdle DEF PInv, EndActivate
<1>2. /\ call'[Main] = "idle" /\ call' \in [Callers -> MainSteps \union {"stop"}]
      /\ \A c \in Callers \ {Main} : call'[c] \in {"idle", "stop"}
    BY <1>1, MainCalls DEF EndActivate, MainSteps
<1>3. ProgramTypes'
    BY <1>1, <1>2 DEF ProgramTypes, EndActivate, States, MainSteps, scheduler
<1>4. Phase'
    BY <1>1, <1>2 DEF PInv, Phase, Clean, Activated, Remaining, EndActivate, vars, item_vars, scheduler
<1>5. RunPhase'
    BY <1>1, <1>2 DEF PInv, Phase, RunPhase, EndActivate, scheduler
<1>6. Others' /\ WorkersRun' /\ MainDeactivates'
    BY <1>1, <1>2, IdleKeeps DEF Idle, EndActivate, scheduler
<1> QED
    BY <1>3, <1>4, <1>5, <1>6 DEF PInv

LEMMA GraphRunAsyncKeeps == ASSUME PInv, TypeOK', GraphRunAsync PROVE PInv'
<1>1. ProgramTypes /\ Others /\ pc[Main] = "idle"
    BY MainIdle DEF PInv, GraphRunAsync
<1>2. /\ call'[Main] = "run" /\ call' \in [Callers -> MainSteps \union {"stop"}]
      /\ \A c \in Callers \ {Main} : call'[c] \in {"idle", "stop"}
    BY <1>1, MainCalls DEF GraphRunAsync, MainSteps
<1>3. ProgramTypes'
    BY <1>1, <1>2 DEF ProgramTypes, GraphRunAsync, States, MainSteps, scheduler
<1>4. Phase'
    BY <1>1, <1>2 DEF PInv, Phase, Clean, Activated, Remaining, GraphRunAsync, vars, item_vars, scheduler
<1>5. RunPhase'
    BY <1>1, <1>2 DEF PInv, Phase, RunPhase, GraphRunAsync, scheduler
<1>6. Others' /\ WorkersRun' /\ MainDeactivates'
    BY <1>1, <1>2, IdleKeeps DEF Idle, GraphRunAsync, scheduler
<1> QED
    BY <1>3, <1>4, <1>5, <1>6 DEF PInv

LEMMA StartedKeeps == ASSUME PInv, TypeOK', Started PROVE PInv'
<1>1. ProgramTypes /\ Others /\ pc[Main] = "idle"
    BY MainIdle DEF PInv, Started
<1>2. /\ call'[Main] = "idle" /\ call' \in [Callers -> MainSteps \union {"stop"}]
      /\ \A c \in Callers \ {Main} : call'[c] \in {"idle", "stop"}
    BY <1>1, MainCalls DEF Started, MainSteps
<1>3. ProgramTypes'
    BY <1>1, <1>2 DEF ProgramTypes, Started, States, MainSteps, scheduler
<1>4. Phase'
    BY <1>1, <1>2 DEF PInv, Phase, Clean, Activated, Remaining, Started, vars, item_vars, scheduler
<1>5. RunPhase'
    BY <1>1, <1>2 DEF PInv, Phase, RunPhase, Started, scheduler
<1>6. Others' /\ WorkersRun' /\ MainDeactivates'
    BY <1>1, <1>2, IdleKeeps DEF Idle, Started, scheduler
<1> QED
    BY <1>3, <1>4, <1>5, <1>6 DEF PInv

LEMMA LoadStateKeeps == ASSUME PInv, TypeOK', LoadState(Main) PROVE PInv'
<1>1. ProgramTypes /\ Others /\ pc[Main] = "idle"
    BY MainIdle DEF PInv, LoadState
<1>2. /\ call'[Main] = "exchange" /\ call' \in [Callers -> MainSteps \union {"stop"}]
      /\ \A c \in Callers \ {Main} : call'[c] \in {"idle", "stop"}
    BY <1>1, MainCalls DEF LoadState, MainSteps
<1>3. ProgramTypes'
    BY <1>1, <1>2 DEF ProgramTypes, LoadState, States, MainSteps, program, scheduler
<1>4. Phase'
    BY <1>1, <1>2 DEF PInv, Phase, Clean, Activated, Remaining, LoadState, vars, item_vars, program, scheduler
<1>5. RunPhase'
    BY <1>1, <1>2 DEF PInv, Phase, RunPhase, LoadState, program, scheduler
<1>6. Others' /\ WorkersRun' /\ MainDeactivates'
    BY <1>1, <1>2, IdleKeeps DEF Idle, LoadState, program, scheduler
<1> QED
    BY <1>3, <1>4, <1>5, <1>6 DEF PInv

LEMMA ExchangeStateKeeps == ASSUME PInv, TypeOK', ExchangeState(Main) PROVE PInv'
<1>1. ProgramTypes /\ Others /\ pc[Main] = "idle"
    BY MainIdle DEF PInv, ExchangeState
<1>2. /\ call'[Main] = "idle" /\ call' \in [Callers -> MainSteps \union {"stop"}]
      /\ \A c \in Callers \ {Main} : call'[c] \in {"idle", "stop"}
    BY <1>1, MainCalls DEF ExchangeState, MainSteps
<1>3. ProgramTypes'
    BY <1>1, <1>2 DEF ProgramTypes, ExchangeState, States, MainSteps, scheduler
<1>4. Phase'
    BY <1>1, <1>2 DEF PInv, Phase, Clean, Activated, Remaining, ExchangeState, vars, item_vars, scheduler
<1>5. RunPhase'
    BY <1>1, <1>2 DEF PInv, Phase, RunPhase, ExchangeState, scheduler
<1>6. Others' /\ WorkersRun' /\ MainDeactivates'
    BY <1>1, <1>2, IdleKeeps DEF Idle, ExchangeState, scheduler
<1> QED
    BY <1>3, <1>4, <1>5, <1>6 DEF PInv

LEMMA GraphActivateKeeps == ASSUME PInv, TypeOK', GraphActivate PROVE PInv'
<1>0. ProgramTypes /\ Others /\ pc[Main] = "idle" /\ state = "ORIGIN" /\ Clean
    BY MainIdle DEF PInv, Phase, GraphActivate
<1>1. CASE BeginDeactivate(Main)
    BY <1>0, <1>1, BeginDeactivateKeeps
       DEF GraphActivate, Clean, ProgramTypes, MainSteps, scheduler
<1>2. CASE state' = "ACTIVATING" /\ Then(Main, "activate") /\ UNCHANGED eids
    <2>1. /\ call'[Main] = "activate" /\ call' \in [Callers -> MainSteps \union {"stop"}]
          /\ \A c \in Callers \ {Main} : call'[c] \in {"idle", "stop"}
        BY <1>0, <1>2, MainCalls DEF MainSteps
    <2>2. ProgramTypes'
        BY <1>0, <1>2, <2>1 DEF ProgramTypes, GraphActivate, States, MainSteps, scheduler
    <2>3. Phase' /\ RunPhase'
        BY <1>0, <1>2, <2>1
           DEF Phase, RunPhase, Clean, GraphActivate, vars, item_vars, scheduler
    <2>4. Others' /\ WorkersRun' /\ MainDeactivates'
        BY <1>0, <2>1, IdleKeeps DEF Idle, GraphActivate, scheduler
    <2> QED
        BY <2>2, <2>3, <2>4 DEF PInv
<1> QED
    BY <1>1, <1>2 DEF GraphActivate

LEMMA GraphDeactivateKeeps == ASSUME PInv, TypeOK', GraphDeactivate PROVE PInv'
<1>1. ~running /\ ~running' /\ running' \in BOOLEAN
    BY DEF PInv, RunPhase, ProgramTypes, GraphDeactivate, scheduler
<1> QED
    BY <1>1, BeginDeactivateKeeps DEF GraphDeactivate, MainSteps

LEMMA ActivateEntityKeeps ==
    ASSUME PInv, TypeOK', NEW x \in All, ActivateEntity(x) PROVE PInv'
<1>0. /\ ProgramTypes /\ Others /\ pc[Main] = "idle" /\ ~running /\ ~running'
      /\ running' \in BOOLEAN /\ call[Main] = "activate"
    BY MainIdle DEF PInv, RunPhase, ActivateEntity, ProgramTypes, scheduler
<1>1. CASE BeginDeactivate(Main) /\ UNCHANGED <<vars, unscheduled, scheduled, schedulers,
                                                 systems, initialized>>
    BY <1>0, <1>1, BeginDeactivateKeeps DEF ActivateEntity, MainSteps
<1>2. CASE /\ initialized' = initialized \union {x}
           /\ unscheduled' = unscheduled \ {x} /\ scheduled' = scheduled \union {x}
           /\ IF x = Scheduler THEN /\ systems' = {x} /\ schedulers' = {x}
                                    /\ UNCHANGED vars
              ELSE Activate(Main, x) /\ UNCHANGED <<systems, schedulers>>
           /\ UNCHANGED <<state, call, eids, activation>>
    <2>1. ProgramTypes'
        BY <1>0, <1>2 DEF ProgramTypes, ActivateEntity, scheduler
    <2>2. UNCHANGED <<pc, item>> /\ items' \subseteq items \union {x}
        BY <1>2 DEF vars, item_vars, threads, Activate
    <2>3. Phase'
        BY <1>0, <1>2, <2>2 DEF PInv, Phase, Remaining, ActivateEntity
    <2>4. RunPhase' /\ Others' /\ WorkersRun' /\ MainDeactivates'
        BY <1>0, <1>2, <2>2 DEF PInv, RunPhase, Others, WorkersRun, MainDeactivates
    <2> QED
        BY <2>1, <2>3, <2>4 DEF PInv
<1> QED
    BY <1>1, <1>2 DEF ActivateEntity

LEMMA RunSystemsKeeps == ASSUME PInv, TypeOK', RunSystems PROVE PInv'
<1>0. /\ ProgramTypes /\ Others /\ pc[Main] = "idle" /\ call[Main] = "run" /\ ~running
    BY MainIdle DEF PInv, RunPhase, RunSystems
<1>1. CASE BeginDeactivate(Main) /\ UNCHANGED scheduler
    BY <1>0, <1>1, BeginDeactivateKeeps DEF RunSystems, ProgramTypes, MainSteps, scheduler
<1>2. CASE running' = TRUE /\ Then(Main, "started") /\ UNCHANGED <<state, eids>>
    <2>1. /\ call'[Main] = "started" /\ call' \in [Callers -> MainSteps \union {"stop"}]
          /\ \A c \in Callers \ {Main} : call'[c] \in {"idle", "stop"}
        BY <1>0, <1>2, MainCalls DEF MainSteps
    <2>2. ProgramTypes'
        BY <1>0, <1>2, <2>1 DEF ProgramTypes, RunSystems, MainSteps
    <2>3. Phase' /\ RunPhase'
        BY <1>0, <1>2, <2>1
           DEF PInv, Phase, RunPhase, Activated, RunSystems, vars, item_vars
    <2>4. Others' /\ WorkersRun' /\ MainDeactivates'
        BY <1>0, <1>2, <2>1, IdleKeeps DEF Idle, RunSystems
    <2> QED
        BY <2>2, <2>3, <2>4 DEF PInv
<1> QED
    BY <1>1, <1>2 DEF RunSystems

\* Main finds the graph running or stopped, never at ORIGIN, when it has waited.
LEMMA WaitSystemsKeeps == ASSUME PInv, TypeOK', WaitSystems(Main) PROVE PInv'
<1>0. /\ ProgramTypes /\ Others /\ pc[Main] = "idle" /\ call[Main] = "waiting" /\ ~running
      /\ ~running' /\ running' \in BOOLEAN /\ state # "ORIGIN"
    BY MainIdle DEF PInv, Phase, WaitSystems, ProgramTypes, scheduler
<1>1. CASE BeginDeactivate(Main)
    BY <1>0, <1>1, BeginDeactivateKeeps DEF WaitSystems, MainSteps
<1>2. CASE Then(Main, "waited") /\ UNCHANGED <<state, eids, last>>
    <2>1. /\ call'[Main] = "waited" /\ call' \in [Callers -> MainSteps \union {"stop"}]
          /\ \A c \in Callers \ {Main} : call'[c] \in {"idle", "stop"}
        BY <1>0, <1>2, MainCalls DEF MainSteps
    <2>2. ProgramTypes'
        BY <1>0, <1>2, <2>1 DEF ProgramTypes, WaitSystems, MainSteps
    <2>3. Phase' /\ RunPhase'
        BY <1>0, <1>2, <2>1
           DEF PInv, Phase, RunPhase, Activated, WaitSystems, vars, item_vars
    <2>4. Others' /\ WorkersRun' /\ MainDeactivates'
        BY <1>0, <1>2, <2>1, IdleKeeps DEF Idle, WaitSystems
    <2> QED
        BY <2>2, <2>3, <2>4 DEF PInv
<1> QED
    BY <1>0, <1>1, <1>2 DEF WaitSystems

LEMMA GraphWaitKeeps == ASSUME PInv, TypeOK', GraphWait(Main) PROVE PInv'
<1>0. ProgramTypes /\ Others /\ pc[Main] = "idle" /\ call[Main] = "idle"
    BY MainIdle DEF PInv, GraphWait
<1>1. CASE state \in {"STARTING", "RUNNING", "INTERRUPTING"} /\ Then(Main, "waiting")
    <2>1. /\ call'[Main] = "waiting" /\ call' \in [Callers -> MainSteps \union {"stop"}]
          /\ \A c \in Callers \ {Main} : call'[c] \in {"idle", "stop"}
        BY <1>0, <1>1, MainCalls DEF MainSteps
    <2>2. ProgramTypes'
        BY <1>0, <1>1, <2>1 DEF ProgramTypes, GraphWait, MainSteps, program, scheduler
    <2>3. Phase' /\ RunPhase'
        BY <1>0, <1>1, <2>1
           DEF PInv, Phase, RunPhase, Activated, GraphWait, vars, item_vars, program, scheduler
    <2>4. Others' /\ WorkersRun' /\ MainDeactivates'
        BY <1>0, <1>1, <2>1, IdleKeeps DEF Idle, GraphWait, program, scheduler
    <2> QED
        BY <2>2, <2>3, <2>4 DEF PInv
<1>2. CASE state \notin {"STARTING", "RUNNING", "INTERRUPTING"} /\ UNCHANGED call
    <2>1. ProgramTypes' /\ Phase' /\ RunPhase'
        BY <1>0, <1>2 DEF PInv, ProgramTypes, Phase, RunPhase, Clean, Activated, Remaining,
                          GraphWait, vars, item_vars, program, scheduler
    <2>2. Others' /\ WorkersRun' /\ MainDeactivates'
        BY <1>0, <1>2, IdleKeeps DEF Idle, GraphWait, Others, program, scheduler
    <2> QED
        BY <2>1, <2>2 DEF PInv
<1> QED
    BY <1>1, <1>2 DEF GraphWait

LEMMA InterruptKeeps ==
    ASSUME PInv, TypeOK', NEW c \in Callers \ {Main}, GraphInterrupt(c) \/ StopSystems(c)
    PROVE  PInv'
<1>1. /\ call'[Main] = call[Main] /\ call' \in [Callers -> MainSteps \union {"stop"}]
      /\ \A d \in Callers \ {Main} : call'[d] \in {"idle", "stop"}
    BY MainAssumption DEF PInv, ProgramTypes, Others, GraphInterrupt, StopSystems, Then, MainSteps
<1>2. ProgramTypes'
    BY <1>1 DEF PInv, ProgramTypes, GraphInterrupt, StopSystems, States, program, scheduler
<1>3. Phase' /\ RunPhase'
    BY <1>1 DEF PInv, Phase, RunPhase, Clean, Activated, Remaining, GraphInterrupt, StopSystems,
                vars, item_vars, program, scheduler
<1>4. Others' /\ WorkersRun' /\ MainDeactivates'
    BY <1>1 DEF PInv, Others, WorkersRun, MainDeactivates, GraphInterrupt, StopSystems,
                vars, threads, program, scheduler
<1> QED
    BY <1>2, <1>3, <1>4 DEF PInv

LEMMA UnscheduleEntityKeeps ==
    ASSUME PInv, TypeOK', NEW x \in All, UnscheduleEntity(Main, x) PROVE PInv'
<1>0. /\ ProgramTypes /\ Others /\ pc[Main] = "idle" /\ call[Main] = "deactivate"
      /\ state = "DEINITALIZING" /\ ~running /\ ~running' /\ x \in eids[Main]
    BY MainIdle DEF PInv, Phase, RunPhase, UnscheduleEntity
<1>1. /\ eids'[Main] = eids[Main] \ {x} /\ eids' \in [Callers -> SUBSET All]
      /\ eid'[Main] = x /\ eid' \in [Callers -> All \union {None}]
    BY <1>0, MainAssumption DEF UnscheduleEntity, ProgramTypes
<1>2. PICK step \in {"remove", "dropped"} : Then(Main, step)
    BY DEF UnscheduleEntity, Reset
<1>3. /\ call'[Main] = step /\ call' \in [Callers -> MainSteps \union {"stop"}]
      /\ \A c \in Callers \ {Main} : call'[c] \in {"idle", "stop"}
    BY <1>0, <1>2, MainCalls DEF MainSteps
<1>4. /\ unscheduled' \in SUBSET All /\ scheduled' \in SUBSET All
      /\ step = "remove" => scheduled' = scheduled \ {x} /\ unscheduled' = unscheduled \union {x}
    BY <1>0, <1>2, <1>3, MainAssumption DEF UnscheduleEntity, Reset, ProgramTypes, Then
<1>5. ProgramTypes'
    BY <1>0, <1>1, <1>3, <1>4 DEF ProgramTypes, UnscheduleEntity, MainSteps
<1>6. Phase'
    BY <1>0, <1>1, <1>3, <1>4
       DEF PInv, Phase, Remaining, UnscheduleEntity, vars, item_vars
<1>7. RunPhase'
    BY <1>0 DEF RunPhase
<1>8. Others' /\ WorkersRun' /\ MainDeactivates'
    BY <1>0, <1>3, IdleKeeps DEF Idle, UnscheduleEntity
<1> QED
    BY <1>5, <1>6, <1>7, <1>8 DEF PInv

LEMMA RemoveItemKeeps == ASSUME PInv, TypeOK', RemoveItem(Main) PROVE PInv'
<1>0. /\ ProgramTypes /\ Others /\ pc[Main] = "idle" /\ call[Main] = "remove"
      /\ Main \in Callers /\ Main \in Threads /\ Main \notin Workers
      /\ state = "DEINITALIZING" /\ ~running /\ items \subseteq initialized
    BY MainIdle, MainAssumption, ThreadsAssumption
       DEF PInv, Phase, RunPhase, RemoveItem, Threads
<1>1. /\ call'[Main] = "deinitialize" /\ call' \in [Callers -> MainSteps \union {"stop"}]
      /\ \A c \in Callers \ {Main} : call'[c] \in {"idle", "stop"}
    BY <1>0, MainCalls DEF RemoveItem, MainSteps
<1>2. /\ items' = items \ {eid[Main]}
      /\ \A t \in Threads \ {Main} : pc'[t] = pc[t] /\ item'[t] = item[t]
      /\ pc'[Main] # "idle" => item'[Main] = eid[Main] /\ eid[Main] \in items
    <2>1. CASE Deactivate(Main, eid[Main])
        BY <1>0, <2>1 DEF Deactivate, Goto, PInv, TypeOK
    <2>2. CASE eid[Main] \notin items /\ UNCHANGED vars
        BY <1>0, <2>2 DEF vars, item_vars, threads
    <2> QED
        BY <2>1, <2>2 DEF RemoveItem
<1>3. ProgramTypes'
    BY <1>0, <1>1 DEF ProgramTypes, RemoveItem, MainSteps, program, scheduler
<1>4. Phase'
    BY <1>0, <1>1, <1>2 DEF PInv, Phase, Remaining, RemoveItem, program, scheduler
<1>5. RunPhase' /\ Others'
    BY <1>0, <1>1, <1>2, ThreadsAssumption
       DEF RunPhase, Others, RemoveItem, program, scheduler, Threads
<1>6. WorkersRun'
    BY <1>0, <1>2 DEF PInv, WorkersRun, RemoveItem, scheduler, Threads
<1>7. MainDeactivates'
    BY <1>0, <1>1, <1>2 DEF MainDeactivates, RemoveItem, program
<1> QED
    BY <1>3, <1>4, <1>5, <1>6, <1>7 DEF PInv

\* No worker has the address of the item Main frees: none has any while nothing runs.
LEMMA StopItemKeeps == ASSUME PInv, TypeOK', StopItem(Main) PROVE PInv'
<1>0. /\ Main \in Callers /\ Main \in Threads /\ Main \notin Workers
      /\ UNCHANGED <<program, scheduler, calls>>
    BY MainAssumption, ThreadsAssumption DEF Threads, StopItem
<1>1. /\ pc[Main] # "idle" /\ call[Main] = "deinitialize" /\ ~running
      /\ item[Main] = eid[Main] /\ eid[Main] \in initialized /\ item[Main] \in Entities
    BY <1>0 DEF StopItem, EndDeactivation, DeactivateLock, StopCodelet, Free,
                PInv, TypeOK, MainDeactivates, RunPhase
<1>2. \A w \in Workers : pc[w] = "idle" /\ item[w] = None
    BY <1>1 DEF PInv, WorkersRun
<1>3. /\ items' = items
      /\ \A t \in Threads \ {Main} : pc'[t] = pc[t] /\ item'[t] = item[t]
      /\ pc'[Main] # "idle" => item'[Main] = item[Main]
    <2>0. DOMAIN pc = Threads /\ DOMAIN item = Threads
        BY DEF PInv, TypeOK
    <2>1. CASE DeactivateLock(Main)
        BY <1>0, <2>0, <2>1 DEF DeactivateLock, BeginStop, Goto
    <2>2. CASE StopCodelet(Main)
        BY <1>0, <2>0, <2>2 DEF StopCodelet, Goto
    <2>3. CASE Free(Main)
        BY <1>0, <1>1, <1>2, <2>0, <2>3, NoneAssumption DEF Free, Forget
    <2> QED
        BY <2>1, <2>2, <2>3 DEF StopItem, EndDeactivation
<1>4. ProgramTypes' /\ Phase' /\ RunPhase'
    BY <1>0, <1>3 DEF PInv, ProgramTypes, Phase, RunPhase, Clean, Activated, Remaining,
                      program, scheduler, calls
<1>5. Others' /\ WorkersRun' /\ MainDeactivates'
    BY <1>0, <1>1, <1>2, <1>3, ThreadsAssumption
       DEF PInv, Others, WorkersRun, MainDeactivates, program, scheduler, calls, Threads
<1> QED
    BY <1>4, <1>5 DEF PInv

LEMMA DeinitializeKeeps == ASSUME PInv, TypeOK', Deinitialize(Main) PROVE PInv'
<1>0. /\ ProgramTypes /\ Others /\ pc[Main] = "idle" /\ call[Main] = "deinitialize"
      /\ state = "DEINITALIZING" /\ ~running /\ ~running'
    BY DEF PInv, Phase, RunPhase, Deinitialize, scheduler
<1>1. eid' \in [Callers -> All \union {None}]
    BY <1>0 DEF Deinitialize, ProgramTypes
<1>2. PICK step \in {"deactivate", "dropped"} : Then(Main, step)
    BY DEF Deinitialize, Reset
<1>3. /\ call'[Main] = step /\ call' \in [Callers -> MainSteps \union {"stop"}]
      /\ \A c \in Callers \ {Main} : call'[c] \in {"idle", "stop"}
    BY <1>0, <1>2, MainCalls DEF MainSteps
<1>4. /\ unscheduled' \in SUBSET All /\ scheduled' \in SUBSET All
      /\ step = "deactivate" => UNCHANGED <<unscheduled, scheduled>>
    BY <1>0, <1>2, <1>3, MainAssumption DEF Deinitialize, Reset, ProgramTypes, Then
<1>5. ProgramTypes'
    BY <1>0, <1>1, <1>3, <1>4 DEF ProgramTypes, Deinitialize, MainSteps, scheduler
<1>6. Phase'
    BY <1>0, <1>3, <1>4 DEF PInv, Phase, Remaining, Deinitialize, vars, item_vars
<1>7. RunPhase'
    BY <1>0 DEF RunPhase
<1>8. Others' /\ WorkersRun' /\ MainDeactivates'
    BY <1>0, <1>3, IdleKeeps DEF Idle, Deinitialize, scheduler
<1> QED
    BY <1>5, <1>6, <1>7, <1>8 DEF PInv

LEMMA EndDeactivateKeeps == ASSUME PInv, TypeOK', EndDeactivate(Main) PROVE PInv'
<1>0. /\ ProgramTypes /\ Others /\ pc[Main] = "idle" /\ call[Main] = "deactivate"
      /\ eids[Main] = {} /\ ~running /\ ~running'
    BY MainIdle DEF PInv, RunPhase, EndDeactivate, scheduler
<1>1. /\ call'[Main] = "idle" /\ call' \in [Callers -> MainSteps \union {"stop"}]
      /\ \A c \in Callers \ {Main} : call'[c] \in {"idle", "stop"}
    BY <1>0, MainCalls DEF EndDeactivate, MainSteps
<1>2. ProgramTypes'
    BY <1>0, <1>1 DEF ProgramTypes, EndDeactivate, States, MainSteps, scheduler
<1>3. Clean'
    BY <1>0 DEF PInv, Phase, Remaining, Clean, EndDeactivate, ProgramTypes, vars, item_vars
<1>4. Phase' /\ RunPhase'
    BY <1>0, <1>1, <1>3 DEF Phase, RunPhase, Clean, EndDeactivate
<1>5. Others' /\ WorkersRun' /\ MainDeactivates'
    BY <1>0, <1>1, IdleKeeps DEF Idle, EndDeactivate, scheduler
<1> QED
    BY <1>2, <1>4, <1>5 DEF PInv

(* -- The invariant -------------------------------------------------------*)

LEMMA PInvInit == ProgramInit => PInv
<1> SUFFICES ASSUME ProgramInit PROVE PInv
    OBVIOUS
<1>1. TypeOK
    BY TypeInit DEF ProgramInit
<1>2. ProgramTypes /\ Phase /\ RunPhase
    BY MainAssumption
       DEF ProgramInit, Init, ProgramTypes, Phase, RunPhase, Clean, States, MainSteps
<1>3. Others /\ WorkersRun /\ MainDeactivates
    BY MainAssumption DEF ProgramInit, Init, Others, WorkersRun, MainDeactivates, Threads
<1> QED
    BY <1>1, <1>2, <1>3 DEF PInv

\* Another caller does nothing but interrupt.
LEMMA OthersInterrupt ==
    ASSUME PInv, NEW c \in Callers \ {Main}, Proceed(c) PROVE StopSystems(c)
<1>1. call[c] \in {"idle", "stop"} /\ pc[c] = "idle"
    BY DEF PInv, Others
<1>2. ~WaitSystems(c) /\ ~LoadState(c) /\ ~ExchangeState(c)
    BY <1>1 DEF WaitSystems, LoadState, ExchangeState
<1>3. ~Deactivation(c)
    BY <1>1 DEF Deactivation, UnscheduleEntity, RemoveItem, StopItem, Deinitialize, EndDeactivate,
                EndDeactivation, DeactivateLock, StopCodelet, Free
<1> QED
    BY <1>2, <1>3 DEF Proceed

LEMMA MainKeeps == ASSUME PInv, TypeOK', Proceed(Main) PROVE PInv'
<1>1. CASE EndActivate \/ RunSystems \/ Started \/ \E x \in All : ActivateEntity(x)
    BY <1>1, EndActivateKeeps, RunSystemsKeeps, StartedKeeps, ActivateEntityKeeps
<1>2. CASE WaitSystems(Main) \/ LoadState(Main) \/ ExchangeState(Main)
    BY <1>2, WaitSystemsKeeps, LoadStateKeeps, ExchangeStateKeeps
<1>3. ~StopSystems(Main)
    BY DEF PInv, ProgramTypes, MainSteps, StopSystems
<1>4. CASE Deactivation(Main)
    BY <1>4, UnscheduleEntityKeeps, RemoveItemKeeps, StopItemKeeps, DeinitializeKeeps,
       EndDeactivateKeeps DEF Deactivation
<1> QED
    BY <1>1, <1>2, <1>3, <1>4 DEF Proceed

LEMMA PInvStep == OneWaiter /\ PInv /\ [ProgramNext]_allvars => PInv'
<1> SUFFICES ASSUME OneWaiter, PInv, [ProgramNext]_allvars PROVE PInv'
    OBVIOUS
<1>1. TypeOK'
    BY ExecutorStep, TypeStep DEF PInv
<1>2. CASE Run
    BY <1>1, <1>2, RunKeeps
<1>3. CASE GraphActivate \/ GraphRunAsync \/ GraphDeactivate
    BY <1>1, <1>3, GraphActivateKeeps, GraphRunAsyncKeeps, GraphDeactivateKeeps
<1>4. ASSUME NEW c \in Callers \ {Main}, GraphInterrupt(c) PROVE PInv'
    BY <1>1, <1>4, InterruptKeeps
<1>5. ASSUME NEW c \in Waiters, GraphWait(c) PROVE PInv'
    BY <1>1, <1>5, GraphWaitKeeps DEF OneWaiter
<1>6. ASSUME NEW c \in Callers, Proceed(c) PROVE PInv'
    BY <1>1, <1>6, MainKeeps, OthersInterrupt, InterruptKeeps
<1>7. CASE UNCHANGED allvars
    <2> USE <1>7 DEF PInv, allvars, vars, item_vars, threads, program, scheduler, calls
    <2>1. ProgramTypes' /\ Phase' /\ RunPhase'
        BY DEF ProgramTypes, Phase, RunPhase, Clean, Activated, Remaining
    <2>2. Others' /\ WorkersRun' /\ MainDeactivates'
        BY DEF Others, WorkersRun, MainDeactivates
    <2> QED
        BY <1>1, <2>1, <2>2
<1> QED
    BY <1>2, <1>3, <1>4, <1>5, <1>6, <1>7 DEF ProgramNext

\* The invariant of every graph that one caller waits for.
THEOREM ProgramInvariant == ASSUME OneWaiter PROVE ProgramSpec => []PInv
BY PInvInit, PInvStep, OneWaiter, PTL DEF ProgramSpec

(* -- Theorems ------------------------------------------------------------*)

\* Whatever holds of the entity executor in any use of it holds of the one of a program,
\* whoever waits, interrupts and deactivates.
THEOREM ImplementsExecutor == ProgramSpec => Spec
<1>1. ProgramInit => Init
    BY DEF ProgramInit
<1>2. ProgramSpec => []TypeOK
    BY <1>1, TypeInit, ExecutorStep, TypeStep, PTL DEF ProgramSpec
<1> QED
    BY <1>1, <1>2, ExecutorStep, PTL DEF ProgramSpec, Spec

\* A deactivation never frees an item that a worker has the address of: the scheduler it
\* comes after has joined its workers.
THEOREM ExecutionIsWaitedFor == ASSUME OneWaiter PROVE ProgramSpec => []WaitsForExecution
<1>1. PInv => WaitsForExecution
    BY DEF PInv, WorkersRun, WaitsForExecution
<1> QED
    BY <1>1, ProgramInvariant, OneWaiter, PTL

\* A worker has an entity only while all are activated; a caller that stops codelets has
\* not come to their deinitialization.
THEOREM CodeletsAreInitialized == ASSUME OneWaiter PROVE ProgramSpec => []CodeletsRunInitialized
<1>1. ASSUME PInv PROVE CodeletsRunInitialized
    <2> SUFFICES ASSUME NEW t \in Threads, pc[t] \in {"start", "tick", "stop"}
                 PROVE  item[t] \in initialized
        BY DEF CodeletsRunInitialized
    <2>1. item[t] \in Entities
        BY <1>1 DEF PInv, TypeOK
    <2>2. CASE t \in Workers
        <3>1. running /\ Activated
            BY <1>1, <2>2 DEF PInv, WorkersRun, RunPhase, Phase, Clean
        <3> QED
            BY <2>1, <3>1 DEF Activated, All
    <2>3. CASE t \in Callers
        BY <1>1, <2>3 DEF PInv, Others, MainDeactivates
    <2> QED
        BY <2>2, <2>3 DEF Threads
<1> QED
    BY <1>1, ProgramInvariant, OneWaiter, PTL

\* The state of the program never denies a scheduler that runs.
THEOREM StateIsTrue == ASSUME OneWaiter PROVE ProgramSpec => []StateTellsRunning
<1>1. PInv => StateTellsRunning
    BY DEF PInv, RunPhase, StateTellsRunning
<1> QED
    BY <1>1, ProgramInvariant, OneWaiter, PTL

\* Every way back to ORIGIN, also from an activation that failed half-way, clears all tables.
THEOREM OriginCorrect == ASSUME OneWaiter PROVE ProgramSpec => []OriginIsClean
<1>1. PInv => OriginIsClean
    BY DEF PInv, Phase, Clean, OriginIsClean, ProgramTypes, MainSteps
<1> QED
    BY <1>1, ProgramInvariant, OneWaiter, PTL
================================================================================
