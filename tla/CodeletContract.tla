---------------------------- MODULE CodeletContract ----------------------------
(***************************************************************************)
(* What gxf/std/codelet.hpp promises the author of a codelet about the     *)
(* order of its calls: start comes before the first tick, stop after the   *)
(* last, and start is not called again before stop.  An entity executes    *)
(* its codelets in order: a codelet is started after those before it, and  *)
(* is ticked only once all of them are started.  Where a codelet fails to  *)
(* start, those before it are not stopped, and the entity may be started   *)
(* again.                                                                  *)
(***************************************************************************)
EXTENDS Naturals

CONSTANTS
    Entities,       \* the entities with codelets
    NumCodelets     \* how many codelets each entity has

VARIABLES
    started,        \* the codelets of each entity started and not stopped since
    failed,         \* whether the last of them failed to start
    ticked          \* their calls of tick since start: 0, 1, or 2 for two and more

Codelets(e) == 1 .. NumCodelets[e]

Once(n) == IF n = 2 THEN 2 ELSE n + 1

Init ==
    /\ started = [e \in Entities |-> {}]
    /\ failed = [e \in Entities |-> FALSE]
    /\ ticked = [e \in Entities |-> [i \in Codelets(e) |-> 0]]

Start(e, i) ==
    /\ \/ ~failed[e] /\ started[e] = 1 .. (i - 1)
       \/ failed[e] /\ i = 1
    /\ started' = [started EXCEPT ![e] = 1 .. i]
    /\ ticked' = [ticked EXCEPT ![e][i] = 0]
    /\ \E b \in BOOLEAN : failed' = [failed EXCEPT ![e] = b]

Tick(e, i) ==
    /\ ~failed[e] /\ started[e] = Codelets(e)
    /\ ticked' = [ticked EXCEPT ![e][i] = Once(@)]
    /\ UNCHANGED <<started, failed>>

\* Codelets are stopped in the order in which they were started.
Stop(e, i) ==
    /\ ~failed[e] /\ started[e] = i .. NumCodelets[e]
    /\ started' = [started EXCEPT ![e] = @ \ {i}]
    /\ ticked' = [ticked EXCEPT ![e][i] = 0]
    /\ UNCHANGED failed

Next == \E e \in Entities : \E i \in Codelets(e) : Start(e, i) \/ Tick(e, i) \/ Stop(e, i)

Spec == Init /\ [][Next]_<<started, failed, ticked>>
================================================================================
