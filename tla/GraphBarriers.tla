---------------------------- MODULE GraphBarriers ----------------------------
(***************************************************************************)
(* What GraphDriver and GraphWorker (gxf/std) promise of the segments of a *)
(* distributed graph: two barriers.  No segment is activated before the    *)
(* workers of all of them are known, and none is deactivated before all    *)
(* have run to their end; each is activated, run and taken down once.      *)
(***************************************************************************)
CONSTANT Segments

VARIABLES
    known,          \* the segments whose worker has registered
    stage           \* how far each segment is

Init == known = {} /\ stage = [s \in Segments |-> "loaded"]

Advance(s, from, to) ==
    stage[s] = from /\ stage' = [stage EXCEPT ![s] = to] /\ UNCHANGED known

Register ==
    /\ known' \in SUBSET Segments /\ known \subseteq known'
    /\ UNCHANGED stage

Activate(s) == known = Segments /\ Advance(s, "loaded", "active")

Run(s) == Advance(s, "active", "running")

Finish(s) == Advance(s, "running", "ran")

TakeDown(s) == (\A t \in Segments : stage[t] \in {"ran", "down"}) /\ Advance(s, "ran", "down")

Next == Register \/ \E s \in Segments : Activate(s) \/ Run(s) \/ Finish(s) \/ TakeDown(s)

Spec == Init /\ [][Next]_<<known, stage>>
================================================================================
