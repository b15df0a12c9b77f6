------------------------ MODULE MCMultiThreadScheduler ------------------------
(***************************************************************************)
(* Instances of MultiThreadScheduler: how often the entities are executed, *)
(* and the symmetry of the workers, for the runs without liveness.         *)
(***************************************************************************)
EXTENDS MultiThreadScheduler, TLC

Symmetry == Permutations(Workers)

TwoTicks == [e \in Entities |-> 2]

\* Two executions of an entity scheduled from the start, one of each other one.
TwoTicksOnce == [e \in Entities |-> IF e \in Initial THEN 2 ELSE 1]
===============================================================================
