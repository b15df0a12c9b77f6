------------------------- MODULE MCEventBasedScheduler -------------------------
(***************************************************************************)
(* Instances of EventBasedScheduler: how often the entities are executed,  *)
(* and the symmetry of the workers.  Neither Entities, of which            *)
(* TwoTicksOnce singles one out, nor anything under a liveness property is *)
(* declared symmetric.                                                     *)
(***************************************************************************)
EXTENDS EventBasedScheduler, TLC

Symmetry == Permutations(Workers)

OneTick == [e \in Entities |-> 1]
TwoTicks == [e \in Entities |-> 2]

\* Two executions of one entity, one of each other one.
TwoTicksOnce == [e \in Entities |-> IF e = CHOOSE x \in Entities : TRUE THEN 2 ELSE 1]
===============================================================================
