---------------------------- MODULE MCStagingQueue ----------------------------
(***************************************************************************)
(* StagingQueue on small instances: two interchangeable items and queues   *)
(* of one, two and three items per stage.  Capacity 1 is the default of    *)
(* the receivers; 2 makes a kPop push move one item over; 3 makes it move  *)
(* two, so that an error in the order of the moves shows.  A faulted queue *)
(* is followed until its main stage exceeds the ring buffer itself.        *)
(***************************************************************************)
EXTENDS StagingQueue, TLC

ItemSymmetry == Permutations(Items)

MCCapacities == 1..3
AllBehaviors == {"kPop", "kReject", "kFault"}
===============================================================================
