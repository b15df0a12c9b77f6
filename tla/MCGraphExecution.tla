--------------------------- MODULE MCGraphExecution ---------------------------
(***************************************************************************)
(* GraphExecution with two segments on one worker and a third on another.  *)
(***************************************************************************)
EXTENDS GraphExecution, TLC

CONSTANTS w1, w2, s1, s2, s3

MCWorker == s1 :> w1 @@ s2 :> w1 @@ s3 :> w2
================================================================================
