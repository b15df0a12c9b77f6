--------------------------- MODULE MCEntityExecutor ---------------------------
(***************************************************************************)
(* EntityExecutor on two entities: one of two codelets without a           *)
(* controller, one of one codelet with a controller.                       *)
(***************************************************************************)
EXTENDS EntityExecutor

CONSTANTS plain, controlled, w, d

TwoAndOne == [e \in Entities |-> IF e = plain THEN 2 ELSE 1]
================================================================================
