------------------------------- MODULE MCProgram -------------------------------
(***************************************************************************)
(* Program on a graph of two entities: one of two codelets without a       *)
(* controller, one of one codelet with a controller.                       *)
(***************************************************************************)
EXTENDS Program

CONSTANTS plain, controlled, w, m, other

TwoAndOne == [e \in Entities |-> IF e = plain THEN 2 ELSE 1]
================================================================================
