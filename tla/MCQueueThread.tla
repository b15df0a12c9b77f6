---------------------------- MODULE MCQueueThread ----------------------------
(***************************************************************************)
(* QueueThread with two threads that stop it and two that wait.            *)
(***************************************************************************)
EXTENDS QueueThread

CONSTANTS s1, s2, w1, w2
================================================================================
