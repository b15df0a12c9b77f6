---------------------------- MODULE MCMessageFlow ----------------------------
(***************************************************************************)
(* MessageFlow on small graphs: a source that feeds a sink and a relay,    *)
(* which feeds another sink (all roles, one fan-out, one chain of queues), *)
(* and, for the topics, one source and one sink.                           *)
(***************************************************************************)
EXTENDS MessageFlow

CONSTANTS a, b, c, d   \* entities

FanAndChain == {<<a, b>>, <<a, d>>, <<b, c>>}
OneRoute == {<<a, b>>}
===============================================================================
