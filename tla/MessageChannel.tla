---------------------------- MODULE MessageChannel ----------------------------
(***************************************************************************)
(* What a graph of entities promises about messages: along every route     *)
(* from a transmitter to a receiver, the messages published are received   *)
(* once each, in the order they were published, and all of them in the     *)
(* end.  Queues, terms, routers and schedulers do not appear.              *)
(***************************************************************************)
EXTENDS Naturals

CONSTANTS
    Entities,  \* an entity has at most one transmitter and one receiver
    Routes     \* <<s, t>>: the transmitter of s feeds the receiver of t

VARIABLES
    published,  \* published[s]: messages published on the transmitter of s
    received    \* received[r]: messages received along the route r

vars == <<published, received>>

Init ==
    /\ published = [e \in Entities |-> 0]
    /\ received = [r \in Routes |-> 0]

Publish(s) ==
    /\ published' = [published EXCEPT ![s] = @ + 1]
    /\ UNCHANGED received

Receive(r) ==
    /\ received[r] < published[r[1]]
    /\ received' = [received EXCEPT ![r] = @ + 1]
    /\ UNCHANGED published

Next == (\E s \in Entities : Publish(s)) \/ (\E r \in Routes : Receive(r))

Fairness == \A r \in Routes : WF_vars(Receive(r))

\* Once each and in order.
Safety == Init /\ [][Next]_vars

Spec == Safety /\ Fairness
===============================================================================
