----------------------------- MODULE MessageFlow ------------------------------
(***************************************************************************)
(* How messages flow between entities that are executed concurrently: the  *)
(* scheduling terms that hold an entity back, the double-buffer queues of  *)
(* its transmitter and its receiver, and the message router that moves     *)
(* messages and tells the scheduler about them (gxf/std: entity_executor,  *)
(* scheduling_terms, double_buffer_*, receiver, message_router).           *)
(*                                                                         *)
(* An entity has at most one transmitter, guarded by a downstream          *)
(* receptive term, and at most one receiver, guarded by a message          *)
(* available term; an entity without a receiver has a count term.  At most *)
(* one thread executes an entity (the schedulers' modules show that), so   *)
(* pc[e] is that thread's place in EntityItem::execute.  Each call on a    *)
(* queue runs under the queue's mutex and is one action; the terms of an   *)
(* entity read the queues of others call by call.  Who is executed next is *)
(* up to the scheduler: an entity is checked only when it has been         *)
(* notified, as EventBasedScheduler does it.                               *)
(***************************************************************************)
EXTENDS OverflowBehavior, FiniteSets

CONSTANTS
    Entities,
    Routes,     \* <<s, t>>: routes from the transmitter of s to the receiver of t
    ByTopic,    \* the routes that are due to a Topic; the others are Connections
    Capacity,   \* capacity of the receivers
    MinSize,    \* min_size of the downstream terms, capacity of the transmitters:
                \* a tick handles at most that many messages
    Policy,     \* overflow behaviour of the receivers
    Count       \* executions the count term of a source permits

ASSUME RoutesAssumption == Routes \subseteq Entities \X Entities
ASSUME SizesAssumption ==
    Capacity \in Nat \ {0} /\ MinSize \in Nat \ {0} /\ Count \in Nat
ASSUME PolicyAssumption == Policy \in {"kPop", "kReject", "kFault"}

VARIABLES
    pc,         \* pc[e]: place of the thread that executes e, or "idle"
    notified,   \* notified[e]: the scheduler has a notification of e to look at
    remaining,  \* remaining[e]: executions left to the count term of a source
    unread,     \* unread[e]: receivers the downstream term has still to look at
    looking,    \* looking[e]: the receiver it is looking at
    back_seen,  \* back_seen[e]: the back_size it has read there
    is_ready,   \* is_ready[e]: the conjunction it has computed so far
    mainstage,  \* mainstage[e], backstage[e]: the queue of the receiver of e
    backstage,
    outbox,     \* outbox[e]: the queue of the transmitter of e
    undelivered,\* undelivered[e]: receivers that lack the head of the outbox
    failed,     \* an execution has failed: the scheduler stops
    published,  \* history: number of messages published by e
    received    \* history: number of the last message received along a route

term_vars == <<unread, looking, back_seen, is_ready>>
queue_vars == <<mainstage, backstage, outbox, undelivered>>
history == <<published, received>>
vars == <<pc, notified, remaining, term_vars, queue_vars, failed, history>>

Targets(e) == {t \in Entities : <<e, t>> \in Routes}
Transmitters == {r[1] : r \in Routes}
Receivers == {r[2] : r \in Routes}
Sources == Entities \ Receivers

\* Mutant of ConnectedTransmitters: nobody upstream is known.
NoConnectedTransmitters(e) == {}

\* The message router notes the transmitter in the receiver for a Connection
\* (connect), not for a Topic (registerTransmitter, registerReceiver).
ConnectedTransmitters(e) == {s \in Entities : <<s, e>> \in Routes \ ByTopic}

Messages == Entities \X Nat

Init ==
    /\ pc = [e \in Entities |-> "idle"]
    /\ notified = [e \in Entities |-> TRUE]
    /\ remaining = [e \in Entities |-> Count]
    /\ unread = [e \in Entities |-> {}]
    /\ looking = [e \in Entities |-> e]
    /\ back_seen = [e \in Entities |-> 0]
    /\ is_ready = [e \in Entities |-> FALSE]
    /\ mainstage = [e \in Entities |-> <<>>]
    /\ backstage = [e \in Entities |-> <<>>]
    /\ outbox = [e \in Entities |-> <<>>]
    /\ undelivered = [e \in Entities |-> {}]
    /\ failed = FALSE
    /\ published = [e \in Entities |-> 0]
    /\ received = [r \in Routes |-> 0]

Notified(entities) ==
    notified' = [e \in Entities |-> notified[e] \/ e \in entities]

-------------------------------------------------------------------------------
(* The check of the terms. *)

\* The scheduler takes up a notification and has the entity checked.
StartCheck(e) ==
    /\ pc[e] = "idle"
    /\ notified[e]
    /\ ~failed
    /\ pc' = [pc EXCEPT ![e] = "check"]
    /\ notified' = [notified EXCEPT ![e] = FALSE]
    /\ unread' = [unread EXCEPT ![e] = Targets(e)]
    /\ is_ready' = [is_ready EXCEPT ![e] = TRUE]
    /\ UNCHANGED <<remaining, looking, back_seen, queue_vars, failed, history>>

\* Mutant of ReadBackSize: only the main stage counts.
ReadNoBackSize(e, t) ==
    /\ pc[e] = "check"
    /\ t \in unread[e]
    /\ pc' = [pc EXCEPT ![e] = "size"]
    /\ unread' = [unread EXCEPT ![e] = @ \ {t}]
    /\ looking' = [looking EXCEPT ![e] = t]
    /\ UNCHANGED <<notified, remaining, back_seen, is_ready, queue_vars, failed, history>>

\* The downstream term reads the back stage of a receiver first ...
ReadBackSize(e, t) ==
    /\ pc[e] = "check"
    /\ t \in unread[e]
    /\ pc' = [pc EXCEPT ![e] = "size"]
    /\ unread' = [unread EXCEPT ![e] = @ \ {t}]
    /\ looking' = [looking EXCEPT ![e] = t]
    /\ back_seen' = [back_seen EXCEPT ![e] = Len(backstage[t])]
    /\ UNCHANGED <<notified, remaining, is_ready, queue_vars, failed, history>>

\* capacity() - size() is unsigned: it wraps round when size() is larger.
Fits(back, main) == main > Capacity \/ back + MinSize <= Capacity - main

\* Mutant of ReadSize: "=" for "&=", the last receiver decides.
ReadSizeForgetting(e) ==
    /\ pc[e] = "size"
    /\ pc' = [pc EXCEPT ![e] = "check"]
    /\ is_ready' = [is_ready EXCEPT ![e] =
                       Fits(back_seen[e], Len(mainstage[looking[e]]))]
    /\ looking' = [looking EXCEPT ![e] = e]
    /\ back_seen' = [back_seen EXCEPT ![e] = 0]
    /\ UNCHANGED <<notified, remaining, unread, queue_vars, failed, history>>

\* ... and its main stage in another call.
ReadSize(e) ==
    /\ pc[e] = "size"
    /\ pc' = [pc EXCEPT ![e] = "check"]
    /\ is_ready' = [is_ready EXCEPT ![e] =
                       @ /\ Fits(back_seen[e], Len(mainstage[looking[e]]))]
    /\ looking' = [looking EXCEPT ![e] = e]
    /\ back_seen' = [back_seen EXCEPT ![e] = 0]
    /\ UNCHANGED <<notified, remaining, unread, queue_vars, failed, history>>

\* Messages for e, in either stage, or no receiver to have any.
MessageAvailable(e) ==
    e \in Receivers => Len(backstage[e]) + Len(mainstage[e]) > 0

\* The terms are combined: NEVER prevails, then WAIT.  An entity that waits is
\* looked at again when it has been notified; one that is spent is dropped.
Decide(e) ==
    /\ pc[e] = "check"
    /\ unread[e] = {}
    /\ pc' = [pc EXCEPT ![e] =
                 IF e \in Sources /\ remaining[e] = 0 THEN "spent"
                 ELSE IF is_ready[e] /\ MessageAvailable(e) THEN "sync"
                 ELSE "idle"]
    /\ UNCHANGED <<notified, remaining, term_vars, queue_vars, failed, history>>

-------------------------------------------------------------------------------
(* The tick. *)

\* MessageRouter::syncInbox.  A queue that overflows under kFault fails the
\* execution, and with it the scheduler.
SyncInbox(e) ==
    LET overflow == /\ Policy = "kFault"
                    /\ Len(mainstage[e]) + Len(backstage[e]) > Capacity
    IN
    /\ pc[e] = "sync"
    /\ mainstage' = [mainstage EXCEPT ![e] =
                        Synced(@, backstage[e], Capacity, Policy)]
    /\ backstage' = [backstage EXCEPT ![e] = <<>>]
    /\ pc' = [pc EXCEPT ![e] = IF overflow THEN "spent" ELSE "tick"]
    /\ failed' = (failed \/ overflow)
    /\ UNCHANGED <<notified, remaining, term_vars, outbox, undelivered, history>>

\* The codelet publishes message number published[e] + 1.
Publish(e) ==
    /\ outbox' = [outbox EXCEPT ![e] = Append(@, <<e, published[e] + 1>>)]
    /\ published' = [published EXCEPT ![e] = @ + 1]

\* A source creates a message.
Create(e) ==
    /\ e \in Sources
    /\ pc[e] \in {"tick", "ticked"}
    /\ Len(outbox[e]) < MinSize
    /\ Publish(e)
    /\ pc' = [pc EXCEPT ![e] = "ticked"]
    /\ UNCHANGED <<notified, remaining, term_vars, mainstage, backstage,
                   undelivered, failed, received>>

\* Receiver::receive pops a message ...
Pop(e) ==
    /\ e \in Receivers
    /\ pc[e] \in {"tick", "ticked"}
    /\ Len(outbox[e]) < MinSize
    /\ mainstage[e] # <<>>
    /\ mainstage' = [mainstage EXCEPT ![e] = Tail(@)]
    /\ received' = LET message == Head(mainstage[e])
                   IN [received EXCEPT ![<<message[1], e>>] = message[2]]
    /\ pc' = [pc EXCEPT ![e] = "popped"]
    /\ UNCHANGED <<notified, remaining, term_vars, backstage, outbox,
                   undelivered, failed, published>>

\* ... and then notifies the transmitters connected to it.  The codelet of an
\* entity that has a transmitter forwards the message.
FinishReceive(e) ==
    /\ pc[e] = "popped"
    /\ Notified(ConnectedTransmitters(e))
    /\ IF e \in Transmitters THEN Publish(e) ELSE UNCHANGED <<outbox, published>>
    /\ pc' = [pc EXCEPT ![e] = "ticked"]
    /\ UNCHANGED <<remaining, term_vars, mainstage, backstage, undelivered,
                   failed, received>>

\* At the end of an execution the router has notified the entities that have
\* got messages, and the scheduler looks at the executed entity again.
EndExecution(e, receivers) ==
    /\ pc' = [pc EXCEPT ![e] = "idle"]
    /\ Notified(receivers \cup {e})

\* The codelet returns, the count term counts and syncOutbox begins; without
\* messages it is over at once.
EndTick(e) ==
    /\ pc[e] = "ticked"
    /\ remaining' = [remaining EXCEPT ![e] = IF e \in Sources THEN @ - 1 ELSE @]
    /\ IF outbox[e] = <<>>
       THEN EndExecution(e, {}) /\ UNCHANGED undelivered
       ELSE /\ pc' = [pc EXCEPT ![e] = "distribute"]
            /\ undelivered' = [undelivered EXCEPT ![e] = Targets(e)]
            /\ UNCHANGED notified
    /\ UNCHANGED <<term_vars, mainstage, backstage, outbox, failed, history>>

\* MessageRouter::distribute pushes the message to one receiver after another
\* and ignores whether the push succeeded.
Distribute(e, t) ==
    /\ pc[e] = "distribute"
    /\ t \in undelivered[e]
    /\ backstage' = [backstage EXCEPT ![t] =
                        Pushed(@, Head(outbox[e]), Capacity, Policy)]
    /\ undelivered' = [undelivered EXCEPT ![e] = @ \ {t}]
    /\ UNCHANGED <<pc, notified, remaining, term_vars, mainstage, outbox, failed, history>>

\* Mutant of NextMessage: the first receiver gets the message.
NextMessageTooEarly(e) ==
    /\ pc[e] = "distribute"
    /\ undelivered[e] # Targets(e)
    /\ outbox' = [outbox EXCEPT ![e] = Tail(@)]
    /\ undelivered' = [undelivered EXCEPT ![e] = {}]
    /\ EndExecution(e, Targets(e))
    /\ UNCHANGED <<remaining, term_vars, mainstage, backstage, failed, history>>

\* The message is with every receiver: the next one, or the notifications.
NextMessage(e) ==
    /\ pc[e] = "distribute"
    /\ undelivered[e] = {}
    /\ outbox' = [outbox EXCEPT ![e] = Tail(@)]
    /\ IF Len(outbox[e]) > 1
       THEN /\ undelivered' = [undelivered EXCEPT ![e] = Targets(e)]
            /\ UNCHANGED <<pc, notified>>
       ELSE EndExecution(e, Targets(e)) /\ UNCHANGED undelivered
    /\ UNCHANGED <<remaining, term_vars, mainstage, backstage, failed, history>>

-------------------------------------------------------------------------------
Check(e) ==
    \/ StartCheck(e) \/ (\E t \in Entities : ReadBackSize(e, t)) \/ ReadSize(e)
    \/ Decide(e)

Tick(e) ==
    \/ SyncInbox(e) \/ Create(e) \/ Pop(e) \/ FinishReceive(e) \/ EndTick(e)
    \/ (\E t \in Entities : Distribute(e, t)) \/ NextMessage(e)

Next == \E e \in Entities : Check(e) \/ Tick(e)

\* The scheduler has a thread for every entity that is notified, and a codelet
\* returns from its tick.
Fairness == \A e \in Entities : WF_vars(Check(e) \/ Tick(e))

Spec == Init /\ [][Next]_vars /\ Fairness

-------------------------------------------------------------------------------
(* Properties. *)

Places == {"idle", "check", "size", "sync", "tick", "popped", "ticked",
           "distribute", "spent"}

TypeOK ==
    /\ pc \in [Entities -> Places]
    /\ notified \in [Entities -> BOOLEAN]
    /\ remaining \in [Entities -> Nat]
    /\ unread \in [Entities -> SUBSET Entities]
    /\ looking \in [Entities -> Entities]
    /\ back_seen \in [Entities -> Nat]
    /\ is_ready \in [Entities -> BOOLEAN]
    /\ mainstage \in [Entities -> Seq(Messages)]
    /\ backstage \in [Entities -> Seq(Messages)]
    /\ outbox \in [Entities -> Seq(Messages)]
    /\ undelivered \in [Entities -> SUBSET Entities]
    /\ failed \in BOOLEAN
    /\ published \in [Entities -> Nat]
    /\ received \in [Routes -> Nat]

Room(t) == Capacity - Len(mainstage[t]) - Len(backstage[t])
SingleWriter(t) == \A s1, s2 \in Entities :
                      <<s1, t>> \in Routes /\ <<s2, t>> \in Routes => s1 = s2

\* The downstream term of the only entity that feeds a receiver keeps its
\* queue from ever overflowing, although it reads the two stages in two calls
\* while the receiving entity moves messages from one to the other, and the
\* message is pushed long after (DownstreamReceptiveSchedulingTerm, distribute).
NoOverflow == \A t \in Receivers : SingleWriter(t) => Room(t) >= 0

\* Between the check of its terms and the distribution of what it publishes,
\* an entity has room for min_size messages in every receiver it alone feeds
\* (update_state_abi: "required <= available").
ReadyEntityHasRoom ==
    \A r \in Routes :
        SingleWriter(r[2]) /\ pc[r[1]] \in {"sync", "tick", "popped", "ticked"}
            => Room(r[2]) >= MinSize

\* Every message published is received once, in order, and in the end, on
\* every route (DoubleBufferReceiver, MessageRouter, the two terms and the
\* notifications together).
Channel == INSTANCE MessageChannel
ImplementsChannel == Channel!Spec

\* An entity whose executions are not used up is executed again as long as its
\* receivers can take its messages: a source uses up its count
\* (scheduling_terms.cpp:176 "The term permits execution if this transmitter
\* can publish a message").
SourcesUseUpCount == \A e \in Sources : <>(remaining[e] = 0)
===============================================================================
