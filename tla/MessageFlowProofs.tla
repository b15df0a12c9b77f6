--------------------------- MODULE MessageFlowProofs ---------------------------
(***************************************************************************)
(* For every graph, capacity, minimum size and overflow policy: the types  *)
(* of MessageFlow, that the downstream term leaves an entity room in the   *)
(* receivers it alone feeds from the check to the distribution, that such  *)
(* a receiver never overflows, and that messages arrive once and in order. *)
(*                                                                         *)
(* Room is promised while the term is still reading: RoomFound holds for   *)
(* the receivers it has read, Seen for the one it is reading, because the  *)
(* back stage it has read can only become shorter.  While a message is     *)
(* distributed the room left covers what the outbox still holds            *)
(* (DeliveryFits).                                                         *)
(***************************************************************************)
EXTENDS MessageFlow, TLAPS

\* e alone feeds the receiver of t.
Sole(e, t) == <<e, t>> \in Routes /\ SingleWriter(t)

Ticking == {"tick", "popped", "ticked"}

OutboxOK(e) ==
    /\ Len(outbox[e]) <= MinSize
    /\ pc[e] \notin Ticking \cup {"distribute"} => outbox[e] = <<>>
    /\ pc[e] = "popped" => Len(outbox[e]) < MinSize
    /\ pc[e] = "distribute" => Len(outbox[e]) > 0
    /\ undelivered[e] \subseteq Targets(e)

OutboxBounded == \A e \in Entities : OutboxOK(e)

CountLeft ==
    \A e \in Sources : pc[e] \in Ticking \cup {"sync"} => remaining[e] > 0

\* What e, which alone feeds t, knows about the room in t.
RoomFound(e, t) ==
    /\ pc[e] \in {"check", "size"}
    /\ is_ready[e]
    /\ t \notin unread[e]
    /\ ~(pc[e] = "size" /\ looking[e] = t)
    => Room(t) >= MinSize

Seen(e, t) ==
    pc[e] = "size" /\ looking[e] = t => Len(backstage[t]) <= back_seen[e]

RoomKept(e, t) == pc[e] \in Ticking \cup {"sync"} => Room(t) >= MinSize

DeliveryFits(e, t) ==
    pc[e] = "distribute"
        => Room(t) >= Len(outbox[e]) - (IF t \in undelivered[e] THEN 0 ELSE 1)

PairOK(e, t) ==
    Room(t) >= 0 /\ RoomFound(e, t) /\ Seen(e, t) /\ RoomKept(e, t) /\ DeliveryFits(e, t)

RoomInv == \A e, t \in Entities : Sole(e, t) => PairOK(e, t)

IInv == TypeOK /\ OutboxBounded /\ CountLeft /\ RoomInv

LEMMA PushedStage ==
    ASSUME NEW S, NEW b \in Seq(S), NEW x \in S, NEW c \in Nat \ {0}, NEW beh
    PROVE  /\ Pushed(b, x, c, beh) \in Seq(S)
           /\ Len(Pushed(b, x, c, beh)) <= Len(b) + 1
  BY DEF Pushed

LEMMA SyncedStage ==
    ASSUME NEW S, NEW m \in Seq(S), NEW b \in Seq(S), NEW c \in Nat \ {0}, NEW beh
    PROVE  /\ Synced(m, b, c, beh) \in Seq(S)
           /\ Len(Synced(m, b, c, beh)) <= Len(m) + Len(b)
  <1>1. m \o b \in Seq(S) /\ Len(m \o b) = Len(m) + Len(b)
    OBVIOUS
  <1>2. CASE Len(m) + Len(b) <= c \/ beh = "kFault"
    BY <1>1, <1>2 DEF Synced
  <1>3. CASE ~(Len(m) + Len(b) <= c \/ beh = "kFault")
    <2> DEFINE s == m \o b
    <2>1. s \in Seq(S) /\ Len(s) = Len(m) + Len(b) /\ Len(s) > c
      BY <1>1, <1>3
    <2> HIDE DEF s
    <2>2. SubSeq(s, Len(s) - c + 1, Len(s)) \in Seq(S) /\ SubSeq(s, 1, c) \in Seq(S)
      BY <2>1
    <2>3. Len(SubSeq(s, Len(s) - c + 1, Len(s))) <= Len(s) /\ Len(SubSeq(s, 1, c)) <= Len(s)
      BY <2>1
    <2>4. Synced(m, b, c, beh) = SubSeq(s, Len(s) - c + 1, Len(s))
             \/ Synced(m, b, c, beh) = SubSeq(s, 1, c)
      BY <1>3 DEF Synced, Last, First, s
    <2> QED BY <2>1, <2>2, <2>3, <2>4
  <1> QED BY <1>2, <1>3

LEMMA MessageFields ==
    /\ \A e \in Entities : \A n \in Nat : <<e, n>> \in Messages
    /\ \A m \in Messages : m[2] \in Nat
  BY DEF Messages

LEMMA NotifiedType ==
    ASSUME notified \in [Entities -> BOOLEAN], NEW R, Notified(R)
    PROVE  notified' \in [Entities -> BOOLEAN]
  BY DEF Notified

\* Every action keeps the types, the outboxes within the minimum size and the
\* count of a source that executes above zero.
LEMMA TypeStep ==
    ASSUME IInv, NEW e \in Entities, Check(e) \/ Tick(e)
    PROVE  TypeOK'
  <1> USE RoutesAssumption, SizesAssumption DEF IInv, TypeOK, Places, term_vars,
        queue_vars, history
  <1>1. ASSUME StartCheck(e) PROVE TypeOK'
    BY <1>1 DEF StartCheck, Targets
  <1>2. ASSUME NEW t \in Entities, ReadBackSize(e, t) PROVE TypeOK'
    BY <1>2 DEF ReadBackSize
  <1>3. ASSUME ReadSize(e) PROVE TypeOK'
    BY <1>3 DEF ReadSize
  <1>4. ASSUME Decide(e) PROVE TypeOK'
    BY <1>4 DEF Decide
  <1>5. ASSUME SyncInbox(e) PROVE TypeOK'
    BY <1>5, SyncedStage DEF SyncInbox
  <1>6. ASSUME Create(e) PROVE TypeOK'
    <2>1. Append(outbox[e], <<e, published[e] + 1>>) \in Seq(Messages)
      BY <1>6, MessageFields
    <2>2. QED
      BY <2>1, <1>6 DEF Create, Publish
  <1>7. ASSUME Pop(e) PROVE TypeOK'
    <2>1. Tail(mainstage[e]) \in Seq(Messages) /\ Head(mainstage[e])[2] \in Nat
      BY <1>7, MessageFields DEF Pop
    <2>2. QED
      BY <2>1, <1>7 DEF Pop
  <1>8. ASSUME FinishReceive(e) PROVE TypeOK'
    <2>1. notified' \in [Entities -> BOOLEAN]
      BY <1>8, NotifiedType DEF FinishReceive
    <2>2. Append(outbox[e], <<e, published[e] + 1>>) \in Seq(Messages)
      BY <1>8, MessageFields
    <2>3. outbox' \in [Entities -> Seq(Messages)] /\ published' \in [Entities -> Nat]
      <3>1. CASE Publish(e)
        BY <3>1, <2>2 DEF Publish
      <3>2. CASE outbox' = outbox /\ published' = published
        BY <3>2
      <3>3. QED
        BY <1>8, <3>1, <3>2 DEF FinishReceive
    <2>4. /\ pc' = [pc EXCEPT ![e] = "ticked"]
          /\ UNCHANGED <<remaining, unread, looking, back_seen, is_ready, mainstage,
                         backstage, undelivered, failed, received>>
      BY <1>8 DEF FinishReceive
    <2>5. QED
      BY <2>1, <2>3, <2>4
  <1>9. ASSUME EndTick(e) PROVE TypeOK'
    <2>1. notified' \in [Entities -> BOOLEAN]
      <3>1. CASE outbox[e] = <<>>
        BY <1>9, <3>1, NotifiedType DEF EndTick, EndExecution
      <3>2. CASE outbox[e] # <<>>
        BY <1>9, <3>2 DEF EndTick
      <3>3. QED
        BY <3>1, <3>2
    <2>2. remaining' \in [Entities -> Nat]
      BY <1>9 DEF EndTick, CountLeft, Ticking
    <2>3. pc' \in [Entities -> Places] /\ undelivered' \in [Entities -> SUBSET Entities]
      <3>1. CASE outbox[e] = <<>>
        <4>1. pc' = [pc EXCEPT ![e] = "idle"] /\ undelivered' = undelivered
          BY <1>9, <3>1 DEF EndTick, EndExecution
        <4>2. QED
          BY <4>1
      <3>2. CASE outbox[e] # <<>>
        <4>1. /\ pc' = [pc EXCEPT ![e] = "distribute"]
              /\ undelivered' = [undelivered EXCEPT ![e] = Targets(e)]
          BY <1>9, <3>2 DEF EndTick
        <4>2. Targets(e) \subseteq Entities
          BY DEF Targets
        <4>3. QED
          BY <4>1, <4>2
      <3>3. QED
        BY <3>1, <3>2
    <2>4. UNCHANGED <<unread, looking, back_seen, is_ready, mainstage, backstage,
                      outbox, failed, published, received>>
      BY <1>9 DEF EndTick
    <2>5. QED
      BY <2>1, <2>2, <2>3, <2>4
  <1>10. ASSUME NEW t \in Entities, Distribute(e, t) PROVE TypeOK'
    <2>1. Pushed(backstage[t], Head(outbox[e]), Capacity, Policy) \in Seq(Messages)
      BY <1>10, PushedStage DEF Distribute, OutboxBounded, OutboxOK
    <2>2. QED
      BY <2>1, <1>10 DEF Distribute
  <1>11. ASSUME NextMessage(e) PROVE TypeOK'
    <2>1. notified' \in [Entities -> BOOLEAN]
      <3>1. CASE Len(outbox[e]) > 1
        BY <1>11, <3>1 DEF NextMessage
      <3>2. CASE ~(Len(outbox[e]) > 1)
        BY <1>11, <3>2, NotifiedType DEF NextMessage, EndExecution
      <3>3. QED
        BY <3>1, <3>2
    <2>2. Tail(outbox[e]) \in Seq(Messages)
      BY <1>11 DEF NextMessage, OutboxBounded, OutboxOK
    <2>3. outbox' \in [Entities -> Seq(Messages)]
      BY <1>11, <2>2 DEF NextMessage
    <2>4. pc' \in [Entities -> Places] /\ undelivered' \in [Entities -> SUBSET Entities]
      <3>1. CASE Len(outbox[e]) > 1
        <4>1. /\ pc' = pc
              /\ undelivered' = [undelivered EXCEPT ![e] = Targets(e)]
          BY <1>11, <3>1 DEF NextMessage
        <4>2. Targets(e) \subseteq Entities
          BY DEF Targets
        <4>3. QED
          BY <4>1, <4>2
      <3>2. CASE ~(Len(outbox[e]) > 1)
        <4>1. pc' = [pc EXCEPT ![e] = "idle"] /\ undelivered' = undelivered
          BY <1>11, <3>2 DEF NextMessage, EndExecution
        <4>2. QED
          BY <4>1
      <3>3. QED
        BY <3>1, <3>2
    <2>5. UNCHANGED <<remaining, unread, looking, back_seen, is_ready, mainstage,
                      backstage, failed, published, received>>
      BY <1>11 DEF NextMessage
    <2>6. QED
      BY <2>1, <2>3, <2>4, <2>5
  <1>12. QED
    BY <1>1, <1>2, <1>3, <1>4, <1>5, <1>6, <1>7, <1>8, <1>9, <1>10, <1>11 DEF Check, Tick

LEMMA OutboxStep ==
    ASSUME IInv, NEW e \in Entities, Check(e) \/ Tick(e)
    PROVE  OutboxBounded'
  <1>0. /\ pc \in [Entities -> Places] /\ outbox \in [Entities -> Seq(Messages)]
        /\ undelivered \in [Entities -> SUBSET Entities]
        /\ published \in [Entities -> Nat]
        /\ MinSize \in Nat \ {0}
        /\ OutboxBounded
    BY SizesAssumption DEF IInv, TypeOK
  <1>00. SUFFICES ASSUME NEW d \in Entities PROVE OutboxOK(d)'
    BY DEF OutboxBounded
  <1>a. OutboxOK(d) /\ outbox[d] \in Seq(Messages)
    BY <1>0 DEF OutboxBounded
  <1> USE DEF Ticking, queue_vars, history, OutboxOK, Targets
  <1>1. ASSUME StartCheck(e) PROVE OutboxOK(d)'
    BY <1>1, <1>0, <1>a DEF StartCheck
  <1>2. ASSUME NEW t \in Entities, ReadBackSize(e, t) PROVE OutboxOK(d)'
    BY <1>2, <1>0, <1>a DEF ReadBackSize
  <1>3. ASSUME ReadSize(e) PROVE OutboxOK(d)'
    BY <1>3, <1>0, <1>a DEF ReadSize
  <1>4. ASSUME Decide(e) PROVE OutboxOK(d)'
    BY <1>4, <1>0, <1>a DEF Decide
  <1>5. ASSUME SyncInbox(e) PROVE OutboxOK(d)'
    BY <1>5, <1>0, <1>a DEF SyncInbox
  <1>6. ASSUME Create(e) PROVE OutboxOK(d)'
    BY <1>6, <1>0, <1>a, MessageFields DEF Create, Publish
  <1>7. ASSUME Pop(e) PROVE OutboxOK(d)'
    BY <1>7, <1>0, <1>a DEF Pop
  <1>8. ASSUME FinishReceive(e) PROVE OutboxOK(d)'
    BY <1>8, <1>0, <1>a, MessageFields DEF FinishReceive, Publish
  <1>9. ASSUME EndTick(e) PROVE OutboxOK(d)'
    BY <1>9, <1>0, <1>a DEF EndTick, EndExecution
  <1>10. ASSUME NEW t \in Entities, Distribute(e, t) PROVE OutboxOK(d)'
    BY <1>10, <1>0, <1>a DEF Distribute
  <1>11. ASSUME NextMessage(e) PROVE OutboxOK(d)'
    BY <1>11, <1>0, <1>a DEF NextMessage, EndExecution
  <1> HIDE DEF OutboxOK
  <1>12. QED
    BY <1>1, <1>2, <1>3, <1>4, <1>5, <1>6, <1>7, <1>8, <1>9, <1>10, <1>11 DEF Check, Tick

LEMMA CountStep ==
    ASSUME IInv, NEW e \in Entities, Check(e) \/ Tick(e)
    PROVE  CountLeft'
  <1>0. pc \in [Entities -> Places] /\ remaining \in [Entities -> Nat]
    BY DEF IInv, TypeOK
  <1>00. SUFFICES ASSUME NEW d \in Sources, pc'[d] \in Ticking \cup {"sync"}
                  PROVE  remaining'[d] > 0
    BY DEF CountLeft
  <1>a. pc[d] \in Ticking \cup {"sync"} => remaining[d] > 0
    BY DEF IInv, CountLeft
  <1>b. d \in Entities /\ remaining[d] \in Nat
    BY <1>0 DEF Sources
  <1> USE DEF Ticking, queue_vars, history
  <1>1. ASSUME StartCheck(e) PROVE remaining'[d] > 0
    BY <1>1, <1>00, <1>0, <1>a, <1>b DEF StartCheck
  <1>2. ASSUME NEW t \in Entities, ReadBackSize(e, t) PROVE remaining'[d] > 0
    BY <1>2, <1>00, <1>0, <1>a, <1>b DEF ReadBackSize
  <1>3. ASSUME ReadSize(e) PROVE remaining'[d] > 0
    BY <1>3, <1>00, <1>0, <1>a, <1>b DEF ReadSize
  <1>4. ASSUME Decide(e) PROVE remaining'[d] > 0
    BY <1>4, <1>00, <1>0, <1>a, <1>b DEF Decide
  <1>5. ASSUME SyncInbox(e) PROVE remaining'[d] > 0
    BY <1>5, <1>00, <1>0, <1>a, <1>b DEF SyncInbox
  <1>6. ASSUME Create(e) PROVE remaining'[d] > 0
    BY <1>6, <1>00, <1>0, <1>a, <1>b DEF Create
  <1>7. ASSUME Pop(e) PROVE remaining'[d] > 0
    BY <1>7, <1>00, <1>0, <1>a, <1>b DEF Pop
  <1>8. ASSUME FinishReceive(e) PROVE remaining'[d] > 0
    BY <1>8, <1>00, <1>0, <1>a, <1>b DEF FinishReceive
  <1>9. ASSUME EndTick(e) PROVE remaining'[d] > 0
    BY <1>9, <1>00, <1>0, <1>a, <1>b DEF EndTick, EndExecution
  <1>10. ASSUME NEW t \in Entities, Distribute(e, t) PROVE remaining'[d] > 0
    BY <1>10, <1>00, <1>0, <1>a, <1>b DEF Distribute
  <1>11. ASSUME NextMessage(e) PROVE remaining'[d] > 0
    BY <1>11, <1>00, <1>0, <1>a, <1>b DEF NextMessage, EndExecution
  <1>12. QED
    BY <1>1, <1>2, <1>3, <1>4, <1>5, <1>6, <1>7, <1>8, <1>9, <1>10, <1>11 DEF Check, Tick

\* Room only grows, and the back stage only shrinks, in all but Distribute.
Drains(t) == Room(t)' >= Room(t) /\ Len(backstage[t])' <= Len(backstage[t])

LEMMA StageLengths ==
    ASSUME TypeOK, NEW t \in Entities
    PROVE  /\ Len(mainstage[t]) \in Nat /\ Len(backstage[t]) \in Nat
           /\ Room(t) \in Int
           /\ Room(t) = Capacity - Len(mainstage[t]) - Len(backstage[t])
           /\ Capacity \in Nat \ {0} /\ MinSize \in Nat \ {0}
  BY SizesAssumption DEF TypeOK, Room

LEMMA Drain ==
    ASSUME TypeOK, TypeOK', NEW e \in Entities, NEW t \in Entities,
           \/ UNCHANGED <<mainstage, backstage>>
           \/ SyncInbox(e)
           \/ Pop(e)
    PROVE  Drains(t)
  <1>0. /\ mainstage \in [Entities -> Seq(Messages)]
        /\ backstage \in [Entities -> Seq(Messages)]
        /\ Capacity \in Nat \ {0}
    BY SizesAssumption DEF TypeOK
  <1>1. CASE UNCHANGED <<mainstage, backstage>>
    BY <1>0, <1>1 DEF Drains, Room
  <1>2. CASE SyncInbox(e)
    <2>1. CASE t = e
      <3>1. /\ mainstage'[e] = Synced(mainstage[e], backstage[e], Capacity, Policy)
            /\ backstage'[e] = <<>>
        BY <1>0, <1>2 DEF SyncInbox
      <3>2. /\ mainstage'[e] \in Seq(Messages)
            /\ Len(mainstage'[e]) <= Len(mainstage[e]) + Len(backstage[e])
        BY <1>0, <3>1, SyncedStage
      <3>3. QED
        BY <1>0, <2>1, <3>1, <3>2 DEF Drains, Room
    <2>2. CASE t # e
      <3>1. mainstage'[t] = mainstage[t] /\ backstage'[t] = backstage[t]
        BY <1>0, <1>2, <2>2 DEF SyncInbox
      <3>2. QED
        BY <1>0, <3>1 DEF Drains, Room
    <2>3. QED
      BY <2>1, <2>2
  <1>3. CASE Pop(e)
    <2>1. /\ backstage' = backstage
          /\ mainstage'[t] = IF t = e THEN Tail(mainstage[e]) ELSE mainstage[t]
          /\ mainstage[e] # <<>>
      BY <1>0, <1>3 DEF Pop
    <2>2. QED
      BY <1>0, <2>1 DEF Drains, Room
  <1>4. QED
    BY <1>1, <1>2, <1>3

LEMMA Bystander ==
    ASSUME TypeOK, TypeOK', NEW s \in Entities, NEW t \in Entities, PairOK(s, t), Drains(t),
           UNCHANGED <<pc[s], is_ready[s], unread[s], looking[s], back_seen[s],
                       outbox[s], undelivered[s]>>
    PROVE  PairOK(s, t)'
  <1>1. /\ Len(backstage[t]) \in Nat /\ Room(t) \in Int /\ MinSize \in Nat
        /\ back_seen[s] \in Nat /\ Len(outbox[s]) \in Nat
    <2>1. outbox[s] \in Seq(Messages) /\ back_seen[s] \in Nat
      BY DEF TypeOK
    <2>2. QED
      BY <2>1, StageLengths
  <1>2. Len(backstage[t])' \in Nat /\ Room(t)' \in Int
    <2>1. mainstage'[t] \in Seq(Messages) /\ backstage'[t] \in Seq(Messages)
      BY DEF TypeOK
    <2>2. QED
      BY <2>1, SizesAssumption DEF Room
  <1>3. /\ Room(t)' >= 0 /\ Seen(s, t)'
    BY <1>1, <1>2 DEF PairOK, Seen, Drains
  <1>4. RoomFound(s, t)' /\ RoomKept(s, t)'
    BY <1>1, <1>2 DEF PairOK, RoomFound, RoomKept, Drains
  <1>5. DeliveryFits(s, t)'
    <2> DEFINE due == Len(outbox[s]) - (IF t \in undelivered[s] THEN 0 ELSE 1)
    <2>1. due \in Int /\ due' = due
      BY <1>1
    <2>2. pc[s] = "distribute" => Room(t) >= due
      BY DEF PairOK, DeliveryFits
    <2>3. Room(t)' >= Room(t)
      BY DEF Drains
    <2> HIDE DEF due
    <2>4. pc'[s] = "distribute" => Room(t)' >= due'
      BY <1>1, <1>2, <2>1, <2>2, <2>3
    <2>5. QED
      BY <2>4 DEF DeliveryFits, due
  <1>6. QED
    BY <1>3, <1>4, <1>5 DEF PairOK

LEMMA RoomStep ==
    ASSUME IInv, TypeOK', OutboxBounded', NEW e \in Entities, Check(e) \/ Tick(e)
    PROVE  RoomInv'
  <1>0. SUFFICES ASSUME NEW s \in Entities, NEW t \in Entities, Sole(s, t)
                 PROVE  PairOK(s, t)'
    BY DEF RoomInv, Sole, SingleWriter
  <1>a. PairOK(s, t) /\ TypeOK /\ OutboxOK(s) /\ OutboxOK(e) /\ OutboxOK(s)'
    BY <1>0 DEF IInv, RoomInv, OutboxBounded
  <1>b. /\ pc \in [Entities -> Places] /\ is_ready \in [Entities -> BOOLEAN]
        /\ unread \in [Entities -> SUBSET Entities]
        /\ looking \in [Entities -> Entities] /\ back_seen \in [Entities -> Nat]
        /\ outbox \in [Entities -> Seq(Messages)]
        /\ undelivered \in [Entities -> SUBSET Entities]
    BY <1>a DEF TypeOK
  <1>c. /\ Len(mainstage[t]) \in Nat /\ Len(backstage[t]) \in Nat
        /\ Room(t) \in Int /\ MinSize \in Nat \ {0} /\ Capacity \in Nat \ {0}
        /\ Room(t) = Capacity - Len(mainstage[t]) - Len(backstage[t])
    BY <1>a, StageLengths
  <1>d. /\ Len(mainstage[t])' \in Nat /\ Len(backstage[t])' \in Nat /\ Room(t)' \in Int
    <2>1. mainstage'[t] \in Seq(Messages) /\ backstage'[t] \in Seq(Messages)
      BY DEF TypeOK
    <2>2. QED
      BY <2>1, SizesAssumption DEF Room
  <1>f. Room(t) \in Int /\ Room(t)' \in Int
    BY <1>c, <1>d
  <1>g. MinSize \in Nat /\ Len(backstage[t]) \in Nat /\ Len(backstage[t])' \in Nat
    BY <1>c, <1>d
  <1>e. t \in Targets(s)
    BY <1>0 DEF Sole, Targets
  <1> USE DEF Ticking, queue_vars, history, term_vars
  <1>1. ASSUME StartCheck(e) PROVE PairOK(s, t)'
    <2>1. CASE s = e
      <3>1. Drains(t) /\ t \in unread'[s] /\ pc'[s] = "check"
        BY <1>1, <2>1, <1>a, <1>b, <1>e, Drain DEF StartCheck
      <3>2. QED
        <4>0. Room(t)' >= Room(t) /\ Len(backstage[t])' <= Len(backstage[t])
          BY <3>1 DEF Drains
        <4>1. Room(t) >= 0
          BY <1>a DEF PairOK
        <4>2. Room(t)' >= 0
          BY <4>0, <1>f, <4>1
        <4>3. RoomFound(s, t)'
          <5>1. RoomFound(s, t)
            BY <1>a DEF PairOK
          <5>2. QED
            BY <4>0, <3>1, <1>f, <1>g, <5>1 DEF RoomFound, Drains
        <4>4. Seen(s, t)'
          <5>1. Seen(s, t)
            BY <1>a DEF PairOK
          <5>2. QED
            BY <4>0, <3>1, <1>f, <1>g, <5>1 DEF Seen, Drains
        <4>5. RoomKept(s, t)'
          <5>1. RoomKept(s, t) /\ RoomFound(s, t)
            BY <1>a DEF PairOK
          <5>2. QED
            BY <4>0, <3>1, <1>f, <1>g, <5>1 DEF RoomKept, RoomFound, Drains
        <4>6. DeliveryFits(s, t)'
          BY <4>0, <3>1, <1>f, <1>g DEF DeliveryFits, Drains
        <4>7. QED
          BY <4>2, <4>3, <4>4, <4>5, <4>6 DEF PairOK
    <2>2. CASE s # e
      <3>1. Drains(t)
        BY <1>1, <1>a, Drain DEF StartCheck
      <3>2. UNCHANGED <<pc[s], is_ready[s], unread[s], looking[s], back_seen[s],
                        outbox[s], undelivered[s]>>
        BY <1>1, <2>2, <1>b DEF StartCheck
      <3>3. QED
        BY <3>1, <3>2, <1>a, Bystander
    <2>3. QED
      BY <2>1, <2>2
  <1>2. ASSUME NEW u \in Entities, ReadBackSize(e, u) PROVE PairOK(s, t)'
    <2>1. CASE s = e
      <3>1. /\ UNCHANGED <<mainstage, backstage>> /\ pc[s] = "check" /\ pc'[s] = "size"
            /\ unread'[s] = unread[s] \ {u} /\ looking'[s] = u
            /\ back_seen'[s] = Len(backstage[u]) /\ is_ready'[s] = is_ready[s]
        BY <1>2, <2>1, <1>b DEF ReadBackSize
      <3>2. Room(t)' = Room(t)
        BY <3>1 DEF Room
      <3>3. QED
        <4>1. Room(t) >= 0
          BY <1>a DEF PairOK
        <4>2. Room(t)' >= 0
          BY <3>2, <1>f, <4>1
        <4>3. RoomFound(s, t)'
          <5>1. RoomFound(s, t)
            BY <1>a DEF PairOK
          <5>2. QED
            BY <3>1, <3>2, <1>f, <1>g, <5>1 DEF RoomFound
        <4>4. Seen(s, t)'
          <5>1. Seen(s, t)
            BY <1>a DEF PairOK
          <5>2. QED
            BY <3>1, <3>2, <1>f, <1>g, <5>1 DEF Seen
        <4>5. RoomKept(s, t)'
          <5>1. RoomKept(s, t) /\ RoomFound(s, t)
            BY <1>a DEF PairOK
          <5>2. QED
            BY <3>1, <3>2, <1>f, <1>g, <5>1 DEF RoomKept, RoomFound
        <4>6. DeliveryFits(s, t)'
          BY <3>1, <3>2, <1>f, <1>g DEF DeliveryFits
        <4>7. QED
          BY <4>2, <4>3, <4>4, <4>5, <4>6 DEF PairOK
    <2>2. CASE s # e
      <3>1. Drains(t)
        BY <1>2, <1>a, Drain DEF ReadBackSize
      <3>2. UNCHANGED <<pc[s], is_ready[s], unread[s], looking[s], back_seen[s],
                        outbox[s], undelivered[s]>>
        BY <1>2, <2>2, <1>b DEF ReadBackSize
      <3>3. QED
        BY <3>1, <3>2, <1>a, Bystander
    <2>3. QED
      BY <2>1, <2>2
  <1>3. ASSUME ReadSize(e) PROVE PairOK(s, t)'
    <2>1. CASE s = e
      <3>1. /\ UNCHANGED <<mainstage, backstage>> /\ pc[s] = "size" /\ pc'[s] = "check"
            /\ unread'[s] = unread[s]
            /\ is_ready'[s] = (is_ready[s]
                                 /\ Fits(back_seen[s], Len(mainstage[looking[s]])))
        BY <1>3, <2>1, <1>b DEF ReadSize
      <3>2. Room(t)' = Room(t)
        BY <3>1 DEF Room
      <3>3. looking[s] = t /\ is_ready'[s] => Room(t) >= MinSize
        <4>1. looking[s] = t => Len(backstage[t]) <= back_seen[s]
          BY <1>a, <3>1 DEF PairOK, Seen
        <4>2. looking[s] = t /\ is_ready'[s] =>
                 \/ Len(mainstage[t]) > Capacity
                 \/ back_seen[s] + MinSize <= Capacity - Len(mainstage[t])
          BY <3>1 DEF Fits
        <4>3. Room(t) >= 0 /\ back_seen[s] \in Nat
          BY <1>a, <1>b DEF PairOK
        <4>4. QED
          BY <4>1, <4>2, <4>3, <1>c
      <3>4. looking[s] # t /\ is_ready'[s] /\ t \notin unread[s] => Room(t) >= MinSize
        BY <3>1, <1>a DEF PairOK, RoomFound
      <3>5. RoomFound(s, t)'
        BY <3>1, <3>2, <3>3, <3>4 DEF RoomFound
      <3>6. QED
        BY <3>1, <3>2, <3>5, <1>a DEF PairOK, Seen, RoomKept, DeliveryFits
    <2>2. CASE s # e
      <3>1. Drains(t)
        BY <1>3, <1>a, Drain DEF ReadSize
      <3>2. UNCHANGED <<pc[s], is_ready[s], unread[s], looking[s], back_seen[s],
                        outbox[s], undelivered[s]>>
        BY <1>3, <2>2, <1>b DEF ReadSize
      <3>3. QED
        BY <3>1, <3>2, <1>a, Bystander
    <2>3. QED
      BY <2>1, <2>2
  <1>4. ASSUME Decide(e) PROVE PairOK(s, t)'
    <2>1. CASE s = e
      <3>1. /\ UNCHANGED <<mainstage, backstage>> /\ pc[s] = "check" /\ unread[s] = {}
            /\ pc'[s] \in {"idle", "spent", "sync"}
            /\ pc'[s] = "sync" => is_ready[s]
        BY <1>4, <2>1, <1>b DEF Decide
      <3>2. Room(t)' = Room(t)
        BY <3>1 DEF Room
      <3>3. QED
        <4>1. Room(t) >= 0
          BY <1>a DEF PairOK
        <4>2. Room(t)' >= 0
          BY <3>2, <1>f, <4>1
        <4>3. RoomFound(s, t)'
          <5>1. RoomFound(s, t)
            BY <1>a DEF PairOK
          <5>2. QED
            BY <3>1, <3>2, <1>f, <1>g, <5>1 DEF RoomFound
        <4>4. Seen(s, t)'
          <5>1. Seen(s, t)
            BY <1>a DEF PairOK
          <5>2. QED
            BY <3>1, <3>2, <1>f, <1>g, <5>1 DEF Seen
        <4>5. RoomKept(s, t)'
          <5>1. RoomKept(s, t) /\ RoomFound(s, t)
            BY <1>a DEF PairOK
          <5>2. QED
            BY <3>1, <3>2, <1>f, <1>g, <5>1 DEF RoomKept, RoomFound
        <4>6. DeliveryFits(s, t)'
          BY <3>1, <3>2, <1>f, <1>g DEF DeliveryFits
        <4>7. QED
          BY <4>2, <4>3, <4>4, <4>5, <4>6 DEF PairOK
    <2>2. CASE s # e
      <3>1. Drains(t)
        BY <1>4, <1>a, Drain DEF Decide
      <3>2. UNCHANGED <<pc[s], is_ready[s], unread[s], looking[s], back_seen[s],
                        outbox[s], undelivered[s]>>
        BY <1>4, <2>2, <1>b DEF Decide
      <3>3. QED
        BY <3>1, <3>2, <1>a, Bystander
    <2>3. QED
      BY <2>1, <2>2
  <1>5. ASSUME SyncInbox(e) PROVE PairOK(s, t)'
    <2>1. CASE s = e
      <3>1. Drains(t) /\ pc[s] = "sync" /\ pc'[s] \in {"tick", "spent"}
        BY <1>5, <2>1, <1>a, <1>b, Drain DEF SyncInbox
      <3>2. QED
        <4>0. Room(t)' >= Room(t) /\ Len(backstage[t])' <= Len(backstage[t])
          BY <3>1 DEF Drains
        <4>1. Room(t) >= 0
          BY <1>a DEF PairOK
        <4>2. Room(t)' >= 0
          BY <4>0, <1>f, <4>1
        <4>3. RoomFound(s, t)'
          <5>1. RoomFound(s, t)
            BY <1>a DEF PairOK
          <5>2. QED
            BY <4>0, <3>1, <1>f, <1>g, <5>1 DEF RoomFound, Drains
        <4>4. Seen(s, t)'
          <5>1. Seen(s, t)
            BY <1>a DEF PairOK
          <5>2. QED
            BY <4>0, <3>1, <1>f, <1>g, <5>1 DEF Seen, Drains
        <4>5. RoomKept(s, t)'
          <5>1. RoomKept(s, t) /\ RoomFound(s, t)
            BY <1>a DEF PairOK
          <5>2. QED
            BY <4>0, <3>1, <1>f, <1>g, <5>1 DEF RoomKept, RoomFound, Drains
        <4>6. DeliveryFits(s, t)'
          BY <4>0, <3>1, <1>f, <1>g DEF DeliveryFits, Drains
        <4>7. QED
          BY <4>2, <4>3, <4>4, <4>5, <4>6 DEF PairOK
    <2>2. CASE s # e
      <3>1. Drains(t)
        BY <1>5, <1>a, Drain DEF SyncInbox
      <3>2. UNCHANGED <<pc[s], is_ready[s], unread[s], looking[s], back_seen[s],
                        outbox[s], undelivered[s]>>
        BY <1>5, <2>2, <1>b DEF SyncInbox
      <3>3. QED
        BY <3>1, <3>2, <1>a, Bystander
    <2>3. QED
      BY <2>1, <2>2
  <1>6. ASSUME Create(e) PROVE PairOK(s, t)'
    <2>1. CASE s = e
      <3>1. Drains(t) /\ pc[s] \in Ticking /\ pc'[s] \in Ticking
        BY <1>6, <2>1, <1>a, <1>b, Drain DEF Create
      <3>2. QED
        <4>0. Room(t)' >= Room(t) /\ Len(backstage[t])' <= Len(backstage[t])
          BY <3>1 DEF Drains
        <4>1. Room(t) >= 0
          BY <1>a DEF PairOK
        <4>2. Room(t)' >= 0
          BY <4>0, <1>f, <4>1
        <4>3. RoomFound(s, t)'
          <5>1. RoomFound(s, t)
            BY <1>a DEF PairOK
          <5>2. QED
            BY <4>0, <3>1, <1>f, <1>g, <5>1 DEF RoomFound, Drains
        <4>4. Seen(s, t)'
          <5>1. Seen(s, t)
            BY <1>a DEF PairOK
          <5>2. QED
            BY <4>0, <3>1, <1>f, <1>g, <5>1 DEF Seen, Drains
        <4>5. RoomKept(s, t)'
          <5>1. RoomKept(s, t) /\ RoomFound(s, t)
            BY <1>a DEF PairOK
          <5>2. QED
            BY <4>0, <3>1, <1>f, <1>g, <5>1 DEF RoomKept, RoomFound, Drains
        <4>6. DeliveryFits(s, t)'
          BY <4>0, <3>1, <1>f, <1>g DEF DeliveryFits, Drains
        <4>7. QED
          BY <4>2, <4>3, <4>4, <4>5, <4>6 DEF PairOK
    <2>2. CASE s # e
      <3>1. Drains(t)
        BY <1>6, <1>a, Drain DEF Create
      <3>2. UNCHANGED <<pc[s], is_ready[s], unread[s], looking[s], back_seen[s],
                        outbox[s], undelivered[s]>>
        BY <1>6, <2>2, <1>b DEF Create, Publish
      <3>3. QED
        BY <3>1, <3>2, <1>a, Bystander
    <2>3. QED
      BY <2>1, <2>2
  <1>7. ASSUME Pop(e) PROVE PairOK(s, t)'
    <2>1. CASE s = e
      <3>1. Drains(t) /\ pc[s] \in Ticking /\ pc'[s] \in Ticking
        BY <1>7, <2>1, <1>a, <1>b, Drain DEF Pop
      <3>2. QED
        <4>0. Room(t)' >= Room(t) /\ Len(backstage[t])' <= Len(backstage[t])
          BY <3>1 DEF Drains
        <4>1. Room(t) >= 0
          BY <1>a DEF PairOK
        <4>2. Room(t)' >= 0
          BY <4>0, <1>f, <4>1
        <4>3. RoomFound(s, t)'
          <5>1. RoomFound(s, t)
            BY <1>a DEF PairOK
          <5>2. QED
            BY <4>0, <3>1, <1>f, <1>g, <5>1 DEF RoomFound, Drains
        <4>4. Seen(s, t)'
          <5>1. Seen(s, t)
            BY <1>a DEF PairOK
          <5>2. QED
            BY <4>0, <3>1, <1>f, <1>g, <5>1 DEF Seen, Drains
        <4>5. RoomKept(s, t)'
          <5>1. RoomKept(s, t) /\ RoomFound(s, t)
            BY <1>a DEF PairOK
          <5>2. QED
            BY <4>0, <3>1, <1>f, <1>g, <5>1 DEF RoomKept, RoomFound, Drains
        <4>6. DeliveryFits(s, t)'
          BY <4>0, <3>1, <1>f, <1>g DEF DeliveryFits, Drains
        <4>7. QED
          BY <4>2, <4>3, <4>4, <4>5, <4>6 DEF PairOK
    <2>2. CASE s # e
      <3>1. Drains(t)
        BY <1>7, <1>a, Drain DEF Pop
      <3>2. UNCHANGED <<pc[s], is_ready[s], unread[s], looking[s], back_seen[s],
                        outbox[s], undelivered[s]>>
        BY <1>7, <2>2, <1>b DEF Pop
      <3>3. QED
        BY <3>1, <3>2, <1>a, Bystander
    <2>3. QED
      BY <2>1, <2>2
  <1>8. ASSUME FinishReceive(e) PROVE PairOK(s, t)'
    <2>1. CASE s = e
      <3>1. Drains(t) /\ pc[s] \in Ticking /\ pc'[s] \in Ticking
        BY <1>8, <2>1, <1>a, <1>b, Drain DEF FinishReceive
      <3>2. QED
        <4>0. Room(t)' >= Room(t) /\ Len(backstage[t])' <= Len(backstage[t])
          BY <3>1 DEF Drains
        <4>1. Room(t) >= 0
          BY <1>a DEF PairOK
        <4>2. Room(t)' >= 0
          BY <4>0, <1>f, <4>1
        <4>3. RoomFound(s, t)'
          <5>1. RoomFound(s, t)
            BY <1>a DEF PairOK
          <5>2. QED
            BY <4>0, <3>1, <1>f, <1>g, <5>1 DEF RoomFound, Drains
        <4>4. Seen(s, t)'
          <5>1. Seen(s, t)
            BY <1>a DEF PairOK
          <5>2. QED
            BY <4>0, <3>1, <1>f, <1>g, <5>1 DEF Seen, Drains
        <4>5. RoomKept(s, t)'
          <5>1. RoomKept(s, t) /\ RoomFound(s, t)
            BY <1>a DEF PairOK
          <5>2. QED
            BY <4>0, <3>1, <1>f, <1>g, <5>1 DEF RoomKept, RoomFound, Drains
        <4>6. DeliveryFits(s, t)'
          BY <4>0, <3>1, <1>f, <1>g DEF DeliveryFits, Drains
        <4>7. QED
          BY <4>2, <4>3, <4>4, <4>5, <4>6 DEF PairOK
    <2>2. CASE s # e
      <3>1. Drains(t)
        BY <1>8, <1>a, Drain DEF FinishReceive
      <3>2. UNCHANGED <<pc[s], is_ready[s], unread[s], looking[s], back_seen[s],
                        outbox[s], undelivered[s]>>
        BY <1>8, <2>2, <1>b DEF FinishReceive, Publish
      <3>3. QED
        BY <3>1, <3>2, <1>a, Bystander
    <2>3. QED
      BY <2>1, <2>2
  <1>9. ASSUME EndTick(e) PROVE PairOK(s, t)'
    <2>1. CASE s = e
      <3>1. Drains(t)
        BY <1>9, <1>a, Drain DEF EndTick
      <3>2. /\ pc[s] = "ticked"
            /\ \/ pc'[s] = "idle"
               \/ /\ pc'[s] = "distribute" /\ outbox'[s] = outbox[s]
                  /\ undelivered'[s] = Targets(s)
        BY <1>9, <2>1, <1>b DEF EndTick, EndExecution
      <3>3. Room(t) >= MinSize /\ Len(outbox[s]) <= MinSize /\ Len(outbox[s]) \in Nat
        BY <3>2, <1>a, <1>b DEF PairOK, RoomKept, OutboxOK
      <3>4. DeliveryFits(s, t)'
        <4>1. Room(t)' >= Room(t)
          BY <3>1 DEF Drains
        <4>2. Room(t)' >= Len(outbox[s]) - 0
          BY <4>1, <3>3, <1>f, <1>g
        <4>3. QED
          BY <4>2, <3>2, <1>e DEF DeliveryFits
      <3>5. QED
        <4>0. Room(t)' >= Room(t) /\ Len(backstage[t])' <= Len(backstage[t])
          BY <3>1 DEF Drains
        <4>1. Room(t) >= 0
          BY <1>a DEF PairOK
        <4>2. Room(t)' >= 0
          BY <4>0, <1>f, <4>1
        <4>3. RoomFound(s, t)'
          <5>1. RoomFound(s, t)
            BY <1>a DEF PairOK
          <5>2. QED
            BY <4>0, <3>1, <3>2, <3>3, <3>4, <1>f, <1>g, <5>1 DEF RoomFound, Drains
        <4>4. Seen(s, t)'
          <5>1. Seen(s, t)
            BY <1>a DEF PairOK
          <5>2. QED
            BY <4>0, <3>1, <3>2, <3>3, <3>4, <1>f, <1>g, <5>1 DEF Seen, Drains
        <4>5. RoomKept(s, t)'
          <5>1. RoomKept(s, t) /\ RoomFound(s, t)
            BY <1>a DEF PairOK
          <5>2. QED
            BY <4>0, <3>1, <3>2, <3>3, <3>4, <1>f, <1>g, <5>1 DEF RoomKept, RoomFound, Drains
        <4>6. QED
          BY <3>1, <3>2, <3>3, <3>4, <1>c, <1>d, <4>2, <4>3, <4>4, <4>5 DEF PairOK
    <2>2. CASE s # e
      <3>1. Drains(t)
        BY <1>9, <1>a, Drain DEF EndTick
      <3>2. UNCHANGED <<pc[s], is_ready[s], unread[s], looking[s], back_seen[s],
                        outbox[s], undelivered[s]>>
        BY <1>9, <2>2, <1>b DEF EndTick, EndExecution
      <3>3. QED
        BY <3>1, <3>2, <1>a, Bystander
    <2>3. QED
      BY <2>1, <2>2
  <1>10. ASSUME NEW u \in Entities, Distribute(e, u) PROVE PairOK(s, t)'
    <2>1. CASE u # t
      <3>1. Drains(t)
        <4>1. mainstage'[t] = mainstage[t] /\ backstage'[t] = backstage[t]
          BY <1>10, <2>1, <1>a DEF Distribute, TypeOK
        <4>2. QED
          BY <4>1, <1>c DEF Drains, Room
      <3>2. Room(t)' = Room(t) /\ Len(backstage[t])' = Len(backstage[t])
        <4>1. mainstage'[t] = mainstage[t] /\ backstage'[t] = backstage[t]
          BY <1>10, <2>1, <1>a DEF Distribute, TypeOK
        <4>2. QED
          BY <4>1 DEF Room
      <3>3. /\ UNCHANGED <<pc[s], is_ready[s], unread[s], looking[s], back_seen[s],
                           outbox[s]>>
            /\ undelivered'[s] \in {undelivered[s], undelivered[s] \ {u}}
        BY <1>10, <1>b DEF Distribute
      <3>4. t \in undelivered'[s] <=> t \in undelivered[s]
        BY <3>3, <2>1
      <3>5. DeliveryFits(s, t)'
        <4>1. DeliveryFits(s, t)
          BY <1>a DEF PairOK
        <4>2. QED
          BY <4>1, <3>2, <3>3, <3>4, <1>f DEF DeliveryFits
      <3>6. QED
        <4>1. Room(t) >= 0
          BY <1>a DEF PairOK
        <4>2. Room(t)' >= 0
          BY <3>2, <1>f, <4>1
        <4>3. RoomFound(s, t)'
          <5>1. RoomFound(s, t)
            BY <1>a DEF PairOK
          <5>2. QED
            BY <3>2, <3>3, <3>5, <1>f, <1>g, <5>1 DEF RoomFound
        <4>4. Seen(s, t)'
          <5>1. Seen(s, t)
            BY <1>a DEF PairOK
          <5>2. QED
            BY <3>2, <3>3, <3>5, <1>f, <1>g, <5>1 DEF Seen
        <4>5. RoomKept(s, t)'
          <5>1. RoomKept(s, t) /\ RoomFound(s, t)
            BY <1>a DEF PairOK
          <5>2. QED
            BY <3>2, <3>3, <3>5, <1>f, <1>g, <5>1 DEF RoomKept, RoomFound
        <4>6. DeliveryFits(s, t)'
          BY <3>2, <3>3, <3>5, <1>f, <1>g DEF DeliveryFits
        <4>7. QED
          BY <4>2, <4>3, <4>4, <4>5, <4>6 DEF PairOK
    <2>2. CASE u = t
      <3>1. s = e
        <4>1. t \in Targets(e)
          BY <1>10, <2>2, <1>a DEF Distribute, OutboxOK
        <4>2. QED
          BY <4>1, <1>0 DEF Targets, Sole, SingleWriter
      <3>2. /\ pc[s] = "distribute" /\ pc'[s] = "distribute" /\ t \in undelivered[s]
            /\ outbox' = outbox /\ t \notin undelivered'[s]
            /\ mainstage' = mainstage
            /\ backstage'[t] = Pushed(backstage[t], Head(outbox[s]), Capacity, Policy)
        BY <1>10, <2>2, <3>1, <1>a, <1>b DEF Distribute, TypeOK
      <3>3. Len(outbox[s]) > 0 /\ Len(outbox[s]) \in Nat /\ Head(outbox[s]) \in Messages
        BY <3>2, <1>a, <1>b DEF OutboxOK
      <3>4. Room(t) >= Len(outbox[s])
        <4>1. DeliveryFits(s, t)
          BY <1>a DEF PairOK
        <4>2. Len(outbox[s]) - 0 = Len(outbox[s])
          BY <3>3
        <4>3. QED
          BY <4>1, <4>2, <3>2 DEF DeliveryFits
      <3>5. Len(backstage[t])' <= Len(backstage[t]) + 1
        <4>1. backstage[t] \in Seq(Messages)
          BY <1>a DEF TypeOK
        <4>2. QED
          BY <3>2, <3>3, <4>1, <1>c, PushedStage
      <3>6. Room(t)' >= Room(t) - 1
        <4>1. Room(t)' = Capacity - Len(mainstage[t])' - Len(backstage[t])'
          BY DEF Room
        <4> DEFINE m == Len(mainstage[t])
                   b == Len(backstage[t])
                   b1 == Len(backstage[t])'
                   r == Room(t)
                   r1 == Room(t)'
        <4>2. r = Capacity - m - b /\ r1 = Capacity - m - b1 /\ b1 <= b + 1
          BY <4>1, <3>2, <3>5, <1>c
        <4>3. m \in Int /\ b \in Int /\ b1 \in Int /\ Capacity \in Int
          BY <1>c, <1>d
        <4> HIDE DEF m, b, b1, r, r1
        <4>4. r1 >= r - 1
          BY <4>2, <4>3
        <4>5. QED
          BY <4>4 DEF r, r1
      <3>7. Room(t)' >= 0 /\ DeliveryFits(s, t)'
        <4>1. Room(t)' >= Len(outbox[s]) - 1 /\ Len(outbox'[s]) = Len(outbox[s])
          BY <3>2, <3>3, <3>4, <3>6, <1>f
        <4>2. QED
          BY <4>1, <3>2, <3>3, <1>f DEF DeliveryFits
      <3>8. QED
        BY <3>2, <3>7 DEF PairOK, RoomFound, Seen, RoomKept
    <2>3. QED
      BY <2>1, <2>2
  <1>11. ASSUME NextMessage(e) PROVE PairOK(s, t)'
    <2>1. CASE s = e
      <3>1. Drains(t)
        BY <1>11, <1>a, Drain DEF NextMessage
      <3>2. /\ pc[s] = "distribute" /\ undelivered[s] = {}
            /\ outbox'[s] = Tail(outbox[s])
            /\ \/ pc'[s] = "idle"
               \/ pc'[s] = "distribute" /\ undelivered'[s] = Targets(s)
        BY <1>11, <2>1, <1>b DEF NextMessage, EndExecution
      <3>3. /\ Len(outbox[s]) > 0 /\ Len(outbox[s]) \in Nat
            /\ Len(Tail(outbox[s])) = Len(outbox[s]) - 1
        BY <3>2, <1>a, <1>b DEF OutboxOK
      <3>4. Room(t) >= Len(outbox[s]) - 1
        BY <3>2, <1>a DEF PairOK, DeliveryFits
      <3>5. DeliveryFits(s, t)'
        <4>1. Room(t)' >= Room(t)
          BY <3>1 DEF Drains
        <4>2. Room(t)' >= Len(outbox'[s]) - 0
          BY <4>1, <3>2, <3>3, <3>4, <1>f, <1>g
        <4>3. QED
          BY <4>2, <3>2, <1>e DEF DeliveryFits
      <3>6. QED
        <4>0. Room(t)' >= Room(t) /\ Len(backstage[t])' <= Len(backstage[t])
          BY <3>1 DEF Drains
        <4>1. Room(t) >= 0
          BY <1>a DEF PairOK
        <4>2. Room(t)' >= 0
          BY <4>0, <1>f, <4>1
        <4>3. RoomFound(s, t)'
          <5>1. RoomFound(s, t)
            BY <1>a DEF PairOK
          <5>2. QED
            BY <4>0, <3>1, <3>2, <3>4, <3>5, <1>f, <1>g, <5>1 DEF RoomFound, Drains
        <4>4. Seen(s, t)'
          <5>1. Seen(s, t)
            BY <1>a DEF PairOK
          <5>2. QED
            BY <4>0, <3>1, <3>2, <3>4, <3>5, <1>f, <1>g, <5>1 DEF Seen, Drains
        <4>5. RoomKept(s, t)'
          <5>1. RoomKept(s, t) /\ RoomFound(s, t)
            BY <1>a DEF PairOK
          <5>2. QED
            BY <4>0, <3>1, <3>2, <3>4, <3>5, <1>f, <1>g, <5>1 DEF RoomKept, RoomFound, Drains
        <4>6. QED
          BY <3>1, <3>2, <3>4, <3>5, <1>a, <1>c, <1>d, <4>2, <4>3, <4>4, <4>5 DEF PairOK
    <2>2. CASE s # e
      <3>1. Drains(t)
        BY <1>11, <1>a, Drain DEF NextMessage
      <3>2. UNCHANGED <<pc[s], is_ready[s], unread[s], looking[s], back_seen[s],
                        outbox[s], undelivered[s]>>
        BY <1>11, <2>2, <1>b DEF NextMessage, EndExecution
      <3>3. QED
        BY <3>1, <3>2, <1>a, Bystander
    <2>3. QED
      BY <2>1, <2>2
  <1>12. QED
    BY <1>1, <1>2, <1>3, <1>4, <1>5, <1>6, <1>7, <1>8, <1>9, <1>10, <1>11 DEF Check, Tick

-------------------------------------------------------------------------------
LEMMA InitInv == Init => IInv
  <1> SUFFICES ASSUME Init PROVE IInv
    OBVIOUS
  <1> USE RoutesAssumption, SizesAssumption
  <1>1. TypeOK
    <2>1. <<>> \in Seq(Messages)
      OBVIOUS
    <2>2. /\ mainstage \in [Entities -> Seq(Messages)]
          /\ backstage \in [Entities -> Seq(Messages)]
          /\ outbox \in [Entities -> Seq(Messages)]
      BY <2>1 DEF Init
    <2>3. QED
      BY <2>2 DEF Init, TypeOK, Places
  <1>2. OutboxBounded /\ CountLeft
    BY DEF Init, OutboxBounded, OutboxOK, CountLeft, Ticking, Sources
  <1>3. RoomInv
    BY DEF Init, RoomInv, PairOK, Room, RoomFound, Seen, RoomKept, DeliveryFits, Ticking
  <1>4. QED
    BY <1>1, <1>2, <1>3 DEF IInv

LEMMA Inductive == IInv /\ [Next]_vars => IInv'
  <1> SUFFICES ASSUME IInv, [Next]_vars PROVE IInv'
    OBVIOUS
  <1>1. ASSUME NEW e \in Entities, Check(e) \/ Tick(e) PROVE IInv'
    BY <1>1, TypeStep, OutboxStep, CountStep, RoomStep DEF IInv
  <1>2. CASE UNCHANGED vars
    BY <1>2 DEF vars, term_vars, queue_vars, history, IInv, TypeOK, OutboxBounded, OutboxOK,
         CountLeft, RoomInv, PairOK, Room, RoomFound, Seen, RoomKept, DeliveryFits
  <1>3. QED
    BY <1>1, <1>2 DEF Next

LEMMA AlwaysIInv == Spec => []IInv
  BY InitInv, Inductive, PTL DEF Spec

\* Every variable keeps its type: no counter goes below zero, every queue holds
\* messages (the whole of gxf/std's message path).
THEOREM TypeCorrect == Spec => []TypeOK
  <1>1. IInv => TypeOK
    BY DEF IInv
  <1>2. QED
    BY <1>1, AlwaysIInv, PTL

\* The downstream term keeps the receivers that only one entity feeds from
\* overflowing, for every graph, capacity and policy
\* (DownstreamReceptiveSchedulingTerm::update_state_abi).
THEOREM NeverOverflows == Spec => []NoOverflow
  <1>1. IInv => NoOverflow
    BY RoutesAssumption DEF IInv, RoomInv, PairOK, NoOverflow, Receivers, Sole
  <1>2. QED
    BY <1>1, AlwaysIInv, PTL

\* What the term has found stays true until the messages are distributed.
THEOREM KeepsRoom == Spec => []ReadyEntityHasRoom
  <1>1. IInv => ReadyEntityHasRoom
    BY RoutesAssumption DEF IInv, RoomInv, PairOK, RoomKept, ReadyEntityHasRoom, Sole, Ticking
  <1>2. QED
    BY <1>1, AlwaysIInv, PTL

-------------------------------------------------------------------------------
(***************************************************************************)
(* Order.  The messages of a transmitter are numbered; an outbox and the   *)
(* two stages of a receiver that has one writer hold consecutive numbers,  *)
(* from the last one received to the last one delivered.                   *)
(***************************************************************************)

\* q holds the messages n + 1, n + 2, ... of s.
Numbered(q, s, n) == \A k \in 1 .. Len(q) : q[k] = <<s, n + k>>

\* The number of the last message that s has pushed to the receiver of t.
Delivered(s, t) ==
    published[s] - Len(outbox[s])
        + (IF pc[s] = "distribute" /\ t \notin undelivered[s] THEN 1 ELSE 0)

OutboxNumbered(s) == Numbered(outbox[s], s, published[s] - Len(outbox[s]))

StagesNumbered(s, t) ==
    LET n == received[<<s, t>>] IN
    /\ Numbered(mainstage[t], s, n)
    /\ Numbered(backstage[t], s, n + Len(mainstage[t]))
    /\ n + Len(mainstage[t]) + Len(backstage[t]) = Delivered(s, t)

OrderInv ==
    /\ \A s \in Entities : OutboxNumbered(s)
    /\ \A s, t \in Entities : Sole(s, t) => StagesNumbered(s, t)

LEMMA NumberedEmpty == ASSUME NEW s, NEW n PROVE Numbered(<<>>, s, n)
  BY DEF Numbered

LEMMA NumberedAppend ==
    ASSUME NEW q \in Seq(Messages), NEW s, NEW n \in Int, Numbered(q, s, n),
           NEW x \in Messages, x = <<s, n + Len(q) + 1>>
    PROVE  Numbered(Append(q, x), s, n)
  BY DEF Numbered

LEMMA NumberedConcat ==
    ASSUME NEW q1 \in Seq(Messages), NEW q2 \in Seq(Messages), NEW s, NEW n \in Int,
           Numbered(q1, s, n), Numbered(q2, s, n + Len(q1))
    PROVE  Numbered(q1 \o q2, s, n)
  BY DEF Numbered

LEMMA NumberedTail ==
    ASSUME NEW q \in Seq(Messages), NEW s, NEW n \in Int, Numbered(q, s, n), q # <<>>
    PROVE  Head(q) = <<s, n + 1>> /\ Numbered(Tail(q), s, n + 1)
  <1>1. Head(q) = <<s, n + 1>>
    BY DEF Numbered
  <1>2. ASSUME NEW k \in 1 .. Len(Tail(q)) PROVE Tail(q)[k] = <<s, n + 1 + k>>
    <2>1. Tail(q)[k] = q[k + 1] /\ k + 1 \in 1 .. Len(q) /\ k \in Nat
      OBVIOUS
    <2>2. q[k + 1] = <<s, n + (k + 1)>>
      BY <2>1 DEF Numbered
    <2>3. n + (k + 1) = n + 1 + k
      BY <2>1
    <2>4. QED
      BY <2>1, <2>2, <2>3
  <1>3. QED
    BY <1>1, <1>2 DEF Numbered

LEMMA OrderTypes ==
    ASSUME TypeOK, NEW s \in Entities, NEW t \in Entities, Sole(s, t)
    PROVE  /\ mainstage[t] \in Seq(Messages) /\ backstage[t] \in Seq(Messages)
           /\ outbox[s] \in Seq(Messages)
           /\ Len(mainstage[t]) \in Nat /\ Len(backstage[t]) \in Nat /\ Len(outbox[s]) \in Nat
           /\ published[s] \in Nat /\ received[<<s, t>>] \in Nat
           /\ t \in Targets(s)
  BY DEF TypeOK, Sole, Targets

LEMMA OutboxKept ==
    ASSUME NEW s, OutboxNumbered(s), UNCHANGED <<outbox[s], published[s]>>
    PROVE  OutboxNumbered(s)'
  BY DEF OutboxNumbered

LEMMA PublishNumbers ==
    ASSUME TypeOK, NEW e \in Entities, OutboxNumbered(e), Publish(e)
    PROVE  /\ OutboxNumbered(e)'
           /\ Len(outbox'[e]) = Len(outbox[e]) + 1 /\ published'[e] = published[e] + 1
           /\ \A d \in Entities \ {e} : UNCHANGED <<outbox[d], published[d]>>
  <1> DEFINE n == published[e] - Len(outbox[e])
             x == <<e, published[e] + 1>>
  <1>1. outbox[e] \in Seq(Messages) /\ Len(outbox[e]) \in Nat /\ published[e] \in Nat
    BY DEF TypeOK
  <1>2. x \in Messages /\ x = <<e, n + Len(outbox[e]) + 1>> /\ n \in Int
    BY <1>1 DEF Messages
  <1>3. Numbered(outbox[e], e, n)
    BY DEF OutboxNumbered
  <1>4. outbox'[e] = Append(outbox[e], x) /\ published'[e] = published[e] + 1
    BY DEF Publish, TypeOK
  <1>5. Len(outbox'[e]) = Len(outbox[e]) + 1
    BY <1>1, <1>2, <1>4
  <1>6. published'[e] - Len(outbox'[e]) = n
    BY <1>1, <1>4, <1>5
  <1>7. \A d \in Entities \ {e} : UNCHANGED <<outbox[d], published[d]>>
    BY DEF Publish, TypeOK
  <1> HIDE DEF n, x
  <1>8. Numbered(Append(outbox[e], x), e, n)
    BY <1>1, <1>2, <1>3, NumberedAppend
  <1>9. Numbered(outbox'[e], e, published'[e] - Len(outbox'[e]))
    BY <1>4, <1>6, <1>8
  <1>10. QED
    BY <1>4, <1>5, <1>7, <1>9 DEF OutboxNumbered

\* A source that creates a message and a relay that forwards one publish it; every
\* other step but NextMessage leaves the outboxes alone.
LEMMA OutboxOrderStep ==
    ASSUME IInv, OrderInv, NEW e \in Entities, Check(e) \/ Tick(e), NEW d \in Entities
    PROVE  OutboxNumbered(d)'
  <1>a. TypeOK /\ OutboxOK(e) /\ OutboxNumbered(d) /\ OutboxNumbered(e)
    BY DEF IInv, OutboxBounded, OrderInv
  <1>b. outbox[e] \in Seq(Messages) /\ Len(outbox[e]) \in Nat /\ published[e] \in Nat
    BY <1>a DEF TypeOK
  <1>1. CASE UNCHANGED <<outbox, published>>
    BY <1>1, <1>a, OutboxKept
  <1>2. CASE Publish(e)
    <2>1. CASE d = e
      BY <1>2, <1>a, <2>1, PublishNumbers
    <2>2. CASE d # e
      BY <1>2, <1>a, <2>2, PublishNumbers, OutboxKept
    <2>3. QED
      BY <2>1, <2>2
  <1>3. CASE NextMessage(e)
    <2>1. CASE d = e
      <3> DEFINE n == published[e] - Len(outbox[e])
      <3>1. outbox'[e] = Tail(outbox[e]) /\ published' = published /\ outbox[e] # <<>>
        BY <1>3, <1>a, <1>b DEF NextMessage, history, TypeOK, OutboxOK
      <3>2. Len(Tail(outbox[e])) = Len(outbox[e]) - 1
        BY <3>1, <1>b
      <3>3. n \in Int /\ published'[e] - Len(outbox'[e]) = n + 1
        BY <3>1, <3>2, <1>b
      <3>4. Numbered(outbox[e], e, n)
        BY <1>a DEF OutboxNumbered
      <3> HIDE DEF n
      <3>5. Numbered(Tail(outbox[e]), e, n + 1)
        BY <3>1, <3>3, <3>4, <1>b, NumberedTail
      <3>6. QED
        BY <3>1, <3>3, <3>5, <2>1 DEF OutboxNumbered
    <2>2. CASE d # e
      <3>1. UNCHANGED <<outbox[d], published[d]>>
        BY <1>3, <1>a, <2>2 DEF NextMessage, history, TypeOK
      <3>2. QED
        BY <3>1, <1>a, OutboxKept
    <2>3. QED
      BY <2>1, <2>2
  <1>4. UNCHANGED <<outbox, published>> \/ Publish(e) \/ NextMessage(e)
    BY DEF Check, Tick, StartCheck, ReadBackSize, ReadSize, Decide, SyncInbox, Create, Pop,
         FinishReceive, EndTick, Distribute, queue_vars, history
  <1>5. QED
    BY <1>1, <1>2, <1>3, <1>4

\* The stages of t, and what s has delivered to it, are as before.
StagesLeft(s, t) ==
    /\ UNCHANGED <<mainstage[t], backstage[t], received[<<s, t>>]>>
    /\ Delivered(s, t)' = Delivered(s, t)

LEMMA StagesKept ==
    ASSUME NEW s, NEW t, StagesNumbered(s, t), StagesLeft(s, t)
    PROVE  StagesNumbered(s, t)'
  BY DEF StagesNumbered, StagesLeft

LEMMA RoomIsEnough ==
    ASSUME NEW c \in Int, NEW m \in Int, NEW b \in Int, NEW r \in Int, r = c - m - b
    PROVE  /\ r >= 0 => m + b <= c
           /\ m >= 0 /\ r > 0 => b < c
  OBVIOUS

LEMMA StagesOrderStep ==
    ASSUME IInv, OrderInv, NEW e \in Entities, Check(e) \/ Tick(e),
           NEW s \in Entities, NEW t \in Entities, Sole(s, t)
    PROVE  StagesNumbered(s, t)'
  <1>a. /\ TypeOK /\ OutboxOK(e) /\ OutboxOK(s) /\ PairOK(s, t)
        /\ OutboxNumbered(s) /\ OutboxNumbered(e) /\ StagesNumbered(s, t)
    BY DEF IInv, OutboxBounded, RoomInv, OrderInv
  <1>b. /\ mainstage[t] \in Seq(Messages) /\ backstage[t] \in Seq(Messages)
        /\ outbox[s] \in Seq(Messages)
        /\ Len(mainstage[t]) \in Nat /\ Len(backstage[t]) \in Nat /\ Len(outbox[s]) \in Nat
        /\ published[s] \in Nat /\ received[<<s, t>>] \in Nat
        /\ t \in Targets(s)
    BY <1>a, OrderTypes
  <1>c. /\ pc \in [Entities -> Places]
        /\ mainstage \in [Entities -> Seq(Messages)]
        /\ backstage \in [Entities -> Seq(Messages)]
        /\ outbox \in [Entities -> Seq(Messages)]
        /\ undelivered \in [Entities -> SUBSET Entities]
        /\ published \in [Entities -> Nat] /\ received \in [Routes -> Nat]
    BY <1>a DEF TypeOK
  <1> DEFINE n == received[<<s, t>>]
  <1>i. /\ Len(mainstage[t]) \in Int /\ Len(backstage[t]) \in Int /\ Capacity \in Int
        /\ Room(t) \in Int /\ n \in Int
    BY <1>b, SizesAssumption DEF Room
  <1>d. /\ Numbered(mainstage[t], s, n)
        /\ Numbered(backstage[t], s, n + Len(mainstage[t]))
        /\ n + Len(mainstage[t]) + Len(backstage[t]) = Delivered(s, t)
    BY <1>a DEF StagesNumbered
  <1> USE DEF queue_vars, history
  <1>1. ASSUME \/ StartCheck(e) \/ (\E u \in Entities : ReadBackSize(e, u))
               \/ ReadSize(e) \/ Decide(e)
        PROVE  StagesNumbered(s, t)'
    <2>1. /\ UNCHANGED <<mainstage, backstage, received, outbox, undelivered, published>>
          /\ pc[s] = "distribute" <=> pc'[s] = "distribute"
      BY <1>1, <1>c DEF StartCheck, ReadBackSize, ReadSize, Decide
    <2>2. QED
      BY <2>1, <1>a, StagesKept DEF StagesLeft, Delivered
  <1>2. ASSUME SyncInbox(e) PROVE StagesNumbered(s, t)'
    <2>1. /\ UNCHANGED <<received, outbox, undelivered, published>>
          /\ pc[s] = "distribute" <=> pc'[s] = "distribute"
      BY <1>2, <1>c DEF SyncInbox
    <2>2. Delivered(s, t)' = Delivered(s, t)
      BY <2>1 DEF Delivered
    <2>3. CASE e # t
      <3>1. UNCHANGED <<mainstage[t], backstage[t]>>
        BY <1>2, <1>c, <2>3 DEF SyncInbox
      <3>2. QED
        BY <3>1, <2>1, <2>2, <1>a, StagesKept DEF StagesLeft
    <2>4. CASE e = t
      <3>1. Len(mainstage[t]) + Len(backstage[t]) <= Capacity
        <4>1. Room(t) >= 0
          BY <1>a DEF PairOK
        <4>2. Room(t) = Capacity - Len(mainstage[t]) - Len(backstage[t])
          BY DEF Room
        <4>3. QED
          BY <4>1, <4>2, <1>i, RoomIsEnough
      <3>2. mainstage'[t] = mainstage[t] \o backstage[t] /\ backstage'[t] = <<>>
        BY <1>2, <1>c, <2>4, <3>1 DEF SyncInbox, Synced
      <3>3. Len(mainstage'[t]) = Len(mainstage[t]) + Len(backstage[t]) /\ Len(backstage'[t]) = 0
        BY <3>2, <1>b
      <3>4. Numbered(mainstage'[t], s, n)
        <4> HIDE DEF n
        <4>1. Numbered(mainstage[t] \o backstage[t], s, n)
          <5>1. n \in Int
            BY <1>b DEF n
          <5>2. QED
            BY <5>1, <1>b, <1>d, NumberedConcat
        <4>2. QED
          BY <4>1, <3>2
      <3>5. Numbered(backstage'[t], s, n + Len(mainstage'[t]))
        BY <3>2, NumberedEmpty
      <3>6. n + Len(mainstage'[t]) + Len(backstage'[t]) = Delivered(s, t)'
        <4> DEFINE m == Len(mainstage[t])
                   b == Len(backstage[t])
                   m1 == Len(mainstage'[t])
                   b1 == Len(backstage'[t])
        <4>1. /\ m1 = m + b /\ b1 = 0 /\ m \in Int /\ b \in Int /\ n \in Int
              /\ n + m + b = Delivered(s, t)
          BY <3>3, <1>d, <1>i
        <4> HIDE DEF n, m, b, m1, b1
        <4>2. n + m1 + b1 = n + m + b
          BY <4>1
        <4>3. n + m1 + b1 = Delivered(s, t)'
          BY <4>1, <4>2, <2>2
        <4>4. QED
          BY <4>3 DEF m1, b1
      <3>7. n' = n
        BY <2>1
      <3>8. QED
        BY <3>4, <3>5, <3>6, <3>7 DEF StagesNumbered
    <2>5. QED
      BY <2>3, <2>4
  <1>3. ASSUME Create(e) \/ FinishReceive(e) PROVE StagesNumbered(s, t)'
    <2>1. UNCHANGED <<mainstage, backstage, received, undelivered>>
      BY <1>3 DEF Create, FinishReceive
    <2>2. /\ pc[s] = "distribute" <=> pc'[s] = "distribute"
          /\ s = e => pc[s] # "distribute"
      BY <1>3, <1>c DEF Create, FinishReceive
    <2>3. Publish(e) \/ UNCHANGED <<outbox, published>>
      BY <1>3 DEF Create, FinishReceive
    <2>4. published'[s] - Len(outbox'[s]) = published[s] - Len(outbox[s])
      <3>1. CASE UNCHANGED <<outbox, published>>
        BY <3>1
      <3>2. CASE Publish(e) /\ s = e
        <4>1. Len(outbox'[s]) = Len(outbox[s]) + 1 /\ published'[s] = published[s] + 1
          BY <3>2, <1>a, PublishNumbers
        <4>2. QED
          BY <4>1, <1>b
      <3>3. CASE Publish(e) /\ s # e
        BY <3>3, <1>a, PublishNumbers
      <3>4. QED
        BY <2>3, <3>1, <3>2, <3>3
    <2>5. Delivered(s, t)' = Delivered(s, t)
      BY <2>1, <2>2, <2>4 DEF Delivered
    <2>6. QED
      BY <2>1, <2>5, <1>a, StagesKept DEF StagesLeft
  <1>4. ASSUME Pop(e) PROVE StagesNumbered(s, t)'
    <2>1. /\ UNCHANGED <<backstage, outbox, undelivered, published>>
          /\ pc[s] = "distribute" <=> pc'[s] = "distribute"
      BY <1>4, <1>c DEF Pop
    <2>2. Delivered(s, t)' = Delivered(s, t)
      BY <2>1 DEF Delivered
    <2>3. CASE e # t
      <3>1. mainstage'[t] = mainstage[t]
        BY <1>4, <1>c, <2>3 DEF Pop
      <3>2. received'[<<s, t>>] = received[<<s, t>>]
        BY <1>4, <1>c, <2>3 DEF Pop, Sole
      <3>3. QED
        BY <3>1, <3>2, <2>1, <2>2, <1>a, StagesKept DEF StagesLeft
    <2>4. CASE e = t
      <3>1. mainstage'[t] = Tail(mainstage[t]) /\ mainstage[t] # <<>>
        BY <1>4, <1>c, <2>4 DEF Pop
      <3>2. Head(mainstage[t]) = <<s, n + 1>> /\ Numbered(Tail(mainstage[t]), s, n + 1)
        <4>1. n \in Int
          BY <1>b
        <4> HIDE DEF n
        <4>2. QED
          BY <4>1, <3>1, <1>b, <1>d, NumberedTail
      <3>3. n' = n + 1
        <4>1. received' = [received EXCEPT ![<<Head(mainstage[t])[1], t>>] = Head(mainstage[t])[2]]
          BY <1>4, <2>4 DEF Pop
        <4>2. Head(mainstage[t])[1] = s /\ Head(mainstage[t])[2] = n + 1
          BY <3>2
        <4>3. received' = [received EXCEPT ![<<s, t>>] = n + 1]
          BY <4>1, <4>2
        <4>4. QED
          BY <4>3, <1>c DEF Sole
      <3>4. Len(mainstage'[t]) = Len(mainstage[t]) - 1
        BY <3>1, <1>b
      <3>5. n' + Len(mainstage'[t]) = n + Len(mainstage[t])
        <4> DEFINE m == Len(mainstage[t])
                   m1 == Len(mainstage'[t])
                   n1 == received'[<<s, t>>]
        <4>1. m1 = m - 1 /\ n1 = n + 1 /\ m \in Int /\ n \in Int
          BY <3>3, <3>4, <1>i
        <4> HIDE DEF n, m, m1, n1
        <4>2. n1 + m1 = n + m
          BY <4>1
        <4>3. QED
          BY <4>2 DEF n, m, m1, n1
      <3>6. Numbered(mainstage'[t], s, n')
        BY <3>1, <3>2, <3>3
      <3>7. Numbered(backstage'[t], s, n' + Len(mainstage'[t]))
        BY <2>1, <3>5, <1>d
      <3>8. n' + Len(mainstage'[t]) + Len(backstage'[t]) = Delivered(s, t)'
        BY <2>1, <2>2, <3>5, <1>d
      <3>9. QED
        BY <3>6, <3>7, <3>8 DEF StagesNumbered
    <2>5. QED
      BY <2>3, <2>4
  <1>5. ASSUME EndTick(e) PROVE StagesNumbered(s, t)'
    <2>1. UNCHANGED <<mainstage, backstage, received, outbox, published>>
      BY <1>5 DEF EndTick
    <2>2. CASE s # e
      <3>1. UNCHANGED <<pc[s], undelivered[s]>>
        BY <1>5, <1>c, <2>2 DEF EndTick, EndExecution
      <3>2. QED
        BY <3>1, <2>1, <1>a, StagesKept DEF StagesLeft, Delivered
    <2>3. CASE s = e
      <3>1. /\ pc[s] # "distribute"
            /\ pc'[s] = "distribute" => undelivered'[s] = Targets(s)
        BY <1>5, <1>c, <2>3 DEF EndTick, EndExecution
      <3>2. QED
        BY <3>1, <2>1, <1>a, <1>b, StagesKept DEF StagesLeft, Delivered
    <2>4. QED
      BY <2>2, <2>3
  <1>6. ASSUME NEW u \in Entities, Distribute(e, u) PROVE StagesNumbered(s, t)'
    <2>1. UNCHANGED <<pc, mainstage, outbox, published, received>>
      BY <1>6 DEF Distribute
    <2>2. CASE u # t
      <3>1. backstage'[t] = backstage[t]
        BY <1>6, <1>c, <2>2 DEF Distribute
      <3>2. t \in undelivered'[s] <=> t \in undelivered[s]
        BY <1>6, <1>c, <2>2 DEF Distribute
      <3>3. QED
        BY <3>1, <3>2, <2>1, <1>a, StagesKept DEF StagesLeft, Delivered
    <2>3. CASE u = t
      <3>1. s = e
        <4>1. t \in Targets(e)
          BY <1>6, <2>3, <1>a DEF Distribute, OutboxOK
        <4>2. QED
          BY <4>1 DEF Targets, Sole, SingleWriter
      <3>2. /\ pc[s] = "distribute" /\ t \in undelivered[s] /\ t \notin undelivered'[s]
            /\ backstage'[t] = Pushed(backstage[t], Head(outbox[s]), Capacity, Policy)
        BY <1>6, <2>3, <3>1, <1>c DEF Distribute
      <3>3. outbox[s] # <<>> /\ Len(outbox[s]) > 0
        BY <3>2, <1>a, <1>b DEF OutboxOK
      <3>4. Len(backstage[t]) < Capacity
        <4>1. Room(t) >= Len(outbox[s]) - 0
          BY <3>2, <1>a DEF PairOK, DeliveryFits
        <4>2. Room(t) = Capacity - Len(mainstage[t]) - Len(backstage[t])
          BY DEF Room
        <4>3. Room(t) > 0 /\ Len(mainstage[t]) >= 0
          BY <4>1, <3>3, <1>b, <1>i
        <4>4. QED
          BY <4>2, <4>3, <1>i, RoomIsEnough
      <3>5. /\ backstage'[t] = Append(backstage[t], Head(outbox[s]))
            /\ Head(outbox[s]) \in Messages
        BY <3>2, <3>3, <3>4, <1>b DEF Pushed
      <3>6. Head(outbox[s]) = <<s, published[s] - Len(outbox[s]) + 1>>
        <4> DEFINE m == published[s] - Len(outbox[s])
        <4>1. m \in Int /\ Numbered(outbox[s], s, m)
          BY <1>a, <1>b DEF OutboxNumbered
        <4> HIDE DEF m
        <4>2. Head(outbox[s]) = <<s, m + 1>>
          BY <4>1, <3>3, <1>b, NumberedTail
        <4>3. QED
          BY <4>2 DEF m
      <3>7. /\ Delivered(s, t) = published[s] - Len(outbox[s])
            /\ Delivered(s, t)' = published[s] - Len(outbox[s]) + 1
        BY <3>2, <2>1, <1>b DEF Delivered
      <3> DEFINE k == n + Len(mainstage[t])
      <3>8. k \in Int /\ k + Len(backstage[t]) + 1 = published[s] - Len(outbox[s]) + 1
        BY <3>7, <1>b, <1>d
      <3>9. Numbered(backstage'[t], s, k)
        <4>1. Numbered(backstage[t], s, k)
          BY <1>d
        <4> HIDE DEF k, n
        <4>2. Head(outbox[s]) = <<s, k + Len(backstage[t]) + 1>>
          BY <3>6, <3>8
        <4>3. Numbered(Append(backstage[t], Head(outbox[s])), s, k)
          BY <4>1, <4>2, <3>5, <3>8, <1>b, NumberedAppend
        <4>4. QED
          BY <4>3, <3>5
      <3>10. Len(backstage'[t]) = Len(backstage[t]) + 1
        BY <3>5, <1>b
      <3>11. n + Len(mainstage'[t]) + Len(backstage'[t]) = Delivered(s, t)'
        BY <3>7, <3>8, <3>10, <2>1, <1>b
      <3>12. QED
        BY <3>9, <3>11, <2>1, <1>d DEF StagesNumbered
    <2>4. QED
      BY <2>2, <2>3
  <1>7. ASSUME NextMessage(e) PROVE StagesNumbered(s, t)'
    <2>1. UNCHANGED <<mainstage, backstage, published, received>>
      BY <1>7 DEF NextMessage
    <2>2. CASE s # e
      <3>1. UNCHANGED <<pc[s], undelivered[s], outbox[s]>>
        BY <1>7, <1>c, <2>2 DEF NextMessage, EndExecution
      <3>2. QED
        BY <3>1, <2>1, <1>a, StagesKept DEF StagesLeft, Delivered
    <2>3. CASE s = e
      <3>1. /\ pc[s] = "distribute" /\ undelivered[s] = {}
            /\ outbox'[s] = Tail(outbox[s])
            /\ pc'[s] = "distribute" => undelivered'[s] = Targets(s)
        BY <1>7, <1>c, <2>3 DEF NextMessage, EndExecution
      <3>2. outbox[s] # <<>>
        BY <3>1, <1>a, <1>b DEF OutboxOK
      <3>3. Len(outbox'[s]) = Len(outbox[s]) - 1
        BY <3>1, <3>2, <1>b
      <3>4. Delivered(s, t) = published[s] - Len(outbox[s]) + 1
        BY <3>1 DEF Delivered
      <3>5. Delivered(s, t)' = published[s] - Len(outbox'[s])
        BY <3>1, <3>3, <2>1, <1>b DEF Delivered
      <3>6. Delivered(s, t)' = Delivered(s, t)
        BY <3>3, <3>4, <3>5, <1>b
      <3>7. QED
        BY <3>6, <2>1, <1>a, StagesKept DEF StagesLeft
    <2>4. QED
      BY <2>2, <2>3
  <1>8. QED
    BY <1>1, <1>2, <1>3, <1>4, <1>5, <1>6, <1>7 DEF Check, Tick

LEMMA OrderInit == Init => OrderInv
  <1> SUFFICES ASSUME Init PROVE OrderInv
    OBVIOUS
  <1>1. ASSUME NEW s \in Entities PROVE OutboxNumbered(s)
    BY NumberedEmpty DEF Init, OutboxNumbered
  <1>2. ASSUME NEW s \in Entities, NEW t \in Entities, Sole(s, t) PROVE StagesNumbered(s, t)
    <2>1. /\ mainstage[t] = <<>> /\ backstage[t] = <<>> /\ outbox[s] = <<>>
          /\ published[s] = 0 /\ received[<<s, t>>] = 0 /\ pc[s] = "idle"
      BY <1>2 DEF Init, Sole
    <2>2. Delivered(s, t) = 0
      <3>1. Len(outbox[s]) = 0
        BY <2>1
      <3>2. Delivered(s, t) = published[s] - Len(outbox[s]) + 0
        BY <2>1 DEF Delivered
      <3>3. QED
        BY <2>1, <3>1, <3>2
    <2>3. QED
      BY <2>1, <2>2, NumberedEmpty DEF StagesNumbered
  <1>3. QED
    BY <1>1, <1>2 DEF OrderInv

LEMMA OrderInductive == IInv /\ OrderInv /\ [Next]_vars => OrderInv'
  <1> SUFFICES ASSUME IInv, OrderInv, [Next]_vars PROVE OrderInv'
    OBVIOUS
  <1>0. ASSUME NEW s, NEW t PROVE Sole(s, t)' = Sole(s, t)
    BY DEF Sole, SingleWriter
  <1>1. ASSUME NEW e \in Entities, Check(e) \/ Tick(e) PROVE OrderInv'
    <2>1. ASSUME NEW s \in Entities PROVE OutboxNumbered(s)'
      BY <1>1, OutboxOrderStep
    <2>2. ASSUME NEW s \in Entities, NEW t \in Entities, Sole(s, t)
          PROVE  StagesNumbered(s, t)'
      BY <1>1, <2>2, StagesOrderStep
    <2>3. QED
      BY <1>0, <2>1, <2>2 DEF OrderInv
  <1>2. CASE UNCHANGED vars
    BY <1>2 DEF vars, queue_vars, history, OrderInv, OutboxNumbered, StagesNumbered, Delivered,
         Sole, SingleWriter
  <1>3. QED
    BY <1>1, <1>2 DEF Next

\* Every receiver is fed by one entity, as the downstream term needs it.
OneWriter == \A t \in Entities : SingleWriter(t)

LEMMA ChannelInit == Init => Channel!Init
  BY DEF Init, Channel!Init

\* Create and FinishReceive publish, Pop receives; all other steps stutter.
LEMMA ChannelStep ==
    ASSUME OneWriter, IInv, OrderInv, [Next]_vars
    PROVE  [Channel!Next]_(Channel!vars)
  <1> USE DEF queue_vars, history
  <1>0. TypeOK /\ published \in [Entities -> Nat] /\ received \in [Routes -> Nat]
    BY DEF IInv, TypeOK
  <1>1. ASSUME NEW e \in Entities, Pop(e) PROVE [Channel!Next]_(Channel!vars)
    <2>1. PICK s \in Entities : <<s, e>> \in Routes
      BY <1>1, RoutesAssumption DEF Pop, Receivers
    <2>2. Sole(s, e) /\ StagesNumbered(s, e) /\ OutboxOK(s)
      BY <2>1 DEF OneWriter, Sole, OrderInv, IInv, OutboxBounded
    <2>3. /\ mainstage[e] \in Seq(Messages) /\ Len(mainstage[e]) \in Nat
          /\ Len(backstage[e]) \in Nat /\ outbox[s] \in Seq(Messages)
          /\ Len(outbox[s]) \in Nat /\ published[s] \in Nat /\ received[<<s, e>>] \in Nat
      BY <2>2, <1>0, OrderTypes
    <2>4. mainstage[e] # <<>> /\ Len(mainstage[e]) > 0
      BY <1>1, <2>3 DEF Pop
    <2> DEFINE n == received[<<s, e>>]
    <2>5. Numbered(mainstage[e], s, n) /\ n + Len(mainstage[e]) + Len(backstage[e]) = Delivered(s, e)
      BY <2>2 DEF StagesNumbered
    <2>6. Head(mainstage[e]) = <<s, n + 1>>
      <3>1. n \in Int
        BY <2>3
      <3> HIDE DEF n
      <3>2. QED
        BY <3>1, <2>3, <2>4, <2>5, NumberedTail
    <2>7. received' = [received EXCEPT ![<<s, e>>] = n + 1]
      <3>1. received' = [received EXCEPT ![<<Head(mainstage[e])[1], e>>] = Head(mainstage[e])[2]]
        BY <1>1 DEF Pop
      <3>2. Head(mainstage[e])[1] = s /\ Head(mainstage[e])[2] = n + 1
        BY <2>6
      <3>3. QED
        BY <3>1, <3>2
    <2>8. Delivered(s, e) <= published[s]
      BY <2>2, <2>3 DEF Delivered, OutboxOK
    <2>9. n < published[s]
      <3>1. Delivered(s, e) \in Int
        BY <2>3 DEF Delivered
      <3>2. QED
        BY <3>1, <2>3, <2>4, <2>5, <2>8
    <2>10. published' = published
      BY <1>1 DEF Pop
    <2>11. Channel!Receive(<<s, e>>)
      BY <2>7, <2>9, <2>10 DEF Channel!Receive
    <2>12. QED
      BY <2>1, <2>11 DEF Channel!Next
  <1>2. ASSUME NEW e \in Entities, Publish(e), received' = received
        PROVE  [Channel!Next]_(Channel!vars)
    BY <1>2 DEF Publish, Channel!Next, Channel!Publish
  <1>3. ASSUME UNCHANGED <<published, received>> PROVE [Channel!Next]_(Channel!vars)
    BY <1>3 DEF Channel!vars
  <1>4. ASSUME NEW e \in Entities, Check(e) \/ Tick(e)
        PROVE  Pop(e) \/ (Publish(e) /\ received' = received) \/ UNCHANGED <<published, received>>
    BY <1>4 DEF Check, Tick, StartCheck, ReadBackSize, ReadSize, Decide, SyncInbox, Create,
         FinishReceive, EndTick, Distribute, NextMessage
  <1>5. ASSUME UNCHANGED vars PROVE UNCHANGED <<published, received>>
    BY <1>5 DEF vars
  <1>6. QED
    BY <1>1, <1>2, <1>3, <1>4, <1>5 DEF Next

\* In every graph whose receivers have one writer each, the messages published on a
\* transmitter are received once each and in order along every route, for every
\* capacity, minimum size and overflow policy (the safety part of ImplementsChannel:
\* DoubleBufferTransmitter, MessageRouter::distribute, DoubleBufferReceiver::sync and
\* Receiver::receive, with the downstream term).
THEOREM MessagesInOrder == ASSUME OneWriter PROVE Spec => Channel!Safety
  <1>1. Init /\ [][Next]_vars => [](IInv /\ OrderInv)
    BY InitInv, Inductive, OrderInit, OrderInductive, PTL
  <1>2. OneWriter /\ IInv /\ OrderInv /\ [Next]_vars => [Channel!Next]_(Channel!vars)
    BY ChannelStep
  <1>3. QED
    BY <1>1, <1>2, ChannelInit, PTL DEF Spec, Channel!Safety
================================================================================
