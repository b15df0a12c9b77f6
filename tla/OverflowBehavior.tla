--------------------------- MODULE OverflowBehavior ---------------------------
(***************************************************************************)
(* What the two stages of a staging queue hold after a push and after a    *)
(* sync, for each overflow behaviour.  Stages are sequences, oldest first. *)
(* StagedFifo is the queue itself; the modules that move messages between  *)
(* entities use these operators for their receivers.                       *)
(***************************************************************************)
EXTENDS Integers, Sequences

Last(s, n) == SubSeq(s, Len(s) - n + 1, Len(s))
First(s, n) == SubSeq(s, 1, n)

\* What a push leaves in a back stage b of capacity c.
Pushed(b, x, c, behavior) ==
    IF Len(b) < c THEN Append(b, x)
    ELSE IF behavior = "kPop" THEN Append(Tail(b), x)
    ELSE b

\* What a sync leaves in the main stage when m and b are the two stages.
Synced(m, b, c, behavior) ==
    IF Len(m) + Len(b) <= c \/ behavior = "kFault" THEN m \o b
    ELSE IF behavior = "kPop" THEN Last(m \o b, c)
    ELSE First(m \o b, c)
===============================================================================
