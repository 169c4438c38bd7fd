------------------------------ MODULE CharFifo ------------------------------
(***************************************************************************)
(* What the keyboard queue promises: a bounded first-in first-out queue    *)
(* between the keyboard interrupt and one reader.  A queued key is never   *)
(* lost, duplicated or overtaken.  A key that is not queued takes no step  *)
(* here, so which keys are refused is not part of the promise.             *)
(***************************************************************************)
EXTENDS Naturals, Sequences

CONSTANTS Char, Capacity, Nothing

VARIABLES q, hand  \* the queued keys, and the key the reader is returning

Init == q = <<>> /\ hand = Nothing

Put(c) == Len(q) < Capacity /\ q' = Append(q, c) /\ UNCHANGED hand

Get == q # <<>> /\ hand = Nothing /\ hand' = Head(q) /\ q' = Tail(q)

Deliver == hand # Nothing /\ hand' = Nothing /\ UNCHANGED q

Next == (\E c \in Char : Put(c)) \/ Get \/ Deliver

Spec == Init /\ [][Next]_<<q, hand>>
=============================================================================
