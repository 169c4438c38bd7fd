----------------------------- MODULE FramePool -----------------------------
(***************************************************************************)
(* What the physical memory manager promises the rest of the kernel: once  *)
(* it is up there is a fixed set of frames, each of them either free or    *)
(* taken; an allocation moves some free frame to the taken ones, a release *)
(* moves it back, and the only other thing that can happen is a panic,     *)
(* after which nothing is ever handed out again.                           *)
(***************************************************************************)
EXTENDS Naturals

CONSTANT Frame \* what a frame number can be

VARIABLES
    stage, \* "down" until frame_init has returned, "up", or "halted"
    free,  \* frames frame_alloc may hand out
    taken  \* frames handed out and not yet given back

vars == <<stage, free, taken>>

Init == stage = "down" /\ free = {} /\ taken = {}

\* frame_init returns and publishes whatever it left free.
Publish ==
    /\ stage = "down"
    /\ stage' = "up"
    /\ free' \subseteq Frame
    /\ taken' = {}

Take(f) ==
    /\ stage = "up"
    /\ f \in free
    /\ free' = free \ {f}
    /\ taken' = taken \cup {f}
    /\ stage' = stage

Give(f) ==
    /\ stage = "up"
    /\ f \in taken
    /\ free' = free \cup {f}
    /\ taken' = taken \ {f}
    /\ stage' = stage

Halt ==
    /\ stage # "halted"
    /\ stage' = "halted"
    /\ UNCHANGED <<free, taken>>

Next ==
    \/ Publish
    \/ \E f \in free : Take(f)
    \/ \E f \in taken : Give(f)
    \/ Halt

Spec == Init /\ [][Next]_vars
=============================================================================
