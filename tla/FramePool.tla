----------------------------- MODULE FramePool -----------------------------
(***************************************************************************)
(* What a frame pool promises: a frame is either in the pool or out, it    *)
(* leaves only while it is in, and comes back only while it is out.        *)
(***************************************************************************)
CONSTANTS Frame, InitFree

VARIABLES pool, out

vars == <<pool, out>>

Init == pool = InitFree /\ out = Frame \ InitFree

\* Any number of frames leave together (pop_many_with, drain_into).
Take ==
    \E S \in SUBSET pool :
        /\ pool' = pool \ S
        /\ out' = out \cup S

Give ==
    \E f \in out :
        /\ pool' = pool \cup {f}
        /\ out' = out \ {f}

Next == Take \/ Give

Spec == Init /\ [][Next]_vars
=============================================================================
