---------------------------- MODULE RingChannel ----------------------------
(***************************************************************************)
(* What a ring promises its two ends: a bounded FIFO channel into which a  *)
(* staged batch is published at once, and from which prefixes are handed   *)
(* over, each entry once and unchanged.                                    *)
(***************************************************************************)
EXTENDS Naturals, Sequences

CONSTANTS SIZE, Values

VARIABLES staged, queue, delivered

vars == <<staged, queue, delivered>>

Init == staged = <<>> /\ queue = <<>> /\ delivered = <<>>

Stage ==
    \E n \in 1 .. SIZE - Len(queue) - Len(staged) :
        \E batch \in [1 .. n -> Values] :
            /\ staged' = staged \o batch
            /\ UNCHANGED <<queue, delivered>>

Publish ==
    /\ queue' = queue \o staged
    /\ staged' = <<>>
    /\ UNCHANGED delivered

Deliver ==
    \E n \in 0 .. Len(queue) :
        /\ delivered' = SubSeq(queue, 1, n)
        /\ queue' = SubSeq(queue, n + 1, Len(queue))
        /\ UNCHANGED staged

Next == Stage \/ Publish \/ Deliver

Spec == Init /\ [][Next]_vars
=============================================================================
