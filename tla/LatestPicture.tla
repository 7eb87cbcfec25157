--------------------------- MODULE LatestPicture ---------------------------
(***************************************************************************)
(* What the topology canvas promises: the picture is of the topology asked *)
(* for last, or still of an earlier one while that is laid out; an earlier *)
(* one never replaces a later one, and in the end the last one is drawn.   *)
(***************************************************************************)
CONSTANTS Topologies, Nothing

VARIABLES asked, picture

vars == <<asked, picture>>

Init == asked = Nothing /\ picture = Nothing

\* A topology may be drawn at once, when positions are known for its shape.
Ask(t) ==
    /\ asked' = t
    /\ picture' \in {picture, t}

Draw ==
    /\ asked # Nothing
    /\ picture' = asked
    /\ UNCHANGED asked

\* The canvas is taken down.
Clear == asked' = Nothing /\ picture' = Nothing

Next == Draw \/ Clear \/ \E t \in Topologies : Ask(t)

Spec == Init /\ [][Next]_vars

FairSpec == Spec /\ WF_vars(Draw)

=============================================================================
