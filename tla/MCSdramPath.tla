---------------------------- MODULE MCSdramPath ----------------------------
(***************************************************************************)
(* SdramPath on small instances: lines of two words, grants of two words.  *)
(***************************************************************************)
EXTENDS SdramPath

CONSTANTS m0, b0

MCValues == {0, 1}
At(l, w) == [line |-> l, word |-> w]
Fill(v) == [l \in Lanes |-> v]
Read(a) == [addr |-> a, we |-> FALSE, sel |-> Lanes, wdata |-> Fill(0)]
Write(a, v) == [addr |-> a, we |-> TRUE, sel |-> Lanes, wdata |-> Fill(v)]

Striped == {[a \in Addr |-> Fill(a.word)]}

\* Misses and hits in the retained line, and stores that drop it.
HitRequests == {Read(At(m0, 0)), Read(At(m0, 1)), Write(At(m0, 0), 1)}
\* For liveness.
LiveRequests == {Read(At(m0, 1)), Write(At(m0, 1), 1)}

VideoWords == {At(m0, 0)}
=============================================================================
