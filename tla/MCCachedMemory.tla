--------------------------- MODULE MCCachedMemory ---------------------------
(***************************************************************************)
(* CachedMemory on small instances: one line per cache, stores into the    *)
(* words that are being fetched.                                           *)
(***************************************************************************)
EXTENDS CachedMemory

CONSTANTS t0, tu, b0

MCValues == {0, 1}
At(t, b) == [tag |-> t, index |-> 0, beat |-> b]
Fill(v) == [l \in Lanes |-> v]
Load(a) == [addr |-> a, we |-> FALSE, sel |-> Lanes, wdata |-> Fill(0)]
Store(a, v) == [addr |-> a, we |-> TRUE, sel |-> Lanes, wdata |-> Fill(v)]

Zeroed == {[a \in D!Addr |-> Fill(0)]}

\* Code that is stored to, read back as data, and read past the cache.
CodeFetches == {Load(At(t0, 0))}
CodeRequests == {Load(At(t0, 0)), Load(At(tu, 0)), Store(At(t0, 0), 1)}
\* For liveness: a line fill and a store on the data port.
LiveRequests == {Load(At(t0, 0)), Store(At(t0, 0), 1)}
=============================================================================
