--------------------------- MODULE MCCacheSystem ---------------------------
(***************************************************************************)
(* CacheSystem as the instruction port: registered lookup, local SRAM,     *)
(* IFLUSH whenever the port is idle, and another master that rewrites and  *)
(* invalidates a line at any edge.  There are two lines, of which the      *)
(* second is used, so that the sweep has one to pass first.                *)
(***************************************************************************)
EXTENDS CacheSystem

CONSTANTS t0, t1, tl, b0

MCValues == {0, 1}
At(t, b) == [tag |-> t, index |-> 1, beat |-> b]
Fill(v) == [l \in Lanes |-> v]

\* Words that differ between tags and between beats, so that a line taken from the
\* wrong place shows.
StripedMemories == {[a \in Addr |-> Fill(IF a.tag = t1 THEN 1 - a.beat ELSE a.beat)]}

Fetches == {[addr |-> At(t, 0), we |-> FALSE, sel |-> Lanes, wdata |-> Fill(0)] : t \in Tags}
MasterWrites == {[addr |-> At(t0, 0), wdata |-> Fill(1)]}
=============================================================================
