---------------------------- MODULE MCSdramMemory ----------------------------
(***************************************************************************)
(* SdramMemory on a small instance: two banks, two rows, one word of a row.*)
(***************************************************************************)
EXTENDS SdramMemory, FiniteSets, Functions

MCValues == {0, 1}
At(b, r) == [bank |-> b, row |-> r, col |-> 0]
Fill(v) == [h \in Beats |-> v]
Read(a) == [addr |-> a, we |-> FALSE, data |-> Fill(0), mask |-> Beats]
Write(a, mask, v) == [addr |-> a, we |-> TRUE, data |-> Fill(v), mask |-> mask]

\* Both rows of one bank, the other bank, and a store of half a word.
MCRequests ==
  {Read(At(0, 0)), Write(At(0, 0), {Half}, 1), Read(At(0, 1)), Write(At(1, 0), Beats, 1)}
Zeroed == {[a \in Addr |-> Fill(IF a.row = 0 THEN 0 ELSE 1)]}

\* The bus repeats a pattern of PatternLength commands, with pauses anywhere: every
\* pattern of two commands or more, up to rotation.
CONSTANT PatternLength
Turns == 0 .. PatternLength - 1
Rank == CHOOSE f \in [MCRequests -> 1 .. Cardinality(MCRequests)] : IsInjective(f)
Ranks(p, s) == [k \in Turns |-> Rank[p[(s + k) % PatternLength]]]
Before(f, g) == \E k \in Turns : f[k] < g[k] /\ \A j \in 0 .. k - 1 : f[j] = g[j]
Patterns ==
  {p \in [Turns -> MCRequests] :
     /\ \E k \in Turns : p[k] # p[0]
     /\ ~\E s \in Turns : Before(Ranks(p, s), Ranks(p, 0))}
VARIABLES pattern, turn
mcVars == <<vars, pattern, turn>>

MCInit == Init /\ turn = 0 /\ pattern \in Patterns
MCNext ==
  \E offer \in {<<>>, <<pattern[turn]>>} :
    /\ Clock(offer)
    /\ turn' = IF Accept(offer) THEN (turn + 1) % PatternLength ELSE turn
    /\ UNCHANGED pattern
MCSpec == MCInit /\ [][MCNext]_mcVars
\* The clock runs.
MCFairSpec == MCSpec /\ WF_mcVars(MCNext)
=============================================================================
