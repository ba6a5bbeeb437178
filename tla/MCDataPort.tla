----------------------------- MODULE MCDataPort -----------------------------
(***************************************************************************)
(* CacheSystem as the data port, in two settings: beside the local SRAM,   *)
(* with partial stores, and with registered look-ups beside another master *)
(* that rewrites and invalidates the line at any edge, with bypasses.      *)
(***************************************************************************)
EXTENDS Integers, Sequences

CONSTANTS t0, t1, tl, tu, b0, b1, LineWords, Values, Undef, NoRequest

VARIABLES
  setting,   \* which of the two this behaviour is about
  state_q, req, pending_q, refill_beat_q, refill_invalidated_q, writes_pending_q,
  tag_word, tag_invalidated_q, tag_hit_q, refill_relook_q, tag_mem, data_mem, read_data_q,
  memory, bus, waiting, sram_ack_q, sram_data_q, got, held

MCValues == {0, 1}
At(t, b) == [tag |-> t, index |-> 0, beat |-> b]
Fill(lanes, v) == [l \in lanes |-> v]
Load(lanes, t) == [addr |-> At(t, 0), we |-> FALSE, sel |-> lanes, wdata |-> Fill(lanes, 0)]
Store(lanes, t, sel, v) == [addr |-> At(t, 0), we |-> TRUE, sel |-> sel, wdata |-> Fill(lanes, v)]
\* Words that differ between tags and between beats.
Striped(tags, lanes) ==
  {[a \in [tag : tags, index : {0}, beat : 0 .. LineWords - 1] |->
      Fill(lanes, IF a.tag \in {t1, tu} THEN 1 - a.beat ELSE a.beat)]}

\* Hits, collisions, conflicts, and partial stores posted over full ones.
Both == {b0, b1}
SramTags == {t0, t1, tl}
SramMemories == Striped(SramTags, Both)
SramRequests ==
  {Load(Both, t) : t \in SramTags}
  \cup {Store(Both, t0, {b0}, 1), Store(Both, t0, Both, 0), Store(Both, tl, {b1}, 1)}
BesideSram == INSTANCE CacheSystem WITH
  Tags <- SramTags, Uncached <- {}, Local <- {tl}, Lines <- 1, Lanes <- Both,
  RegisterLookup <- FALSE, ReadOnly <- FALSE, ExtWrites <- {},
  InitMemories <- SramMemories, CpuRequests <- SramRequests

One == {b0}
MasterTags == {t0, tu}
MasterMemories == Striped(MasterTags, One)
MasterRequests ==
  {Load(One, t) : t \in MasterTags} \cup {Store(One, t0, One, 1)}
MasterWrites == {[addr |-> At(t0, 0), wdata |-> Fill(One, 1)]}
BesideMaster == INSTANCE CacheSystem WITH
  Tags <- MasterTags, Uncached <- {tu}, Local <- {}, Lines <- 1, Lanes <- One,
  RegisterLookup <- TRUE, ReadOnly <- FALSE, ExtWrites <- MasterWrites,
  InitMemories <- MasterMemories, CpuRequests <- MasterRequests

OnSram == setting = "sram"
mcVars == <<setting, BesideSram!vars>>
Init ==
  /\ setting \in {"sram", "master"}
  /\ IF OnSram THEN BesideSram!Init ELSE BesideMaster!Init
Next == UNCHANGED setting /\ IF OnSram THEN BesideSram!Next ELSE BesideMaster!Next
Spec == Init /\ [][Next]_mcVars

\* BusAccount and LinesCoherent of CacheSystem in either setting: what the bus owes
\* is what the counters say, with up to three posted stores, and a valid line holds
\* what its addresses will hold in memory.
DataKept ==
  IF OnSram THEN BesideSram!BusAccount /\ BesideSram!LinesCoherent
  ELSE BesideMaster!BusAccount /\ BesideMaster!LinesCoherent

\* ImplementsPort of CacheSystem in either setting: the port is one flat memory.
ImplementsPort ==
  /\ IF OnSram THEN BesideSram!Port!Init ELSE BesideMaster!Port!Init
  /\ [][IF OnSram THEN BesideSram!Port!Next \/ UNCHANGED <<BesideSram!Image, waiting, got>>
        ELSE BesideMaster!Port!Next \/ UNCHANGED <<BesideMaster!Image, waiting, got>>]_mcVars
=============================================================================
