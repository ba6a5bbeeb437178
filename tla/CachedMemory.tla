---------------------------- MODULE CachedMemory ----------------------------
(***************************************************************************)
(* The memory side of the Cached core (riscc_cached): the instruction      *)
(* cache I and the data cache D on one backing port, the arbiter between   *)
(* them, and the IFLUSH handshake with the pipeline.                       *)
(*                                                                         *)
(* The pipeline is an environment here: it keeps one request per port in   *)
(* flight, replaces it on the reply's edge, and can execute IFLUSH when no *)
(* data request is in flight.  It issues at most PipelineDepth data        *)
(* requests after the last instruction it was given.                       *)
(*                                                                         *)
(* Both caches are instances of CachedCache; addresses are outside the     *)
(* local SRAM (CacheSystem covers it).                                     *)
(***************************************************************************)
EXTENDS Integers, Sequences, FiniteSets

CONSTANTS Tags, Uncached, Lines, LineWords, Lanes, Values, Undef, NoRequest,
          FetchLookup,    \* REGISTER_LOOKUP of the instruction cache
          DataRequests,   \* requests of the data port
          Fetches,        \* requests of the instruction port
          InitMemories,   \* initial contents of the backing memory
          PipelineDepth   \* instructions between Fetch and the data port

VARIABLES
  i_state_q, i_req, i_pending_q, i_refill_beat_q, i_refill_invalidated_q,
  i_writes_pending_q, i_tag_word, i_tag_invalidated_q, i_tag_hit_q,
  i_refill_relook_q, i_tag_mem, i_data_mem, i_read_data_q,
  d_state_q, d_req, d_pending_q, d_refill_beat_q, d_refill_invalidated_q,
  d_writes_pending_q, d_tag_word, d_tag_invalidated_q, d_tag_hit_q,
  d_refill_relook_q, d_tag_mem, d_data_mem, d_read_data_q,
  instruction_owner_q,  \* the backing port stays with the instruction cache
  iflush_active_q,      \* the reset sweep of the current IFLUSH has begun
  iflush_req,           \* the pipeline is in IFLUSH
  i_waiting, d_waiting, \* the request in flight on each port
  d_got,                \* the data answered on the last edge: {} or one word
  issue,                \* data requests the fetched instructions can still make
  memory,               \* the backing memory
  bus,                  \* accepted commands without an answer, and whose they are
  unflushed             \* history: addresses stored to since the last flush

I == INSTANCE CachedCache WITH
  Local <- {}, RegisterLookup <- FetchLookup, ReadOnly <- TRUE,
  state_q <- i_state_q, req <- i_req, pending_q <- i_pending_q,
  refill_beat_q <- i_refill_beat_q, refill_invalidated_q <- i_refill_invalidated_q,
  writes_pending_q <- i_writes_pending_q, tag_word <- i_tag_word,
  tag_invalidated_q <- i_tag_invalidated_q, tag_hit_q <- i_tag_hit_q,
  refill_relook_q <- i_refill_relook_q, tag_mem <- i_tag_mem,
  data_mem <- i_data_mem, read_data_q <- i_read_data_q

D == INSTANCE CachedCache WITH
  Local <- {}, RegisterLookup <- FALSE, ReadOnly <- FALSE,
  state_q <- d_state_q, req <- d_req, pending_q <- d_pending_q,
  refill_beat_q <- d_refill_beat_q, refill_invalidated_q <- d_refill_invalidated_q,
  writes_pending_q <- d_writes_pending_q, tag_word <- d_tag_word,
  tag_invalidated_q <- d_tag_invalidated_q, tag_hit_q <- d_tag_hit_q,
  refill_relook_q <- d_refill_relook_q, tag_mem <- d_tag_mem,
  data_mem <- d_data_mem, read_data_q <- d_read_data_q

ASSUME MemoryAssumption ==
  /\ Lines \in Nat \ {0}
  /\ LineWords \in Nat \ {0}
  /\ Uncached \subseteq Tags
  /\ Undef \notin Values
  /\ FetchLookup \in BOOLEAN
  /\ Fetches # {} /\ Fetches \subseteq D!Request
  /\ \A r \in Fetches : ~r.we
  /\ DataRequests # {} /\ DataRequests \subseteq D!Request
  /\ NoRequest \notin D!Request
  /\ InitMemories \subseteq [D!Addr -> D!Word]
  /\ PipelineDepth \in Nat

caches == <<I!cacheVars, D!cacheVars>>
vars == <<caches, instruction_owner_q, iflush_active_q, iflush_req, i_waiting,
          d_waiting, d_got, issue, memory, bus, unflushed>>

TypeOK ==
  /\ I!CacheTypeOK /\ D!CacheTypeOK
  /\ instruction_owner_q \in BOOLEAN
  /\ iflush_active_q \in BOOLEAN
  /\ iflush_req \in BOOLEAN
  /\ i_waiting \in Fetches \cup {NoRequest}
  /\ d_waiting \in DataRequests \cup {NoRequest}
  /\ d_got \in {{}} \cup {{w} : w \in D!RamWord}
  /\ issue \in 0 .. PipelineDepth
  /\ memory \in [D!Addr -> D!Word]
  /\ bus \in Seq([port : {"I", "D"}, cmd : D!Request])
  /\ unflushed \subseteq D!Addr

-----------------------------------------------------------------------------
(* The arbiter. *)

\* Mutant: data takes the port even from a refill in progress.
SelectDAlways == D!MCyc

\* Mutant: fetches go first, and take the port from data commands in flight.
SelectDLast == D!MCyc /\ ~I!MCyc

\* Data has priority between refills; a fetch in progress keeps the port.
SelectD == D!MCyc /\ ~instruction_owner_q

\* The inputs of one edge: what the pipeline and the memory put on the wires.
Pins == [i_stb : BOOLEAN, i_c : Fetches, d_stb : BOOLEAN, d_c : DataRequests,
         stall : BOOLEAN, ack : BOOLEAN]
DPort(p) == [stb |-> p.d_stb, c |-> p.d_c, stall |-> ~SelectD \/ p.stall,
             ack |-> SelectD /\ p.ack, inv |-> {}]
\* Mutant: an answer on the edge of acceptance comes before the owner is registered.
IPortLateOwner(p) == [stb |-> p.i_stb, c |-> p.i_c, stall |-> SelectD \/ p.stall,
                      ack |-> instruction_owner_q /\ p.ack, inv |-> {}]

IPort(p) == [stb |-> p.i_stb, c |-> p.i_c, stall |-> SelectD \/ p.stall,
             ack |-> ~SelectD /\ p.ack, inv |-> {}]

Offered(p) ==
  IF SelectD THEN [port |-> "D", cmd |-> D!MCmd(DPort(p))]
  ELSE [port |-> "I", cmd |-> I!MCmd(IPort(p))]
AcceptedCmd(p) ==
  IF SelectD THEN D!Accepted(DPort(p)) ELSE I!Accepted(IPort(p))
Owed(p) == IF AcceptedCmd(p) THEN Append(bus, Offered(p)) ELSE bus

RData(p) ==
  IF p.ack /\ ~Head(Owed(p)).cmd.we THEN memory[Head(Owed(p)).cmd.addr]
  ELSE D!UndefWord
WithData(io, p) ==
  [stb |-> io.stb, c |-> io.c, stall |-> io.stall, ack |-> io.ack,
   inv |-> io.inv, rdata |-> RData(p)]

IAck == I!CAck([inv |-> {}])
DAck == D!CAck([inv |-> {}])

-----------------------------------------------------------------------------
(* IFLUSH. *)

\* Mutant: the reset does not wait for the fetch in flight.
IFlushStartBusy(p) == iflush_req /\ ~iflush_active_q /\ ~p.i_stb

\* The instruction cache is reset once its port and its bus cycle are idle.
IFlushStart(p) ==
  iflush_req /\ ~iflush_active_q /\ i_waiting = NoRequest /\ ~p.i_stb /\ ~I!MCyc
IFlushAck(p) == iflush_active_q /\ ~I!CStall(IPort(p))

\* The pipeline leaves IFLUSH when its BTB sweep (clearing) is over as well.
IFlushDone(p, clearing) ==
  iflush_req /\ IFlushAck(p) /\ ~clearing /\ i_waiting = NoRequest

\* Mutant: the handshake forgets that its sweep has begun.
IFlushStepForgets(p, enter, clearing) ==
  /\ enter => d_waiting = NoRequest \/ DAck
  /\ enter => ~p.d_stb /\ ~p.i_stb
  /\ iflush_req => ~p.d_stb
  /\ iflush_req /\ p.i_stb => IFlushDone(p, clearing)
  /\ iflush_req' = (enter \/ (iflush_req /\ ~IFlushDone(p, clearing)))
  /\ iflush_active_q' = IFlushStart(p)

IFlushStep(p, enter, clearing) ==
  /\ enter => d_waiting = NoRequest \/ DAck
  /\ enter => ~p.d_stb /\ ~p.i_stb
  /\ iflush_req => ~p.d_stb
  /\ iflush_req /\ p.i_stb => IFlushDone(p, clearing)
  /\ iflush_req' = (enter \/ (iflush_req /\ ~IFlushDone(p, clearing)))
  /\ iflush_active_q' = (iflush_req /\ (iflush_active_q \/ IFlushStart(p)))

-----------------------------------------------------------------------------
(* One clock edge. *)

\* Mutant: IFLUSH is acknowledged without a reset.
CacheStepNoReset(p) ==
  /\ I!Edge(WithData(IPort(p), p))
  /\ D!Edge(WithData(DPort(p), p))
  /\ instruction_owner_q' = (I!MCyc /\ ~SelectD)

\* Mutant: the instruction cache keeps the port once it had it.
CacheStepOwnerKept(p) ==
  /\ IF IFlushStart(p) THEN I!ResetEdge ELSE I!Edge(WithData(IPort(p), p))
  /\ D!Edge(WithData(DPort(p), p))
  /\ instruction_owner_q' = (instruction_owner_q \/ (I!MCyc /\ ~SelectD))

CacheStep(p) ==
  /\ IF IFlushStart(p) THEN I!ResetEdge ELSE I!Edge(WithData(IPort(p), p))
  /\ D!Edge(WithData(DPort(p), p))
  /\ instruction_owner_q' = (I!MCyc /\ ~SelectD)

IAccept(p) == I!CpuRequest(IPort(p))
DAccept(p) == D!CpuRequest(DPort(p))

PipelineStep(p) ==
  /\ p.i_stb => i_waiting = NoRequest \/ IAck
  /\ p.d_stb => (d_waiting = NoRequest \/ DAck) /\ issue > 0
  /\ i_waiting' = IF IAccept(p) THEN p.i_c ELSE IF IAck THEN NoRequest ELSE i_waiting
  /\ d_waiting' = IF DAccept(p) THEN p.d_c ELSE IF DAck THEN NoRequest ELSE d_waiting
  /\ d_got' = IF DAck /\ ~d_waiting.we THEN {d_read_data_q} ELSE {}
  /\ issue' = IF IAck THEN PipelineDepth ELSE IF DAccept(p) THEN issue - 1 ELSE issue

MemoryStep(p) ==
  /\ p.ack => Owed(p) # <<>>
  /\ bus' = IF p.ack THEN Tail(Owed(p)) ELSE Owed(p)
  /\ memory' =
       IF p.ack /\ Head(Owed(p)).cmd.we
       THEN LET w == Head(Owed(p)).cmd
            IN  [memory EXCEPT ![w.addr] = D!Merge(@, w.sel, w.wdata)]
       ELSE memory

History(p) ==
  unflushed' = (IF IFlushStart(p) THEN {} ELSE unflushed)
               \cup (IF DAccept(p) /\ p.d_c.we THEN {p.d_c.addr} ELSE {})

\* Outside IFLUSH the pipeline may enter it; in IFLUSH the BTB may be busy.
Clock(p) ==
  /\ PipelineStep(p)
  /\ MemoryStep(p)
  /\ \E enter \in {FALSE, ~iflush_req}, clearing \in {FALSE, iflush_req} :
       IFlushStep(p, enter, clearing)
  /\ CacheStep(p)
  /\ History(p)

Init ==
  /\ \E r \in Fetches : I!CacheInit(r)
  /\ \E r \in DataRequests : D!CacheInit(r)
  /\ instruction_owner_q = FALSE
  /\ iflush_active_q = FALSE
  /\ iflush_req = FALSE
  /\ i_waiting = NoRequest
  /\ d_waiting = NoRequest
  /\ d_got = {}
  /\ issue = 0
  /\ memory \in InitMemories
  /\ bus = <<>>
  /\ unflushed = {}

Next == \E p \in Pins : Clock(p)

Spec == Init /\ [][Next]_vars

-----------------------------------------------------------------------------
(* Safety. *)

\* A store the data cache has taken and not passed on.
Retained ==
  IF d_req.we /\ d_state_q \in {"LOOKUP", "PASS"} THEN <<d_req>> ELSE <<>>
Posted == [k \in DOMAIN bus |-> bus[k].cmd] \o Retained
Covering(a, l) ==
  {k \in DOMAIN Posted : Posted[k].we /\ Posted[k].addr = a /\ l \in Posted[k].sel}

\* Memory as the data port sees it: overlaid with the posted stores.
Image ==
  [a \in D!Addr |-> [l \in Lanes |->
     LET ks == Covering(a, l)
     IN  IF ks = {} THEN memory[a][l]
         ELSE Posted[CHOOSE k \in ks : \A j \in ks : j <= k].wdata[l]]]

DataPort == INSTANCE CpuPort WITH
  Addr <- D!Addr, Word <- D!Word, Request <- DataRequests, ExtWrites <- {},
  image <- Image, waiting <- d_waiting, got <- d_got

\* Sharing the port with refills of the other cache changes no data answer.
ImplementsDataPort == DataPort!Spec

\* HARDWARE.md, "Cached": self-modifying code works once it runs IFLUSH.  A
\* fetch of a word that no store has touched since the last flush returns
\* every store acknowledged before it, though IFLUSH waits for none of them.
FetchesFresh ==
  IAck /\ i_waiting.addr \notin unflushed => i_read_data_q = Image[i_waiting.addr]

\* An answer reaches the cache whose command it answers: the arbiter never
\* moves while something is owed, and never mixes the two caches' commands.
AnswersRouted ==
  \A k \in DOMAIN bus : bus[k].port = IF SelectD THEN "D" ELSE "I"

\* A line is filled in one piece: no data command is accepted between the
\* first command of an instruction refill and its last answer.
RefillsWhole ==
  i_state_q = "REFILL" /\ (i_pending_q \/ i_refill_beat_q # 0) => ~SelectD

\* The reset sweep never takes a fetch away: a cache is reset only when it
\* owes its port nothing and is owed nothing.
FlushesIdle ==
  iflush_active_q /\ i_state_q = "CLEAR" =>
    /\ i_waiting = NoRequest
    /\ \A k \in DOMAIN bus : bus[k].port = "D"

\* The shared port is well kept: whole refills, routed answers, idle flushes.
PortKept == TypeOK /\ AnswersRouted /\ RefillsWhole /\ FlushesIdle

-----------------------------------------------------------------------------
(* Liveness. *)

\* The memory keeps accepting and answering; the pipeline's BTB sweep ends.
Serves(p) == ~p.stall /\ p.ack = (bus # <<>>)
MemoryServes == \E p \in Pins : Serves(p) /\ Clock(p)
FairSpec == Spec /\ WF_vars(MemoryServes)

\* Neither cache starves the other: data goes first between refills, and the
\* stores that can go first are bounded by the instructions already fetched.
FetchAnswered == (i_waiting # NoRequest) ~> IAck
DataAnswered == (d_waiting # NoRequest) ~> DAck

\* IFLUSH is acknowledged, even behind a refill and posted stores.
FlushAcknowledged == iflush_req ~> (iflush_active_q /\ i_state_q # "CLEAR")
=============================================================================
