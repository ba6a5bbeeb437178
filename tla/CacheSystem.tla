---------------------------- MODULE CacheSystem ----------------------------
(***************************************************************************)
(* One cache between a CPU port and a backing memory, edge by edge         *)
(* (riscc_cached_cache with riscc_cached's local SRAM beside it).          *)
(*                                                                         *)
(* The CPU keeps one request in flight and may replace it on its reply     *)
(* edge (riscc_cached_pipe's data and instruction ports).  The backing     *)
(* memory stalls at will, answers in order after any delay, and may answer *)
(* on the acceptance edge when nothing older is owed.                      *)
(***************************************************************************)
EXTENDS CachedCache

CONSTANTS
  CpuRequests,   \* the requests the CPU issues
  ExtWrites,     \* writes of another master, each with its invalidation
  InitMemories,  \* initial contents of the backing memory and the SRAM
  NoRequest

ASSUME RequestAssumption ==
  /\ CpuRequests \subseteq Request
  /\ CpuRequests # {}
  /\ NoRequest \notin Request
  /\ ReadOnly => \A r \in CpuRequests : ~r.we
  /\ \A x \in ExtWrites : /\ x.addr \in Addr /\ x.wdata \in Word
                          /\ x.addr.tag \notin Uncached \cup Local
  /\ InitMemories \subseteq [Addr -> Word]

VARIABLES
  memory,       \* the backing memory; the local SRAM at Local tags
  bus,          \* commands accepted by the backing memory and not answered
  waiting,      \* data_pending_q / i_pending_q with the request itself
  sram_ack_q,   \* d_ack_q / i_ack_q
  sram_data_q,  \* d_word_q / i_sram_data
  got,          \* the data answered on the last edge: {} or one word
  held          \* the command offered and stalled on the last edge

envVars == <<memory, bus, waiting, sram_ack_q, sram_data_q, got, held>>
vars == <<cacheVars, envVars>>

TypeOK ==
  /\ CacheTypeOK
  /\ memory \in [Addr -> Word]
  /\ bus \in Seq(Request)
  /\ waiting \in CpuRequests \cup {NoRequest}
  /\ sram_ack_q \in BOOLEAN
  /\ sram_data_q \in RamWord
  /\ got \in {{}} \cup {{w} : w \in RamWord}
  /\ held \in Request \cup {NoRequest}

\* i_ack and d_ack: the SRAM answers local requests, the cache the others.
SramAck == sram_ack_q /\ ReqLocal
CpuAck(io) == SramAck \/ CAck(io)
CpuData == IF SramAck THEN sram_data_q ELSE read_data_q

\* A port holds one request, replaceable on its reply edge.
CpuMayOffer(io) == waiting = NoRequest \/ CpuAck(io)

Owed(io) == IF Accepted(io) THEN Append(bus, MCmd(io)) ELSE bus

WithReply(io) ==
  [io EXCEPT !.rdata =
     IF io.ack /\ Owed(io) # <<>> /\ ~Head(Owed(io)).we
     THEN memory[Head(Owed(io)).addr] ELSE UndefWord]

BusStep(io) ==
  bus' = IF io.ack THEN Tail(Owed(io)) ELSE Owed(io)

\* SRAM writes happen at acceptance, backing writes when they are answered, both
\* after the other master's write of the same edge.
Answered(io) == IF io.ack /\ Head(Owed(io)).we THEN {Head(Owed(io))} ELSE {}
SramWrite(io) ==
  IF CpuRequest(io) /\ io.c.we /\ io.c.addr.tag \in Local THEN {io.c} ELSE {}
Foreign(ext, a) ==
  IF \E x \in ext : x.addr = a THEN (CHOOSE x \in ext : x.addr = a).wdata ELSE memory[a]
MemoryStep(io, ext) ==
  memory' = [a \in Addr |->
    LET ws == {w \in Answered(io) \cup SramWrite(io) : w.addr = a}
    IN  IF ws = {} THEN Foreign(ext, a)
        ELSE LET w == CHOOSE w \in ws : TRUE IN Merge(Foreign(ext, a), w.sel, w.wdata)]

SramStep(io) ==
  /\ sram_ack_q' = CpuRequest(io)
  /\ sram_data_q' = IF io.stb /\ ~io.c.we /\ io.c.addr.tag \in Local
                    THEN memory[io.c.addr] ELSE sram_data_q

CpuStep(io) ==
  /\ waiting' = IF CpuRequest(io) THEN io.c
                ELSE IF CpuAck(io) THEN NoRequest ELSE waiting
  /\ got' = IF CpuAck(io) /\ waiting # NoRequest /\ ~waiting.we THEN {CpuData} ELSE {}

\* One edge of the port, its cache and the backing memory,
PortEdge(io, ext) ==
  /\ io.stb => CpuMayOffer(io)
  /\ io.ack => Owed(io) # <<>>
  /\ Edge(io)
  /\ BusStep(io) /\ MemoryStep(io, ext) /\ CpuStep(io)

\* with the SRAM beside them.
SystemEdge(io, ext) ==
  /\ PortEdge(io, ext)
  /\ SramStep(io)
  /\ held' = IF MCyc /\ MStb(io) /\ io.stall THEN MCmd(io) ELSE NoRequest

\* Without a strobe the payload lines show anything.
Inputs(stb, c, stall, ack, ext) ==
  WithReply([stb |-> stb, c |-> c, stall |-> stall, ack |-> ack,
             rdata |-> UndefWord, inv |-> {x.addr.index : x \in ext}])

Clock(stall, ack) ==
  \E ext \in {{}} \cup {{x} : x \in ExtWrites}, r \in CpuRequests, stb \in BOOLEAN :
    SystemEdge(Inputs(stb, r, stall, ack, ext), ext)

\* IFLUSH resets the instruction cache when its port and the bus are idle.
Flush ==
  /\ ReadOnly
  /\ waiting = NoRequest /\ ~MCyc
  /\ ResetEdge
  /\ sram_ack_q' = FALSE
  /\ held' = NoRequest
  /\ got' = {}
  /\ UNCHANGED <<memory, bus, waiting, sram_data_q>>

Init ==
  /\ \E r \in CpuRequests : CacheInit(r)
  /\ memory \in InitMemories
  /\ bus = <<>>
  /\ waiting = NoRequest
  /\ sram_ack_q = FALSE
  /\ sram_data_q = UndefWord
  /\ got = {}
  /\ held = NoRequest

Next == (\E stall, ack \in BOOLEAN : Clock(stall, ack)) \/ Flush

Spec == Init /\ [][Next]_vars

-----------------------------------------------------------------------------
(* The flat memory behind the port. *)

\* A store the cache has taken and not passed on.
Retained ==
  IF req.we /\ ~ReqLocal /\ state_q \in {"RELOOK", "LOOKUP", "PASS"}
  THEN <<req>> ELSE <<>>

\* Memory overlaid, lane by lane, with the youngest covering store of a queue.
Covering(q, a, l) == {k \in DOMAIN q : q[k].we /\ q[k].addr = a /\ l \in q[k].sel}
Overlaid(q, a) ==
  [l \in Lanes |->
     LET ks == Covering(q, a, l)
     IN  IF ks = {} THEN memory[a][l]
         ELSE q[CHOOSE k \in ks : \A j \in ks : j <= k].wdata[l]]

Image == [a \in Addr |-> Overlaid(bus \o Retained, a)]

Port == INSTANCE CpuPort WITH
  Request <- CpuRequests, image <- Image

\* HARDWARE.md, "Cached": requests complete in order and a load sees every
\* older store, whatever the hits, misses, refills, bypasses, posted stores,
\* invalidations and bus delays between them; no undefined RAM word is used.
ImplementsPort == Port!Spec

-----------------------------------------------------------------------------
(* Safety. *)

\* The cache's counters agree with what the backing port really owes it:
\* posted stores only, at most three of them, or one read alone.
BusAccount ==
  /\ writes_pending_q # 0 => ~pending_q
  /\ Len(bus) = writes_pending_q + (IF pending_q THEN 1 ELSE 0)
  /\ \A k \in DOMAIN bus : bus[k].we = ~pending_q
  /\ pending_q => bus[1] = MCmd([ack |-> FALSE])

\* The line of the request holds its address.
Match == tag_mem[req.addr.index] = [valid |-> TRUE, tag |-> req.addr.tag]
\* What a registered or an unregistered look-up takes for that.
Hit == IF RegisterLookup THEN tag_hit_q ELSE TagMatches
\* A load that is looked up.
Cacheable == ~req.we /\ ReqCacheable /\ ~ReqLocal

\* Lines in any condition: those the sweep has not reached, the one an uncached
\* reply was put in, and the one that a missing load fills.  A fill whose tag write
\* gives way to an invalidation elsewhere leaves the old tag on the new words: the
\* load misses again.
Unsettled ==
  {i \in Index :
     \/ state_q = "CLEAR" /\ i >= req.addr.index
     \/ state_q = "UNCACHED" /\ i = req.addr.index
     \/ state_q \in {"LOOKUP", "REFILL", "RELOOK"} /\ Cacheable /\ ~Match /\ i = req.addr.index}

\* The stores that valid lines hold already: those of the bus and the one in PASS.
\* A store in LOOKUP or RELOOK has not updated its line yet.
Drained == IF state_q = "PASS" THEN bus \o Retained ELSE bus

\* Write-through: a valid line holds what its addresses will hold in memory
\* once the posted stores have drained.
LinesCoherent ==
  \A i \in Index \ Unsettled, b \in Beat :
    tag_mem[i].valid /\ tag_mem[i].tag \notin Uncached \cup Local =>
      data_mem[<<i, b>>] = Overlaid(Drained, [tag |-> tag_mem[i].tag, index |-> i, beat |-> b])

\* riscc_cached.v, "Invalidation overrides the hit": a load is answered from its line
\* only while the line is valid and holds its address.
HitsValid == state_q = "LOOKUP" /\ Cacheable /\ Hit => Match

\* HARDWARE.md, "Memory handshake": a stalled command stays as it is until
\* accepted, whether or not an older command is answered meanwhile.
HeldStable ==
  held # NoRequest =>
    \A k \in BOOLEAN : /\ MCyc /\ MStb([ack |-> k])
                       /\ MCmd([ack |-> k]) = held
=============================================================================
