---------------------------- MODULE CachedCache ----------------------------
(***************************************************************************)
(* The direct-mapped write-through cache of the Cached core                *)
(* (riscc_cached_cache, rtl/riscc_cached.v).  The core holds two of them:  *)
(* a read-only instruction cache and a data cache.                         *)
(*                                                                         *)
(* The module is open: one step is one clock edge, and everything the      *)
(* cache sees on its ports at that edge is the record io.  CacheSystem and *)
(* CachedMemory close it with a CPU and a backing memory.                  *)
(*                                                                         *)
(*   io.stb  the CPU offers a request     io.c    its payload              *)
(*   io.stall, io.ack, io.rdata           the backing port's answer        *)
(*   io.inv  the set of line indices (at most one) invalidated from outside*)
(*                                                                         *)
(* Both RAMs are built with mixed-port read-during-write "don't care".  A  *)
(* data read that collides with a write yields Undef in every lane, and a  *)
(* tag read that collides with a tag write yields any tag word.            *)
(***************************************************************************)
EXTENDS Integers, Sequences, FiniteSets

CONSTANTS
  Tags,            \* the upper address parts: everything above the line index
  Uncached,        \* tags outside the cacheable region or with the bypass bit set
  Local,           \* tags that select the local SRAM
  Lines,           \* LINE_COUNT
  LineWords,       \* words of a line, LAST_BEAT + 1
  Lanes,           \* byte lanes of a word
  Values,          \* what a lane holds
  Undef,           \* the outcome of an undefined RAM read
  RegisterLookup,  \* REGISTER_LOOKUP: one clock more, tags read ahead
  ReadOnly         \* READ_ONLY: the instruction cache

ASSUME GeometryAssumption ==
  /\ Lines \in Nat \ {0}
  /\ LineWords \in Nat \ {0}
  /\ Uncached \subseteq Tags
  /\ Local \subseteq Tags
  /\ Undef \notin Values
  /\ RegisterLookup \in BOOLEAN
  /\ ReadOnly \in BOOLEAN

Index == 0 .. Lines - 1
Beat  == 0 .. LineWords - 1
LastBeat == LineWords - 1
Addr  == [tag : Tags, index : Index, beat : Beat]
Word  == [Lanes -> Values]
RamWord == [Lanes -> Values \cup {Undef}]
UndefWord == [l \in Lanes |-> Undef]
TagWord == [valid : BOOLEAN, tag : Tags]
Request == [addr : Addr, we : BOOLEAN, sel : SUBSET Lanes, wdata : Word]
States == {"IDLE", "LOOKUP", "REFILL", "RELOOK", "PASS", "REPLY", "CLEAR", "UNCACHED"}

\* The backing port counts at most three writes in flight in two bits.
MaxWrites == 3

VARIABLES
  state_q,              \* the state machine
  req,                  \* req_addr_q, req_we_q, req_sel_q, req_wdata_q
  pending_q,            \* a read command waits for its reply
  refill_beat_q,        \* the word of the line the next reply carries
  refill_invalidated_q, \* the line under refill was invalidated meanwhile
  writes_pending_q,     \* accepted writes without a reply, two bits
  tag_word,             \* the tag RAM's registered output
  tag_invalidated_q,    \* the line read into tag_word was invalidated as it was read
  tag_hit_q,            \* registered hit, used when RegisterLookup
  refill_relook_q,      \* tag_hit_q was set by a refill: keep it over the relook
  tag_mem, data_mem,    \* the two RAMs
  read_data_q           \* the data RAM's registered output

cacheVars == <<state_q, req, pending_q, refill_beat_q, refill_invalidated_q,
               writes_pending_q, tag_word, tag_invalidated_q, tag_hit_q,
               refill_relook_q, tag_mem, data_mem, read_data_q>>

CacheTypeOK ==
  /\ state_q \in States
  /\ req \in Request
  /\ pending_q \in BOOLEAN
  /\ refill_beat_q \in Beat
  /\ refill_invalidated_q \in BOOLEAN
  /\ writes_pending_q \in 0 .. MaxWrites
  /\ tag_word \in TagWord
  /\ tag_invalidated_q \in BOOLEAN
  /\ tag_hit_q \in BOOLEAN
  /\ refill_relook_q \in BOOLEAN
  /\ tag_mem \in [Index -> TagWord]
  /\ data_mem \in [Index \X Beat -> RamWord]
  /\ read_data_q \in RamWord

-----------------------------------------------------------------------------
(* Combinational signals. *)

Slot(a) == <<a.index, a.beat>>
Merge(old, sel, new) == [l \in Lanes |-> IF l \in sel THEN new[l] ELSE old[l]]

ReqLocal == req.addr.tag \in Local
ReqCacheable == req.addr.tag \notin Uncached
InvReq(io) == req.addr.index \in io.inv

TagMatches == tag_word.valid /\ ~tag_invalidated_q /\ tag_word.tag = req.addr.tag
LookupHit(io) ==
  /\ ~ReqLocal
  /\ ReqCacheable
  /\ IF RegisterLookup THEN tag_hit_q ELSE TagMatches
  /\ ~InvReq(io)
LookupReadHit(io) == LookupHit(io) /\ ~req.we
StoreHit(io) == state_q = "LOOKUP" /\ LookupHit(io) /\ req.we /\ ~ReadOnly

\* Stores and uncached reads are passed to the backing port, from LOOKUP on.
PassActive ==
  \/ state_q = "PASS"
  \/ /\ state_q = "LOOKUP"
     /\ RegisterLookup \/ ~ReqLocal
     /\ ~ReqCacheable \/ req.we
\* Mutant: a fourth store is posted and wraps the two-bit count of those under way.
PassReadyUncounted(io) == req.we \/ writes_pending_q = 0

PassReady(io) ==
  IF req.we THEN writes_pending_q # MaxWrites \/ io.ack ELSE writes_pending_q = 0

MCyc == PassActive \/ state_q = "REFILL" \/ writes_pending_q # 0
\* Mutant: an answered refill goes on to ask for a word beyond its line.
MStbBeyond(io) ==
  IF PassActive THEN ~pending_q /\ PassReady(io)
  ELSE state_q = "REFILL" /\ (~pending_q \/ io.ack)
MStb(io) ==
  IF PassActive THEN ~pending_q /\ PassReady(io)
  ELSE /\ state_q = "REFILL"
       /\ ~pending_q \/ (io.ack /\ refill_beat_q # LastBeat)
\* Mutant: the beat of a refill moves on with any answer, owed to it or not.
MCmdAnyAck(io) ==
  IF PassActive THEN req
  ELSE [req EXCEPT
          !.addr.beat = (refill_beat_q + IF io.ack THEN 1 ELSE 0) % LineWords,
          !.sel = Lanes]

MCmd(io) ==
  IF PassActive THEN req
  ELSE [req EXCEPT
          !.addr.beat = (refill_beat_q + IF pending_q /\ io.ack THEN 1 ELSE 0) % LineWords,
          !.sel = Lanes]

Accepted(io) == MCyc /\ MStb(io) /\ ~io.stall
WriteAccept(io) == PassActive /\ Accepted(io) /\ req.we
WriteResponse(io) == io.ack /\ (writes_pending_q # 0 \/ WriteAccept(io))
PassResponse(io) ==
  /\ PassActive /\ ~req.we /\ writes_pending_q = 0 /\ io.ack
  /\ pending_q \/ Accepted(io)
\* A reply to a refill, to an older command or to the one accepted on this edge.
RefillResponse(io) ==
  state_q = "REFILL" /\ io.ack /\ (pending_q \/ Accepted(io))
RefillLast(io) == RefillResponse(io) /\ refill_beat_q = LastBeat

StorePosted == state_q = "LOOKUP" /\ ~ReqLocal /\ req.we
CAck(io) ==
  \/ state_q = "LOOKUP" /\ LookupReadHit(io)
  \/ StorePosted
  \/ state_q = "REPLY"
CStall(io) ==
  ~ \/ state_q \in {"IDLE", "REPLY"}
    \/ ReqLocal /\ (state_q = "LOOKUP" \/ (RegisterLookup /\ state_q = "RELOOK"))
    \/ state_q = "LOOKUP" /\ LookupReadHit(io)
    \/ WriteAccept(io)
CpuRequest(io) == io.stb /\ ~CStall(io)

\* The second read of the data RAM, or the first one when tags are read ahead.
Relook == state_q \in {"RELOOK", "UNCACHED"}

-----------------------------------------------------------------------------
(* The RAMs and the tag pipeline, on every edge without reset. *)

\* Mutant: a store that hits but leaves its line as it was.
RamWriteSlotsNoStore(io) ==
  IF RefillResponse(io) THEN {<<req.addr.index, refill_beat_q>>}
  ELSE IF PassResponse(io) THEN {Slot(req.addr)}
  ELSE {}

RamWriteSlots(io) ==
  IF RefillResponse(io) THEN {<<req.addr.index, refill_beat_q>>}
  ELSE IF PassResponse(io) \/ StoreHit(io) THEN {Slot(req.addr)}
  ELSE {}
RamWrite(io) ==
  data_mem' = [s \in Index \X Beat |->
    IF s \notin RamWriteSlots(io) THEN data_mem[s]
    ELSE IF StoreHit(io) THEN Merge(data_mem[s], req.sel, req.wdata)
    ELSE io.rdata]

RamRead(io) ==
  LET enabled == (~RegisterLookup /\ CpuRequest(io)) \/ Relook
      slot == IF RegisterLookup \/ Relook THEN Slot(req.addr) ELSE Slot(io.c.addr)
  IN  read_data_q' = IF ~enabled THEN read_data_q
                     ELSE IF slot \in RamWriteSlots(io) THEN UndefWord
                     ELSE data_mem[slot]

\* Mutant: an invalidation during the refill does not keep the line from becoming valid.
TagWriteEnableRevived(io) ==
  \/ state_q \in {"CLEAR", "UNCACHED"}
  \/ io.inv # {}
  \/ RefillLast(io)

TagWriteEnable(io) ==
  \/ state_q \in {"CLEAR", "UNCACHED"}
  \/ io.inv # {}
  \/ RefillLast(io) /\ ~refill_invalidated_q
\* An invalidation has the write port, except during the reset sweep.
TagWriteIndex(io) ==
  IF io.inv # {} /\ state_q # "CLEAR" THEN CHOOSE i \in io.inv : TRUE ELSE req.addr.index
TagWrite(io) ==
  tag_mem' = IF ~TagWriteEnable(io) THEN tag_mem
    ELSE [tag_mem EXCEPT ![TagWriteIndex(io)] =
            [valid |-> state_q \notin {"CLEAR", "UNCACHED"} /\ io.inv = {},
             tag   |-> req.addr.tag]]

\* Mutant: a line invalidated in the cycle it is looked up in still hits.
TagReadStale(io) ==
  LET index == IF ~RegisterLookup /\ Relook THEN req.addr.index ELSE io.c.addr.index
  IN  IF RegisterLookup \/ CpuRequest(io) \/ Relook
      THEN /\ tag_invalidated_q' = FALSE
           /\ tag_word' = tag_mem[index]
      ELSE UNCHANGED <<tag_word, tag_invalidated_q>>

TagRead(io) ==
  LET index == IF ~RegisterLookup /\ Relook THEN req.addr.index ELSE io.c.addr.index
  IN  IF RegisterLookup \/ CpuRequest(io) \/ Relook
      THEN /\ tag_invalidated_q' = (index \in io.inv)
           /\ \/ /\ TagWriteEnable(io) /\ TagWriteIndex(io) = index
                 /\ tag_word' \in TagWord
              \/ /\ ~(TagWriteEnable(io) /\ TagWriteIndex(io) = index)
                 /\ tag_word' = tag_mem[index]
      ELSE UNCHANGED <<tag_word, tag_invalidated_q>>

\* Mutant: a registered hit survives the invalidation of its line.
TagHitInvKept(io) ==
  /\ tag_hit_q' =
       IF RefillLast(io) THEN ~refill_invalidated_q /\ io.inv = {}
       ELSE IF Relook /\ ~refill_relook_q THEN TagMatches
       ELSE tag_hit_q
  /\ refill_relook_q' =
       (RefillLast(io) \/ (refill_relook_q /\ ~Relook /\ ~CpuRequest(io)))

\* A completed refill's hit is carried over the tag write and the relook.
TagHit(io) ==
  /\ tag_hit_q' =
       IF InvReq(io) THEN FALSE
       ELSE IF RefillLast(io) THEN ~refill_invalidated_q /\ io.inv = {}
       ELSE IF Relook /\ ~refill_relook_q THEN TagMatches
       ELSE tag_hit_q
  /\ refill_relook_q' =
       (RefillLast(io) \/ (refill_relook_q /\ ~Relook /\ ~CpuRequest(io)))

CountWrites(io) ==
  writes_pending_q' =
    (writes_pending_q + (IF WriteAccept(io) THEN 1 ELSE 0)
                      + (IF WriteResponse(io) THEN MaxWrites ELSE 0)) % (MaxWrites + 1)

\* Mutant: the sweep runs past the last line.
CaptureOverrun(io) ==
  req' = IF state_q = "CLEAR" THEN [req EXCEPT !.addr.index = @ + 1]
         ELSE IF CStall(io) THEN req ELSE io.c

\* A free slot captures the offered payload, even an unowned one.
Capture(io) ==
  req' = IF state_q = "CLEAR"
         THEN [req EXCEPT !.addr.index = IF @ = Lines - 1 THEN @ ELSE @ + 1]
         ELSE IF CStall(io) THEN req ELSE io.c

Datapath(io) ==
  /\ RamWrite(io) /\ RamRead(io)
  /\ TagWrite(io) /\ TagRead(io) /\ TagHit(io)
  /\ CountWrites(io)
  /\ Capture(io)

-----------------------------------------------------------------------------
(* The state machine: one action per state. *)

\* Mutant: a load that collides with the store before it reads the RAM only once.
RequestStateNoRelook(io) == IF RegisterLookup THEN "RELOOK" ELSE "LOOKUP"

\* A load of the word the current store writes must read the RAM again.
RequestState(io) ==
  IF \/ RegisterLookup
     \/ ~io.c.we /\ StoreHit(io) /\ Slot(io.c.addr) = Slot(req.addr)
  THEN "RELOOK" ELSE "LOOKUP"
IdleOrRequest(io) == state_q' = IF io.stb THEN RequestState(io) ELSE "IDLE"

\* The pass-through part of LOOKUP and PASS.
PassStep(io) ==
  /\ pending_q' = IF CpuRequest(io) \/ PassResponse(io) THEN FALSE
                  ELSE pending_q \/ (~req.we /\ Accepted(io))
  /\ IF WriteAccept(io) THEN IdleOrRequest(io)
     ELSE state_q' = IF PassResponse(io) THEN "UNCACHED" ELSE "PASS"
  /\ UNCHANGED <<refill_beat_q, refill_invalidated_q>>

\* Mutant: the sweep ends after the first line.
ClearStepShort(io) ==
  /\ state_q = "CLEAR"
  /\ state_q' = "IDLE"
  /\ UNCHANGED <<pending_q, refill_beat_q, refill_invalidated_q>>

ClearStep(io) ==
  /\ state_q = "CLEAR"
  /\ state_q' = IF req.addr.index = Lines - 1 THEN "IDLE" ELSE "CLEAR"
  /\ UNCHANGED <<pending_q, refill_beat_q, refill_invalidated_q>>

\* IDLE, REPLY and a local request's answer: the slot is free.
FreeStep(io) ==
  /\ \/ state_q \in {"IDLE", "REPLY"}
     \/ state_q = "LOOKUP" /\ (ReqLocal \/ LookupReadHit(io))
     \/ state_q = "RELOOK" /\ RegisterLookup /\ ReqLocal
  /\ IdleOrRequest(io)
  /\ pending_q' = IF CpuRequest(io) THEN FALSE ELSE pending_q
  /\ UNCHANGED <<refill_beat_q, refill_invalidated_q>>

LookupPassStep(io) ==
  /\ state_q = "LOOKUP" /\ ~(ReqLocal \/ LookupReadHit(io)) /\ PassActive
  /\ PassStep(io)

\* A read miss waits for the posted writes, then fetches the line.
LookupMissStep(io) ==
  /\ state_q = "LOOKUP" /\ ~(ReqLocal \/ LookupReadHit(io)) /\ ~PassActive
  /\ IF writes_pending_q = 0
     THEN /\ state_q' = "REFILL"
          /\ pending_q' = FALSE
          /\ refill_beat_q' = 0
          /\ refill_invalidated_q' = InvReq(io)
     ELSE UNCHANGED <<state_q, pending_q, refill_beat_q, refill_invalidated_q>>

RefillStep(io) ==
  /\ state_q = "REFILL"
  /\ refill_invalidated_q' = (refill_invalidated_q \/ InvReq(io))
  /\ IF RefillLast(io)
     THEN state_q' = "RELOOK" /\ pending_q' = FALSE /\ UNCHANGED refill_beat_q
     ELSE IF RefillResponse(io)
     THEN /\ refill_beat_q' = (refill_beat_q + 1) % LineWords
          /\ pending_q' = (Accepted(io) /\ pending_q)
          /\ UNCHANGED state_q
     ELSE /\ pending_q' = (pending_q \/ Accepted(io))
          /\ UNCHANGED <<state_q, refill_beat_q>>

RelookStep(io) ==
  /\ state_q = "RELOOK" /\ ~(RegisterLookup /\ ReqLocal)
  /\ state_q' = "LOOKUP"
  /\ UNCHANGED <<pending_q, refill_beat_q, refill_invalidated_q>>

\* Mutant: the reply is looked up in its line, which was just invalidated.
UncachedStepLost(io) ==
  /\ state_q = "UNCACHED"
  /\ state_q' = "LOOKUP"
  /\ UNCHANGED <<pending_q, refill_beat_q, refill_invalidated_q>>

\* The uncached reply sits in the data RAM; its line is invalidated first.
UncachedStep(io) ==
  /\ state_q = "UNCACHED"
  /\ state_q' = IF io.inv = {} \/ InvReq(io) THEN "REPLY" ELSE "UNCACHED"
  /\ UNCHANGED <<pending_q, refill_beat_q, refill_invalidated_q>>

PassWaitStep(io) == state_q = "PASS" /\ PassStep(io)

Edge(io) ==
  /\ \/ ClearStep(io) \/ FreeStep(io)
     \/ LookupPassStep(io) \/ LookupMissStep(io)
     \/ RefillStep(io) \/ RelookStep(io)
     \/ UncachedStep(io) \/ PassWaitStep(io)
  /\ Datapath(io)

\* The reset edge: the sweep of the tags starts, the RAMs keep their contents.
ResetEdge ==
  /\ state_q' = "CLEAR"
  /\ req' = [req EXCEPT !.addr.index = 0]
  /\ pending_q' = FALSE
  /\ refill_beat_q' = 0
  /\ refill_invalidated_q' = FALSE
  /\ writes_pending_q' = 0
  /\ tag_hit_q' = FALSE
  /\ refill_relook_q' = FALSE
  /\ UNCHANGED <<tag_word, tag_invalidated_q, tag_mem, data_mem, read_data_q>>

\* After a reset edge: the RAMs and the unreset registers hold anything.
\* r is the request the registers happen to hold.
CacheInit(r) ==
  /\ state_q = "CLEAR"
  /\ req = [r EXCEPT !.addr.index = 0]
  /\ pending_q = FALSE
  /\ refill_beat_q = 0
  /\ refill_invalidated_q = FALSE
  /\ writes_pending_q = 0
  /\ tag_hit_q = FALSE
  /\ refill_relook_q = FALSE
  /\ tag_word \in TagWord
  /\ tag_invalidated_q \in BOOLEAN
  /\ tag_mem \in [Index -> TagWord]
  /\ data_mem = [s \in Index \X Beat |-> UndefWord]
  /\ read_data_q = UndefWord
=============================================================================
