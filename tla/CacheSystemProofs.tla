-------------------------- MODULE CacheSystemProofs --------------------------
(***************************************************************************)
(* Proofs about CacheSystem, for every geometry, request set, placement of *)
(* local and uncached tags, and every way the backing memory stalls and    *)
(* answers:                                                                *)
(*                                                                         *)
(*   TypeCorrect    every register keeps to its range, in particular the   *)
(*                  two-bit count of posted writes and the beat counter    *)
(*   BusAccounted   the cache's account of what it is owed is right        *)
(*   CommandsHeld   a stalled command is held until it is accepted         *)
(*   PortImplemented   every step of the cache is a step of the flat memory*)
(*                  of CpuPort, whatever it retains, fills, passes, posts  *)
(*   LinesKept      a valid line holds what its addresses will hold        *)
(*   HitsRight      a load is answered from its line only while the line   *)
(*                  is valid and holds its address                         *)
(*                                                                         *)
(* The first part is about the bus: BusAccounted and CommandsHeld rest on  *)
(* BusInv, an inductive strengthening of BusAccount with the states in     *)
(* which a read may be owed.  Each preservation proof follows the state    *)
(* machine: one lemma for the states that leave the backing port alone,    *)
(* one for passing a request on, one for a refill.                         *)
(*                                                                         *)
(* The second part is about memory.  An unregistered look-up loses an      *)
(* invalidation that arrives while its missing load waits for posted       *)
(* stores, so its three theorems need Settled.                             *)
(***************************************************************************)
EXTENDS CacheSystem, WellFoundedInduction, TLAPS

-----------------------------------------------------------------------------
(* Types. *)

\* Beat counters wrap at the length of a line, whatever that is.
LEMMA ModSmall == ASSUME NEW n \in Nat \ {0}, NEW b \in 0 .. n - 1 PROVE b % n = b
  OBVIOUS
\* Incremented beats come back into range.
LEMMA ModRange == ASSUME NEW n \in Nat \ {0}, NEW b \in Nat PROVE b % n \in 0 .. n - 1
  OBVIOUS

\* What the ports may show at an edge.
IO == [stb : BOOLEAN, c : CpuRequests, stall : BOOLEAN, ack : BOOLEAN,
       rdata : RamWord, inv : SUBSET Index]

\* The cache offers well-formed commands: its beat wraps inside the line.
LEMMA MCmdType == ASSUME CacheTypeOK, NEW io PROVE MCmd(io) \in Request
<1>1. CASE PassActive
  BY <1>1 DEF MCmd, CacheTypeOK
<1>2. CASE ~PassActive
  <2> DEFINE b == (refill_beat_q + IF pending_q /\ io.ack THEN 1 ELSE 0) % LineWords
  <2>1. b \in Beat
    <3>1. refill_beat_q + (IF pending_q /\ io.ack THEN 1 ELSE 0) \in Nat
      BY GeometryAssumption DEF CacheTypeOK, Beat
    <3> QED BY <3>1, ModRange, GeometryAssumption DEF Beat
  <2>2. MCmd(io) = [req EXCEPT !.addr.beat = b, !.sel = Lanes]
    BY <1>2 DEF MCmd
  <2> HIDE DEF b
  <2> QED BY <2>1, <2>2 DEF CacheTypeOK, Request, Addr
<1> QED BY <1>1, <1>2

\* An undefined RAM read is a RAM word.
LEMMA UndefTyped == UndefWord \in RamWord
  BY DEF UndefWord, RamWord

\* The queue of the backing memory holds commands.
LEMMA OwedTyped == ASSUME TypeOK, NEW io PROVE Owed(io) \in Seq(Request)
  BY MCmdType DEF Owed, TypeOK

\* Byte enables merge two RAM words into one,
LEMMA MergeTyped ==
  ASSUME NEW old \in RamWord, NEW new \in RamWord, NEW sel
  PROVE  Merge(old, sel, new) \in RamWord
  BY DEF Merge, RamWord

\* and two defined words into a defined one.
LEMMA MergeWordTyped ==
  ASSUME NEW old \in Word, NEW new \in Word, NEW sel
  PROVE  Merge(old, sel, new) \in Word
  BY DEF Merge, Word

\* Memory words fit the RAM.
LEMMA WordTyped == Word \subseteq RamWord
  BY DEF Word, RamWord

\* At most one foreign write at an edge.
Exts == {{}} \cup {{x} : x \in ExtWrites}

\* The inputs that Clock puts together are well typed.
LEMMA InputsTyped ==
  ASSUME TypeOK, NEW stb \in BOOLEAN, NEW c \in CpuRequests, NEW stall \in BOOLEAN,
         NEW ack \in BOOLEAN, NEW ext \in Exts
  PROVE  Inputs(stb, c, stall, ack, ext) \in IO
<1> DEFINE io == [stb |-> stb, c |-> c, stall |-> stall, ack |-> ack,
                  rdata |-> UndefWord, inv |-> {x.addr.index : x \in ext}]
           data == IF io.ack /\ Owed(io) # <<>> /\ ~Head(Owed(io)).we
                   THEN memory[Head(Owed(io)).addr] ELSE UndefWord
<1>1. {x.addr.index : x \in ext} \subseteq Index
  BY RequestAssumption DEF Exts, Addr
<1>2. data \in RamWord
  <2>1. CASE Owed(io) # <<>>
    <3>1. Owed(io) \in Seq(Request)
      BY OwedTyped
    <3>2. ASSUME NEW q \in Seq(Request), q # <<>> PROVE Head(q) \in Request
      BY <3>2
    <3>3. Head(Owed(io)) \in Request
      BY <2>1, <3>1, <3>2
    <3> HIDE DEF io
    <3>4. Head(Owed(io)).addr \in Addr
      BY <3>3 DEF Request
    <3> QED BY <3>4, UndefTyped, WordTyped DEF TypeOK
  <2> QED BY <2>1, UndefTyped
<1>3. Inputs(stb, c, stall, ack, ext) = [io EXCEPT !.rdata = data]
  BY DEF Inputs, WithReply
<1>4. io \in [stb : BOOLEAN, c : CpuRequests, stall : BOOLEAN, ack : BOOLEAN,
              rdata : RamWord, inv : SUBSET Index]
  BY <1>1, UndefTyped
<1> HIDE DEF io, data
<1> QED BY <1>2, <1>3, <1>4 DEF IO

\* One edge of the cache keeps its registers in range.
LEMMA EdgeTyped ==
  ASSUME TypeOK, NEW io \in IO, Edge(io)
  PROVE  CacheTypeOK'
<1> USE GeometryAssumption
<1>1. io.c \in Request /\ io.rdata \in RamWord /\ io.inv \subseteq Index
  BY RequestAssumption DEF IO
<1>2. req \in Request /\ req.addr \in Addr /\ req.addr.index \in Index /\ req.wdata \in Word
  BY DEF TypeOK, CacheTypeOK, Request, Addr
<1>3. state_q' \in States
  BY DEF TypeOK, CacheTypeOK, Edge, States, ClearStep, FreeStep, LookupPassStep, LookupMissStep,
         RefillStep, RelookStep, UncachedStep, PassWaitStep, PassStep, IdleOrRequest, RequestState
<1>4. pending_q' \in BOOLEAN
  BY DEF TypeOK, CacheTypeOK, Edge, ClearStep, FreeStep, LookupPassStep, LookupMissStep,
         RefillStep, RelookStep, UncachedStep, PassWaitStep, PassStep
<1>5. refill_beat_q' \in Beat
  <2>1. refill_beat_q \in Beat /\ 0 \in Beat
    BY DEF TypeOK, CacheTypeOK, Beat
  <2>2. (refill_beat_q + 1) % LineWords \in Beat
    BY <2>1, ModRange DEF Beat
  <2> QED BY <2>1, <2>2 DEF Edge, ClearStep, FreeStep, LookupPassStep, LookupMissStep,
         RefillStep, RelookStep, UncachedStep, PassWaitStep, PassStep
<1>6. refill_invalidated_q' \in BOOLEAN
  <2>1. refill_invalidated_q \in BOOLEAN /\ InvReq(io) \in BOOLEAN
    BY DEF TypeOK, CacheTypeOK, InvReq
  <2>2. CASE RefillStep(io)
    <3>1. (refill_invalidated_q \/ InvReq(io)) \in BOOLEAN
      OBVIOUS
    <3> QED BY <2>2, <3>1, Zenon DEF RefillStep
  <2>3. CASE LookupMissStep(io)
    BY <2>1, <2>3 DEF LookupMissStep
  <2> QED BY <2>1, <2>2, <2>3 DEF Edge, ClearStep, FreeStep, LookupPassStep,
             RelookStep, UncachedStep, PassWaitStep, PassStep
<1>7. req' \in Request
  <2>1. Capture(io)
    BY DEF Edge, Datapath
  <2> DEFINE i == IF req.addr.index = Lines - 1 THEN req.addr.index ELSE req.addr.index + 1
  <2>2. i \in Index
    BY <1>2 DEF Index
  <2>3. req' = IF state_q = "CLEAR" THEN [req EXCEPT !.addr.index = i]
               ELSE IF CStall(io) THEN req ELSE io.c
    BY <2>1 DEF Capture
  <2> HIDE DEF i
  <2>4. [req EXCEPT !.addr.index = i] \in Request
    BY <1>2, <2>2 DEF Request, Addr
  <2> QED BY <1>1, <1>2, <2>3, <2>4
<1>8. writes_pending_q' \in 0 .. MaxWrites
  <2>1. CountWrites(io) /\ writes_pending_q \in 0 .. 3
    BY DEF Edge, Datapath, TypeOK, CacheTypeOK, MaxWrites
  <2> QED BY <2>1 DEF CountWrites, MaxWrites
<1>9. TagWriteIndex(io) \in Index
  BY <1>1, <1>2 DEF TagWriteIndex
<1>10. tag_mem' \in [Index -> TagWord]
  <2>1. TagWrite(io) /\ tag_mem \in [Index -> TagWord]
    BY DEF Edge, Datapath, TypeOK, CacheTypeOK
  <2>2. req.addr.tag \in Tags
    BY <1>2 DEF Addr
  <2>3. [valid |-> state_q \notin {"CLEAR", "UNCACHED"} /\ io.inv = {},
         tag |-> req.addr.tag] \in TagWord
    BY <2>2 DEF TagWord
  <2> QED BY <1>9, <2>1, <2>3 DEF TagWrite
<1>11. tag_word' \in TagWord /\ tag_invalidated_q' \in BOOLEAN
  <2>1. TagRead(io)
    BY DEF Edge, Datapath
  <2>2. tag_mem \in [Index -> TagWord] /\ tag_word \in TagWord /\ tag_invalidated_q \in BOOLEAN
    BY DEF TypeOK, CacheTypeOK
  <2>3. io.c.addr.index \in Index
    BY <1>1 DEF Request, Addr
  <2> DEFINE index == IF ~RegisterLookup /\ Relook THEN req.addr.index ELSE io.c.addr.index
  <2>4. index \in Index
    BY <1>2, <2>3
  <2>5. (index \in io.inv) \in BOOLEAN
    OBVIOUS
  <2>6. CASE RegisterLookup \/ CpuRequest(io) \/ Relook
    <3>1. tag_invalidated_q' = (index \in io.inv)
      BY <2>1, <2>6 DEF TagRead
    <3>2. tag_word' \in TagWord \/ tag_word' = tag_mem[index]
      BY <2>1, <2>6 DEF TagRead
    <3> HIDE DEF index
    <3>3. tag_word' \in TagWord
      BY <3>2, <2>2, <2>4
    <3> QED BY <3>1, <3>3, <2>5, Zenon
  <2>7. CASE ~(RegisterLookup \/ CpuRequest(io) \/ Relook)
    BY <2>1, <2>2, <2>7 DEF TagRead
  <2> QED BY <2>6, <2>7
<1>12. tag_hit_q' \in BOOLEAN /\ refill_relook_q' \in BOOLEAN
  BY DEF Edge, Datapath, TagHit, TypeOK, CacheTypeOK, TagMatches
<1>13. data_mem' \in [Index \X Beat -> RamWord]
  <2>1. RamWrite(io) /\ data_mem \in [Index \X Beat -> RamWord]
    BY DEF Edge, Datapath, TypeOK, CacheTypeOK
  <2>2. req.wdata \in RamWord
    BY <1>2, WordTyped
  <2> QED BY <1>1, <2>1, <2>2, MergeTyped DEF RamWrite
<1>14. read_data_q' \in RamWord
  <2>1. RamRead(io) /\ data_mem \in [Index \X Beat -> RamWord] /\ read_data_q \in RamWord
    BY DEF Edge, Datapath, TypeOK, CacheTypeOK
  <2>2. Slot(req.addr) \in Index \X Beat /\ Slot(io.c.addr) \in Index \X Beat
    BY <1>1, <1>2 DEF Slot, Request, Addr
  <2> QED BY <2>1, <2>2, UndefTyped DEF RamRead
<1> QED BY <1>3, <1>4, <1>5, <1>6, <1>7, <1>8, <1>10, <1>11, <1>12, <1>13, <1>14 DEF CacheTypeOK

\* The commands that an edge carries out in memory.
LEMMA WritesTyped ==
  ASSUME TypeOK, NEW io \in IO, io.ack => Owed(io) # <<>>
  PROVE  Answered(io) \cup SramWrite(io) \subseteq Request
<1>1. Owed(io) \in Seq(Request)
  BY OwedTyped
<1>2. ASSUME NEW q \in Seq(Request), q # <<>> PROVE Head(q) \in Request
  BY <1>2
<1> QED BY <1>1, <1>2, RequestAssumption DEF IO, Answered, SramWrite

\* Another master writes words.
LEMMA ForeignTyped ==
  ASSUME TypeOK, NEW ext \in Exts, NEW a \in Addr
  PROVE  Foreign(ext, a) \in Word
<1>1. \A x \in ext : x.wdata \in Word
  BY RequestAssumption DEF Exts
<1> QED BY <1>1 DEF Foreign, TypeOK

\* Answered commands, local stores and foreign writes leave words in memory.
LEMMA MemoryTyped ==
  ASSUME TypeOK, NEW io \in IO, NEW ext \in Exts, io.ack => Owed(io) # <<>>, MemoryStep(io, ext)
  PROVE  memory' \in [Addr -> Word]
<1> DEFINE ws(a) == {w \in Answered(io) \cup SramWrite(io) : w.addr = a}
           new(a) == IF ws(a) = {} THEN Foreign(ext, a)
                     ELSE LET w == CHOOSE w \in ws(a) : TRUE
                          IN  Merge(Foreign(ext, a), w.sel, w.wdata)
<1>1. memory' = [a \in Addr |-> new(a)]
  BY DEF MemoryStep
<1>2. ASSUME NEW a \in Addr PROVE new(a) \in Word
  <2>1. Foreign(ext, a) \in Word
    BY ForeignTyped
  <2>2. ASSUME ws(a) # {}
        PROVE  LET w == CHOOSE w \in ws(a) : TRUE
               IN  Merge(Foreign(ext, a), w.sel, w.wdata) \in Word
    <3> DEFINE w == CHOOSE w \in ws(a) : TRUE
    <3>1. w \in Request
      BY <2>2, WritesTyped
    <3> HIDE DEF w
    <3>2. Merge(Foreign(ext, a), w.sel, w.wdata) \in Word
      BY <2>1, <3>1, MergeWordTyped DEF Request
    <3> QED BY <3>2 DEF w
  <2> QED BY <2>1, <2>2
<1> HIDE DEF new
<1> QED BY <1>1, <1>2

\* One edge of the system preserves the type invariant,
LEMMA SystemTyped ==
  ASSUME TypeOK, NEW io \in IO, NEW ext \in Exts, SystemEdge(io, ext)
  PROVE  TypeOK'
<1>1. CacheTypeOK'
  BY EdgeTyped DEF SystemEdge, PortEdge
<1>2. memory' \in [Addr -> Word]
  BY MemoryTyped DEF SystemEdge, PortEdge
<1>3. bus' \in Seq(Request)
  <2>1. Owed(io) \in Seq(Request)
    BY OwedTyped
  <2>2. ASSUME NEW q \in Seq(Request), q # <<>> PROVE Tail(q) \in Seq(Request)
    BY <2>2
  <2> QED BY <2>1, <2>2 DEF SystemEdge, PortEdge, BusStep
<1>4. waiting' \in CpuRequests \cup {NoRequest}
  BY DEF SystemEdge, PortEdge, CpuStep, IO, TypeOK
<1>5. sram_ack_q' \in BOOLEAN
  BY DEF SystemEdge, PortEdge, SramStep, CpuRequest, IO
<1>6. sram_data_q' \in RamWord
  <2>1. io.c.addr \in Addr
    BY RequestAssumption DEF IO, Request
  <2> QED BY <2>1, WordTyped DEF SystemEdge, PortEdge, SramStep, TypeOK
<1>7. got' \in {{}} \cup {{w} : w \in RamWord}
  BY DEF SystemEdge, PortEdge, CpuStep, CpuData, TypeOK, CacheTypeOK
<1>8. held' \in Request \cup {NoRequest}
  BY MCmdType DEF SystemEdge, PortEdge, TypeOK
<1> QED BY <1>1, <1>2, <1>3, <1>4, <1>5, <1>6, <1>7, <1>8 DEF TypeOK

\* The reset sweep counts in the index field of the request register.
LEMMA ReindexTyped ==
  ASSUME NEW r \in Request, NEW i \in Index
  PROVE  [r EXCEPT !.addr.index = i] \in Request
  BY DEF Request, Addr

\* Index and beat counters start in range.
LEMMA ZeroIndex == 0 \in Index /\ 0 \in Beat
  BY GeometryAssumption DEF Index, Beat

\* The reset of a port between two requests, whatever happens elsewhere.
IdleReset ==
  /\ ResetEdge /\ ~MCyc
  /\ waiting = NoRequest /\ waiting' = NoRequest
  /\ bus' = bus /\ ~sram_ack_q'

\* It keeps the registers in range,
LEMMA ResetTyped == ASSUME CacheTypeOK, ResetEdge PROVE CacheTypeOK'
<1>1. req' \in Request
  BY ReindexTyped, ZeroIndex DEF CacheTypeOK, ResetEdge
<1>2. state_q' \in States /\ writes_pending_q' \in 0 .. MaxWrites
  BY DEF ResetEdge, States, MaxWrites
<1> QED BY <1>1, <1>2, ZeroIndex DEF CacheTypeOK, ResetEdge

\* and so does an instruction cache flush.
LEMMA FlushTyped == ASSUME TypeOK, Flush PROVE TypeOK'
<1>1. CacheTypeOK'
  BY ResetTyped DEF TypeOK, Flush
<1>2. memory' = memory /\ bus' = bus /\ waiting' = waiting /\ sram_ack_q' = FALSE
      /\ sram_data_q' = sram_data_q /\ got' = {} /\ held' = NoRequest
  BY DEF Flush
<1> QED BY <1>1, <1>2 DEF TypeOK

\* The state after reset is well typed.
LEMMA InitTyped == ASSUME Init PROVE TypeOK
<1>1. PICK r \in CpuRequests : CacheInit(r)
  BY DEF Init
<1>2. [r EXCEPT !.addr.index = 0] \in Request
  BY RequestAssumption, ReindexTyped, ZeroIndex
<1>3. CacheTypeOK
  <2>1. state_q \in States /\ writes_pending_q \in 0 .. MaxWrites
    BY <1>1 DEF CacheInit, States, MaxWrites
  <2>2. req \in Request
    BY <1>1, <1>2 DEF CacheInit
  <2>3. data_mem \in [Index \X Beat -> RamWord]
    BY <1>1, UndefTyped DEF CacheInit
  <2>4. /\ pending_q \in BOOLEAN /\ refill_beat_q \in Beat /\ refill_invalidated_q \in BOOLEAN
        /\ tag_hit_q \in BOOLEAN /\ refill_relook_q \in BOOLEAN /\ read_data_q \in RamWord
    BY <1>1, UndefTyped, ZeroIndex, Zenon DEF CacheInit
  <2>5. /\ tag_word \in TagWord /\ tag_invalidated_q \in BOOLEAN
        /\ tag_mem \in [Index -> TagWord]
    BY <1>1, Zenon DEF CacheInit
  <2> QED BY <2>1, <2>2, <2>3, <2>4, <2>5, Zenon DEF CacheTypeOK
<1>4. bus = <<>> /\ memory \in [Addr -> Word]
  BY RequestAssumption DEF Init
<1>5. bus \in Seq(Request)
  BY <1>4
<1>6. /\ waiting \in CpuRequests \cup {NoRequest} /\ held \in Request \cup {NoRequest}
      /\ sram_ack_q \in BOOLEAN /\ sram_data_q \in RamWord
      /\ got \in {{}} \cup {{w} : w \in RamWord}
  BY UndefTyped, Zenon DEF Init
<1> QED BY <1>3, <1>4, <1>5, <1>6 DEF TypeOK

\* A clock edge has one well-typed input.
LEMMA StepInputs ==
  ASSUME TypeOK, \E stall, ack \in BOOLEAN : Clock(stall, ack)
  PROVE  \E io \in IO, ext \in Exts : SystemEdge(io, ext)
<1>1. PICK stall \in BOOLEAN, ack \in BOOLEAN, ext \in Exts, r \in CpuRequests, stb \in BOOLEAN :
        SystemEdge(Inputs(stb, r, stall, ack, ext), ext)
  BY DEF Clock, Exts
<1>2. Inputs(stb, r, stall, ack, ext) \in IO
  BY InputsTyped
<1> QED BY <1>1, <1>2

\* Type correctness: no register leaves its range, in particular not the two-bit
\* count of posted writes, the beat counter and the sweep's index.
THEOREM TypeCorrect == Spec => []TypeOK
<1>1. Init => TypeOK
  BY InitTyped
<1>2. TypeOK /\ [Next]_vars => TypeOK'
  <2> SUFFICES ASSUME TypeOK, [Next]_vars PROVE TypeOK'
    OBVIOUS
  <2>1. CASE \E stall, ack \in BOOLEAN : Clock(stall, ack)
    BY <2>1, StepInputs, SystemTyped
  <2>2. CASE Flush
    BY <2>2, FlushTyped
  <2>3. CASE UNCHANGED vars
    BY <2>3 DEF vars, cacheVars, envVars, TypeOK, CacheTypeOK
  <2> QED BY <2>1, <2>2, <2>3 DEF Next
<1> QED BY <1>1, <1>2, PTL DEF Spec

-----------------------------------------------------------------------------
(* The account of the backing port. *)

\* A wire as a number.
N(b) == IF b THEN 1 ELSE 0

\* Where the state machine may be while it is owed something: a read only in
\* PASS and REFILL and for a request that is not a store; a refill only with
\* all posted writes answered.  Registered look-ups never look up local requests.
BusStates ==
  /\ pending_q => state_q \in {"PASS", "REFILL"}
  /\ pending_q => ~req.we
  /\ state_q = "REFILL" => writes_pending_q = 0 /\ ~req.we
  /\ RegisterLookup /\ state_q = "LOOKUP" => ~ReqLocal

\* BusAccount alone is not inductive: whether an answer is counted depends on
\* the state, the registered request and pending_q together.
BusInv == BusAccount /\ BusStates

\* The command that reads word b of the line that r asks for.
RefillCmd(r, b) == [r EXCEPT !.addr.beat = b, !.sel = Lanes]

\* Commands are the request itself or a word of its line.
LEMMA CmdForm ==
  ASSUME NEW io
  PROVE  MCmd(io) = IF PassActive THEN req
                    ELSE RefillCmd(req, (refill_beat_q + N(pending_q /\ io.ack)) % LineWords)
  BY DEF MCmd, RefillCmd, N

\* The queue with the command accepted on this edge.
LEMMA OwedFacts ==
  ASSUME TypeOK, NEW io
  PROVE  /\ Owed(io) \in Seq(Request)
         /\ Len(Owed(io)) = Len(bus) + N(Accepted(io))
         /\ \A k \in 1 .. Len(Owed(io)) :
              Owed(io)[k] = IF k <= Len(bus) THEN bus[k] ELSE MCmd(io)
<1>1. bus \in Seq(Request) /\ MCmd(io) \in Request
  BY MCmdType DEF TypeOK
<1>2. CASE Accepted(io)
  <2>1. Owed(io) = Append(bus, MCmd(io))
    BY <1>2 DEF Owed
  <2> QED BY <1>1, <1>2, <2>1 DEF N
<1>3. CASE ~Accepted(io)
  <2>1. Owed(io) = bus
    BY <1>3 DEF Owed
  <2> QED BY <1>1, <1>3, <2>1 DEF N
<1> QED BY <1>2, <1>3

\* The queue after the edge, element by element.
LEMMA BusFacts ==
  ASSUME TypeOK, NEW io \in IO, BusStep(io), io.ack => Owed(io) # <<>>
  PROVE  /\ Len(bus) \in Nat /\ Len(bus') \in Nat
         /\ DOMAIN bus' = 1 .. Len(bus')
         /\ Len(bus') = Len(bus) + N(Accepted(io)) - N(io.ack)
         /\ \A k \in 1 .. Len(bus') :
              bus'[k] = IF k + N(io.ack) <= Len(bus) THEN bus[k + N(io.ack)] ELSE MCmd(io)
<1> DEFINE q == Owed(io)
<1>1. q \in Seq(Request) /\ Len(q) = Len(bus) + N(Accepted(io))
  BY OwedFacts
<1>2. \A k \in 1 .. Len(q) : q[k] = IF k <= Len(bus) THEN bus[k] ELSE MCmd(io)
  BY OwedFacts
<1>3. bus' = IF io.ack THEN Tail(q) ELSE q
  BY DEF BusStep
<1>4. io.ack => q # <<>>
  OBVIOUS
<1>5. Len(bus) \in Nat /\ N(Accepted(io)) \in {0, 1}
  BY DEF TypeOK, N
<1> HIDE DEF q
<1>6. CASE io.ack
  <2>1. bus' = Tail(q) /\ q # <<>>
    BY <1>3, <1>4, <1>6
  <2>2. bus' \in Seq(Request) /\ Len(bus') = Len(q) - 1
    BY <1>1, <2>1
  <2>3. \A k \in 1 .. Len(bus') : bus'[k] = q[k + 1]
    BY <1>1, <2>1
  <2>4. N(io.ack) = 1
    BY <1>6 DEF N
  <2>5. DOMAIN bus' = 1 .. Len(bus') /\ Len(bus') \in Nat
    BY <2>2
  <2>6. \A k \in 1 .. Len(bus') : k + 1 \in 1 .. Len(q)
    BY <1>1, <1>5, <2>2, <2>5
  <2>7. \A k \in 1 .. Len(bus') :
          bus'[k] = IF k + N(io.ack) <= Len(bus) THEN bus[k + N(io.ack)] ELSE MCmd(io)
    BY <1>2, <2>3, <2>4, <2>6
  <2> QED BY <1>1, <1>5, <2>2, <2>4, <2>5, <2>7
<1>7. CASE ~io.ack
  <2>1. bus' = q /\ N(io.ack) = 0
    BY <1>3, <1>7 DEF N
  <2>2. DOMAIN bus' = 1 .. Len(bus') /\ Len(bus') \in Nat
    BY <1>1, <2>1
  <2>3. \A k \in 1 .. Len(bus') :
          bus'[k] = IF k + N(io.ack) <= Len(bus) THEN bus[k + N(io.ack)] ELSE MCmd(io)
    <3>1. \A k \in Nat : k + N(io.ack) = k
      BY <2>1
    <3> QED BY <1>2, <2>1, <2>2, <3>1
  <2> QED BY <1>1, <1>5, <2>1, <2>2, <2>3
<1> QED BY <1>6, <1>7

\* Two-bit counting: adding three on an answer takes one away.
LEMMA CountFacts ==
  ASSUME TypeOK, NEW io \in IO, CountWrites(io)
  PROVE  /\ (WriteAccept(io) <=> WriteResponse(io)) => writes_pending_q' = writes_pending_q
         /\ WriteAccept(io) /\ ~WriteResponse(io) /\ writes_pending_q # MaxWrites =>
              writes_pending_q' = writes_pending_q + 1
         /\ ~WriteAccept(io) /\ WriteResponse(io) /\ writes_pending_q # 0 =>
              writes_pending_q' = writes_pending_q - 1
<1> DEFINE wa == WriteAccept(io)
           wr == WriteResponse(io)
<1>1. writes_pending_q' = (writes_pending_q + (IF wa THEN 1 ELSE 0) + (IF wr THEN 3 ELSE 0)) % 4
  BY DEF CountWrites, MaxWrites
<1>2. writes_pending_q \in 0 .. 3
  BY DEF TypeOK, CacheTypeOK, MaxWrites
<1> HIDE DEF wa, wr
<1>3. /\ (wa <=> wr) => writes_pending_q' = writes_pending_q
      /\ wa /\ ~wr /\ writes_pending_q # 3 => writes_pending_q' = writes_pending_q + 1
      /\ ~wa /\ wr /\ writes_pending_q # 0 => writes_pending_q' = writes_pending_q - 1
  BY <1>1, <1>2
<1> QED BY <1>3 DEF wa, wr, MaxWrites

\* No read is owed before or after the edge.
LEMMA WritesOnly ==
  ASSUME TypeOK, BusInv, NEW io \in IO, BusStep(io), io.ack => Owed(io) # <<>>, CountWrites(io),
         ~pending_q, pending_q' = FALSE, Accepted(io) => PassActive /\ req.we
  PROVE  BusAccount'
<1> DEFINE acc == Accepted(io)
<1>1. /\ Len(bus) = writes_pending_q /\ writes_pending_q \in 0 .. 3
      /\ \A k \in 1 .. Len(bus) : bus[k].we = TRUE
  <2>1. bus \in Seq(Request)
    BY DEF TypeOK
  <2>2. DOMAIN bus = 1 .. Len(bus)
    BY <2>1
  <2>3. \A k \in DOMAIN bus : bus[k].we = TRUE
    BY DEF BusInv, BusAccount
  <2>4. Len(bus) = writes_pending_q + 0 /\ writes_pending_q \in 0 .. 3
    BY DEF BusInv, BusAccount, TypeOK, CacheTypeOK, MaxWrites
  <2> QED BY <2>2, <2>3, <2>4
<1>2. acc <=> WriteAccept(io)
  BY DEF WriteAccept
<1>3. acc => writes_pending_q # 3 \/ io.ack
  BY DEF Accepted, MStb, PassReady, MaxWrites
<1>4. acc => MCmd(io).we = TRUE
  BY CmdForm DEF TypeOK, CacheTypeOK, Request
<1>5. /\ Len(bus') = Len(bus) + N(acc) - N(io.ack) /\ Len(bus') \in Nat
      /\ DOMAIN bus' = 1 .. Len(bus')
      /\ \A k \in 1 .. Len(bus') :
           bus'[k] = IF k + N(io.ack) <= Len(bus) THEN bus[k + N(io.ack)] ELSE MCmd(io)
  BY BusFacts
<1>6. io.ack /\ ~acc => writes_pending_q # 0
  <2> SUFFICES ASSUME io.ack, ~acc PROVE Len(bus) # 0
    BY <1>1
  <2>1. N(acc) = 0 /\ N(io.ack) = 1
    BY DEF N
  <2>2. Len(bus') = Len(bus) + N(acc) - N(io.ack) /\ Len(bus') \in Nat /\ Len(bus) \in Nat
    BY BusFacts
  <2> HIDE DEF acc
  <2> QED BY <2>1, <2>2, SMT
<1>7. WriteResponse(io) <=> io.ack
  BY <1>2, <1>6 DEF WriteResponse
<1>8. writes_pending_q' = writes_pending_q + N(acc) - N(io.ack)
  <2>1. N(acc) = (IF acc THEN 1 ELSE 0) /\ N(io.ack) = (IF io.ack THEN 1 ELSE 0)
    BY DEF N
  <2>2. /\ (acc <=> io.ack) => writes_pending_q' = writes_pending_q
        /\ acc /\ ~io.ack /\ writes_pending_q # 3 => writes_pending_q' = writes_pending_q + 1
        /\ ~acc /\ io.ack /\ writes_pending_q # 0 => writes_pending_q' = writes_pending_q - 1
    BY <1>2, <1>7, CountFacts DEF MaxWrites
  <2> HIDE DEF acc
  <2> QED BY <1>1, <1>3, <1>6, <2>1, <2>2
<1>9. \A k \in DOMAIN bus' : bus'[k].we = TRUE
  <2> SUFFICES ASSUME NEW k \in 1 .. Len(bus') PROVE bus'[k].we = TRUE
    BY <1>5
  <2>1. N(io.ack) \in {0, 1} /\ N(acc) \in {0, 1} /\ (~acc => N(acc) = 0)
    BY DEF N
  <2>2. CASE k + N(io.ack) <= Len(bus)
    <3>1. k + N(io.ack) \in 1 .. Len(bus)
      BY <1>1, <2>1, <2>2
    <3> QED BY <1>1, <1>5, <2>2, <3>1
  <2>3. CASE ~(k + N(io.ack) <= Len(bus))
    <3>1. acc
      <4> HIDE DEF acc
      <4> QED BY <1>1, <1>5, <2>1, <2>3
    <3> QED BY <1>4, <1>5, <2>3, <3>1
  <2> QED BY <2>2, <2>3
<1>10. Len(bus') = writes_pending_q' + 0
  <2> HIDE DEF acc
  <2> QED BY <1>1, <1>5, <1>8
<1> QED BY <1>9, <1>10 DEF BusAccount

\* A refill reads if its request does.
LEMMA RefillCmdReads == ASSUME NEW r \in Request, NEW b PROVE RefillCmd(r, b).we = r.we
  BY DEF RefillCmd, Request

\* No write is owed before or after the edge, and the one read is counted.
LEMMA ReadsOnly ==
  ASSUME TypeOK, BusInv, NEW io \in IO, BusStep(io), io.ack => Owed(io) # <<>>, CountWrites(io),
         req.we = FALSE, writes_pending_q = 0, pending_q' \in BOOLEAN,
         N(pending_q') = N(pending_q) + N(Accepted(io)) - N(io.ack),
         pending_q' => MCmd([ack |-> FALSE])' = IF pending_q /\ ~io.ack THEN bus[1] ELSE MCmd(io)
  PROVE  BusAccount' /\ writes_pending_q' = 0
<1>1. writes_pending_q' = 0
  BY CountFacts DEF WriteAccept, WriteResponse
<1>2. /\ Len(bus') = Len(bus) + N(Accepted(io)) - N(io.ack)
      /\ Len(bus) \in Nat /\ Len(bus') \in Nat
  BY BusFacts
<1>3. DOMAIN bus' = 1 .. Len(bus')
  BY BusFacts
<1>4. \A k \in 1 .. Len(bus') :
        bus'[k] = IF k + N(io.ack) <= Len(bus) THEN bus[k + N(io.ack)] ELSE MCmd(io)
  BY BusFacts
<1>5. /\ N(pending_q) \in {0, 1} /\ N(Accepted(io)) \in {0, 1} /\ N(io.ack) \in {0, 1}
      /\ N(pending_q') \in {0, 1} /\ (pending_q <=> N(pending_q) = 1)
      /\ (pending_q' <=> N(pending_q') = 1) /\ (io.ack <=> N(io.ack) = 1)
  BY DEF N
<1>6. Len(bus) = N(pending_q)
  <2>1. Len(bus) = writes_pending_q + N(pending_q)
    BY DEF BusInv, BusAccount, N
  <2> QED BY <1>5, <2>1
<1>7. Len(bus') = N(pending_q')
  BY <1>2, <1>5, <1>6
<1>8. MCmd(io).we = FALSE
  BY CmdForm, RefillCmdReads DEF TypeOK, CacheTypeOK
<1>9. ASSUME pending_q'
      PROVE  /\ Len(bus') = 1
             /\ bus'[1] = IF pending_q /\ ~io.ack THEN bus[1] ELSE MCmd(io)
             /\ bus'[1].we = FALSE
  <2>1. Len(bus') = 1 /\ 1 \in 1 .. Len(bus')
    BY <1>5, <1>7, <1>9
  <2>2. bus'[1] = IF 1 + N(io.ack) <= Len(bus) THEN bus[1 + N(io.ack)] ELSE MCmd(io)
    BY <1>4, <2>1
  <2>3. CASE pending_q /\ ~io.ack
    <3>1. Len(bus) = 1 /\ N(io.ack) = 0
      BY <1>5, <1>6, <2>3
    <3>2. bus'[1] = bus[1]
      BY <2>2, <3>1
    <3>3. 1 \in DOMAIN bus
      BY <3>1 DEF TypeOK
    <3>4. bus[1].we = FALSE
      BY <2>3, <3>3 DEF BusInv, BusAccount
    <3> QED BY <2>1, <2>3, <3>2, <3>4
  <2>4. CASE ~(pending_q /\ ~io.ack)
    <3>1. ~(1 + N(io.ack) <= Len(bus))
      BY <1>5, <1>6, <2>4
    <3> QED BY <1>8, <2>1, <2>2, <2>4, <3>1
  <2> QED BY <2>3, <2>4
<1>10. \A k \in DOMAIN bus' : bus'[k].we = ~pending_q'
  <2> SUFFICES ASSUME NEW k \in 1 .. Len(bus') PROVE bus'[k].we = ~pending_q'
    BY <1>3
  <2>1. pending_q' /\ k = 1
    BY <1>5, <1>7
  <2> QED BY <1>9, <2>1
<1>11. Len(bus') = writes_pending_q' + (IF pending_q' THEN 1 ELSE 0)
  <2>1. N(pending_q') = IF pending_q' THEN 1 ELSE 0
    BY DEF N
  <2> QED BY <1>1, <1>7, <2>1
<1>12. pending_q' => bus'[1] = MCmd([ack |-> FALSE])'
  BY <1>9
<1> QED BY <1>1, <1>10, <1>11, <1>12 DEF BusAccount

\* An answer comes for a posted write, a pending read or the command of this edge.
LEMMA AckOwed ==
  ASSUME TypeOK, BusInv, NEW io \in IO, BusStep(io), io.ack => Owed(io) # <<>>, io.ack
  PROVE  writes_pending_q # 0 \/ pending_q \/ Accepted(io)
<1> SUFFICES ASSUME writes_pending_q = 0, ~pending_q, ~Accepted(io) PROVE FALSE
  OBVIOUS
<1>1. Len(bus) = 0
  BY DEF BusInv, BusAccount
<1>2. N(Accepted(io)) = 0 /\ N(io.ack) = 1
  BY DEF N
<1>3. Len(bus') = Len(bus) + N(Accepted(io)) - N(io.ack) /\ Len(bus') \in Nat
  BY BusFacts
<1> QED BY <1>1, <1>2, <1>3

\* pending_q as a count of reads.
LEMMA CountReads ==
  ASSUME NEW p, NEW q, NEW acc, NEW ack, acc => ~p \/ ack, ack => p \/ acc,
         q <=> IF ack THEN p /\ acc ELSE p \/ acc
  PROVE  N(q) = N(p) + N(acc) - N(ack)
<1>1. CASE ack /\ p
  BY <1>1 DEF N
<1>2. CASE ack /\ ~p
  BY <1>2 DEF N
<1>3. CASE ~ack /\ p
  BY <1>3 DEF N
<1>4. CASE ~ack /\ ~p
  BY <1>4 DEF N
<1> QED BY <1>1, <1>2, <1>3, <1>4

\* States that offer no command.
LEMMA QuietBus ==
  ASSUME TypeOK, BusInv, NEW io \in IO, BusStep(io), io.ack => Owed(io) # <<>>, Datapath(io),
         \/ ClearStep(io) \/ FreeStep(io) \/ LookupMissStep(io) \/ RelookStep(io) \/ UncachedStep(io)
  PROVE  BusInv'
<1>1. state_q \in {"CLEAR", "IDLE", "REPLY", "LOOKUP", "RELOOK", "UNCACHED"}
  BY DEF ClearStep, FreeStep, LookupMissStep, RelookStep, UncachedStep
<1>2. ~PassActive
  BY DEF ClearStep, FreeStep, LookupMissStep, RelookStep, UncachedStep, PassActive,
         LookupReadHit, LookupHit, BusInv, BusStates
<1>3. ~Accepted(io)
  BY <1>1, <1>2 DEF Accepted, MStb
<1>4. ~pending_q
  BY <1>1 DEF BusInv, BusStates
<1>5. pending_q' = FALSE
  BY <1>4 DEF ClearStep, FreeStep, LookupMissStep, RelookStep, UncachedStep, TypeOK, CacheTypeOK
<1>6. BusAccount'
  BY <1>3, <1>4, <1>5, WritesOnly DEF Datapath
<1>7. state_q' = "REFILL" => writes_pending_q' = 0 /\ ~req'.we
  <2> SUFFICES ASSUME state_q' = "REFILL" PROVE writes_pending_q' = 0 /\ ~req'.we
    OBVIOUS
  <2>1. LookupMissStep(io) /\ writes_pending_q = 0 /\ state_q = "LOOKUP"
    BY DEF ClearStep, FreeStep, LookupMissStep, RelookStep, UncachedStep, IdleOrRequest, RequestState
  <2>2. ~WriteAccept(io) /\ ~WriteResponse(io)
    BY <1>2, <2>1 DEF WriteAccept, WriteResponse
  <2>3. writes_pending_q' = 0
    BY <2>1, <2>2, CountFacts DEF Datapath
  <2>4. CStall(io)
    BY <2>1, <2>2 DEF CStall, LookupMissStep
  <2>5. req' = req
    BY <2>1, <2>4 DEF Datapath, Capture
  <2>6. ~req.we
    BY <1>2, <2>1 DEF PassActive, LookupMissStep
  <2> QED BY <2>3, <2>5, <2>6
<1>8. RegisterLookup /\ state_q' = "LOOKUP" => ~ReqLocal'
  <2> SUFFICES ASSUME RegisterLookup, state_q' = "LOOKUP" PROVE ~ReqLocal'
    OBVIOUS
  <2>1. RelookStep(io) \/ (LookupMissStep(io) /\ state_q = "LOOKUP")
    BY DEF ClearStep, FreeStep, LookupMissStep, RelookStep, UncachedStep, IdleOrRequest, RequestState
  <2>2. CStall(io) /\ state_q # "CLEAR" /\ ~ReqLocal
    BY <1>2, <2>1 DEF CStall, LookupMissStep, RelookStep, WriteAccept
  <2>3. req' = req
    BY <2>2 DEF Datapath, Capture
  <2> QED BY <2>2, <2>3 DEF ReqLocal
<1> QED BY <1>5, <1>6, <1>7, <1>8 DEF BusInv, BusStates

\* LOOKUP and PASS with a store or an uncached read.
LEMMA PassBus ==
  ASSUME TypeOK, BusInv, NEW io \in IO, BusStep(io), io.ack => Owed(io) # <<>>, Datapath(io),
         LookupPassStep(io) \/ PassWaitStep(io)
  PROVE  BusInv'
<1>1. PassActive /\ PassStep(io) /\ state_q \in {"LOOKUP", "PASS"}
  BY DEF LookupPassStep, PassWaitStep, PassActive
<1>2. CStall(io) <=> ~WriteAccept(io)
  BY DEF CStall, LookupPassStep, PassWaitStep
<1>3. state_q' # "REFILL" /\ (RegisterLookup => state_q' # "LOOKUP")
  BY <1>1 DEF PassStep, IdleOrRequest, RequestState
<1>4. MCmd(io) = req /\ MCmd([ack |-> FALSE]) = req
  BY <1>1 DEF MCmd
<1>5. CASE req.we
  <2>1. ~pending_q /\ pending_q' = FALSE
    BY <1>1, <1>5 DEF BusInv, BusStates, PassStep, TypeOK, CacheTypeOK
  <2>2. BusAccount'
    BY <1>1, <1>5, <2>1, WritesOnly DEF Datapath
  <2> QED BY <1>3, <2>1, <2>2 DEF BusInv, BusStates
<1>6. CASE ~req.we /\ writes_pending_q # 0
  <2>1. ~pending_q
    BY <1>6 DEF BusInv, BusAccount
  <2>2. ~Accepted(io) /\ ~PassResponse(io)
    BY <1>1, <1>6 DEF Accepted, MStb, PassReady, PassResponse
  <2>3. pending_q' = FALSE
    BY <1>1, <2>1, <2>2 DEF PassStep, TypeOK, CacheTypeOK
  <2>4. BusAccount'
    BY <2>1, <2>2, <2>3, WritesOnly DEF Datapath
  <2> QED BY <1>3, <2>3, <2>4 DEF BusInv, BusStates
<1>7. CASE ~req.we /\ writes_pending_q = 0
  <2>1. ~WriteAccept(io) /\ CStall(io) /\ ~CpuRequest(io)
    BY <1>2, <1>7 DEF WriteAccept, CpuRequest
  <2>2. req' = req
    BY <1>1, <2>1 DEF Datapath, Capture
  <2>3. Accepted(io) => ~pending_q
    BY <1>1 DEF Accepted, MStb
  <2>4. PassResponse(io) <=> io.ack
    BY <1>1, <1>7, AckOwed DEF PassResponse
  <2>5. pending_q' = (~io.ack /\ (pending_q \/ Accepted(io)))
    BY <1>1, <1>7, <2>1, <2>4 DEF PassStep
  <2>6. io.ack => pending_q \/ Accepted(io)
    BY <1>7, AckOwed
  <2>7. N(pending_q') = N(pending_q) + N(Accepted(io)) - N(io.ack)
    <3>1. pending_q' <=> IF io.ack THEN pending_q /\ Accepted(io) ELSE pending_q \/ Accepted(io)
      BY <2>3, <2>5
    <3> QED BY <2>3, <2>6, <3>1, CountReads
  <2>8. state_q' = IF io.ack THEN "UNCACHED" ELSE "PASS"
    BY <1>1, <2>1, <2>4 DEF PassStep
  <2>9. pending_q' => MCmd([ack |-> FALSE])' = IF pending_q /\ ~io.ack THEN bus[1] ELSE MCmd(io)
    <3> SUFFICES ASSUME pending_q'
                 PROVE  MCmd([ack |-> FALSE])' = IF pending_q /\ ~io.ack THEN bus[1] ELSE MCmd(io)
      OBVIOUS
    <3>1. PassActive'
      BY <2>5, <2>8 DEF PassActive
    <3>2. MCmd([ack |-> FALSE])' = req
      BY <2>2, <3>1 DEF MCmd
    <3>3. pending_q => bus[1] = req
      BY <1>4 DEF BusInv, BusAccount
    <3> QED BY <1>4, <3>2, <3>3
  <2>10. pending_q' \in BOOLEAN /\ req.we = FALSE
    BY <1>7, <2>5 DEF TypeOK, CacheTypeOK, Request
  <2>11. BusAccount'
    BY <1>7, <2>7, <2>9, <2>10, ReadsOnly DEF Datapath
  <2>12. pending_q' => state_q' = "PASS"
    BY <2>5, <2>8
  <2> QED BY <1>3, <1>7, <2>2, <2>11, <2>12 DEF BusInv, BusStates
<1> QED BY <1>5, <1>6, <1>7

\* Beats wrap inside the line.
LEMMA BeatMod ==
  /\ \A b \in Beat : (b + 0) % LineWords = b
  /\ \A b \in Beat : (b + 1) % LineWords \in Beat
<1>1. \A b \in Beat : b \in 0 .. LineWords - 1 /\ b + 0 = b /\ b + 1 \in Nat
  BY GeometryAssumption DEF Beat
<1>2. \A b \in Beat : b % LineWords = b
  BY <1>1, ModSmall, GeometryAssumption
<1>3. \A b \in Beat : (b + 1) % LineWords \in Beat
  BY <1>1, ModRange, GeometryAssumption DEF Beat
<1> QED BY <1>1, <1>2, <1>3

\* The command a refill offers on this edge, and on the next.
LEMMA RefillCmds ==
  ASSUME TypeOK, NEW io, state_q = "REFILL"
  PROVE  MCmd(io) = RefillCmd(req, IF pending_q /\ io.ack THEN (refill_beat_q + 1) % LineWords
                                   ELSE refill_beat_q)
<1>1. ~PassActive
  BY DEF PassActive
<1>2. refill_beat_q \in Beat
  BY DEF TypeOK, CacheTypeOK
<1>3. CASE pending_q /\ io.ack
  <2>1. N(pending_q /\ io.ack) = 1
    BY <1>3 DEF N
  <2> QED BY <1>1, <1>3, <2>1, CmdForm
<1>4. CASE ~(pending_q /\ io.ack)
  <2>1. N(pending_q /\ io.ack) = 0
    BY <1>4 DEF N
  <2> QED BY <1>1, <1>2, <1>4, <2>1, CmdForm, BeatMod
<1> QED BY <1>3, <1>4

\* The same after the edge, where answers have not been seen yet.
LEMMA RefillCmdsNext ==
  ASSUME TypeOK', NEW io, state_q' = "REFILL"
  PROVE  MCmd(io)' = RefillCmd(req', IF pending_q' /\ io.ack
                                     THEN (refill_beat_q' + 1) % LineWords ELSE refill_beat_q')
<1>1. ~PassActive'
  BY DEF PassActive
<1>2. refill_beat_q' \in Beat
  BY DEF TypeOK, CacheTypeOK
<1>3. MCmd(io)' = RefillCmd(req', (refill_beat_q' + IF pending_q' /\ io.ack THEN 1 ELSE 0) % LineWords)
  BY <1>1 DEF MCmd, RefillCmd
<1>4. CASE pending_q' /\ io.ack
  BY <1>3, <1>4
<1>5. CASE ~(pending_q' /\ io.ack)
  BY <1>2, <1>3, <1>5, BeatMod
<1> QED BY <1>4, <1>5

\* REFILL: commands and answers overlap by at most one.
LEMMA RefillBus ==
  ASSUME TypeOK, TypeOK', BusInv, NEW io \in IO, BusStep(io), io.ack => Owed(io) # <<>>,
         Datapath(io), RefillStep(io)
  PROVE  BusInv'
<1>1. state_q = "REFILL" /\ writes_pending_q = 0 /\ req.we = FALSE /\ ~PassActive
  BY DEF RefillStep, BusInv, BusStates, PassActive, TypeOK, CacheTypeOK, Request
<1>2. ~WriteAccept(io) /\ CStall(io)
  BY <1>1 DEF WriteAccept, CStall
<1>3. req' = req
  BY <1>1, <1>2 DEF Datapath, Capture
<1>4. Accepted(io) => ~pending_q \/ (io.ack /\ refill_beat_q # LastBeat)
  BY <1>1 DEF Accepted, MStb
<1>5. io.ack => pending_q \/ Accepted(io)
  BY <1>1, AckOwed
<1>6. RefillResponse(io) <=> io.ack
  BY <1>1, <1>5 DEF RefillResponse
<1>7. pending_q' <=> IF io.ack THEN pending_q /\ Accepted(io) ELSE pending_q \/ Accepted(io)
  BY <1>4, <1>6 DEF RefillStep, RefillLast
<1>8. N(pending_q') = N(pending_q) + N(Accepted(io)) - N(io.ack)
  BY <1>4, <1>5, <1>7, CountReads
<1>9. pending_q' => state_q' = "REFILL" /\ state_q' # "LOOKUP" /\ ~RefillLast(io)
  BY <1>1, <1>4, <1>6, <1>7 DEF RefillStep, RefillLast
<1>10. refill_beat_q' = IF io.ack /\ ~RefillLast(io) THEN (refill_beat_q + 1) % LineWords
                        ELSE refill_beat_q
  BY <1>6 DEF RefillStep, RefillLast
<1>11. pending_q' => MCmd([ack |-> FALSE])' = IF pending_q /\ ~io.ack THEN bus[1] ELSE MCmd(io)
  <2> SUFFICES ASSUME pending_q'
               PROVE  MCmd([ack |-> FALSE])' = IF pending_q /\ ~io.ack THEN bus[1] ELSE MCmd(io)
    OBVIOUS
  <2>1. MCmd([ack |-> FALSE])' = RefillCmd(req, refill_beat_q')
    BY <1>3, <1>9, RefillCmdsNext
  <2>2. CASE io.ack
    <3>1. pending_q /\ refill_beat_q' = (refill_beat_q + 1) % LineWords
      BY <1>7, <1>9, <1>10, <2>2
    <3> QED BY <1>1, <2>1, <2>2, <3>1, RefillCmds
  <2>3. CASE ~io.ack
    <3>1. refill_beat_q' = refill_beat_q
      BY <1>10, <2>3
    <3>2. MCmd(io) = RefillCmd(req, refill_beat_q)
      BY <1>1, <2>3, RefillCmds
    <3>3. pending_q => bus[1] = RefillCmd(req, refill_beat_q)
      BY <1>1, RefillCmds DEF BusInv, BusAccount
    <3> QED BY <2>1, <2>3, <3>1, <3>2, <3>3
  <2> QED BY <2>2, <2>3
<1>12. BusAccount' /\ writes_pending_q' = 0
  BY <1>1, <1>8, <1>11, ReadsOnly DEF Datapath, TypeOK, CacheTypeOK
<1>13. state_q' # "LOOKUP"
  BY <1>1 DEF RefillStep
<1> QED BY <1>1, <1>3, <1>9, <1>12, <1>13 DEF BusInv, BusStates

\* Every edge preserves the account,
LEMMA EdgeBus ==
  ASSUME TypeOK, TypeOK', BusInv, NEW io \in IO, Edge(io), BusStep(io), io.ack => Owed(io) # <<>>
  PROVE  BusInv'
  BY QuietBus, PassBus, RefillBus DEF Edge

LEMMA SystemBus ==
  ASSUME TypeOK, TypeOK', BusInv, NEW io \in IO, NEW ext \in Exts, SystemEdge(io, ext)
  PROVE  BusInv'
  BY EdgeBus DEF SystemEdge, PortEdge

\* a flush finds nothing owed,
LEMMA ResetBus == ASSUME TypeOK, BusInv, IdleReset PROVE BusInv'
<1>1. ~PassActive /\ state_q # "REFILL" /\ writes_pending_q = 0
  BY DEF IdleReset, MCyc
<1>2. ~pending_q
  BY <1>1 DEF BusInv, BusStates, PassActive
<1>3. bus \in Seq(Request) /\ Len(bus) = 0
  BY <1>1, <1>2 DEF BusInv, BusAccount, TypeOK
<1>4. bus' = <<>> /\ ~pending_q' /\ writes_pending_q' = 0 /\ state_q' = "CLEAR"
  BY <1>3 DEF IdleReset, ResetEdge
<1> QED BY <1>4 DEF BusInv, BusAccount, BusStates

LEMMA FlushResets == ASSUME Flush PROVE IdleReset
  BY DEF Flush, IdleReset

LEMMA FlushBus == ASSUME TypeOK, BusInv, Flush PROVE BusInv'
  BY ResetBus, FlushResets

\* and reset owes nothing.
LEMMA InitBus == ASSUME Init PROVE BusInv
<1>1. bus = <<>> /\ ~pending_q /\ writes_pending_q = 0 /\ state_q = "CLEAR"
  BY Zenon DEF Init, CacheInit
<1> QED BY <1>1 DEF BusInv, BusAccount, BusStates

\* Where nothing changes nothing is owed anew.
LEMMA BusIdle == ASSUME BusInv, UNCHANGED vars PROVE BusInv'
  BY DEF vars, cacheVars, envVars, BusInv, BusAccount, BusStates, MCmd, PassActive, ReqLocal,
         ReqCacheable

\* The inductive invariant: the account of owed answers, with the states in
\* which the cache may be owed any.
THEOREM BusInvariant == Spec => []BusInv
<1>1. Init => BusInv
  BY InitBus
<1>2. TypeOK /\ TypeOK' /\ BusInv /\ [Next]_vars => BusInv'
  <2> SUFFICES ASSUME TypeOK, TypeOK', BusInv, [Next]_vars PROVE BusInv'
    OBVIOUS
  <2>1. CASE \E stall, ack \in BOOLEAN : Clock(stall, ack)
    BY <2>1, StepInputs, SystemBus
  <2>2. CASE Flush
    BY <2>2, FlushBus
  <2>3. CASE UNCHANGED vars
    BY <2>3, BusIdle
  <2> QED BY <2>1, <2>2, <2>3 DEF Next
<1> QED BY <1>1, <1>2, TypeCorrect, PTL DEF Spec

\* BusAccount: what the cache counts as owed (writes_pending_q, pending_q) and what
\* the backing port owes it agree, so no answer is taken for another's.
THEOREM BusAccounted == Spec => []BusAccount
<1>1. BusInv => BusAccount
  BY DEF BusInv
<1> QED BY <1>1, BusInvariant, PTL

-----------------------------------------------------------------------------
(* The handshake. *)

\* A stalled store or uncached read moves to PASS and stays ready there,
\* since answers only take from the count of posted writes.
LEMMA PassHeld ==
  ASSUME TypeOK, BusInv, NEW io \in IO, Datapath(io),
         LookupPassStep(io) \/ PassWaitStep(io), MCyc, MStb(io), io.stall
  PROVE  \A k \in BOOLEAN : /\ MCyc' /\ MStb([ack |-> k])'
                            /\ MCmd([ack |-> k])' = MCmd(io)
<1>1. PassActive /\ PassStep(io) /\ state_q \in {"LOOKUP", "PASS"}
  BY DEF LookupPassStep, PassWaitStep, PassActive
<1>2. ~pending_q /\ PassReady(io) /\ ~Accepted(io) /\ ~WriteAccept(io)
  BY <1>1 DEF MStb, Accepted, WriteAccept
<1>3. CStall(io) /\ ~CpuRequest(io) /\ ~PassResponse(io)
  BY <1>2 DEF CStall, LookupPassStep, PassWaitStep, CpuRequest, PassResponse
<1>4. req' = req /\ state_q' = "PASS" /\ ~pending_q'
  BY <1>1, <1>2, <1>3 DEF Datapath, Capture, PassStep
<1>5. PassActive' /\ MCyc' /\ MCmd(io) = req
  BY <1>1, <1>4 DEF PassActive, MCyc, MCmd
<1>6. IF req.we THEN writes_pending_q' # MaxWrites ELSE writes_pending_q' = 0
  <2>1. writes_pending_q \in 0 .. 3
    BY DEF TypeOK, CacheTypeOK, MaxWrites
  <2>2. WriteResponse(io) <=> io.ack /\ writes_pending_q # 0
    BY <1>2 DEF WriteResponse
  <2>3. /\ ~WriteResponse(io) => writes_pending_q' = writes_pending_q
        /\ WriteResponse(io) => writes_pending_q' = writes_pending_q - 1
    BY <1>2, <2>2, CountFacts DEF Datapath
  <2> QED BY <1>2, <2>1, <2>2, <2>3 DEF PassReady, MaxWrites
<1>7. ASSUME NEW k \in BOOLEAN PROVE MStb([ack |-> k])' /\ MCmd([ack |-> k])' = req
  <2>1. PassReady([ack |-> k])'
    BY <1>4, <1>6 DEF PassReady
  <2> QED BY <1>4, <1>5, <2>1 DEF MStb, MCmd
<1> QED BY <1>5, <1>7

\* A stalled refill command keeps its beat: an answer on the same edge was
\* already counted in.
LEMMA RefillHeld ==
  ASSUME TypeOK, TypeOK', BusInv, NEW io \in IO, Datapath(io),
         RefillStep(io), MCyc, MStb(io), io.stall
  PROVE  \A k \in BOOLEAN : /\ MCyc' /\ MStb([ack |-> k])'
                            /\ MCmd([ack |-> k])' = MCmd(io)
<1>1. state_q = "REFILL" /\ ~PassActive /\ ~Accepted(io)
  BY DEF RefillStep, PassActive, Accepted
<1>2. CStall(io)
  BY <1>1 DEF CStall, WriteAccept
<1>3. req' = req
  BY <1>1, <1>2 DEF Datapath, Capture
<1>4. ~pending_q \/ (io.ack /\ refill_beat_q # LastBeat)
  BY <1>1 DEF MStb
<1>5. ~RefillLast(io)
  BY <1>1, <1>4 DEF RefillLast, RefillResponse
<1>6. state_q' = "REFILL" /\ ~pending_q'
  BY <1>1, <1>4, <1>5 DEF RefillStep, RefillResponse
<1>7. refill_beat_q' = IF pending_q /\ io.ack THEN (refill_beat_q + 1) % LineWords ELSE refill_beat_q
  BY <1>1, <1>5 DEF RefillStep, RefillResponse
<1>8. ~PassActive' /\ MCyc' /\ \A k \in BOOLEAN : MStb([ack |-> k])'
  BY <1>6 DEF PassActive, MCyc, MStb
<1>9. ASSUME NEW k \in BOOLEAN PROVE MCmd([ack |-> k])' = MCmd(io)
  <2>1. MCmd([ack |-> k])' = RefillCmd(req, refill_beat_q')
    BY <1>3, <1>6, RefillCmdsNext
  <2> QED BY <1>1, <1>7, <2>1, RefillCmds
<1> QED BY <1>8, <1>9

\* What was stalled on this edge is offered again on the next.
LEMMA SystemHeld ==
  ASSUME TypeOK, TypeOK', BusInv, NEW io \in IO, NEW ext \in Exts, SystemEdge(io, ext)
  PROVE  HeldStable'
<1> SUFFICES ASSUME held' # NoRequest PROVE HeldStable'
  BY DEF HeldStable
<1>1. MCyc /\ MStb(io) /\ io.stall /\ held' = MCmd(io)
  BY DEF SystemEdge, PortEdge
<1>2. PassActive \/ state_q = "REFILL"
  BY <1>1 DEF MStb
<1>3. LookupPassStep(io) \/ PassWaitStep(io) \/ RefillStep(io)
  BY <1>2 DEF SystemEdge, PortEdge, Edge, ClearStep, FreeStep, LookupMissStep, RelookStep, UncachedStep,
              PassActive, LookupReadHit, LookupHit, BusInv, BusStates
<1>4. \A k \in BOOLEAN : /\ MCyc' /\ MStb([ack |-> k])'
                         /\ MCmd([ack |-> k])' = MCmd(io)
  BY <1>1, <1>3, PassHeld, RefillHeld DEF SystemEdge, PortEdge, Edge
<1> QED BY <1>1, <1>4 DEF HeldStable

\* HeldStable, the rule of doc/HARDWARE.md's memory handshake: a stalled command
\* stays on the port unchanged, whatever the memory answers meanwhile.
THEOREM CommandsHeld == Spec => []HeldStable
<1>1. Init => HeldStable
  BY Zenon DEF Init, HeldStable
<1>2. TypeOK /\ TypeOK' /\ BusInv /\ HeldStable /\ [Next]_vars => HeldStable'
  <2> SUFFICES ASSUME TypeOK, TypeOK', BusInv, HeldStable, [Next]_vars PROVE HeldStable'
    OBVIOUS
  <2>1. CASE \E stall, ack \in BOOLEAN : Clock(stall, ack)
    BY <2>1, StepInputs, SystemHeld
  <2>2. CASE Flush
    BY <2>2 DEF Flush, HeldStable
  <2>3. CASE UNCHANGED vars
    BY <2>3 DEF vars, cacheVars, envVars, HeldStable, MCyc, MStb, MCmd, PassActive, PassReady,
                ReqLocal, ReqCacheable
  <2> QED BY <2>1, <2>2, <2>3 DEF Next
<1> QED BY <1>1, <1>2, BusInvariant, TypeCorrect, PTL DEF Spec

-----------------------------------------------------------------------------
(* Memory under a queue of stores. *)

\* Overlaid of any memory.
Over(m, q, a) ==
  [l \in Lanes |->
     LET ks == Covering(q, a, l)
     IN  IF ks = {} THEN m[a][l] ELSE q[CHOOSE k \in ks : \A j \in ks : j <= k].wdata[l]]

Covers(c, a, l) == c.we /\ c.addr = a /\ l \in c.sel

\* Memory n is m after command c, as far as one lane goes.
Lands(m, n, c, a, l) == n[a][l] = IF Covers(c, a, l) THEN c.wdata[l] ELSE m[a][l]

\* The youngest store of a queue that covers a lane.
Last(q, a, l, k) == k \in Covering(q, a, l) /\ \A j \in Covering(q, a, l) : j <= k

\* A bounded set of numbers has a greatest one.
LEMMA Greatest ==
  ASSUME NEW S \in SUBSET Nat, NEW bound \in Nat, \A x \in S : x <= bound, S # {}
  PROVE  \E k \in S : \A j \in S : j <= k
<1> DEFINE Gaps == {bound - x : x \in S}
<1>1. Gaps \subseteq Nat
  OBVIOUS
<1> Gaps # {}
  OBVIOUS
<1>2. PICK least \in Gaps : \A g \in Gaps : ~(<<g, least>> \in OpToRel(<, Nat))
  <2> HIDE DEF Gaps
  <2> QED BY <1>1, WFMin, NatLessThanWellFounded
<1>3. PICK k \in S : least = bound - k
  BY <1>2
<1>4. ASSUME NEW j \in S PROVE j <= k
  <2>1. bound - j \in Gaps /\ bound - j \in Nat /\ least \in Nat
    BY <1>1, <1>2
  <2>2. ~(bound - j < least)
    BY <1>2, <2>1 DEF OpToRel
  <2> QED BY <1>3, <2>1, <2>2
<1> QED BY <1>3, <1>4

\* The youngest store that covers a lane gives it its value,
LEMMA Youngest ==
  ASSUME NEW m, NEW q, NEW a, NEW l \in Lanes, NEW k, Last(q, a, l, k), q \in Seq(Request)
  PROVE  Over(m, q, a)[l] = q[k].wdata[l]
<1> DEFINE ks == Covering(q, a, l)
           top == CHOOSE i \in ks : \A j \in ks : j <= i
<1>1. k \in ks /\ \A j \in ks : j <= k
  BY DEF Last
<1>2. top \in ks /\ \A j \in ks : j <= top
  BY <1>1
<1>3. top = k
  <2>1. ks \subseteq Nat
    BY DEF Covering
  <2> QED BY <1>1, <1>2, <2>1
<1>4. Over(m, q, a)[l] = IF ks = {} THEN m[a][l] ELSE q[top].wdata[l]
  BY DEF Over
<1> QED BY <1>1, <1>3, <1>4

\* and there is one if any covers it;
LEMMA SomeYoungest ==
  ASSUME NEW q \in Seq(Request), NEW a, NEW l, Covering(q, a, l) # {}
  PROVE  \E k : Last(q, a, l, k)
<1>1. Covering(q, a, l) \in SUBSET Nat /\ Len(q) \in Nat
      /\ \A x \in Covering(q, a, l) : x <= Len(q)
  BY DEF Covering
<1> QED BY <1>1, Greatest DEF Last

\* otherwise memory does.
LEMMA Uncovered ==
  ASSUME NEW m, NEW q, NEW a, NEW l \in Lanes, Covering(q, a, l) = {}
  PROVE  Over(m, q, a)[l] = m[a][l]
  BY DEF Over

\* Overlaid is a function of the lanes.
LEMMA OverLanes ==
  ASSUME NEW m, NEW q, NEW a, NEW f, DOMAIN f = Lanes, f = [l \in Lanes |-> f[l]],
         \A l \in Lanes : Over(m, q, a)[l] = f[l]
  PROVE  Over(m, q, a) = f
<1>1. Over(m, q, a) = [l \in Lanes |-> Over(m, q, a)[l]]
  BY DEF Over
<1> QED BY <1>1

\* A command at the end of the queue comes last.
LEMMA OverAppend ==
  ASSUME NEW m, NEW q \in Seq(Request), NEW c \in Request, NEW a, NEW l \in Lanes
  PROVE  /\ Over(m, Append(q, c), a)[l] =
              IF Covers(c, a, l) THEN c.wdata[l] ELSE Over(m, q, a)[l]
         /\ Covering(Append(q, c), a, l) = {} <=> Covering(q, a, l) = {} /\ ~Covers(c, a, l)
<1> DEFINE p == Append(q, c)
           n == Len(q) + 1
<1>1. /\ p \in Seq(Request) /\ Len(q) \in Nat /\ DOMAIN p = 1 .. n /\ DOMAIN q = 1 .. Len(q)
      /\ p[n] = c /\ \A k \in 1 .. Len(q) : p[k] = q[k]
  OBVIOUS
<1> HIDE DEF p
<1>2. Covering(p, a, l) = Covering(q, a, l) \cup (IF Covers(c, a, l) THEN {n} ELSE {})
  BY <1>1 DEF Covering, Covers
<1>3. \A k \in Covering(q, a, l) : k \in 1 .. Len(q)
  BY <1>1 DEF Covering
<1>4. CASE Covers(c, a, l)
  <2>1. Last(p, a, l, n) /\ Covering(p, a, l) # {}
    BY <1>1, <1>2, <1>3, <1>4 DEF Last
  <2>2. Over(m, p, a)[l] = p[n].wdata[l]
    BY <1>1, <2>1, Youngest
  <2> QED BY <1>1, <1>4, <2>1, <2>2 DEF p
<1>5. CASE ~Covers(c, a, l) /\ Covering(q, a, l) # {}
  <2>1. PICK k : Last(q, a, l, k)
    BY <1>5, SomeYoungest
  <2>2. Covering(p, a, l) = Covering(q, a, l) /\ k \in 1 .. Len(q) /\ Last(p, a, l, k)
    BY <1>2, <1>3, <1>5, <2>1 DEF Last
  <2>3. Over(m, q, a)[l] = q[k].wdata[l]
    BY <2>1, Youngest
  <2>4. Over(m, p, a)[l] = p[k].wdata[l]
    BY <1>1, <2>1, <2>2, Youngest
  <2> QED BY <1>1, <1>3, <1>5, <2>1, <2>2, <2>3, <2>4 DEF p
<1>6. CASE ~Covers(c, a, l) /\ Covering(q, a, l) = {}
  <2>1. Covering(p, a, l) = {}
    BY <1>2, <1>6
  <2> QED BY <1>6, <2>1, Uncovered DEF p
<1> QED BY <1>4, <1>5, <1>6

LEMMA OverCovered ==
  ASSUME NEW m, NEW q \in Seq(Request), NEW c \in Request, NEW a, NEW l \in Lanes, Covers(c, a, l)
  PROVE  Over(m, Append(q, c), a)[l] = c.wdata[l]
  BY OverAppend

LEMMA OverUncovered ==
  ASSUME NEW m, NEW q \in Seq(Request), NEW c \in Request, NEW a, NEW l \in Lanes, ~Covers(c, a, l)
  PROVE  Over(m, Append(q, c), a)[l] = Over(m, q, a)[l]
  BY OverAppend

\* The head of the queue is seen where nothing younger covers it.
LEMMA TailFacts ==
  ASSUME NEW m, NEW n, NEW q \in Seq(Request), q # <<>>, NEW a, NEW l \in Lanes
  PROVE  /\ Covering(Tail(q), a, l) # {} => Over(n, Tail(q), a)[l] = Over(m, q, a)[l]
         /\ Covering(Tail(q), a, l) = {} /\ Covers(Head(q), a, l) =>
              Over(m, q, a)[l] = Head(q).wdata[l]
         /\ Covering(Tail(q), a, l) = {} /\ ~Covers(Head(q), a, l) =>
              Covering(q, a, l) = {}
<1> DEFINE p == Tail(q)
<1>1. /\ p \in Seq(Request) /\ Len(q) \in Nat \ {0} /\ DOMAIN q = 1 .. Len(q)
      /\ DOMAIN p = 1 .. Len(q) - 1 /\ \A k \in 1 .. Len(q) - 1 : p[k] = q[k + 1]
      /\ Head(q) = q[1]
  OBVIOUS
<1> HIDE DEF p
<1>2. \A k \in 1 .. Len(q) - 1 : k \in Covering(p, a, l) <=> k + 1 \in Covering(q, a, l)
  BY <1>1 DEF Covering
<1>3. 1 \in Covering(q, a, l) <=> Covers(Head(q), a, l)
  BY <1>1 DEF Covering, Covers
<1>4. Covering(p, a, l) \subseteq 1 .. Len(q) - 1 /\ Covering(q, a, l) \subseteq 1 .. Len(q)
  BY <1>1 DEF Covering
<1>5. CASE Covering(p, a, l) # {}
  <2>1. PICK k : Last(p, a, l, k)
    BY <1>1, <1>5, SomeYoungest
  <2>2. k + 1 \in Covering(q, a, l) /\ k \in 1 .. Len(q) - 1
    BY <1>2, <1>4, <2>1 DEF Last
  <2>3. ASSUME NEW j \in Covering(q, a, l) PROVE j <= k + 1
    <3>1. j \in 1 .. Len(q)
      BY <1>4
    <3>2. CASE j = 1
      BY <2>2, <3>2
    <3>3. CASE j # 1
      <4>1. j - 1 \in 1 .. Len(q) - 1 /\ (j - 1) + 1 = j
        BY <1>1, <3>1, <3>3
      <4>2. j - 1 \in Covering(p, a, l)
        BY <1>2, <4>1
      <4> QED BY <2>1, <2>2, <3>1, <4>2 DEF Last
    <3> QED BY <3>2, <3>3
  <2>4. Over(m, q, a)[l] = q[k + 1].wdata[l]
    <3>1. Last(q, a, l, k + 1)
      BY <2>2, <2>3 DEF Last
    <3> QED BY <3>1, Youngest
  <2>5. Over(n, p, a)[l] = p[k].wdata[l]
    BY <1>1, <2>1, Youngest
  <2>6. Over(n, p, a)[l] = Over(m, q, a)[l]
    BY <1>1, <2>2, <2>4, <2>5
  <2> QED BY <1>5, <2>6 DEF p
<1>6. CASE Covering(p, a, l) = {} /\ Covers(Head(q), a, l)
  <2>1. \A j \in Covering(q, a, l) : j = 1
    <3> SUFFICES ASSUME NEW j \in Covering(q, a, l), j # 1 PROVE FALSE
      OBVIOUS
    <3>1. j - 1 \in 1 .. Len(q) - 1 /\ (j - 1) + 1 = j
      BY <1>1, <1>4
    <3> QED BY <1>2, <1>6, <3>1
  <2>2. Over(m, q, a)[l] = q[1].wdata[l]
    <3>1. Last(q, a, l, 1)
      BY <1>3, <1>6, <2>1 DEF Last
    <3> QED BY <3>1, Youngest
  <2> QED BY <1>1, <1>6, <2>2 DEF p
<1>7. CASE Covering(p, a, l) = {} /\ ~Covers(Head(q), a, l)
  <2>1. Covering(q, a, l) = {}
    <3> SUFFICES ASSUME NEW j \in Covering(q, a, l) PROVE FALSE
      OBVIOUS
    <3>1. j # 1
      BY <1>3, <1>7
    <3>2. j - 1 \in 1 .. Len(q) - 1 /\ (j - 1) + 1 = j
      BY <1>1, <1>4, <3>1
    <3> QED BY <1>2, <1>7, <3>2
  <2> QED BY <1>7, <2>1 DEF p
<1> QED BY <1>5, <1>6, <1>7 DEF p

\* A command that leaves the head of the queue for memory changes nothing: what is
\* seen through the rest is what was seen through the whole.
LEMMA OverTail ==
  ASSUME NEW m, NEW n, NEW q \in Seq(Request), q # <<>>, NEW a, NEW l \in Lanes,
         Lands(m, n, Head(q), a, l)
  PROVE  Over(n, Tail(q), a)[l] = Over(m, q, a)[l]
<1>1. CASE Covering(Tail(q), a, l) # {}
  BY <1>1, TailFacts
<1>2. CASE Covering(Tail(q), a, l) = {} /\ Covers(Head(q), a, l)
  BY <1>2, TailFacts, Uncovered DEF Lands
<1>3. CASE Covering(Tail(q), a, l) = {} /\ ~Covers(Head(q), a, l)
  BY <1>3, TailFacts, Uncovered DEF Lands
<1> QED BY <1>1, <1>2, <1>3

\* Reads cover nothing.
LEMMA ReadsCoverNothing ==
  ASSUME NEW q \in Seq(Request), \A k \in DOMAIN q : q[k].we = FALSE, NEW a, NEW l
  PROVE  Covering(q, a, l) = {}
  BY DEF Covering

\* A lane seen through a queue depends on that lane of memory alone.
LEMMA OverSame ==
  ASSUME NEW m, NEW n, NEW q, NEW a, NEW l \in Lanes, m[a][l] = n[a][l]
  PROVE  Over(m, q, a)[l] = Over(n, q, a)[l]
  BY DEF Over

-----------------------------------------------------------------------------
(* The inductive invariant. *)

\* No invalidation can hit a load that waits in an unregistered look-up.
Settled == RegisterLookup \/ ReadOnly \/ ExtWrites = {}

\* An instruction cache is given no stores.
FetchOnly == ReadOnly => ~req.we /\ writes_pending_q = 0

\* Local requests never reach the bus.
OnlyCached == \A k \in DOMAIN bus : bus[k].addr.tag \notin Local

\* Whose request the registers hold.
Owner ==
  /\ state_q \in {"IDLE", "CLEAR"} => waiting = NoRequest
  /\ state_q = "LOOKUP" /\ ReqLocal => waiting = IF sram_ack_q THEN req ELSE NoRequest
  /\ state_q = "LOOKUP" /\ ~ReqLocal => waiting = req
  /\ state_q = "PASS" => waiting = IF req.we THEN NoRequest ELSE req
  /\ state_q \in {"RELOOK", "REFILL", "UNCACHED", "REPLY"} => waiting = req

\* What kind of request each state is for.
Kinds ==
  /\ state_q = "REFILL" => Cacheable
  /\ state_q = "PASS" => ~ReqLocal /\ (req.we \/ ~ReqCacheable)
  /\ state_q \in {"UNCACHED", "REPLY"} =>
       ~req.we /\ ~ReqCacheable /\ ~ReqLocal /\ writes_pending_q = 0
  /\ sram_ack_q => state_q \in {"LOOKUP", "RELOOK"}
  /\ state_q = "RELOOK" /\ ReqLocal => sram_ack_q

\* What the look-up has found is still so.
LookedUp ==
  /\ refill_relook_q => state_q = "RELOOK" /\ (tag_hit_q <=> Match)
  /\ state_q = "RELOOK" /\ RegisterLookup /\ ~refill_relook_q => (TagMatches <=> Match)
  /\ state_q = "LOOKUP" /\ ~ReqLocal => (Hit <=> Match)
  /\ state_q = "REFILL" => ~Match

\* The first n words of the line under refill are those of memory.
Filled(n) ==
  \A b \in Beat : b < n => data_mem[<<req.addr.index, b>>] = memory[[req.addr EXCEPT !.beat = b]]

\* A load in its look-up has read its line.
LookupData == state_q = "LOOKUP" /\ ~req.we => read_data_q = data_mem[Slot(req.addr)]

\* What the data registers and the line under work hold.
DataRead ==
  /\ LookupData
  /\ sram_ack_q /\ ReqLocal /\ ~req.we => sram_data_q = memory[req.addr]
  /\ state_q = "UNCACHED" => data_mem[Slot(req.addr)] = memory[req.addr]
  /\ state_q = "REPLY" => read_data_q = memory[req.addr]
  /\ state_q = "REFILL" /\ ~refill_invalidated_q => Filled(refill_beat_q)

\* The sweep leaves no valid line behind.
Swept == state_q = "CLEAR" => \A i \in Index : i < req.addr.index => ~tag_mem[i].valid

PortInv ==
  FetchOnly /\ OnlyCached /\ Owner /\ Kinds /\ LookedUp /\ DataRead /\ Swept /\ LinesCoherent

-----------------------------------------------------------------------------
(* How an edge moves the request registers. *)

\* The sweep goes on,
Sweeping(io) ==
  /\ state_q = "CLEAR" /\ state_q' = IF req.addr.index = Lines - 1 THEN "IDLE" ELSE "CLEAR"
  /\ ~CpuRequest(io)
  /\ req' = [req EXCEPT !.addr.index = IF @ = Lines - 1 THEN @ ELSE @ + 1]
\* the slot is free and takes what the port shows,
Opened(io) ==
  /\ state_q # "CLEAR" /\ ~CStall(io) /\ req' = io.c
  /\ state_q' = IF io.stb THEN RequestState(io) ELSE "IDLE"
  /\ \/ state_q \in {"IDLE", "REPLY"}
     \/ state_q \in {"LOOKUP", "RELOOK"} /\ ReqLocal
     \/ state_q = "LOOKUP" /\ ~ReqLocal /\ LookupReadHit(io)
     \/ WriteAccept(io)
\* or the request stays: a load misses,
Stayed(io) == CStall(io) /\ ~CpuRequest(io) /\ ~WriteAccept(io) /\ req' = req
Missed(io) ==
  /\ Stayed(io) /\ state_q = "LOOKUP" /\ Cacheable /\ ~LookupReadHit(io)
  /\ state_q' = IF writes_pending_q = 0 THEN "REFILL" ELSE "LOOKUP"
  /\ refill_beat_q' = IF writes_pending_q = 0 THEN 0 ELSE refill_beat_q
  /\ refill_invalidated_q' = IF writes_pending_q = 0 THEN InvReq(io) ELSE refill_invalidated_q
\* a store or a bypass waits for the bus,
Passing(io) ==
  /\ Stayed(io) /\ state_q \in {"LOOKUP", "PASS"} /\ PassActive
  /\ ~ReqLocal /\ (req.we \/ ~ReqCacheable)
  /\ state_q' = IF PassResponse(io) THEN "UNCACHED" ELSE "PASS"
\* a refill goes on, the RAMs are read again, or an uncached reply is brought in.
Refilling(io) ==
  /\ Stayed(io) /\ state_q = "REFILL" /\ Cacheable
  /\ state_q' = IF RefillLast(io) THEN "RELOOK" ELSE "REFILL"
  /\ refill_invalidated_q' = (refill_invalidated_q \/ InvReq(io))
  /\ refill_beat_q' = IF RefillResponse(io) /\ ~RefillLast(io)
                      THEN (refill_beat_q + 1) % LineWords ELSE refill_beat_q
Relooking(io) == Stayed(io) /\ state_q = "RELOOK" /\ state_q' = "LOOKUP"
BringingIn(io) ==
  /\ Stayed(io) /\ state_q = "UNCACHED"
  /\ state_q' = IF io.inv = {} \/ InvReq(io) THEN "REPLY" ELSE "UNCACHED"

\* One of the seven at every edge.
LEMMA Moves ==
  ASSUME TypeOK, BusInv, Kinds, NEW io \in IO, Edge(io)
  PROVE  \/ Sweeping(io) \/ Opened(io) \/ Missed(io) \/ Passing(io)
         \/ Refilling(io) \/ Relooking(io) \/ BringingIn(io)
<1>1. Capture(io) /\ req.we \in BOOLEAN /\ io.stb \in BOOLEAN
  BY DEF Edge, Datapath, TypeOK, CacheTypeOK, Request, IO
<1>2. CASE ClearStep(io)
  <2>1. state_q = "CLEAR" /\ ~CpuRequest(io)
    BY <1>2 DEF ClearStep, CpuRequest, CStall, WriteAccept, PassActive
  <2> QED BY <1>1, <1>2, <2>1 DEF ClearStep, Sweeping, Capture
<1>3. CASE FreeStep(io)
  <2>1. state_q # "CLEAR" /\ ~CStall(io)
    BY <1>3 DEF FreeStep, CStall
  <2> QED BY <1>1, <1>3, <2>1 DEF FreeStep, Opened, Capture, IdleOrRequest
<1>4. CASE LookupPassStep(io) \/ PassWaitStep(io)
  <2>1. /\ state_q \in {"LOOKUP", "PASS"} /\ PassActive /\ PassStep(io)
        /\ CStall(io) <=> ~WriteAccept(io)
    BY <1>4 DEF LookupPassStep, PassWaitStep, PassActive, CStall
  <2>2. ~ReqLocal /\ (req.we \/ ~ReqCacheable)
    BY <1>4, <2>1 DEF LookupPassStep, PassWaitStep, PassActive, Kinds
  <2>3. CASE WriteAccept(io)
    BY <1>1, <2>1, <2>3 DEF Opened, Capture, PassStep, IdleOrRequest
  <2>4. CASE ~WriteAccept(io)
    <3>1. Stayed(io)
      BY <1>1, <2>1, <2>4 DEF Stayed, Capture, CpuRequest
    <3> QED BY <2>1, <2>2, <2>4, <3>1 DEF Passing, PassStep
  <2> QED BY <2>3, <2>4
<1>5. CASE LookupMissStep(io)
  <2>1. /\ state_q = "LOOKUP" /\ ~ReqLocal /\ ~LookupReadHit(io) /\ ~PassActive /\ ~WriteAccept(io)
        /\ CStall(io)
    BY <1>5 DEF LookupMissStep, CStall, WriteAccept
  <2>2. Cacheable
    BY <2>1 DEF PassActive, Cacheable
  <2> QED BY <1>1, <1>5, <2>1, <2>2 DEF LookupMissStep, Missed, Stayed, Capture, CpuRequest
<1>6. CASE RefillStep(io)
  <2>1. state_q = "REFILL" /\ ~WriteAccept(io) /\ CStall(io) /\ Cacheable
    BY <1>6 DEF RefillStep, WriteAccept, PassActive, CStall, Kinds
  <2>2. Stayed(io)
    BY <1>1, <2>1 DEF Stayed, Capture, CpuRequest
  <2>3. RefillLast(io) => RefillResponse(io)
    BY DEF RefillLast
  <2> QED BY <1>6, <2>1, <2>2, <2>3 DEF RefillStep, Refilling
<1>7. CASE RelookStep(io)
  <2>1. state_q = "RELOOK" /\ ~WriteAccept(io) /\ CStall(io)
    BY <1>7 DEF RelookStep, WriteAccept, PassActive, CStall
  <2> QED BY <1>1, <1>7, <2>1 DEF RelookStep, Relooking, Stayed, Capture, CpuRequest
<1>8. CASE UncachedStep(io)
  <2>1. state_q = "UNCACHED" /\ ~WriteAccept(io) /\ CStall(io)
    BY <1>8 DEF UncachedStep, WriteAccept, PassActive, CStall
  <2> QED BY <1>1, <1>8, <2>1 DEF UncachedStep, BringingIn, Stayed, Capture, CpuRequest
<1> QED BY <1>2, <1>3, <1>4, <1>5, <1>6, <1>7, <1>8 DEF Edge

\* Without a store accepted and a posted one answered the count stays zero.
LEMMA NoWrites ==
  ASSUME TypeOK, NEW io \in IO, CountWrites(io), writes_pending_q = 0, ~WriteAccept(io)
  PROVE  writes_pending_q' = 0
  BY CountFacts DEF WriteResponse

\* Only stores and loads outside the SRAM are accepted by the bus, a store only when
\* it is passed on.
LEMMA AcceptedCommand ==
  ASSUME TypeOK, BusInv, Kinds, NEW io \in IO, Accepted(io)
  PROVE  /\ MCmd(io) \in Request /\ MCmd(io).addr.tag = req.addr.tag /\ ~ReqLocal
         /\ MCmd(io).we = req.we /\ (WriteAccept(io) <=> req.we)
         /\ PassActive \/ (state_q = "REFILL" /\ ~req.we)
         /\ PassActive => MCmd(io) = req /\ state_q \in {"LOOKUP", "PASS"}
         /\ state_q = "REFILL" => Retained = <<>>
<1>1. req \in Request /\ req.addr \in Addr
  BY DEF TypeOK, CacheTypeOK, Request
<1>2. PassActive \/ state_q = "REFILL"
  BY DEF Accepted, MStb
<1>3. MCmd(io) \in Request
  BY MCmdType DEF TypeOK
<1>4. CASE PassActive
  <2>1. MCmd(io) = req /\ state_q \in {"LOOKUP", "PASS"} /\ ~ReqLocal
    BY <1>4 DEF MCmd, PassActive, Kinds, BusInv, BusStates
  <2> QED BY <1>3, <1>4, <2>1 DEF WriteAccept
<1>5. CASE ~PassActive
  <2>1. state_q = "REFILL" /\ ~ReqLocal /\ ~req.we /\ ~WriteAccept(io) /\ Retained = <<>>
    BY <1>2, <1>5 DEF Kinds, Cacheable, WriteAccept, Retained
  <2> DEFINE b == (refill_beat_q + N(pending_q /\ io.ack)) % LineWords
  <2>2. MCmd(io) = RefillCmd(req, b)
    BY <1>5, CmdForm
  <2>3. RefillCmd(req, b).we = req.we /\ RefillCmd(req, b).addr.tag = req.addr.tag
    <3> HIDE DEF b
    <3> QED BY <1>1 DEF RefillCmd, Request, Addr
  <2> QED BY <1>3, <1>5, <2>1, <2>2, <2>3
<1> QED BY <1>4, <1>5

\* The control part of the invariant.
Control == FetchOnly /\ OnlyCached /\ Owner /\ Kinds

\* The SRAM does its step, or there is none.
SramKept(io) == SramStep(io) \/ (Local = {} /\ ~sram_ack_q')
\* The port takes a request and gives an answer.
Waits(io) ==
  waiting' = IF CpuRequest(io) THEN io.c ELSE IF CpuAck(io) THEN NoRequest ELSE waiting

LEMMA OwnerKept ==
  ASSUME TypeOK, BusInv, Control, NEW io \in IO, Edge(io), Waits(io), SramKept(io)
  PROVE  Owner'
<1> USE DEF CpuAck, CAck, SramAck, StorePosted
<1>1. waiting' = IF CpuRequest(io) THEN io.c ELSE IF CpuAck(io) THEN NoRequest ELSE waiting
  BY DEF Waits
<1>2. /\ Local = {} \/ sram_ack_q' = CpuRequest(io)
      /\ CpuRequest(io) \in BOOLEAN /\ io.stb \in BOOLEAN
  BY DEF SramKept, SramStep, CpuRequest, IO
<1>3. Owner /\ Kinds
  BY DEF Control
<1>4. CASE Sweeping(io)
  <2>1. waiting' = NoRequest /\ state_q' \in {"IDLE", "CLEAR"}
    BY <1>1, <1>3, <1>4 DEF Sweeping, Owner, Kinds
  <2> QED BY <2>1 DEF Owner
<1>5. CASE Opened(io) /\ io.stb
  <2>1. CpuRequest(io) /\ state_q' \in {"LOOKUP", "RELOOK"} /\ req' = io.c
    BY <1>5 DEF Opened, CpuRequest, RequestState
  <2> QED BY <1>1, <1>2, <2>1 DEF Owner, ReqLocal
<1>6. CASE Opened(io) /\ ~io.stb
  <2>1. ~CpuRequest(io) /\ state_q' = "IDLE"
    BY <1>6 DEF Opened, CpuRequest
  <2>2. CpuAck(io) \/ waiting = NoRequest
    BY <1>3, <1>6 DEF Opened, Owner, Kinds, WriteAccept, PassActive
  <2> QED BY <1>1, <2>1, <2>2 DEF Owner
<1>7. CASE Missed(io)
  <2>1. ~CpuAck(io) /\ ~CpuRequest(io)
    BY <1>7 DEF Missed, Stayed, Cacheable
  <2> QED BY <1>1, <1>3, <1>7, <2>1 DEF Missed, Stayed, Owner, Cacheable, ReqLocal
<1>8. CASE Passing(io)
  <2>1. CpuAck(io) <=> state_q = "LOOKUP" /\ req.we
    BY <1>8 DEF Passing, LookupReadHit, LookupHit
  <2>2. PassResponse(io) => ~req.we
    BY DEF PassResponse
  <2> QED BY <1>1, <1>3, <1>8, <2>1, <2>2 DEF Passing, Stayed, Owner
<1>9. CASE Refilling(io)
  BY <1>1, <1>3, <1>9 DEF Refilling, Stayed, Owner, Cacheable
<1>10. CASE Relooking(io)
  <2>1. CpuAck(io) <=> ReqLocal
    BY <1>3, <1>10 DEF Relooking, Kinds
  <2> QED BY <1>1, <1>2, <1>3, <1>10, <2>1 DEF Relooking, Stayed, Owner, ReqLocal
<1>11. CASE BringingIn(io)
  BY <1>1, <1>3, <1>11 DEF BringingIn, Stayed, Owner, Kinds
<1> QED BY <1>3, <1>4, <1>5, <1>6, <1>7, <1>8, <1>9, <1>10, <1>11, Moves

LEMMA KindsKept ==
  ASSUME TypeOK, BusInv, Control, NEW io \in IO, Edge(io), SramKept(io)
  PROVE  Kinds'
<1> USE DEF ReqLocal, ReqCacheable, Cacheable
<1>1. /\ sram_ack_q' = CpuRequest(io) \/ (Local = {} /\ ~sram_ack_q')
      /\ CountWrites(io) /\ Kinds
  BY DEF SramKept, SramStep, Edge, Datapath, Control
<1>2. CASE Sweeping(io)
  BY <1>1, <1>2 DEF Sweeping, Kinds
<1>3. CASE Opened(io)
  <2>1. /\ CpuRequest(io) => io.stb
        /\ state_q' \in {"LOOKUP", "RELOOK", "IDLE"}
        /\ state_q' \in {"LOOKUP", "RELOOK"} => CpuRequest(io)
        /\ CpuRequest(io) => state_q' \in {"LOOKUP", "RELOOK"}
    BY <1>3 DEF Opened, CpuRequest, RequestState
  <2> QED BY <1>1, <2>1 DEF Kinds
<1>4. CASE Missed(io)
  BY <1>1, <1>4 DEF Missed, Stayed, Kinds
<1>5. CASE Passing(io)
  <2>1. PassResponse(io) => ~req.we /\ writes_pending_q = 0
    BY DEF PassResponse
  <2>2. PassResponse(io) => writes_pending_q' = 0
    BY <1>1, <1>5, <2>1, NoWrites DEF Passing, Stayed
  <2> QED BY <1>1, <1>5, <2>1, <2>2 DEF Passing, Stayed, Kinds
<1>6. CASE Refilling(io)
  BY <1>1, <1>6 DEF Refilling, Stayed, Kinds
<1>7. CASE Relooking(io)
  BY <1>1, <1>7 DEF Relooking, Stayed, Kinds
<1>8. CASE BringingIn(io)
  <2>1. writes_pending_q' = 0
    BY <1>1, <1>8, NoWrites DEF BringingIn, Stayed, Kinds
  <2> QED BY <1>1, <1>8, <2>1 DEF BringingIn, Stayed, Kinds
<1> QED BY <1>1, <1>2, <1>3, <1>4, <1>5, <1>6, <1>7, <1>8, Moves

LEMMA FetchKept ==
  ASSUME TypeOK, BusInv, Control, NEW io \in IO, Edge(io)
  PROVE  FetchOnly'
<1> SUFFICES ASSUME ReadOnly PROVE ~req'.we /\ writes_pending_q' = 0
  BY DEF FetchOnly
<1>1. ~req.we /\ writes_pending_q = 0 /\ CountWrites(io) /\ Capture(io) /\ ~io.c.we
  BY RequestAssumption DEF Control, FetchOnly, Edge, Datapath, IO
<1>2. writes_pending_q' = 0
  BY <1>1, NoWrites DEF WriteAccept
<1>3. ~req'.we
  <2> DEFINE i == IF req.addr.index = Lines - 1 THEN req.addr.index ELSE req.addr.index + 1
  <2>1. req' = IF state_q = "CLEAR" THEN [req EXCEPT !.addr.index = i]
               ELSE IF CStall(io) THEN req ELSE io.c
    BY <1>1 DEF Capture
  <2> HIDE DEF i
  <2>2. [req EXCEPT !.addr.index = i].we = req.we
    BY DEF TypeOK, CacheTypeOK, Request
  <2> QED BY <1>1, <2>1, <2>2
<1> QED BY <1>2, <1>3

LEMMA OwedCached ==
  ASSUME TypeOK, BusInv, Control, NEW io \in IO
  PROVE  \A k \in 1 .. Len(Owed(io)) : Owed(io)[k].addr.tag \notin Local
<1>1. bus \in Seq(Request) /\ Len(bus) \in Nat /\ DOMAIN bus = 1 .. Len(bus)
  BY DEF TypeOK
<1>2. Len(Owed(io)) = Len(bus) + N(Accepted(io)) /\ N(Accepted(io)) \in {0, 1}
  BY OwedFacts DEF N
<1>3. SUFFICES ASSUME NEW k \in 1 .. Len(Owed(io)) PROVE Owed(io)[k].addr.tag \notin Local
  OBVIOUS
<1>4. Owed(io)[k] = IF k <= Len(bus) THEN bus[k] ELSE MCmd(io)
  BY OwedFacts
<1>5. CASE k <= Len(bus)
  <2>1. k \in DOMAIN bus
    BY <1>1, <1>5
  <2> QED BY <1>4, <1>5, <2>1 DEF Control, OnlyCached
<1>6. CASE ~(k <= Len(bus))
  <2>1. Accepted(io)
    BY <1>1, <1>2, <1>6 DEF N
  <2> QED BY <1>4, <1>6, <2>1, AcceptedCommand DEF Control, ReqLocal
<1> QED BY <1>5, <1>6

LEMMA CachedKept ==
  ASSUME TypeOK, BusInv, Control, NEW io \in IO, BusStep(io), io.ack => Owed(io) # <<>>
  PROVE  OnlyCached'
<1> DEFINE q == Owed(io)
<1>1. q \in Seq(Request) /\ \A k \in 1 .. Len(q) : q[k].addr.tag \notin Local
  BY OwedFacts, OwedCached
<1>2. bus' = IF io.ack THEN Tail(q) ELSE q
  BY DEF BusStep
<1>3. io.ack => q # <<>>
  OBVIOUS
<1> HIDE DEF q
<1>4. CASE io.ack
  <2>1. bus' \in Seq(Request) /\ Len(bus') = Len(q) - 1 /\ \A k \in 1 .. Len(bus') : bus'[k] = q[k + 1]
    BY <1>1, <1>2, <1>3, <1>4
  <2>2. \A k \in 1 .. Len(bus') : k + 1 \in 1 .. Len(q)
    BY <1>1, <2>1
  <2>3. DOMAIN bus' = 1 .. Len(bus')
    BY <2>1
  <2> QED BY <1>1, <2>1, <2>2, <2>3 DEF OnlyCached
<1>5. CASE ~io.ack
  <2>1. bus' = q /\ DOMAIN q = 1 .. Len(q)
    BY <1>1, <1>2, <1>5
  <2> QED BY <1>1, <2>1 DEF OnlyCached
<1> QED BY <1>4, <1>5

\* Every edge keeps the control part, whatever becomes of memory.
LEMMA ControlStep ==
  ASSUME TypeOK, BusInv, Control, NEW io \in IO, Edge(io), BusStep(io), io.ack => Owed(io) # <<>>,
         Waits(io), SramKept(io)
  PROVE  Control'
  BY OwnerKept, KindsKept, FetchKept, CachedKept DEF Control

\* An edge of the port, with its SRAM or without.
CoreEdge(io, ext) == PortEdge(io, ext) /\ SramKept(io)

LEMMA ControlKept ==
  ASSUME TypeOK, BusInv, Control, NEW io \in IO, NEW ext \in Exts, CoreEdge(io, ext)
  PROVE  Control'
  BY ControlStep DEF CoreEdge, PortEdge, CpuStep, Waits

LEMMA SystemCore ==
  ASSUME NEW io, NEW ext, SystemEdge(io, ext)
  PROVE  CoreEdge(io, ext)
  BY DEF SystemEdge, CoreEdge, SramKept

-----------------------------------------------------------------------------
(* The tags. *)

\* At most one line is invalidated at an edge, and none if there is no other master.
Wired(io, ext) ==
  /\ io.inv = {x.addr.index : x \in ext}
  /\ io.ack /\ ~Head(Owed(io)).we => io.rdata = memory[Head(Owed(io)).addr]

LEMMA OneInvalidated ==
  ASSUME NEW ext \in Exts, NEW io, Wired(io, ext)
  PROVE  /\ \A i, j \in io.inv : i = j
         /\ ExtWrites = {} => io.inv = {}
         /\ \A x \in ext : x.addr.index \in io.inv /\ x \in ExtWrites
         /\ ext = {} \/ \E x \in ExtWrites : ext = {x}
  BY DEF Exts, Wired

\* What one edge does to a tag, the sweep apart.
LEMMA TagFacts ==
  ASSUME TypeOK, NEW io \in IO, \A i, j \in io.inv : i = j, TagWrite(io), state_q # "CLEAR",
         NEW i \in Index
  PROVE  /\ i \in io.inv => tag_mem'[i].valid = FALSE
         /\ i \notin io.inv /\ ~RefillLast(io) /\ (state_q = "UNCACHED" => i # req.addr.index) =>
              tag_mem'[i] = tag_mem[i]
         /\ state_q = "UNCACHED" /\ i = req.addr.index /\ io.inv = {} => tag_mem'[i].valid = FALSE
         /\ RefillLast(io) /\ i \notin io.inv =>
              tag_mem'[i] = IF i = req.addr.index /\ ~refill_invalidated_q /\ io.inv = {}
                            THEN [valid |-> TRUE, tag |-> req.addr.tag] ELSE tag_mem[i]
<1> DEFINE w == [valid |-> state_q \notin {"CLEAR", "UNCACHED"} /\ io.inv = {}, tag |-> req.addr.tag]
<1>1. tag_mem' = IF ~TagWriteEnable(io) THEN tag_mem ELSE [tag_mem EXCEPT ![TagWriteIndex(io)] = w]
  BY DEF TagWrite
<1>2. tag_mem \in [Index -> TagWord] /\ req.addr.index \in Index /\ io.inv \subseteq Index
  BY DEF TypeOK, CacheTypeOK, Request, Addr, IO
<1>3. w.valid = (state_q # "UNCACHED" /\ io.inv = {}) /\ w.tag = req.addr.tag
  OBVIOUS
<1> HIDE DEF w
<1>4. tag_mem'[i] = IF TagWriteEnable(io) /\ TagWriteIndex(io) = i THEN w ELSE tag_mem[i]
  BY <1>1, <1>2
<1>5. RefillLast(io) => state_q = "REFILL"
  BY DEF RefillLast, RefillResponse
<1>6. CASE io.inv # {}
  <2>1. TagWriteEnable(io) /\ TagWriteIndex(io) \in io.inv /\ w.valid = FALSE
    BY <1>3, <1>6 DEF TagWriteEnable, TagWriteIndex
  <2> QED BY <1>4, <1>6, <2>1
<1>7. CASE io.inv = {}
  <2>1. /\ TagWriteIndex(io) = req.addr.index
        /\ TagWriteEnable(io) <=> state_q = "UNCACHED" \/ (RefillLast(io) /\ ~refill_invalidated_q)
    BY <1>7 DEF TagWriteEnable, TagWriteIndex
  <2>2. w = [valid |-> state_q # "UNCACHED", tag |-> req.addr.tag]
    BY <1>7 DEF w
  <2> QED BY <1>3, <1>4, <1>5, <1>7, <2>1, <2>2
<1> QED BY <1>6, <1>7

\* A tag word matches if and only if it is the valid word of that tag.
LEMMA WordMatches ==
  ASSUME NEW w \in TagWord, NEW t
  PROVE  w.valid /\ w.tag = t <=> w = [valid |-> TRUE, tag |-> t]
<1>1. w = [valid |-> w.valid, tag |-> w.tag] /\ w.valid \in BOOLEAN
  BY DEF TagWord
<1> QED BY <1>1

\* The tag read ahead of the look-up is that of the line as it is then.
LEMMA TagFresh ==
  ASSUME TypeOK, TypeOK', NEW io \in IO, \A i, j \in io.inv : i = j, TagWrite(io), TagRead(io),
         state_q \notin {"CLEAR", "UNCACHED"}, ~RefillLast(io),
         RegisterLookup \/ CpuRequest(io) \/ Relook,
         req'.addr.index = IF ~RegisterLookup /\ Relook THEN req.addr.index ELSE io.c.addr.index
  PROVE  TagMatches' <=> Match'
<1> DEFINE k == req'.addr.index
<1>1. k \in Index /\ tag_mem' \in [Index -> TagWord] /\ tag_mem'[k] \in TagWord
  BY DEF TypeOK, CacheTypeOK, Request, Addr
<1>2. /\ tag_invalidated_q' = (k \in io.inv)
      /\ \/ TagWriteEnable(io) /\ TagWriteIndex(io) = k
         \/ ~(TagWriteEnable(io) /\ TagWriteIndex(io) = k) /\ tag_word' = tag_mem[k]
  BY DEF TagRead
<1>3. Match' <=> tag_mem'[k].valid /\ tag_mem'[k].tag = req'.addr.tag
  <2> DEFINE w == tag_mem'[k]
             t == req'.addr.tag
  <2>1. Match' <=> w = [valid |-> TRUE, tag |-> t]
    BY DEF Match
  <2>2. w \in TagWord
    BY <1>1
  <2> HIDE DEF w, t
  <2>3. w.valid /\ w.tag = t <=> w = [valid |-> TRUE, tag |-> t]
    BY <2>2, WordMatches
  <2> QED BY <2>1, <2>3 DEF w, t
<1>4. CASE k \in io.inv
  <2>1. tag_mem'[k].valid = FALSE
    BY <1>1, <1>4, TagFacts
  <2> QED BY <1>2, <1>3, <1>4, <2>1 DEF TagMatches
<1>5. CASE k \notin io.inv
  <2>1. tag_mem'[k] = tag_mem[k]
    BY <1>1, <1>5, TagFacts
  <2>2. ~(TagWriteEnable(io) /\ TagWriteIndex(io) = k)
    BY <1>5 DEF TagWriteEnable, TagWriteIndex
  <2>3. tag_word' = tag_mem'[k] /\ ~tag_invalidated_q'
    BY <1>2, <1>5, <2>1, <2>2
  <2> QED BY <1>3, <2>3 DEF TagMatches
<1> QED BY <1>4, <1>5

\* A line matches after an edge that does not complete a refill if it did before
\* and was not invalidated.
LEMMA MatchKept ==
  ASSUME TypeOK, NEW io \in IO, \A i, j \in io.inv : i = j, TagWrite(io),
         state_q \notin {"CLEAR", "UNCACHED"}, ~RefillLast(io), req' = req
  PROVE  Match' <=> Match /\ ~InvReq(io)
<1> DEFINE k == req.addr.index
<1>1. k \in Index
  BY DEF TypeOK, CacheTypeOK, Request, Addr
<1>2. CASE k \in io.inv
  <2>1. tag_mem'[k].valid = FALSE
    BY <1>1, <1>2, TagFacts
  <2> QED BY <1>2, <2>1 DEF Match, InvReq
<1>3. CASE k \notin io.inv
  <2>1. tag_mem'[k] = tag_mem[k]
    BY <1>1, <1>3, TagFacts
  <2> QED BY <1>3, <2>1 DEF Match, InvReq
<1> QED BY <1>2, <1>3

LEMMA LookedUpKept ==
  ASSUME Settled, TypeOK, TypeOK', BusInv, Control, LookedUp, NEW io \in IO, NEW ext \in Exts,
         Wired(io, ext), Edge(io)
  PROVE  LookedUp'
<1>1. /\ \A i, j \in io.inv : i = j
      /\ ExtWrites = {} => io.inv = {}
  BY OneInvalidated
<1>2. TagWrite(io) /\ TagRead(io) /\ TagHit(io) /\ Kinds
  BY DEF Edge, Datapath, Control
<1>3. RefillLast(io) => state_q = "REFILL"
  BY DEF RefillLast, RefillResponse
<1>4. refill_relook_q' <=> RefillLast(io)
  BY <1>2 DEF TagHit, LookedUp, Relook
<1>5. CASE Sweeping(io)
  BY <1>3, <1>4, <1>5 DEF Sweeping, LookedUp
<1>6. CASE Opened(io)
  <2>1. state_q \in {"IDLE", "REPLY", "LOOKUP", "RELOOK", "PASS"} /\ ~RefillLast(io)
    BY <1>3, <1>6 DEF Opened, WriteAccept, PassActive
  <2>2. CASE ~io.stb
    BY <1>4, <1>6, <2>1, <2>2 DEF Opened, LookedUp
  <2>3. CASE io.stb
    <3>1. CpuRequest(io) /\ state_q' \in {"LOOKUP", "RELOOK"} /\ (RegisterLookup => state_q' = "RELOOK")
      BY <1>6, <2>3 DEF Opened, CpuRequest, RequestState
    <3>2. ~(~RegisterLookup /\ Relook)
      BY <1>6, <2>1 DEF Opened, CStall, Relook, WriteAccept, PassActive
    <3>3. req'.addr.index = io.c.addr.index
      BY <1>6 DEF Opened
    <3>4. TagMatches' <=> Match'
      BY <1>1, <1>2, <2>1, <3>1, <3>2, <3>3, TagFresh
    <3> QED BY <1>4, <2>1, <3>1, <3>4 DEF LookedUp, Hit
  <2> QED BY <2>2, <2>3
<1>7. CASE Missed(io)
  <2>1. req' = req /\ state_q = "LOOKUP" /\ ~RefillLast(io)
    BY <1>3, <1>7 DEF Missed, Stayed
  <2>2. Match' <=> Match /\ ~InvReq(io)
    BY <1>1, <1>2, <2>1, MatchKept
  <2>3. ~ReqLocal /\ (Hit <=> Match) /\ (~Hit \/ InvReq(io))
    BY <1>7, <2>1 DEF Missed, LookedUp, Cacheable, LookupReadHit, LookupHit, Hit
  <2>4. CASE writes_pending_q = 0
    BY <1>4, <1>7, <2>1, <2>2, <2>3, <2>4 DEF Missed, LookedUp
  <2>5. CASE writes_pending_q # 0 /\ RegisterLookup
    <3>1. tag_hit_q' = IF InvReq(io) THEN FALSE ELSE tag_hit_q
      BY <1>2, <2>1 DEF TagHit, Relook
    <3> QED BY <1>4, <1>7, <2>1, <2>2, <2>3, <2>5, <3>1 DEF Missed, LookedUp, Hit
  <2>6. CASE writes_pending_q # 0 /\ ~RegisterLookup
    <3>1. io.inv = {}
      BY <1>1, <2>6 DEF Settled, Control, FetchOnly
    <3>2. tag_word' = tag_word /\ tag_invalidated_q' = tag_invalidated_q
      BY <1>2, <1>7, <2>1, <2>6 DEF TagRead, Relook, Missed, Stayed
    <3>3. TagMatches' <=> TagMatches
      BY <2>1, <3>2 DEF TagMatches
    <3> QED BY <1>4, <1>7, <2>1, <2>2, <2>3, <2>6, <3>1, <3>3 DEF Missed, LookedUp, Hit, InvReq
  <2> QED BY <2>4, <2>5, <2>6
<1>8. CASE Passing(io)
  BY <1>3, <1>4, <1>8 DEF Passing, LookedUp
<1>9. CASE Refilling(io) /\ ~RefillLast(io)
  <2>1. Match' <=> Match /\ ~InvReq(io)
    BY <1>1, <1>2, <1>9, MatchKept DEF Refilling, Stayed
  <2> QED BY <1>4, <1>9, <2>1 DEF Refilling, LookedUp
<1>10. CASE Refilling(io) /\ RefillLast(io)
  <2> DEFINE k == req.addr.index
  <2>1. k \in Index /\ req' = req /\ state_q = "REFILL" /\ state_q' = "RELOOK" /\ ~Match
    BY <1>10 DEF Refilling, Stayed, LookedUp, TypeOK, CacheTypeOK, Request, Addr
  <2>2. tag_hit_q' <=> ~InvReq(io) /\ ~refill_invalidated_q /\ io.inv = {}
    BY <1>2, <1>10 DEF TagHit, TypeOK, CacheTypeOK
  <2>3. CASE k \in io.inv
    <3>1. tag_mem'[k].valid = FALSE
      BY <1>1, <1>2, <2>1, <2>3, TagFacts
    <3> QED BY <1>4, <1>10, <2>1, <2>2, <2>3, <3>1 DEF LookedUp, Match, InvReq
  <2>4. CASE k \notin io.inv
    <3>1. tag_mem'[k] = IF ~refill_invalidated_q /\ io.inv = {}
                        THEN [valid |-> TRUE, tag |-> req.addr.tag] ELSE tag_mem[k]
      BY <1>1, <1>2, <1>10, <2>1, <2>4, TagFacts
    <3>2. Match' <=> ~refill_invalidated_q /\ io.inv = {}
      BY <2>1, <3>1 DEF Match
    <3> QED BY <1>4, <1>10, <2>1, <2>2, <2>4, <3>2 DEF LookedUp, InvReq
  <2> QED BY <2>3, <2>4
<1>11. CASE Relooking(io)
  <2>1. req' = req /\ state_q = "RELOOK" /\ state_q' = "LOOKUP" /\ ~RefillLast(io) /\ Relook
    BY <1>3, <1>11 DEF Relooking, Stayed, Relook
  <2>2. CASE RegisterLookup
    <3>1. tag_hit_q' = IF InvReq(io) THEN FALSE
                       ELSE IF ~refill_relook_q THEN TagMatches ELSE tag_hit_q
      BY <1>2, <2>1 DEF TagHit
    <3>2. Match' <=> Match /\ ~InvReq(io)
      BY <1>1, <1>2, <2>1, MatchKept
    <3> QED BY <1>4, <2>1, <2>2, <3>1, <3>2 DEF LookedUp, Hit
  <2>3. CASE ~RegisterLookup
    <3>1. TagMatches' <=> Match'
      BY <1>1, <1>2, <2>1, <2>3, TagFresh
    <3> QED BY <1>4, <2>1, <2>3, <3>1 DEF LookedUp, Hit
  <2> QED BY <2>2, <2>3
<1>12. CASE BringingIn(io)
  BY <1>3, <1>4, <1>12 DEF BringingIn, LookedUp
<1> QED BY <1>2, <1>5, <1>6, <1>7, <1>8, <1>9, <1>10, <1>11, <1>12, Moves

\* The sweep leaves the lines it has reached invalid.
LEMMA SweepStep ==
  ASSUME TypeOK, Swept, NEW io \in IO, TagWrite(io), Sweeping(io),
         NEW i \in Index, i <= req.addr.index
  PROVE  ~tag_mem'[i].valid
<1> DEFINE k == req.addr.index
           w == [valid |-> state_q \notin {"CLEAR", "UNCACHED"} /\ io.inv = {}, tag |-> req.addr.tag]
<1>1. state_q = "CLEAR" /\ TagWriteEnable(io) /\ TagWriteIndex(io) = k /\ w.valid = FALSE
  BY DEF Sweeping, TagWriteEnable, TagWriteIndex
<1>2. tag_mem' = [tag_mem EXCEPT ![k] = w]
  BY <1>1 DEF TagWrite
<1>3. k \in Index /\ tag_mem \in [Index -> TagWord] /\ k \in Nat /\ i \in Nat
  BY GeometryAssumption DEF TypeOK, CacheTypeOK, Request, Addr, Index
<1> HIDE DEF w
<1>4. CASE i = k
  BY <1>1, <1>2, <1>3, <1>4
<1>5. CASE i # k
  <2>1. i < k /\ tag_mem'[i] = tag_mem[i]
    BY <1>2, <1>3, <1>5
  <2> QED BY <1>1, <2>1 DEF Swept
<1> QED BY <1>4, <1>5

\* Where the sweep goes next.
LEMMA SweepIndex ==
  ASSUME TypeOK, NEW io \in IO, Sweeping(io)
  PROVE  /\ req.addr.index \in Nat
         /\ state_q' = "CLEAR" => req'.addr.index = req.addr.index + 1
         /\ state_q' # "CLEAR" => state_q' = "IDLE" /\ \A i \in Index : i <= req.addr.index
<1> DEFINE k == req.addr.index
<1>1. k \in Index /\ Index \subseteq Nat /\ \A i \in Index : i <= Lines - 1
  BY GeometryAssumption DEF TypeOK, CacheTypeOK, Request, Addr, Index
<1>2. CASE k = Lines - 1
  BY <1>1, <1>2 DEF Sweeping
<1>3. CASE k # Lines - 1
  <2>1. req' = [req EXCEPT !.addr.index = k + 1] /\ state_q' = "CLEAR"
    BY <1>3 DEF Sweeping
  <2>2. req'.addr.index = k + 1
    BY <2>1 DEF TypeOK, CacheTypeOK, Request, Addr
  <2> QED BY <1>1, <2>1, <2>2
<1> QED BY <1>2, <1>3

LEMMA SweptKept ==
  ASSUME TypeOK, BusInv, Control, Swept, NEW io \in IO, Edge(io)
  PROVE  Swept'
<1>1. TagWrite(io) /\ Kinds
  BY DEF Edge, Datapath, Control
<1>2. CASE Sweeping(io)
  <2> SUFFICES ASSUME state_q' = "CLEAR", NEW i \in Index, i < req'.addr.index
               PROVE  ~tag_mem'[i].valid
    BY DEF Swept
  <2>1. req.addr.index \in Nat /\ req'.addr.index = req.addr.index + 1 /\ i \in Nat
    BY <1>2, SweepIndex, GeometryAssumption DEF Index
  <2>2. i <= req.addr.index
    BY <2>1
  <2> QED BY <1>1, <1>2, <2>2, SweepStep
<1>3. CASE ~Sweeping(io)
  <2>1. state_q' # "CLEAR"
    BY <1>1, <1>3, Moves DEF Opened, RequestState, Missed, Passing, Refilling, Relooking, BringingIn
  <2> QED BY <2>1 DEF Swept
<1> QED BY <1>2, <1>3

-----------------------------------------------------------------------------
(* Memory. *)

\* The other master writes neither the SRAM nor uncached addresses, and invalidates
\* the line of what it writes.
LEMMA ForeignKept ==
  ASSUME NEW ext \in Exts, NEW io, Wired(io, ext), NEW a \in Addr,
         a.tag \in Uncached \cup Local \/ a.index \notin io.inv
  PROVE  Foreign(ext, a) = memory[a]
<1>1. \A x \in ext : x.addr # a
  BY OneInvalidated, RequestAssumption
<1> QED BY <1>1 DEF Foreign

\* Memory after the other master's write.
After(ext) == [a \in Addr |-> Foreign(ext, a)]

\* The backing memory changes by the command that was answered,
LEMMA BackingAt ==
  ASSUME TypeOK, BusInv, Control, NEW io \in IO, NEW ext \in Exts, io.ack => Owed(io) # <<>>,
         MemoryStep(io, ext), NEW a \in Addr, a.tag \notin Local, NEW l \in Lanes
  PROVE  /\ io.ack => Lands(After(ext), memory', Head(Owed(io)), a, l)
         /\ ~io.ack => memory'[a][l] = After(ext)[a][l]
         /\ Answered(io) = {} => memory'[a] = Foreign(ext, a)
<1> DEFINE ws == {w \in Answered(io) \cup SramWrite(io) : w.addr = a}
           old == Foreign(ext, a)
<1>1. memory'[a] = IF ws = {} THEN old
                   ELSE LET w == CHOOSE w \in ws : TRUE IN Merge(old, w.sel, w.wdata)
  BY DEF MemoryStep
<1>2. ws = {w \in Answered(io) : w.addr = a}
  BY DEF SramWrite
<1>3. After(ext)[a] = old
  BY DEF After
<1> HIDE DEF old
<1>4. CASE io.ack /\ Head(Owed(io)).we /\ Head(Owed(io)).addr = a
  <2> DEFINE h == Head(Owed(io))
  <2>1. ws = {h} /\ Answered(io) # {}
    BY <1>2, <1>4 DEF Answered
  <2> HIDE DEF ws, h
  <2>2. memory'[a] = Merge(old, h.sel, h.wdata)
    BY <1>1, <2>1
  <2>3. memory'[a][l] = IF l \in h.sel THEN h.wdata[l] ELSE old[l]
    BY <2>2 DEF Merge
  <2> QED BY <1>3, <1>4, <2>1, <2>3 DEF h, Lands, Covers
<1>5. CASE ~(io.ack /\ Head(Owed(io)).we /\ Head(Owed(io)).addr = a)
  <2>1. ws = {}
    BY <1>2, <1>5 DEF Answered
  <2>2. memory'[a] = old
    BY <1>1, <2>1
  <2>3. io.ack => ~Covers(Head(Owed(io)), a, l)
    BY <1>5 DEF Covers
  <2> QED BY <1>3, <2>2, <2>3 DEF Lands, old
<1> QED BY <1>4, <1>5

\* and the SRAM by the store it accepts.
LEMMA SramAt ==
  ASSUME TypeOK, BusInv, Control, NEW io \in IO, NEW ext \in Exts, io.ack => Owed(io) # <<>>,
         Wired(io, ext), MemoryStep(io, ext), NEW a \in Addr, a.tag \in Local
  PROVE  memory'[a] = IF CpuRequest(io) /\ io.c.we /\ io.c.addr = a
                      THEN Merge(memory[a], io.c.sel, io.c.wdata) ELSE memory[a]
<1> DEFINE ws == {w \in Answered(io) \cup SramWrite(io) : w.addr = a}
<1>1. Foreign(ext, a) = memory[a]
  BY ForeignKept
<1>2. memory'[a] = IF ws = {} THEN memory[a]
                   ELSE LET w == CHOOSE w \in ws : TRUE IN Merge(memory[a], w.sel, w.wdata)
  BY <1>1 DEF MemoryStep
<1>3. \A w \in Answered(io) : w.addr # a
  <2>1. Owed(io) \in Seq(Request)
    BY OwedTyped
  <2>2. ASSUME NEW q \in Seq(Request), q # <<>> PROVE 1 \in 1 .. Len(q) /\ Head(q) = q[1]
    BY <2>2
  <2>3. io.ack => Head(Owed(io)).addr.tag \notin Local
    BY <2>1, <2>2, OwedCached
  <2> QED BY <2>3 DEF Answered
<1>4. ws = IF CpuRequest(io) /\ io.c.we /\ io.c.addr = a THEN {io.c} ELSE {}
  BY <1>3 DEF SramWrite
<1> HIDE DEF ws
<1> QED BY <1>2, <1>4

\* Without posted stores no store is answered.
LEMMA NothingAnswered ==
  ASSUME TypeOK, BusInv, Control, NEW io \in IO, io.ack => Owed(io) # <<>>,
         writes_pending_q = 0, ~WriteAccept(io)
  PROVE  Answered(io) = {}
<1> SUFFICES ASSUME io.ack PROVE ~Head(Owed(io)).we
  BY DEF Answered
<1>1. Owed(io) \in Seq(Request) /\ bus \in Seq(Request)
  BY OwedTyped DEF TypeOK
<1>2. ASSUME NEW q \in Seq(Request), q # <<>>
      PROVE Head(q) = q[1] /\ 1 \in 1 .. Len(q) /\ Len(q) # 0 /\ DOMAIN q = 1 .. Len(q)
  BY <1>2
<1>3. Head(Owed(io)) = IF 1 <= Len(bus) THEN bus[1] ELSE MCmd(io)
  BY <1>1, <1>2, OwedFacts
<1>4. CASE bus # <<>>
  <2>1. pending_q /\ 1 \in DOMAIN bus
    BY <1>1, <1>2, <1>4 DEF BusInv, BusAccount
  <2>2. bus[1].we = FALSE
    BY <2>1 DEF BusInv, BusAccount
  <2>3. 1 <= Len(bus)
    BY <1>1, <1>2, <1>4
  <2> QED BY <1>3, <2>2, <2>3
<1>5. CASE bus = <<>>
  <2>1. Len(bus) = 0
    BY <1>5
  <2>2. Accepted(io)
    BY <1>5 DEF Owed
  <2>3. MCmd(io).we = req.we /\ (WriteAccept(io) <=> req.we)
    BY <2>2, AcceptedCommand DEF Control
  <2>4. Head(Owed(io)) = MCmd(io)
    BY <1>3, <2>1
  <2> QED BY <2>3, <2>4
<1> QED BY <1>4, <1>5

\* The read that is answered is the word under refill, or the bypass.
LEMMA ReadAnswered ==
  ASSUME TypeOK, BusInv, Control, NEW io \in IO, NEW ext \in Exts, io.ack => Owed(io) # <<>>,
         Wired(io, ext)
  PROVE  /\ RefillResponse(io) => io.rdata = memory[[req.addr EXCEPT !.beat = refill_beat_q]]
         /\ PassResponse(io) => io.rdata = memory[req.addr]
<1> SUFFICES ASSUME RefillResponse(io) \/ PassResponse(io)
             PROVE  /\ RefillResponse(io) => io.rdata = memory[[req.addr EXCEPT !.beat = refill_beat_q]]
                    /\ PassResponse(io) => io.rdata = memory[req.addr]
  OBVIOUS
<1>1. io.ack /\ (pending_q \/ Accepted(io)) /\ writes_pending_q = 0 /\ ~req.we /\ ~WriteAccept(io)
  BY DEF RefillResponse, PassResponse, BusInv, BusStates, WriteAccept
<1>2. ~Head(Owed(io)).we
  BY <1>1, NothingAnswered DEF Answered
<1>3. io.rdata = memory[Head(Owed(io)).addr]
  BY <1>1, <1>2 DEF Wired
<1>4. Owed(io) \in Seq(Request) /\ bus \in Seq(Request) /\ Owed(io) # <<>>
  BY <1>1, OwedTyped DEF TypeOK
<1>5. ASSUME NEW q \in Seq(Request), q # <<>>
      PROVE Head(q) = q[1] /\ 1 \in 1 .. Len(q)
  BY <1>5
<1>6. Head(Owed(io)) = IF 1 <= Len(bus) THEN bus[1] ELSE MCmd(io)
  BY <1>4, <1>5, OwedFacts
<1>7. Head(Owed(io)) = MCmd([ack |-> FALSE])
  <2>1. CASE pending_q
    <3>1. Len(bus) = 1 /\ bus[1] = MCmd([ack |-> FALSE])
      BY <1>1, <2>1 DEF BusInv, BusAccount
    <3> QED BY <1>6, <3>1
  <2>2. CASE ~pending_q
    <3>1. Len(bus) = 0
      BY <1>1, <2>2 DEF BusInv, BusAccount
    <3>2. MCmd(io) = MCmd([ack |-> FALSE])
      BY <2>2 DEF MCmd
    <3> QED BY <1>6, <3>1, <3>2
  <2> QED BY <2>1, <2>2
<1>8. CASE RefillResponse(io)
  <2>1. state_q = "REFILL" /\ ~PassActive
    BY <1>8 DEF RefillResponse, PassActive
  <2>2. Head(Owed(io)) = RefillCmd(req, refill_beat_q)
    BY <1>7, <2>1, RefillCmds
  <2>3. RefillCmd(req, refill_beat_q).addr = [req.addr EXCEPT !.beat = refill_beat_q]
    BY DEF RefillCmd, TypeOK, CacheTypeOK, Request
  <2> QED BY <1>3, <2>1, <2>2, <2>3 DEF PassResponse
<1>9. CASE PassResponse(io)
  <2>1. PassActive /\ state_q # "REFILL"
    BY <1>9 DEF PassResponse, PassActive
  <2> QED BY <1>3, <1>7, <2>1 DEF MCmd, RefillResponse
<1> QED BY <1>8, <1>9

-----------------------------------------------------------------------------
(* What the registers and the line under work hold. *)

LEMMA SlotTyped == ASSUME NEW a \in Addr PROVE Slot(a) \in Index \X Beat
  BY DEF Slot, Addr

\* One slot of the data RAM after an edge.
LEMMA DataAt ==
  ASSUME NEW io, RamWrite(io), NEW s \in Index \X Beat
  PROVE  data_mem'[s] = IF s \notin RamWriteSlots(io) THEN data_mem[s]
                        ELSE IF StoreHit(io) THEN Merge(data_mem[s], req.sel, req.wdata)
                        ELSE io.rdata
  BY DEF RamWrite

\* Where no store and no answer is at work the data RAM stays.
LEMMA NoSlots ==
  ASSUME Control, NEW io, state_q # "REFILL", ~PassResponse(io), ~StoreHit(io)
  PROVE  RamWriteSlots(io) = {}
  BY DEF RamWriteSlots, RefillResponse

\* What an edge with no store owed leaves of memory.
LEMMA MemoryKept ==
  ASSUME TypeOK, BusInv, Control, NEW io \in IO, NEW ext \in Exts, io.ack => Owed(io) # <<>>,
         Wired(io, ext), MemoryStep(io, ext), writes_pending_q = 0, ~WriteAccept(io),
         NEW a \in Addr, a.tag \notin Local, a.tag \in Uncached \/ a.index \notin io.inv
  PROVE  memory'[a] = memory[a]
<1>1. Answered(io) = {}
  BY NothingAnswered
<1>2. Foreign(ext, a) = memory[a]
  BY ForeignKept
<1>3. {w \in Answered(io) \cup SramWrite(io) : w.addr = a} = {}
  BY <1>1 DEF SramWrite
<1> QED BY <1>2, <1>3 DEF MemoryStep

\* The SRAM's answer waits for one edge.
LEMMA SramRead ==
  ASSUME TypeOK, BusInv, Control, NEW io \in IO, NEW ext \in Exts, io.ack => Owed(io) # <<>>,
         Wired(io, ext), MemoryStep(io, ext), SramKept(io), Edge(io)
  PROVE  (sram_ack_q /\ ReqLocal /\ ~req.we => sram_data_q = memory[req.addr])'
<1> SUFFICES ASSUME sram_ack_q', req'.addr.tag \in Local, ~req'.we
             PROVE  sram_data_q' = memory'[req'.addr]
  BY DEF ReqLocal
<1>1. SramStep(io) /\ CpuRequest(io) /\ io.stb /\ ~CStall(io)
  BY DEF SramKept, SramStep, CpuRequest
<1>2. state_q # "CLEAR"
  BY <1>1 DEF CStall, WriteAccept, PassActive
<1>3. req' = io.c /\ io.c.addr \in Addr
  BY <1>1, <1>2, RequestAssumption DEF Edge, Datapath, Capture, IO, Request
<1>4. sram_data_q' = memory[io.c.addr]
  BY <1>1, <1>3 DEF SramStep
<1>5. memory'[io.c.addr] = memory[io.c.addr]
  BY <1>3, SramAt
<1> QED BY <1>3, <1>4, <1>5

\* A look-up that is answered at once reads what the data RAM holds then.
LEMMA LookupRead ==
  ASSUME TypeOK, BusInv, Control, LookupData, NEW io \in IO, Edge(io)
  PROVE  LookupData'
<1> SUFFICES ASSUME state_q' = "LOOKUP", ~req'.we
             PROVE  read_data_q' = data_mem'[Slot(req'.addr)]
  BY DEF LookupData
<1>1. RamRead(io) /\ RamWrite(io) /\ Kinds /\ BusInv
  BY DEF Edge, Datapath, Control
<1>2. io.c.addr \in Addr /\ req.addr \in Addr
  BY RequestAssumption DEF IO, Request, TypeOK, CacheTypeOK
<1>3. Slot(io.c.addr) \in Index \X Beat /\ Slot(req.addr) \in Index \X Beat
  BY <1>2, SlotTyped
<1>4. CASE Opened(io)
  <2>1. /\ io.stb /\ CpuRequest(io) /\ ~RegisterLookup /\ req' = io.c
        /\ ~(~io.c.we /\ StoreHit(io) /\ Slot(io.c.addr) = Slot(req.addr))
    BY <1>4 DEF Opened, CpuRequest, RequestState
  <2>2. state_q \notin {"REFILL", "RELOOK", "UNCACHED"}
    BY <1>4, <2>1 DEF Opened, CStall, WriteAccept, PassActive
  <2>3. ~PassResponse(io)
    BY <1>1, <1>4, <2>1 DEF Opened, PassResponse, PassActive, LookupReadHit, LookupHit, WriteAccept,
                     Kinds
  <2>4. Slot(io.c.addr) \notin RamWriteSlots(io)
    BY <2>1, <2>2, <2>3 DEF RamWriteSlots, RefillResponse
  <2>5. read_data_q' = data_mem[Slot(io.c.addr)]
    BY <1>1, <2>1, <2>2, <2>4 DEF RamRead, Relook
  <2> QED BY <1>1, <1>3, <2>1, <2>4, <2>5, DataAt
<1>5. CASE Missed(io)
  <2>1. req' = req /\ state_q = "LOOKUP" /\ ~CpuRequest(io) /\ ~req.we /\ ~PassResponse(io)
        /\ ~StoreHit(io)
    BY <1>5 DEF Missed, Stayed, Cacheable, PassResponse, PassActive, StoreHit
  <2>2. RamWriteSlots(io) = {}
    BY <2>1, NoSlots
  <2>3. read_data_q' = read_data_q
    BY <1>1, <2>1 DEF RamRead, Relook
  <2> QED BY <1>1, <1>3, <2>1, <2>2, <2>3, DataAt DEF LookupData
<1>6. CASE Relooking(io)
  <2>1. req' = req /\ state_q = "RELOOK" /\ ~PassResponse(io) /\ ~StoreHit(io)
    BY <1>6 DEF Relooking, Stayed, PassResponse, PassActive, StoreHit
  <2>2. RamWriteSlots(io) = {}
    BY <2>1, NoSlots
  <2>3. read_data_q' = data_mem[Slot(req.addr)]
    BY <1>1, <2>1, <2>2 DEF RamRead, Relook
  <2> QED BY <1>1, <1>3, <2>1, <2>2, <2>3, DataAt
<1> QED BY <1>1, <1>4, <1>5, <1>6, Moves DEF Sweeping, Passing, Refilling, BringingIn

\* An uncached reply goes through the data RAM.
LEMMA BypassRead ==
  ASSUME TypeOK, BusInv, Control, DataRead, NEW io \in IO, NEW ext \in Exts,
         io.ack => Owed(io) # <<>>, Wired(io, ext), MemoryStep(io, ext), Edge(io)
  PROVE  (/\ state_q = "UNCACHED" => data_mem[Slot(req.addr)] = memory[req.addr]
          /\ state_q = "REPLY" => read_data_q = memory[req.addr])'
<1>1. RamRead(io) /\ RamWrite(io) /\ Kinds
  BY DEF Edge, Datapath, Control
<1>2. req.addr \in Addr /\ Slot(req.addr) \in Index \X Beat
  BY SlotTyped DEF TypeOK, CacheTypeOK, Request
<1> SUFFICES ASSUME state_q' \in {"UNCACHED", "REPLY"}
             PROVE  /\ state_q' = "UNCACHED" => data_mem'[Slot(req'.addr)] = memory'[req'.addr]
                    /\ state_q' = "REPLY" => read_data_q' = memory'[req'.addr]
  OBVIOUS
<1>3. CASE Passing(io)
  <2>1. PassResponse(io) /\ state_q' = "UNCACHED" /\ req' = req /\ ~WriteAccept(io)
        /\ state_q \in {"LOOKUP", "PASS"}
    BY <1>3 DEF Passing, Stayed
  <2>2. writes_pending_q = 0 /\ ~StoreHit(io) /\ ~ReqCacheable /\ ~ReqLocal
    BY <1>3, <2>1 DEF PassResponse, StoreHit, Passing
  <2>3. RamWriteSlots(io) = {Slot(req.addr)}
    BY <2>1 DEF RamWriteSlots, RefillResponse
  <2>4. data_mem'[Slot(req.addr)] = memory[req.addr]
    BY <1>1, <1>2, <2>1, <2>2, <2>3, DataAt, ReadAnswered
  <2>5. memory'[req.addr] = memory[req.addr]
    BY <1>2, <2>1, <2>2, MemoryKept DEF ReqCacheable, ReqLocal
  <2> QED BY <2>1, <2>4, <2>5
<1>4. CASE BringingIn(io)
  <2>1. req' = req /\ state_q = "UNCACHED" /\ ~WriteAccept(io)
        /\ ~PassResponse(io) /\ ~StoreHit(io)
    BY <1>4 DEF BringingIn, Stayed, PassResponse, PassActive, StoreHit
  <2>2. RamWriteSlots(io) = {} /\ writes_pending_q = 0 /\ ~ReqCacheable /\ ~ReqLocal
    BY <1>1, <2>1, NoSlots DEF Kinds
  <2>3. read_data_q' = data_mem[Slot(req.addr)] /\ data_mem'[Slot(req.addr)] = data_mem[Slot(req.addr)]
    BY <1>1, <1>2, <2>1, <2>2, DataAt DEF RamRead, Relook
  <2>4. memory'[req.addr] = memory[req.addr]
    BY <1>2, <2>1, <2>2, MemoryKept DEF ReqCacheable, ReqLocal
  <2> QED BY <2>1, <2>3, <2>4 DEF DataRead
<1> QED BY <1>1, <1>3, <1>4, Moves DEF Sweeping, Opened, RequestState, Missed, Refilling, Relooking

\* A refill brings in one word after the other.
LEMMA RefillSlot ==
  ASSUME TypeOK, BusInv, NEW io \in IO, RamWrite(io), state_q = "REFILL", NEW b \in Beat
  PROVE  data_mem'[<<req.addr.index, b>>] =
           IF RefillResponse(io) /\ b = refill_beat_q THEN io.rdata
           ELSE data_mem[<<req.addr.index, b>>]
<1>1. <<req.addr.index, b>> \in Index \X Beat
  BY DEF TypeOK, CacheTypeOK, Request, Addr
<1>2. ~StoreHit(io)
  BY DEF StoreHit
<1>3. RamWriteSlots(io) = IF RefillResponse(io) THEN {<<req.addr.index, refill_beat_q>>} ELSE {}
  BY <1>2 DEF RamWriteSlots, PassResponse, PassActive
<1> QED BY <1>1, <1>2, <1>3, DataAt

\* The words that a refill has brought in after an edge are those it had, and the
\* one that the edge answers.
LEMMA RefillBeats ==
  ASSUME TypeOK, BusInv, Control, NEW io \in IO, Edge(io), state_q' = "REFILL",
         ~refill_invalidated_q', NEW b \in Beat, b < refill_beat_q'
  PROVE  /\ state_q = "REFILL" /\ req' = req /\ Cacheable /\ ~WriteAccept(io)
         /\ ~refill_invalidated_q /\ ~InvReq(io)
         /\ b < refill_beat_q \/ (RefillResponse(io) /\ b = refill_beat_q)
<1>1. Kinds /\ b \in Nat
  BY GeometryAssumption DEF Control, Beat
<1>2. CASE Missed(io)
  <2>1. refill_beat_q' = 0
    BY <1>2 DEF Missed
  <2>2. b < 0
    BY <2>1
  <2>3. ~(b < 0)
    BY <1>1
  <2> QED BY <2>2, <2>3
<1>3. CASE Refilling(io)
  <2>1. /\ state_q = "REFILL" /\ req' = req /\ ~RefillLast(io) /\ Cacheable /\ ~WriteAccept(io)
        /\ ~refill_invalidated_q /\ ~InvReq(io)
        /\ refill_beat_q' = IF RefillResponse(io) THEN (refill_beat_q + 1) % LineWords
                            ELSE refill_beat_q
    BY <1>3 DEF Refilling, Stayed
  <2>2. CASE RefillResponse(io)
    <3>1. refill_beat_q \in 0 .. LineWords - 1 /\ refill_beat_q # LineWords - 1
      BY <2>1, <2>2 DEF RefillLast, LastBeat, TypeOK, CacheTypeOK, Beat
    <3>2. refill_beat_q + 1 \in 0 .. LineWords - 1
      BY <3>1, GeometryAssumption
    <3>3. refill_beat_q' = refill_beat_q + 1
      BY <2>1, <2>2, <3>2, ModSmall, GeometryAssumption
    <3> QED BY <1>1, <2>1, <2>2, <3>1, <3>3
  <2>3. CASE ~RefillResponse(io)
    BY <2>1, <2>3
  <2> QED BY <2>2, <2>3
<1> QED BY <1>1, <1>2, <1>3, Moves DEF Sweeping, Opened, RequestState, Passing, Relooking, BringingIn

LEMMA RefillRead ==
  ASSUME TypeOK, BusInv, Control, DataRead, NEW io \in IO, NEW ext \in Exts,
         io.ack => Owed(io) # <<>>, Wired(io, ext), MemoryStep(io, ext), RamWrite(io),
         state_q = "REFILL", ~refill_invalidated_q, ~InvReq(io), ~WriteAccept(io), Cacheable,
         NEW b \in Beat, b < refill_beat_q \/ (RefillResponse(io) /\ b = refill_beat_q)
  PROVE  data_mem'[<<req.addr.index, b>>] = memory'[[req.addr EXCEPT !.beat = b]]
<1> DEFINE a == [req.addr EXCEPT !.beat = b]
<1>1. a \in Addr /\ a.tag = req.addr.tag /\ a.index = req.addr.index
  BY DEF TypeOK, CacheTypeOK, Request, Addr
<1>2. writes_pending_q = 0
  BY DEF BusInv, BusStates
<1>3. memory'[a] = memory[a]
  BY <1>1, <1>2, MemoryKept DEF Cacheable, ReqLocal, InvReq
<1> HIDE DEF a
<1>4. data_mem'[<<req.addr.index, b>>] =
        IF RefillResponse(io) /\ b = refill_beat_q THEN io.rdata
        ELSE data_mem[<<req.addr.index, b>>]
  BY RefillSlot
<1>5. CASE RefillResponse(io) /\ b = refill_beat_q
  <2>1. io.rdata = memory[a]
    BY <1>5, ReadAnswered DEF a
  <2> QED BY <1>3, <1>4, <1>5, <2>1 DEF a
<1>6. CASE ~(RefillResponse(io) /\ b = refill_beat_q)
  <2>1. data_mem[<<req.addr.index, b>>] = memory[a]
    BY <1>6 DEF DataRead, Filled, a
  <2> QED BY <1>3, <1>4, <1>6, <2>1 DEF a
<1> QED BY <1>5, <1>6

LEMMA FilledKept ==
  ASSUME TypeOK, TypeOK', BusInv, Control, DataRead, NEW io \in IO, NEW ext \in Exts,
         io.ack => Owed(io) # <<>>, Wired(io, ext), MemoryStep(io, ext), Edge(io)
  PROVE  (state_q = "REFILL" /\ ~refill_invalidated_q => Filled(refill_beat_q))'
<1> SUFFICES ASSUME state_q' = "REFILL", ~refill_invalidated_q', NEW b \in Beat, b < refill_beat_q'
             PROVE  data_mem'[<<req'.addr.index, b>>] = memory'[[req'.addr EXCEPT !.beat = b]]
  BY DEF Filled
<1>1. /\ state_q = "REFILL" /\ req' = req /\ Cacheable /\ ~WriteAccept(io)
      /\ ~refill_invalidated_q /\ ~InvReq(io)
      /\ b < refill_beat_q \/ (RefillResponse(io) /\ b = refill_beat_q)
  BY RefillBeats
<1>2. RamWrite(io)
  BY DEF Edge, Datapath
<1>3. data_mem'[<<req.addr.index, b>>] = memory'[[req.addr EXCEPT !.beat = b]]
  BY <1>1, <1>2, RefillRead
<1> QED BY <1>1, <1>3

LEMMA DataReadKept ==
  ASSUME TypeOK, TypeOK', BusInv, Control, DataRead, NEW io \in IO, NEW ext \in Exts,
         Wired(io, ext), CoreEdge(io, ext)
  PROVE  DataRead'
<1>1. (sram_ack_q /\ ReqLocal /\ ~req.we => sram_data_q = memory[req.addr])'
  BY SramRead DEF CoreEdge, PortEdge
<1>2. LookupData'
  BY LookupRead DEF CoreEdge, PortEdge, DataRead
<1>3. (/\ state_q = "UNCACHED" => data_mem[Slot(req.addr)] = memory[req.addr]
       /\ state_q = "REPLY" => read_data_q = memory[req.addr])'
  BY BypassRead DEF CoreEdge, PortEdge
<1>4. (state_q = "REFILL" /\ ~refill_invalidated_q => Filled(refill_beat_q))'
  BY FilledKept DEF CoreEdge, PortEdge
<1> QED BY <1>1, <1>2, <1>3, <1>4 DEF DataRead

-----------------------------------------------------------------------------
(* Memory under the stores of an edge. *)

\* What left the bus is in memory,
LEMMA LandedBus ==
  ASSUME TypeOK, BusInv, Control, NEW io \in IO, NEW ext \in Exts, io.ack => Owed(io) # <<>>,
         BusStep(io), MemoryStep(io, ext), NEW a \in Addr, a.tag \notin Local, NEW l \in Lanes
  PROVE  Over(memory', bus', a)[l] = Over(After(ext), Owed(io), a)[l]
<1>1. Owed(io) \in Seq(Request)
  BY OwedTyped
<1>2. CASE io.ack
  <2>1. bus' = Tail(Owed(io)) /\ Lands(After(ext), memory', Head(Owed(io)), a, l)
    BY <1>2, BackingAt DEF BusStep
  <2> QED BY <1>1, <1>2, <2>1, OverTail
<1>3. CASE ~io.ack
  <2>1. bus' = Owed(io) /\ memory'[a][l] = After(ext)[a][l]
    BY <1>3, BackingAt DEF BusStep
  <2> QED BY <2>1, OverSame
<1> QED BY <1>2, <1>3

\* also under a store that the cache still holds.
LEMMA LandedUnder ==
  ASSUME TypeOK, TypeOK', BusInv, Control, NEW io \in IO, NEW ext \in Exts,
         io.ack => Owed(io) # <<>>, BusStep(io), MemoryStep(io, ext),
         NEW a \in Addr, a.tag \notin Local, NEW l \in Lanes, NEW c \in Request
  PROVE  Over(memory', Append(bus', c), a)[l] = Over(After(ext), Append(Owed(io), c), a)[l]
<1>1. Owed(io) \in Seq(Request) /\ bus' \in Seq(Request)
  BY OwedTyped DEF TypeOK
<1>2. Over(memory', bus', a)[l] = Over(After(ext), Owed(io), a)[l]
  BY LandedBus
<1>3. CASE Covers(c, a, l)
  <2>1. Over(memory', Append(bus', c), a)[l] = c.wdata[l]
    BY <1>1, <1>3, OverCovered
  <2>2. Over(After(ext), Append(Owed(io), c), a)[l] = c.wdata[l]
    BY <1>1, <1>3, OverCovered
  <2> QED BY <2>1, <2>2
<1>4. CASE ~Covers(c, a, l)
  <2>1. Over(memory', Append(bus', c), a)[l] = Over(memory', bus', a)[l]
    BY <1>1, <1>4, OverUncovered
  <2>2. Over(After(ext), Append(Owed(io), c), a)[l] = Over(After(ext), Owed(io), a)[l]
    BY <1>1, <1>4, OverUncovered
  <2> QED BY <1>2, <2>1, <2>2
<1> QED BY <1>3, <1>4

\* An accepted read changes nothing, an accepted store was the cache's.
LEMMA OwedOver ==
  ASSUME TypeOK, BusInv, Control, NEW io \in IO, NEW m, NEW a, NEW l \in Lanes
  PROVE  /\ WriteAccept(io) => Owed(io) = Append(bus, req)
         /\ ~WriteAccept(io) => Over(m, Owed(io), a)[l] = Over(m, bus, a)[l]
<1>1. bus \in Seq(Request)
  BY DEF TypeOK
<1>2. CASE WriteAccept(io)
  BY <1>2, AcceptedCommand DEF WriteAccept, Owed, Control
<1>3. CASE ~WriteAccept(io) /\ Accepted(io)
  <2>1. MCmd(io) \in Request /\ ~MCmd(io).we
    BY <1>3, AcceptedCommand DEF Control
  <2>2. ~Covers(MCmd(io), a, l)
    BY <2>1 DEF Covers
  <2>3. Owed(io) = Append(bus, MCmd(io))
    BY <1>3 DEF Owed
  <2>4. Over(m, Append(bus, MCmd(io)), a)[l] = Over(m, bus, a)[l]
    BY <1>1, <2>1, <2>2, OverUncovered
  <2> QED BY <1>3, <2>3, <2>4
<1>4. CASE ~WriteAccept(io) /\ ~Accepted(io)
  BY <1>4 DEF Owed
<1> QED BY <1>2, <1>3, <1>4

\* A queue with at most one command more.
LEMMA Joined ==
  ASSUME NEW q \in Seq(Request), NEW c \in Request
  PROVE  q \o <<>> = q /\ q \o <<c>> = Append(q, c)
  OBVIOUS

LEMMA RetainedForm ==
  ASSUME TypeOK
  PROVE  IF Retained = <<>> THEN bus \o Retained = bus
         ELSE Retained = <<req>> /\ bus \o Retained = Append(bus, req)
<1>1. bus \in Seq(Request) /\ req \in Request
  BY DEF TypeOK, CacheTypeOK
<1>2. Retained = <<>> \/ Retained = <<req>>
  BY DEF Retained
<1>3. <<req>> # <<>>
  OBVIOUS
<1> QED BY <1>1, <1>2, <1>3, Joined

\* The stores that are passed on at this edge or wait to be.
PassingStore == state_q \in {"LOOKUP", "PASS"} /\ PassActive /\ req.we

\* What valid lines must hold after an edge.
LEMMA DrainedNext ==
  ASSUME TypeOK, TypeOK', BusInv, Control, NEW io \in IO, NEW ext \in Exts, CoreEdge(io, ext),
         NEW a \in Addr, a.tag \notin Local, NEW l \in Lanes
  PROVE  Over(memory', Drained', a)[l] =
           Over(After(ext), IF PassingStore THEN Append(bus, req) ELSE bus, a)[l]
<1> DEFINE v == Over(After(ext), IF PassingStore THEN Append(bus, req) ELSE bus, a)[l]
<1>1. /\ Edge(io) /\ BusStep(io) /\ MemoryStep(io, ext) /\ (io.ack => Owed(io) # <<>>) /\ Kinds
      /\ bus \in Seq(Request) /\ bus' \in Seq(Request) /\ req \in Request
  BY DEF CoreEdge, PortEdge, Control, TypeOK, CacheTypeOK
<1>2. Over(memory', bus', a)[l] = Over(After(ext), Owed(io), a)[l]
  BY <1>1, LandedBus
<1>3. CASE WriteAccept(io)
  <2>1. PassingStore /\ Owed(io) = Append(bus, req)
    BY <1>3, OwedOver, AcceptedCommand DEF WriteAccept, PassingStore, Control
  <2>2. state_q' # "PASS"
    BY <1>1, <1>3, Moves DEF Sweeping, Opened, RequestState, Missed, Passing, Stayed, Refilling,
                             Relooking, BringingIn
  <2> QED BY <1>2, <2>1, <2>2 DEF Drained
<1>4. CASE ~WriteAccept(io) /\ state_q' = "PASS"
  <2>1. Passing(io)
    BY <1>1, <1>4, Moves DEF Sweeping, Opened, RequestState, Missed, Refilling, Relooking, BringingIn
  <2>2. req' = req /\ (PassingStore <=> req.we) /\ ~ReqLocal
    BY <2>1 DEF Passing, Stayed, PassingStore
  <2>3. Retained' = IF req.we THEN <<req>> ELSE <<>>
    BY <1>4, <2>2 DEF Retained, ReqLocal
  <2>4. Drained' = IF req.we THEN Append(bus', req) ELSE bus'
    BY <1>1, <1>4, <2>3, Joined DEF Drained
  <2>5. CASE req.we
    <3>1. ~Accepted(io)
      BY <1>4, <2>1, <2>5 DEF WriteAccept, Passing
    <3>2. Owed(io) = bus
      BY <3>1 DEF Owed
    <3>3. Over(memory', Append(bus', req), a)[l] = Over(After(ext), Append(Owed(io), req), a)[l]
      BY <1>1, LandedUnder
    <3> QED BY <2>2, <2>4, <2>5, <3>2, <3>3
  <2>6. CASE ~req.we
    <3>1. Over(After(ext), Owed(io), a)[l] = Over(After(ext), bus, a)[l]
      BY <1>4, OwedOver
    <3> QED BY <1>2, <2>2, <2>4, <2>6, <3>1
  <2> QED BY <2>5, <2>6
<1>5. CASE ~WriteAccept(io) /\ state_q' # "PASS"
  <2>1. ~PassingStore
    BY <1>1, <1>5, Moves DEF PassingStore, PassActive, Sweeping, Opened, Missed, Passing,
                             PassResponse, Refilling, Relooking, BringingIn, LookupReadHit,
                             Cacheable, BusInv, BusStates
  <2>2. Over(After(ext), Owed(io), a)[l] = Over(After(ext), bus, a)[l]
    BY <1>5, OwedOver
  <2> QED BY <1>2, <1>5, <2>1, <2>2 DEF Drained
<1> QED BY <1>3, <1>4, <1>5

-----------------------------------------------------------------------------
(* The lines. *)

\* Where there is neither a store nor an answer the data RAM keeps settled lines.
LEMMA Untouched ==
  ASSUME TypeOK, BusInv, Control, LookedUp, NEW io \in IO, Edge(io), ~StoreHit(io),
         NEW i \in Index, i \notin Unsettled, i \notin Unsettled', NEW b \in Beat
  PROVE  data_mem'[<<i, b>>] = data_mem[<<i, b>>]
<1>1. RamWrite(io) /\ <<i, b>> \in Index \X Beat
  BY DEF Edge, Datapath
<1>2. SUFFICES <<i, b>> \notin RamWriteSlots(io)
  BY <1>1, DataAt
<1>3. CASE RefillResponse(io)
  <2>1. state_q = "REFILL" /\ Cacheable /\ ~Match
    BY <1>3 DEF RefillResponse, Control, Kinds, LookedUp
  <2>2. i # req.addr.index
    BY <2>1 DEF Unsettled
  <2> QED BY <1>3, <2>2 DEF RamWriteSlots
<1>4. CASE ~RefillResponse(io) /\ PassResponse(io)
  <2>1. Passing(io)
    BY <1>4, Moves DEF Control, PassResponse, PassActive, Sweeping, Opened, LookupReadHit, WriteAccept,
                       LookupHit, Missed, Cacheable, Refilling, Relooking, BringingIn, Kinds, BusInv,
                       BusStates
  <2>2. state_q' = "UNCACHED" /\ req' = req
    BY <1>4, <2>1 DEF Passing, Stayed
  <2>3. i # req.addr.index
    BY <2>2 DEF Unsettled
  <2> QED BY <1>4, <2>3 DEF RamWriteSlots, Slot
<1>5. CASE ~RefillResponse(io) /\ ~PassResponse(io)
  BY <1>5 DEF RamWriteSlots
<1> QED BY <1>3, <1>4, <1>5

\* A store in the look-up changes the line that holds its address, and no other.
LEMMA StoreInLine ==
  ASSUME TypeOK, BusInv, Control, LookedUp, NEW io \in IO, Edge(io), state_q = "LOOKUP", PassingStore,
         NEW a \in Addr, a.tag \notin Uncached \cup Local, a.index \notin io.inv,
         tag_mem[a.index] = [valid |-> TRUE, tag |-> a.tag], NEW l \in Lanes
  PROVE  data_mem'[Slot(a)][l] = IF Covers(req, a, l) THEN req.wdata[l] ELSE data_mem[Slot(a)][l]
<1>1. /\ RamWrite(io) /\ Slot(a) \in Index \X Beat /\ req.addr \in Addr /\ ~ReqLocal /\ req.we
      /\ ~ReadOnly
  BY SlotTyped DEF Edge, Datapath, TypeOK, CacheTypeOK, Request, PassingStore, PassActive,
                   BusInv, BusStates, Control, FetchOnly, Kinds
<1>2. RamWriteSlots(io) = IF StoreHit(io) THEN {Slot(req.addr)} ELSE {}
  BY <1>1 DEF RamWriteSlots, RefillResponse, PassResponse
<1>3. CASE req.addr = a
  <2>1. Match
    BY <1>3 DEF Match
  <2>2. StoreHit(io)
    BY <1>1, <1>3, <2>1 DEF StoreHit, LookupHit, LookedUp, Hit, ReqCacheable, InvReq
  <2>3. data_mem'[Slot(a)] = Merge(data_mem[Slot(a)], req.sel, req.wdata)
    BY <1>1, <1>2, <1>3, <2>2, DataAt
  <2> QED BY <1>1, <1>3, <2>3 DEF Merge, Covers
<1>4. CASE req.addr # a
  <2>1. ~Covers(req, a, l)
    BY <1>4 DEF Covers
  <2>2. data_mem'[Slot(a)] = data_mem[Slot(a)]
    <3>1. ASSUME StoreHit(io), Slot(a) = Slot(req.addr) PROVE FALSE
      <4>1. Match
        BY <1>1, <3>1 DEF StoreHit, LookupHit, LookedUp, Hit
      <4>2. req.addr.tag = a.tag /\ req.addr.index = a.index /\ req.addr.beat = a.beat
        BY <3>1, <4>1 DEF Match, Slot
      <4> QED BY <1>1, <1>4, <4>2 DEF Addr
    <3>2. Slot(a) \notin RamWriteSlots(io)
      BY <1>2, <3>1
    <3> QED BY <1>1, <3>2, DataAt
  <2> QED BY <2>1, <2>2
<1> QED BY <1>3, <1>4

\* A settled line that an edge neither refills nor invalidates.
LEMMA LineStays ==
  ASSUME TypeOK, BusInv, Control, LookedUp, NEW io \in IO, Edge(io),
         NEW a \in Addr, a.tag \notin Uncached \cup Local, a.index \notin io.inv,
         a.index \notin Unsettled, a.index \notin Unsettled',
         tag_mem[a.index] = [valid |-> TRUE, tag |-> a.tag],
         data_mem[Slot(a)] = Over(memory, Drained, a), NEW l \in Lanes
  PROVE  data_mem'[Slot(a)][l] = Over(memory, IF PassingStore THEN Append(bus, req) ELSE bus, a)[l]
<1>1. bus \in Seq(Request) /\ req \in Request /\ a.index \in Index /\ a.beat \in Beat
  BY DEF TypeOK, CacheTypeOK, Addr
<1>2. data_mem[Slot(a)][l] = Over(memory, Drained, a)[l]
  OBVIOUS
<1>3. CASE PassingStore /\ state_q = "LOOKUP"
  <2>1. Drained = bus
    BY <1>3 DEF Drained
  <2>2. CASE Covers(req, a, l)
    <3>1. data_mem'[Slot(a)][l] = req.wdata[l]
      BY <1>3, <2>2, StoreInLine
    <3>2. Over(memory, Append(bus, req), a)[l] = req.wdata[l]
      BY <1>1, <2>2, OverCovered
    <3> QED BY <1>3, <3>1, <3>2
  <2>3. CASE ~Covers(req, a, l)
    <3>1. data_mem'[Slot(a)][l] = data_mem[Slot(a)][l]
      BY <1>3, <2>3, StoreInLine
    <3>2. Over(memory, Append(bus, req), a)[l] = Over(memory, bus, a)[l]
      BY <1>1, <2>3, OverUncovered
    <3> QED BY <1>2, <1>3, <2>1, <3>1, <3>2
  <2> QED BY <2>2, <2>3
<1>4. CASE ~(PassingStore /\ state_q = "LOOKUP")
  <2>1. ~StoreHit(io)
    BY <1>4 DEF StoreHit, LookupHit, PassingStore, PassActive
  <2>2. data_mem'[Slot(a)] = data_mem[Slot(a)]
    BY <1>1, <2>1, Untouched DEF Slot
  <2>3. Drained = IF PassingStore THEN Append(bus, req) ELSE bus
    <3>1. CASE state_q = "PASS"
      <4>1. (PassingStore <=> req.we) /\ ~ReqLocal
        BY <3>1 DEF PassingStore, PassActive, Control, Kinds
      <4>2. Retained = IF req.we THEN <<req>> ELSE <<>>
        BY <3>1, <4>1 DEF Retained
      <4> QED BY <1>1, <3>1, <4>1, <4>2, Joined DEF Drained
    <3>2. CASE state_q # "PASS"
      BY <1>4, <3>2 DEF Drained, PassingStore
    <3> QED BY <3>1, <3>2
  <2> QED BY <1>2, <2>2, <2>3
<1> QED BY <1>3, <1>4

\* A line in any condition stays so, or becomes invalid, or is filled.
LEMMA UnsettledStays ==
  ASSUME TypeOK, BusInv, Control, LookedUp, NEW io \in IO, \A i, j \in io.inv : i = j, Edge(io),
         state_q # "CLEAR", ~RefillLast(io), NEW i \in Unsettled
  PROVE  i \in Unsettled' \/ ~tag_mem'[i].valid
<1>1. TagWrite(io) /\ Kinds
  BY DEF Edge, Datapath, Control
<1>2. CASE state_q = "UNCACHED"
  <2>1. i = req.addr.index /\ BringingIn(io)
    BY <1>1, <1>2, Moves DEF Unsettled, Sweeping, Opened, Missed, Passing, Refilling, Relooking,
                             WriteAccept, PassActive
  <2>2. req' = req /\ i \in Index
    BY <2>1 DEF BringingIn, Stayed, Unsettled
  <2>3. CASE io.inv = {} \/ i \in io.inv
    <3>1. tag_mem'[i].valid = FALSE
      BY <1>1, <1>2, <2>1, <2>2, <2>3, TagFacts
    <3> QED BY <3>1
  <2>4. CASE io.inv # {} /\ i \notin io.inv
    <3>1. state_q' = "UNCACHED"
      BY <2>1, <2>4 DEF BringingIn, InvReq
    <3> QED BY <2>1, <2>2, <3>1 DEF Unsettled
  <2> QED BY <2>3, <2>4
<1>3. CASE state_q # "UNCACHED"
  <2>1. state_q \in {"LOOKUP", "REFILL", "RELOOK"} /\ Cacheable /\ ~Match /\ i = req.addr.index
        /\ i \in Index
    BY <1>3 DEF Unsettled
  <2>2. Missed(io) \/ Refilling(io) \/ Relooking(io)
    BY <1>1, <2>1, Moves DEF Sweeping, Opened, LookupReadHit, LookupHit, LookedUp, Hit, Cacheable,
                       WriteAccept, Passing, BringingIn
  <2>3. req' = req /\ state_q' \in {"LOOKUP", "REFILL", "RELOOK"}
    BY <2>1, <2>2 DEF Missed, Refilling, Relooking, Stayed
  <2>4. ~Match'
    BY <1>1, <1>3, <2>1, <2>3, MatchKept
  <2>5. Cacheable'
    BY <2>1, <2>3 DEF Cacheable, ReqCacheable, ReqLocal
  <2> QED BY <2>1, <2>3, <2>4, <2>5 DEF Unsettled
<1> QED BY <1>2, <1>3

\* A read on the bus, or nothing, leaves memory as it is.
LEMMA BusReads ==
  ASSUME NEW m, NEW q \in Seq(Request), NEW p \in BOOLEAN, Len(q) = IF p THEN 1 ELSE 0,
         \A k \in DOMAIN q : q[k].we = ~p, NEW a, NEW l \in Lanes
  PROVE  Over(m, q, a)[l] = m[a][l]
<1>1. \A k \in DOMAIN q : q[k].we = FALSE
  <2>1. CASE p
    BY <2>1
  <2>2. CASE ~p
    <3>1. DOMAIN q = {}
      BY <2>2
    <3> QED BY <3>1
  <2> QED BY <2>1, <2>2
<1>2. Covering(q, a, l) = {}
  BY <1>1, ReadsCoverNothing
<1> QED BY <1>2, Uncovered

\* The refill's last word completes a line.
LEMMA LineFilled ==
  ASSUME TypeOK, TypeOK', BusInv, BusInv', Control, DataRead, NEW io \in IO, NEW ext \in Exts,
         Wired(io, ext), CoreEdge(io, ext), RefillLast(io), ~refill_invalidated_q, io.inv = {},
         NEW b \in Beat, NEW l \in Lanes
  PROVE  data_mem'[<<req.addr.index, b>>][l] =
           Over(memory', Drained', [req.addr EXCEPT !.beat = b])[l]
<1> DEFINE a == [req.addr EXCEPT !.beat = b]
<1>1. /\ state_q = "REFILL" /\ RefillResponse(io) /\ refill_beat_q = LineWords - 1
      /\ Cacheable /\ ~WriteAccept(io) /\ ~InvReq(io)
  BY DEF RefillLast, RefillResponse, LastBeat, Control, Kinds, WriteAccept, PassActive, InvReq
<1>2. /\ Edge(io) /\ MemoryStep(io, ext) /\ (io.ack => Owed(io) # <<>>) /\ RamWrite(io)
      /\ CountWrites(io)
  BY DEF CoreEdge, PortEdge, Edge, Datapath
<1>3. b < refill_beat_q \/ (RefillResponse(io) /\ b = refill_beat_q)
  BY <1>1, GeometryAssumption DEF Beat
<1>4. data_mem'[<<req.addr.index, b>>] = memory'[a]
  BY <1>1, <1>2, <1>3, RefillRead
<1>5. writes_pending_q = 0 /\ writes_pending_q' = 0
  BY <1>1, <1>2, NoWrites DEF BusInv, BusStates
<1>6. Refilling(io)
  BY <1>1, <1>2, Moves DEF Control, Sweeping, Opened, WriteAccept, PassActive, Missed, Passing, Relooking,
                     BringingIn
<1>7. Drained' = bus'
  BY <1>6 DEF Refilling, Drained
<1>8. Over(memory', bus', a)[l] = memory'[a][l]
  <2>1. /\ bus' \in Seq(Request) /\ pending_q' \in BOOLEAN
        /\ Len(bus') \in Nat
    BY DEF TypeOK, CacheTypeOK
  <2>2. Len(bus') = (IF pending_q' THEN 1 ELSE 0) /\ \A k \in DOMAIN bus' : bus'[k].we = ~pending_q'
    BY <1>5, <2>1 DEF BusInv, BusAccount
  <2> QED BY <2>1, <2>2, BusReads
<1> QED BY <1>4, <1>7, <1>8

\* LinesCoherent of one word.
LEMMA WordCoherent ==
  ASSUME TypeOK, LinesCoherent, NEW a \in Addr, a.tag \notin Uncached \cup Local,
         a.index \notin Unsettled, tag_mem[a.index] = [valid |-> TRUE, tag |-> a.tag]
  PROVE  data_mem[Slot(a)] = Over(memory, Drained, a)
<1> DEFINE i == a.index
<1>1. i \in Index \ Unsettled /\ a.beat \in Beat /\ tag_mem[i].valid /\ tag_mem[i].tag = a.tag
  BY DEF Addr
<1>2. data_mem[<<i, a.beat>>] =
        Overlaid(Drained, [tag |-> tag_mem[i].tag, index |-> i, beat |-> a.beat])
  BY <1>1 DEF LinesCoherent
<1>3. a = [tag |-> tag_mem[i].tag, index |-> i, beat |-> a.beat]
  BY <1>1 DEF Addr
<1> QED BY <1>2, <1>3 DEF Slot, Overlaid, Over

\* A line that is settled and valid after an edge was so before it, or is the one that
\* the edge completes.
LEMMA LineOrigin ==
  ASSUME TypeOK, TypeOK', BusInv, Control, LookedUp, Swept, NEW io \in IO,
         \A j, k \in io.inv : j = k, Edge(io), NEW a \in Addr, a.tag \notin Uncached \cup Local,
         a.index \notin Unsettled', tag_mem'[a.index].valid, tag_mem'[a.index].tag = a.tag
  PROVE  \/ /\ RefillLast(io) /\ ~refill_invalidated_q /\ io.inv = {}
            /\ a = [req.addr EXCEPT !.beat = a.beat]
         \/ /\ a.index \notin Unsettled /\ a.index \notin io.inv
            /\ tag_mem[a.index] = [valid |-> TRUE, tag |-> a.tag]
<1> DEFINE i == a.index
<1>1. /\ TagWrite(io) /\ i \in Index /\ a.beat \in Beat
      /\ tag_mem \in [Index -> TagWord] /\ tag_mem' \in [Index -> TagWord]
      /\ req.addr \in Addr /\ Kinds
  BY DEF Edge, Datapath, Addr, Control, TypeOK, CacheTypeOK, Request
<1>2. state_q # "CLEAR"
  <2> SUFFICES ASSUME state_q = "CLEAR" PROVE FALSE
    OBVIOUS
  <2>1. Sweeping(io)
    BY <1>1, Moves DEF Opened, Missed, Passing, Refilling, Relooking, BringingIn
  <2>2. i <= req.addr.index
    <3>1. CASE state_q' = "CLEAR"
      <4>1. req'.addr.index = req.addr.index + 1 /\ req.addr.index \in Nat /\ i \in Nat
        BY <1>1, <2>1, <3>1, SweepIndex, GeometryAssumption DEF Index
      <4>2. ~(i >= req'.addr.index)
        BY <1>1, <3>1 DEF Unsettled
      <4> QED BY <4>1, <4>2
    <3>2. CASE state_q' # "CLEAR"
      BY <1>1, <2>1, <3>2, SweepIndex
    <3> QED BY <3>1, <3>2
  <2> QED BY <1>1, <2>1, <2>2, SweepStep
<1>3. i \notin io.inv
  BY <1>1, <1>2, TagFacts
<1>4. CASE RefillLast(io) /\ i = req.addr.index
  <2>1. /\ state_q = "REFILL" /\ Refilling(io)
    BY <1>1, <1>4, Moves DEF RefillLast, RefillResponse, Sweeping, Opened, WriteAccept, PassActive, Missed,
                       Passing, Relooking, BringingIn
  <2>2. state_q' = "RELOOK" /\ req' = req /\ Cacheable /\ ~Match
    BY <1>1, <1>4, <2>1 DEF Refilling, Stayed, LookedUp
  <2>3. Cacheable'
    BY <2>2 DEF Cacheable, ReqCacheable, ReqLocal
  <2>4. Match'
    BY <1>1, <1>4, <2>2, <2>3 DEF Unsettled
  <2>5. ~refill_invalidated_q /\ io.inv = {}
    <3>1. tag_mem'[i] # tag_mem[i]
      BY <1>4, <2>2, <2>4 DEF Match
    <3> QED BY <1>1, <1>2, <1>3, <1>4, <3>1, TagFacts
  <2>6. a = [req.addr EXCEPT !.beat = a.beat]
    <3>1. tag_mem'[i].tag = req.addr.tag
      BY <1>4, <2>2, <2>4 DEF Match
    <3> QED BY <1>1, <1>4, <3>1 DEF Addr
  <2> QED BY <1>4, <2>5, <2>6
<1>5. CASE ~(RefillLast(io) /\ i = req.addr.index)
  <2>1. i \notin Unsettled
    <3>1. CASE RefillLast(io)
      BY <1>1, <1>2, <1>5, <3>1 DEF Unsettled
    <3>2. CASE ~RefillLast(io)
      BY <1>1, <1>2, <3>2, UnsettledStays
    <3> QED BY <3>1, <3>2
  <2>2. tag_mem'[i] = tag_mem[i]
    <3>1. state_q = "UNCACHED" => i # req.addr.index
      BY <1>1, <2>1 DEF Unsettled
    <3>2. CASE RefillLast(io)
      BY <1>1, <1>2, <1>3, <1>5, <3>2, TagFacts
    <3>3. CASE ~RefillLast(io)
      BY <1>1, <1>2, <1>3, <3>1, <3>3, TagFacts
    <3> QED BY <3>2, <3>3
  <2>3. tag_mem[i] = [valid |-> TRUE, tag |-> a.tag]
    BY <1>1, <2>2, WordMatches
  <2> QED BY <1>3, <2>1, <2>3
<1> QED BY <1>4, <1>5

\* A line that holds what it must after an edge, whether it did before or was filled.
LEMMA WordStep ==
  ASSUME TypeOK, TypeOK', BusInv, BusInv', PortInv, NEW io \in IO, NEW ext \in Exts,
         Wired(io, ext), CoreEdge(io, ext), NEW a \in Addr, a.tag \notin Uncached \cup Local,
         a.index \notin Unsettled', tag_mem'[a.index].valid, tag_mem'[a.index].tag = a.tag,
         NEW l \in Lanes
  PROVE  data_mem'[Slot(a)][l] = Over(memory', Drained', a)[l]
<1>1. /\ Edge(io) /\ Control /\ LookedUp /\ Swept /\ LinesCoherent /\ DataRead
      /\ a.index \in Index /\ a.beat \in Beat /\ (\A j, k \in io.inv : j = k)
  BY OneInvalidated DEF CoreEdge, PortEdge, PortInv, Addr, Control
<1>2. CASE /\ RefillLast(io) /\ ~refill_invalidated_q /\ io.inv = {}
           /\ a = [req.addr EXCEPT !.beat = a.beat]
  <2>1. data_mem'[<<req.addr.index, a.beat>>][l] =
          Over(memory', Drained', [req.addr EXCEPT !.beat = a.beat])[l]
    BY <1>1, <1>2, LineFilled
  <2>2. a.index = req.addr.index
    BY <1>2 DEF TypeOK, CacheTypeOK, Request, Addr
  <2> QED BY <1>2, <2>1, <2>2 DEF Slot
<1>3. CASE /\ a.index \notin Unsettled /\ a.index \notin io.inv
           /\ tag_mem[a.index] = [valid |-> TRUE, tag |-> a.tag]
  <2>1. data_mem[Slot(a)] = Over(memory, Drained, a)
    BY <1>1, <1>3, WordCoherent
  <2> DEFINE q == IF PassingStore THEN Append(bus, req) ELSE bus
  <2>2. data_mem'[Slot(a)][l] = Over(memory, q, a)[l]
    BY <1>1, <1>3, <2>1, LineStays
  <2>3. Over(memory', Drained', a)[l] = Over(After(ext), q, a)[l]
    BY <1>1, DrainedNext
  <2>4. After(ext)[a] = memory[a]
    BY <1>3, ForeignKept DEF After
  <2> HIDE DEF q
  <2>5. Over(memory, q, a)[l] = Over(After(ext), q, a)[l]
    BY <2>4, OverSame
  <2> QED BY <2>2, <2>3, <2>5
<1> QED BY <1>1, <1>2, <1>3, LineOrigin

LEMMA LinesStep ==
  ASSUME TypeOK, TypeOK', BusInv, BusInv', PortInv, NEW io \in IO, NEW ext \in Exts,
         Wired(io, ext), CoreEdge(io, ext)
  PROVE  LinesCoherent'
<1> SUFFICES ASSUME NEW i \in Index, i \notin Unsettled', NEW b \in Beat, tag_mem'[i].valid,
                    tag_mem'[i].tag \notin Uncached \cup Local
             PROVE  data_mem'[<<i, b>>] =
                      Over(memory', Drained', [tag |-> tag_mem'[i].tag, index |-> i, beat |-> b])
  BY DEF LinesCoherent, Overlaid, Over
<1> DEFINE a == [tag |-> tag_mem'[i].tag, index |-> i, beat |-> b]
           f == data_mem'[<<i, b>>]
<1>1. a \in Addr /\ Slot(a) = <<i, b>> /\ a.index = i /\ a.tag = tag_mem'[i].tag
  BY DEF TypeOK, CacheTypeOK, TagWord, Addr, Slot
<1>2. f \in RamWord
  BY DEF TypeOK, CacheTypeOK
<1> HIDE DEF a
<1>3. \A l \in Lanes : Over(memory', Drained', a)[l] = f[l]
  BY <1>1, WordStep
<1>4. DOMAIN f = Lanes /\ f = [l \in Lanes |-> f[l]]
  <2> HIDE DEF f
  <2> QED BY <1>2 DEF RamWord
<1> HIDE DEF f
<1>5. Over(memory', Drained', a) = f
  BY <1>3, <1>4, OverLanes
<1> QED BY <1>5 DEF a, f

-----------------------------------------------------------------------------
(* The invariant. *)

\* What the clock puts on the wires.
LEMMA StepWired ==
  ASSUME TypeOK, \E stall, ack \in BOOLEAN : Clock(stall, ack)
  PROVE  \E io \in IO, ext \in Exts : Wired(io, ext) /\ SystemEdge(io, ext)
<1>1. PICK stall \in BOOLEAN, ack \in BOOLEAN, ext \in Exts, r \in CpuRequests, stb \in BOOLEAN :
        SystemEdge(Inputs(stb, r, stall, ack, ext), ext)
  BY DEF Clock, Exts
<1> DEFINE base == [stb |-> stb, c |-> r, stall |-> stall, ack |-> ack,
                    rdata |-> UndefWord, inv |-> {x.addr.index : x \in ext}]
           io == Inputs(stb, r, stall, ack, ext)
           data == IF base.ack /\ Owed(base) # <<>> /\ ~Head(Owed(base)).we
                   THEN memory[Head(Owed(base)).addr] ELSE UndefWord
<1>2. io = [base EXCEPT !.rdata = data] /\ io \in IO
  BY InputsTyped DEF Inputs, WithReply
<1>3. io.ack = base.ack /\ io.stall = base.stall /\ io.inv = {x.addr.index : x \in ext}
      /\ io.rdata = data
  <2> HIDE DEF data, io
  <2> QED BY <1>2
<1>4. Owed(io) = Owed(base)
  <2> HIDE DEF base, io
  <2>1. MCmd(io) = MCmd(base)
    BY <1>3 DEF MCmd
  <2>2. Accepted(io) = Accepted(base)
    BY <1>3 DEF Accepted, MStb, PassReady
  <2> QED BY <2>1, <2>2 DEF Owed
<1>5. io.ack => Owed(io) # <<>>
  BY <1>1 DEF SystemEdge, PortEdge
<1> HIDE DEF base, io
<1>6. Wired(io, ext)
  BY <1>3, <1>4, <1>5 DEF Wired
<1> QED BY <1>1, <1>2, <1>6 DEF io

LEMMA PortKept ==
  ASSUME Settled, TypeOK, TypeOK', BusInv, BusInv', PortInv, NEW io \in IO, NEW ext \in Exts,
         Wired(io, ext), CoreEdge(io, ext)
  PROVE  PortInv'
<1>1. Edge(io) /\ Control /\ LookedUp /\ DataRead /\ Swept
  BY DEF CoreEdge, PortEdge, PortInv, Control
<1>2. Control'
  BY <1>1, ControlKept
<1>3. LookedUp'
  BY <1>1, LookedUpKept
<1>4. DataRead'
  BY <1>1, DataReadKept
<1>5. Swept'
  BY <1>1, SweptKept
<1>6. LinesCoherent'
  BY LinesStep
<1> QED BY <1>2, <1>3, <1>4, <1>5, <1>6 DEF PortInv, Control

\* A flush finds the port between two requests.
LEMMA FlushIdle ==
  ASSUME TypeOK, BusInv, PortInv, Flush
  PROVE  state_q \in {"IDLE", "CLEAR", "LOOKUP"} /\ Retained = <<>>
<1>1. waiting = NoRequest /\ state_q # "PASS" /\ ReadOnly
  BY DEF Flush, MCyc, PassActive
<1>2. req # NoRequest /\ ~req.we
  BY <1>1, RequestAssumption DEF TypeOK, CacheTypeOK, PortInv, FetchOnly
<1>3. state_q \in {"IDLE", "CLEAR", "LOOKUP"}
  BY <1>1, <1>2 DEF PortInv, Owner, TypeOK, CacheTypeOK, States
<1> QED BY <1>2, <1>3 DEF Retained

LEMMA ResetControl == ASSUME TypeOK, BusInv, Control, ReadOnly, IdleReset PROVE Control'
<1>1. /\ state_q' = "CLEAR" /\ writes_pending_q' = 0 /\ ~sram_ack_q' /\ bus' = bus
      /\ waiting' = NoRequest /\ req' = [req EXCEPT !.addr.index = 0]
  BY DEF IdleReset, ResetEdge
<1>2. req'.we = req.we
  BY <1>1 DEF TypeOK, CacheTypeOK, Request
<1>3. FetchOnly'
  BY <1>1, <1>2 DEF FetchOnly, Control
<1>4. OnlyCached'
  BY <1>1 DEF OnlyCached, Control
<1> QED BY <1>1, <1>3, <1>4 DEF Control, Owner, Kinds

\* and starts the sweep at the first line.
LEMMA ResetLines ==
  ASSUME TypeOK, ResetEdge
  PROVE  Unsettled' = Index /\ LookedUp' /\ Swept'
<1>1. /\ state_q' = "CLEAR" /\ refill_relook_q' = FALSE
      /\ req' = [req EXCEPT !.addr.index = 0]
  BY DEF ResetEdge
<1>2. req'.addr.index = 0 /\ Index \subseteq Nat
  BY <1>1, GeometryAssumption DEF TypeOK, CacheTypeOK, Request, Addr, Index
<1>3. \A i \in Index : i >= 0 /\ ~(i < 0)
  BY <1>2
<1> QED BY <1>1, <1>2, <1>3 DEF Unsettled, LookedUp, Swept

LEMMA FlushKeeps == ASSUME TypeOK, BusInv, PortInv, Flush PROVE PortInv'
<1>1. IdleReset /\ ReadOnly /\ Control
  BY FlushResets DEF Flush, PortInv, Control
<1>2. Control'
  BY <1>1, ResetControl
<1>3. Unsettled' = Index /\ LookedUp' /\ Swept'
  BY <1>1, ResetLines DEF IdleReset
<1>4. state_q' = "CLEAR" /\ ~sram_ack_q'
  BY <1>1 DEF IdleReset, ResetEdge
<1> QED BY <1>2, <1>3, <1>4 DEF Control, PortInv, DataRead, LookupData, LinesCoherent

LEMMA InitPort == ASSUME Init PROVE PortInv
<1>1. PICK r \in CpuRequests : CacheInit(r)
  BY DEF Init
<1>2. /\ state_q = "CLEAR" /\ writes_pending_q = 0 /\ refill_relook_q = FALSE
      /\ sram_ack_q = FALSE /\ bus = <<>> /\ waiting = NoRequest
      /\ req = [r EXCEPT !.addr.index = 0]
  BY <1>1, Zenon DEF Init, CacheInit
<1>3. req.we = r.we /\ req.addr.index = 0 /\ Index \subseteq Nat
  BY <1>2, GeometryAssumption, RequestAssumption DEF Request, Addr, Index
<1>4. \A i \in Index : i >= 0 /\ ~(i < 0)
  BY <1>3
<1>5. Control
  <2>1. FetchOnly
    BY <1>2, <1>3, RequestAssumption DEF FetchOnly
  <2>2. OnlyCached
    BY <1>2 DEF OnlyCached
  <2> QED BY <1>2, <2>1, <2>2 DEF Control, Owner, Kinds
<1>6. Unsettled = Index
  BY <1>2, <1>3, <1>4 DEF Unsettled
<1> QED BY <1>2, <1>3, <1>4, <1>5, <1>6
    DEF Control, PortInv, LookedUp, DataRead, LookupData, Swept, LinesCoherent

\* Where nothing changes everything stays so.
LEMMA PortIdle ==
  ASSUME UNCHANGED vars
  PROVE  /\ Control => Control'
         /\ LookedUp => LookedUp'
         /\ DataRead => DataRead'
         /\ Swept => Swept'
         /\ LinesCoherent => LinesCoherent'
<1>1. UNCHANGED <<cacheVars, envVars>>
  BY DEF vars
<1>2. Control => Control'
  BY <1>1 DEF cacheVars, envVars, Control, FetchOnly, OnlyCached, Owner, Kinds, Cacheable, ReqLocal,
              ReqCacheable
<1>3. (LookedUp => LookedUp') /\ (DataRead => DataRead') /\ (Swept => Swept')
  BY <1>1 DEF cacheVars, envVars, LookedUp, DataRead, LookupData, Filled, Swept, Match, Hit,
              TagMatches, ReqLocal, Slot
<1>4. ASSUME LinesCoherent PROVE LinesCoherent'
  <2>1. Unsettled' = Unsettled
    BY <1>1 DEF cacheVars, Unsettled, Match, Cacheable, ReqLocal, ReqCacheable
  <2>2. Drained' = Drained
    BY <1>1 DEF cacheVars, envVars, Drained, Retained, ReqLocal
  <2>3. tag_mem' = tag_mem /\ data_mem' = data_mem /\ memory' = memory
    BY <1>1 DEF cacheVars, envVars
  <2> SUFFICES ASSUME NEW i \in Index, i \notin Unsettled', NEW b \in Beat, tag_mem'[i].valid,
                      tag_mem'[i].tag \notin Uncached \cup Local
               PROVE  data_mem'[<<i, b>>] =
                        Over(memory', Drained', [tag |-> tag_mem'[i].tag, index |-> i, beat |-> b])
    BY DEF LinesCoherent, Overlaid, Over
  <2>4. data_mem[<<i, b>>] =
          Over(memory, Drained, [tag |-> tag_mem[i].tag, index |-> i, beat |-> b])
    BY <1>4, <2>1, <2>3 DEF LinesCoherent, Overlaid, Over
  <2> QED BY <2>2, <2>3, <2>4
<1> QED BY <1>2, <1>3, <1>4

\* The inductive invariant: whose request the registers hold, what the look-up found
\* and what the RAMs hold, beside what LinesCoherent says of the lines.
THEOREM PortInvariant == ASSUME Settled PROVE Spec => []PortInv
<1>1. Init => PortInv
  BY InitPort
<1>2. TypeOK /\ TypeOK' /\ BusInv /\ BusInv' /\ PortInv /\ [Next]_vars => PortInv'
  <2> SUFFICES ASSUME TypeOK, TypeOK', BusInv, BusInv', PortInv, [Next]_vars PROVE PortInv'
    OBVIOUS
  <2>1. CASE \E stall, ack \in BOOLEAN : Clock(stall, ack)
    BY <2>1, StepWired, SystemCore, PortKept
  <2>2. CASE Flush
    BY <2>2, FlushKeeps
  <2>3. CASE UNCHANGED vars
    BY <2>3, PortIdle DEF PortInv, Control
  <2> QED BY <2>1, <2>2, <2>3 DEF Next
<1> QED BY <1>1, <1>2, BusInvariant, TypeCorrect, PTL DEF Spec

\* LinesCoherent: a valid line holds what its addresses will hold in memory once the
\* posted stores have drained, so a hit may be answered from it.
THEOREM LinesKept == ASSUME Settled PROVE Spec => []LinesCoherent
<1>1. PortInv => LinesCoherent
  BY DEF PortInv
<1> QED BY <1>1, PortInvariant, PTL

\* HitsValid: a load is answered from its line only while the line is valid and holds
\* its address, whatever was invalidated since it was read.
THEOREM HitsRight == ASSUME Settled PROVE Spec => []HitsValid
<1>1. PortInv => HitsValid
  BY DEF PortInv, LookedUp, HitsValid, Cacheable
<1> QED BY <1>1, PortInvariant, PTL

-----------------------------------------------------------------------------
(* The flat memory. *)

\* What becomes of the store that the cache retains.
LEMMA RetainedNext ==
  ASSUME TypeOK, BusInv, Control, NEW io \in IO, Edge(io)
  PROVE  /\ CpuRequest(io) =>
              /\ Retained = <<>> \/ WriteAccept(io)
              /\ Retained' = IF io.c.we /\ io.c.addr.tag \notin Local THEN <<io.c>> ELSE <<>>
         /\ ~CpuRequest(io) =>
              \/ Retained' = <<>> /\ (Retained = <<>> \/ WriteAccept(io))
              \/ Retained' = <<req>> /\ Retained = <<req>> /\ ~WriteAccept(io)
<1>1. Kinds /\ BusInv
  BY DEF Control
<1>2. CASE Sweeping(io)
  BY <1>2 DEF Sweeping, Retained
<1>3. CASE Opened(io)
  <2>1. Retained = <<>> \/ WriteAccept(io)
    BY <1>3 DEF Opened, Retained, LookupReadHit
  <2>2. CASE io.stb
    <3>1. CpuRequest(io) /\ state_q' \in {"LOOKUP", "RELOOK"} /\ req' = io.c
      BY <1>3, <2>2 DEF Opened, CpuRequest, RequestState
    <3> QED BY <2>1, <3>1 DEF Retained, ReqLocal
  <2>3. CASE ~io.stb
    BY <1>3, <2>1, <2>3 DEF Opened, CpuRequest, Retained
  <2> QED BY <2>2, <2>3
<1>4. CASE Missed(io)
  BY <1>4 DEF Missed, Stayed, Cacheable, Retained
<1>5. CASE Passing(io)
  BY <1>5 DEF Passing, Stayed, PassResponse, Retained, ReqLocal
<1>6. CASE Refilling(io)
  BY <1>6 DEF Refilling, Stayed, Cacheable, Retained
<1>7. CASE Relooking(io)
  BY <1>7 DEF Relooking, Stayed, Retained, ReqLocal
<1>8. CASE BringingIn(io)
  BY <1>8 DEF BringingIn, Stayed, Retained
<1> QED BY <1>1, <1>2, <1>3, <1>4, <1>5, <1>6, <1>7, <1>8, Moves

\* What the port's memory is seen through: the posted stores and the retained one.
Queue == bus \o Retained

LEMMA QueueForm ==
  ASSUME TypeOK
  PROVE  /\ Retained = <<>> => Queue = bus
         /\ Retained = <<req>> => Queue = Append(bus, req)
         /\ Queue \in Seq(Request)
<1>1. bus \in Seq(Request) /\ req \in Request
  BY DEF TypeOK, CacheTypeOK
<1>2. Retained = <<>> \/ Retained = <<req>>
  BY DEF Retained
<1>3. Append(bus, req) \in Seq(Request)
  BY <1>1
<1> QED BY <1>1, <1>2, <1>3, Joined DEF Queue

\* An edge that frees the request registers leaves what is seen as it was.
LEMMA SeenThrough ==
  ASSUME TypeOK, BusInv, Control, NEW io \in IO, NEW ext \in Exts, CoreEdge(io, ext),
         Retained = <<>> \/ WriteAccept(io), NEW a \in Addr, a.tag \notin Local, NEW l \in Lanes
  PROVE  Over(memory', bus', a)[l] = Over(After(ext), Queue, a)[l]
<1>1. Over(memory', bus', a)[l] = Over(After(ext), Owed(io), a)[l]
  BY LandedBus DEF CoreEdge, PortEdge
<1>2. CASE WriteAccept(io)
  <2>1. ~ReqLocal /\ req.we /\ state_q \in {"LOOKUP", "PASS"}
    BY <1>2 DEF WriteAccept, PassActive, BusInv, BusStates, Control, Kinds
  <2>2. Retained = <<req>>
    BY <2>1 DEF Retained
  <2> QED BY <1>1, <1>2, <2>2, OwedOver, QueueForm
<1>3. CASE ~WriteAccept(io)
  <2>1. Over(After(ext), Owed(io), a)[l] = Over(After(ext), bus, a)[l]
    BY <1>3, OwedOver
  <2> QED BY <1>1, <1>3, <2>1, QueueForm
<1> QED BY <1>2, <1>3

\* So does one on which it stays.
LEMMA SeenUnder ==
  ASSUME TypeOK, TypeOK', BusInv, Control, NEW io \in IO, NEW ext \in Exts, CoreEdge(io, ext),
         Retained = <<req>>, ~WriteAccept(io), NEW a \in Addr, a.tag \notin Local, NEW l \in Lanes
  PROVE  Over(memory', Append(bus', req), a)[l] = Over(After(ext), Queue, a)[l]
<1>1. req \in Request /\ req.we /\ Queue = Append(bus, req)
  <2>1. <<req>> # <<>>
    OBVIOUS
  <2> QED BY <2>1, QueueForm DEF TypeOK, CacheTypeOK, Retained
<1>2. ~Accepted(io)
  BY <1>1, AcceptedCommand DEF Control
<1>3. Owed(io) = bus
  BY <1>2 DEF Owed
<1>4. Over(memory', Append(bus', req), a)[l] = Over(After(ext), Append(Owed(io), req), a)[l]
  BY <1>1, LandedUnder DEF CoreEdge, PortEdge
<1> QED BY <1>1, <1>3, <1>4

\* No store that is owed or retained is for the SRAM.
LEMMA LocalUncovered ==
  ASSUME NEW q \in Seq(Request), \A k \in DOMAIN q : q[k].addr.tag \notin Local,
         NEW a, a.tag \in Local, NEW l
  PROVE  Covering(q, a, l) = {}
  BY DEF Covering

LEMMA LocalQueue ==
  ASSUME TypeOK, OnlyCached
  PROVE  \A k \in DOMAIN Queue : Queue[k].addr.tag \notin Local
<1>1. bus \in Seq(Request) /\ req \in Request
  BY DEF TypeOK, CacheTypeOK
<1>2. CASE Retained = <<>>
  BY <1>2, QueueForm DEF OnlyCached
<1>3. CASE Retained # <<>>
  <2>1. Retained = <<req>> /\ req.addr.tag \notin Local
    BY <1>3 DEF Retained, ReqLocal
  <2>2. Queue = Append(bus, req)
    BY <2>1, QueueForm
  <2>3. ASSUME NEW k \in DOMAIN Append(bus, req)
        PROVE Append(bus, req)[k] = req \/ (k \in DOMAIN bus /\ Append(bus, req)[k] = bus[k])
    BY <1>1, <2>3
  <2> QED BY <2>1, <2>2, <2>3 DEF OnlyCached
<1> QED BY <1>2, <1>3

LEMMA SeenImage ==
  ASSUME NEW a \in Addr, NEW l \in Lanes
  PROVE  Image[a][l] = Over(memory, Queue, a)[l] /\ Image'[a][l] = Over(memory', Queue', a)[l]
  BY DEF Image, Queue, Overlaid, Over

\* What the flat memory shows of the SRAM is the SRAM.
LEMMA LocalImage ==
  ASSUME TypeOK, Control, NEW a \in Addr, a.tag \in Local, NEW m, NEW l \in Lanes
  PROVE  Over(m, Queue, a)[l] = m[a][l]
<1>1. Covering(Queue, a, l) = {}
  BY QueueForm, LocalQueue, LocalUncovered DEF Control
<1> QED BY <1>1, Uncovered

LEMMA LocalImageNext ==
  ASSUME TypeOK, TypeOK', BusInv, Control, Control', NEW io \in IO, Edge(io),
         NEW a \in Addr, a.tag \in Local, NEW l \in Lanes
  PROVE  Over(memory', Queue', a)[l] = memory'[a][l]
<1>1. bus' \in Seq(Request) /\ Covering(bus', a, l) = {}
  BY LocalUncovered DEF TypeOK, Control, OnlyCached
<1>2. CASE Retained' = <<>>
  BY <1>1, <1>2, Joined, Uncovered DEF Queue
<1>3. ASSUME NEW c \in Request, c.addr.tag \notin Local, Retained' = <<c>>
      PROVE  Over(memory', Queue', a)[l] = memory'[a][l]
  <2>1. Queue' = Append(bus', c)
    BY <1>1, <1>3, Joined DEF Queue
  <2>2. ~Covers(c, a, l)
    BY <1>3 DEF Covers
  <2>3. Over(memory', Append(bus', c), a)[l] = Over(memory', bus', a)[l]
    BY <1>1, <2>2, OverUncovered
  <2> QED BY <1>1, <2>1, <2>3, Uncovered
<1>4. Retained' = <<>> \/ \E c \in Request : c.addr.tag \notin Local /\ Retained' = <<c>>
  BY DEF Retained, ReqLocal, TypeOK, CacheTypeOK
<1> QED BY <1>2, <1>3, <1>4

\* The flat memory after an edge: what it was after the other master's write, but for
\* the store that the edge takes in.
LEMMA ImageNext ==
  ASSUME TypeOK, TypeOK', BusInv, Control, Control', NEW io \in IO, NEW ext \in Exts,
         Wired(io, ext), CoreEdge(io, ext), NEW a \in Addr, NEW l \in Lanes
  PROVE  /\ CpuRequest(io) /\ Covers(io.c, a, l) => Image'[a][l] = io.c.wdata[l]
         /\ ~(CpuRequest(io) /\ Covers(io.c, a, l)) =>
              Image'[a][l] = Over(After(ext), Queue, a)[l]
<1>1. /\ Edge(io) /\ bus' \in Seq(Request) /\ io.c \in Request /\ MemoryStep(io, ext)
      /\ (io.ack => Owed(io) # <<>>)
  BY RequestAssumption DEF CoreEdge, PortEdge, TypeOK, IO
<1>2. Image'[a][l] = Over(memory', Queue', a)[l]
  BY SeenImage
<1>3. CASE a.tag \in Local
  <2>1. Image'[a][l] = memory'[a][l]
    BY <1>1, <1>2, <1>3, LocalImageNext
  <2>2. Over(After(ext), Queue, a)[l] = memory[a][l]
    <3>1. Foreign(ext, a) = memory[a]
      BY <1>3, ForeignKept
    <3>2. After(ext)[a] = memory[a]
      BY <3>1 DEF After
    <3> QED BY <1>3, <3>2, LocalImage
  <2>3. memory'[a] = IF CpuRequest(io) /\ io.c.we /\ io.c.addr = a
                     THEN Merge(memory[a], io.c.sel, io.c.wdata) ELSE memory[a]
    BY <1>1, <1>3, SramAt
  <2>4. CASE CpuRequest(io) /\ io.c.we /\ io.c.addr = a
    <3>1. memory'[a][l] = IF l \in io.c.sel THEN io.c.wdata[l] ELSE memory[a][l]
      BY <2>3, <2>4 DEF Merge
    <3> QED BY <2>1, <2>2, <2>4, <3>1 DEF Covers
  <2>5. CASE ~(CpuRequest(io) /\ io.c.we /\ io.c.addr = a)
    BY <2>1, <2>2, <2>3, <2>5 DEF Covers
  <2> QED BY <2>4, <2>5
<1>4. CASE a.tag \notin Local /\ CpuRequest(io)
  <2>1. Retained = <<>> \/ WriteAccept(io)
    BY <1>1, <1>4, RetainedNext
  <2>2. Over(memory', bus', a)[l] = Over(After(ext), Queue, a)[l]
    BY <1>4, <2>1, SeenThrough
  <2>3. Retained' = IF io.c.we /\ io.c.addr.tag \notin Local THEN <<io.c>> ELSE <<>>
    BY <1>1, <1>4, RetainedNext
  <2>4. CASE io.c.we /\ io.c.addr.tag \notin Local
    <3>1. Queue' = Append(bus', io.c)
      BY <1>1, <2>3, <2>4, Joined DEF Queue
    <3>2. CASE Covers(io.c, a, l)
      <4>1. Over(memory', Append(bus', io.c), a)[l] = io.c.wdata[l]
        BY <1>1, <3>2, OverCovered
      <4> QED BY <1>2, <1>4, <3>1, <3>2, <4>1
    <3>3. CASE ~Covers(io.c, a, l)
      <4>1. Over(memory', Append(bus', io.c), a)[l] = Over(memory', bus', a)[l]
        BY <1>1, <3>3, OverUncovered
      <4> QED BY <1>2, <2>2, <3>1, <3>3, <4>1
    <3> QED BY <3>2, <3>3
  <2>5. CASE ~(io.c.we /\ io.c.addr.tag \notin Local)
    <3>1. ~Covers(io.c, a, l)
      BY <1>4, <2>5 DEF Covers
    <3>2. Queue' = bus'
      BY <1>1, <2>3, <2>5, Joined DEF Queue
    <3> QED BY <1>2, <2>2, <3>1, <3>2
  <2> QED BY <2>4, <2>5
<1>5. CASE a.tag \notin Local /\ ~CpuRequest(io)
  <2>1. CASE Retained' = <<>> /\ (Retained = <<>> \/ WriteAccept(io))
    <3>1. Queue' = bus'
      BY <1>1, <2>1, Joined DEF Queue
    <3>2. Over(memory', bus', a)[l] = Over(After(ext), Queue, a)[l]
      BY <1>5, <2>1, SeenThrough
    <3> QED BY <1>2, <1>5, <3>1, <3>2
  <2>2. CASE Retained' = <<req>> /\ Retained = <<req>> /\ ~WriteAccept(io)
    <3>1. Queue' = Append(bus', req)
      BY <1>1, <2>2, Joined DEF Queue, TypeOK, CacheTypeOK
    <3>2. Over(memory', Append(bus', req), a)[l] = Over(After(ext), Queue, a)[l]
      BY <1>5, <2>2, SeenUnder
    <3> QED BY <1>2, <1>5, <3>1, <3>2
  <2> QED BY <1>1, <1>5, <2>1, <2>2, RetainedNext
<1> QED BY <1>3, <1>4, <1>5

\* The other master's write as the flat memory sees it: older than every store owed.
Beneath(ext) == [a \in Addr |-> Over(After(ext), Queue, a)]

LEMMA CoveredSame ==
  ASSUME NEW m, NEW n, NEW q, NEW a, NEW l \in Lanes, Covering(q, a, l) # {}
  PROVE  Over(m, q, a)[l] = Over(n, q, a)[l]
  BY DEF Over

LEMMA BeneathExternal ==
  ASSUME NEW ext \in Exts
  PROVE  Beneath(ext) \in Port!External(ext)
<1> DEFINE mem == Beneath(ext)
<1>1. Image = [a \in Addr |-> Over(memory, Queue, a)]
  BY DEF Image, Queue, Overlaid, Over
<1>2. ASSUME NEW a \in Addr, Foreign(ext, a) = memory[a]
      PROVE  mem[a] = Image[a]
  <2>1. After(ext)[a] = memory[a]
    BY <1>2 DEF After
  <2>2. Over(After(ext), Queue, a) = Over(memory, Queue, a)
    BY <2>1 DEF Over
  <2> QED BY <1>1, <2>2 DEF Beneath
<1>3. CASE ext = {}
  <2>1. \A a \in Addr : mem[a] = Image[a]
    BY <1>2, <1>3 DEF Foreign
  <2>2. mem = Image
    BY <1>1, <2>1 DEF Beneath
  <2> QED BY <1>3, <2>2 DEF Port!External
<1>4. ASSUME NEW x \in ExtWrites, ext = {x}
      PROVE  mem \in Port!External(ext)
  <2> DEFINE lanes == {l \in Lanes : Covering(Queue, x.addr, l) = {}}
             w == Port!Overlay(Image[x.addr], lanes, x.wdata)
  <2>1. x.addr \in Addr
    BY RequestAssumption
  <2>2. \A a \in Addr : a # x.addr => mem[a] = Image[a]
    BY <1>2, <1>4 DEF Foreign
  <2>3. mem[x.addr] = w
    <3>1. After(ext)[x.addr] = x.wdata
      <4>1. \E y \in ext : y.addr = x.addr
        BY <1>4
      <4>2. (CHOOSE y \in ext : y.addr = x.addr) = x
        BY <1>4
      <4> QED BY <2>1, <4>1, <4>2 DEF After, Foreign
    <3>2. ASSUME NEW l \in Lanes
          PROVE  Over(After(ext), Queue, x.addr)[l] = w[l]
      <4>1. w[l] = IF l \in lanes THEN x.wdata[l] ELSE Image[x.addr][l]
        BY DEF Port!Overlay
      <4>2. Image[x.addr][l] = Over(memory, Queue, x.addr)[l]
        BY <1>1, <2>1
      <4>3. CASE Covering(Queue, x.addr, l) = {}
        BY <3>1, <4>1, <4>3, Uncovered
      <4>4. CASE Covering(Queue, x.addr, l) # {}
        BY <4>1, <4>2, <4>4, CoveredSame
      <4> QED BY <4>3, <4>4
    <3>3. DOMAIN w = Lanes /\ w = [l \in Lanes |-> w[l]]
      BY DEF Port!Overlay
    <3> HIDE DEF w
    <3>4. Over(After(ext), Queue, x.addr) = w
      BY <3>2, <3>3, OverLanes
    <3> QED BY <2>1, <3>4 DEF Beneath
  <2> HIDE DEF w
  <2>4. mem = [Image EXCEPT ![x.addr] = w]
    <3>1. DOMAIN mem = Addr /\ mem = [a \in Addr |-> mem[a]]
      BY DEF Beneath
    <3>2. DOMAIN Image = Addr /\ Image = [a \in Addr |-> Image[a]]
      BY <1>1
    <3> HIDE DEF mem
    <3> QED BY <2>1, <2>2, <2>3, <3>1, <3>2
  <2>5. mem \in Port!Snooped(Image, x)
    <3>1. mem = [Image EXCEPT ![x.addr] = Port!Overlay(@, lanes, x.wdata)]
      BY <2>4 DEF w
    <3> HIDE DEF mem
    <3> QED BY <3>1 DEF Port!Snooped
  <2> HIDE DEF mem
  <2> QED BY <1>4, <2>5 DEF Port!External
<1> QED BY <1>3, <1>4 DEF Exts

\* A load is answered with what the flat memory holds.
LEMMA AnswerRight ==
  ASSUME TypeOK, BusInv, PortInv, NEW io \in IO, CpuAck(io), waiting # NoRequest, ~waiting.we
  PROVE  CpuData = Image[waiting.addr]
<1> DEFINE a == req.addr
<1>1. /\ a \in Addr /\ Control /\ DataRead /\ LookedUp /\ LinesCoherent /\ Kinds /\ Owner
      /\ req \in Request /\ bus \in Seq(Request) /\ state_q \in States
  BY DEF TypeOK, CacheTypeOK, Request, PortInv, Control
<1>2. waiting = req
  <2>1. CASE SramAck
    BY <1>1, <2>1 DEF SramAck, Owner, Kinds
  <2>2. CASE ~SramAck
    BY <1>1, <2>2 DEF CpuAck, CAck, StorePosted, LookupReadHit, LookupHit, Owner, Kinds
  <2> QED BY <2>1, <2>2
<1>3. ~req.we /\ Retained = <<>> /\ Queue = bus
  <2>1. ~req.we /\ Retained = <<>>
    BY <1>2 DEF Retained
  <2> QED BY <2>1, QueueForm
<1>4. ASSUME NEW w, w \in RamWord, \A l \in Lanes : Over(memory, Queue, a)[l] = w[l]
      PROVE  Image[a] = w
  <2>1. DOMAIN w = Lanes /\ w = [l \in Lanes |-> w[l]]
    BY <1>4 DEF RamWord
  <2>2. Over(memory, Queue, a) = w
    BY <1>4, <2>1, OverLanes
  <2> QED BY <1>1, <2>2 DEF Image, Queue, Overlaid, Over
<1>5. memory[a] \in RamWord
  BY <1>1, WordTyped DEF TypeOK
<1>6. CASE SramAck
  <2>1. ReqLocal /\ CpuData = memory[a]
    BY <1>1, <1>3, <1>6 DEF SramAck, CpuData, DataRead
  <2>2. \A l \in Lanes : Over(memory, Queue, a)[l] = memory[a][l]
    BY <1>1, <2>1, LocalImage DEF ReqLocal
  <2> QED BY <1>2, <1>4, <1>5, <2>1, <2>2
<1>7. CASE ~SramAck /\ state_q = "LOOKUP" /\ LookupReadHit(io)
  <2>1. CpuData = data_mem[Slot(a)] /\ data_mem[Slot(a)] \in RamWord
    <3>1. Slot(a) \in Index \X Beat
      BY <1>1, SlotTyped
    <3> QED BY <1>1, <1>3, <1>7, <3>1 DEF CpuData, DataRead, LookupData, TypeOK, CacheTypeOK
  <2>2. Match /\ ~ReqLocal /\ ReqCacheable
    BY <1>1, <1>7 DEF LookupReadHit, LookupHit, LookedUp, Hit
  <2>3. a.index \notin Unsettled
    BY <1>7, <2>2 DEF Unsettled
  <2>4. data_mem[Slot(a)] = Over(memory, Drained, a)
    BY <1>1, <2>2, <2>3, WordCoherent DEF Match, ReqLocal, ReqCacheable
  <2>5. Drained = Queue
    BY <1>3, <1>7 DEF Drained
  <2> QED BY <1>2, <1>4, <2>1, <2>4, <2>5
<1>8. CASE ~SramAck /\ state_q = "REPLY"
  <2>1. CpuData = memory[a] /\ writes_pending_q = 0
    BY <1>1, <1>8 DEF CpuData, DataRead, Kinds
  <2>2. pending_q \in BOOLEAN /\ Len(bus) \in Nat
    BY <1>1 DEF TypeOK, CacheTypeOK
  <2>3. Len(bus) = (IF pending_q THEN 1 ELSE 0) /\ \A k \in DOMAIN bus : bus[k].we = ~pending_q
    BY <2>1, <2>2 DEF BusInv, BusAccount
  <2>4. \A l \in Lanes : Over(memory, bus, a)[l] = memory[a][l]
    BY <1>1, <2>2, <2>3, BusReads
  <2> QED BY <1>2, <1>3, <1>4, <1>5, <2>1, <2>4
<1> QED BY <1>3, <1>6, <1>7, <1>8 DEF CpuAck, CAck, StorePosted

\* An edge of the cache is a step of the flat memory.
LEMMA EdgeImplements ==
  ASSUME TypeOK, TypeOK', BusInv, PortInv, PortInv', NEW io \in IO, NEW ext \in Exts,
         Wired(io, ext), CoreEdge(io, ext)
  PROVE  Port!Next
<1> DEFINE reply == CpuAck(io) /\ waiting # NoRequest
           offer == IF CpuRequest(io) THEN {io.c} ELSE {}
           mem == Beneath(ext)
<1>1. /\ Control /\ Control' /\ CpuStep(io) /\ io.c \in CpuRequests /\ io.c \in Request
      /\ (io.stb => CpuMayOffer(io))
  BY RequestAssumption DEF CoreEdge, PortEdge, PortInv, Control, IO
<1>2. waiting' = IF CpuRequest(io) THEN io.c ELSE IF CpuAck(io) THEN NoRequest ELSE waiting
  BY <1>1 DEF CpuStep
<1>3. offer = {} => waiting' = IF reply THEN NoRequest ELSE waiting
  BY <1>2
<1>4. offer # {} => (waiting = NoRequest \/ reply) /\ waiting' \in offer
  BY <1>1, <1>2 DEF CpuMayOffer, CpuRequest
<1>5. IF reply THEN Port!Reply ELSE got' = {}
  <2>1. got' = IF reply /\ ~waiting.we THEN {CpuData} ELSE {}
    BY <1>1 DEF CpuStep
  <2>2. reply /\ ~waiting.we => CpuData = Image[waiting.addr]
    BY AnswerRight
  <2> QED BY <2>1, <2>2 DEF Port!Reply
<1>6. mem \in Port!External(ext)
  BY BeneathExternal
<1>7. Image' = [a \in Addr |-> [l \in Lanes |-> Image'[a][l]]]
  <2>1. Image' = [a \in Addr |-> Over(memory', Queue', a)]
    BY DEF Image, Queue, Overlaid, Over
  <2>2. \A a \in Addr : Over(memory', Queue', a) = [l \in Lanes |-> Over(memory', Queue', a)[l]]
    BY DEF Over
  <2> QED BY <2>1, <2>2
<1>8. mem = [a \in Addr |-> [l \in Lanes |-> mem[a][l]]]
  BY DEF Beneath, Over
<1>9. \A a \in Addr, l \in Lanes : mem[a][l] = Over(After(ext), Queue, a)[l]
  BY DEF Beneath
<1> HIDE DEF mem
<1>10. CASE CpuRequest(io) /\ io.c.we
  <2> DEFINE c == io.c
             new == Port!Overlay(mem[c.addr], c.sel, c.wdata)
             n == [mem EXCEPT ![c.addr] = new]
  <2>1. c.addr \in Addr
    BY <1>1 DEF Request
  <2>2. \A a \in Addr, l \in Lanes : n[a][l] = IF Covers(c, a, l) THEN c.wdata[l] ELSE mem[a][l]
    <3> TAKE a \in Addr, l \in Lanes
    <3>1. n[a] = IF a = c.addr THEN new ELSE mem[a]
      BY <1>8, <2>1
    <3>2. new[l] = IF l \in c.sel THEN c.wdata[l] ELSE mem[c.addr][l]
      BY DEF Port!Overlay
    <3> QED BY <1>10, <3>1, <3>2 DEF Covers
  <2>3. \A a \in Addr, l \in Lanes : n[a][l] = Image'[a][l]
    <3> TAKE a \in Addr, l \in Lanes
    <3>1. CASE Covers(c, a, l)
      <4>1. Image'[a][l] = c.wdata[l]
        BY <1>1, <1>10, <3>1, ImageNext
      <4> QED BY <2>2, <3>1, <4>1
    <3>2. CASE ~Covers(c, a, l)
      <4>1. Image'[a][l] = Over(After(ext), Queue, a)[l]
        BY <1>1, <3>2, ImageNext
      <4> QED BY <1>9, <2>2, <3>2, <4>1
    <3> QED BY <3>1, <3>2
  <2>4. n = [a \in Addr |-> [l \in Lanes |-> n[a][l]]]
    <3>1. n = [a \in Addr |-> n[a]]
      BY <1>8, <2>1
    <3>2. \A a \in Addr : n[a] = [l \in Lanes |-> n[a][l]]
      <4> TAKE a \in Addr
      <4>1. n[a] = IF a = c.addr THEN new ELSE mem[a]
        BY <1>8, <2>1
      <4>2. new = [l \in Lanes |-> new[l]]
        BY DEF Port!Overlay
      <4>3. mem[a] = [l \in Lanes |-> mem[a][l]]
        BY <1>8
      <4> HIDE DEF new, n
      <4> QED BY <4>1, <4>2, <4>3
    <3> HIDE DEF n
    <3> QED BY <3>1, <3>2
  <2> HIDE DEF n
  <2>5. Image' = n
    BY <1>7, <2>3, <2>4
  <2>6. Image' = Port!WithWrite(mem, waiting')
    BY <1>2, <1>10, <2>5 DEF n, Port!WithWrite
  <2>7. Port!Step(reply, {io.c}, ext)
    BY <1>2, <1>3, <1>4, <1>5, <1>6, <1>10, <2>6 DEF Port!Step
  <2> QED BY <1>1, <2>7 DEF Port!Next, Exts
<1>11. CASE ~(CpuRequest(io) /\ io.c.we)
  <2>1. \A a \in Addr, l \in Lanes : Image'[a][l] = mem[a][l]
    <3> TAKE a \in Addr, l \in Lanes
    <3>1. ~(CpuRequest(io) /\ Covers(io.c, a, l))
      BY <1>11 DEF Covers
    <3>2. Image'[a][l] = Over(After(ext), Queue, a)[l]
      BY <1>1, <3>1, ImageNext
    <3> QED BY <1>9, <3>2
  <2>2. Image' = mem
    BY <1>7, <1>8, <2>1
  <2>3. ~(offer # {} /\ waiting'.we)
    BY <1>2, <1>11
  <2>4. Port!Step(reply, offer, ext)
    BY <1>3, <1>4, <1>5, <1>6, <2>2, <2>3 DEF Port!Step
  <2>5. offer \in {{}} \cup {{r} : r \in CpuRequests}
    BY <1>1
  <2> HIDE DEF offer
  <2> QED BY <2>4, <2>5 DEF Port!Next, Exts
<1> QED BY <1>10, <1>11

\* A flush is one on which nothing happens.
LEMMA FlushImplements ==
  ASSUME TypeOK, BusInv, PortInv, Flush
  PROVE  Port!Next
<1>1. Retained = <<>> /\ Retained' = <<>>
  BY FlushIdle DEF Flush, ResetEdge, Retained
<1>2. bus' = bus /\ memory' = memory /\ waiting' = waiting /\ got' = {} /\ waiting = NoRequest
  BY DEF Flush
<1>3. Image' = Image
  BY <1>1, <1>2 DEF Image, Overlaid
<1>4. Port!Step(FALSE, {}, {})
  BY <1>2, <1>3 DEF Port!Step, Port!External
<1> QED BY <1>4 DEF Port!Next

\* The flat memory starts as the backing memory and the SRAM do.
LEMMA InitImplements == ASSUME Init PROVE Port!Init
<1>1. /\ bus = <<>> /\ waiting = NoRequest /\ got = {} /\ memory \in [Addr -> Word]
      /\ state_q = "CLEAR"
  BY RequestAssumption, Zenon DEF Init, CacheInit
<1>2. Retained = <<>>
  BY <1>1 DEF Retained
<1>3. \A a \in Addr, l \in Lanes : Covering(bus \o Retained, a, l) = {}
  BY <1>1, <1>2 DEF Covering
<1>4. Image = [a \in Addr |-> [l \in Lanes |-> memory[a][l]]]
  BY <1>3 DEF Image, Overlaid
<1>5. Image \in [Addr -> Word]
  BY <1>1, <1>4 DEF Word
<1> QED BY <1>1, <1>5 DEF Port!Init

\* ImplementsPort: behind the port is one flat memory.  Requests complete in order and
\* a load is answered with what the memory holds then, every older store included,
\* whatever the hits, misses, refills, bypasses, posted stores, invalidations, flushes
\* and bus delays between them.
THEOREM PortImplemented == ASSUME Settled PROVE Spec => ImplementsPort
<1>1. Init => Port!Init
  BY InitImplements
<1>2. TypeOK /\ TypeOK' /\ BusInv /\ PortInv /\ PortInv' /\ [Next]_vars => [Port!Next]_(Port!portVars)
  <2> SUFFICES ASSUME TypeOK, TypeOK', BusInv, PortInv, PortInv', [Next]_vars
               PROVE  [Port!Next]_(Port!portVars)
    OBVIOUS
  <2>1. CASE \E stall, ack \in BOOLEAN : Clock(stall, ack)
    BY <2>1, StepWired, SystemCore, EdgeImplements
  <2>2. CASE Flush
    BY <2>2, FlushImplements
  <2>3. CASE UNCHANGED vars
    BY <2>3 DEF vars, cacheVars, envVars, Port!portVars, Image, Overlaid, Covering, Retained, ReqLocal
  <2> QED BY <2>1, <2>2, <2>3 DEF Next
<1> QED BY <1>1, <1>2, TypeCorrect, BusInvariant, PortInvariant, PTL DEF Spec, ImplementsPort, Port!Spec
=============================================================================
