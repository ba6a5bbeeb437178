------------------------- MODULE CachedMemoryProofs -------------------------
(***************************************************************************)
(* Proofs about CachedMemory: two caches on one backing port.              *)
(*                                                                         *)
(*   PortShared       an answer reaches the cache whose command it answers,*)
(*                    a refill is not broken up, a flush takes nothing away*)
(*   DataImplemented  the data port still has a flat memory behind it      *)
(*   FetchesAreFresh  a fetch of a word that no store has touched since the*)
(*                    last flush sees every older store                    *)
(*                                                                         *)
(* What CacheSystem's proofs say of one cache is said of each of the two   *)
(* here: of the data cache in full, of the instruction cache without what  *)
(* they say of memory, which the data cache writes behind its back.        *)
(***************************************************************************)
EXTENDS CachedMemory, TLAPS

\* The commands of one cache that the backing memory owes answers to.
Cmds == [k \in DOMAIN bus |-> bus[k].cmd]
Of(port) == IF bus # <<>> /\ bus[1].port = port THEN Cmds ELSE <<>>
DBus == Of("D")
IBus == Of("I")

DS == INSTANCE CacheSystemProofs WITH
  Local <- {}, RegisterLookup <- FALSE, ReadOnly <- FALSE,
  CpuRequests <- DataRequests, ExtWrites <- {},
  state_q <- d_state_q, req <- d_req, pending_q <- d_pending_q,
  refill_beat_q <- d_refill_beat_q, refill_invalidated_q <- d_refill_invalidated_q,
  writes_pending_q <- d_writes_pending_q, tag_word <- d_tag_word,
  tag_invalidated_q <- d_tag_invalidated_q, tag_hit_q <- d_tag_hit_q,
  refill_relook_q <- d_refill_relook_q, tag_mem <- d_tag_mem,
  data_mem <- d_data_mem, read_data_q <- d_read_data_q,
  bus <- DBus, waiting <- d_waiting, got <- d_got,
  sram_ack_q <- FALSE, sram_data_q <- D!UndefWord, held <- NoRequest

IS == INSTANCE CacheSystemProofs WITH
  Local <- {}, RegisterLookup <- FetchLookup, ReadOnly <- TRUE,
  CpuRequests <- Fetches, ExtWrites <- {},
  state_q <- i_state_q, req <- i_req, pending_q <- i_pending_q,
  refill_beat_q <- i_refill_beat_q, refill_invalidated_q <- i_refill_invalidated_q,
  writes_pending_q <- i_writes_pending_q, tag_word <- i_tag_word,
  tag_invalidated_q <- i_tag_invalidated_q, tag_hit_q <- i_tag_hit_q,
  refill_relook_q <- i_refill_relook_q, tag_mem <- i_tag_mem,
  data_mem <- i_data_mem, read_data_q <- i_read_data_q,
  bus <- IBus, waiting <- i_waiting, got <- {},
  sram_ack_q <- FALSE, sram_data_q <- I!UndefWord, held <- NoRequest

-----------------------------------------------------------------------------
(* One cache of the proofs is one cache of the model. *)

\* Both caches have the addresses, words and commands of the port.
LEMMA Types ==
  /\ DS!Addr = D!Addr /\ DS!Word = D!Word /\ DS!RamWord = D!RamWord /\ DS!Request = D!Request
  /\ IS!Addr = D!Addr /\ IS!Word = D!Word /\ IS!RamWord = D!RamWord /\ IS!Request = D!Request
  BY DEF D!Addr, D!Index, D!Beat, D!Word, D!RamWord, D!Request,
         DS!Addr, DS!Index, DS!Beat, DS!Word, DS!RamWord, DS!Request,
         IS!Addr, IS!Index, IS!Beat, IS!Word, IS!RamWord, IS!Request

\* What the proofs about a cache assume holds of the data cache
LEMMA DataAssumed ==
  /\ Lines \in Nat \ {0} /\ LineWords \in Nat \ {0} /\ Uncached \subseteq Tags
  /\ {} \subseteq Tags /\ Undef \notin Values /\ FALSE \in BOOLEAN
  /\ DataRequests \subseteq DS!Request /\ DataRequests # {} /\ NoRequest \notin DS!Request
  /\ FALSE => \A r \in DataRequests : ~r.we
  /\ \A x \in {} : /\ x.addr \in DS!Addr /\ x.wdata \in DS!Word
                   /\ x.addr.tag \notin Uncached \cup {}
  /\ InitMemories \subseteq [DS!Addr -> DS!Word]
  BY MemoryAssumption, Types

\* and of the instruction cache.
LEMMA FetchAssumed ==
  /\ Lines \in Nat \ {0} /\ LineWords \in Nat \ {0} /\ Uncached \subseteq Tags
  /\ {} \subseteq Tags /\ Undef \notin Values /\ FetchLookup \in BOOLEAN /\ TRUE \in BOOLEAN
  /\ Fetches \subseteq IS!Request /\ Fetches # {} /\ NoRequest \notin IS!Request
  /\ TRUE => \A r \in Fetches : ~r.we
  /\ \A x \in {} : /\ x.addr \in IS!Addr /\ x.wdata \in IS!Word
                   /\ x.addr.tag \notin Uncached \cup {}
  /\ InitMemories \subseteq [IS!Addr -> IS!Word]
  BY MemoryAssumption, Types

\* What the wires show at an edge.
DIo(p) == WithData(DPort(p), p)
IIo(p) == WithData(IPort(p), p)

LEMMA DataSame ==
  ASSUME NEW io
  PROVE  /\ D!Edge(io) <=> DS!Edge(io)
         /\ D!CacheTypeOK <=> DS!CacheTypeOK
         /\ D!CacheTypeOK' <=> DS!CacheTypeOK'
<1>1. D!Edge(io) <=> DS!Edge(io)
  BY DEF D!Index, DS!Index, D!Beat, DS!Beat, D!LastBeat, DS!LastBeat, D!Addr, DS!Addr,
         D!Word, DS!Word, D!RamWord, DS!RamWord, D!UndefWord, DS!UndefWord, D!TagWord,
         DS!TagWord, D!Request, DS!Request, D!States, DS!States, D!MaxWrites,
         DS!MaxWrites, D!Slot, DS!Slot, D!Merge, DS!Merge, D!ReqLocal, DS!ReqLocal,
         D!ReqCacheable, DS!ReqCacheable, D!InvReq, DS!InvReq, D!TagMatches,
         DS!TagMatches, D!LookupHit, DS!LookupHit, D!LookupReadHit, DS!LookupReadHit,
         D!StoreHit, DS!StoreHit, D!PassActive, DS!PassActive, D!PassReady,
         DS!PassReady, D!MCyc, DS!MCyc, D!MStb, DS!MStb, D!MCmd, DS!MCmd, D!Accepted,
         DS!Accepted, D!WriteAccept, DS!WriteAccept, D!WriteResponse, DS!WriteResponse,
         D!PassResponse, DS!PassResponse, D!RefillResponse, DS!RefillResponse,
         D!RefillLast, DS!RefillLast, D!StorePosted, DS!StorePosted, D!CAck, DS!CAck,
         D!CStall, DS!CStall, D!CpuRequest, DS!CpuRequest, D!Relook, DS!Relook,
         D!RamWriteSlots, DS!RamWriteSlots, D!RamWrite, DS!RamWrite, D!RamRead,
         DS!RamRead, D!TagWriteEnable, DS!TagWriteEnable, D!TagWriteIndex,
         DS!TagWriteIndex, D!TagWrite, DS!TagWrite, D!TagRead, DS!TagRead, D!TagHit,
         DS!TagHit, D!CountWrites, DS!CountWrites, D!Capture, DS!Capture, D!Datapath,
         DS!Datapath, D!RequestState, DS!RequestState, D!IdleOrRequest,
         DS!IdleOrRequest, D!PassStep, DS!PassStep, D!ClearStep, DS!ClearStep,
         D!FreeStep, DS!FreeStep, D!LookupPassStep, DS!LookupPassStep, D!LookupMissStep,
         DS!LookupMissStep, D!RefillStep, DS!RefillStep, D!RelookStep, DS!RelookStep,
         D!UncachedStep, DS!UncachedStep, D!PassWaitStep, DS!PassWaitStep, D!Edge,
         DS!Edge
<1>2. (D!CacheTypeOK <=> DS!CacheTypeOK) /\ (D!CacheTypeOK' <=> DS!CacheTypeOK')
  BY DEF D!CacheTypeOK, DS!CacheTypeOK, D!Index, DS!Index, D!Beat, DS!Beat, D!Addr,
         DS!Addr, D!Word, DS!Word, D!RamWord, DS!RamWord, D!TagWord, DS!TagWord,
         D!Request, DS!Request, D!States, DS!States, D!MaxWrites, DS!MaxWrites
<1> QED BY <1>1, <1>2

LEMMA FetchSame ==
  ASSUME NEW io
  PROVE  /\ I!Edge(io) <=> IS!Edge(io)
         /\ I!CacheTypeOK <=> IS!CacheTypeOK
         /\ I!CacheTypeOK' <=> IS!CacheTypeOK'
         /\ I!ResetEdge <=> IS!ResetEdge
<1>1. I!Edge(io) <=> IS!Edge(io)
  BY DEF I!Index, IS!Index, I!Beat, IS!Beat, I!LastBeat, IS!LastBeat, I!Addr, IS!Addr,
         I!Word, IS!Word, I!RamWord, IS!RamWord, I!UndefWord, IS!UndefWord, I!TagWord,
         IS!TagWord, I!Request, IS!Request, I!States, IS!States, I!MaxWrites,
         IS!MaxWrites, I!Slot, IS!Slot, I!Merge, IS!Merge, I!ReqLocal, IS!ReqLocal,
         I!ReqCacheable, IS!ReqCacheable, I!InvReq, IS!InvReq, I!TagMatches,
         IS!TagMatches, I!LookupHit, IS!LookupHit, I!LookupReadHit, IS!LookupReadHit,
         I!StoreHit, IS!StoreHit, I!PassActive, IS!PassActive, I!PassReady,
         IS!PassReady, I!MCyc, IS!MCyc, I!MStb, IS!MStb, I!MCmd, IS!MCmd, I!Accepted,
         IS!Accepted, I!WriteAccept, IS!WriteAccept, I!WriteResponse, IS!WriteResponse,
         I!PassResponse, IS!PassResponse, I!RefillResponse, IS!RefillResponse,
         I!RefillLast, IS!RefillLast, I!StorePosted, IS!StorePosted, I!CAck, IS!CAck,
         I!CStall, IS!CStall, I!CpuRequest, IS!CpuRequest, I!Relook, IS!Relook,
         I!RamWriteSlots, IS!RamWriteSlots, I!RamWrite, IS!RamWrite, I!RamRead,
         IS!RamRead, I!TagWriteEnable, IS!TagWriteEnable, I!TagWriteIndex,
         IS!TagWriteIndex, I!TagWrite, IS!TagWrite, I!TagRead, IS!TagRead, I!TagHit,
         IS!TagHit, I!CountWrites, IS!CountWrites, I!Capture, IS!Capture, I!Datapath,
         IS!Datapath, I!RequestState, IS!RequestState, I!IdleOrRequest,
         IS!IdleOrRequest, I!PassStep, IS!PassStep, I!ClearStep, IS!ClearStep,
         I!FreeStep, IS!FreeStep, I!LookupPassStep, IS!LookupPassStep, I!LookupMissStep,
         IS!LookupMissStep, I!RefillStep, IS!RefillStep, I!RelookStep, IS!RelookStep,
         I!UncachedStep, IS!UncachedStep, I!PassWaitStep, IS!PassWaitStep, I!Edge,
         IS!Edge
<1>2. (I!CacheTypeOK <=> IS!CacheTypeOK) /\ (I!CacheTypeOK' <=> IS!CacheTypeOK')
  BY DEF I!CacheTypeOK, IS!CacheTypeOK, I!Index, IS!Index, I!Beat, IS!Beat, I!Addr,
         IS!Addr, I!Word, IS!Word, I!RamWord, IS!RamWord, I!TagWord, IS!TagWord,
         I!Request, IS!Request, I!States, IS!States, I!MaxWrites, IS!MaxWrites
<1>3. I!ResetEdge <=> IS!ResetEdge
  BY DEF I!ResetEdge, IS!ResetEdge
<1> QED BY <1>1, <1>2, <1>3

\* The arbiter and the pipeline see of a port what its cache shows on the wires.
LEMMA DataWires ==
  ASSUME NEW p
  PROVE  /\ D!MCyc <=> DS!MCyc
         /\ D!MCyc' <=> DS!MCyc'
         /\ D!Accepted(DPort(p)) <=> DS!Accepted(DIo(p))
         /\ D!MCmd(DPort(p)) = DS!MCmd(DIo(p))
         /\ DAccept(p) <=> DS!CpuRequest(DIo(p))
         /\ DAck <=> DS!CpuAck(DIo(p))
  BY DEF D!ReqLocal, DS!ReqLocal, D!ReqCacheable, DS!ReqCacheable, D!InvReq, DS!InvReq,
         D!TagMatches, DS!TagMatches, D!LookupHit, DS!LookupHit, D!LookupReadHit,
         DS!LookupReadHit, D!PassActive, DS!PassActive, D!PassReady, DS!PassReady,
         D!MCyc, DS!MCyc, D!MStb, DS!MStb, D!MCmd, DS!MCmd, D!Accepted, DS!Accepted,
         D!WriteAccept, DS!WriteAccept, D!CStall, DS!CStall, D!CpuRequest,
         DS!CpuRequest, D!StorePosted, DS!StorePosted, D!CAck, DS!CAck, D!MaxWrites,
         DS!MaxWrites, D!LastBeat, DS!LastBeat, DPort, DIo, WithData, DAccept, DAck,
         DS!CpuAck, DS!SramAck

LEMMA FetchWires ==
  ASSUME NEW p
  PROVE  /\ I!MCyc <=> IS!MCyc
         /\ I!MCyc' <=> IS!MCyc'
         /\ I!Accepted(IPort(p)) <=> IS!Accepted(IIo(p))
         /\ I!MCmd(IPort(p)) = IS!MCmd(IIo(p))
         /\ IAccept(p) <=> IS!CpuRequest(IIo(p))
         /\ IAck <=> IS!CpuAck(IIo(p))
  BY DEF I!ReqLocal, IS!ReqLocal, I!ReqCacheable, IS!ReqCacheable, I!InvReq, IS!InvReq,
         I!TagMatches, IS!TagMatches, I!LookupHit, IS!LookupHit, I!LookupReadHit,
         IS!LookupReadHit, I!PassActive, IS!PassActive, I!PassReady, IS!PassReady,
         I!MCyc, IS!MCyc, I!MStb, IS!MStb, I!MCmd, IS!MCmd, I!Accepted, IS!Accepted,
         I!WriteAccept, IS!WriteAccept, I!CStall, IS!CStall, I!CpuRequest,
         IS!CpuRequest, I!StorePosted, IS!StorePosted, I!CAck, IS!CAck, I!MaxWrites,
         IS!MaxWrites, I!LastBeat, IS!LastBeat, IPort, IIo, WithData, IAccept, IAck,
         IS!CpuAck, IS!SramAck

-----------------------------------------------------------------------------
(* The shared bus. *)

LEMMA Element == ASSUME NEW S, NEW q \in Seq(S), NEW k \in 1 .. Len(q) PROVE q[k] \in S
  OBVIOUS

\* The commands on the bus, of whichever cache.
LEMMA CmdsFacts ==
  ASSUME TypeOK
  PROVE  /\ bus \in Seq([port : {"I", "D"}, cmd : D!Request])
         /\ Cmds \in Seq(D!Request) /\ Len(Cmds) = Len(bus)
         /\ \A k \in 1 .. Len(bus) : Cmds[k] = bus[k].cmd
<1>1. bus \in Seq([port : {"I", "D"}, cmd : D!Request])
  BY DEF TypeOK
<1>2. DOMAIN bus = 1 .. Len(bus) /\ Len(bus) \in Nat
  BY <1>1
<1>3. \A k \in 1 .. Len(bus) : bus[k].cmd \in D!Request
  <2> TAKE k \in 1 .. Len(bus)
  <2>1. bus[k] \in [port : {"I", "D"}, cmd : D!Request]
    BY <1>1, Element
  <2> QED BY <2>1
<1>4. Cmds = [k \in 1 .. Len(bus) |-> bus[k].cmd]
  BY <1>2 DEF Cmds
<1> HIDE DEF Cmds
<1> QED BY <1>1, <1>2, <1>3, <1>4

\* At most one of the caches is owed anything.
LEMMA OneOwed ==
  ASSUME TypeOK
  PROVE  /\ bus = <<>> => DBus = <<>> /\ IBus = <<>>
         /\ DBus # <<>> => DBus = Cmds /\ IBus = <<>>
         /\ IBus # <<>> => IBus = Cmds /\ DBus = <<>>
         /\ DBus \in Seq(D!Request) /\ IBus \in Seq(D!Request)
  BY CmdsFacts DEF DBus, IBus, Of

\* Where the port is, there go the answers.
LEMMA RoutedBus ==
  ASSUME TypeOK, AnswersRouted
  PROVE  /\ SelectD => DBus = Cmds /\ IBus = <<>>
         /\ ~SelectD => IBus = Cmds /\ DBus = <<>>
<1>1. CASE bus = <<>>
  <2>1. Cmds = <<>>
    BY <1>1 DEF Cmds
  <2> QED BY <1>1, <2>1 DEF DBus, IBus, Of
<1>2. CASE bus # <<>>
  <2>1. 1 \in DOMAIN bus
    BY <1>2, CmdsFacts
  <2>2. bus[1].port = IF SelectD THEN "D" ELSE "I"
    BY <2>1 DEF AnswersRouted
  <2> QED BY <1>2, <2>2 DEF DBus, IBus, Of
<1> QED BY <1>1, <1>2

\* What the arbiter puts on the wires of each cache.
LEMMA WireFields ==
  ASSUME NEW p \in Pins
  PROVE  /\ DIo(p).stb = p.d_stb /\ DIo(p).c = p.d_c /\ DIo(p).inv = {}
         /\ DIo(p).stall = (~SelectD \/ p.stall) /\ DIo(p).ack = (SelectD /\ p.ack)
         /\ DIo(p).rdata = RData(p)
         /\ IIo(p).stb = p.i_stb /\ IIo(p).c = p.i_c /\ IIo(p).inv = {}
         /\ IIo(p).stall = (SelectD \/ p.stall) /\ IIo(p).ack = (~SelectD /\ p.ack)
         /\ IIo(p).rdata = RData(p)
         /\ p.d_stb \in BOOLEAN /\ p.i_stb \in BOOLEAN /\ p.stall \in BOOLEAN /\ p.ack \in BOOLEAN
         /\ p.d_c \in DataRequests /\ p.i_c \in Fetches
  BY DEF DIo, IIo, WithData, DPort, IPort, Pins

\* A command is accepted only from the cache that has the port.
LEMMA AcceptedOne ==
  ASSUME NEW p \in Pins
  PROVE  /\ DS!Accepted(DIo(p)) => SelectD
         /\ IS!Accepted(IIo(p)) => ~SelectD
         /\ AcceptedCmd(p) <=> DS!Accepted(DIo(p)) \/ IS!Accepted(IIo(p))
  BY WireFields, DataWires, FetchWires DEF AcceptedCmd, DS!Accepted, IS!Accepted

\* The bus with the command accepted on this edge, seen by the cache it belongs to.
LEMMA OwedForm ==
  ASSUME TypeOK, NEW p \in Pins
  PROVE  /\ Owed(p) \in Seq([port : {"I", "D"}, cmd : D!Request])
         /\ Len(Owed(p)) = Len(bus) + (IF AcceptedCmd(p) THEN 1 ELSE 0)
         /\ \A k \in 1 .. Len(bus) : Owed(p)[k] = bus[k]
         /\ AcceptedCmd(p) => Owed(p)[Len(bus) + 1] = Offered(p)
         /\ Offered(p) \in [port : {"I", "D"}, cmd : D!Request]
         /\ Offered(p).port = IF SelectD THEN "D" ELSE "I"
         /\ Offered(p).cmd = IF SelectD THEN DS!MCmd(DIo(p)) ELSE IS!MCmd(IIo(p))
<1>1. DS!MCmd(DIo(p)) \in D!Request /\ IS!MCmd(IIo(p)) \in D!Request
  <2>1. DS!CacheTypeOK /\ IS!CacheTypeOK
    BY DataSame, FetchSame DEF TypeOK
  <2>2. DS!MCmd(DIo(p)) \in DS!Request
    BY <2>1, DataAssumed, DS!MCmdType
  <2>3. IS!MCmd(IIo(p)) \in IS!Request
    BY <2>1, FetchAssumed, IS!MCmdType
  <2> QED BY <2>2, <2>3, Types
<1>2. Offered(p) = IF SelectD THEN [port |-> "D", cmd |-> DS!MCmd(DIo(p))]
                   ELSE [port |-> "I", cmd |-> IS!MCmd(IIo(p))]
  BY DataWires, FetchWires DEF Offered
<1>3. Offered(p) \in [port : {"I", "D"}, cmd : D!Request]
  BY <1>1, <1>2
<1>4. bus \in Seq([port : {"I", "D"}, cmd : D!Request])
  BY DEF TypeOK
<1>5. CASE AcceptedCmd(p)
  <2>1. Owed(p) = Append(bus, Offered(p))
    BY <1>5 DEF Owed
  <2> QED BY <1>2, <1>3, <1>4, <1>5, <2>1
<1>6. CASE ~AcceptedCmd(p)
  <2>1. Owed(p) = bus
    BY <1>6 DEF Owed
  <2> QED BY <1>2, <1>3, <1>4, <1>6, <2>1
<1> QED BY <1>5, <1>6

\* Each cache sees its own queue of owed commands.
LEMMA OwedOne ==
  ASSUME TypeOK, AnswersRouted, NEW p \in Pins
  PROVE  /\ \A k \in 1 .. Len(Owed(p)) : Owed(p)[k].port = IF SelectD THEN "D" ELSE "I"
         /\ SelectD => /\ DS!Owed(DIo(p)) \in Seq(D!Request) /\ Len(DS!Owed(DIo(p))) = Len(Owed(p))
                       /\ \A k \in 1 .. Len(Owed(p)) : DS!Owed(DIo(p))[k] = Owed(p)[k].cmd
                       /\ IS!Owed(IIo(p)) = <<>>
         /\ ~SelectD => /\ IS!Owed(IIo(p)) \in Seq(D!Request) /\ Len(IS!Owed(IIo(p))) = Len(Owed(p))
                        /\ \A k \in 1 .. Len(Owed(p)) : IS!Owed(IIo(p))[k] = Owed(p)[k].cmd
                        /\ DS!Owed(DIo(p)) = <<>>
<1> DEFINE o == Offered(p)
           n == Len(bus)
<1>1. /\ Cmds \in Seq(D!Request) /\ Len(Cmds) = n /\ n \in Nat
      /\ \A k \in 1 .. n : Cmds[k] = bus[k].cmd
  BY CmdsFacts
<1>2. o.cmd \in D!Request
  BY OwedForm
<1>3. \A k \in 1 .. n : bus[k].port = IF SelectD THEN "D" ELSE "I"
  BY CmdsFacts DEF AnswersRouted
<1>4. \A k \in 1 .. Len(Owed(p)) : Owed(p)[k].port = IF SelectD THEN "D" ELSE "I"
  <2> TAKE k \in 1 .. Len(Owed(p))
  <2>1. CASE k <= n
    BY <1>1, <1>3, <2>1, OwedForm
  <2>2. CASE ~(k <= n)
    <3>1. k = n + 1 /\ AcceptedCmd(p)
      BY <1>1, <2>2, OwedForm
    <3> QED BY <3>1, OwedForm
  <2> QED BY <2>1, <2>2
<1> DEFINE q == IF AcceptedCmd(p) THEN Append(Cmds, o.cmd) ELSE Cmds
<1> HIDE DEF o
<1>5. /\ q \in Seq(D!Request) /\ Len(q) = Len(Owed(p))
      /\ \A k \in 1 .. Len(Owed(p)) : q[k] = Owed(p)[k].cmd
  <2>1. CASE AcceptedCmd(p)
    <3>1. q = Append(Cmds, o.cmd) /\ Len(Owed(p)) = n + 1
      BY <2>1, OwedForm
    <3>2. q \in Seq(D!Request) /\ Len(q) = n + 1
          /\ (\A k \in 1 .. n : q[k] = Cmds[k]) /\ q[n + 1] = o.cmd
      BY <1>1, <1>2, <3>1
    <3>3. \A k \in 1 .. n : Owed(p)[k] = bus[k]
      BY OwedForm
    <3>4. Owed(p)[n + 1] = o
      BY <2>1, OwedForm DEF o
    <3> HIDE DEF q
    <3>5. ASSUME NEW k \in 1 .. n + 1 PROVE q[k] = Owed(p)[k].cmd
      <4>1. k \in 1 .. n \/ k = n + 1
        BY <1>1
      <4> QED BY <1>1, <3>2, <3>3, <3>4, <4>1
    <3> QED BY <3>1, <3>2, <3>5
  <2>2. CASE ~AcceptedCmd(p)
    BY <1>1, <2>2, OwedForm
  <2> QED BY <2>1, <2>2
<1>6. CASE SelectD
  <2>1. DBus = Cmds /\ IBus = <<>> /\ ~IS!Accepted(IIo(p))
    BY <1>6, RoutedBus, AcceptedOne
  <2>2. AcceptedCmd(p) <=> DS!Accepted(DIo(p))
    BY <1>6, AcceptedOne
  <2>3. o.cmd = DS!MCmd(DIo(p))
    BY <1>6, OwedForm DEF o
  <2>4. DS!Owed(DIo(p)) = q
    BY <2>1, <2>2, <2>3 DEF DS!Owed
  <2>5. IS!Owed(IIo(p)) = <<>>
    BY <2>1 DEF IS!Owed
  <2> HIDE DEF q
  <2> QED BY <1>4, <1>5, <1>6, <2>4, <2>5
<1>7. CASE ~SelectD
  <2>1. IBus = Cmds /\ DBus = <<>> /\ ~DS!Accepted(DIo(p))
    BY <1>7, RoutedBus, AcceptedOne
  <2>2. AcceptedCmd(p) <=> IS!Accepted(IIo(p))
    BY <1>7, AcceptedOne
  <2>3. o.cmd = IS!MCmd(IIo(p))
    BY <1>7, OwedForm DEF o
  <2>4. IS!Owed(IIo(p)) = q
    BY <2>1, <2>2, <2>3 DEF IS!Owed
  <2>5. DS!Owed(DIo(p)) = <<>>
    BY <2>1 DEF DS!Owed
  <2> HIDE DEF q
  <2> QED BY <1>4, <1>5, <1>7, <2>4, <2>5
<1> QED BY <1>6, <1>7

\* The head of the shared queue is the head of the queue of the cache that has the port.
LEMMA HeadOne ==
  ASSUME TypeOK, AnswersRouted, NEW p \in Pins, MemoryStep(p), p.ack
  PROVE  /\ Owed(p) # <<>> /\ Head(Owed(p)).cmd \in D!Request
         /\ SelectD => DS!Owed(DIo(p)) # <<>> /\ Head(DS!Owed(DIo(p))) = Head(Owed(p)).cmd
         /\ ~SelectD => IS!Owed(IIo(p)) # <<>> /\ Head(IS!Owed(IIo(p))) = Head(Owed(p)).cmd
<1>1. Owed(p) # <<>> /\ Owed(p) \in Seq([port : {"I", "D"}, cmd : D!Request])
  BY OwedForm DEF MemoryStep
<1>2. 1 \in 1 .. Len(Owed(p)) /\ Head(Owed(p)) = Owed(p)[1]
  BY <1>1
<1>3. Owed(p)[1] \in [port : {"I", "D"}, cmd : D!Request]
  BY <1>1, <1>2, Element
<1>4. Owed(p)[1].cmd \in D!Request
  BY <1>3
<1>5. ASSUME NEW q \in Seq(D!Request), Len(q) = Len(Owed(p)) PROVE q # <<>> /\ Head(q) = q[1]
  BY <1>2, <1>5
<1> QED BY <1>1, <1>2, <1>4, <1>5, OwedOne

\* What the caches see of the next bus.
LEMMA BusNext ==
  ASSUME NEW b \in Seq([port : {"I", "D"}, cmd : D!Request]), bus' = b, NEW port,
         NEW q \in Seq(D!Request), Len(q) = Len(b),
         \A k \in 1 .. Len(b) : b[k].port = port /\ q[k] = b[k].cmd
  PROVE  /\ port = "D" => DBus' = q /\ IBus' = <<>>
         /\ port = "I" => IBus' = q /\ DBus' = <<>>
<1>1. Len(b) \in Nat /\ DOMAIN b = 1 .. Len(b)
  OBVIOUS
<1>2. CASE b = <<>>
  <2>1. q = <<>>
    BY <1>2
  <2> QED BY <1>2, <2>1 DEF DBus, IBus, Of
<1>3. CASE b # <<>>
  <2>1. 1 \in 1 .. Len(b)
    BY <1>3
  <2>2. b[1].port = port
    BY <2>1
  <2>3. Cmds' = [k \in 1 .. Len(b) |-> b[k].cmd]
    BY <1>1 DEF Cmds
  <2>4. q = [k \in 1 .. Len(b) |-> q[k]]
    OBVIOUS
  <2>5. Cmds' = q
    BY <2>3, <2>4
  <2> HIDE DEF Cmds
  <2> QED BY <1>3, <2>2, <2>5 DEF DBus, IBus, Of
<1> QED BY <1>2, <1>3

\* The tail of the shared queue is that of its owner's.
LEMMA TailSame ==
  ASSUME NEW b \in Seq([port : {"I", "D"}, cmd : D!Request]), NEW port,
         NEW q \in Seq(D!Request), Len(q) = Len(b), b # <<>>,
         \A k \in 1 .. Len(b) : b[k].port = port /\ q[k] = b[k].cmd
  PROVE  /\ Tail(b) \in Seq([port : {"I", "D"}, cmd : D!Request])
         /\ Tail(q) \in Seq(D!Request) /\ Len(Tail(q)) = Len(Tail(b))
         /\ \A k \in 1 .. Len(Tail(b)) : Tail(b)[k].port = port /\ Tail(q)[k] = Tail(b)[k].cmd
<1> DEFINE E == [port : {"I", "D"}, cmd : D!Request]
<1> HIDE DEF E
<1>1. b \in Seq(E)
  BY DEF E
<1>2. Tail(b) \in Seq(E) /\ Len(Tail(b)) = Len(b) - 1 /\ \A k \in 1 .. Len(b) - 1 : Tail(b)[k] = b[k + 1]
  BY <1>1
<1>3. q # <<>> /\ Len(q) \in Nat
  OBVIOUS
<1>4. /\ Tail(q) \in Seq(D!Request) /\ Len(Tail(q)) = Len(q) - 1
      /\ \A k \in 1 .. Len(q) - 1 : Tail(q)[k] = q[k + 1]
  BY <1>3
<1>5. \A k \in 1 .. Len(b) - 1 : k + 1 \in 1 .. Len(b)
  BY <1>3
<1> QED BY <1>2, <1>4, <1>5 DEF E

\* One edge of the memory is one edge of both queues.
LEMMA BusSteps ==
  ASSUME TypeOK, AnswersRouted, NEW p \in Pins, MemoryStep(p)
  PROVE  /\ DS!BusStep(DIo(p)) /\ IS!BusStep(IIo(p))
         /\ DIo(p).ack => DS!Owed(DIo(p)) # <<>>
         /\ IIo(p).ack => IS!Owed(IIo(p)) # <<>>
         /\ bus' \in Seq([port : {"I", "D"}, cmd : D!Request])
         /\ \A k \in 1 .. Len(bus') : bus'[k].port = IF SelectD THEN "D" ELSE "I"
<1> DEFINE own == IF SelectD THEN "D" ELSE "I"
           q == IF SelectD THEN DS!Owed(DIo(p)) ELSE IS!Owed(IIo(p))
           b == IF p.ack THEN Tail(Owed(p)) ELSE Owed(p)
           r == IF p.ack THEN Tail(q) ELSE q
<1>1. /\ q \in Seq(D!Request) /\ Len(q) = Len(Owed(p))
      /\ \A k \in 1 .. Len(Owed(p)) : Owed(p)[k].port = own /\ q[k] = Owed(p)[k].cmd
  BY OwedOne
<1>2. Owed(p) \in Seq([port : {"I", "D"}, cmd : D!Request])
  BY OwedForm
<1>3. bus' = b /\ (p.ack => Owed(p) # <<>>)
  BY DEF MemoryStep
<1>4. DIo(p).ack = (SelectD /\ p.ack) /\ IIo(p).ack = (~SelectD /\ p.ack)
  BY WireFields
<1> HIDE DEF own, q
<1>5. /\ b \in Seq([port : {"I", "D"}, cmd : D!Request])
      /\ r \in Seq(D!Request) /\ Len(r) = Len(b)
      /\ \A k \in 1 .. Len(b) : b[k].port = own /\ r[k] = b[k].cmd
  <2>1. CASE p.ack
    <3>1. b = Tail(Owed(p)) /\ r = Tail(q) /\ Owed(p) # <<>>
      BY <1>3, <2>1
    <3> HIDE DEF b, r
    <3> QED BY <1>1, <1>2, <3>1, TailSame
  <2>2. CASE ~p.ack
    BY <1>1, <1>2, <2>2
  <2> QED BY <2>1, <2>2
<1> HIDE DEF b, r
<1>6. /\ own = "D" => DBus' = r /\ IBus' = <<>>
      /\ own = "I" => IBus' = r /\ DBus' = <<>>
  BY <1>3, <1>5, BusNext
<1>7. CASE SelectD
  <2>1. DBus' = r /\ IBus' = <<>>
    BY <1>6, <1>7 DEF own
  <2>2. DS!BusStep(DIo(p))
    BY <1>4, <1>7, <2>1 DEF DS!BusStep, r, q
  <2>3. IS!BusStep(IIo(p))
    BY <1>4, <1>7, <2>1, OwedOne DEF IS!BusStep
  <2>4. p.ack => DS!Owed(DIo(p)) # <<>>
    BY <1>7, HeadOne
  <2> QED BY <1>3, <1>4, <1>5, <1>7, <2>2, <2>3, <2>4 DEF own
<1>8. CASE ~SelectD
  <2>1. IBus' = r /\ DBus' = <<>>
    BY <1>6, <1>8 DEF own
  <2>2. IS!BusStep(IIo(p))
    BY <1>4, <1>8, <2>1 DEF IS!BusStep, r, q
  <2>3. DS!BusStep(DIo(p))
    BY <1>4, <1>8, <2>1, OwedOne DEF DS!BusStep
  <2>4. p.ack => IS!Owed(IIo(p)) # <<>>
    BY <1>8, HeadOne
  <2> QED BY <1>3, <1>4, <1>5, <1>8, <2>2, <2>3, <2>4 DEF own
<1> QED BY <1>7, <1>8

-----------------------------------------------------------------------------
(* Both caches keep to what is proved of one. *)

\* A command of the instruction cache changes no memory.
ReadsAlone(p) == ~SelectD /\ p.ack => ~Head(Owed(p)).cmd.we

LEMMA BothTyped == TypeOK => DS!TypeOK /\ IS!TypeOK
<1> SUFFICES ASSUME TypeOK PROVE DS!TypeOK /\ IS!TypeOK
  OBVIOUS
<1>1. DS!CacheTypeOK /\ IS!CacheTypeOK
  BY DataSame, FetchSame DEF TypeOK
<1>2. D!UndefWord \in D!RamWord /\ I!UndefWord \in D!RamWord
  BY DEF D!UndefWord, D!RamWord, I!UndefWord
<1>3. DBus \in Seq(D!Request) /\ IBus \in Seq(D!Request)
  BY OneOwed
<1>4. DS!TypeOK
  BY <1>1, <1>2, <1>3, Types DEF TypeOK, DS!TypeOK
<1>5. IS!TypeOK
  BY <1>1, <1>2, <1>3, Types DEF TypeOK, IS!TypeOK
<1> QED BY <1>4, <1>5

LEMMA BothTypedNext == TypeOK' => DS!TypeOK' /\ IS!TypeOK'
  BY BothTyped, PTL

\* The wires carry well-typed values, and a read is answered with what memory holds.
LEMMA WiresTyped ==
  ASSUME TypeOK, AnswersRouted, NEW p \in Pins, MemoryStep(p)
  PROVE  /\ DIo(p) \in DS!IO /\ DS!Wired(DIo(p), {})
         /\ IIo(p) \in IS!IO /\ IS!Wired(IIo(p), {})
<1>1. RData(p) \in D!RamWord
  <2>1. D!UndefWord \in D!RamWord /\ D!Word \subseteq D!RamWord
    BY DEF D!UndefWord, D!RamWord, D!Word
  <2>2. CASE p.ack
    <3>1. Head(Owed(p)).cmd.addr \in D!Addr
      BY <2>2, HeadOne DEF D!Request
    <3> QED BY <2>1, <3>1 DEF RData, TypeOK
  <2> QED BY <2>1, <2>2 DEF RData
<1>2. DIo(p) = [stb |-> p.d_stb, c |-> p.d_c, stall |-> ~SelectD \/ p.stall,
                ack |-> SelectD /\ p.ack, inv |-> {}, rdata |-> RData(p)]
  BY DEF DIo, WithData, DPort
<1>3. IIo(p) = [stb |-> p.i_stb, c |-> p.i_c, stall |-> SelectD \/ p.stall,
                ack |-> ~SelectD /\ p.ack, inv |-> {}, rdata |-> RData(p)]
  BY DEF IIo, WithData, IPort
<1>4. (SelectD \in BOOLEAN) /\ ((~SelectD \/ p.stall) \in BOOLEAN) /\ ((SelectD /\ p.ack) \in BOOLEAN)
      /\ ((SelectD \/ p.stall) \in BOOLEAN) /\ ((~SelectD /\ p.ack) \in BOOLEAN)
  BY DEF SelectD
<1>5. p.d_stb \in BOOLEAN /\ p.i_stb \in BOOLEAN /\ p.d_c \in DataRequests /\ p.i_c \in Fetches
  BY WireFields
<1>6. DIo(p) \in DS!IO
  BY <1>1, <1>2, <1>4, <1>5, Types DEF DS!IO
<1>7. IIo(p) \in IS!IO
  BY <1>1, <1>3, <1>4, <1>5, Types DEF IS!IO
<1>8. {x.addr.index : x \in {}} = {}
  OBVIOUS
<1>9. SelectD /\ p.ack => Head(DS!Owed(DIo(p))) = Head(Owed(p)).cmd
  BY HeadOne
<1>10. ~SelectD /\ p.ack => Head(IS!Owed(IIo(p))) = Head(Owed(p)).cmd
  BY HeadOne
<1>11. p.ack /\ ~Head(Owed(p)).cmd.we => RData(p) = memory[Head(Owed(p)).cmd.addr]
  BY DEF RData
<1>12. DS!Wired(DIo(p), {})
  BY <1>8, <1>9, <1>11, WireFields DEF DS!Wired
<1>13. IS!Wired(IIo(p), {})
  BY <1>8, <1>10, <1>11, WireFields DEF IS!Wired
<1> QED BY <1>6, <1>7, <1>12, <1>13

\* The instruction cache only reads,
LEMMA FetchReads ==
  ASSUME TypeOK, AnswersRouted, IS!BusInv, IS!Control, NEW p \in Pins, MemoryStep(p)
  PROVE  ReadsAlone(p)
<1>1. IS!TypeOK /\ IIo(p) \in IS!IO /\ (IIo(p).ack => IS!Owed(IIo(p)) # <<>>)
  BY BothTyped, WiresTyped, BusSteps
<1>2. i_writes_pending_q = 0 /\ ~IS!WriteAccept(IIo(p))
  BY DEF IS!Control, IS!FetchOnly, IS!WriteAccept
<1>3. IS!Answered(IIo(p)) = {}
  BY <1>1, <1>2, FetchAssumed, IS!NothingAnswered
<1>4. ~(IIo(p).ack /\ Head(IS!Owed(IIo(p))).we)
  BY <1>3 DEF IS!Answered
<1> QED BY <1>4, WireFields, HeadOne DEF ReadsAlone

\* so memory changes as the data cache's commands make it.
LEMMA DataMemory ==
  ASSUME TypeOK, AnswersRouted, NEW p \in Pins, MemoryStep(p), ReadsAlone(p)
  PROVE  DS!MemoryStep(DIo(p), {})
<1>1. DS!SramWrite(DIo(p)) = {}
  BY DEF DS!SramWrite
<1>2. \A a \in DS!Addr : DS!Foreign({}, a) = memory[a]
  BY DEF DS!Foreign
<1>3. memory = [a \in DS!Addr |-> memory[a]]
  BY Types DEF TypeOK
<1>4. CASE SelectD /\ p.ack /\ Head(Owed(p)).cmd.we
  <2> DEFINE w == Head(Owed(p)).cmd
  <2>1. DS!Answered(DIo(p)) = {w}
    BY <1>4, WireFields, HeadOne DEF DS!Answered
  <2>2. memory' = [memory EXCEPT ![w.addr] = D!Merge(memory[w.addr], w.sel, w.wdata)]
    BY <1>4 DEF MemoryStep
  <2> HIDE DEF w
  <2>3. \A a \in DS!Addr : {x \in {w} \cup {} : x.addr = a} = IF w.addr = a THEN {w} ELSE {}
    OBVIOUS
  <2>4. (CHOOSE x \in {w} : TRUE) = w
    OBVIOUS
  <2>5. \A old : D!Merge(old, w.sel, w.wdata) = DS!Merge(old, w.sel, w.wdata)
    BY DEF D!Merge, DS!Merge
  <2>6. memory' = [a \in DS!Addr |-> IF w.addr = a THEN DS!Merge(memory[a], w.sel, w.wdata)
                                     ELSE memory[a]]
    BY <1>3, <2>2, <2>5
  <2> QED BY <1>1, <1>2, <2>1, <2>3, <2>4, <2>6 DEF DS!MemoryStep
<1>5. CASE ~(SelectD /\ p.ack /\ Head(Owed(p)).cmd.we)
  <2>1. DS!Answered(DIo(p)) = {}
    <3>1. SelectD /\ p.ack => Head(DS!Owed(DIo(p))) = Head(Owed(p)).cmd
      BY HeadOne
    <3>2. DIo(p).ack => SelectD /\ p.ack
      BY WireFields
    <3>3. ~(DIo(p).ack /\ Head(DS!Owed(DIo(p))).we)
      BY <1>5, <3>1, <3>2
    <3> QED BY <3>3 DEF DS!Answered
  <2>2. memory' = memory
    BY <1>5 DEF MemoryStep, ReadsAlone
  <2> QED BY <1>1, <1>2, <1>3, <2>1, <2>2 DEF DS!MemoryStep
<1> QED BY <1>4, <1>5

-----------------------------------------------------------------------------
(* The shared port. *)

\* A refill that has begun keeps the port.
RefillOwned == i_state_q = "REFILL" /\ (i_pending_q \/ i_refill_beat_q # 0) => instruction_owner_q

\* The data cache reads its RAM again only for loads.
LoadsRelook == d_state_q = "RELOOK" => ~d_req.we

\* The inductive invariant: what is proved of one cache, for both, and the arbiter
\* beside them.
MemInv ==
  /\ TypeOK /\ AnswersRouted /\ RefillOwned /\ LoadsRelook
  /\ DS!BusInv /\ DS!PortInv
  /\ IS!BusInv /\ IS!Control

\* An edge of the system is one of the data cache
LEMMA DataEdge ==
  ASSUME MemInv, NEW p \in Pins, Clock(p)
  PROVE  DS!CoreEdge(DIo(p), {}) /\ DS!Wired(DIo(p), {}) /\ DIo(p) \in DS!IO
<1> DEFINE io == DIo(p)
<1> HIDE DEF io
<1>1. TypeOK /\ AnswersRouted /\ MemoryStep(p) /\ PipelineStep(p) /\ CacheStep(p)
  BY DEF MemInv, Clock
<1>2. DS!Edge(io)
  BY <1>1, DataSame DEF CacheStep, io, DIo
<1>3. DS!BusStep(io) /\ (io.ack => DS!Owed(io) # <<>>)
  BY <1>1, BusSteps DEF io
<1>4. DS!MemoryStep(io, {})
  BY <1>1, FetchReads, DataMemory DEF MemInv, io
<1>5. /\ DAccept(p) <=> DS!CpuRequest(io)
      /\ DAck <=> DS!CpuAck(io)
      /\ io.stb = p.d_stb /\ io.c = p.d_c
  BY DataWires, WireFields DEF io
<1>6. io.stb => DS!CpuMayOffer(io)
  BY <1>1, <1>5 DEF PipelineStep, DS!CpuMayOffer
<1>7. DAck => d_waiting # NoRequest
  <2>1. DS!Owner /\ DS!Kinds /\ d_req # NoRequest
    BY <1>1, MemoryAssumption DEF MemInv, DS!PortInv, TypeOK, D!CacheTypeOK
  <2>2. DAck => d_state_q \in {"LOOKUP", "REPLY"}
    BY DEF DAck, D!CAck, D!StorePosted
  <2>3. ~DS!ReqLocal
    BY DEF DS!ReqLocal
  <2> QED BY <2>1, <2>2, <2>3 DEF DS!Owner
<1>8. DS!CpuStep(io)
  <2>1. DS!CpuData = d_read_data_q
    BY DEF DS!CpuData, DS!SramAck
  <2>2. d_waiting' = IF DS!CpuRequest(io) THEN io.c ELSE IF DS!CpuAck(io) THEN NoRequest ELSE d_waiting
    BY <1>1, <1>5 DEF PipelineStep
  <2>3. d_got' = IF DS!CpuAck(io) /\ d_waiting # NoRequest /\ ~d_waiting.we THEN {d_read_data_q} ELSE {}
    BY <1>1, <1>5, <1>7 DEF PipelineStep
  <2> QED BY <2>1, <2>2, <2>3 DEF DS!CpuStep
<1>9. DS!SramKept(io)
  BY DEF DS!SramKept
<1>10. DS!Wired(io, {}) /\ io \in DS!IO
  BY <1>1, WiresTyped DEF io
<1> QED BY <1>2, <1>3, <1>4, <1>6, <1>8, <1>9, <1>10 DEF DS!CoreEdge, DS!PortEdge, io

\* and one of the instruction cache, or its reset.
LEMMA FetchEdge ==
  ASSUME MemInv, NEW p \in Pins, Clock(p)
  PROVE  /\ IS!BusStep(IIo(p)) /\ (IIo(p).ack => IS!Owed(IIo(p)) # <<>>)
         /\ IS!Waits(IIo(p)) /\ IS!SramKept(IIo(p))
         /\ IS!Wired(IIo(p), {}) /\ IIo(p) \in IS!IO
         /\ ~IFlushStart(p) => IS!Edge(IIo(p))
         /\ IFlushStart(p) => IS!IdleReset /\ ~IS!CpuRequest(IIo(p))
<1> DEFINE io == IIo(p)
<1> HIDE DEF io
<1>1. TypeOK /\ AnswersRouted /\ MemoryStep(p) /\ PipelineStep(p) /\ CacheStep(p)
  BY DEF MemInv, Clock
<1>2. ~IFlushStart(p) => IS!Edge(io)
  BY <1>1, FetchSame DEF CacheStep, io, IIo
<1>3. IS!BusStep(io) /\ (io.ack => IS!Owed(io) # <<>>)
  BY <1>1, BusSteps DEF io
<1>4. /\ IAccept(p) <=> IS!CpuRequest(io)
      /\ IAck <=> IS!CpuAck(io)
      /\ io.stb = p.i_stb /\ io.c = p.i_c
  BY FetchWires, WireFields DEF io
<1>5. IS!Waits(io)
  BY <1>1, <1>4 DEF PipelineStep, IS!Waits
<1>6. IS!SramKept(io)
  BY DEF IS!SramKept
<1>7. IS!Wired(io, {}) /\ io \in IS!IO
  BY <1>1, WiresTyped DEF io
<1>8. ASSUME IFlushStart(p) PROVE IS!IdleReset /\ ~IS!CpuRequest(io)
  <2>1. IS!ResetEdge /\ ~IS!MCyc /\ i_waiting = NoRequest /\ ~io.stb
    BY <1>1, <1>4, <1>8, FetchSame, FetchWires DEF CacheStep, IFlushStart
  <2>2. ~IS!CpuRequest(io)
    BY <2>1 DEF IS!CpuRequest
  <2>3. i_waiting' = NoRequest
    BY <1>5, <2>1, <2>2 DEF IS!Waits
  <2>4. IS!Owed(io) = IBus
    BY <2>1 DEF IS!Owed, IS!Accepted
  <2>5. IBus = <<>>
    <3>1. i_writes_pending_q = 0 /\ ~IS!PassActive /\ i_state_q # "REFILL"
      BY <2>1 DEF IS!MCyc
    <3>2. ~i_pending_q
      BY <3>1 DEF MemInv, IS!BusInv, IS!BusStates, IS!PassActive
    <3>3. Len(IBus) = 0
      BY <3>1, <3>2 DEF MemInv, IS!BusInv, IS!BusAccount
    <3> QED BY <1>1, <3>3, OneOwed
  <2>6. IBus' = IBus
    BY <1>3, <2>4, <2>5 DEF IS!BusStep
  <2> QED BY <2>1, <2>2, <2>3, <2>6 DEF IS!IdleReset
<1> QED BY <1>2, <1>3, <1>5, <1>6, <1>7, <1>8 DEF io

LEMMA MemoryTyped ==
  ASSUME MemInv, NEW p \in Pins, Clock(p)
  PROVE  TypeOK'
<1>1. TypeOK /\ AnswersRouted /\ DS!TypeOK /\ IS!TypeOK
  BY BothTyped DEF MemInv
<1>2. D!CacheTypeOK'
  <2>1. DS!Edge(DIo(p)) /\ DIo(p) \in DS!IO
    BY DataEdge DEF DS!CoreEdge, DS!PortEdge
  <2>2. DS!CacheTypeOK'
    BY <1>1, <2>1, DataAssumed, DS!EdgeTyped
  <2> QED BY <2>2, DataSame
<1>3. I!CacheTypeOK'
  <2>1. CASE IFlushStart(p)
    <3>1. IS!ResetEdge /\ IS!CacheTypeOK
      BY <1>1, <2>1, FetchEdge DEF IS!IdleReset, IS!TypeOK
    <3>2. IS!CacheTypeOK'
      BY <3>1, FetchAssumed, IS!ResetTyped
    <3> QED BY <3>2, FetchSame
  <2>2. CASE ~IFlushStart(p)
    <3>1. IS!Edge(IIo(p)) /\ IIo(p) \in IS!IO
      BY <2>2, FetchEdge
    <3>2. IS!CacheTypeOK'
      BY <1>1, <3>1, FetchAssumed, IS!EdgeTyped
    <3> QED BY <3>2, FetchSame
  <2> QED BY <2>1, <2>2
<1>4. memory' \in [D!Addr -> D!Word]
  <2>1. DS!MemoryStep(DIo(p), {}) /\ (DIo(p).ack => DS!Owed(DIo(p)) # <<>>) /\ DIo(p) \in DS!IO
    BY DataEdge DEF DS!CoreEdge, DS!PortEdge
  <2>2. {} \in DS!Exts
    BY DEF DS!Exts
  <2>3. memory' \in [DS!Addr -> DS!Word]
    BY <1>1, <2>1, <2>2, DataAssumed, DS!MemoryTyped
  <2> QED BY <2>3, Types
<1>5. bus' \in Seq([port : {"I", "D"}, cmd : D!Request])
  BY <1>1, BusSteps DEF Clock
<1>6. PipelineStep(p) /\ CacheStep(p) /\ History(p)
  BY DEF Clock
<1>7. i_waiting' \in Fetches \cup {NoRequest} /\ d_waiting' \in DataRequests \cup {NoRequest}
  BY <1>1, <1>6, WireFields DEF PipelineStep, TypeOK
<1>8. d_got' \in {{}} \cup {{w} : w \in D!RamWord}
  BY <1>1, <1>6 DEF PipelineStep, TypeOK, D!CacheTypeOK
<1>9. issue' \in 0 .. PipelineDepth
  <2>1. DAccept(p) => p.d_stb
    BY DEF DAccept, DPort, D!CpuRequest
  <2>2. issue \in 0 .. PipelineDepth /\ PipelineDepth \in Nat /\ (p.d_stb => issue > 0)
    BY <1>1, <1>6, MemoryAssumption DEF TypeOK, PipelineStep
  <2> QED BY <1>6, <2>1, <2>2 DEF PipelineStep
<1>10. instruction_owner_q' \in BOOLEAN
  BY <1>6 DEF CacheStep, SelectD
<1>11. iflush_req' \in BOOLEAN /\ iflush_active_q' \in BOOLEAN
  <2>1. PICK enter \in {FALSE, ~iflush_req}, clearing \in {FALSE, iflush_req} :
          IFlushStep(p, enter, clearing)
    BY DEF Clock
  <2>2. /\ iflush_req' = (enter \/ (iflush_req /\ ~IFlushDone(p, clearing)))
        /\ iflush_active_q' = (iflush_req /\ (iflush_active_q \/ IFlushStart(p)))
    BY <2>1 DEF IFlushStep
  <2> QED BY <2>2
<1>12. unflushed' \subseteq D!Addr
  <2>1. p.d_c.addr \in D!Addr
    BY WireFields, MemoryAssumption DEF D!Request
  <2> QED BY <1>1, <1>6, <2>1 DEF History, TypeOK
<1> QED BY <1>2, <1>3, <1>4, <1>5, <1>7, <1>8, <1>9, <1>10, <1>11, <1>12 DEF TypeOK

\* The data cache's part of the invariant.
LEMMA DataKept ==
  ASSUME MemInv, NEW p \in Pins, Clock(p)
  PROVE  DS!BusInv' /\ DS!PortInv'
<1>1. DS!TypeOK /\ DS!TypeOK' /\ DS!BusInv /\ DS!PortInv
  BY BothTyped, BothTypedNext, MemoryTyped DEF MemInv
<1>2. DS!CoreEdge(DIo(p), {}) /\ DS!Wired(DIo(p), {}) /\ DIo(p) \in DS!IO /\ {} \in DS!Exts
  BY DataEdge DEF DS!Exts
<1>3. DS!BusInv'
  BY <1>1, <1>2, DataAssumed, DS!EdgeBus DEF DS!CoreEdge, DS!PortEdge
<1>4. DS!Settled
  BY DEF DS!Settled
<1>5. DS!PortInv'
  BY <1>1, <1>2, <1>3, <1>4, DataAssumed, DS!PortKept
<1> QED BY <1>3, <1>5

\* The instruction cache's part.
LEMMA FetchKept ==
  ASSUME MemInv, NEW p \in Pins, Clock(p)
  PROVE  IS!BusInv' /\ IS!Control'
<1>1. IS!TypeOK /\ IS!TypeOK' /\ IS!BusInv /\ IS!Control
  BY BothTyped, BothTypedNext, MemoryTyped DEF MemInv
<1>2. CASE IFlushStart(p)
  <2>1. IS!IdleReset
    BY <1>2, FetchEdge
  <2>2. IS!BusInv'
    BY <1>1, <2>1, FetchAssumed, IS!ResetBus
  <2>3. IS!Control'
    BY <1>1, <2>1, FetchAssumed, IS!ResetControl
  <2> QED BY <2>2, <2>3
<1>3. CASE ~IFlushStart(p)
  <2>1. /\ IS!Edge(IIo(p)) /\ IIo(p) \in IS!IO
        /\ IS!BusStep(IIo(p)) /\ (IIo(p).ack => IS!Owed(IIo(p)) # <<>>)
        /\ IS!Waits(IIo(p)) /\ IS!SramKept(IIo(p))
    BY <1>3, FetchEdge
  <2>2. IS!BusInv'
    BY <1>1, <2>1, FetchAssumed, IS!EdgeBus
  <2>3. IS!Control'
    BY <1>1, <2>1, FetchAssumed, IS!ControlStep
  <2> QED BY <2>2, <2>3
<1> QED BY <1>2, <1>3

\* An instruction cache that is owed something, or asks for something, has a bus cycle.
LEMMA FetchCycle ==
  ASSUME MemInv, NEW p \in Pins
  PROVE  /\ IBus # <<>> => I!MCyc /\ i_pending_q
         /\ IS!Accepted(IIo(p)) => I!MCyc
         /\ DBus # <<>> => D!MCyc
<1>1. TypeOK /\ IS!BusAccount /\ IS!BusStates /\ IS!FetchOnly
  BY DEF MemInv, IS!BusInv, IS!Control
<1>2. i_writes_pending_q = 0
  BY <1>1 DEF IS!FetchOnly
<1>3. ASSUME IBus # <<>> PROVE i_pending_q /\ IS!MCyc
  <2>1. Len(IBus) # 0
    BY <1>1, <1>3, OneOwed
  <2>2. i_pending_q
    BY <1>1, <1>2, <2>1 DEF IS!BusAccount
  <2> QED BY <1>1, <2>2 DEF IS!BusStates, IS!MCyc, IS!PassActive
<1>4. IS!Accepted(IIo(p)) => IS!MCyc
  BY DEF IS!Accepted
<1>5. ASSUME DBus # <<>> PROVE DS!MCyc
  <2>1. Len(DBus) # 0
    BY <1>1, <1>5, OneOwed
  <2>2. DS!BusAccount /\ DS!BusStates
    BY DEF MemInv, DS!BusInv
  <2>3. d_writes_pending_q # 0 \/ d_pending_q
    BY <2>1, <2>2 DEF DS!BusAccount
  <2> QED BY <2>2, <2>3 DEF DS!BusStates, DS!MCyc, DS!PassActive
<1> QED BY <1>3, <1>4, <1>5, DataWires, FetchWires

\* The data cache's bus cycle lasts until its last answer.
DataCycling == DBus # <<>> => D!MCyc

LEMMA DataCycle == TypeOK /\ DS!BusInv => DataCycling
<1> SUFFICES ASSUME TypeOK, DS!BusInv, DBus # <<>> PROVE D!MCyc
  BY DEF DataCycling
<1>1. Len(DBus) # 0
  BY OneOwed
<1>2. DS!BusAccount /\ DS!BusStates
  BY DEF DS!BusInv
<1>3. d_writes_pending_q # 0 \/ d_pending_q
  BY <1>1, <1>2 DEF DS!BusAccount
<1>4. DS!MCyc
  BY <1>2, <1>3 DEF DS!BusStates, DS!MCyc, DS!PassActive
<1> QED BY <1>4, DataWires

LEMMA DataCycleNext == TypeOK' /\ DS!BusInv' => DataCycling'
  BY DataCycle, PTL

\* The arbiter never moves while something is owed.
LEMMA RoutedKept ==
  ASSUME MemInv, NEW p \in Pins, Clock(p)
  PROVE  AnswersRouted'
<1>1. /\ TypeOK /\ TypeOK' /\ AnswersRouted /\ MemoryStep(p) /\ CacheStep(p)
      /\ DS!BusInv'
  BY MemoryTyped, DataKept DEF MemInv, Clock
<1>2. /\ bus' \in Seq([port : {"I", "D"}, cmd : D!Request])
      /\ \A k \in 1 .. Len(bus') : bus'[k].port = IF SelectD THEN "D" ELSE "I"
  BY <1>1, BusSteps
<1>3. instruction_owner_q' = (I!MCyc /\ ~SelectD)
  BY <1>1 DEF CacheStep
<1> SUFFICES ASSUME bus' # <<>> PROVE SelectD' <=> SelectD
  BY <1>2 DEF AnswersRouted
<1>4. 1 \in 1 .. Len(bus') /\ Len(bus') \in Nat
  BY <1>2
<1>5. CASE SelectD
  <2>1. bus'[1].port = "D"
    BY <1>2, <1>4, <1>5
  <2>2. DBus' # <<>>
    <3>1. Cmds' = [k \in 1 .. Len(bus') |-> bus'[k].cmd]
      BY <1>2, <1>4 DEF Cmds
    <3>2. DOMAIN Cmds' = 1 .. Len(bus')
      BY <3>1
    <3>3. DBus' = Cmds'
      BY <2>1 DEF DBus, Of
    <3>4. DOMAIN <<>> = {}
      OBVIOUS
    <3> QED BY <1>4, <3>2, <3>3, <3>4
  <2>3. D!MCyc'
    BY <1>1, <2>2, DataCycleNext DEF DataCycling
  <2> QED BY <1>3, <1>5, <2>3 DEF SelectD
<1>6. CASE ~SelectD
  <2>1. Owed(p) # <<>>
    BY <1>1, OwedForm DEF MemoryStep
  <2>2. bus # <<>> \/ AcceptedCmd(p)
    BY <2>1 DEF Owed
  <2>3. bus # <<>> => IBus # <<>>
    <3>1. IBus = Cmds /\ Len(Cmds) = Len(bus) /\ bus \in Seq([port : {"I", "D"}, cmd : D!Request])
      BY <1>1, <1>6, RoutedBus, CmdsFacts
    <3>2. bus # <<>> => Len(bus) # 0
      BY <3>1
    <3>3. IBus = <<>> => Len(IBus) = 0
      OBVIOUS
    <3> QED BY <3>1, <3>2, <3>3
  <2>4. I!MCyc
    BY <1>6, <2>2, <2>3, FetchCycle, AcceptedOne
  <2> QED BY <1>3, <1>6, <2>4 DEF SelectD
<1> QED BY <1>5, <1>6

\* A refill that has begun has the port, and keeps it.
LEMMA RefillKept ==
  ASSUME MemInv, NEW p \in Pins, Clock(p)
  PROVE  RefillOwned'
<1> SUFFICES ASSUME i_state_q' = "REFILL", i_pending_q' \/ i_refill_beat_q' # 0
             PROVE  instruction_owner_q'
  BY DEF RefillOwned
<1> DEFINE io == IIo(p)
<1> HIDE DEF io
<1>1. ~IFlushStart(p) /\ IS!Edge(io)
  BY FetchEdge DEF IS!IdleReset, IS!ResetEdge, io
<1>2. i_state_q = "REFILL" /\ IS!RefillStep(io)
  <2>1. ~IS!ClearStep(io) /\ ~IS!RelookStep(io) /\ ~IS!UncachedStep(io)
    BY DEF IS!ClearStep, IS!RelookStep, IS!UncachedStep
  <2>2. ~IS!FreeStep(io)
    BY DEF IS!FreeStep, IS!IdleOrRequest, IS!RequestState
  <2>3. ~IS!PassStep(io)
    BY DEF IS!PassStep, IS!IdleOrRequest, IS!RequestState
  <2>4. ~IS!LookupMissStep(io)
    BY DEF IS!LookupMissStep
  <2>5. ~IS!LookupPassStep(io) /\ ~IS!PassWaitStep(io)
    BY <2>3 DEF IS!LookupPassStep, IS!PassWaitStep
  <2>6. IS!RefillStep(io)
    BY <1>1, <2>1, <2>2, <2>4, <2>5 DEF IS!Edge
  <2> QED BY <2>6 DEF IS!RefillStep
<1>3. IS!Accepted(io) => ~SelectD
  BY AcceptedOne DEF io
<1>4. io.ack => ~SelectD
  BY WireFields DEF io
<1>5. ~SelectD
  <2>1. CASE i_pending_q \/ i_refill_beat_q # 0
    BY <1>2, <2>1 DEF MemInv, RefillOwned, SelectD
  <2>2. CASE ~(i_pending_q \/ i_refill_beat_q # 0)
    BY <1>2, <1>3, <1>4, <2>2 DEF IS!RefillStep, IS!RefillResponse
  <2> QED BY <2>1, <2>2
<1>6. I!MCyc
  BY <1>2 DEF I!MCyc
<1> QED BY <1>5, <1>6 DEF Clock, CacheStep

LEMMA RelooksKept ==
  ASSUME MemInv, NEW p \in Pins, Clock(p)
  PROVE  LoadsRelook'
<1> DEFINE io == DIo(p)
<1> HIDE DEF io
<1>1. DS!TypeOK /\ DS!BusInv /\ DS!Kinds /\ io \in DS!IO /\ DS!Edge(io)
  BY BothTyped, DataEdge DEF MemInv, DS!PortInv, DS!CoreEdge, DS!PortEdge, io
<1>2. \/ DS!Sweeping(io) \/ DS!Opened(io) \/ DS!Missed(io) \/ DS!Passing(io)
      \/ DS!Refilling(io) \/ DS!Relooking(io) \/ DS!BringingIn(io)
  BY <1>1, DataAssumed, DS!Moves
<1>3. CASE DS!Opened(io)
  BY <1>3 DEF DS!Opened, DS!RequestState, LoadsRelook
<1>4. CASE DS!Refilling(io)
  BY <1>4 DEF DS!Refilling, DS!Stayed, DS!Cacheable, LoadsRelook
<1> QED BY <1>2, <1>3, <1>4 DEF LoadsRelook, DS!Sweeping, DS!Missed, DS!Passing, DS!Relooking,
                                DS!BringingIn

LEMMA MemStep == ASSUME MemInv, NEW p \in Pins, Clock(p) PROVE MemInv'
  BY MemoryTyped, RoutedKept, RefillKept, RelooksKept, DataKept, FetchKept DEF MemInv

\* Where nothing changes everything stays so.
LEMMA MemIdle == ASSUME MemInv, UNCHANGED vars PROVE MemInv'
<1>1. UNCHANGED <<I!cacheVars, D!cacheVars>> /\ UNCHANGED <<instruction_owner_q, iflush_active_q,
        iflush_req, i_waiting, d_waiting, d_got, issue, memory, bus, unflushed>>
  BY DEF vars, caches
<1>2. DBus' = DBus /\ IBus' = IBus
  BY <1>1 DEF DBus, IBus, Of, Cmds
<1>3. UNCHANGED DS!vars /\ UNCHANGED IS!vars
  BY <1>1, <1>2 DEF DS!vars, DS!cacheVars, DS!envVars, D!cacheVars, IS!vars, IS!cacheVars,
                    IS!envVars, I!cacheVars, D!UndefWord, I!UndefWord
<1>4. TypeOK'
  BY <1>1 DEF MemInv, TypeOK, I!cacheVars, D!cacheVars, I!CacheTypeOK, D!CacheTypeOK
<1>5. AnswersRouted' /\ RefillOwned' /\ LoadsRelook'
  BY <1>1 DEF MemInv, AnswersRouted, RefillOwned, LoadsRelook, SelectD, D!MCyc, D!PassActive, D!ReqLocal,
              D!ReqCacheable, D!cacheVars, I!cacheVars
<1>6. DS!BusInv' /\ IS!BusInv'
  BY <1>3, DataAssumed, FetchAssumed, DS!BusIdle, IS!BusIdle DEF MemInv
<1>7. DS!Control' /\ DS!LookedUp' /\ DS!DataRead' /\ DS!Swept' /\ DS!LinesCoherent'
  BY <1>3, DataAssumed, DS!PortIdle DEF MemInv, DS!PortInv, DS!Control
<1>8. IS!Control'
  BY <1>3, FetchAssumed, IS!PortIdle DEF MemInv
<1> QED BY <1>4, <1>5, <1>6, <1>7, <1>8 DEF MemInv, DS!PortInv, DS!Control

\* Both caches start as one cache does.
LEMMA BothInit == ASSUME Init PROVE DS!Init /\ IS!Init
<1>1. PICK r \in Fetches : I!CacheInit(r)
  BY DEF Init
<1>2. PICK s \in DataRequests : D!CacheInit(s)
  BY DEF Init
<1>3. IS!CacheInit(r)
  BY <1>1 DEF I!CacheInit, IS!CacheInit, I!TagWord, IS!TagWord, I!Index, IS!Index, I!Beat, IS!Beat,
              I!UndefWord, IS!UndefWord
<1>4. DS!CacheInit(s)
  BY <1>2 DEF D!CacheInit, DS!CacheInit, D!TagWord, DS!TagWord, D!Index, DS!Index, D!Beat, DS!Beat,
              D!UndefWord, DS!UndefWord
<1>5. DBus = <<>> /\ IBus = <<>>
  BY DEF Init, DBus, IBus, Of
<1>6. D!UndefWord = DS!UndefWord /\ I!UndefWord = IS!UndefWord
  BY DEF D!UndefWord, DS!UndefWord, I!UndefWord, IS!UndefWord
<1>7. memory \in InitMemories /\ d_waiting = NoRequest /\ i_waiting = NoRequest /\ d_got = {}
  BY DEF Init
<1>8. DS!Init
  BY <1>4, <1>5, <1>6, <1>7 DEF DS!Init
<1>9. IS!Init
  BY <1>3, <1>5, <1>6, <1>7 DEF IS!Init
<1> QED BY <1>8, <1>9

LEMMA MemInit == ASSUME Init PROVE MemInv
<1>1. DS!Init /\ IS!Init
  BY BothInit
<1>2. DS!TypeOK /\ DS!BusInv /\ DS!PortInv
  BY <1>1, DataAssumed, DS!InitTyped, DS!InitBus, DS!InitPort
<1>3. IS!TypeOK /\ IS!BusInv /\ IS!PortInv
  BY <1>1, FetchAssumed, IS!InitTyped, IS!InitBus, IS!InitPort
<1>4. I!CacheTypeOK /\ D!CacheTypeOK
  BY <1>2, <1>3, DataSame, FetchSame DEF DS!TypeOK, IS!TypeOK
<1>5. /\ instruction_owner_q = FALSE /\ iflush_active_q = FALSE /\ iflush_req = FALSE
      /\ i_waiting = NoRequest /\ d_waiting = NoRequest /\ d_got = {} /\ issue = 0
      /\ memory \in InitMemories /\ bus = <<>> /\ unflushed = {}
  BY DEF Init
<1>6. bus \in Seq([port : {"I", "D"}, cmd : D!Request]) /\ DOMAIN bus = {}
  BY <1>5
<1>7. TypeOK
  <2>1. issue \in 0 .. PipelineDepth /\ memory \in [D!Addr -> D!Word]
    BY <1>5, MemoryAssumption
  <2> QED BY <1>4, <1>5, <1>6, <2>1 DEF TypeOK
<1>8. i_state_q = "CLEAR" /\ d_state_q = "CLEAR"
  BY DEF Init, I!CacheInit, D!CacheInit
<1> QED BY <1>2, <1>3, <1>6, <1>7, <1>8
    DEF MemInv, AnswersRouted, RefillOwned, LoadsRelook, IS!PortInv, IS!Control

\* The invariant says what the port promises.
LEMMA PortHolds == ASSUME MemInv PROVE PortKept
<1>1. TypeOK /\ AnswersRouted /\ RefillOwned /\ IS!BusInv /\ IS!Control
  BY DEF MemInv
<1>2. RefillsWhole
  BY <1>1 DEF RefillsWhole, RefillOwned, SelectD
<1>3. ASSUME i_state_q = "CLEAR"
      PROVE  i_waiting = NoRequest /\ \A k \in DOMAIN bus : bus[k].port = "D"
  <2>1. i_waiting = NoRequest /\ ~i_pending_q /\ i_writes_pending_q = 0
    BY <1>1, <1>3 DEF IS!Control, IS!Owner, IS!BusInv, IS!BusStates, IS!FetchOnly
  <2>2. Len(IBus) = 0
    BY <1>1, <2>1 DEF IS!BusInv, IS!BusAccount
  <2>3. CASE SelectD
    BY <1>1, <2>1, <2>3 DEF AnswersRouted
  <2>4. CASE ~SelectD
    <3>1. Len(bus) = 0 /\ DOMAIN bus = 1 .. Len(bus)
      BY <1>1, <2>2, <2>4, RoutedBus, CmdsFacts
    <3> QED BY <2>1, <3>1
  <2> QED BY <2>3, <2>4
<1> QED BY <1>1, <1>2, <1>3 DEF PortKept, FlushesIdle

\* The invariant holds of every behaviour.
THEOREM MemoryInvariant == Spec => []MemInv
<1>1. Init => MemInv
  BY MemInit
<1>2. MemInv /\ [Next]_vars => MemInv'
  <2> SUFFICES ASSUME MemInv, [Next]_vars PROVE MemInv'
    OBVIOUS
  <2>1. CASE Next
    BY <2>1, MemStep DEF Next
  <2>2. CASE UNCHANGED vars
    BY <2>2, MemIdle
  <2> QED BY <2>1, <2>2
<1> QED BY <1>1, <1>2, PTL DEF Spec

\* PortKept: the arbiter never moves while an answer is owed, so each answer reaches
\* the cache whose command it answers; a refill that has begun keeps the port to its
\* last word; and a flush finds its cache owed nothing.
THEOREM PortShared == Spec => []PortKept
<1>1. MemInv => PortKept
  BY PortHolds
<1> QED BY <1>1, MemoryInvariant, PTL

-----------------------------------------------------------------------------
(* The data port. *)

\* Reads of the other cache cover nothing of memory.
LEMMA FetchesCoverNothing ==
  ASSUME MemInv, bus # <<>>, bus[1].port = "I", NEW a, NEW l
  PROVE  Cmds \in Seq(D!Request) /\ DS!Covering(Cmds, a, l) = {}
<1>1. /\ TypeOK /\ IS!BusInv /\ Cmds \in Seq(D!Request) /\ Len(Cmds) = Len(bus)
      /\ bus \in Seq([port : {"I", "D"}, cmd : D!Request])
  BY CmdsFacts DEF MemInv
<1>2. IBus = Cmds /\ IBus # <<>>
  <2>1. Len(bus) # 0
    BY <1>1
  <2>2. Cmds # <<>>
    BY <1>1, <2>1
  <2> QED BY <2>2 DEF IBus, Of
<1>3. Pins # {}
  <2>1. PICK r \in Fetches, s \in DataRequests : TRUE
    BY MemoryAssumption
  <2>2. [i_stb |-> FALSE, i_c |-> r, d_stb |-> FALSE, d_c |-> s, stall |-> FALSE, ack |-> FALSE] \in Pins
    BY <2>1 DEF Pins
  <2> QED BY <2>2
<1>4. i_pending_q
  BY <1>2, <1>3, FetchCycle
<1>5. \A k \in DOMAIN Cmds : Cmds[k].we = FALSE
  BY <1>1, <1>2, <1>4 DEF IS!BusInv, IS!BusAccount
<1> HIDE DEF Cmds
<1>6. Cmds \in Seq(DS!Request)
  BY <1>1, Types
<1>7. DS!Covering(Cmds, a, l) = {}
  BY <1>5, <1>6, DataAssumed, DS!ReadsCoverNothing
<1> QED BY <1>1, <1>7

\* What the data port sees is what it would see had it a bus of its own.
LEMMA SeenAlone ==
  ASSUME MemInv, NEW a \in D!Addr, NEW l \in Lanes
  PROVE  DS!Over(memory, Posted, a)[l] = DS!Over(memory, DS!Queue, a)[l]
<1>1. /\ TypeOK /\ LoadsRelook /\ Cmds \in Seq(D!Request) /\ d_req \in D!Request
      /\ d_state_q \in D!States
  BY CmdsFacts DEF MemInv, TypeOK, D!CacheTypeOK
<1>2. Retained = DS!Retained /\ (Retained = <<>> \/ Retained = <<d_req>>)
  BY <1>1 DEF Retained, DS!Retained, DS!ReqLocal, LoadsRelook
<1>3. Posted = Cmds \o Retained /\ DS!Queue = DBus \o Retained
  BY <1>2 DEF Posted, Cmds, DS!Queue
<1>4. CASE DBus = Cmds
  BY <1>3, <1>4
<1>5. CASE DBus # Cmds
  <2>1. bus # <<>> /\ bus[1].port = "I" /\ DBus = <<>>
    <3>1. bus # <<>>
      BY <1>5 DEF DBus, Of, Cmds
    <3>2. 1 \in 1 .. Len(bus)
      BY <1>1, <3>1 DEF TypeOK
    <3>3. bus[1] \in [port : {"I", "D"}, cmd : D!Request]
      BY <1>1, <3>2, Element DEF TypeOK
    <3> QED BY <1>5, <3>1, <3>3 DEF DBus, Of
  <2>2. DS!Covering(Cmds, a, l) = {}
    BY <2>1, FetchesCoverNothing
  <2>3. DS!Covering(<<>>, a, l) = {}
    BY DEF DS!Covering
  <2>4. /\ DS!Over(memory, Cmds, a)[l] = memory[a][l]
        /\ DS!Over(memory, <<>>, a)[l] = memory[a][l]
    BY <2>2, <2>3, DataAssumed, DS!Uncovered
  <2> HIDE DEF Cmds
  <2>5. CASE Retained = <<>>
    <3>1. Posted = Cmds /\ DS!Queue = <<>>
      BY <1>1, <1>3, <2>1, <2>5
    <3> QED BY <2>4, <3>1
  <2>6. CASE Retained = <<d_req>>
    <3>1. Cmds \in Seq(DS!Request) /\ <<>> \in Seq(DS!Request) /\ d_req \in DS!Request
      BY <1>1, Types
    <3>2. Posted = Append(Cmds, d_req) /\ DS!Queue = Append(<<>>, d_req)
      BY <1>3, <2>1, <2>6, <3>1
    <3>3. ASSUME NEW q \in Seq(DS!Request)
          PROVE  DS!Over(memory, Append(q, d_req), a)[l] =
                   IF DS!Covers(d_req, a, l) THEN d_req.wdata[l] ELSE DS!Over(memory, q, a)[l]
      <4>1. CASE DS!Covers(d_req, a, l)
        BY <3>1, <4>1, DataAssumed, DS!OverCovered
      <4>2. CASE ~DS!Covers(d_req, a, l)
        BY <3>1, <4>2, DataAssumed, DS!OverUncovered
      <4> QED BY <4>1, <4>2
    <3> QED BY <2>4, <3>1, <3>2, <3>3
  <2> QED BY <1>2, <2>5, <2>6
<1> QED BY <1>4, <1>5

ImagesAgree == Image = DS!Image

LEMMA OneImage == MemInv => ImagesAgree
<1> SUFFICES ASSUME MemInv PROVE Image = DS!Image
  BY DEF ImagesAgree
<1>1. Image = [a \in D!Addr |-> DS!Over(memory, Posted, a)]
  BY DEF Image, Covering, DS!Over, DS!Covering
<1>2. DS!Image = [a \in D!Addr |-> DS!Over(memory, DS!Queue, a)]
  BY Types DEF DS!Image, DS!Queue, DS!Overlaid, DS!Over
<1>3. \A a \in D!Addr : DS!Over(memory, Posted, a) = DS!Over(memory, DS!Queue, a)
  <2> TAKE a \in D!Addr
  <2>1. /\ DS!Over(memory, Posted, a) = [l \in Lanes |-> DS!Over(memory, Posted, a)[l]]
        /\ DS!Over(memory, DS!Queue, a) = [l \in Lanes |-> DS!Over(memory, DS!Queue, a)[l]]
    BY DEF DS!Over
  <2> QED BY <2>1, SeenAlone
<1> QED BY <1>1, <1>2, <1>3

LEMMA OneImageNext == MemInv' => ImagesAgree'
  BY OneImage, PTL

\* ImplementsDataPort: the fetches between them change no answer of the data port.
\* Behind it is one flat memory, as behind a cache with a bus of its own.
THEOREM DataImplemented == Spec => ImplementsDataPort
<1>1. Init => DataPort!Init
  <2> SUFFICES ASSUME Init PROVE DataPort!Init
    OBVIOUS
  <2>1. DS!Init /\ MemInv
    BY BothInit, MemInit
  <2>2. DS!Port!Init
    BY <2>1, DataAssumed, DS!InitImplements
  <2>3. Image = DS!Image
    BY <2>1, OneImage DEF ImagesAgree
  <2> QED BY <2>2, <2>3, Types DEF DS!Port!Init, DataPort!Init
<1>2. MemInv /\ MemInv' /\ [Next]_vars => [DataPort!Next]_(DataPort!portVars)
  <2> SUFFICES ASSUME MemInv, MemInv', [Next]_vars
               PROVE  [DataPort!Next]_(DataPort!portVars)
    OBVIOUS
  <2>1. Image = DS!Image /\ Image' = DS!Image'
    BY OneImage, OneImageNext DEF ImagesAgree
  <2>2. CASE Next
    <3>1. PICK p \in Pins : Clock(p)
      BY <2>2 DEF Next
    <3>2. /\ DS!TypeOK /\ DS!TypeOK' /\ DS!BusInv /\ DS!PortInv /\ DS!PortInv'
          /\ DS!CoreEdge(DIo(p), {}) /\ DS!Wired(DIo(p), {}) /\ DIo(p) \in DS!IO
          /\ {} \in DS!Exts
      BY <3>1, BothTyped, BothTypedNext, DataEdge DEF MemInv, DS!Exts
    <3>3. DS!Port!Next
      BY <3>2, DataAssumed, DS!EdgeImplements
    <3>4. DataPort!Next
      BY <2>1, <3>3, Types
         DEF DS!Port!Next, DataPort!Next, DS!Port!Step, DataPort!Step, DS!Port!Reply,
             DataPort!Reply, DS!Port!External, DataPort!External, DS!Port!Snooped,
             DataPort!Snooped, DS!Port!WithWrite, DataPort!WithWrite, DS!Port!Overlay,
             DataPort!Overlay
    <3> QED BY <3>4
  <2>3. CASE UNCHANGED vars
    BY <2>3 DEF vars, caches, D!cacheVars, DataPort!portVars, Image, Covering, Posted, Retained
  <2> QED BY <2>2, <2>3
<1> QED BY <1>1, <1>2, MemoryInvariant, PTL DEF Spec, ImplementsDataPort, DataPort!Spec

-----------------------------------------------------------------------------
(* The fetches. *)

\* The word w is what the data port sees at a, unless a was stored to since the flush.
Fresh(a, w) == a \in unflushed \/ w = Image[a]

\* While fetches have the port, a store that waits for it was made since the flush.
StoresMarked == instruction_owner_q /\ Retained # <<>> => d_req.addr \in unflushed

\* What the settled lines hold,
LinesFresh ==
  \A a \in D!Addr :
    a.tag \notin Uncached /\ a.index \notin IS!Unsettled
    /\ i_tag_mem[a.index] = [valid |-> TRUE, tag |-> a.tag] =>
      Fresh(a, i_data_mem[I!Slot(a)])
\* the first words of the line under refill,
RefillFresh ==
  i_state_q = "REFILL" /\ ~i_refill_invalidated_q =>
    \A b \in D!Beat : b < i_refill_beat_q =>
      Fresh([i_req.addr EXCEPT !.beat = b], i_data_mem[<<i_req.addr.index, b>>])
\* and the reply of an uncached fetch.
BypassFresh ==
  /\ i_state_q = "UNCACHED" => Fresh(i_req.addr, i_data_mem[I!Slot(i_req.addr)])
  /\ i_state_q = "REPLY" => Fresh(i_req.addr, i_read_data_q)

FreshInv ==
  /\ IS!LookedUp /\ IS!Swept /\ IS!LookupData
  /\ StoresMarked /\ LinesFresh /\ RefillFresh /\ BypassFresh

\* While fetches have the port, memory is what the data port sees, but for the words
\* stored to since the flush.
LEMMA MemoryFresh ==
  ASSUME MemInv, StoresMarked, ~SelectD, NEW a \in D!Addr, a \notin unflushed
  PROVE  Image[a] = memory[a]
<1>1. /\ TypeOK /\ LoadsRelook /\ DBus = <<>> /\ Image = DS!Image
  BY RoutedBus, OneImage DEF MemInv, ImagesAgree
<1>2. Retained = DS!Retained /\ (Retained = <<>> \/ Retained = <<d_req>>)
  BY <1>1 DEF Retained, DS!Retained, DS!ReqLocal, LoadsRelook, TypeOK, D!CacheTypeOK, D!States
<1>3. Retained # <<>> => d_req.addr # a
  <2>1. CASE instruction_owner_q
    BY <2>1 DEF StoresMarked
  <2>2. CASE ~instruction_owner_q
    <3>1. ~D!MCyc
      BY <2>2 DEF SelectD
    <3> QED BY <3>1 DEF D!MCyc, D!PassActive, D!ReqLocal, Retained
  <2> QED BY <2>1, <2>2
<1>4. DS!Queue = Retained
  BY <1>1, <1>2 DEF DS!Queue
<1>5. \A l \in Lanes : DS!Covering(Retained, a, l) = {}
  BY <1>2, <1>3 DEF DS!Covering
<1>6. \A l \in Lanes : DS!Over(memory, DS!Queue, a)[l] = memory[a][l]
  BY <1>4, <1>5, DataAssumed, DS!Uncovered
<1>7. Image[a] = DS!Over(memory, DS!Queue, a)
  BY <1>1, Types DEF DS!Image, DS!Queue, DS!Overlaid, DS!Over
<1>8. DS!Over(memory, DS!Queue, a) = [l \in Lanes |-> DS!Over(memory, DS!Queue, a)[l]]
  BY DEF DS!Over
<1>9. memory[a] = [l \in Lanes |-> memory[a][l]]
  BY <1>1 DEF TypeOK, D!Word
<1> QED BY <1>6, <1>7, <1>8, <1>9

\* Only a store of the data port changes what it sees.
LEMMA ImageKept ==
  ASSUME MemInv, NEW p \in Pins, Clock(p), NEW a \in D!Addr,
         ~(DAccept(p) /\ p.d_c.we /\ p.d_c.addr = a)
  PROVE  Image'[a] = Image[a]
<1> DEFINE io == DIo(p)
<1> HIDE DEF io
<1>1. /\ DS!TypeOK /\ DS!TypeOK' /\ DS!BusInv /\ DS!Control /\ DS!Control' /\ MemInv'
      /\ DS!CoreEdge(io, {}) /\ DS!Wired(io, {}) /\ io \in DS!IO /\ {} \in DS!Exts /\ a \in DS!Addr
  BY BothTyped, BothTypedNext, MemStep, DataEdge, Types
     DEF MemInv, DS!PortInv, DS!Control, DS!Exts, io
<1>2. \A l \in Lanes : ~(DS!CpuRequest(io) /\ DS!Covers(io.c, a, l))
  <2>1. (DAccept(p) <=> DS!CpuRequest(io)) /\ io.c = p.d_c
    BY DataWires, WireFields DEF io
  <2> QED BY <2>1 DEF DS!Covers
<1>3. ASSUME NEW l \in Lanes
      PROVE  DS!Image'[a][l] = DS!Over(DS!After({}), DS!Queue, a)[l]
  BY <1>1, <1>2, DataAssumed, DS!ImageNext
<1>4. DS!After({})[a] = memory[a]
  BY <1>1 DEF DS!After, DS!Foreign
<1>5. DS!Over(DS!After({}), DS!Queue, a) = DS!Over(memory, DS!Queue, a)
  BY <1>4 DEF DS!Over
<1>6. Image = DS!Image /\ Image' = DS!Image'
  BY <1>1, OneImage, OneImageNext DEF ImagesAgree
<1>7. DS!Image[a] = DS!Over(memory, DS!Queue, a)
  BY <1>1 DEF DS!Image, DS!Queue, DS!Overlaid, DS!Over
<1>8. /\ Image[a] = [l \in Lanes |-> Image[a][l]]
      /\ Image'[a] = [l \in Lanes |-> Image'[a][l]]
  BY DEF Image
<1>9. \A l \in Lanes : Image'[a][l] = Image[a][l]
  BY <1>3, <1>5, <1>6, <1>7
<1> QED BY <1>8, <1>9

\* So a word that was fresh stays so,
LEMMA FreshStays ==
  ASSUME MemInv, NEW p \in Pins, Clock(p), ~IFlushStart(p), NEW a \in D!Addr, a \notin unflushed'
  PROVE  a \notin unflushed /\ Image'[a] = Image[a]
<1>1. a \notin unflushed /\ ~(DAccept(p) /\ p.d_c.we /\ p.d_c.addr = a)
  BY DEF Clock, History
<1> QED BY <1>1, ImageKept

\* and one that memory answers is.
LEMMA FreshAnswer ==
  ASSUME MemInv, StoresMarked, NEW p \in Pins, Clock(p), ~IFlushStart(p), IIo(p).ack,
         NEW a \in D!Addr, a \notin unflushed'
  PROVE  Image'[a] = memory[a]
<1>1. ~SelectD
  BY WireFields
<1> QED BY <1>1, FreshStays, MemoryFresh

\* What an edge of the instruction cache is.
LEMMA FetchFacts ==
  ASSUME MemInv, NEW p \in Pins, Clock(p), ~IFlushStart(p)
  PROVE  /\ IS!TypeOK /\ IS!TypeOK' /\ IS!BusInv /\ IS!Control
         /\ IIo(p) \in IS!IO /\ {} \in IS!Exts /\ IS!Wired(IIo(p), {}) /\ IIo(p).inv = {}
         /\ IIo(p).ack => IS!Owed(IIo(p)) # <<>>
         /\ IS!Edge(IIo(p)) /\ IS!RamWrite(IIo(p)) /\ IS!RamRead(IIo(p))
         /\ IS!Kinds /\ IS!Settled /\ ~i_req.we /\ ~IS!StoreHit(IIo(p))
         /\ i_req.addr \in D!Addr
<1>1. IS!Edge(IIo(p))
  BY FetchEdge
<1>2. IS!RamWrite(IIo(p)) /\ IS!RamRead(IIo(p))
  BY <1>1 DEF IS!Edge, IS!Datapath
<1>3. IS!TypeOK /\ IS!TypeOK' /\ IS!BusInv /\ IS!Control
  BY BothTyped, BothTypedNext, MemoryTyped DEF MemInv
<1>4. IS!Kinds /\ ~i_req.we
  BY <1>3 DEF IS!Control, IS!FetchOnly
<1>5. i_req.addr \in D!Addr
  BY <1>3, Types DEF IS!TypeOK, IS!CacheTypeOK, D!Request
<1> QED BY <1>1, <1>2, <1>3, <1>4, <1>5, FetchEdge, WireFields
        DEF IS!Exts, IS!Settled, IS!StoreHit

LEMMA SlotPair ==
  ASSUME NEW a \in D!Addr
  PROVE  /\ I!Slot(a) = <<a.index, a.beat>> /\ IS!Slot(a) = <<a.index, a.beat>>
         /\ a.index \in IS!Index /\ a.beat \in IS!Beat /\ a.beat \in D!Beat /\ a.tag \in Tags
         /\ <<a.index, a.beat>> \in IS!Index \X IS!Beat /\ a \in IS!Addr
  BY Types DEF I!Slot, IS!Slot, D!Addr, D!Index, D!Beat, IS!Index, IS!Beat

\* A word under refill: the one that is answered is that of memory, the others stay.
LEMMA RefillWord ==
  ASSUME MemInv, StoresMarked, RefillFresh, NEW p \in Pins, Clock(p), ~IFlushStart(p),
         i_state_q = "REFILL", ~i_refill_invalidated_q, NEW b \in D!Beat,
         b < i_refill_beat_q \/ (IS!RefillResponse(IIo(p)) /\ b = i_refill_beat_q),
         [i_req.addr EXCEPT !.beat = b] \notin unflushed'
  PROVE  i_data_mem'[<<i_req.addr.index, b>>] = Image'[[i_req.addr EXCEPT !.beat = b]]
<1> DEFINE io == IIo(p)
           a == [i_req.addr EXCEPT !.beat = b]
           s == <<i_req.addr.index, b>>
<1> HIDE DEF io
<1>1. a \in D!Addr /\ b \in IS!Beat
  BY FetchFacts DEF D!Addr, D!Beat, IS!Beat
<1>2. i_data_mem'[s] = IF IS!RefillResponse(io) /\ b = i_refill_beat_q THEN io.rdata ELSE i_data_mem[s]
  BY <1>1, FetchFacts, FetchAssumed, IS!RefillSlot DEF io
<1> HIDE DEF a, s
<1>3. CASE IS!RefillResponse(io) /\ b = i_refill_beat_q
  <2>1. io.rdata = memory[a]
    BY <1>3, FetchFacts, FetchAssumed, IS!ReadAnswered DEF io, a
  <2>2. Image'[a] = memory[a]
    BY <1>1, <1>3, FreshAnswer DEF io, a, IS!RefillResponse
  <2> QED BY <1>2, <1>3, <2>1, <2>2 DEF a, s
<1>4. CASE ~(IS!RefillResponse(io) /\ b = i_refill_beat_q)
  <2>1. b < i_refill_beat_q
    BY <1>4 DEF io
  <2>2. a \notin unflushed /\ Image'[a] = Image[a]
    BY <1>1, FreshStays DEF a
  <2>3. i_data_mem[s] = Image[a]
    BY <2>1, <2>2 DEF RefillFresh, Fresh, a, s
  <2> QED BY <1>2, <1>4, <2>2, <2>3 DEF a, s
<1> QED BY <1>3, <1>4

LEMMA LinesFreshKept ==
  ASSUME MemInv, FreshInv, NEW p \in Pins, Clock(p), ~IFlushStart(p)
  PROVE  LinesFresh'
<1> SUFFICES ASSUME NEW a \in D!Addr, a.tag \notin Uncached, a.index \notin IS!Unsettled',
                    i_tag_mem'[a.index] = [valid |-> TRUE, tag |-> a.tag], a \notin unflushed'
             PROVE  i_data_mem'[<<a.index, a.beat>>] = Image'[a]
  BY SlotPair DEF LinesFresh, Fresh, I!Slot
<1> DEFINE io == IIo(p)
<1> HIDE DEF io
<1>1. /\ IS!TypeOK /\ IS!TypeOK' /\ IS!BusInv /\ IS!Control /\ io \in IS!IO /\ IS!Edge(io)
      /\ io.inv = {} /\ ~IS!StoreHit(io) /\ i_req.addr \in D!Addr
      /\ IS!LookedUp /\ IS!Swept /\ StoresMarked /\ RefillFresh /\ LinesFresh
  BY FetchFacts DEF FreshInv, io
<1>2. /\ a.index \in IS!Index /\ a.beat \in IS!Beat /\ a.beat \in D!Beat /\ a \in IS!Addr
      /\ I!Slot(a) = <<a.index, a.beat>>
  BY SlotPair
<1>3. i_tag_mem'[a.index].valid /\ i_tag_mem'[a.index].tag = a.tag /\ a.tag \notin Uncached \cup {}
  OBVIOUS
<1>4. \/ /\ IS!RefillLast(io) /\ ~i_refill_invalidated_q /\ io.inv = {}
         /\ a = [i_req.addr EXCEPT !.beat = a.beat]
      \/ /\ a.index \notin IS!Unsettled /\ a.index \notin io.inv
         /\ i_tag_mem[a.index] = [valid |-> TRUE, tag |-> a.tag]
  BY <1>1, <1>2, <1>3, FetchAssumed, IS!LineOrigin
<1>5. CASE /\ IS!RefillLast(io) /\ ~i_refill_invalidated_q
           /\ a = [i_req.addr EXCEPT !.beat = a.beat]
  <2>1. i_state_q = "REFILL" /\ IS!RefillResponse(io) /\ i_refill_beat_q = LineWords - 1
    BY <1>5 DEF IS!RefillLast, IS!RefillResponse, IS!LastBeat
  <2>2. a.beat < i_refill_beat_q \/ (IS!RefillResponse(io) /\ a.beat = i_refill_beat_q)
    BY <1>2, <2>1, MemoryAssumption DEF IS!Beat
  <2>3. a.index = i_req.addr.index
    BY <1>1, <1>5 DEF D!Addr
  <2> QED BY <1>1, <1>2, <1>5, <2>1, <2>2, <2>3, RefillWord DEF io
<1>6. CASE a.index \notin IS!Unsettled /\ i_tag_mem[a.index] = [valid |-> TRUE, tag |-> a.tag]
  <2>1. i_data_mem'[<<a.index, a.beat>>] = i_data_mem[<<a.index, a.beat>>]
    BY <1>1, <1>2, <1>6, FetchAssumed, IS!Untouched
  <2>2. a \notin unflushed /\ Image'[a] = Image[a]
    BY FreshStays
  <2>3. i_data_mem[<<a.index, a.beat>>] = Image[a]
    BY <1>1, <1>2, <1>6, <2>2 DEF LinesFresh, Fresh
  <2> QED BY <2>1, <2>2, <2>3
<1> QED BY <1>4, <1>5, <1>6

LEMMA RefillFreshKept ==
  ASSUME MemInv, FreshInv, NEW p \in Pins, Clock(p), ~IFlushStart(p)
  PROVE  RefillFresh'
<1> SUFFICES ASSUME i_state_q' = "REFILL", ~i_refill_invalidated_q', NEW b \in D!Beat,
                    b < i_refill_beat_q', [i_req'.addr EXCEPT !.beat = b] \notin unflushed'
             PROVE  i_data_mem'[<<i_req'.addr.index, b>>] = Image'[[i_req'.addr EXCEPT !.beat = b]]
  BY DEF RefillFresh, Fresh
<1> DEFINE io == IIo(p)
<1> HIDE DEF io
<1>1. b \in IS!Beat
  BY DEF D!Beat, IS!Beat
<1>2. /\ i_state_q = "REFILL" /\ i_req' = i_req /\ ~i_refill_invalidated_q
      /\ b < i_refill_beat_q \/ (IS!RefillResponse(io) /\ b = i_refill_beat_q)
  BY <1>1, FetchFacts, FetchAssumed, IS!RefillBeats DEF io
<1>3. StoresMarked /\ RefillFresh
  BY DEF FreshInv
<1> QED BY <1>2, <1>3, RefillWord DEF io

LEMMA BypassFreshKept ==
  ASSUME MemInv, FreshInv, NEW p \in Pins, Clock(p), ~IFlushStart(p)
  PROVE  BypassFresh'
<1> DEFINE io == IIo(p)
           a == i_req.addr
           s == <<a.index, a.beat>>
<1> HIDE DEF io
<1>1. /\ IS!TypeOK /\ IS!BusInv /\ IS!Control /\ io \in IS!IO /\ IS!Edge(io) /\ IS!Kinds
      /\ io.inv = {} /\ ~IS!StoreHit(io) /\ a \in D!Addr /\ IS!RamWrite(io) /\ IS!RamRead(io)
      /\ StoresMarked /\ BypassFresh
  BY FetchFacts DEF FreshInv, io
<1>2. I!Slot(a) = s /\ IS!Slot(a) = s /\ s \in IS!Index \X IS!Beat
  BY <1>1, SlotPair
<1>3. \/ IS!Sweeping(io) \/ IS!Opened(io) \/ IS!Missed(io) \/ IS!Passing(io)
      \/ IS!Refilling(io) \/ IS!Relooking(io) \/ IS!BringingIn(io)
  BY <1>1, FetchAssumed, IS!Moves
<1> HIDE DEF s
<1> SUFFICES ASSUME i_state_q' \in {"UNCACHED", "REPLY"}, i_req'.addr \notin unflushed'
             PROVE  /\ i_state_q' = "UNCACHED" => i_data_mem'[I!Slot(i_req'.addr)] = Image'[i_req'.addr]
                    /\ i_state_q' = "REPLY" => i_read_data_q' = Image'[i_req'.addr]
  BY DEF BypassFresh, Fresh, I!Slot
<1>4. CASE IS!Passing(io)
  <2>1. IS!PassResponse(io) /\ i_state_q' = "UNCACHED" /\ i_req' = i_req
        /\ i_state_q \in {"LOOKUP", "PASS"}
    BY <1>4 DEF IS!Passing, IS!Stayed
  <2>2. IS!RamWriteSlots(io) = {s}
    BY <1>2, <2>1 DEF IS!RamWriteSlots, IS!RefillResponse
  <2>3. i_data_mem'[s] = io.rdata
    BY <1>1, <1>2, <2>2, FetchAssumed, IS!DataAt
  <2>4. io.rdata = memory[a]
    BY <2>1, FetchFacts, FetchAssumed, IS!ReadAnswered DEF io
  <2>5. Image'[a] = memory[a]
    BY <1>1, <2>1, FreshAnswer DEF io, IS!PassResponse
  <2> QED BY <1>2, <2>1, <2>3, <2>4, <2>5
<1>5. CASE IS!BringingIn(io)
  <2>1. i_req' = i_req /\ i_state_q = "UNCACHED" /\ i_state_q' = "REPLY"
        /\ ~IS!PassResponse(io)
    BY <1>1, <1>5 DEF IS!BringingIn, IS!Stayed, IS!PassResponse, IS!PassActive
  <2>2. IS!RamWriteSlots(io) = {}
    BY <1>1, <2>1, FetchAssumed, IS!NoSlots
  <2>3. i_read_data_q' = i_data_mem[s]
    BY <1>1, <1>2, <2>1, <2>2 DEF IS!RamRead, IS!Relook
  <2>4. a \notin unflushed /\ Image'[a] = Image[a]
    BY <1>1, <2>1, FreshStays
  <2>5. i_data_mem[s] = Image[a]
    BY <1>1, <1>2, <2>1, <2>4 DEF BypassFresh, Fresh
  <2> QED BY <2>1, <2>3, <2>4, <2>5
<1> QED BY <1>3, <1>4, <1>5 DEF IS!Sweeping, IS!Opened, IS!RequestState, IS!Missed, IS!Refilling,
                                IS!Relooking

\* A store that finds the port with the fetches was made after the flush before them.
LEMMA StoresMarkedKept ==
  ASSUME MemInv, StoresMarked, NEW p \in Pins, Clock(p)
  PROVE  StoresMarked'
<1> SUFFICES ASSUME instruction_owner_q', Retained' # <<>> PROVE d_req'.addr \in unflushed'
  BY DEF StoresMarked
<1> DEFINE io == DIo(p)
<1> HIDE DEF io
<1>1. I!MCyc /\ ~SelectD
  BY DEF Clock, CacheStep
<1>2. unflushed' = unflushed \cup (IF DAccept(p) /\ p.d_c.we THEN {p.d_c.addr} ELSE {})
  BY <1>1 DEF Clock, History, IFlushStart
<1>3. /\ DS!TypeOK /\ DS!BusInv /\ DS!Kinds /\ io \in DS!IO /\ DS!Edge(io)
      /\ d_req'.we /\ d_state_q' \in {"LOOKUP", "PASS"}
  BY BothTyped, DataEdge DEF MemInv, DS!PortInv, DS!CoreEdge, DS!PortEdge, io, Retained
<1>4. /\ DAccept(p) <=> DS!CpuRequest(io)
      /\ io.c = p.d_c /\ io.stb = p.d_stb
  BY DataWires, WireFields DEF io
<1>5. \/ DS!Sweeping(io) \/ DS!Opened(io) \/ DS!Missed(io) \/ DS!Passing(io)
      \/ DS!Refilling(io) \/ DS!Relooking(io) \/ DS!BringingIn(io)
  BY <1>3, DataAssumed, DS!Moves
<1>6. CASE DS!Opened(io)
  <2>1. DS!CpuRequest(io) /\ d_req' = io.c
    BY <1>3, <1>6 DEF DS!Opened, DS!CpuRequest
  <2> QED BY <1>2, <1>3, <1>4, <2>1
<1>7. CASE ~DS!Opened(io)
  <2>1. d_req' = d_req /\ d_state_q \in {"LOOKUP", "PASS", "RELOOK"}
    BY <1>3, <1>5, <1>7 DEF DS!Sweeping, DS!Missed, DS!Passing, DS!Refilling, DS!Relooking,
                            DS!BringingIn, DS!Stayed
  <2>2. Retained # <<>> /\ d_state_q \in {"LOOKUP", "PASS"} /\ d_req.we
    BY <1>3, <2>1 DEF MemInv, LoadsRelook, Retained
  <2>3. D!MCyc
    BY <2>2 DEF D!MCyc, D!PassActive, D!ReqLocal
  <2>4. instruction_owner_q
    BY <1>1, <2>3, MemoryTyped DEF SelectD, MemInv, TypeOK
  <2> QED BY <1>2, <2>1, <2>2, <2>4 DEF StoresMarked
<1> QED BY <1>6, <1>7

LEMMA FreshStep ==
  ASSUME MemInv, FreshInv, NEW p \in Pins, Clock(p)
  PROVE  FreshInv'
<1>1. StoresMarked'
  BY StoresMarkedKept DEF FreshInv
<1>2. CASE IFlushStart(p)
  <2>1. IS!TypeOK /\ IS!ResetEdge
    BY <1>2, BothTyped, FetchEdge DEF MemInv, IS!IdleReset
  <2>2. IS!Unsettled' = IS!Index /\ IS!LookedUp' /\ IS!Swept'
    BY <2>1, FetchAssumed, IS!ResetLines
  <2>3. i_state_q' = "CLEAR"
    BY <2>1 DEF IS!ResetEdge
  <2>4. LinesFresh'
    BY <2>2, SlotPair DEF LinesFresh
  <2> QED BY <1>1, <2>2, <2>3, <2>4 DEF FreshInv, RefillFresh, BypassFresh, IS!LookupData
<1>3. CASE ~IFlushStart(p)
  <2>1. LinesFresh' /\ RefillFresh' /\ BypassFresh'
    BY <1>3, LinesFreshKept, RefillFreshKept, BypassFreshKept
  <2>2. IS!LookedUp'
    BY <1>3, FetchFacts, FetchAssumed, IS!LookedUpKept DEF FreshInv
  <2>3. IS!Swept'
    BY <1>3, FetchFacts, FetchAssumed, IS!SweptKept DEF FreshInv
  <2>4. IS!LookupData'
    BY <1>3, FetchFacts, FetchAssumed, IS!LookupRead DEF FreshInv
  <2> QED BY <1>1, <2>1, <2>2, <2>3, <2>4 DEF FreshInv
<1> QED BY <1>2, <1>3

LEMMA FreshIdle == ASSUME FreshInv, UNCHANGED vars PROVE FreshInv'
<1>1. UNCHANGED <<I!cacheVars, D!cacheVars>> /\ UNCHANGED <<instruction_owner_q, i_waiting, d_waiting,
        d_got, memory, bus, unflushed>>
  BY DEF vars, caches
<1>2. Image' = Image /\ Retained' = Retained
  BY <1>1 DEF D!cacheVars, Image, Covering, Posted, Retained
<1>3. IS!LookedUp' /\ IS!Swept' /\ IS!LookupData' /\ IS!Unsettled' = IS!Unsettled
  BY <1>1 DEF FreshInv, I!cacheVars, IS!LookedUp, IS!Swept, IS!LookupData, IS!Unsettled, IS!Match,
              IS!Hit, IS!TagMatches, IS!ReqLocal, IS!Slot, IS!Cacheable, IS!ReqCacheable
<1>4. StoresMarked'
  BY <1>1, <1>2 DEF FreshInv, StoresMarked, D!cacheVars
<1>5. LinesFresh'
  BY <1>1, <1>2, <1>3 DEF FreshInv, LinesFresh, Fresh, I!cacheVars, I!Slot
<1>6. RefillFresh' /\ BypassFresh'
  BY <1>1, <1>2 DEF FreshInv, RefillFresh, BypassFresh, Fresh, I!cacheVars, I!Slot
<1> QED BY <1>3, <1>4, <1>5, <1>6 DEF FreshInv

LEMMA FreshInit == ASSUME Init PROVE FreshInv
<1>1. IS!Init /\ i_state_q = "CLEAR" /\ instruction_owner_q = FALSE
  BY BothInit DEF Init, I!CacheInit
<1>2. IS!PortInv
  BY <1>1, FetchAssumed, IS!InitPort
<1>3. IS!Unsettled = IS!Index
  <2>1. PICK r \in Fetches : IS!CacheInit(r)
    BY <1>1 DEF IS!Init
  <2>2. i_req.addr.index = 0
    BY <2>1, MemoryAssumption DEF IS!CacheInit, D!Request, D!Addr
  <2>3. \A i \in IS!Index : i >= 0
    BY MemoryAssumption DEF IS!Index
  <2> QED BY <1>1, <2>2, <2>3 DEF IS!Unsettled
<1>4. LinesFresh
  BY <1>3, SlotPair DEF LinesFresh
<1> QED BY <1>1, <1>2, <1>4 DEF FreshInv, IS!PortInv, StoresMarked, RefillFresh, BypassFresh, IS!LookupData

\* A fetch is answered from such a line or such a reply.
LEMMA FetchHolds == ASSUME MemInv, FreshInv PROVE FetchesFresh
<1> SUFFICES ASSUME IAck, i_waiting.addr \notin unflushed
             PROVE  i_read_data_q = Image[i_waiting.addr]
  BY DEF FetchesFresh
<1> DEFINE a == i_req.addr
<1>1. /\ IS!TypeOK /\ IS!Owner /\ ~i_req.we /\ i_req \in D!Request /\ IS!LookedUp
      /\ IS!LookupData /\ LinesFresh /\ BypassFresh
  BY BothTyped DEF MemInv, IS!Control, IS!FetchOnly, FreshInv, TypeOK, I!CacheTypeOK, D!Request,
     I!Request, D!Addr, I!Addr, D!Index, I!Index, D!Beat, I!Beat, D!Word, I!Word
<1>2. a \in D!Addr
  BY <1>1 DEF D!Request
<1>3. CASE i_state_q = "REPLY"
  <2>1. i_waiting = i_req
    BY <1>1, <1>3 DEF IS!Owner
  <2> QED BY <1>1, <1>3, <2>1 DEF BypassFresh, Fresh
<1>4. CASE i_state_q # "REPLY"
  <2>1. i_state_q = "LOOKUP" /\ I!LookupReadHit([inv |-> {}])
    BY <1>1, <1>4 DEF IAck, I!CAck, I!StorePosted
  <2>2. i_waiting = i_req /\ IS!Match /\ a.tag \notin Uncached
    BY <1>1, <2>1 DEF IS!Owner, IS!LookedUp, IS!Hit, IS!ReqLocal, I!LookupReadHit, I!LookupHit,
                      I!ReqCacheable, I!ReqLocal, I!TagMatches, IS!TagMatches
  <2>3. a.index \notin IS!Unsettled
    BY <2>1, <2>2 DEF IS!Unsettled
  <2>4. i_read_data_q = i_data_mem[I!Slot(a)]
    BY <1>1, <2>1 DEF IS!LookupData, IS!Slot, I!Slot
  <2>5. Fresh(a, i_data_mem[I!Slot(a)])
    BY <1>1, <1>2, <2>2, <2>3 DEF LinesFresh, IS!Match
  <2> QED BY <2>2, <2>4, <2>5 DEF Fresh
<1> QED BY <1>3, <1>4

\* FetchesFresh: self-modifying code works once it runs IFLUSH.  The flush waits for no
\* posted store; that a fetch sees them all the same rests on the arbiter, which lets
\* them go first, and on the sweep, which leaves no line from before it.
THEOREM FetchesAreFresh == Spec => []FetchesFresh
<1>1. Init => FreshInv
  BY FreshInit
<1>2. MemInv /\ FreshInv /\ [Next]_vars => FreshInv'
  <2> SUFFICES ASSUME MemInv, FreshInv, [Next]_vars PROVE FreshInv'
    OBVIOUS
  <2>1. CASE Next
    BY <2>1, FreshStep DEF Next
  <2>2. CASE UNCHANGED vars
    BY <2>2, FreshIdle
  <2> QED BY <2>1, <2>2
<1>3. MemInv /\ FreshInv => FetchesFresh
  BY FetchHolds
<1> QED BY <1>1, <1>2, <1>3, MemoryInvariant, PTL DEF Spec
=============================================================================
