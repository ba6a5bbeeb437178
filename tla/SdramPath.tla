------------------------------ MODULE SdramPath ------------------------------
(***************************************************************************)
(* The way from the CPU to the SDRAM controller: the clock crossing and    *)
(* the arbiter of riscc_sdram_fabric, with the video fetch beside the CPU. *)
(*                                                                         *)
(* The CPU is the Cached core's backing port: up to three posted writes,   *)
(* each acknowledged one host edge after it was taken, or one read.  The   *)
(* video fetch (riscc_sdram_scanout) keeps a request up until it is taken. *)
(* The controller (riscc_sdram) takes at most Capacity commands, executes  *)
(* and answers them in order, and stalls at will while it holds any: once  *)
(* it is initialised and empty, blocked_q is 0 (SdramPort, which module    *)
(* SdramMemory shows the controller and its device to implement; there it  *)
(* stalls one edge longer after ready rises, when nothing is granted yet). *)
(***************************************************************************)
EXTENDS SdramBridge, SdramFabric, Sequences

CONSTANTS
  CpuRequests,   \* the commands the CPU issues
  VideoAddrs,    \* the words the video fetch reads
  Capacity,      \* commands the controller holds
  InitMemories,
  NoRequest

ASSUME PathAssumption ==
  /\ CpuRequests \subseteq Request
  /\ VideoAddrs \subseteq Addr
  /\ InitMemories \subseteq [Addr -> Word]
  /\ NoRequest \notin Request
  /\ Values # {} /\ Undef \notin BOOLEAN
  /\ Capacity \in Nat /\ Capacity < PendingModulus
  /\ ReadLimit >= Words

VARIABLES
  memory,        \* contents of the SDRAM
  promised,      \* history: the same with every store the CPU was rid of
  bus,           \* commands in the controller
  memory_ready,  \* the controller's initialisation is over
  waiting, got,  \* the CPU's request in flight; the data answered last
  video_stb      \* the video fetch offers a command

vars == <<bridgeVars, fabricVars, memory, promised, bus, memory_ready,
          waiting, got, video_stb>>

Command == [from : {"host", "video"}, cmd : Request]

TypeOK ==
  /\ BridgeTypeOK /\ FabricTypeOK
  /\ {memory, promised} \subseteq [Addr -> Word]
  /\ bus \in Seq(Command)
  /\ memory_ready \in BOOLEAN
  /\ waiting \in CpuRequests \cup {NoRequest}
  /\ got \in {{}} \cup {{w} : w \in DataWord}
  /\ video_stb \in BOOLEAN

-----------------------------------------------------------------------------
(* Wires in the memory clock domain. *)

FabricIO(stall, ack) ==
  [host |-> MemoryStb, host_we |-> head_write, video |-> video_stb,
   stall |-> stall, response |-> ack, ready |-> memory_ready]

\* The controller answers reads with data; otherwise its data means nothing.
RData(ack) ==
  IF ack /\ ~bus[1].cmd.we THEN memory[bus[1].cmd.addr] ELSE UndefWord

BridgeIO(f) ==
  [stall |-> HostWait(f), ack |-> HostAck(f), rdata |-> RData(f.response),
   ready |-> memory_ready]

VideoRead(a) == [from |-> "video",
                 cmd |-> [addr |-> a, we |-> FALSE, sel |-> Lanes,
                          wdata |-> [l \in Lanes |-> CHOOSE v \in Values : TRUE]]]
Taken(f, a) ==
  IF CpuAccept(f) THEN <<[from |-> "host", cmd |-> MemoryCmd]>>
  ELSE IF VideoAccept(f) THEN <<VideoRead(a)>> ELSE <<>>

Merge(old, sel, new) == [l \in Lanes |-> IF l \in sel THEN new[l] ELSE old[l]]

ControllerStep(f, a) ==
  /\ bus' = (IF f.response THEN Tail(bus) ELSE bus) \o Taken(f, a)
  /\ memory' = IF f.response /\ bus[1].cmd.we
               THEN [memory EXCEPT ![bus[1].cmd.addr] =
                       Merge(@, bus[1].cmd.sel, bus[1].cmd.wdata)]
               ELSE memory
  /\ memory_ready' \in {memory_ready, TRUE}

\* One edge of memory_clk.
MemoryClock(stall, ack) ==
  LET f == FabricIO(stall, ack)
  IN  /\ ack => bus # <<>>
      /\ ~memory_ready \/ Len(bus) = Capacity => stall
      /\ stall => ~memory_ready \/ bus # <<>>
      /\ MemoryEdge(BridgeIO(f))
      /\ FabricEdge(f)
      /\ \E a \in VideoAddrs : ControllerStep(f, a)
      /\ video_stb' \in IF video_stb /\ ~VideoAccept(f) THEN {TRUE} ELSE BOOLEAN
      /\ UNCHANGED <<waiting, got, promised>>

\* One edge of cpu_clk.
HostClock(stb, c) ==
  LET io == [stb |-> stb, c |-> c, ready |-> memory_ready]
  IN  /\ stb => waiting = NoRequest \/ host_ack
      /\ HostEdge(io)
      /\ waiting' = IF HostAccept(io) THEN c ELSE IF host_ack THEN NoRequest ELSE waiting
      /\ got' = IF host_ack /\ ~waiting.we THEN {host_rdata} ELSE {}
      /\ promised' = IF HostAccept(io) /\ c.we
                     THEN [promised EXCEPT ![c.addr] = Merge(@, c.sel, c.wdata)]
                     ELSE promised
      /\ UNCHANGED <<fabricVars, memory, bus, memory_ready, video_stb>>

Init ==
  /\ \E r \in CpuRequests : BridgeInit(r.addr)
  /\ FabricInit
  /\ memory \in InitMemories /\ promised = memory
  /\ bus = <<>>
  /\ memory_ready = FALSE
  /\ waiting = NoRequest
  /\ got = {}
  /\ video_stb = FALSE

Next ==
  \/ \E stb \in BOOLEAN, c \in CpuRequests : HostClock(stb, c)
  \/ \E stall, ack \in BOOLEAN : MemoryClock(stall, ack)

Spec == Init /\ [][Next]_vars

-----------------------------------------------------------------------------
(* Safety. *)

Port == INSTANCE CpuPort WITH
  Request <- CpuRequests, ExtWrites <- {}, image <- promised

\* Two clocks, posted stores and retained lines away, the CPU still sees one
\* flat memory: every read returns the youngest older store, once, in order.
ImplementsPort == Port!Spec

\* Posted stores arrive: with nothing under way the SDRAM holds every one of
\* them, so that the video fetch sees what the CPU wrote.
StoresLand ==
  bus = <<>> /\ consumer_gray_q = producer_gray_q => memory = promised

\* The command the memory side works on is one the host has accepted: the RAM
\* word that the host resamples on every edge is never the head.
HeadOwned ==
  /\ ~empty_q => HeadCommand # Garbage /\ head_write = HeadCommand.we
  /\ request_valid_q => ~empty_q

\* The retained line is what memory will hold when the posted stores are done.
LineFresh ==
  line_valid_q =>
    \A w \in WordIndex : line_data[w] = promised[[line |-> line_address.line, word |-> w]]

\* Everything in the controller belongs to the current grant, master and
\* direction, and is counted; so every answer goes to the one who asked.
AnswersOwned ==
  /\ Len(bus) = pending_q
  /\ \A k \in DOMAIN bus :
       /\ bus[k].from = IF owner_video_q THEN "video" ELSE "host"
       /\ bus[k].cmd.we = owner_write_q

\* The crossing and the grant are well kept: the head is the host's, answers go to
\* their owner, and the line the bridge retains is fresh.
PathKept == TypeOK /\ HeadOwned /\ LineFresh /\ AnswersOwned

-----------------------------------------------------------------------------
(* Liveness. *)

\* Both clocks run; the controller finishes its initialisation, answers what
\* it holds and, not necessarily at the same time, takes what it is offered.
Answer == \E stall \in BOOLEAN : MemoryClock(stall, bus # <<>>) /\ memory_ready'
Take == \E ack \in BOOLEAN :
          MemoryClock(~memory_ready \/ Len(bus) = Capacity, ack) /\ memory_ready'
Tick == \E stb \in BOOLEAN, c \in CpuRequests : HostClock(stb, c)
FairSpec == Spec /\ WF_vars(Answer) /\ WF_vars(Take) /\ WF_vars(Tick)

\* Neither master starves, whatever the other one keeps asking for.
HostAnswered == (waiting # NoRequest) ~> host_ack
VideoTaken == video_stb ~> (grant = "VIDEO")
=============================================================================
