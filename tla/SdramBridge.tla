----------------------------- MODULE SdramBridge -----------------------------
(***************************************************************************)
(* The clock crossing between the CPU and the SDRAM controller             *)
(* (riscc_sdram_bridge, boards/shared/rtl/riscc_sdram_bridge.v).           *)
(*                                                                         *)
(* Two clocks without any relation: HostEdge(io) is an edge of host_clk,   *)
(* MemoryEdge(io) one of memory_clk.  Commands cross in a four-entry RAM   *)
(* addressed by two gray pointers, each sampled by two flip-flops in the   *)
(* other domain.  A read fetches the whole line, which the host side       *)
(* retains until the next command that is not a hit in it.                 *)
(*                                                                         *)
(*   host edge    io.stb, io.c  the command offered (host_cyc with it)     *)
(*   memory edge  io.stall, io.ack, io.rdata, io.ready                     *)
(*                                                                         *)
(* A flip-flop that samples a pointer while it changes takes, bit by bit,  *)
(* the old value or the new one.                                           *)
(***************************************************************************)
EXTENDS Integers, FiniteSets

CONSTANTS
  LineIds,     \* line addresses
  Words,       \* words of a line, 1 << READ_WORD_BITS
  Lanes,       \* byte lanes of a word
  Values,      \* what a lane holds
  Undef        \* what undriven data shows

ASSUME BridgeAssumption ==
  /\ Words \in Nat \ {0}
  /\ Undef \notin Values

WordIndex == 0 .. Words - 1
LastWord == Words - 1
Addr == [line : LineIds, word : WordIndex]
Word == [Lanes -> Values]
DataWord == [Lanes -> Values \cup {Undef}]
UndefWord == [l \in Lanes |-> Undef]
Request == [addr : Addr, we : BOOLEAN, sel : SUBSET Lanes, wdata : Word]

\* The RAM word at the producer's pointer is rewritten on every host edge with
\* whatever the host shows; until a command is accepted that is Garbage.
Garbage == [addr |-> CHOOSE a \in Addr : TRUE, we |-> Undef, sel |-> {}, wdata |-> UndefWord]

\* A pointer is a pair of bits <<high, low>>.
Pointer == BOOLEAN \X BOOLEAN
Zero == <<FALSE, FALSE>>

\* Mutant: a binary counter, two bits of which change at once.
NextGrayBinary(p) == <<p[1] # p[2], ~p[2]>>

\* 00 -> 01 -> 11 -> 10 -> 00
NextGray(p) == <<p[2], ~p[1]>>

VARIABLES
  \* host clock
  producer_gray_q, consumer_meta_q, consumer_sync_q, ready_sync_q,
  read_wait_q, line_valid_q, line_address, host_ack, host_rdata,
  \* the RAMs between the clocks: commands (address, payload, writing), a line
  entry, line_data,
  \* memory clock
  consumer_gray_q, producer_meta_q, producer_sync_q, empty_q, head_write,
  issued_q, returned_q, issued_last_q, reply_last_q, request_valid_q,
  \* what a flip-flop of the other clock may still see of each pointer
  producer_old, consumer_old

hostVars == <<producer_gray_q, consumer_meta_q, consumer_sync_q, ready_sync_q,
              read_wait_q, line_valid_q, line_address, host_ack, host_rdata, entry>>
memoryVars == <<consumer_gray_q, producer_meta_q, producer_sync_q, empty_q,
                head_write, issued_q, returned_q, issued_last_q, reply_last_q,
                request_valid_q, line_data>>
bridgeVars == <<hostVars, memoryVars, producer_old, consumer_old>>

BridgeTypeOK ==
  /\ {producer_gray_q, consumer_meta_q, consumer_sync_q, producer_old} \subseteq Pointer
  /\ {consumer_gray_q, producer_meta_q, producer_sync_q, consumer_old} \subseteq Pointer
  /\ ready_sync_q \in BOOLEAN \X BOOLEAN
  /\ {read_wait_q, line_valid_q, host_ack} \subseteq BOOLEAN
  /\ {empty_q, head_write, issued_last_q, reply_last_q, request_valid_q} \subseteq BOOLEAN
  /\ line_address \in Addr
  /\ host_rdata \in DataWord
  /\ entry \in [Pointer -> Request \cup {Garbage}]
  /\ line_data \in [WordIndex -> DataWord]
  /\ {issued_q, returned_q} \subseteq WordIndex

Sampled(old, new) == {p \in Pointer : \A b \in 1 .. 2 : p[b] \in {old[b], new[b]}}

-----------------------------------------------------------------------------
(* Host side. *)

HostEmpty == producer_gray_q = consumer_sync_q
\* Mutant: a store into the retained line counts as a hit.
LineHitStores(c) == line_valid_q /\ c.addr.line = line_address.line /\ Words > 1

LineHit(c) == line_valid_q /\ ~c.we /\ c.addr.line = line_address.line /\ Words > 1
HostReady == ready_sync_q[2]
\* Mutant: no look at the consumer's pointer.
HostStallNotFull(c) == ~HostReady \/ read_wait_q \/ (~c.we /\ ~HostEmpty)

HostStall(c) ==
  \/ ~HostReady
  \/ read_wait_q
  \/ NextGray(producer_gray_q) = consumer_sync_q
  \/ ~c.we /\ ~HostEmpty
HostAccept(io) == io.stb /\ ~HostStall(io.c)
LineReturned == read_wait_q /\ HostEmpty

\* Mutant: a store keeps the line.
HostCommandLineKept(io) ==
  LET queued == HostAccept(io) /\ ~LineHit(io.c)
      read == queued /\ ~io.c.we
  IN  /\ producer_gray_q' = IF queued THEN NextGray(producer_gray_q) ELSE producer_gray_q
      /\ entry' = [entry EXCEPT ![producer_gray_q] = IF queued THEN io.c ELSE Garbage]
      /\ line_address' = IF read THEN io.c.addr ELSE line_address
      /\ line_valid_q' = (LineReturned \/ (line_valid_q /\ ~read))
      /\ read_wait_q' = (read \/ (read_wait_q /\ ~HostEmpty))
      /\ host_ack' = (LineReturned \/ (HostAccept(io) /\ (io.c.we \/ LineHit(io.c))))

\* A hit is answered from the line; anything else is queued and drops the line.
HostCommand(io) ==
  LET queued == HostAccept(io) /\ ~LineHit(io.c)
      read == queued /\ ~io.c.we
  IN  /\ producer_gray_q' = IF queued THEN NextGray(producer_gray_q) ELSE producer_gray_q
      /\ entry' = [entry EXCEPT ![producer_gray_q] = IF queued THEN io.c ELSE Garbage]
      /\ line_address' = IF read THEN io.c.addr ELSE line_address
      /\ line_valid_q' = (LineReturned \/ (line_valid_q /\ ~queued))
      /\ read_wait_q' = (read \/ (read_wait_q /\ ~HostEmpty))
      /\ host_ack' = (LineReturned \/ (HostAccept(io) /\ (io.c.we \/ LineHit(io.c))))

HostEdge(io) ==
  /\ consumer_meta_q' \in Sampled(consumer_old, consumer_gray_q)
  /\ consumer_sync_q' = consumer_meta_q
  /\ ready_sync_q' = <<io.ready, ready_sync_q[1]>>
  /\ host_rdata' = line_data[IF read_wait_q THEN line_address.word ELSE io.c.addr.word]
  /\ HostCommand(io)
  /\ producer_old' = producer_gray_q
  /\ consumer_old' = consumer_gray_q
  /\ UNCHANGED memoryVars

-----------------------------------------------------------------------------
(* Memory side. *)

HeadCommand == entry[consumer_gray_q]
MemoryStb == request_valid_q
MemoryCmd ==
  IF head_write THEN HeadCommand
  ELSE [HeadCommand EXCEPT !.addr.word = issued_q, !.we = FALSE, !.sel = Lanes]

LastIssue == head_write \/ issued_q = LastWord
LastReply == head_write \/ reply_last_q \/ LastWord = 0
Issue(io) == MemoryStb /\ ~io.stall
Reply(io) == ~empty_q /\ io.ack
Complete(io) == Reply(io) /\ LastReply
NothingQueued == consumer_gray_q = producer_sync_q
NothingNext == NextGray(consumer_gray_q) = producer_sync_q

\* The command type is read while the bridge is empty and when a head retires.
HeadStep(io) ==
  LET slot == IF empty_q THEN consumer_gray_q ELSE NextGray(consumer_gray_q)
  IN  head_write' \in IF ~(empty_q \/ Complete(io)) THEN {head_write}
                      ELSE IF entry[slot] = Garbage THEN BOOLEAN
                      ELSE {entry[slot].we}

IssueStep(io) ==
  /\ issued_q' = IF Issue(io) /\ ~head_write THEN (issued_q + 1) % Words ELSE issued_q
  /\ issued_last_q' = (~Complete(io) /\ (issued_last_q \/ (Issue(io) /\ LastIssue)))
  /\ request_valid_q' =
       (io.ready /\ \/ Complete(io) /\ ~NothingNext
                    \/ ~(Issue(io) /\ LastIssue) /\ ~issued_last_q /\ ~NothingQueued)

\* Mutant: answers are counted past the line.
ReplyStepOverrun(io) ==
  /\ returned_q' = IF Reply(io) /\ ~head_write THEN returned_q + 1 ELSE returned_q
  /\ reply_last_q' = IF Reply(io) THEN ~LastReply /\ returned_q = Words - 2 ELSE reply_last_q
  /\ consumer_gray_q' = IF Complete(io) THEN NextGray(consumer_gray_q) ELSE consumer_gray_q
  /\ line_data' = IF ~empty_q /\ ~head_write THEN [line_data EXCEPT ![returned_q] = io.rdata]
                  ELSE line_data

ReplyStep(io) ==
  /\ returned_q' = IF Reply(io) /\ ~head_write THEN (returned_q + 1) % Words ELSE returned_q
  /\ reply_last_q' = IF Reply(io) THEN ~LastReply /\ returned_q = Words - 2 ELSE reply_last_q
  /\ consumer_gray_q' = IF Complete(io) THEN NextGray(consumer_gray_q) ELSE consumer_gray_q
  /\ line_data' = IF ~empty_q /\ ~head_write THEN [line_data EXCEPT ![returned_q] = io.rdata]
                  ELSE line_data

MemoryEdge(io) ==
  /\ producer_meta_q' \in Sampled(producer_old, producer_gray_q)
  /\ producer_sync_q' = producer_meta_q
  /\ empty_q' = (NothingQueued \/ (Complete(io) /\ NothingNext))
  /\ HeadStep(io)
  /\ IssueStep(io)
  /\ ReplyStep(io)
  /\ producer_old' = producer_gray_q
  /\ consumer_old' = consumer_gray_q
  /\ UNCHANGED hostVars

\* Both resets are asserted together; the RAMs hold anything.
BridgeInit(a) ==
  /\ producer_gray_q = Zero /\ producer_old = Zero
  /\ producer_meta_q = Zero /\ producer_sync_q = Zero
  /\ consumer_gray_q = Zero /\ consumer_old = Zero
  /\ consumer_meta_q = Zero /\ consumer_sync_q = Zero
  /\ ready_sync_q = <<FALSE, FALSE>>
  /\ read_wait_q = FALSE /\ line_valid_q = FALSE /\ host_ack = FALSE
  /\ line_address = a
  /\ host_rdata = UndefWord
  /\ entry = [p \in Pointer |-> Garbage]
  /\ line_data = [w \in WordIndex |-> UndefWord]
  /\ empty_q = TRUE /\ head_write = FALSE
  /\ issued_q = 0 /\ returned_q = 0
  /\ issued_last_q = FALSE /\ reply_last_q = FALSE /\ request_valid_q = FALSE
=============================================================================
