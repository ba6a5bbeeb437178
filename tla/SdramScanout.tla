---------------------------- MODULE SdramScanout ----------------------------
(***************************************************************************)
(* Two line buffers between the SDRAM and the screen                       *)
(* (riscc_sdram_scanout, boards/shared/rtl/riscc_sdram_scanout.v).         *)
(*                                                                         *)
(* PixelEdge(io) is an edge of pix_clk, FetchEdge(io) one of memory_clk;   *)
(* the clocks are unrelated.  When a row starts, the pixel side asks for   *)
(* the next one, through a mailbox per buffer: it writes the row's number  *)
(* and toggles request_q; the memory side copies the toggle to done_q when *)
(* the row is in.                                                          *)
(*                                                                         *)
(*   pixel edge  io.visible, io.line_start, io.x, io.y  (x counts words)   *)
(*   fetch edge  io.ready, io.stall, io.ack, io.rdata                      *)
(*                                                                         *)
(* A flip-flop that samples a register of the other clock while it changes *)
(* takes the old value or the new one, each bit for itself; a word of a    *)
(* buffer that is read while it is written shows anything.                 *)
(***************************************************************************)
EXTENDS Integers

CONSTANTS
  Height,        \* rows
  Words,         \* words of a row, WIDTH / 4
  BlockWords,    \* words of a burst
  BlockSpace,    \* 1 << BLOCK_BITS
  AddressSpace,  \* 1 << ADDRESS_BITS
  Undef          \* what a buffer shows that was not filled

ASSUME ScanoutAssumption ==
  /\ Height \in Nat \ {0} /\ Height % 2 = 0
  /\ BlockWords \in Nat \ {0} /\ Words \in Nat \ {0} /\ Words % BlockWords = 0
  /\ BlockSpace \in Nat /\ Words \div BlockWords <= BlockSpace
  /\ AddressSpace \in Nat /\ Words * Height <= AddressSpace
  /\ AddressSpace % BlockWords = 0
  /\ Undef \notin Nat

VARIABLES
  \* pixel clock; row_q is row0_q and row1_q
  request_q, requested_q, row_q, started_q, line_valid_q, done_meta_q, done_sync_q,
  read_word_q, pixel_valid, underrun,
  \* memory clock
  request_meta_q, request_sync_q, done_q, busy_q, issuing_q, fetch_bank_q, setup_q,
  fetch_row_q, word_q, block_q, address_q,
  lines,
  \* what the other clock may still see
  request_old, row_old, done_old, writing

pixelVars == <<request_q, requested_q, row_q, started_q, line_valid_q, done_meta_q,
               done_sync_q, read_word_q, pixel_valid, underrun>>
fetchVars == <<request_meta_q, request_sync_q, done_q, busy_q, issuing_q, fetch_bank_q,
               setup_q, fetch_row_q, word_q, block_q, address_q, lines>>
edgeVars == <<request_old, row_old, done_old, writing>>
scanoutVars == <<pixelVars, fetchVars, edgeVars>>

Bank == {0, 1}
Row == 0 .. Height - 1
WordIndex == 0 .. Words - 1
Address == 0 .. AddressSpace - 1
Flags == [Bank -> BOOLEAN]
RowAddress(r) == r * Words
LastBlock == Words \div BlockWords - 1

ScanoutTypeOK ==
  /\ {request_q, requested_q, done_meta_q, done_sync_q} \subseteq Flags
  /\ row_q \in [Bank -> Row]
  /\ {started_q, line_valid_q, pixel_valid, underrun} \subseteq BOOLEAN
  /\ read_word_q \in Address \cup {Undef}
  /\ {request_meta_q, request_sync_q, done_q} \subseteq Flags
  /\ {busy_q, issuing_q, setup_q} \subseteq BOOLEAN
  /\ fetch_bank_q \in Bank /\ fetch_row_q \in Row
  /\ word_q \in WordIndex /\ block_q \in 0 .. BlockSpace - 1 /\ address_q \in Address
  /\ lines \in [Bank \X WordIndex -> Address \cup {Undef}]
  /\ {request_old, done_old} \subseteq Flags /\ row_old \in [Bank -> Row]
  /\ writing \subseteq Bank \X WordIndex

Sampled(old, new) == {f \in Flags : \A b \in Bank : f[b] \in {old[b], new[b]}}

-----------------------------------------------------------------------------
(* Pixel side. *)

NextRow(y) == IF y = Height - 1 THEN 0 ELSE y + 1
Settled(b) == done_sync_q[b] = request_q[b]

\* Mutant: any row that has come in.
AvailableAny(y) == requested_q[y % 2] /\ Settled(y % 2)

Available(y) ==
  /\ requested_q[y % 2] /\ Settled(y % 2)
  /\ row_q[y % 2] = y
ValidNow(io) == IF io.line_start THEN Available(io.y) ELSE line_valid_q

\* Mutant: an underrun is counted when the next row cannot be asked for.
UnderrunNext(io) == underrun \/ (io.line_start /\ ~Settled(NextRow(io.y) % 2))

Asking(io, b) == io.line_start /\ b = NextRow(io.y) % 2 /\ Settled(b)
Starting(b) == ~started_q /\ b = 0
Underrun(io) == underrun \/ (io.line_start /\ ~Available(io.y))

ReadWords(b, w) == {lines[<<b, w>>]} \cup (IF <<b, w>> \in writing THEN {Undef} ELSE {})

PixelEdge(io) ==
  /\ read_word_q' \in ReadWords(io.y % 2, io.x)
  /\ done_meta_q' \in Sampled(done_old, done_q)
  /\ done_sync_q' = done_meta_q
  /\ pixel_valid' = (io.visible /\ ValidNow(io))
  /\ line_valid_q' = ValidNow(io)
  /\ underrun' = Underrun(io)
  /\ started_q' = TRUE
  /\ request_q' = [b \in Bank |-> IF Asking(io, b) THEN ~request_q[b]
                                  ELSE request_q[b] \/ Starting(b)]
  /\ requested_q' = [b \in Bank |-> requested_q[b] \/ Asking(io, b) \/ Starting(b)]
  /\ row_q' = [b \in Bank |-> IF Asking(io, b) THEN NextRow(io.y)
                              ELSE IF Starting(b) THEN 0 ELSE row_q[b]]
  /\ request_old' = request_q /\ row_old' = row_q
  /\ done_old' = done_q /\ writing' = {}
  /\ UNCHANGED fetchVars

-----------------------------------------------------------------------------
(* Memory side. *)

Requested(b) == request_sync_q[b] # done_q[b]
MemoryCyc == busy_q /\ ~setup_q
Accepted(io) == issuing_q /\ ~io.stall
BlockEnd == address_q % BlockWords = BlockWords - 1
\* Mutant: a row ends with its first burst.
FinalRequestBlock == BlockEnd

FinalRequest == BlockEnd /\ block_q = LastBlock

StartFetch(io) == ~busy_q /\ io.ready /\ request_sync_q # done_q
FetchBank == IF Requested(0) THEN 0 ELSE 1
Answer(io) == busy_q /\ io.ack
\* Mutant: one word less.
LastAnswerEarly(io) == Answer(io) /\ word_q >= Words - 2

LastAnswer(io) == Answer(io) /\ word_q = Words - 1

FetchEdge(io) ==
  /\ request_meta_q' \in Sampled(request_old, request_q)
  /\ request_sync_q' = request_meta_q
  /\ IF StartFetch(io)
     THEN /\ fetch_bank_q' = FetchBank
          /\ fetch_row_q' \in {row_old[FetchBank], row_q[FetchBank]}
     ELSE UNCHANGED <<fetch_bank_q, fetch_row_q>>
  /\ setup_q' = StartFetch(io)
  /\ busy_q' = (StartFetch(io) \/ (busy_q /\ ~LastAnswer(io)))
  /\ word_q' = IF StartFetch(io) THEN 0
               ELSE IF Answer(io) /\ ~LastAnswer(io) THEN word_q + 1 ELSE word_q
  /\ address_q' = IF Accepted(io) THEN (address_q + 1) % AddressSpace
                  ELSE IF setup_q THEN RowAddress(fetch_row_q) ELSE address_q
  /\ block_q' = IF Accepted(io) /\ BlockEnd THEN (block_q + 1) % BlockSpace
                ELSE IF ~busy_q THEN 0 ELSE block_q
  /\ issuing_q' = ((setup_q \/ issuing_q) /\ ~(Accepted(io) /\ FinalRequest))
  /\ lines' = IF Answer(io) THEN [lines EXCEPT ![<<fetch_bank_q, word_q>>] = io.rdata] ELSE lines
  /\ done_q' = IF LastAnswer(io)
               THEN [done_q EXCEPT ![fetch_bank_q] = request_sync_q[fetch_bank_q]] ELSE done_q
  /\ writing' = IF Answer(io) THEN {<<fetch_bank_q, word_q>>} ELSE {}
  /\ done_old' = done_q
  /\ request_old' = request_q /\ row_old' = row_q
  /\ UNCHANGED pixelVars

-----------------------------------------------------------------------------
Clear == [b \in Bank |-> FALSE]
Rows0 == [b \in Bank |-> 0]

\* After both resets.
ScanoutInit ==
  /\ request_q = Clear /\ requested_q = Clear /\ row_q = Rows0
  /\ started_q = FALSE /\ line_valid_q = FALSE
  /\ done_meta_q = Clear /\ done_sync_q = Clear
  /\ read_word_q = Undef /\ pixel_valid = FALSE /\ underrun = FALSE
  /\ request_meta_q = Clear /\ request_sync_q = Clear /\ done_q = Clear
  /\ busy_q = FALSE /\ issuing_q = FALSE /\ fetch_bank_q = 0 /\ setup_q = FALSE
  /\ fetch_row_q = 0 /\ word_q = 0 /\ block_q = 0 /\ address_q = 0
  /\ lines = [l \in Bank \X WordIndex |-> Undef]
  /\ request_old = Clear /\ row_old = Rows0 /\ done_old = Clear /\ writing = {}
=============================================================================
