----------------------------- MODULE VideoPath -----------------------------
(***************************************************************************)
(* The scan-out with the raster that reads it and a memory that serves it. *)
(*                                                                         *)
(* The raster (riscc_video_parallel) shows every row on two lines, with    *)
(* blanking of any length between them; line_start marks the first clock   *)
(* of the first one.  A word is on the screen for any number of clocks.    *)
(* The memory becomes ready, takes reads when it likes and answers them in *)
(* order, at the earliest on the edge after (SdramPath).                   *)
(***************************************************************************)
EXTENDS SdramScanout, Sequences

CONSTANT Capacity  \* reads that the memory holds, at most

ASSUME CapacityAssumption == Capacity \in Nat

VARIABLES
  beam,          \* source_y, v_repeat, source_x (Words: blanking), first clock of a line
  memory_ready,
  bus,           \* reads accepted and not answered
  shown          \* history: what the last pixel clock was to show, {} if blanked

vars == <<scanoutVars, beam, memory_ready, bus, shown>>

TypeOK ==
  /\ ScanoutTypeOK
  /\ beam \in [y : Row, repeat : {0, 1}, x : 0 .. Words, first : BOOLEAN]
  /\ memory_ready \in BOOLEAN
  /\ bus \in Seq(Address) /\ Len(bus) <= Capacity
  /\ shown \subseteq Address

Visible == beam.x < Words
LineStart == Visible /\ beam.first /\ beam.repeat = 0
At(y, repeat, x, first) == [y |-> y, repeat |-> repeat, x |-> x, first |-> first]
NextLine == At(IF beam.repeat = 1 THEN NextRow(beam.y) ELSE beam.y, 1 - beam.repeat, 0, TRUE)
Raster ==
  \/ beam' = At(beam.y, beam.repeat, beam.x, FALSE)
  \/ Visible /\ beam' = At(beam.y, beam.repeat, beam.x + 1, FALSE)
  \/ ~Visible /\ beam' = NextLine

PixelIO == [visible |-> Visible, line_start |-> LineStart,
            x |-> beam.x % Words, y |-> beam.y]

\* One edge of pix_clk.
PixelClock ==
  /\ PixelEdge(PixelIO)
  /\ Raster
  /\ shown' = IF Visible THEN {RowAddress(beam.y) + beam.x} ELSE {}
  /\ UNCHANGED <<memory_ready, bus>>

MemoryIO(stall, ack) ==
  [ready |-> memory_ready, stall |-> stall, ack |-> ack,
   rdata |-> IF ack THEN bus[1] ELSE Undef]

\* One edge of memory_clk.
MemoryClock(stall, ack) ==
  /\ ack => bus # <<>>
  /\ ~memory_ready \/ Len(bus) = Capacity => stall
  /\ FetchEdge(MemoryIO(stall, ack))
  /\ bus' = (IF ack THEN Tail(bus) ELSE bus)
            \o (IF MemoryCyc /\ issuing_q /\ ~stall THEN <<address_q>> ELSE <<>>)
  /\ memory_ready' \in {memory_ready, TRUE}
  /\ UNCHANGED <<beam, shown>>

Init ==
  /\ ScanoutInit
  /\ beam = At(Height - 1, 1, Words, FALSE)
  /\ memory_ready = FALSE
  /\ bus = <<>>
  /\ shown = {}

Next == PixelClock \/ \E stall, ack \in BOOLEAN : MemoryClock(stall, ack)

Spec == Init /\ [][Next]_vars

-----------------------------------------------------------------------------
(* Safety. *)

\* What is on the screen is the word that belongs there, or blank: a buffer is
\* never shown while it is filled, nor with another row, however late rows
\* are asked for, fetched or reported.
RowShown == pixel_valid => shown = {read_word_q}

\* A row is reported when all of it is in, and only then: a mailbox at rest
\* names the row that its buffer holds.
RowWhole ==
  \A b \in Bank : requested_q[b] /\ request_q[b] = done_q[b] =>
    \A w \in WordIndex : lines[<<b, w>>] = RowAddress(row_q[b]) + w

\* Nothing is blanked in silence.
BlankReported == shown # {} /\ ~pixel_valid => underrun

\* A fetch takes its own answers only, and all of them are due or still to be
\* asked for, so that it ends with its row.
FetchesOwned ==
  /\ ~busy_q => bus = <<>>
  /\ \A k \in DOMAIN bus : bus[k] = RowAddress(fetch_row_q) + word_q + k - 1
  /\ MemoryCyc =>
       word_q + Len(bus) = IF issuing_q THEN address_q - RowAddress(fetch_row_q) ELSE Words
=============================================================================
