-------------------------- MODULE VideoPathProofs --------------------------
(***************************************************************************)
(* Proofs about VideoPath, for a screen of any size and a memory of any    *)
(* depth and speed: what is shown is the right word or a reported blank.   *)
(***************************************************************************)
EXTENDS VideoPath, SequenceTheorems, TLAPS

(* Arithmetic of rows, bursts and addresses. *)

\* A number below the modulus is its own remainder.
LEMMA ModSmall == ASSUME NEW n \in Nat \ {0}, NEW a \in 0 .. n - 1 PROVE a % n = a
OBVIOUS

\* A remainder is below the modulus.
LEMMA ModRange == ASSUME NEW n \in Nat \ {0}, NEW a \in Nat PROVE a % n \in 0 .. n - 1
OBVIOUS

\* In a block of n, what is left after whole blocks.
LEMMA ModBlock ==
  ASSUME NEW n \in Nat \ {0}, NEW q \in Nat, NEW j \in 0 .. n - 1
  PROVE  (q * n + j) % n = j
OBVIOUS

\* More blocks are not shorter.
LEMMA Monotone ==
  ASSUME NEW a \in Nat, NEW b \in Nat, NEW c \in Nat, a <= b PROVE a * c <= b * c
OBVIOUS

\* The row after y is in the other buffer, because there is an even number of rows.
LEMMA NextParity == ASSUME NEW y \in Row PROVE NextRow(y) \in Row /\ NextRow(y) % 2 = 1 - (y % 2)
BY ScanoutAssumption DEF Row, NextRow

\* A row has one of the two buffers.
LEMMA Parity == ASSUME NEW y \in Row PROVE y % 2 \in Bank
BY ScanoutAssumption DEF Row, Bank

\* Bursts of a row.
N == Words \div BlockWords
\* A row is N bursts, and block_q can count them.
LEMMA Blocks == /\ N \in Nat \ {0} /\ Words = N * BlockWords /\ N <= BlockSpace
                /\ BlockSpace \in Nat \ {0} /\ LastBlock = N - 1
BY ScanoutAssumption DEF N, LastBlock

\* The frame buffer fits the address space.
LEMMA RowRange ==
  ASSUME NEW r \in Row
  PROVE  RowAddress(r) \in Nat /\ RowAddress(r) + Words <= AddressSpace
BY ScanoutAssumption DEF Row, RowAddress

\* A row starts on the boundary of a burst.
LEMMA RowBlock == ASSUME NEW r \in Row PROVE RowAddress(r) = (r * N) * BlockWords
BY Blocks, ScanoutAssumption DEF Row, RowAddress

-----------------------------------------------------------------------------
(* Types. *)

\* A flip-flop that samples the other clock takes the old or the new bit.
LEMMA SampledTyped ==
  ASSUME NEW old, NEW new, NEW f \in Sampled(old, new)
  PROVE  f \in Flags /\ \A b \in Bank : f[b] \in {old[b], new[b]}
BY DEF Sampled

\* Both resets leave every register in its type.
LEMMA InitTyped == ASSUME Init PROVE TypeOK
<1> USE ScanoutAssumption, CapacityAssumption
<1>1. 0 \in Row /\ 0 \in WordIndex /\ 0 \in Address /\ 0 \in Bank /\ 0 \in 0 .. BlockSpace - 1
  BY Blocks, RowRange DEF Row, WordIndex, Address, Bank, RowAddress
<1>2. Clear \in Flags /\ Rows0 \in [Bank -> Row]
  BY <1>1 DEF Clear, Flags, Rows0
<1>3. ScanoutTypeOK
  BY <1>1, <1>2 DEF Init, ScanoutInit, ScanoutTypeOK
<1>4. beam \in [y : Row, repeat : {0, 1}, x : 0 .. Words, first : BOOLEAN]
  BY DEF Init, Row, At
<1>5. <<>> \in Seq(Address) /\ Len(<<>>) <= Capacity /\ {} \subseteq Address
  OBVIOUS
<1> QED
  BY <1>3, <1>4, <1>5 DEF Init, TypeOK

\* The inputs of an edge of the pixel clock.
LEMMA PixelInputs ==
  ASSUME TypeOK
  PROVE  /\ PixelIO.y = beam.y /\ beam.y \in Row /\ beam.y % 2 \in Bank
         /\ PixelIO.x \in WordIndex /\ (Visible => PixelIO.x = beam.x)
         /\ PixelIO.visible = Visible /\ PixelIO.line_start = LineStart
         /\ PixelIO.visible \in BOOLEAN /\ PixelIO.line_start \in BOOLEAN
         /\ beam.repeat \in {0, 1} /\ beam.x \in 0 .. Words /\ beam.first \in BOOLEAN
<1>1. beam.y \in Row /\ beam.repeat \in {0, 1} /\ beam.x \in 0 .. Words /\ beam.first \in BOOLEAN
  BY DEF TypeOK
<1>2. beam.x % Words \in WordIndex /\ (Visible => beam.x % Words = beam.x)
  <2>1. Words \in Nat \ {0} /\ beam.x \in Nat
    BY <1>1, ScanoutAssumption
  <2>2. beam.x % Words \in WordIndex
    BY <2>1, ModRange DEF WordIndex
  <2>3. ASSUME Visible PROVE beam.x % Words = beam.x
    <3>1. beam.x \in 0 .. Words - 1
      BY <2>1, <2>3 DEF Visible
    <3> QED
      BY <2>1, <3>1, ModSmall
  <2> QED
    BY <2>2, <2>3
<1>3. Visible \in BOOLEAN /\ LineStart \in BOOLEAN
  BY DEF Visible, LineStart
<1> QED
  BY <1>1, <1>2, <1>3, Parity DEF PixelIO

\* Where the raster goes is on the screen or in its blanking.
LEMMA BeamTyped ==
  ASSUME NEW y \in Row, NEW repeat \in {0, 1}, NEW x \in 0 .. Words, NEW first \in BOOLEAN
  PROVE  At(y, repeat, x, first) \in [y : Row, repeat : {0, 1}, x : 0 .. Words, first : BOOLEAN]
BY DEF At

\* The pixel clock keeps the types.
LEMMA PixelTyped == ASSUME TypeOK, PixelClock PROVE TypeOK'
<1> USE ScanoutAssumption
<1>1. /\ PixelIO.y = beam.y /\ beam.y \in Row /\ beam.y % 2 \in Bank /\ PixelIO.x \in WordIndex
      /\ PixelIO.visible \in BOOLEAN /\ PixelIO.line_start \in BOOLEAN
      /\ beam.repeat \in {0, 1} /\ beam.x \in 0 .. Words
  BY PixelInputs
<1>2. PixelEdge(PixelIO) /\ Raster /\ UNCHANGED <<memory_ready, bus>>
  BY DEF PixelClock
<1>3. /\ done_meta_q' \in Flags /\ done_sync_q' \in Flags
      /\ request_old' \in Flags /\ done_old' \in Flags
  BY <1>2, SampledTyped DEF PixelEdge, TypeOK, ScanoutTypeOK
<1>4. request_q' \in Flags /\ requested_q' \in Flags
  <2>1. request_q \in Flags /\ requested_q \in Flags
    BY DEF TypeOK, ScanoutTypeOK
  <2> QED
    BY <1>2, <2>1 DEF PixelEdge, Flags, Asking, Starting
<1>5. row_q' \in [Bank -> Row] /\ row_old' \in [Bank -> Row] /\ writing' \subseteq Bank \X WordIndex
  <2>1. NextRow(PixelIO.y) \in Row /\ 0 \in Row
    BY <1>1, NextParity DEF Row
  <2> QED
    BY <1>2, <2>1 DEF PixelEdge, TypeOK, ScanoutTypeOK
<1>6. started_q' \in BOOLEAN /\ line_valid_q' \in BOOLEAN /\ pixel_valid' \in BOOLEAN /\ underrun' \in BOOLEAN
  BY <1>1, <1>2 DEF PixelEdge, TypeOK, ScanoutTypeOK, ValidNow, Available, Underrun
<1>7. read_word_q' \in Address \cup {Undef}
  <2>1. lines[<<PixelIO.y % 2, PixelIO.x>>] \in Address \cup {Undef}
    BY <1>1 DEF TypeOK, ScanoutTypeOK
  <2> QED
    BY <1>2, <2>1 DEF PixelEdge, ReadWords
<1>8. ScanoutTypeOK'
  <2>1. UNCHANGED fetchVars
    BY <1>2 DEF PixelEdge
  <2> QED
    BY <1>3, <1>4, <1>5, <1>6, <1>7, <2>1 DEF fetchVars, TypeOK, ScanoutTypeOK, Address, Row, WordIndex
<1>9. beam' \in [y : Row, repeat : {0, 1}, x : 0 .. Words, first : BOOLEAN]
  <2>1. CASE beam' = At(beam.y, beam.repeat, beam.x, FALSE)
    BY <1>1, <2>1, BeamTyped
  <2>2. CASE Visible /\ beam' = At(beam.y, beam.repeat, beam.x + 1, FALSE)
    <3>1. beam.x + 1 \in 0 .. Words
      BY <1>1, <2>2 DEF Visible
    <3> QED
      BY <1>1, <2>2, <3>1, BeamTyped
  <2>3. CASE beam' = NextLine
    <3>1. (IF beam.repeat = 1 THEN NextRow(beam.y) ELSE beam.y) \in Row
      BY <1>1, NextParity
    <3>2. 1 - beam.repeat \in {0, 1} /\ 0 \in 0 .. Words
      BY <1>1
    <3> QED
      BY <2>3, <3>1, <3>2, BeamTyped DEF NextLine
  <2> QED
    BY <1>2, <2>1, <2>2, <2>3 DEF Raster
<1>10. shown' \subseteq Address
  <2>1. Visible => RowAddress(beam.y) + beam.x \in Address
    BY <1>1, RowRange DEF Visible, Address
  <2> QED
    BY <2>1 DEF PixelClock
<1> QED
  BY <1>2, <1>8, <1>9, <1>10 DEF TypeOK, Address

-----------------------------------------------------------------------------
(* The inductive invariant. *)

\* A toggle travels from request_q through the flip-flops of both clocks to
\* done_sync_q; a mailbox carries one at a time.  Its row travels with it.
Mailbox(b) ==
  LET r == request_q[b]
  IN  /\ request_old[b] = r \/ request_meta_q[b] # r
      /\ request_meta_q[b] = r \/ request_sync_q[b] # r
      /\ request_sync_q[b] = r \/ done_q[b] # r
      /\ done_q[b] = r \/ done_old[b] # r
      /\ done_old[b] = r \/ done_meta_q[b] # r
      /\ done_meta_q[b] = r \/ done_sync_q[b] # r
      /\ request_old[b] = r => row_old[b] = row_q[b]
      /\ ~started_q => ~r /\ ~done_sync_q[b] /\ ~requested_q[b]

Mailboxes == \A b \in Bank : Mailbox(b)

\* What the fetch under way has to do with its mailbox and its buffer.
FetchBound ==
  /\ busy_q => /\ request_sync_q[fetch_bank_q] # done_q[fetch_bank_q]
               /\ fetch_row_q = row_q[fetch_bank_q]
               /\ \A w \in WordIndex : w < word_q =>
                    lines[<<fetch_bank_q, w>>] = RowAddress(fetch_row_q) + w
  /\ \A b \in Bank, w \in WordIndex : <<b, w>> \in writing => done_old[b] # request_q[b]

\* How far its requests have come: Offset words, block_q whole bursts.
Offset == address_q - RowAddress(fetch_row_q)
Issued ==
  /\ ~busy_q => ~issuing_q /\ ~setup_q
  /\ setup_q => ~issuing_q /\ bus = <<>> /\ word_q = 0 /\ block_q = 0
  /\ issuing_q => /\ block_q \in 0 .. N - 1
                  /\ Offset - block_q * BlockWords \in 0 .. BlockWords - 1

\* Between the first clocks of two rows the verdict of the first one stands,
\* and if it was bad it has been counted.
Verdict ==
  /\ line_valid_q /\ ~LineStart => Available(beam.y)
  /\ ~line_valid_q /\ ~LineStart /\ (Visible \/ beam.repeat = 0) => underrun

Inv == /\ TypeOK /\ Mailboxes /\ FetchBound /\ Issued /\ FetchesOwned
       /\ RowWhole /\ Verdict /\ RowShown /\ BlankReported

-----------------------------------------------------------------------------
(* One edge of the memory clock: idle or starting, setting up, fetching. *)

\* The parts about the memory clock.
Fetching == TypeOK /\ Mailboxes /\ FetchBound /\ Issued /\ FetchesOwned /\ RowWhole

\* The inputs of an edge of the memory clock.
LEMMA MemoryInputs ==
  ASSUME NEW stall, NEW ack
  PROVE  LET io == MemoryIO(stall, ack)
         IN  io.ready = memory_ready /\ io.stall = stall /\ io.ack = ack
             /\ (ack => io.rdata = bus[1])
BY DEF MemoryIO

\* A toggle that the memory side sees and has not answered is request_q itself,
\* and its row is stable.
LEMMA MailboxChain ==
  ASSUME TypeOK, NEW b \in Bank, Mailbox(b), request_sync_q[b] # done_q[b]
  PROVE  /\ request_sync_q[b] = request_q[b] /\ request_meta_q[b] = request_q[b]
         /\ request_old[b] = request_q[b] /\ row_old[b] = row_q[b]
         /\ done_q[b] # request_q[b] /\ done_sync_q[b] # request_q[b]
<1>1. /\ request_q[b] \in BOOLEAN /\ request_sync_q[b] \in BOOLEAN /\ done_q[b] \in BOOLEAN
  BY DEF TypeOK, ScanoutTypeOK, Flags
<1>2. request_sync_q[b] = request_q[b] /\ done_q[b] # request_q[b]
  <2>1. request_sync_q[b] = request_q[b] \/ done_q[b] # request_q[b]
    BY DEF Mailbox
  <2> QED
    BY <1>1, <2>1
<1> QED
  BY <1>2 DEF Mailbox

\* An edge without a fetch under way: nothing, or the start of one.
LEMMA StepIdle ==
  ASSUME Fetching, NEW stall \in BOOLEAN, NEW ack \in BOOLEAN, MemoryClock(stall, ack), ~busy_q
  PROVE  /\ bus = <<>> /\ bus' = <<>> /\ issuing_q' = FALSE /\ writing' = {}
         /\ lines' = lines /\ done_q' = done_q /\ address_q' = address_q
         /\ busy_q' = setup_q' /\ setup_q' \in BOOLEAN
         /\ block_q' = 0
         /\ setup_q' => /\ request_sync_q[fetch_bank_q'] # done_q[fetch_bank_q']
                        /\ fetch_bank_q' \in Bank
                        /\ fetch_row_q' = row_q[fetch_bank_q'] /\ word_q' = 0
         /\ ~setup_q' => UNCHANGED <<fetch_bank_q, fetch_row_q, word_q>>
<1> DEFINE io == MemoryIO(stall, ack)
<1>1. io.ready = memory_ready /\ io.stall = stall /\ io.ack = ack
  BY MemoryInputs
<1>2. bus = <<>> /\ ~ack /\ ~issuing_q /\ ~setup_q
  BY DEF Fetching, FetchesOwned, Issued, MemoryClock
<1>3. FetchEdge(io)
  BY DEF MemoryClock
<1>4. ~Answer(io) /\ ~LastAnswer(io) /\ ~Accepted(io)
  BY <1>1, <1>2 DEF Answer, LastAnswer, Accepted
<1>5. bus' = <<>>
  BY <1>2 DEF MemoryClock
<1>6. /\ issuing_q' = FALSE /\ writing' = {} /\ lines' = lines /\ done_q' = done_q
      /\ address_q' = address_q /\ block_q' = 0
      /\ setup_q' = StartFetch(io) /\ busy_q' = (StartFetch(io) \/ (busy_q /\ ~LastAnswer(io)))
  BY <1>2, <1>3, <1>4 DEF FetchEdge
<1>7. StartFetch(io) \in BOOLEAN
  BY DEF StartFetch
<1>8. busy_q' = setup_q'
  BY <1>6, <1>7
<1>9. ASSUME StartFetch(io)
      PROVE  /\ request_sync_q[fetch_bank_q'] # done_q[fetch_bank_q'] /\ fetch_bank_q' \in Bank
             /\ fetch_row_q' = row_q[fetch_bank_q'] /\ word_q' = 0
  <2>1. fetch_bank_q' = FetchBank /\ fetch_row_q' \in {row_old[FetchBank], row_q[FetchBank]} /\ word_q' = 0
    BY <1>3, <1>9 DEF FetchEdge
  <2>2. FetchBank \in Bank /\ request_sync_q[FetchBank] # done_q[FetchBank]
    <3>1. request_sync_q # done_q /\ request_sync_q \in Flags /\ done_q \in Flags
      BY <1>9 DEF StartFetch, Fetching, TypeOK, ScanoutTypeOK
    <3>2. request_sync_q[0] # done_q[0] \/ request_sync_q[1] # done_q[1]
      BY <3>1 DEF Flags, Bank
    <3> QED
      BY <3>2 DEF FetchBank, Requested, Bank
  <2>3. row_old[FetchBank] = row_q[FetchBank]
    BY <2>2, MailboxChain DEF Fetching, Mailboxes
  <2> QED
    BY <2>1, <2>2, <2>3
<1>10. ~StartFetch(io) => UNCHANGED <<fetch_bank_q, fetch_row_q, word_q>>
  BY <1>3, <1>4 DEF FetchEdge
<1> QED
  BY <1>2, <1>5, <1>6, <1>7, <1>8, <1>9, <1>10

\* The edge that loads the address of the row.
LEMMA StepSetup ==
  ASSUME Fetching, NEW stall \in BOOLEAN, NEW ack \in BOOLEAN, MemoryClock(stall, ack), setup_q
  PROVE  /\ busy_q /\ bus = <<>> /\ bus' = <<>> /\ busy_q' = TRUE /\ issuing_q' = TRUE /\ writing' = {}
         /\ setup_q' = FALSE /\ word_q' = 0 /\ word_q = 0 /\ block_q' = 0
         /\ address_q' = RowAddress(fetch_row_q)
         /\ UNCHANGED <<lines, done_q, fetch_bank_q, fetch_row_q>>
<1> DEFINE io == MemoryIO(stall, ack)
<1>1. io.ready = memory_ready /\ io.stall = stall /\ io.ack = ack
  BY MemoryInputs
<1>2. busy_q /\ bus = <<>> /\ ~ack /\ ~issuing_q /\ word_q = 0 /\ block_q = 0
  BY DEF Fetching, Issued, MemoryClock
<1>3. FetchEdge(io)
  BY DEF MemoryClock
<1>4. /\ Answer(io) = FALSE /\ LastAnswer(io) = FALSE
      /\ Accepted(io) = FALSE /\ StartFetch(io) = FALSE
  BY <1>1, <1>2 DEF Answer, LastAnswer, Accepted, StartFetch
<1>5. bus' = <<>>
  BY <1>2 DEF MemoryClock
<1>6. busy_q = TRUE /\ setup_q = TRUE
  BY <1>2 DEF Fetching, TypeOK, ScanoutTypeOK
<1> HIDE DEF io
<1>7. busy_q' = TRUE /\ issuing_q' = TRUE /\ setup_q' = FALSE
  BY <1>3, <1>4, <1>6 DEF FetchEdge
<1>8. /\ writing' = {} /\ word_q' = word_q /\ block_q' = block_q
      /\ address_q' = RowAddress(fetch_row_q)
      /\ UNCHANGED <<lines, done_q, fetch_bank_q, fetch_row_q>>
  BY <1>2, <1>3, <1>4, <1>6 DEF FetchEdge
<1> QED
  BY <1>2, <1>5, <1>7, <1>8

\* An edge of a fetch: a request may be accepted, an answer taken, both or none.
LEMMA StepFetch ==
  ASSUME Fetching, NEW stall \in BOOLEAN, NEW ack \in BOOLEAN, MemoryClock(stall, ack),
         busy_q, ~setup_q
  PROVE  LET last == ack /\ word_q = Words - 1
             take == issuing_q /\ ~stall
             end  == BlockEnd /\ block_q = LastBlock
         IN  /\ UNCHANGED <<fetch_bank_q, fetch_row_q>> /\ setup_q' = FALSE
             /\ ack => bus # <<>>
             /\ busy_q' = ~last
             /\ word_q' = IF ack /\ ~last THEN word_q + 1 ELSE word_q
             /\ address_q' = IF take THEN (address_q + 1) % AddressSpace ELSE address_q
             /\ block_q' = IF take /\ BlockEnd THEN (block_q + 1) % BlockSpace ELSE block_q
             /\ issuing_q' = (issuing_q /\ ~(take /\ end))
             /\ lines' = IF ack THEN [lines EXCEPT ![<<fetch_bank_q, word_q>>] = bus[1]] ELSE lines
             /\ done_q' = IF last
                  THEN [done_q EXCEPT ![fetch_bank_q] = request_sync_q[fetch_bank_q]] ELSE done_q
             /\ writing' = IF ack THEN {<<fetch_bank_q, word_q>>} ELSE {}
             /\ bus' = (IF ack THEN Tail(bus) ELSE bus) \o (IF take THEN <<address_q>> ELSE <<>>)
<1> DEFINE io == MemoryIO(stall, ack)
<1>1. io.ready = memory_ready /\ io.stall = stall /\ io.ack = ack /\ (ack => io.rdata = bus[1])
  BY MemoryInputs
<1>2. FetchEdge(io)
  BY DEF MemoryClock
<1>3. /\ Answer(io) = ack /\ LastAnswer(io) = (ack /\ word_q = Words - 1)
      /\ Accepted(io) = (issuing_q /\ ~stall) /\ StartFetch(io) = FALSE
      /\ FinalRequest = (BlockEnd /\ block_q = LastBlock)
  BY <1>1 DEF Answer, LastAnswer, Accepted, StartFetch, FinalRequest
<1>4. ack => bus # <<>>
  BY DEF MemoryClock
<1>5. bus' = (IF ack THEN Tail(bus) ELSE bus) \o (IF issuing_q /\ ~stall THEN <<address_q>> ELSE <<>>)
  BY DEF MemoryClock, MemoryCyc
<1>6. issuing_q \in BOOLEAN
  BY DEF Fetching, TypeOK, ScanoutTypeOK
<1> HIDE DEF io
<1>7. /\ UNCHANGED <<fetch_bank_q, fetch_row_q>> /\ setup_q' = FALSE
      /\ busy_q' = ~LastAnswer(io)
      /\ word_q' = IF Answer(io) /\ ~LastAnswer(io) THEN word_q + 1 ELSE word_q
      /\ address_q' = IF Accepted(io) THEN (address_q + 1) % AddressSpace ELSE address_q
      /\ block_q' = IF Accepted(io) /\ BlockEnd THEN (block_q + 1) % BlockSpace ELSE block_q
      /\ issuing_q' = (issuing_q /\ ~(Accepted(io) /\ FinalRequest))
      /\ lines' = IF Answer(io) THEN [lines EXCEPT ![<<fetch_bank_q, word_q>>] = io.rdata] ELSE lines
      /\ done_q' = IF LastAnswer(io)
           THEN [done_q EXCEPT ![fetch_bank_q] = request_sync_q[fetch_bank_q]] ELSE done_q
      /\ writing' = IF Answer(io) THEN {<<fetch_bank_q, word_q>>} ELSE {}
  BY <1>2, <1>3, <1>6 DEF FetchEdge
<1> QED
  BY <1>1, <1>3, <1>4, <1>5, <1>7

-----------------------------------------------------------------------------
(* The memory clock keeps the invariant, part by part. *)

\* What every edge of the memory clock does.
LEMMA StepMemory ==
  ASSUME NEW stall \in BOOLEAN, NEW ack \in BOOLEAN, MemoryClock(stall, ack)
  PROVE  /\ request_meta_q' \in Flags
         /\ \A b \in Bank : request_meta_q'[b] \in {request_old[b], request_q[b]}
         /\ request_sync_q' = request_meta_q
         /\ done_old' = done_q /\ request_old' = request_q /\ row_old' = row_q
         /\ UNCHANGED pixelVars /\ UNCHANGED <<beam, shown>>
         /\ memory_ready' \in {memory_ready, TRUE}
BY SampledTyped DEF MemoryClock, FetchEdge

One(x) == IF x THEN 1 ELSE 0

\* A read is offered.
Taken == MemoryCyc /\ issuing_q

\* The reads in flight: the oldest one leaves with its answer, one may join.
LEMMA BusStep ==
  ASSUME TypeOK, NEW stall \in BOOLEAN, NEW ack \in BOOLEAN, MemoryClock(stall, ack)
  PROVE  /\ bus' \in Seq(Address) /\ Len(bus) \in Nat
         /\ DOMAIN bus = 1 .. Len(bus) /\ DOMAIN bus' = 1 .. Len(bus')
         /\ ack => bus[1] \in Address /\ Len(bus) >= 1
         /\ Len(bus') = Len(bus) - One(ack) + One(Taken /\ ~stall)
         /\ \A k \in 1 .. Len(bus') :
              bus'[k] = IF k + One(ack) <= Len(bus) THEN bus[k + One(ack)] ELSE address_q
<1> DEFINE rest == IF ack THEN Tail(bus) ELSE bus
           new == IF Taken /\ ~stall THEN <<address_q>> ELSE <<>>
<1>1. bus \in Seq(Address) /\ address_q \in Address /\ (ack => bus # <<>>)
  BY DEF TypeOK, ScanoutTypeOK, MemoryClock
<1>2. Len(bus) \in Nat /\ (ack => bus[1] \in Address /\ Len(bus) >= 1)
  <2>1. Len(bus) \in Nat /\ (bus # <<>> => Len(bus) \in Nat \ {0})
    BY <1>1, EmptySeq, LenProperties
  <2>2. ack => 1 \in 1 .. Len(bus)
    BY <1>1, <2>1
  <2> QED
    BY <1>1, <2>1, <2>2, ElementOfSeq
<1>3. /\ rest \in Seq(Address) /\ Len(rest) = Len(bus) - One(ack)
      /\ \A k \in 1 .. Len(rest) : rest[k] = bus[k + One(ack)]
  <2>1. CASE ack
    BY <1>1, <2>1, HeadTailProperties DEF One
  <2>2. CASE ~ack
    BY <1>1, <1>2, <2>2, LenProperties DEF One
  <2> QED
    BY <2>1, <2>2
<1>4. new \in Seq(Address) /\ Len(new) = One(Taken /\ ~stall)
      /\ (Taken /\ ~stall => new[1] = address_q)
  BY <1>1, EmptySeq DEF One
<1>5. bus' = rest \o new
  BY DEF MemoryClock, Taken
<1> HIDE DEF rest, new
<1>6. /\ rest \o new \in Seq(Address) /\ Len(rest \o new) = Len(rest) + Len(new)
      /\ \A k \in 1 .. Len(rest) + Len(new) :
           (rest \o new)[k] = IF k <= Len(rest) THEN rest[k] ELSE new[k - Len(rest)]
  BY <1>3, <1>4, ConcatProperties
<1>7. /\ One(ack) \in {0, 1} /\ One(Taken /\ ~stall) \in {0, 1}
      /\ (One(Taken /\ ~stall) = 1 => Taken /\ ~stall)
      /\ Len(rest) \in Nat
  BY <1>3, LenProperties DEF One
<1>8. /\ bus' \in Seq(Address) /\ Len(bus') = Len(bus) - One(ack) + One(Taken /\ ~stall)
      /\ Len(bus') = Len(rest) + One(Taken /\ ~stall)
      /\ \A k \in 1 .. Len(bus') :
           bus'[k] = IF k <= Len(rest) THEN rest[k] ELSE new[k - Len(rest)]
  BY <1>2, <1>3, <1>4, <1>5, <1>6, <1>7
<1>9. Len(bus') \in Nat
  BY <1>8, LenProperties
<1>10. ASSUME NEW k \in 1 .. Len(bus')
       PROVE  bus'[k] = IF k + One(ack) <= Len(bus) THEN bus[k + One(ack)] ELSE address_q
  <2>1. k \in Nat \ {0} /\ k <= Len(bus')
    BY <1>9, <1>10
  <2>2. CASE k <= Len(rest)
    <3>1. k + One(ack) <= Len(bus) /\ k \in 1 .. Len(rest)
      BY <1>2, <1>3, <1>7, <2>1, <2>2
    <3> QED
      BY <1>3, <1>8, <1>10, <2>2, <3>1
  <2>3. CASE k > Len(rest)
    <3>1. k - Len(rest) = 1 /\ One(Taken /\ ~stall) = 1 /\ ~(k + One(ack) <= Len(bus))
      BY <1>2, <1>3, <1>7, <1>8, <2>1, <2>3
    <3>2. bus'[k] = new[1]
      BY <1>7, <1>8, <1>10, <2>1, <2>3, <3>1
    <3> QED
      BY <1>4, <1>7, <3>1, <3>2
  <2> QED
    BY <1>7, <2>1, <2>2, <2>3
<1> QED
  BY <1>1, <1>2, <1>8, <1>10, LenProperties

\* The memory never holds more reads than it has room for.
LEMMA BusTyped ==
  ASSUME TypeOK, NEW stall \in BOOLEAN, NEW ack \in BOOLEAN, MemoryClock(stall, ack)
  PROVE  bus' \in Seq(Address) /\ Len(bus') <= Capacity
<1>1. /\ bus' \in Seq(Address) /\ Len(bus) \in Nat
      /\ Len(bus') = Len(bus) - One(ack) + One(Taken /\ ~stall)
  BY BusStep
<1>2. Len(bus) <= Capacity /\ (Len(bus) = Capacity => stall)
  BY DEF TypeOK, MemoryClock
<1>3. /\ One(ack) \in {0, 1} /\ One(Taken /\ ~stall) \in {0, 1}
      /\ stall => One(Taken /\ ~stall) = 0
  BY DEF One
<1> QED
  BY ONLY <1>1, <1>2, <1>3, CapacityAssumption

\* The memory clock keeps the types.
LEMMA MemoryTyped ==
  ASSUME Fetching, NEW stall \in BOOLEAN, NEW ack \in BOOLEAN, MemoryClock(stall, ack)
  PROVE  TypeOK'
<1> USE DEF Fetching
<1>1. TypeOK
  OBVIOUS
<1>2. /\ request_meta_q' \in Flags /\ request_sync_q' \in Flags /\ done_old' \in Flags
      /\ request_old' \in Flags /\ row_old' \in [Bank -> Row]
      /\ memory_ready' \in BOOLEAN
  BY <1>1, StepMemory DEF TypeOK, ScanoutTypeOK
<1>3. /\ {request_q', requested_q', done_meta_q', done_sync_q'} \subseteq Flags
      /\ row_q' \in [Bank -> Row]
      /\ {started_q', line_valid_q', pixel_valid', underrun'} \subseteq BOOLEAN
      /\ read_word_q' \in Address \cup {Undef}
      /\ beam' \in [y : Row, repeat : {0, 1}, x : 0 .. Words, first : BOOLEAN]
      /\ shown' \subseteq Address
  BY <1>1, StepMemory DEF TypeOK, ScanoutTypeOK, pixelVars
<1>4. /\ {busy_q', issuing_q', setup_q'} \subseteq BOOLEAN
      /\ fetch_bank_q' \in Bank /\ fetch_row_q' \in Row
      /\ word_q' \in WordIndex /\ block_q' \in 0 .. BlockSpace - 1 /\ address_q' \in Address
      /\ lines' \in [Bank \X WordIndex -> Address \cup {Undef}]
      /\ done_q' \in Flags /\ writing' \subseteq Bank \X WordIndex
  <2>1. /\ fetch_bank_q \in Bank /\ fetch_row_q \in Row /\ word_q \in WordIndex
        /\ block_q \in 0 .. BlockSpace - 1 /\ address_q \in Address /\ issuing_q \in BOOLEAN
        /\ lines \in [Bank \X WordIndex -> Address \cup {Undef}]
        /\ done_q \in Flags /\ request_sync_q \in Flags /\ row_q \in [Bank -> Row]
        /\ bus \in Seq(Address) /\ busy_q \in BOOLEAN
    BY <1>1 DEF TypeOK, ScanoutTypeOK
  <2>2. 0 \in WordIndex /\ 0 \in 0 .. BlockSpace - 1 /\ AddressSpace \in Nat \ {0}
    BY Blocks, ScanoutAssumption DEF WordIndex
  <2>3. CASE ~busy_q
    BY <2>1, <2>2, <2>3, StepIdle
  <2>4. CASE setup_q
    <3>1. RowAddress(fetch_row_q) \in Address
      BY <2>1, RowRange, ScanoutAssumption DEF Address
    <3> QED
      BY <2>1, <2>2, <2>4, <3>1, StepSetup
  <2>5. CASE busy_q /\ ~setup_q
    <3>1. ack => bus[1] \in Address
      <4>1. ack => bus # <<>>
        BY <2>5, StepFetch
      <4>2. bus # <<>> => Len(bus) \in Nat \ {0}
        BY <2>1, EmptySeq
      <4>3. bus # <<>> => 1 \in 1 .. Len(bus)
        BY <4>2
      <4> QED
        BY <2>1, <4>1, <4>3, ElementOfSeq
    <3>2. word_q # Words - 1 => word_q + 1 \in WordIndex
      BY <2>1, ScanoutAssumption DEF WordIndex
    <3>3. (address_q + 1) % AddressSpace \in Address
      BY <2>1, <2>2, ModRange DEF Address
    <3>4. (block_q + 1) % BlockSpace \in 0 .. BlockSpace - 1
      <4>1. block_q + 1 \in Nat /\ BlockSpace \in Nat \ {0}
        BY <2>1, Blocks
      <4> QED
        BY <4>1, ModRange
    <3>5. word_q' \in WordIndex /\ address_q' \in Address /\ block_q' \in 0 .. BlockSpace - 1
      BY <2>1, <2>5, <3>2, <3>3, <3>4, StepFetch
    <3>6. lines' \in [Bank \X WordIndex -> Address \cup {Undef}] /\ writing' \subseteq Bank \X WordIndex
      <4>1. <<fetch_bank_q, word_q>> \in Bank \X WordIndex
        BY <2>1
      <4>2. writing' = IF ack THEN {<<fetch_bank_q, word_q>>} ELSE {}
        BY <2>5, StepFetch
      <4>3. lines' = IF ack THEN [lines EXCEPT ![<<fetch_bank_q, word_q>>] = bus[1]] ELSE lines
        BY <2>5, StepFetch
      <4>4. writing' \subseteq Bank \X WordIndex
        BY <4>1, <4>2
      <4>5. lines' \in [Bank \X WordIndex -> Address \cup {Undef}]
        BY <2>1, <3>1, <4>1, <4>3
      <4> QED
        BY <4>4, <4>5
    <3>7. done_q' \in Flags
      <4>1. done_q' = IF ack /\ word_q = Words - 1
              THEN [done_q EXCEPT ![fetch_bank_q] = request_sync_q[fetch_bank_q]] ELSE done_q
        BY <2>5, StepFetch
      <4>2. request_sync_q[fetch_bank_q] \in BOOLEAN
        BY <2>1 DEF Flags
      <4> QED
        BY <2>1, <4>1, <4>2 DEF Flags
    <3>8. /\ {busy_q', issuing_q', setup_q'} \subseteq BOOLEAN
          /\ fetch_bank_q' \in Bank /\ fetch_row_q' \in Row
      BY <2>1, <2>5, StepFetch
    <3> QED
      BY <3>5, <3>6, <3>7, <3>8
  <2> QED
    BY <2>3, <2>4, <2>5
<1> QED
  BY <1>2, <1>3, <1>4, BusTyped DEF TypeOK, ScanoutTypeOK, Address, Row, WordIndex

\* Only the mailbox of the fetch that ends is answered, with its own toggle.
LEMMA DoneStep ==
  ASSUME Fetching, NEW stall \in BOOLEAN, NEW ack \in BOOLEAN, MemoryClock(stall, ack), NEW b \in Bank
  PROVE  done_q'[b] = done_q[b] \/ done_q'[b] = request_sync_q[b]
<1>1. done_q \in Flags /\ fetch_bank_q \in Bank
  BY DEF Fetching, TypeOK, ScanoutTypeOK
<1>2. CASE ~busy_q
  BY <1>2, StepIdle
<1>3. CASE setup_q
  BY <1>3, StepSetup
<1>4. CASE busy_q /\ ~setup_q
  <2>1. done_q' = IF ack /\ word_q = Words - 1
          THEN [done_q EXCEPT ![fetch_bank_q] = request_sync_q[fetch_bank_q]] ELSE done_q
    BY <1>4, StepFetch
  <2> QED
    BY <1>1, <2>1 DEF Flags
<1> QED
  BY <1>2, <1>3, <1>4

\* Sampling and answering move a toggle one stage, never past an older one.
LEMMA MemoryMailboxes ==
  ASSUME Fetching, NEW stall \in BOOLEAN, NEW ack \in BOOLEAN, MemoryClock(stall, ack)
  PROVE  Mailboxes'
<1> SUFFICES ASSUME NEW b \in Bank PROVE Mailbox(b)'
  BY DEF Mailboxes
<1>1. Mailbox(b)
  BY DEF Fetching, Mailboxes
<1>2. /\ request_meta_q'[b] \in {request_old[b], request_q[b]}
      /\ request_sync_q' = request_meta_q
      /\ done_old' = done_q /\ request_old' = request_q /\ row_old' = row_q
      /\ UNCHANGED <<request_q, requested_q, row_q, started_q, done_meta_q, done_sync_q>>
  BY StepMemory DEF pixelVars
<1>3. done_q'[b] = done_q[b] \/ done_q'[b] = request_sync_q[b]
  BY DoneStep
<1> QED
  BY <1>1, <1>2, <1>3 DEF Mailbox

\* Requests stay in their row: block_q counts the bursts and the address within
\* a burst tells its end, because a row starts on a burst's boundary.
LEMMA NextRequest ==
  ASSUME Fetching, issuing_q
  PROVE  /\ Offset \in 0 .. Words - 1 /\ RowAddress(fetch_row_q) \in Nat
         /\ address_q = RowAddress(fetch_row_q) + Offset
         /\ (BlockEnd /\ block_q = LastBlock) <=> Offset = Words - 1
         /\ ~(BlockEnd /\ block_q = LastBlock) =>
              /\ (address_q + 1) % AddressSpace = address_q + 1
              /\ BlockEnd => /\ (block_q + 1) % BlockSpace \in 0 .. N - 1
                             /\ Offset + 1 - ((block_q + 1) % BlockSpace) * BlockWords = 0
              /\ ~BlockEnd => Offset + 1 - block_q * BlockWords \in 0 .. BlockWords - 1
<1> DEFINE j == Offset - block_q * BlockWords
           row == RowAddress(fetch_row_q)
<1>1. block_q \in 0 .. N - 1 /\ j \in 0 .. BlockWords - 1 /\ address_q \in Nat /\ fetch_row_q \in Row
  BY DEF Fetching, Issued, TypeOK, ScanoutTypeOK, Address
<1>2. BlockWords \in Nat \ {0} /\ N \in Nat \ {0} /\ Words = N * BlockWords /\ N <= BlockSpace
      /\ BlockSpace \in Nat \ {0} /\ LastBlock = N - 1 /\ AddressSpace \in Nat \ {0}
  BY Blocks, ScanoutAssumption
<1>3. row \in Nat /\ row + Words <= AddressSpace /\ row = (fetch_row_q * N) * BlockWords
  BY <1>1, RowRange, RowBlock
<1>4. address_q = row + Offset /\ Offset = block_q * BlockWords + j
  BY <1>1, <1>2, <1>3 DEF Offset
<1> HIDE DEF j, row
<1>5. fetch_row_q * N + block_q \in Nat /\ address_q = (fetch_row_q * N + block_q) * BlockWords + j
  BY <1>1, <1>2, <1>3, <1>4 DEF Row
<1>6. address_q % BlockWords = j
  BY <1>1, <1>2, <1>5, ModBlock
<1>7. BlockEnd <=> j = BlockWords - 1
  BY <1>6 DEF BlockEnd
<1>8. /\ block_q * BlockWords \in Nat
      /\ block_q # N - 1 => (block_q + 1) * BlockWords <= (N - 1) * BlockWords
      /\ (block_q + 1) * BlockWords = block_q * BlockWords + BlockWords
      /\ (N - 1) * BlockWords = Words - BlockWords
  <2>1. (block_q + 1) * BlockWords = block_q * BlockWords + BlockWords /\ block_q * BlockWords \in Nat
    BY <1>1, <1>2
  <2>2. (N - 1) * BlockWords = Words - BlockWords
    BY <1>2
  <2>3. ASSUME block_q # N - 1 PROVE (block_q + 1) * BlockWords <= (N - 1) * BlockWords
    <3>1. block_q + 1 <= N - 1
      BY <1>1, <1>2, <2>3
    <3> QED
      BY <1>1, <1>2, <3>1, Monotone
  <2> QED
    BY <2>1, <2>2, <2>3
<1>9. Offset \in 0 .. Words - 1
  BY <1>1, <1>2, <1>4, <1>8
<1>10. (BlockEnd /\ block_q = LastBlock) <=> Offset = Words - 1
  BY <1>1, <1>2, <1>4, <1>7, <1>8
<1>11. ASSUME ~(BlockEnd /\ block_q = LastBlock)
       PROVE  /\ (address_q + 1) % AddressSpace = address_q + 1
              /\ BlockEnd => /\ (block_q + 1) % BlockSpace \in 0 .. N - 1
                             /\ Offset + 1 - ((block_q + 1) % BlockSpace) * BlockWords = 0
              /\ ~BlockEnd => Offset + 1 - block_q * BlockWords \in 0 .. BlockWords - 1
  <2>1. address_q + 1 \in 0 .. AddressSpace - 1
    BY <1>1, <1>2, <1>3, <1>4, <1>9, <1>10, <1>11
  <2>2. (address_q + 1) % AddressSpace = address_q + 1
    BY <1>2, <2>1, ModSmall
  <2>3. ASSUME BlockEnd
        PROVE  /\ (block_q + 1) % BlockSpace = block_q + 1 /\ block_q + 1 \in 0 .. N - 1
               /\ Offset + 1 - (block_q + 1) * BlockWords = 0
    <3>1. block_q + 1 \in 0 .. N - 1 /\ block_q + 1 \in 0 .. BlockSpace - 1
      BY <1>1, <1>2, <1>11, <2>3
    <3>2. (block_q + 1) % BlockSpace = block_q + 1
      BY <1>2, <3>1, ModSmall
    <3>3. j = BlockWords - 1
      BY <1>7, <2>3
    <3> QED
      BY <1>1, <1>2, <1>4, <1>8, <3>1, <3>2, <3>3
  <2>4. ASSUME ~BlockEnd PROVE Offset + 1 - block_q * BlockWords \in 0 .. BlockWords - 1
    BY <1>1, <1>2, <1>4, <1>7, <1>8, <2>4
  <2> QED
    BY <2>2, <2>3, <2>4
<1> QED
  BY <1>3, <1>4, <1>9, <1>10, <1>11 DEF row

\* The last answer finds the requests over and nothing else in flight.
LEMMA LastDrains ==
  ASSUME Fetching, NEW stall \in BOOLEAN, NEW ack \in BOOLEAN, MemoryClock(stall, ack),
         busy_q, ~setup_q, ack, word_q = Words - 1
  PROVE  ~issuing_q /\ Len(bus) = 1
<1>1. Len(bus) \in Nat /\ Len(bus) >= 1
  BY BusStep DEF Fetching
<1>2. word_q + Len(bus) = IF issuing_q THEN Offset ELSE Words
  BY DEF Fetching, FetchesOwned, MemoryCyc, Offset
<1>3. issuing_q => Offset \in 0 .. Words - 1
  BY NextRequest
<1>4. word_q = Words - 1 /\ Words \in Nat
  BY ScanoutAssumption
<1>5. ~issuing_q
  <2>1. SUFFICES ASSUME issuing_q PROVE FALSE
    OBVIOUS
  <2>2. Words - 1 + Len(bus) = Offset /\ Offset \in 0 .. Words - 1
    BY <1>2, <1>3, <1>4, <2>1
  <2> QED
    BY ONLY <1>1, <1>4, <2>2
<1>6. Words - 1 + Len(bus) = Words
  BY <1>2, <1>4, <1>5
<1>7. Len(bus) = 1
  <2> DEFINE n == Len(bus)
  <2>1. n \in Nat /\ Words \in Nat /\ (Words - 1) + n = Words
    BY <1>1, <1>4, <1>6
  <2> HIDE DEF n
  <2>2. n = 1
    BY ONLY <2>1
  <2> QED
    BY <2>2 DEF n
<1> QED
  BY ONLY <1>5, <1>7

\* Requests stay in their row and stop with its last word.
LEMMA MemoryIssued ==
  ASSUME Fetching, NEW stall \in BOOLEAN, NEW ack \in BOOLEAN, MemoryClock(stall, ack)
  PROVE  Issued'
<1>1. CASE ~busy_q
  <2>1. /\ bus' = <<>> /\ issuing_q' = FALSE /\ busy_q' = setup_q' /\ block_q' = 0
        /\ setup_q' => word_q' = 0
    BY <1>1, StepIdle
  <2> QED
    BY <2>1 DEF Issued
<1>2. CASE setup_q
  <2>1. /\ busy_q' = TRUE /\ setup_q' = FALSE /\ block_q' = 0 /\ fetch_row_q' = fetch_row_q
        /\ address_q' = RowAddress(fetch_row_q)
    BY <1>2, StepSetup
  <2>2. RowAddress(fetch_row_q) \in Nat
    BY RowRange DEF Fetching, TypeOK, ScanoutTypeOK
  <2>3. Offset' = 0
    BY <2>1, <2>2 DEF Offset
  <2> QED
    BY <2>1, <2>3, Blocks, ScanoutAssumption DEF Issued
<1>3. CASE busy_q /\ ~setup_q
  <2> DEFINE last == ack /\ word_q = Words - 1
             take == issuing_q /\ ~stall
             end  == BlockEnd /\ block_q = LastBlock
  <2>1. /\ fetch_row_q' = fetch_row_q /\ setup_q' = FALSE /\ busy_q' = ~last
        /\ address_q' = IF take THEN (address_q + 1) % AddressSpace ELSE address_q
        /\ block_q' = IF take /\ BlockEnd THEN (block_q + 1) % BlockSpace ELSE block_q
        /\ issuing_q' = (issuing_q /\ ~(take /\ end))
    BY <1>3, StepFetch
  <2>2. last => ~issuing_q
    BY <1>3, LastDrains
  <2>3. ASSUME issuing_q, ~(take /\ end)
        PROVE  block_q' \in 0 .. N - 1 /\ Offset' - block_q' * BlockWords \in 0 .. BlockWords - 1
    <3>1. CASE take
      <4>0. Offset \in Nat
        BY <2>3, NextRequest
      <4>1. address_q' = address_q + 1 /\ ~end
        BY <2>1, <2>3, <3>1, NextRequest
      <4>2. Offset' = Offset + 1
        <5>1. address_q \in Nat /\ RowAddress(fetch_row_q) \in Nat
          BY <2>3, NextRequest DEF Fetching, TypeOK, ScanoutTypeOK, Address
        <5> QED
          BY <2>1, <4>1, <5>1 DEF Offset
      <4>3. CASE BlockEnd
        <5>1. /\ (block_q + 1) % BlockSpace \in 0 .. N - 1
              /\ Offset + 1 - ((block_q + 1) % BlockSpace) * BlockWords = 0
          BY <2>3, <4>1, <4>3, NextRequest
        <5>2. block_q' = (block_q + 1) % BlockSpace
          BY <2>1, <3>1, <4>3
        <5>3. block_q' \in 0 .. N - 1 /\ Offset' - block_q' * BlockWords = 0
          BY ONLY <4>0, <4>2, <5>1, <5>2, ScanoutAssumption, Blocks
        <5> QED
          BY ONLY <5>3, ScanoutAssumption
      <4>4. CASE ~BlockEnd
        <5>1. Offset + 1 - block_q * BlockWords \in 0 .. BlockWords - 1
          BY <2>3, <4>1, <4>4, NextRequest
        <5>2. block_q \in 0 .. N - 1
          BY <2>3 DEF Fetching, Issued
        <5>3. block_q' = block_q
          BY <2>1, <3>1, <4>4
        <5> QED
          BY ONLY <4>2, <4>0, <5>1, <5>2, <5>3, ScanoutAssumption, Blocks
      <4> QED
        BY <4>3, <4>4
    <3>2. CASE ~take
      BY <2>1, <2>3, <3>2 DEF Offset, Fetching, Issued
    <3> QED
      BY <3>1, <3>2
  <2> QED
    BY <2>1, <2>2, <2>3 DEF Issued
<1> QED
  BY <1>1, <1>2, <1>3 DEF Fetching, TypeOK, ScanoutTypeOK

\* Every answer in flight is the next word of this fetch, to its last.
LEMMA MemoryOwned ==
  ASSUME Fetching, NEW stall \in BOOLEAN, NEW ack \in BOOLEAN, MemoryClock(stall, ack)
  PROVE  FetchesOwned'
<1>0. /\ word_q \in Nat /\ address_q \in Nat /\ fetch_row_q \in Row /\ Words \in Nat
      /\ RowAddress(fetch_row_q) \in Nat
  BY RowRange, ScanoutAssumption DEF Fetching, TypeOK, ScanoutTypeOK, WordIndex, Address
<1>1. CASE ~busy_q
  <2>1. bus' = <<>> /\ busy_q' = setup_q'
    BY <1>1, StepIdle
  <2> QED
    BY <2>1 DEF FetchesOwned, MemoryCyc
<1>2. CASE setup_q
  <2>1. /\ bus' = <<>> /\ issuing_q' = TRUE /\ word_q' = 0 /\ fetch_row_q' = fetch_row_q
        /\ address_q' = RowAddress(fetch_row_q)
    BY <1>2, StepSetup
  <2> QED
    BY <1>0, <2>1 DEF FetchesOwned, MemoryCyc
<1>3. CASE busy_q /\ ~setup_q
  <2> DEFINE last == ack /\ word_q = Words - 1
             take == issuing_q /\ ~stall
             end  == BlockEnd /\ block_q = LastBlock
             row  == RowAddress(fetch_row_q)
  <2>1. /\ fetch_row_q' = fetch_row_q /\ busy_q' = ~last
        /\ word_q' = IF ack /\ ~last THEN word_q + 1 ELSE word_q
        /\ address_q' = IF take THEN (address_q + 1) % AddressSpace ELSE address_q
        /\ issuing_q' = (issuing_q /\ ~(take /\ end))
    BY <1>3, StepFetch
  <2>2. /\ Len(bus) \in Nat /\ DOMAIN bus = 1 .. Len(bus) /\ DOMAIN bus' = 1 .. Len(bus')
        /\ ack => Len(bus) >= 1
        /\ Len(bus') = Len(bus) - One(ack) + One(take)
        /\ Len(bus') \in Nat
        /\ \A k \in 1 .. Len(bus') :
             bus'[k] = IF k + One(ack) <= Len(bus) THEN bus[k + One(ack)] ELSE address_q
    <3>1. (Taken /\ ~stall) = take
      BY <1>3 DEF Taken, MemoryCyc
    <3>2. bus' \in Seq(Address)
      BY BusStep DEF Fetching
    <3> QED
      BY <3>1, <3>2, BusStep, LenProperties DEF Fetching
  <2>3. /\ \A k \in 1 .. Len(bus) : bus[k] = row + word_q + k - 1
        /\ word_q + Len(bus) = IF issuing_q THEN address_q - row ELSE Words
    BY <1>3, <2>2 DEF Fetching, FetchesOwned, MemoryCyc
  <2>4. One(ack) \in {0, 1} /\ One(take) \in {0, 1} /\ (One(take) = 1 <=> take) /\ (One(ack) = 1 <=> ack)
    BY DEF One
  <2>5. ASSUME last PROVE bus' = <<>> /\ ~busy_q'
    <3>1. ~issuing_q /\ Len(bus) = 1
      BY <1>3, <2>5, LastDrains
    <3>2. Len(bus') = 0 /\ bus' \in Seq(Address)
      <4>1. One(ack) = 1 /\ One(take) = 0
        BY <2>4, <2>5, <3>1
      <4>2. bus' \in Seq(Address)
        BY BusStep DEF Fetching
      <4> QED
        BY <2>2, <3>1, <4>1, <4>2
    <3>3. bus' = <<>>
      BY <3>2, EmptySeq
    <3> QED
      BY <2>1, <2>5, <3>3
  <2>6. ASSUME ~last
        PROVE  /\ \A k \in 1 .. Len(bus') : bus'[k] = row + word_q' + k - 1
               /\ word_q' + Len(bus') = IF issuing_q' THEN address_q' - row ELSE Words
    <3>1. word_q' = word_q + One(ack)
      BY <1>0, <2>1, <2>6 DEF One
    <3>2. word_q' + Len(bus') = word_q + Len(bus) + One(take)
      BY <1>0, <2>2, <2>4, <3>1
    <3>3. ASSUME NEW k \in 1 .. Len(bus') PROVE bus'[k] = row + word_q' + k - 1
      <4>1. k \in Nat \ {0} /\ k <= Len(bus')
        BY <2>2, <3>3
      <4>2. CASE k + One(ack) <= Len(bus)
        <5>1. k + One(ack) \in 1 .. Len(bus)
          BY <2>2, <2>4, <4>1, <4>2
        <5>2. bus'[k] = row + word_q + (k + One(ack)) - 1
          BY <2>2, <2>3, <3>3, <4>2, <5>1
        <5> QED
          BY <1>0, <2>4, <3>1, <4>1, <5>2
      <4>3. CASE ~(k + One(ack) <= Len(bus))
        <5>1. take /\ k + One(ack) = Len(bus) + 1
          BY <2>2, <2>4, <4>1, <4>3
        <5>2. bus'[k] = address_q /\ word_q + Len(bus) = address_q - row
          BY <2>2, <2>3, <3>3, <4>3, <5>1
        <5>3. row \in Nat /\ word_q \in Nat /\ address_q \in Nat /\ Len(bus) \in Nat
              /\ k \in Nat /\ One(ack) \in {0, 1}
          BY <1>0, <2>2, <2>4, <4>1
        <5> HIDE DEF row, take
        <5> QED
          BY ONLY <3>1, <5>1, <5>2, <5>3
      <4> QED
        BY <4>2, <4>3
    <3>4. CASE take
      <4>1. word_q + Len(bus) = address_q - row /\ One(take) = 1
        BY <2>3, <2>4, <3>4
      <4>2. CASE end
        <5>1. address_q - row = Words - 1
          BY <3>4, <4>2, NextRequest DEF Offset
        <5> QED
          BY <1>0, <2>1, <2>2, <3>2, <3>3, <3>4, <4>1, <4>2, <5>1
      <4>3. CASE ~end
        <5>1. address_q' = address_q + 1 /\ issuing_q'
          BY <2>1, <3>4, <4>3, NextRequest
        <5> QED
          BY <1>0, <2>2, <3>2, <3>3, <4>1, <5>1
      <4> QED
        BY <4>2, <4>3
    <3>5. CASE ~take
      <4>1. issuing_q' = issuing_q /\ address_q' = address_q /\ One(take) = 0
        BY <2>1, <2>4, <3>5 DEF Fetching, TypeOK, ScanoutTypeOK
      <4>2. word_q' + Len(bus') = word_q + Len(bus)
        BY <1>0, <2>2, <3>2, <4>1
      <4> QED
        BY <2>3, <3>3, <4>1, <4>2
    <3> QED
      BY <3>4, <3>5
  <2>7. CASE last
    BY <2>5, <2>7 DEF FetchesOwned, MemoryCyc
  <2>8. CASE ~last
    BY <2>1, <2>2, <2>6, <2>8 DEF FetchesOwned, MemoryCyc
  <2> QED
    BY <2>7, <2>8
<1> QED
  BY <1>1, <1>2, <1>3 DEF Fetching, TypeOK, ScanoutTypeOK

\* A word that arrives is the next one of the row; the buffer then holds one more.
LEMMA NextWord ==
  ASSUME Fetching, NEW stall \in BOOLEAN, NEW ack \in BOOLEAN, MemoryClock(stall, ack),
         busy_q, ~setup_q, ack
  PROVE  /\ lines' = [lines EXCEPT ![<<fetch_bank_q, word_q>>] = RowAddress(fetch_row_q) + word_q]
         /\ \A b \in Bank, w \in WordIndex :
              lines'[<<b, w>>] = IF b = fetch_bank_q /\ w = word_q
                                 THEN RowAddress(fetch_row_q) + word_q ELSE lines[<<b, w>>]
<1>1. /\ word_q \in WordIndex /\ fetch_bank_q \in Bank /\ fetch_row_q \in Row
      /\ lines \in [Bank \X WordIndex -> Address \cup {Undef}]
      /\ RowAddress(fetch_row_q) \in Nat
  BY RowRange DEF Fetching, TypeOK, ScanoutTypeOK
<1>2. bus[1] = RowAddress(fetch_row_q) + word_q
  <2>1. Len(bus) \in Nat /\ Len(bus) >= 1 /\ DOMAIN bus = 1 .. Len(bus)
    BY BusStep DEF Fetching
  <2>2. 1 \in DOMAIN bus
    BY <2>1
  <2>3. bus[1] = RowAddress(fetch_row_q) + word_q + 1 - 1
    BY <2>2 DEF Fetching, FetchesOwned
  <2> QED
    BY <1>1, <2>3 DEF WordIndex
<1>3. lines' = [lines EXCEPT ![<<fetch_bank_q, word_q>>] = bus[1]]
  BY StepFetch
<1>4. lines' = [lines EXCEPT ![<<fetch_bank_q, word_q>>] = RowAddress(fetch_row_q) + word_q]
  BY <1>2, <1>3
<1> QED
  BY <1>1, <1>4

\* The fetch under way stays bound to its mailbox, and fills its buffer in order.
LEMMA MemoryBound ==
  ASSUME Fetching, NEW stall \in BOOLEAN, NEW ack \in BOOLEAN, MemoryClock(stall, ack)
  PROVE  FetchBound'
<1>1. /\ request_sync_q' = request_meta_q /\ done_old' = done_q
      /\ row_q' = row_q /\ request_q' = request_q
  BY StepMemory DEF pixelVars
<1>2. ASSUME NEW b \in Bank, request_sync_q[b] # done_q[b]
      PROVE  request_sync_q'[b] = request_sync_q[b] /\ done_q[b] # request_q[b]
  BY <1>1, <1>2, MailboxChain DEF Fetching, Mailboxes
<1>3. /\ word_q \in WordIndex /\ fetch_bank_q \in Bank /\ Words \in Nat
  BY ScanoutAssumption DEF Fetching, TypeOK, ScanoutTypeOK
<1>4. CASE ~busy_q
  <2>1. /\ writing' = {} /\ done_q' = done_q /\ busy_q' = setup_q'
        /\ setup_q' => /\ request_sync_q[fetch_bank_q'] # done_q[fetch_bank_q']
                       /\ fetch_bank_q' \in Bank
                       /\ fetch_row_q' = row_q[fetch_bank_q'] /\ word_q' = 0
    BY <1>4, StepIdle
  <2>2. setup_q' => request_sync_q'[fetch_bank_q'] # done_q'[fetch_bank_q']
    BY <1>2, <2>1
  <2>3. \A w \in WordIndex : ~(w < 0)
    BY DEF WordIndex
  <2> QED
    BY <1>1, <2>1, <2>2, <2>3 DEF FetchBound
<1>5. CASE setup_q
  <2>1. /\ busy_q /\ writing' = {} /\ word_q' = 0
        /\ UNCHANGED <<done_q, fetch_bank_q, fetch_row_q>>
    BY <1>5, StepSetup
  <2>2. request_sync_q[fetch_bank_q] # done_q[fetch_bank_q] /\ fetch_row_q = row_q[fetch_bank_q]
    BY <2>1 DEF Fetching, FetchBound
  <2>3. \A w \in WordIndex : ~(w < 0)
    BY DEF WordIndex
  <2> QED
    BY <1>1, <1>2, <1>3, <2>1, <2>2, <2>3 DEF FetchBound
<1>6. CASE busy_q /\ ~setup_q
  <2> DEFINE last == ack /\ word_q = Words - 1
  <2>1. /\ UNCHANGED <<fetch_bank_q, fetch_row_q>> /\ busy_q' = ~last
        /\ word_q' = IF ack /\ ~last THEN word_q + 1 ELSE word_q
        /\ ~ack => lines' = lines
        /\ ~last => done_q' = done_q
        /\ writing' = IF ack THEN {<<fetch_bank_q, word_q>>} ELSE {}
    BY <1>6, StepFetch
  <2>2. /\ request_sync_q[fetch_bank_q] # done_q[fetch_bank_q] /\ fetch_row_q = row_q[fetch_bank_q]
        /\ \A w \in WordIndex : w < word_q =>
             lines[<<fetch_bank_q, w>>] = RowAddress(fetch_row_q) + w
    BY <1>6 DEF Fetching, FetchBound
  <2>3. done_q[fetch_bank_q] # request_q[fetch_bank_q]
        /\ request_sync_q'[fetch_bank_q] = request_sync_q[fetch_bank_q]
    BY <1>2, <1>3, <2>2
  <2>4. \A b \in Bank, w \in WordIndex : <<b, w>> \in writing' => done_old'[b] # request_q'[b]
    BY <1>1, <2>1, <2>3
  <2>5. ASSUME ~last, NEW w \in WordIndex, w < word_q'
        PROVE  lines'[<<fetch_bank_q, w>>] = RowAddress(fetch_row_q) + w
    <3>1. CASE ack
      <4>1. w < word_q \/ w = word_q
        BY <1>3, <2>1, <2>5, <3>1 DEF WordIndex
      <4> QED
        BY <1>3, <1>6, <2>2, <2>5, <3>1, <4>1, NextWord
    <3>2. CASE ~ack
      BY <2>1, <2>2, <2>5, <3>2
    <3> QED
      BY <3>1, <3>2
  <2> QED
    BY <1>1, <2>1, <2>2, <2>3, <2>4, <2>5 DEF FetchBound
<1> QED
  BY <1>4, <1>5, <1>6 DEF Fetching, TypeOK, ScanoutTypeOK

\* done_q changes only when the last word is in.
LEMMA MemoryWhole ==
  ASSUME Fetching, NEW stall \in BOOLEAN, NEW ack \in BOOLEAN, MemoryClock(stall, ack)
  PROVE  RowWhole'
<1>1. row_q' = row_q /\ request_q' = request_q /\ requested_q' = requested_q
  BY StepMemory DEF pixelVars
<1>2. /\ word_q \in WordIndex /\ fetch_bank_q \in Bank /\ Words \in Nat /\ done_q \in Flags
  BY ScanoutAssumption DEF Fetching, TypeOK, ScanoutTypeOK
<1>3. CASE ~busy_q \/ setup_q
  <2>1. lines' = lines /\ done_q' = done_q
    BY <1>3, StepIdle, StepSetup
  <2> QED
    BY <1>1, <2>1 DEF Fetching, RowWhole
<1>4. CASE busy_q /\ ~setup_q
  <2> DEFINE last == ack /\ word_q = Words - 1
  <2>1. /\ request_sync_q[fetch_bank_q] # done_q[fetch_bank_q] /\ fetch_row_q = row_q[fetch_bank_q]
        /\ \A w \in WordIndex : w < word_q =>
             lines[<<fetch_bank_q, w>>] = RowAddress(fetch_row_q) + w
    BY <1>4 DEF Fetching, FetchBound
  <2>2. done_q[fetch_bank_q] # request_q[fetch_bank_q]
    BY <1>2, <2>1, MailboxChain DEF Fetching, Mailboxes
  <2>3. /\ ~ack => lines' = lines
        /\ done_q' = IF last
             THEN [done_q EXCEPT ![fetch_bank_q] = request_sync_q[fetch_bank_q]] ELSE done_q
    BY <1>4, StepFetch
  <2>4. SUFFICES ASSUME NEW b \in Bank, requested_q[b], request_q[b] = done_q'[b], NEW w \in WordIndex
                 PROVE  lines'[<<b, w>>] = RowAddress(row_q[b]) + w
    BY <1>1 DEF RowWhole
  <2>5. CASE b = fetch_bank_q
    <3>1. last
      BY <2>2, <2>3, <2>4, <2>5
    <3>2. w < word_q \/ w = word_q
      BY <1>2, <3>1 DEF WordIndex
    <3>3. lines'[<<b, w>>] = RowAddress(fetch_row_q) + w
      BY <1>2, <1>4, <2>1, <2>5, <3>1, <3>2, NextWord
    <3> QED
      BY <2>1, <2>5, <3>3
  <2>6. CASE b # fetch_bank_q
    <3>1. done_q'[b] = done_q[b]
      BY <1>2, <2>3, <2>6 DEF Flags
    <3>2. lines'[<<b, w>>] = lines[<<b, w>>]
      BY <1>4, <2>3, <2>6, NextWord
    <3> QED
      BY <2>4, <3>1, <3>2 DEF Fetching, RowWhole
  <2> QED
    BY <2>5, <2>6
<1> QED
  BY <1>3, <1>4 DEF Fetching, TypeOK, ScanoutTypeOK

\* The memory clock keeps the invariant.
LEMMA MemoryInv ==
  ASSUME Inv, NEW stall \in BOOLEAN, NEW ack \in BOOLEAN, MemoryClock(stall, ack)
  PROVE  Inv'
<1>1. Fetching
  BY DEF Inv, Fetching
<1>2. TypeOK' /\ Mailboxes' /\ FetchBound' /\ Issued' /\ FetchesOwned' /\ RowWhole'
  BY <1>1, MemoryTyped, MemoryMailboxes, MemoryBound, MemoryIssued, MemoryOwned, MemoryWhole
<1>3. UNCHANGED pixelVars /\ UNCHANGED <<beam, shown>>
  BY StepMemory
<1>4. Verdict' /\ RowShown' /\ BlankReported'
  BY <1>3 DEF Inv, Verdict, RowShown, BlankReported, LineStart, Visible, Available, Settled, pixelVars
<1> QED
  BY <1>2, <1>4 DEF Inv

-----------------------------------------------------------------------------
(* The pixel clock keeps the invariant, part by part. *)

\* At rest, everything on a mailbox's way agrees.
LEMMA MailboxRest ==
  ASSUME TypeOK, NEW b \in Bank, Mailbox(b), Settled(b)
  PROVE  LET r == request_q[b]
         IN  /\ request_old[b] = r /\ request_meta_q[b] = r /\ request_sync_q[b] = r
             /\ done_q[b] = r /\ done_old[b] = r /\ done_meta_q[b] = r /\ done_sync_q[b] = r
             /\ row_old[b] = row_q[b]
BY DEF Mailbox, Settled

Toggled(b) == request_q'[b] # request_q[b]

\* A mailbox is used again only when it is at rest; without its toggle nothing
\* of it changes.
LEMMA Posting ==
  ASSUME Inv, PixelClock, NEW b \in Bank
  PROVE  /\ Toggled(b) => Settled(b) /\ (b = NextRow(beam.y) % 2 \/ ~started_q)
         /\ ~Toggled(b) => row_q'[b] = row_q[b] /\ requested_q'[b] = requested_q[b]
<1> DEFINE io == PixelIO
<1>1. io.y = beam.y
  BY DEF PixelIO
<1>2. PixelEdge(io)
  BY DEF PixelClock
<1> HIDE DEF io
<1>3. /\ request_q[b] \in BOOLEAN /\ requested_q[b] \in BOOLEAN /\ done_sync_q[b] \in BOOLEAN
      /\ row_q \in [Bank -> Row] /\ started_q \in BOOLEAN
  BY DEF Inv, TypeOK, ScanoutTypeOK, Flags
<1>4. ~started_q => request_q[b] = FALSE /\ done_sync_q[b] = FALSE
  BY <1>3 DEF Inv, Mailboxes, Mailbox
<1>5. CASE Asking(io, b)
  <2>1. request_q'[b] = ~request_q[b]
    BY <1>2, <1>5 DEF PixelEdge
  <2>2. Toggled(b)
    BY <1>3, <2>1 DEF Toggled
  <2> QED
    BY <1>1, <1>5, <2>2 DEF Asking
<1>6. CASE ~Asking(io, b) /\ Starting(b)
  <2>1. request_q'[b] = TRUE
    BY <1>2, <1>6 DEF PixelEdge
  <2>2. ~started_q /\ request_q[b] = FALSE /\ done_sync_q[b] = FALSE
    BY <1>4, <1>6 DEF Starting
  <2>3. Toggled(b) /\ Settled(b)
    BY <2>1, <2>2 DEF Toggled, Settled
  <2> QED
    BY <2>2, <2>3
<1>7. CASE ~Asking(io, b) /\ ~Starting(b)
  <2>1. row_q'[b] = row_q[b]
    BY <1>2, <1>7 DEF PixelEdge
  <2>2. request_q'[b] = (request_q[b] \/ FALSE) /\ requested_q'[b] = (requested_q[b] \/ FALSE \/ FALSE)
    BY <1>2, <1>7 DEF PixelEdge
  <2>3. request_q'[b] = request_q[b] /\ requested_q'[b] = requested_q[b]
    BY <1>3, <2>2
  <2> QED
    BY <2>1, <2>3 DEF Toggled
<1> QED
  BY <1>5, <1>6, <1>7

\* What every edge of the pixel clock does.
LEMMA StepPixel ==
  ASSUME Inv, PixelClock
  PROVE  /\ \A b \in Bank : done_meta_q'[b] \in {done_old[b], done_q[b]}
         /\ done_sync_q' = done_meta_q
         /\ request_old' = request_q /\ row_old' = row_q /\ done_old' = done_q /\ writing' = {}
         /\ started_q' = TRUE
         /\ UNCHANGED fetchVars /\ bus' = bus
BY SampledTyped DEF PixelClock, PixelEdge

\* A new toggle starts from a mailbox at rest; samples move it one stage.
LEMMA PixelMailboxes == ASSUME Inv, PixelClock PROVE Mailboxes'
<1> SUFFICES ASSUME NEW b \in Bank PROVE Mailbox(b)'
  BY DEF Mailboxes
<1>1. Mailbox(b) /\ TypeOK
  BY DEF Inv, Mailboxes
<1>2. /\ done_meta_q'[b] \in {done_old[b], done_q[b]}
      /\ done_sync_q' = done_meta_q
      /\ request_old' = request_q /\ row_old' = row_q /\ done_old' = done_q /\ started_q' = TRUE
      /\ UNCHANGED <<request_meta_q, request_sync_q, done_q>>
  BY StepPixel DEF fetchVars
<1>3. CASE Toggled(b)
  <2>1. Settled(b) /\ request_q'[b] # request_q[b]
    BY <1>3, Posting DEF Toggled
  <2>2. /\ request_meta_q[b] = request_q[b] /\ request_sync_q[b] = request_q[b]
        /\ done_q[b] = request_q[b] /\ done_old[b] = request_q[b] /\ done_meta_q[b] = request_q[b]
    BY <1>1, <2>1, MailboxRest
  <2> QED
    BY <1>2, <2>1, <2>2 DEF Mailbox
<1>4. CASE ~Toggled(b)
  <2>1. request_q'[b] = request_q[b] /\ row_q'[b] = row_q[b]
    BY <1>4, Posting DEF Toggled
  <2> QED
    BY <1>1, <1>2, <2>1 DEF Mailbox
<1> QED
  BY <1>3, <1>4

\* The pixel side does not touch the mailbox of the fetch under way.
LEMMA PixelBound == ASSUME Inv, PixelClock PROVE FetchBound' /\ Issued' /\ FetchesOwned'
<1>1. UNCHANGED fetchVars /\ bus' = bus /\ writing' = {}
  BY StepPixel
<1>2. busy_q => row_q'[fetch_bank_q] = row_q[fetch_bank_q]
  <2>1. SUFFICES ASSUME busy_q PROVE ~Toggled(fetch_bank_q) /\ fetch_bank_q \in Bank
    BY Posting
  <2>2. fetch_bank_q \in Bank /\ request_sync_q[fetch_bank_q] # done_q[fetch_bank_q] /\ TypeOK
    BY <2>1 DEF Inv, FetchBound, TypeOK, ScanoutTypeOK
  <2>3. ~Settled(fetch_bank_q)
    BY <2>2, MailboxRest DEF Inv, Mailboxes
  <2> QED
    BY <2>2, <2>3, Posting
<1>3. FetchBound'
  BY <1>1, <1>2 DEF Inv, FetchBound, fetchVars
<1>4. Issued' /\ FetchesOwned'
  BY <1>1 DEF Inv, Issued, Offset, FetchesOwned, MemoryCyc, fetchVars
<1> QED
  BY <1>3, <1>4

\* A row number changes only with its toggle.
LEMMA PixelWhole == ASSUME Inv, PixelClock PROVE RowWhole'
<1>1. lines' = lines /\ done_q' = done_q
  BY StepPixel DEF fetchVars
<1>2. SUFFICES ASSUME NEW b \in Bank, requested_q'[b], request_q'[b] = done_q[b]
               PROVE  \A w \in WordIndex : lines[<<b, w>>] = RowAddress(row_q'[b]) + w
  BY <1>1 DEF RowWhole
<1>3. ~Toggled(b)
  <2>1. ASSUME Toggled(b) PROVE FALSE
    <3>1. Settled(b) /\ Mailbox(b) /\ TypeOK
      BY <2>1, Posting DEF Inv, Mailboxes
    <3>2. done_q[b] = request_q[b]
      BY <3>1, MailboxRest
    <3> QED
      BY <1>2, <2>1, <3>2 DEF Toggled
  <2> QED
    BY <2>1
<1>4. row_q'[b] = row_q[b] /\ requested_q'[b] = requested_q[b] /\ request_q'[b] = request_q[b]
  BY <1>3, Posting DEF Toggled
<1> QED
  BY <1>2, <1>4 DEF Inv, RowWhole

\* On the second line of a row and in its blanking the row stays.
LEMMA RowStays ==
  ASSUME Inv, Raster, ~LineStart'
  PROVE  beam'.y = beam.y /\ (Visible' \/ beam'.repeat = 0 => Visible \/ beam.repeat = 0)
<1>1. beam.repeat \in {0, 1} /\ Words \in Nat \ {0} /\ beam.x \in 0 .. Words
  BY ScanoutAssumption DEF Inv, TypeOK
<1>2. CASE beam' = At(beam.y, beam.repeat, beam.x, FALSE)
  BY <1>2 DEF At, Visible
<1>3. CASE Visible /\ beam' = At(beam.y, beam.repeat, beam.x + 1, FALSE)
  BY <1>3 DEF At
<1>4. CASE ~Visible /\ beam' = NextLine
  <2>1. beam'.repeat = 1 - beam.repeat /\ beam'.x = 0 /\ beam'.first = TRUE
        /\ beam'.y = IF beam.repeat = 1 THEN NextRow(beam.y) ELSE beam.y
    BY <1>4 DEF NextLine, At
  <2>2. beam.repeat # 1
    BY <1>1, <2>1 DEF LineStart, Visible
  <2> QED
    BY <1>1, <2>1, <2>2
<1> QED
  BY <1>2, <1>3, <1>4 DEF Raster

\* A row that is available stays so while it is on the screen.
LEMMA StaysAvailable ==
  ASSUME Inv, PixelClock, Available(beam.y)
  PROVE  LET b == beam.y % 2
         IN requested_q'[b] /\ done_sync_q'[b] = request_q'[b] /\ row_q'[b] = beam.y
<1> DEFINE b == beam.y % 2
<1>1. beam.y \in Row /\ b \in Bank /\ TypeOK
  BY Parity DEF Inv, TypeOK
<1>2. requested_q[b] /\ Settled(b) /\ row_q[b] = beam.y /\ Mailbox(b)
  BY <1>1 DEF Available, Inv, Mailboxes
<1>3. NextRow(beam.y) % 2 = 1 - b
  BY <1>1, NextParity
<1> HIDE DEF b
<1>4. ~Toggled(b)
  <2>1. b # 1 - b
    BY <1>1 DEF Bank
  <2>2. started_q
    BY <1>2 DEF Mailbox
  <2> QED
    BY <1>1, <1>3, <2>1, <2>2, Posting
<1>5. row_q'[b] = row_q[b] /\ requested_q'[b] = requested_q[b] /\ request_q'[b] = request_q[b]
  BY <1>1, <1>4, Posting DEF Toggled
<1>6. done_sync_q'[b] = request_q[b]
  BY <1>1, <1>2, MailboxRest, StepPixel
<1> QED
  BY <1>2, <1>5, <1>6 DEF b

\* The verdict of the first clock of a row, at every clock of it.
LEMMA PixelVerdict ==
  ASSUME Inv, PixelClock
  PROVE  /\ line_valid_q' = ValidNow(PixelIO) /\ underrun' = Underrun(PixelIO)
         /\ pixel_valid' = (Visible /\ ValidNow(PixelIO))
         /\ ValidNow(PixelIO) => Available(beam.y)
         /\ ~ValidNow(PixelIO) /\ (Visible \/ beam.repeat = 0) => underrun'
<1>1. /\ PixelIO.y = beam.y /\ PixelIO.line_start = LineStart /\ PixelIO.visible = Visible
  BY PixelInputs DEF Inv
<1>2. PixelEdge(PixelIO)
  BY DEF PixelClock
<1>3. /\ line_valid_q' = ValidNow(PixelIO) /\ underrun' = Underrun(PixelIO)
      /\ pixel_valid' = (Visible /\ ValidNow(PixelIO))
  BY <1>1, <1>2 DEF PixelEdge
<1>4. ValidNow(PixelIO) = IF LineStart THEN Available(beam.y) ELSE line_valid_q
  BY <1>1 DEF ValidNow
<1>5. Underrun(PixelIO) = (underrun \/ (LineStart /\ ~Available(beam.y)))
  BY <1>1 DEF Underrun
<1>6. ValidNow(PixelIO) => Available(beam.y)
  BY <1>4 DEF Inv, Verdict
<1>7. ~ValidNow(PixelIO) /\ (Visible \/ beam.repeat = 0) => Underrun(PixelIO)
  BY <1>4, <1>5 DEF Inv, Verdict
<1> QED
  BY <1>3, <1>6, <1>7

\* What is shown is the word or a reported blank.
LEMMA PixelShown == ASSUME Inv, PixelClock PROVE Verdict' /\ RowShown' /\ BlankReported'
<1>1. /\ line_valid_q' = ValidNow(PixelIO)
      /\ pixel_valid' = (Visible /\ ValidNow(PixelIO))
      /\ ValidNow(PixelIO) => Available(beam.y)
      /\ ~ValidNow(PixelIO) /\ (Visible \/ beam.repeat = 0) => underrun'
  BY PixelVerdict
<1>2. Verdict'
  <2>1. SUFFICES ASSUME ~LineStart'
                 PROVE  /\ line_valid_q' => Available(beam.y)'
                        /\ ~line_valid_q' /\ (Visible' \/ beam'.repeat = 0) => underrun'
    BY DEF Verdict
  <2>2. beam'.y = beam.y /\ (Visible' \/ beam'.repeat = 0 => Visible \/ beam.repeat = 0)
    BY <2>1, RowStays DEF PixelClock
  <2>3. Available(beam.y) => Available(beam.y)'
    BY <2>2, StaysAvailable DEF Available, Settled
  <2> QED
    BY <1>1, <2>2, <2>3
<1>3. shown' = IF Visible THEN {RowAddress(beam.y) + beam.x} ELSE {}
  BY DEF PixelClock
<1>4. RowShown'
  <2> DEFINE b == beam.y % 2
  <2>1. SUFFICES ASSUME pixel_valid' PROVE shown' = {read_word_q'}
    BY DEF RowShown
  <2>2. Visible /\ Available(beam.y)
    BY <1>1, <2>1
  <2>3. /\ PixelIO.y = beam.y /\ PixelIO.x = beam.x /\ beam.x \in WordIndex /\ b \in Bank
    BY <2>2, PixelInputs DEF Inv
  <2>4. requested_q[b] /\ Settled(b) /\ row_q[b] = beam.y /\ Mailbox(b) /\ TypeOK
    BY <2>2, <2>3 DEF Available, Inv, Mailboxes
  <2>5. read_word_q' \in ReadWords(b, beam.x)
    BY <2>3 DEF PixelClock, PixelEdge
  <2> HIDE DEF b
  <2>6. done_q[b] = request_q[b] /\ done_old[b] = request_q[b]
    BY <2>3, <2>4, MailboxRest
  <2>7. <<b, beam.x>> \notin writing
    BY <2>3, <2>6 DEF Inv, FetchBound
  <2>8. lines[<<b, beam.x>>] = RowAddress(beam.y) + beam.x
    BY <2>3, <2>4, <2>6 DEF Inv, RowWhole
  <2> QED
    BY <1>3, <2>2, <2>5, <2>7, <2>8 DEF ReadWords
<1>5. BlankReported'
  BY <1>1, <1>3 DEF BlankReported
<1> QED
  BY <1>2, <1>4, <1>5

-----------------------------------------------------------------------------
(* The theorems. *)

\* The invariant holds after both resets.
LEMMA InitInv == ASSUME Init PROVE Inv
<1>1. TypeOK
  BY InitTyped
<1>2. Mailboxes
  BY DEF Init, ScanoutInit, Mailboxes, Mailbox, Clear, Rows0
<1>3. FetchBound /\ Issued /\ FetchesOwned
  BY DEF Init, ScanoutInit, FetchBound, Issued, FetchesOwned, MemoryCyc
<1>4. RowWhole
  BY DEF Init, ScanoutInit, RowWhole, Clear
<1>5. beam.x = Words /\ beam.repeat = 1 /\ ~Visible
  BY ScanoutAssumption DEF Init, At, Visible
<1>6. Verdict
  <2>1. ~line_valid_q
    BY DEF Init, ScanoutInit
  <2> QED
    BY <1>5, <2>1 DEF Verdict
<1>7. RowShown /\ BlankReported
  BY DEF RowShown, BlankReported, Init, ScanoutInit
<1> QED
  BY <1>1, <1>2, <1>3, <1>4, <1>6, <1>7 DEF Inv

\* Every edge of either clock keeps the invariant.
LEMMA NextInv == ASSUME Inv, [Next]_vars PROVE Inv'
<1>1. CASE PixelClock
  BY <1>1, PixelTyped, PixelMailboxes, PixelBound, PixelWhole, PixelShown DEF Inv
<1>2. ASSUME NEW stall \in BOOLEAN, NEW ack \in BOOLEAN, MemoryClock(stall, ack) PROVE Inv'
  BY <1>2, MemoryInv
<1>3. CASE UNCHANGED vars
  BY <1>3 DEF vars, scanoutVars, pixelVars, fetchVars, edgeVars, Inv, TypeOK, ScanoutTypeOK,
     Mailboxes, Mailbox, FetchBound, Issued, Offset, FetchesOwned, MemoryCyc, RowWhole, Verdict,
     LineStart, Visible, Available, Settled, RowShown, BlankReported
<1> QED
  BY <1>1, <1>2, <1>3 DEF Next

\* The parts of the invariant carry each other over every edge of both clocks.
THEOREM Invariance == Spec => []Inv
<1>1. Init => Inv
  BY InitInv
<1>2. Inv /\ [Next]_vars => Inv'
  BY NextInv
<1> QED
  BY <1>1, <1>2, PTL DEF Spec

\* Every state of the scan-out is within its types: addresses stay inside the
\* frame buffer's space and the memory never holds more than it has room for.
THEOREM Typed == Spec => []TypeOK
<1>1. Inv => TypeOK
  BY DEF Inv
<1> QED
  BY <1>1, Invariance, PTL

\* A fetch takes its own answers, in order, and ends with the last of its row.
THEOREM FetchesKept == Spec => []FetchesOwned
<1>1. Inv => FetchesOwned
  BY DEF Inv
<1> QED
  BY <1>1, Invariance, PTL

\* A mailbox at rest names the row that its buffer holds.
THEOREM RowsKept == Spec => []RowWhole
<1>1. Inv => RowWhole
  BY DEF Inv
<1> QED
  BY <1>1, Invariance, PTL

\* No wrong word is ever shown, whatever the two clocks and the memory do.
THEOREM RowsShown == Spec => []RowShown
<1>1. Inv => RowShown
  BY DEF Inv
<1> QED
  BY <1>1, Invariance, PTL

\* A row that is not shown has been reported by underrun.
THEOREM BlanksReported == Spec => []BlankReported
<1>1. Inv => BlankReported
  BY DEF Inv
<1> QED
  BY <1>1, Invariance, PTL
=============================================================================
