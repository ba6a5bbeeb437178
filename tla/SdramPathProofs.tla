--------------------------- MODULE SdramPathProofs ---------------------------
(***************************************************************************)
(* Proofs about SdramPath: the way of the CPU's commands across the two    *)
(* clocks, through the arbiter and the controller, and back.               *)
(*                                                                         *)
(*   PathInvariant    the inductive invariant, PathInv                     *)
(*   CrossingKept     Spec => []PathKept                                   *)
(*   StoresArrive     Spec => []StoresLand                                 *)
(*   PathImplemented  Spec => ImplementsPort: the CPU has one flat memory  *)
(*                                                                         *)
(* A part of PathInv has a lemma for an edge of each clock.                *)
(***************************************************************************)
EXTENDS SdramPath, TLAPS

\* The place of a pointer in the gray order, and the steps from one to another.
Place(p) == IF p[1] THEN IF p[2] THEN 2 ELSE 3 ELSE IF p[2] THEN 1 ELSE 0
Gap(p, q) == IF Place(p) <= Place(q) THEN Place(q) - Place(p) ELSE Place(q) - Place(p) + 4

\* Round the ring: what the host knows of the consumer, the consumer, what the memory
\* side knows of the producer, the producer; and never all the way round.
PointersOrdered ==
  /\ Gap(consumer_sync_q, consumer_meta_q) + Gap(consumer_meta_q, consumer_old)
     + Gap(consumer_old, consumer_gray_q) + Gap(consumer_gray_q, producer_sync_q)
     + Gap(producer_sync_q, producer_meta_q) + Gap(producer_meta_q, producer_old)
     + Gap(producer_old, producer_gray_q) <= 3
  /\ Gap(consumer_old, consumer_gray_q) <= 1 /\ Gap(producer_old, producer_gray_q) <= 1

\* Commands between the two pointers.
Queues(p) == Gap(consumer_gray_q, p) < Gap(consumer_gray_q, producer_gray_q)
Crossed == consumer_gray_q = producer_gray_q

\* They are the host's, and a read is alone.
QueueKept ==
  /\ \A p \in Pointer : Queues(p) => entry[p] \in Request /\ (entry[p].we \/ read_wait_q)
  /\ read_wait_q /\ ~Crossed =>
       /\ producer_gray_q = NextGray(consumer_gray_q)
       /\ ~HeadCommand.we /\ HeadCommand.addr = line_address

HeadKept ==
  /\ ~empty_q => consumer_gray_q # producer_sync_q /\ head_write = HeadCommand.we
  /\ request_valid_q => ~empty_q

\* A line is being read.
Reading == ~empty_q /\ ~head_write
Issued == IF issued_last_q THEN Words ELSE issued_q
ReadOwner == ~owner_video_q /\ ~owner_write_q

\* Its commands in the controller are those issued and not returned.
ReadsCounted ==
  /\ issued_last_q => Reading /\ issued_q = 0 /\ ~request_valid_q
  /\ ~Reading => issued_q = 0 /\ returned_q = 0
  /\ reply_last_q <=> returned_q = LastWord /\ Words > 1
  /\ (IF ReadOwner THEN Len(bus) ELSE 0) = (IF Reading THEN Issued - returned_q ELSE 0)

GrantKept ==
  /\ Len(bus) <= Capacity
  /\ grant = "IDLE" => bus = <<>>
  /\ grant = "CPU" => ~owner_video_q
  /\ grant = "VIDEO" => owner_video_q
  /\ owner_video_q => ~owner_write_q
  /\ grant = "CPU" /\ ~owner_write_q /\ request_valid_q => ~head_write

InLine(w) == [line |-> line_address.line, word |-> w]
LineHeld(w) == line_data[w] = promised[InLine(w)]
LineFilled ==
  Reading =>
    /\ \A w \in WordIndex : w < returned_q => LineHeld(w)
    /\ ReadOwner => \A k \in DOMAIN bus : bus[k].cmd.addr = InLine(returned_q + k - 1)
LineKept ==
  /\ line_valid_q => Crossed
  /\ line_valid_q \/ (read_wait_q /\ Crossed) => \A w \in WordIndex : LineHeld(w)

CpuKept ==
  /\ read_wait_q => /\ waiting # NoRequest /\ ~waiting.we /\ waiting.addr = line_address
                    /\ ~host_ack
  /\ host_ack => waiting # NoRequest /\ (~waiting.we => host_rdata = promised[waiting.addr])

\* Stores on their way.
Covers(c, a, l) == c.we /\ c.addr = a /\ l \in c.sel
Youngest(q, a, l, k) ==
  k \in DOMAIN q /\ Covers(q[k], a, l) /\ \A j \in DOMAIN q : Covers(q[j], a, l) => j <= k
Shown(m, q, a, l, v) ==
  \/ v = m[a][l] /\ \A k \in DOMAIN q : ~Covers(q[k], a, l)
  \/ \E k \in DOMAIN q : Youngest(q, a, l, k) /\ v = q[k].wdata[l]

Ahead(p, n) == IF n = 0 THEN p ELSE IF n = 1 THEN NextGray(p)
               ELSE IF n = 2 THEN NextGray(NextGray(p)) ELSE NextGray(NextGray(NextGray(p)))
Commands(q) == [k \in DOMAIN q |-> q[k].cmd]
Owed == Commands(bus)
Queued == [k \in 1 .. Gap(consumer_gray_q, producer_gray_q) |-> entry[Ahead(consumer_gray_q, k - 1)]]
Pending == Owed \o Queued
StoresPromised ==
  \A a \in Addr, l \in Lanes : Shown(memory, Pending, a, l, promised[a][l])

PathInv ==
  /\ TypeOK /\ PointersOrdered /\ QueueKept /\ HeadKept /\ GrantKept /\ AnswersOwned
  /\ ReadsCounted /\ LineFilled /\ LineKept /\ CpuKept /\ StoresPromised

-----------------------------------------------------------------------------
(* Pointers. *)

LEMMA Bits ==
  ASSUME NEW p \in Pointer
  PROVE  /\ p[1] \in BOOLEAN /\ p[2] \in BOOLEAN
         /\ NextGray(p)[1] = p[2] /\ NextGray(p)[2] = ~p[1]
  BY SMT DEF Pointer, NextGray

LEMMA SamePointer ==
  ASSUME NEW p \in Pointer, NEW q \in Pointer, p[1] = q[1], p[2] = q[2]
  PROVE  p = q
  BY SMT DEF Pointer

LEMMA PlaceBits ==
  ASSUME NEW n, NEW p, n[1] <=> p[2], n[2] <=> ~p[1]
  PROVE  Place(n) = IF Place(p) = 3 THEN 0 ELSE Place(p) + 1
  BY SMT DEF Place

LEMMA NextPlace ==
  ASSUME NEW p \in Pointer
  PROVE  /\ Place(p) \in 0 .. 3
         /\ NextGray(p) \in Pointer
         /\ Place(NextGray(p)) = IF Place(p) = 3 THEN 0 ELSE Place(p) + 1
<1>1. Place(p) \in 0 .. 3
  BY DEF Place
<1>2. NextGray(p) \in Pointer
  <2>1. p[1] \in BOOLEAN /\ p[2] \in BOOLEAN
    BY Bits
  <2>2. (~p[1]) \in BOOLEAN
    BY <2>1
  <2>3. \A a, b \in BOOLEAN : <<a, b>> \in BOOLEAN \X BOOLEAN
    BY SMT
  <2>4. <<p[2], ~p[1]>> \in BOOLEAN \X BOOLEAN
    BY <2>1, <2>2, <2>3, Zenon
  <2> QED BY <2>4, Zenon DEF Pointer, NextGray
<1>3. (NextGray(p)[1] <=> p[2]) /\ (NextGray(p)[2] <=> ~p[1])
  BY Bits
<1> QED BY <1>1, <1>2, <1>3, PlaceBits

LEMMA SamePlace ==
  ASSUME NEW p \in Pointer, NEW q \in Pointer, Place(p) = Place(q)
  PROVE  p = q
<1>1. p[1] = q[1] /\ p[2] = q[2]
  BY Bits, SMT DEF Place
<1> QED BY <1>1, SamePointer

\* A pointer that changes in one bit is sampled as it was or as it is.
LEMMA SampledOne ==
  ASSUME NEW o \in Pointer, NEW n \in Pointer, Gap(o, n) <= 1, NEW s \in Sampled(o, n)
  PROVE  s \in Pointer /\ (s = o \/ s = n)
<1>1. s \in Pointer /\ s[1] \in {o[1], n[1]} /\ s[2] \in {o[2], n[2]}
  BY SMT DEF Sampled
<1>2. CASE o = n
  BY <1>1, <1>2, SamePointer
<1>3. CASE o # n
  <2>1. n = NextGray(o)
    BY <1>3, NextPlace, SamePlace DEF Gap
  <2>2. n[1] = o[2] /\ n[2] = ~o[1]
    BY <2>1, Bits
  <2>3. (s[1] = o[1] /\ s[2] = o[2]) \/ (s[1] = n[1] /\ s[2] = n[2])
    BY <1>1, <2>2, Bits, SMT
  <2> QED BY <1>1, <2>3, SamePointer
<1> QED BY <1>2, <1>3

\* How pointers move round the ring.
LEMMA Gaps ==
  ASSUME NEW p \in Pointer, NEW q \in Pointer
  PROVE  /\ Gap(p, q) \in 0 .. 3 /\ (Gap(p, q) = 0 <=> p = q) /\ Gap(p, p) = 0
         /\ Gap(p, NextGray(q)) = IF Gap(p, q) = 3 THEN 0 ELSE Gap(p, q) + 1
         /\ Gap(NextGray(p), q) = IF Gap(p, q) = 0 THEN 3 ELSE Gap(p, q) - 1
         /\ NextGray(p) \in Pointer
  BY NextPlace, SamePlace DEF Gap

LEMMA GapsAdd ==
  ASSUME NEW p \in Pointer, NEW q \in Pointer, NEW r \in Pointer
  PROVE  /\ Gap(p, q) + Gap(q, r) \in {Gap(p, r), Gap(p, r) + 4}
  BY NextPlace DEF Gap

\* What the order of the pointers says of any two of them.
LEMMA Ordered ==
  ASSUME TypeOK, PointersOrdered
  PROVE  /\ Gap(consumer_sync_q, producer_gray_q) =
              Gap(consumer_sync_q, consumer_meta_q) + Gap(consumer_meta_q, consumer_old)
              + Gap(consumer_old, consumer_gray_q) + Gap(consumer_gray_q, producer_sync_q)
              + Gap(producer_sync_q, producer_meta_q) + Gap(producer_meta_q, producer_old)
              + Gap(producer_old, producer_gray_q)
         /\ Gap(consumer_gray_q, producer_gray_q) =
              Gap(consumer_gray_q, producer_sync_q)
              + Gap(producer_sync_q, producer_meta_q) + Gap(producer_meta_q, producer_old)
              + Gap(producer_old, producer_gray_q)
         /\ Gap(consumer_meta_q, consumer_gray_q) =
              Gap(consumer_meta_q, consumer_old) + Gap(consumer_old, consumer_gray_q)
         /\ Gap(consumer_gray_q, producer_meta_q) =
              Gap(consumer_gray_q, producer_sync_q) + Gap(producer_sync_q, producer_meta_q)
         /\ Gap(producer_meta_q, producer_gray_q) =
              Gap(producer_meta_q, producer_old) + Gap(producer_old, producer_gray_q)
         /\ HostEmpty => Crossed
<1> DEFINE cs == consumer_sync_q
           cm == consumer_meta_q
           co == consumer_old
           c == consumer_gray_q
           ps == producer_sync_q
           pm == producer_meta_q
           po == producer_old
           p == producer_gray_q
<1>1. /\ cs \in Pointer /\ cm \in Pointer /\ co \in Pointer /\ c \in Pointer
      /\ ps \in Pointer /\ pm \in Pointer /\ po \in Pointer /\ p \in Pointer
  BY DEF TypeOK, BridgeTypeOK
<1>2. Gap(cs, cm) + Gap(cm, co) + Gap(co, c) + Gap(c, ps) + Gap(ps, pm) + Gap(pm, po)
        + Gap(po, p) <= 3
  BY DEF PointersOrdered
<1>3. HostEmpty => cs = p
  BY DEF HostEmpty
<1> SUFFICES
      /\ Gap(cs, p) = Gap(cs, cm) + Gap(cm, co) + Gap(co, c) + Gap(c, ps) + Gap(ps, pm)
                      + Gap(pm, po) + Gap(po, p)
      /\ Gap(c, p) = Gap(c, ps) + Gap(ps, pm) + Gap(pm, po) + Gap(po, p)
      /\ Gap(cm, c) = Gap(cm, co) + Gap(co, c)
      /\ Gap(c, pm) = Gap(c, ps) + Gap(ps, pm)
      /\ Gap(pm, p) = Gap(pm, po) + Gap(po, p)
      /\ cs = p => c = p
  BY <1>3 DEF Crossed
<1> HIDE DEF cs, cm, co, c, ps, pm, po, p
<1>4. /\ Gap(cs, cm) \in 0 .. 3 /\ Gap(cm, co) \in 0 .. 3 /\ Gap(co, c) \in 0 .. 3
      /\ Gap(c, ps) \in 0 .. 3 /\ Gap(ps, pm) \in 0 .. 3 /\ Gap(pm, po) \in 0 .. 3
      /\ Gap(po, p) \in 0 .. 3 /\ Gap(cs, p) \in 0 .. 3 /\ Gap(c, p) \in 0 .. 3
  BY <1>1, Gaps
<1>5. /\ Gap(cm, c) = Gap(cm, co) + Gap(co, c)
      /\ Gap(c, pm) = Gap(c, ps) + Gap(ps, pm)
      /\ Gap(pm, p) = Gap(pm, po) + Gap(po, p)
  <2>1. Gap(cm, c) \in 0 .. 3 /\ Gap(c, pm) \in 0 .. 3 /\ Gap(pm, p) \in 0 .. 3
    BY <1>1, Gaps
  <2>2. /\ Gap(cm, co) + Gap(co, c) \in {Gap(cm, c), Gap(cm, c) + 4}
        /\ Gap(c, ps) + Gap(ps, pm) \in {Gap(c, pm), Gap(c, pm) + 4}
        /\ Gap(pm, po) + Gap(po, p) \in {Gap(pm, p), Gap(pm, p) + 4}
    BY <1>1, GapsAdd
  <2> QED BY <1>2, <1>4, <2>1, <2>2
<1>6. Gap(c, p) = Gap(c, pm) + Gap(pm, p)
  <2>1. Gap(c, pm) + Gap(pm, p) \in {Gap(c, p), Gap(c, p) + 4}
    BY <1>1, GapsAdd
  <2> QED BY <1>2, <1>4, <1>5, <2>1
<1>7. Gap(cs, c) = Gap(cs, cm) + Gap(cm, c)
  <2>1. Gap(cs, cm) + Gap(cm, c) \in {Gap(cs, c), Gap(cs, c) + 4} /\ Gap(cs, c) \in 0 .. 3
    BY <1>1, Gaps, GapsAdd
  <2> QED BY <1>2, <1>4, <1>5, <2>1
<1>8. Gap(cs, p) = Gap(cs, c) + Gap(c, p)
  <2>1. Gap(cs, c) + Gap(c, p) \in {Gap(cs, p), Gap(cs, p) + 4}
    BY <1>1, GapsAdd
  <2> QED BY <1>2, <1>4, <1>5, <1>6, <1>7, <2>1
<1>9. cs = p => c = p
  <2>1. cs = p => Gap(cs, p) = 0
    BY <1>1, Gaps
  <2>2. cs = p => Gap(c, p) = 0
    BY <1>4, <1>5, <1>6, <1>7, <1>8, <2>1
  <2> QED BY <1>1, <2>2, Gaps
<1> QED BY <1>4, <1>5, <1>6, <1>7, <1>8, <1>9

\* Edges of the host's clock,
LEMMA OrderedHost ==
  ASSUME TypeOK, TypeOK', PointersOrdered, NEW io, HostEdge(io)
  PROVE  PointersOrdered'
<1> DEFINE cs == consumer_sync_q
           cm == consumer_meta_q
           co == consumer_old
           c == consumer_gray_q
           ps == producer_sync_q
           pm == producer_meta_q
           po == producer_old
           p == producer_gray_q
<1>1. /\ cs \in Pointer /\ cm \in Pointer /\ co \in Pointer /\ c \in Pointer
      /\ ps \in Pointer /\ pm \in Pointer /\ po \in Pointer /\ p \in Pointer
  BY DEF TypeOK, BridgeTypeOK
<1>2. /\ Gap(cs, cm) + Gap(cm, co) + Gap(co, c) + Gap(c, ps) + Gap(ps, pm) + Gap(pm, po)
           + Gap(po, p) <= 3
      /\ Gap(co, c) <= 1
  BY DEF PointersOrdered
<1>3. /\ cm' \in Sampled(co, c) /\ cs' = cm /\ po' = p /\ co' = c /\ c' = c /\ ps' = ps /\ pm' = pm
      /\ p' = p \/ (p' = NextGray(p) /\ NextGray(p) # cs)
  BY DEF HostEdge, HostCommand, HostAccept, HostStall, memoryVars
<1>4. /\ Gap(cs, p) = Gap(cs, cm) + Gap(cm, co) + Gap(co, c) + Gap(c, ps) + Gap(ps, pm)
                      + Gap(pm, po) + Gap(po, p)
      /\ Gap(cm, c) = Gap(cm, co) + Gap(co, c)
      /\ Gap(pm, p) = Gap(pm, po) + Gap(po, p)
  BY Ordered
<1> SUFFICES
      /\ Gap(cs', cm') + Gap(cm', co') + Gap(co', c') + Gap(c', ps') + Gap(ps', pm')
           + Gap(pm', po') + Gap(po', p') <= 3
      /\ Gap(co', c') <= 1 /\ Gap(po', p') <= 1
  BY DEF PointersOrdered, Gap, Place
<1> HIDE DEF cs, cm, co, c, ps, pm, po, p
<1>5. /\ Gap(cs, cm) \in 0 .. 3 /\ Gap(cm, co) \in 0 .. 3 /\ Gap(co, c) \in 0 .. 3
      /\ Gap(c, ps) \in 0 .. 3 /\ Gap(ps, pm) \in 0 .. 3 /\ Gap(pm, po) \in 0 .. 3
      /\ Gap(po, p) \in 0 .. 3 /\ Gap(cs, p) \in 0 .. 3 /\ Gap(c, c) = 0 /\ Gap(co, co) = 0
  BY <1>1, Gaps
<1>6. cm' = co \/ cm' = c
  BY <1>1, <1>2, <1>3, SampledOne
<1>7. /\ Gap(p, p') \in 0 .. 1
      /\ (p' # p => Gap(p, p') = 1 /\ Gap(cs, p) # 3)
  <2>1. NextGray(p) = cs <=> Gap(cs, NextGray(p)) = 0
    BY <1>1, Gaps
  <2> QED BY <1>1, <1>3, <2>1, Gaps
<1>8. p' = p => Gap(p, p') = 0
  BY <1>1, Gaps
<1>9. Gap(cs', cm') + Gap(cm', co') = Gap(cm, c)
  <2>1. CASE cm' = co
    BY <1>3, <1>4, <2>1
  <2>2. CASE cm' = c
    BY <1>3, <1>5, <1>4, <2>2
  <2> QED BY <1>6, <2>1, <2>2
<1>10. Gap(co', c') = 0 /\ Gap(pm', po') = Gap(pm, p) /\ Gap(po', p') = Gap(p, p')
       /\ Gap(c', ps') = Gap(c, ps) /\ Gap(ps', pm') = Gap(ps, pm)
  BY <1>3, <1>5
<1>11. Gap(cs', cm') \in 0 .. 3 /\ Gap(cm', co') \in 0 .. 3
  BY <1>1, <1>3, <1>6, Gaps
<1> QED BY <1>2, <1>4, <1>5, <1>7, <1>8, <1>9, <1>10, <1>11

\* and of the memory's.
LEMMA OrderedMemory ==
  ASSUME TypeOK, TypeOK', PointersOrdered, NEW io, MemoryEdge(io),
         Complete(io) => consumer_gray_q # producer_sync_q
  PROVE  PointersOrdered'
<1> DEFINE cs == consumer_sync_q
           cm == consumer_meta_q
           co == consumer_old
           c == consumer_gray_q
           ps == producer_sync_q
           pm == producer_meta_q
           po == producer_old
           p == producer_gray_q
<1>1. /\ cs \in Pointer /\ cm \in Pointer /\ co \in Pointer /\ c \in Pointer
      /\ ps \in Pointer /\ pm \in Pointer /\ po \in Pointer /\ p \in Pointer
  BY DEF TypeOK, BridgeTypeOK
<1>2. /\ Gap(cs, cm) + Gap(cm, co) + Gap(co, c) + Gap(c, ps) + Gap(ps, pm) + Gap(pm, po)
           + Gap(po, p) <= 3
      /\ Gap(po, p) <= 1
  BY DEF PointersOrdered
<1>3. /\ pm' \in Sampled(po, p) /\ ps' = pm /\ po' = p /\ co' = c /\ p' = p /\ cs' = cs /\ cm' = cm
      /\ c' = c \/ (c' = NextGray(c) /\ c # ps)
  BY DEF MemoryEdge, ReplyStep, hostVars
<1>4. /\ Gap(cm, c) = Gap(cm, co) + Gap(co, c)
      /\ Gap(pm, p) = Gap(pm, po) + Gap(po, p)
      /\ Gap(c, pm) = Gap(c, ps) + Gap(ps, pm)
  BY Ordered
<1> SUFFICES
      /\ Gap(cs', cm') + Gap(cm', co') + Gap(co', c') + Gap(c', ps') + Gap(ps', pm')
           + Gap(pm', po') + Gap(po', p') <= 3
      /\ Gap(co', c') <= 1 /\ Gap(po', p') <= 1
  BY DEF PointersOrdered, Gap, Place
<1> HIDE DEF cs, cm, co, c, ps, pm, po, p
<1>5. /\ Gap(cs, cm) \in 0 .. 3 /\ Gap(cm, co) \in 0 .. 3 /\ Gap(co, c) \in 0 .. 3
      /\ Gap(c, ps) \in 0 .. 3 /\ Gap(ps, pm) \in 0 .. 3 /\ Gap(pm, po) \in 0 .. 3
      /\ Gap(po, p) \in 0 .. 3 /\ Gap(c, pm) \in 0 .. 3 /\ Gap(c, c) = 0 /\ Gap(p, p) = 0
      /\ Gap(pm, p) \in 0 .. 3 /\ (c # ps => Gap(c, ps) # 0)
  BY <1>1, Gaps
<1>6. pm' = po \/ pm' = p
  BY <1>1, <1>2, <1>3, SampledOne
<1>7. Gap(c, c') + Gap(c', pm) = Gap(c, pm) /\ Gap(c, c') \in 0 .. 1 /\ Gap(c', pm) \in 0 .. 3
  <2>1. CASE c' = c
    BY <1>5, <2>1
  <2>2. CASE c' = NextGray(c) /\ c # ps
    <3>1. Gap(c, pm) # 0
      BY <1>4, <1>5, <2>2
    <3>2. Gap(c, c') = 1 /\ Gap(c', pm) = Gap(c, pm) - 1
      BY <1>1, <1>5, <2>2, <3>1, Gaps
    <3> QED BY <1>5, <3>1, <3>2
  <2> QED BY <1>3, <2>1, <2>2
<1>8. Gap(ps', pm') + Gap(pm', po') = Gap(pm, p)
  <2>1. CASE pm' = po
    BY <1>3, <1>4, <2>1
  <2>2. CASE pm' = p
    BY <1>3, <1>5, <2>2
  <2> QED BY <1>6, <2>1, <2>2
<1>9. Gap(po', p') = 0 /\ Gap(cm', co') = Gap(cm, c) /\ Gap(cs', cm') = Gap(cs, cm)
      /\ Gap(co', c') = Gap(c, c') /\ Gap(c', ps') = Gap(c', pm)
  BY <1>3, <1>5
<1>10. Gap(ps', pm') \in 0 .. 3 /\ Gap(pm', po') \in 0 .. 3
  BY <1>1, <1>3, <1>6, Gaps
<1> QED BY <1>2, <1>4, <1>5, <1>7, <1>8, <1>9, <1>10

LEMMA SameGap ==
  ASSUME NEW p \in Pointer, NEW q \in Pointer, NEW r \in Pointer, Gap(p, q) = Gap(p, r)
  PROVE  q = r
<1>1. Place(q) = Place(r)
  BY NextPlace DEF Gap
<1> QED BY <1>1, SamePlace

\* The head is in the queue unless that is empty.
LEMMA HeadQueues ==
  ASSUME TypeOK
  PROVE  /\ ~Crossed => Queues(consumer_gray_q)
         /\ Crossed => \A p \in Pointer : ~Queues(p)
<1>1. consumer_gray_q \in Pointer /\ producer_gray_q \in Pointer
  BY DEF TypeOK, BridgeTypeOK
<1> QED BY <1>1, Gaps DEF Queues, Crossed

-----------------------------------------------------------------------------
(* An edge of the host's clock. *)

\* It takes a store, starts to read a line, answers from the line, or takes nothing.
Takes(c) ==
  /\ ~read_wait_q /\ NextGray(producer_gray_q) # consumer_sync_q
  /\ waiting = NoRequest \/ host_ack
  /\ waiting' = c
TakesStore(c) ==
  /\ Takes(c) /\ c.we
  /\ producer_gray_q' = NextGray(producer_gray_q)
  /\ entry' = [entry EXCEPT ![producer_gray_q] = c]
  /\ line_address' = line_address /\ ~line_valid_q' /\ ~read_wait_q' /\ host_ack'
  /\ promised' = [promised EXCEPT ![c.addr] = Merge(@, c.sel, c.wdata)]
TakesRead(c) ==
  /\ Takes(c) /\ ~c.we /\ Crossed
  /\ producer_gray_q' = NextGray(producer_gray_q)
  /\ entry' = [entry EXCEPT ![producer_gray_q] = c]
  /\ line_address' = c.addr /\ ~line_valid_q' /\ read_wait_q' /\ ~host_ack'
  /\ promised' = promised
TakesHit(c) ==
  /\ Takes(c) /\ ~c.we /\ line_valid_q /\ c.addr.line = line_address.line
  /\ producer_gray_q' = producer_gray_q
  /\ entry' = [entry EXCEPT ![producer_gray_q] = Garbage]
  /\ line_address' = line_address /\ line_valid_q' /\ ~read_wait_q' /\ host_ack'
  /\ host_rdata' = line_data[c.addr.word]
  /\ promised' = promised
TakesNothing ==
  /\ waiting' = IF host_ack THEN NoRequest ELSE waiting
  /\ producer_gray_q' = producer_gray_q
  /\ entry' = [entry EXCEPT ![producer_gray_q] = Garbage]
  /\ line_address' = line_address
  /\ line_valid_q' = (LineReturned \/ line_valid_q)
  /\ read_wait_q' = (read_wait_q /\ ~LineReturned)
  /\ host_ack' = LineReturned
  /\ read_wait_q => host_rdata' = line_data[line_address.word]
  /\ promised' = promised

LEMMA HostCases ==
  ASSUME TypeOK, PointersOrdered, NEW stb \in BOOLEAN, NEW c \in CpuRequests, HostClock(stb, c)
  PROVE  /\ TakesStore(c) \/ TakesRead(c) \/ TakesHit(c) \/ TakesNothing
         /\ got' = IF host_ack /\ ~waiting.we THEN {host_rdata} ELSE {}
         /\ UNCHANGED <<memoryVars, fabricVars, memory, bus, memory_ready, video_stb>>
<1> DEFINE io == [stb |-> stb, c |-> c, ready |-> memory_ready]
<1>1. /\ stb => waiting = NoRequest \/ host_ack
      /\ HostEdge(io)
      /\ waiting' = IF HostAccept(io) THEN c ELSE IF host_ack THEN NoRequest ELSE waiting
      /\ got' = IF host_ack /\ ~waiting.we THEN {host_rdata} ELSE {}
      /\ promised' = IF HostAccept(io) /\ c.we
                     THEN [promised EXCEPT ![c.addr] = Merge(@, c.sel, c.wdata)]
                     ELSE promised
      /\ UNCHANGED <<fabricVars, memory, bus, memory_ready, video_stb>>
  BY DEF HostClock
<1>2. io.c = c /\ io.stb = stb
  OBVIOUS
<1> HIDE DEF io
<1>3. HostCommand(io) /\ UNCHANGED memoryVars
      /\ host_rdata' = line_data[IF read_wait_q THEN line_address.word ELSE c.addr.word]
  BY <1>1, <1>2 DEF HostEdge
<1>4. CASE HostAccept(io)
  <2>1. /\ ~read_wait_q /\ NextGray(producer_gray_q) # consumer_sync_q /\ stb
        /\ ~c.we => HostEmpty
    BY <1>2, <1>4 DEF HostAccept, HostStall
  <2>2. Takes(c) /\ ~LineReturned
    BY <1>1, <1>4, <2>1 DEF Takes, LineReturned
  <2>3. CASE c.we
    <3>1. ~LineHit(c)
      BY <2>3 DEF LineHit
    <3> QED BY <1>1, <1>2, <1>3, <1>4, <2>1, <2>2, <2>3, <3>1 DEF HostCommand, TakesStore
  <2>4. CASE ~c.we /\ ~LineHit(c)
    <3>1. Crossed
      BY <2>1, <2>4, Ordered
    <3> QED BY <1>1, <1>2, <1>3, <1>4, <2>1, <2>2, <2>4, <3>1 DEF HostCommand, TakesRead
  <2>5. CASE LineHit(c)
    <3>1. ~c.we /\ line_valid_q /\ c.addr.line = line_address.line
      BY <2>5 DEF LineHit
    <3>2. TakesHit(c)
      BY <1>1, <1>2, <1>3, <1>4, <2>1, <2>2, <2>5, <3>1 DEF HostCommand, TakesHit
    <3> QED BY <1>1, <1>3, <3>2
  <2> QED BY <2>3, <2>4, <2>5
<1>5. CASE ~HostAccept(io)
  <2>1. TakesNothing
    BY <1>1, <1>2, <1>3, <1>5 DEF HostCommand, TakesNothing, LineReturned
  <2> QED BY <1>1, <1>3, <2>1
<1> QED BY <1>4, <1>5

LEMMA Typed ==
  ASSUME NEW c \in Request
  PROVE  /\ c.addr \in Addr /\ c.we \in BOOLEAN /\ c.sel \in SUBSET Lanes /\ c.wdata \in Word
         /\ c.addr.line \in LineIds /\ c.addr.word \in WordIndex
         /\ c.addr = [line |-> c.addr.line, word |-> c.addr.word]
  BY DEF Request, Addr

LEMMA MergeTyped ==
  ASSUME NEW v \in Word, NEW s, NEW w \in Word PROVE Merge(v, s, w) \in Word
  BY DEF Merge, Word

LEMMA HostTyped ==
  ASSUME TypeOK, PointersOrdered, NEW stb \in BOOLEAN, NEW c \in CpuRequests, HostClock(stb, c)
  PROVE  TypeOK'
<1>1. /\ TakesStore(c) \/ TakesRead(c) \/ TakesHit(c) \/ TakesNothing
      /\ got' = IF host_ack /\ ~waiting.we THEN {host_rdata} ELSE {}
      /\ UNCHANGED <<memoryVars, fabricVars, memory, bus, memory_ready, video_stb>>
  BY HostCases
<1>2. c \in Request
  BY PathAssumption
<1>3. producer_gray_q' \in Pointer
  <2>1. producer_gray_q' = producer_gray_q \/ producer_gray_q' = NextGray(producer_gray_q)
    BY <1>1 DEF TakesStore, TakesRead, TakesHit, TakesNothing
  <2> QED BY <2>1, Gaps DEF TypeOK, BridgeTypeOK
<1>4. consumer_meta_q' \in Pointer /\ consumer_sync_q' \in Pointer
      /\ producer_old' \in Pointer /\ consumer_old' \in Pointer
  BY DEF HostClock, HostEdge, Sampled, TypeOK, BridgeTypeOK
<1>5. ready_sync_q' \in BOOLEAN \X BOOLEAN
  <2>1. ready_sync_q' = <<memory_ready, ready_sync_q[1]>>
    BY DEF HostClock, HostEdge
  <2> QED BY <2>1, SMT DEF TypeOK, BridgeTypeOK
<1>6. read_wait_q' \in BOOLEAN /\ line_valid_q' \in BOOLEAN /\ host_ack' \in BOOLEAN
  BY DEF HostClock, HostEdge, HostCommand, TypeOK, BridgeTypeOK, LineReturned
<1>7. line_address' \in Addr
  BY <1>1, <1>2, Typed DEF TakesStore, TakesRead, TakesHit, TakesNothing, TypeOK, BridgeTypeOK
<1>8. host_rdata' \in DataWord
  <2>1. \E w \in WordIndex : host_rdata' = line_data[w]
    BY <1>2, Typed DEF HostClock, HostEdge, TypeOK, BridgeTypeOK, Addr
  <2> QED BY <2>1 DEF TypeOK, BridgeTypeOK
<1>9. entry' \in [Pointer -> Request \cup {Garbage}]
  <2>1. \E x \in Request \cup {Garbage} : entry' = [entry EXCEPT ![producer_gray_q] = x]
    BY <1>1, <1>2 DEF TakesStore, TakesRead, TakesHit, TakesNothing
  <2> QED BY <2>1 DEF TypeOK, BridgeTypeOK
<1>10. promised' \in [Addr -> Word]
  <2>1. promised' = promised \/ promised' = [promised EXCEPT ![c.addr] = Merge(@, c.sel, c.wdata)]
    BY <1>1 DEF TakesStore, TakesRead, TakesHit, TakesNothing
  <2>2. promised \in [Addr -> Word]
    BY DEF TypeOK
  <2>3. Merge(promised[c.addr], c.sel, c.wdata) \in Word
    BY <1>2, <2>2, Typed, MergeTyped
  <2> QED BY <1>2, <2>1, <2>2, <2>3, Typed
<1>11. waiting' \in CpuRequests \cup {NoRequest} /\ got' \in {{}} \cup {{w} : w \in DataWord}
  BY <1>1 DEF TakesStore, TakesRead, TakesHit, TakesNothing, Takes, TypeOK, BridgeTypeOK
<1>12. BridgeTypeOK'
  BY <1>1, <1>3, <1>4, <1>5, <1>6, <1>7, <1>8, <1>9 DEF TypeOK, BridgeTypeOK, memoryVars
<1>13. FabricTypeOK'
  BY <1>1 DEF TypeOK, FabricTypeOK, fabricVars
<1> QED BY <1>1, <1>10, <1>11, <1>12, <1>13 DEF TypeOK

\* The queue takes commands at its end,
LEMMA HostQueue ==
  ASSUME TypeOK, PointersOrdered, QueueKept, NEW stb \in BOOLEAN, NEW c \in CpuRequests,
         HostClock(stb, c)
  PROVE  /\ consumer_gray_q' = consumer_gray_q
         /\ \A p \in Pointer : Queues(p) => entry'[p] = entry[p]
         /\ \/ producer_gray_q' = producer_gray_q
            \/ /\ producer_gray_q' = NextGray(producer_gray_q)
               /\ entry'[producer_gray_q] = c
               /\ Gap(consumer_gray_q, producer_gray_q)' = Gap(consumer_gray_q, producer_gray_q) + 1
               /\ \/ c.we /\ ~read_wait_q /\ ~read_wait_q'
                  \/ ~c.we /\ Crossed /\ read_wait_q' /\ line_address' = c.addr
<1>1. /\ TakesStore(c) \/ TakesRead(c) \/ TakesHit(c) \/ TakesNothing
      /\ UNCHANGED memoryVars
  BY HostCases
<1>2. consumer_gray_q' = consumer_gray_q
  BY <1>1 DEF memoryVars
<1>3. /\ producer_gray_q \in Pointer /\ consumer_gray_q \in Pointer /\ DOMAIN entry = Pointer
      /\ consumer_sync_q \in Pointer
  BY DEF TypeOK, BridgeTypeOK
<1>4. \E x : entry' = [entry EXCEPT ![producer_gray_q] = x]
  BY <1>1 DEF TakesStore, TakesRead, TakesHit, TakesNothing
<1>5. \A p \in Pointer : Queues(p) => entry'[p] = entry[p]
  <2>1. ~Queues(producer_gray_q)
    BY <1>3, Gaps DEF Queues
  <2> QED BY <1>3, <1>4, <2>1
<1>6. CASE TakesStore(c) \/ TakesRead(c)
  <2>1. producer_gray_q' = NextGray(producer_gray_q) /\ entry'[producer_gray_q] = c
        /\ NextGray(producer_gray_q) # consumer_sync_q
    BY <1>3, <1>6 DEF TakesStore, TakesRead, Takes
  <2>2. Gap(consumer_sync_q, producer_gray_q) # 3
    BY <1>3, <2>1, Gaps
  <2>3. Gap(consumer_gray_q, producer_gray_q) # 3
    <3>1. /\ Gap(consumer_sync_q, consumer_meta_q) \in 0 .. 3
          /\ Gap(consumer_meta_q, consumer_old) \in 0 .. 3
          /\ Gap(consumer_old, consumer_gray_q) \in 0 .. 3
          /\ Gap(consumer_sync_q, producer_gray_q) \in 0 .. 3
          /\ Gap(consumer_gray_q, producer_sync_q) \in 0 .. 3
          /\ Gap(producer_sync_q, producer_meta_q) \in 0 .. 3
          /\ Gap(producer_meta_q, producer_old) \in 0 .. 3
          /\ Gap(producer_old, producer_gray_q) \in 0 .. 3
      BY Gaps DEF TypeOK, BridgeTypeOK
    <3> QED BY <2>2, <3>1, Ordered
  <2>4. Gap(consumer_gray_q, NextGray(producer_gray_q)) = Gap(consumer_gray_q, producer_gray_q) + 1
    BY <1>3, <2>3, Gaps
  <2>5. Gap(consumer_gray_q, producer_gray_q)' = Gap(consumer_gray_q, NextGray(producer_gray_q))
    BY <1>2, <2>1 DEF Gap, Place
  <2>6. \/ c.we /\ ~read_wait_q /\ ~read_wait_q'
        \/ ~c.we /\ Crossed /\ read_wait_q' /\ line_address' = c.addr
    BY <1>6 DEF TakesStore, TakesRead, Takes
  <2>7. Gap(consumer_gray_q, producer_gray_q)' = Gap(consumer_gray_q, producer_gray_q) + 1
    BY <2>4, <2>5
  <2> QED BY <1>2, <1>5, <2>1, <2>6, <2>7
<1>7. CASE TakesHit(c) \/ TakesNothing
  BY <1>2, <1>5, <1>7 DEF TakesHit, TakesNothing
<1> QED BY <1>1, <1>6, <1>7

\* of which the host keeps what it promised:
LEMMA HostQueueKept ==
  ASSUME TypeOK, PointersOrdered, QueueKept, NEW stb \in BOOLEAN, NEW c \in CpuRequests,
         HostClock(stb, c)
  PROVE  QueueKept'
<1>1. /\ consumer_gray_q' = consumer_gray_q
      /\ \A p \in Pointer : Queues(p) => entry'[p] = entry[p]
      /\ TakesStore(c) \/ TakesRead(c) \/ TakesHit(c) \/ TakesNothing
  BY HostQueue, HostCases
<1>2. /\ producer_gray_q \in Pointer /\ consumer_gray_q \in Pointer /\ c \in Request
      /\ c.we \in BOOLEAN
  BY PathAssumption, Typed DEF TypeOK, BridgeTypeOK
<1>3. LineReturned => Crossed
  BY Ordered DEF LineReturned
<1>4. CASE producer_gray_q' = producer_gray_q
  <2>1. /\ Crossed' <=> Crossed
        /\ \A p \in Pointer : Queues(p)' <=> Queues(p)
    BY <1>1, <1>4 DEF Crossed, Queues, Gap, Place
  <2>2. ~Crossed => (read_wait_q' <=> read_wait_q) /\ line_address' = line_address
                    /\ HeadCommand' = HeadCommand
    <3>1. ~Crossed => HeadCommand' = HeadCommand
      BY <1>1, <1>2, HeadQueues DEF HeadCommand
    <3>2. NextGray(producer_gray_q) # producer_gray_q
      BY <1>2, NextPlace
    <3>3. TakesHit(c) \/ TakesNothing
      BY <1>1, <1>4, <3>2 DEF TakesStore, TakesRead
    <3>4. CASE TakesHit(c)
      BY <3>1, <3>4 DEF TakesHit, Takes, TypeOK, BridgeTypeOK
    <3>5. CASE TakesNothing
      BY <1>3, <3>1, <3>5 DEF TakesNothing, TypeOK, BridgeTypeOK
    <3> QED BY <3>3, <3>4, <3>5
  <2>3. ASSUME NEW p \in Pointer, Queues(p)'
        PROVE  entry'[p] \in Request /\ (entry'[p].we \/ read_wait_q')
    <3>1. Queues(p) /\ ~Crossed
      BY <2>1, <2>3, HeadQueues
    <3> QED BY <1>1, <2>2, <3>1 DEF QueueKept
  <2>4. read_wait_q' /\ ~Crossed' =>
          /\ producer_gray_q' = NextGray(consumer_gray_q')
          /\ ~HeadCommand'.we /\ HeadCommand'.addr = line_address'
    BY <1>1, <1>4, <2>1, <2>2 DEF QueueKept
  <2> QED BY <2>3, <2>4 DEF QueueKept
<1>5. CASE producer_gray_q' # producer_gray_q
  <2>1. /\ producer_gray_q' = NextGray(producer_gray_q)
        /\ entry'[producer_gray_q] = c
        /\ Gap(consumer_gray_q, producer_gray_q)' = Gap(consumer_gray_q, producer_gray_q) + 1
        /\ \/ c.we /\ ~read_wait_q /\ ~read_wait_q'
           \/ ~c.we /\ Crossed /\ read_wait_q' /\ line_address' = c.addr
    BY <1>5, HostQueue
  <2>2. ASSUME NEW p \in Pointer, Queues(p)'
        PROVE  entry'[p] \in Request /\ (entry'[p].we \/ read_wait_q')
    <3>1. Gap(consumer_gray_q, p)' = Gap(consumer_gray_q, p)
      BY <1>1 DEF Gap, Place
    <3>2. Gap(consumer_gray_q, p) <= Gap(consumer_gray_q, producer_gray_q)
      BY <1>2, <2>1, <2>2, <3>1, Gaps DEF Queues
    <3>3. CASE Queues(p)
      <4>1. ~Crossed
        BY <3>3, HeadQueues
      <4> QED BY <1>1, <2>1, <3>3, <4>1 DEF QueueKept
    <3>4. CASE ~Queues(p)
      <4>1. Gap(consumer_gray_q, p) = Gap(consumer_gray_q, producer_gray_q)
        BY <1>2, <3>2, <3>4, Gaps DEF Queues
      <4>2. p = producer_gray_q
        BY <1>2, <4>1, SameGap
      <4> QED BY <1>2, <2>1, <4>2
    <3> QED BY <3>3, <3>4
  <2>3. read_wait_q' => /\ producer_gray_q' = NextGray(consumer_gray_q')
                        /\ ~HeadCommand'.we /\ HeadCommand'.addr = line_address'
    BY <1>1, <2>1 DEF Crossed, HeadCommand
  <2> QED BY <2>2, <2>3 DEF QueueKept
<1> QED BY <1>4, <1>5

\* the memory side is as it was, and the head where it was;
LEMMA HostHeadKept ==
  ASSUME TypeOK, PointersOrdered, QueueKept, HeadKept, NEW stb \in BOOLEAN, NEW c \in CpuRequests,
         HostClock(stb, c)
  PROVE  /\ HeadKept' /\ (~empty_q => HeadCommand' = HeadCommand)
         /\ (~empty_q => ~Crossed)
<1>1. /\ consumer_gray_q' = consumer_gray_q
      /\ \A p \in Pointer : Queues(p) => entry'[p] = entry[p]
      /\ UNCHANGED memoryVars
  BY HostQueue, HostCases
<1>2. ~empty_q => ~Crossed
  <2> SUFFICES ASSUME ~empty_q PROVE ~Crossed
    OBVIOUS
  <2>1. consumer_gray_q # producer_sync_q
    BY DEF HeadKept
  <2>2. /\ Gap(consumer_gray_q, producer_sync_q) \in 0 .. 3
        /\ Gap(consumer_gray_q, producer_sync_q) # 0
        /\ Gap(producer_sync_q, producer_meta_q) \in 0 .. 3
        /\ Gap(producer_meta_q, producer_old) \in 0 .. 3
        /\ Gap(producer_old, producer_gray_q) \in 0 .. 3
    BY <2>1, Gaps DEF TypeOK, BridgeTypeOK
  <2>3. Gap(consumer_gray_q, producer_gray_q) # 0
    BY <2>2, Ordered
  <2> QED BY <2>3, Gaps DEF TypeOK, BridgeTypeOK, Crossed
<1>3. ~empty_q => HeadCommand' = HeadCommand
  BY <1>1, <1>2, HeadQueues DEF HeadCommand, TypeOK, BridgeTypeOK
<1> QED BY <1>1, <1>2, <1>3 DEF HeadKept, memoryVars

LEMMA HostMemoryKept ==
  ASSUME TypeOK, PointersOrdered, GrantKept, AnswersOwned, ReadsCounted,
         NEW stb \in BOOLEAN, NEW c \in CpuRequests, HostClock(stb, c)
  PROVE  GrantKept' /\ AnswersOwned' /\ ReadsCounted'
<1>1. UNCHANGED <<memoryVars, fabricVars, memory, bus, memory_ready, video_stb>>
  BY HostCases
<1> QED BY <1>1 DEF memoryVars, fabricVars, GrantKept, AnswersOwned, ReadsCounted, Reading, Issued,
                    ReadOwner

\* a line that is read, or retained, stays as the host knows it,
LEMMA HostLineFilled ==
  ASSUME TypeOK, PointersOrdered, QueueKept, HeadKept, LineFilled,
         NEW stb \in BOOLEAN, NEW c \in CpuRequests, HostClock(stb, c)
  PROVE  LineFilled'
<1> SUFFICES ASSUME Reading'
             PROVE  /\ \A w \in WordIndex : w < returned_q' => LineHeld(w)'
                    /\ ReadOwner' => \A k \in DOMAIN bus' :
                                       bus'[k].cmd.addr = InLine(returned_q + k - 1)'
  BY DEF LineFilled
<1>1. /\ TakesStore(c) \/ TakesRead(c) \/ TakesHit(c) \/ TakesNothing
      /\ UNCHANGED <<memoryVars, fabricVars, memory, bus, memory_ready, video_stb>>
  BY HostCases
<1>2. Reading /\ ~Crossed
  BY <1>1, HostHeadKept DEF Reading, memoryVars
<1>3. read_wait_q
  <2>1. ~HeadCommand.we
    BY <1>2 DEF HeadKept, Reading
  <2> QED BY <1>2, <2>1, HeadQueues DEF QueueKept, HeadCommand, TypeOK, BridgeTypeOK
<1>4. line_address' = line_address /\ promised' = promised
  BY <1>1, <1>2, <1>3 DEF TakesStore, TakesRead, TakesHit, TakesNothing, Takes
<1> QED BY <1>1, <1>2, <1>4 DEF LineFilled, LineHeld, InLine, memoryVars, ReadOwner, fabricVars

LEMMA HostLineKept ==
  ASSUME TypeOK, PointersOrdered, QueueKept, LineKept,
         NEW stb \in BOOLEAN, NEW c \in CpuRequests, HostClock(stb, c)
  PROVE  LineKept'
<1>1. /\ TakesStore(c) \/ TakesRead(c) \/ TakesHit(c) \/ TakesNothing
      /\ UNCHANGED memoryVars
  BY HostCases
<1>2. producer_gray_q \in Pointer /\ NextGray(producer_gray_q) # producer_gray_q
  BY NextPlace DEF TypeOK, BridgeTypeOK
<1>3. CASE TakesStore(c) \/ TakesRead(c)
  <2>1. ~line_valid_q' /\ (read_wait_q' => TakesRead(c))
    BY <1>3 DEF TakesStore, TakesRead
  <2>2. TakesRead(c) => ~Crossed'
    BY <1>1, <1>2 DEF TakesRead, Crossed, memoryVars
  <2> QED BY <2>1, <2>2 DEF LineKept
<1>4. CASE TakesHit(c) \/ TakesNothing
  <2>1. /\ Crossed' <=> Crossed
        /\ \A w \in WordIndex : LineHeld(w)' <=> LineHeld(w)
    BY <1>1, <1>4 DEF TakesHit, TakesNothing, Crossed, memoryVars, LineHeld, InLine
  <2>2. LineReturned => Crossed /\ read_wait_q
    BY Ordered DEF LineReturned
  <2>3. /\ line_valid_q' => line_valid_q \/ (read_wait_q /\ Crossed)
        /\ line_valid_q' => Crossed
        /\ read_wait_q' => read_wait_q
    BY <1>4, <2>2 DEF TakesHit, TakesNothing, LineKept
  <2>4. line_valid_q' => Crossed'
    BY <2>1, <2>3
  <2>5. line_valid_q' \/ (read_wait_q' /\ Crossed') => \A w \in WordIndex : LineHeld(w)
    BY <2>1, <2>3 DEF LineKept
  <2> QED BY <2>1, <2>4, <2>5 DEF LineKept
<1> QED BY <1>1, <1>3, <1>4

\* and the CPU is owed the answer to what it waits for.
LEMMA HostCpuKept ==
  ASSUME TypeOK, PointersOrdered, QueueKept, LineKept, CpuKept,
         NEW stb \in BOOLEAN, NEW c \in CpuRequests, HostClock(stb, c)
  PROVE  CpuKept'
<1>1. TakesStore(c) \/ TakesRead(c) \/ TakesHit(c) \/ TakesNothing
  BY HostCases
<1>2. c \in Request /\ c # NoRequest
  BY PathAssumption
<1>3. CASE TakesStore(c)
  BY <1>2, <1>3 DEF TakesStore, Takes, CpuKept
<1>4. CASE TakesRead(c)
  BY <1>2, <1>4 DEF TakesRead, Takes, CpuKept
<1>5. CASE TakesHit(c)
  <2>1. LineHeld(c.addr.word) /\ c.addr = InLine(c.addr.word)
    BY <1>2, <1>5, Typed DEF TakesHit, LineKept, InLine
  <2> QED BY <1>2, <1>5, <2>1 DEF TakesHit, Takes, CpuKept, LineHeld
<1>6. CASE TakesNothing
  <2>1. LineReturned => /\ read_wait_q /\ LineHeld(line_address.word)
                        /\ line_address = InLine(line_address.word)
    <3>1. LineReturned => Crossed /\ read_wait_q
      BY Ordered DEF LineReturned
    <3>2. line_address.word \in WordIndex /\ line_address = InLine(line_address.word)
      BY DEF TypeOK, BridgeTypeOK, Addr, InLine
    <3> QED BY <3>1, <3>2 DEF LineKept
  <2>2. read_wait_q => waiting' = waiting /\ waiting.addr = line_address /\ waiting # NoRequest
                       /\ ~waiting.we
    BY <1>6 DEF TakesNothing, CpuKept
  <2>3. host_ack' => host_rdata' = promised'[waiting'.addr]
    BY <1>6, <2>1, <2>2 DEF TakesNothing, LineHeld
  <2> QED BY <1>6, <2>1, <2>2, <2>3 DEF TakesNothing, CpuKept
<1> QED BY <1>1, <1>3, <1>4, <1>5, <1>6

-----------------------------------------------------------------------------
(* Stores on their way. *)

\* A command behind the others,
LEMMA ShownAppend ==
  ASSUME NEW m, NEW q \in Seq(Request), NEW c \in Request, NEW a, NEW l, NEW v, Shown(m, q, a, l, v)
  PROVE  Shown(m, Append(q, c), a, l, IF Covers(c, a, l) THEN c.wdata[l] ELSE v)
<1> DEFINE r == Append(q, c)
           n == Len(q) + 1
<1>1. /\ Len(q) \in Nat /\ DOMAIN q = 1 .. Len(q) /\ DOMAIN r = 1 .. n
      /\ r[n] = c /\ \A k \in 1 .. Len(q) : r[k] = q[k]
  OBVIOUS
<1> HIDE DEF r
<1>2. CASE Covers(c, a, l)
  <2>1. Youngest(r, a, l, n)
    BY <1>1, <1>2 DEF Youngest
  <2> QED BY <1>1, <1>2, <2>1 DEF Shown, Youngest, r
<1>3. CASE ~Covers(c, a, l) /\ \A k \in DOMAIN q : ~Covers(q[k], a, l)
  <2>1. \A k \in DOMAIN r : ~Covers(r[k], a, l)
    BY <1>1, <1>3
  <2>2. v = m[a][l]
    BY <1>3 DEF Shown, Youngest
  <2> QED BY <1>3, <2>1, <2>2 DEF Shown, r
<1>4. CASE ~Covers(c, a, l) /\ ~\A k \in DOMAIN q : ~Covers(q[k], a, l)
  <2>1. PICK k \in DOMAIN q : Youngest(q, a, l, k) /\ v = q[k].wdata[l]
    BY <1>4 DEF Shown
  <2>2. k \in DOMAIN r /\ r[k] = q[k]
    BY <1>1
  <2>3. Youngest(r, a, l, k)
    <3> SUFFICES ASSUME NEW j \in DOMAIN r, Covers(r[j], a, l) PROVE j <= k
      BY <2>1, <2>2 DEF Youngest
    <3>1. j # n /\ j \in DOMAIN q /\ r[j] = q[j]
      BY <1>1, <1>4
    <3> QED BY <2>1, <3>1 DEF Youngest
  <2> QED BY <1>4, <2>1, <2>2, <2>3 DEF Shown, r
<1> QED BY <1>2, <1>3, <1>4

\* the first one that reaches memory,
LEMMA ShownTail ==
  ASSUME NEW m, NEW n, NEW q \in Seq(Request), q # <<>>, NEW a, NEW l, NEW v, Shown(m, q, a, l, v),
         n[a][l] = IF Covers(Head(q), a, l) THEN Head(q).wdata[l] ELSE m[a][l]
  PROVE  Shown(n, Tail(q), a, l, v)
<1> DEFINE r == Tail(q)
<1>1. /\ Len(q) \in Nat \ {0} /\ DOMAIN q = 1 .. Len(q) /\ DOMAIN r = 1 .. Len(q) - 1
      /\ Head(q) = q[1] /\ \A k \in 1 .. Len(q) - 1 : r[k] = q[k + 1]
  OBVIOUS
<1> HIDE DEF r
<1>2. CASE \A k \in DOMAIN q : ~Covers(q[k], a, l)
  <2>1. v = m[a][l] /\ n[a][l] = m[a][l]
    BY <1>1, <1>2 DEF Shown, Youngest
  <2>2. \A k \in DOMAIN r : ~Covers(r[k], a, l)
    <3> TAKE k \in DOMAIN r
    <3>1. k + 1 \in DOMAIN q /\ r[k] = q[k + 1]
      BY <1>1
    <3> QED BY <1>2, <3>1
  <2> QED BY <2>1, <2>2 DEF Shown, r
<1>3. CASE ~\A k \in DOMAIN q : ~Covers(q[k], a, l)
  <2>1. PICK k \in DOMAIN q : Youngest(q, a, l, k) /\ v = q[k].wdata[l]
    BY <1>3 DEF Shown
  <2>2. \A j \in DOMAIN r : j + 1 \in DOMAIN q /\ r[j] = q[j + 1]
    BY <1>1
  <2>3. CASE k = 1
    <3>1. n[a][l] = v
      BY <1>1, <2>1, <2>3 DEF Youngest
    <3>2. \A j \in DOMAIN r : ~Covers(r[j], a, l)
      <4> SUFFICES ASSUME NEW j \in DOMAIN r, Covers(r[j], a, l) PROVE FALSE
        OBVIOUS
      <4>1. j + 1 <= k
        BY <2>1, <2>2 DEF Youngest
      <4> QED BY <1>1, <2>3, <4>1
    <3> QED BY <3>1, <3>2 DEF Shown, r
  <2>4. CASE k # 1
    <3>1. k - 1 \in DOMAIN r /\ r[k - 1] = q[k]
      <4>1. k - 1 \in 1 .. Len(q) - 1 /\ (k - 1) + 1 = k
        BY <1>1, <2>4
      <4> QED BY <1>1, <4>1
    <3>2. Youngest(r, a, l, k - 1)
      <4> SUFFICES ASSUME NEW j \in DOMAIN r, Covers(r[j], a, l) PROVE j <= k - 1
        BY <2>1, <3>1 DEF Youngest
      <4>1. j + 1 <= k
        BY <2>1, <2>2 DEF Youngest
      <4> QED BY <1>1, <4>1
    <3> QED BY <2>1, <3>1, <3>2 DEF Shown, r
  <2> QED BY <2>3, <2>4
<1> QED BY <1>2, <1>3

\* and reads in front.
LEMMA ShownBeyond ==
  ASSUME NEW m, NEW p \in Seq(Request), NEW q \in Seq(Request), \A k \in DOMAIN p : ~p[k].we,
         NEW a, NEW l, NEW v
  PROVE  Shown(m, p \o q, a, l, v) <=> Shown(m, q, a, l, v)
<1> DEFINE r == p \o q
           n == Len(p)
<1>1. /\ n \in Nat /\ Len(q) \in Nat /\ DOMAIN p = 1 .. n /\ DOMAIN q = 1 .. Len(q)
      /\ DOMAIN r = 1 .. n + Len(q)
      /\ \A k \in 1 .. n : r[k] = p[k]
      /\ \A k \in 1 .. Len(q) : r[n + k] = q[k]
  OBVIOUS
<1> HIDE DEF r, n
<1>2. \A k \in 1 .. n : ~Covers(r[k], a, l)
  BY <1>1 DEF Covers
<1>3. \A k \in DOMAIN q : n + k \in DOMAIN r /\ r[n + k] = q[k]
  BY <1>1
<1>4. ASSUME NEW j \in DOMAIN r, Covers(r[j], a, l)
      PROVE  j - n \in DOMAIN q /\ r[j] = q[j - n]
  <2>1. j > n
    BY <1>1, <1>2, <1>4
  <2>2. j - n \in 1 .. Len(q) /\ n + (j - n) = j
    BY <1>1, <2>1
  <2> QED BY <1>1, <2>2
<1>5. ASSUME \A k \in DOMAIN q : ~Covers(q[k], a, l) PROVE \A k \in DOMAIN r : ~Covers(r[k], a, l)
  BY <1>4, <1>5
<1>6. ASSUME \A k \in DOMAIN r : ~Covers(r[k], a, l) PROVE \A k \in DOMAIN q : ~Covers(q[k], a, l)
  BY <1>3, <1>6
<1>7. ASSUME NEW k \in DOMAIN q, Youngest(q, a, l, k) PROVE Youngest(r, a, l, n + k)
  <2> SUFFICES ASSUME NEW j \in DOMAIN r, Covers(r[j], a, l) PROVE j <= n + k
    BY <1>3, <1>7 DEF Youngest
  <2>1. j - n <= k
    BY <1>4, <1>7 DEF Youngest
  <2> QED BY <1>1, <2>1
<1>8. ASSUME NEW k \in DOMAIN r, Youngest(r, a, l, k)
      PROVE  k - n \in DOMAIN q /\ r[k] = q[k - n] /\ Youngest(q, a, l, k - n)
  <2>1. k - n \in DOMAIN q /\ r[k] = q[k - n]
    BY <1>4, <1>8 DEF Youngest
  <2> SUFFICES ASSUME NEW j \in DOMAIN q, Covers(q[j], a, l) PROVE j <= k - n
    BY <1>8, <2>1 DEF Youngest
  <2>2. n + j <= k
    BY <1>3, <1>8 DEF Youngest
  <2> QED BY <1>1, <2>2
<1>9. Shown(m, r, a, l, v) => Shown(m, q, a, l, v)
  BY <1>6, <1>8 DEF Shown
<1>10. Shown(m, q, a, l, v) => Shown(m, r, a, l, v)
  BY <1>3, <1>5, <1>7 DEF Shown
<1> QED BY <1>9, <1>10 DEF r

LEMMA AheadGaps ==
  ASSUME NEW p \in Pointer, NEW n \in 0 .. 3
  PROVE  /\ Ahead(p, n) \in Pointer /\ Gap(p, Ahead(p, n)) = n
         /\ n < 3 => Ahead(NextGray(p), n) = Ahead(p, n + 1)
<1> DEFINE p1 == NextGray(p)
           p2 == NextGray(p1)
           p3 == NextGray(p2)
<1>1. p1 \in Pointer /\ p2 \in Pointer /\ p3 \in Pointer
  BY NextPlace
<1>2. Gap(p, p) = 0 /\ Gap(p, p1) = 1 /\ Gap(p, p2) = 2 /\ Gap(p, p3) = 3
  BY <1>1, Gaps
<1>3. Ahead(p, 0) = p /\ Ahead(p, 1) = p1 /\ Ahead(p, 2) = p2 /\ Ahead(p, 3) = p3
  BY DEF Ahead
<1>4. Ahead(p1, 0) = p1 /\ Ahead(p1, 1) = p2 /\ Ahead(p1, 2) = p3
  BY DEF Ahead
<1> HIDE DEF p1, p2, p3
<1>5. Ahead(p1, n) = Ahead(p, n + 1) \/ n = 3
  BY <1>3, <1>4
<1> QED BY <1>1, <1>2, <1>3, <1>5 DEF p1

LEMMA Element ==
  ASSUME NEW S, NEW q \in Seq(S), NEW k \in DOMAIN q
  PROVE  q[k] \in S
<1>1. k \in 1 .. Len(q)
  OBVIOUS
<1> QED BY <1>1

LEMMA CommandsLen ==
  ASSUME NEW q \in Seq(Command)
  PROVE  Commands(q) \in Seq(Request) /\ Len(Commands(q)) = Len(q)
<1>1. ASSUME NEW k \in DOMAIN q PROVE q[k].cmd \in Request
  <2>1. q[k] \in Command
    BY Element
  <2> QED BY <2>1 DEF Command
<1>2. Len(q) \in Nat /\ DOMAIN q = 1 .. Len(q)
  OBVIOUS
<1> QED BY <1>1, <1>2 DEF Commands

\* What is queued and owed, as sequences.
QueuedWell ==
  /\ Queued \in Seq(Request) /\ Len(Queued) = Gap(consumer_gray_q, producer_gray_q)
  /\ \A k \in 1 .. Len(Queued) : Queued[k] = entry[Ahead(consumer_gray_q, k - 1)]
  /\ Gap(consumer_gray_q, producer_gray_q) \in 0 .. 3
OwedWell ==
  /\ Owed \in Seq(Request) /\ Len(Owed) = Len(bus)
  /\ \A k \in 1 .. Len(bus) : Owed[k] = bus[k].cmd

LEMMA QueuedState == TypeOK /\ QueueKept => QueuedWell
<1> SUFFICES ASSUME TypeOK, QueueKept PROVE QueuedWell
  OBVIOUS
<1> DEFINE n == Gap(consumer_gray_q, producer_gray_q)
<1>1. consumer_gray_q \in Pointer /\ producer_gray_q \in Pointer /\ n \in 0 .. 3
  BY Gaps DEF TypeOK, BridgeTypeOK
<1>2. ASSUME NEW k \in 1 .. n PROVE entry[Ahead(consumer_gray_q, k - 1)] \in Request
  <2>1. k - 1 \in 0 .. 3 /\ k - 1 < n
    BY <1>1
  <2>2. Queues(Ahead(consumer_gray_q, k - 1)) /\ Ahead(consumer_gray_q, k - 1) \in Pointer
    BY <1>1, <2>1, AheadGaps DEF Queues
  <2> QED BY <2>2 DEF QueueKept
<1> HIDE DEF n
<1>3. Queued = [k \in 1 .. n |-> entry[Ahead(consumer_gray_q, k - 1)]]
  BY DEF Queued, n
<1>4. Queued \in Seq(Request) /\ Len(Queued) = n
  BY <1>1, <1>2, <1>3
<1> QED BY <1>1, <1>3, <1>4 DEF QueuedWell, n

LEMMA OwedState == TypeOK => OwedWell
<1> SUFFICES ASSUME TypeOK PROVE OwedWell
  OBVIOUS
<1>1. bus \in Seq(Command) /\ DOMAIN bus = 1 .. Len(bus)
  BY DEF TypeOK
<1>2. Owed \in Seq(Request) /\ Len(Owed) = Len(bus)
  BY <1>1, CommandsLen DEF Owed
<1> QED BY <1>1, <1>2 DEF Owed, Commands, OwedWell

LEMMA QueuedNow ==
  ASSUME TypeOK, QueueKept
  PROVE  QueuedWell /\ OwedWell
  BY QueuedState, OwedState

LEMMA QueuedThen ==
  ASSUME TypeOK', QueueKept'
  PROVE  QueuedWell' /\ OwedWell'
  BY QueuedState, OwedState, PTL

\* An accepted store comes last,
LEMMA QueuedNext ==
  ASSUME TypeOK, TypeOK', PointersOrdered, QueueKept, QueueKept', NEW stb \in BOOLEAN,
         NEW c \in CpuRequests, HostClock(stb, c)
  PROVE  /\ producer_gray_q' = producer_gray_q => Pending' = Pending
         /\ producer_gray_q' # producer_gray_q => Pending' = Append(Pending, c)
<1>1. /\ consumer_gray_q' = consumer_gray_q
      /\ \A p \in Pointer : Queues(p) => entry'[p] = entry[p]
      /\ UNCHANGED bus
  BY HostQueue, HostCases
<1>2. Owed' = Owed
  BY <1>1 DEF Owed, Commands
<1>3. consumer_gray_q \in Pointer /\ producer_gray_q \in Pointer /\ c \in Request
  BY PathAssumption DEF TypeOK, BridgeTypeOK
<1>4. ASSUME NEW k \in 1 .. Len(Queued)
      PROVE  entry'[Ahead(consumer_gray_q, k - 1)] = Queued[k]
  <2>1. k - 1 \in 0 .. 3 /\ k - 1 < Gap(consumer_gray_q, producer_gray_q)
    BY QueuedNow DEF QueuedWell, OwedWell
  <2>2. Queues(Ahead(consumer_gray_q, k - 1)) /\ Ahead(consumer_gray_q, k - 1) \in Pointer
    BY <1>3, <2>1, AheadGaps DEF Queues
  <2> QED BY <1>1, <2>2, QueuedNow DEF QueuedWell, OwedWell
<1>5. /\ Queued' \in Seq(Request) /\ Len(Queued') = Gap(consumer_gray_q, producer_gray_q)'
      /\ \A k \in 1 .. Len(Queued') : Queued'[k] = entry'[Ahead(consumer_gray_q, k - 1)]
  <2>1. /\ Queued' \in Seq(Request) /\ Len(Queued') = Gap(consumer_gray_q, producer_gray_q)'
        /\ \A k \in 1 .. Len(Queued') : Queued'[k] = entry'[Ahead(consumer_gray_q, k - 1)']
    BY QueuedThen DEF QueuedWell
  <2> QED BY <1>1, <2>1 DEF Ahead
<1>6. CASE producer_gray_q' = producer_gray_q
  <2>1. Len(Queued') = Len(Queued)
    BY <1>1, <1>5, <1>6, QueuedNow DEF QueuedWell, Gap, Place
  <2>2. Queued' = Queued
    BY <1>4, <1>5, <2>1, QueuedNow DEF QueuedWell, OwedWell
  <2> QED BY <1>2, <1>6, <2>2 DEF Pending
<1>7. CASE producer_gray_q' # producer_gray_q
  <2>1. Len(Queued') = Len(Queued) + 1 /\ entry'[producer_gray_q] = c
    BY <1>5, <1>7, HostQueue, QueuedNow DEF QueuedWell
  <2>2. Queued'[Len(Queued) + 1] = c
    <3>1. Len(Queued) \in 0 .. 3 /\ Len(Queued) = Gap(consumer_gray_q, producer_gray_q)
      BY QueuedNow DEF QueuedWell, OwedWell
    <3>2. Ahead(consumer_gray_q, Len(Queued)) = producer_gray_q
      BY <1>3, <3>1, AheadGaps, SameGap
    <3> QED BY <1>5, <2>1, <3>1, <3>2
  <2>3. Queued' = Append(Queued, c)
    <3>1. \A k \in 1 .. Len(Queued) : Queued'[k] = Queued[k]
      BY <1>4, <1>5, <2>1, QueuedNow DEF QueuedWell, OwedWell
    <3>2. Queued \in Seq(Request) /\ Queued' \in Seq(Request)
      BY <1>5, QueuedNow DEF QueuedWell, OwedWell
    <3> HIDE DEF Queued
    <3> QED BY <1>3, <2>1, <2>2, <3>1, <3>2
  <2>4. Owed \in Seq(Request) /\ Queued \in Seq(Request)
    BY QueuedNow DEF QueuedWell, OwedWell
  <2>5. Owed \o Append(Queued, c) = Append(Owed \o Queued, c)
    <3> HIDE DEF Owed, Queued
    <3> QED BY <1>3, <2>4
  <2> QED BY <1>2, <1>7, <2>3, <2>5 DEF Pending
<1> QED BY <1>6, <1>7

LEMMA HostStores ==
  ASSUME TypeOK, TypeOK', PointersOrdered, QueueKept, QueueKept', StoresPromised,
         NEW stb \in BOOLEAN, NEW c \in CpuRequests, HostClock(stb, c)
  PROVE  StoresPromised'
<1>1. /\ TakesStore(c) \/ TakesRead(c) \/ TakesHit(c) \/ TakesNothing
      /\ UNCHANGED memory
  BY HostCases
<1>2. c \in Request /\ NextGray(producer_gray_q) # producer_gray_q
  <2>1. producer_gray_q \in Pointer
    BY DEF TypeOK, BridgeTypeOK
  <2>2. NextGray(producer_gray_q) # producer_gray_q
    BY <2>1, NextPlace
  <2> QED BY <2>2, PathAssumption
<1>3. Pending \in Seq(Request)
  <2>1. Owed \in Seq(Request) /\ Queued \in Seq(Request)
    BY QueuedNow DEF QueuedWell, OwedWell
  <2> QED BY <2>1 DEF Pending
<1>4. CASE TakesStore(c) \/ TakesRead(c)
  <2>1. Pending' = Append(Pending, c)
    BY <1>2, <1>4, QueuedNext DEF TakesStore, TakesRead
  <2>2. ASSUME NEW a \in Addr, NEW l \in Lanes
        PROVE  promised'[a][l] = IF Covers(c, a, l) THEN c.wdata[l] ELSE promised[a][l]
    <3>1. CASE TakesRead(c)
      BY <3>1 DEF TakesRead, Covers
    <3>2. CASE TakesStore(c)
      <4>1. promised' = [promised EXCEPT ![c.addr] = Merge(@, c.sel, c.wdata)] /\ c.we
        BY <3>2 DEF TakesStore
      <4>2. promised \in [Addr -> Word]
        BY DEF TypeOK
      <4> QED BY <4>1, <4>2 DEF Merge, Covers
    <3> QED BY <1>4, <3>1, <3>2
  <2>3. ASSUME NEW a \in Addr, NEW l \in Lanes
        PROVE  Shown(memory, Append(Pending, c), a, l, promised'[a][l])
    <3>1. Shown(memory, Pending, a, l, promised[a][l])
      BY DEF StoresPromised
    <3> HIDE DEF Pending
    <3> QED BY <1>2, <1>3, <2>2, <3>1, ShownAppend
  <2> QED BY <1>1, <2>1, <2>3 DEF StoresPromised
<1>5. CASE TakesHit(c) \/ TakesNothing
  <2>1. Pending' = Pending /\ promised' = promised
    BY <1>5, QueuedNext DEF TakesHit, TakesNothing
  <2> QED BY <1>1, <2>1 DEF StoresPromised
<1> QED BY <1>1, <1>4, <1>5

-----------------------------------------------------------------------------
(* An edge of the memory's clock. *)

\* The bridge issues a command, which the controller takes, or gets a word of the line;
\* it is done with the head.
Issues(stall) == request_valid_q /\ grant = "CPU" /\ ~stall /\ (owner_write_q => head_write)
VideoTakes(stall) == video_stb /\ grant = "VIDEO" /\ ~stall
Returns(ack) == Reading /\ ReadOwner /\ ack
Completes(stall, ack) ==
  \/ Issues(stall) /\ head_write
  \/ Returns(ack) /\ returned_q = LastWord
Starts == grant = "IDLE" /\ memory_ready /\ (request_valid_q \/ video_stb)
Chooses == video_stb /\ (~request_valid_q \/ ~last_video_q)

LEMMA WordsCount ==
  /\ Words \in Nat \ {0} /\ WordIndex = 0 .. LastWord /\ LastWord = Words - 1 /\ 0 \in WordIndex
  /\ (LastWord = 0 <=> Words = 1)
  BY BridgeAssumption DEF WordIndex, LastWord

LEMMA Issuing ==
  ASSUME TypeOK, HeadKept, GrantKept, ReadsCounted, NEW stall \in BOOLEAN, Issues(stall)
  PROVE  /\ ~empty_q /\ (head_write <=> owner_write_q) /\ ~owner_video_q /\ ~issued_last_q
         /\ grant = "CPU" /\ ~stall /\ request_valid_q
         /\ head_write \/ (Reading /\ ReadOwner)
  BY DEF TypeOK, BridgeTypeOK, HeadKept, GrantKept, ReadsCounted, Issues, Reading, ReadOwner

LEMMA LastReturned ==
  ASSUME TypeOK, ReadsCounted
  PROVE  reply_last_q \/ LastWord = 0 <=> returned_q = LastWord
<1>1. returned_q \in 0 .. LastWord /\ (reply_last_q <=> returned_q = LastWord /\ Words > 1)
  BY WordsCount DEF TypeOK, BridgeTypeOK, ReadsCounted
<1> QED BY <1>1, WordsCount

LEMMA Completing ==
  ASSUME TypeOK, HeadKept, GrantKept, ReadsCounted, NEW stall \in BOOLEAN, NEW ack \in BOOLEAN,
         ack => bus # <<>>, Completes(stall, ack)
  PROVE  /\ ~empty_q /\ consumer_gray_q # producer_sync_q
         /\ head_write => Issues(stall) /\ owner_write_q
         /\ ~head_write => /\ Returns(ack) /\ returned_q = LastWord /\ Len(bus) = 1 /\ issued_q = 0
                           /\ issued_last_q /\ ~request_valid_q /\ ReadOwner /\ Reading /\ ack
<1>1. CASE Issues(stall) /\ head_write
  BY <1>1, Issuing DEF HeadKept
<1>2. CASE Returns(ack) /\ returned_q = LastWord
  <2>1. Reading /\ ReadOwner /\ ack /\ ~head_write /\ ~empty_q
    BY <1>2 DEF Returns, Reading
  <2>2. Len(bus) \in Nat \ {0}
    BY <2>1 DEF TypeOK
  <2>3. Len(bus) = Issued - LastWord
    BY <1>2, <2>1 DEF ReadsCounted
  <2>4. issued_q \in 0 .. LastWord /\ Words = LastWord + 1 /\ LastWord \in Nat
    BY WordsCount DEF TypeOK, BridgeTypeOK
  <2>5. issued_last_q /\ Len(bus) = 1
    BY <2>2, <2>3, <2>4 DEF Issued
  <2> QED BY <1>2, <2>1, <2>5 DEF ReadsCounted, HeadKept
<1> QED BY <1>1, <1>2 DEF Completes

\* What the wires between them carry.
LEMMA MemoryWires ==
  ASSUME TypeOK, HeadKept, GrantKept, ReadsCounted, NEW stall \in BOOLEAN, NEW ack \in BOOLEAN,
         ack => bus # <<>>, NEW f, f = FabricIO(stall, ack), NEW io, io = BridgeIO(f)
  PROVE  /\ (CpuAccept(f) <=> Issues(stall)) /\ (VideoAccept(f) <=> VideoTakes(stall))
         /\ (Start(f) <=> Starts) /\ (ChooseVideo(f) <=> Chooses)
         /\ (Issue(io) <=> Issues(stall))
         /\ (Reply(io) <=> Returns(ack) \/ (Issues(stall) /\ head_write))
         /\ (Complete(io) <=> Completes(stall, ack))
<1>1. /\ f.host = request_valid_q /\ f.host_we = head_write /\ f.video = video_stb
      /\ f.stall = stall /\ f.response = ack /\ f.ready = memory_ready
  BY DEF FabricIO, MemoryStb
<1>2. io.stall = HostWait(f) /\ io.ack = HostAck(f) /\ io.ready = memory_ready
  BY DEF BridgeIO
<1>3. CpuAccept(f) <=> Issues(stall)
  BY <1>1 DEF CpuAccept, HostWait, HostDirectionMatches, Issues
<1>4. VideoAccept(f) <=> VideoTakes(stall)
  BY <1>1 DEF VideoAccept, VideoStall, VideoTakes
<1>5. (Start(f) <=> Starts) /\ (ChooseVideo(f) <=> Chooses)
  BY <1>1 DEF Start, Starts, ChooseVideo, Chooses
<1>6. Issue(io) <=> Issues(stall)
  BY <1>1, <1>2, <1>3 DEF Issue, MemoryStb, CpuAccept
<1>7. Reply(io) <=> Returns(ack) \/ (Issues(stall) /\ head_write)
  <2>1. Reply(io) <=> ~empty_q /\ \/ request_valid_q /\ head_write /\ grant = "CPU" /\ ~stall
                                  \/ ack /\ ReadOwner
    BY <1>1, <1>2 DEF Reply, HostAck, ReadOwner
  <2>2. ack /\ ReadOwner => Reading
    <3> SUFFICES ASSUME ack, ReadOwner PROVE Reading
      OBVIOUS
    <3>1. Len(bus) \in Nat \ {0}
      BY DEF TypeOK
    <3> QED BY <3>1 DEF ReadsCounted
  <2>3. request_valid_q /\ head_write /\ grant = "CPU" /\ ~stall <=> Issues(stall) /\ head_write
    BY DEF Issues
  <2>4. Issues(stall) => ~empty_q
    BY Issuing
  <2>5. Reading => ~empty_q
    BY DEF Reading
  <2> QED BY <2>1, <2>2, <2>3, <2>4, <2>5 DEF Returns
<1>8. Complete(io) <=> Completes(stall, ack)
  <2>1. LastReply <=> head_write \/ returned_q = LastWord
    BY LastReturned DEF LastReply
  <2>2. Returns(ack) => ~head_write
    BY DEF Returns, Reading
  <2> QED BY <1>7, <2>1, <2>2 DEF Complete, Completes
<1> QED BY <1>3, <1>4, <1>5, <1>6, <1>7, <1>8

\* What an edge of that clock does: to the bridge,
BridgeMoves(stall, ack) ==
  /\ consumer_gray_q' = IF Completes(stall, ack) THEN NextGray(consumer_gray_q) ELSE consumer_gray_q
  /\ producer_sync_q' = producer_meta_q
  /\ empty_q' <=> \/ consumer_gray_q = producer_sync_q
                  \/ Completes(stall, ack) /\ NextGray(consumer_gray_q) = producer_sync_q
  /\ ~(empty_q \/ Completes(stall, ack)) => (head_write' <=> head_write)
  /\ empty_q \/ Completes(stall, ack) =>
       LET slot == IF empty_q THEN consumer_gray_q ELSE NextGray(consumer_gray_q)
       IN  entry[slot] # Garbage => head_write' = entry[slot].we
  /\ issued_q' = IF Issues(stall) /\ ~head_write THEN (issued_q + 1) % Words ELSE issued_q
  /\ issued_last_q' <=> /\ ~Completes(stall, ack)
                        /\ issued_last_q \/ (Issues(stall) /\ LastIssue)
  /\ request_valid_q' <=>
       /\ memory_ready
       /\ \/ Completes(stall, ack) /\ NextGray(consumer_gray_q) # producer_sync_q
          \/ ~(Issues(stall) /\ LastIssue) /\ ~issued_last_q /\ consumer_gray_q # producer_sync_q
  /\ returned_q' = IF Returns(ack) THEN (returned_q + 1) % Words ELSE returned_q
  /\ Returns(ack) => (reply_last_q' <=> returned_q # LastWord /\ returned_q = Words - 2)
  /\ Issues(stall) /\ head_write => ~reply_last_q'
  /\ ~Returns(ack) /\ ~(Issues(stall) /\ head_write) => (reply_last_q' <=> reply_last_q)
  /\ ~Reading => line_data' = line_data
  /\ Reading => line_data' = [line_data EXCEPT ![returned_q] = RData(ack)]
  /\ UNCHANGED hostVars

\* to the grant,
GrantMoves(stall, ack) ==
  /\ Starts =>
       /\ grant' = IF Chooses THEN "VIDEO" ELSE "CPU"
       /\ (owner_video_q' <=> Chooses) /\ (owner_write_q' <=> ~Chooses /\ head_write)
       /\ pending_q' = 0
  /\ ~Starts =>
       /\ (owner_video_q' <=> owner_video_q) /\ (owner_write_q' <=> owner_write_q)
       /\ pending_q' = (pending_q + (IF Issues(stall) \/ VideoTakes(stall) THEN 1 ELSE 0)
                                  + (IF ack THEN PendingModulus - 1 ELSE 0)) % PendingModulus
       /\ grant' \in {grant, "DRAIN", "IDLE"}
       /\ grant' = "IDLE" => grant = "IDLE" \/ (grant = "DRAIN" /\ pending_q = 0)
       /\ grant' = "CPU" => owner_write_q \/ request_valid_q

\* and to the controller.
BusMoves(stall, ack) ==
  \E a \in VideoAddrs :
    /\ bus' = (IF ack THEN Tail(bus) ELSE bus)
              \o (IF Issues(stall) THEN <<[from |-> "host", cmd |-> MemoryCmd]>>
                  ELSE IF VideoTakes(stall) THEN <<VideoRead(a)>> ELSE <<>>)
    /\ memory' = IF ack /\ bus[1].cmd.we
                 THEN [memory EXCEPT ![bus[1].cmd.addr] =
                         Merge(@, bus[1].cmd.sel, bus[1].cmd.wdata)]
                 ELSE memory

LEMMA MemoryMoves ==
  ASSUME TypeOK, HeadKept, GrantKept, ReadsCounted, NEW stall \in BOOLEAN, NEW ack \in BOOLEAN,
         MemoryClock(stall, ack)
  PROVE  /\ BridgeMoves(stall, ack) /\ GrantMoves(stall, ack) /\ BusMoves(stall, ack)
         /\ ack => bus # <<>>
         /\ Len(bus) = Capacity => stall
         /\ UNCHANGED <<waiting, got, promised>>
<1> DEFINE f == FabricIO(stall, ack)
           io == BridgeIO(f)
<1>1. /\ ack => bus # <<>>
      /\ ~memory_ready \/ Len(bus) = Capacity => stall
      /\ MemoryEdge(io) /\ FabricEdge(f)
      /\ \E a \in VideoAddrs : ControllerStep(f, a)
      /\ UNCHANGED <<waiting, got, promised>>
  BY DEF MemoryClock
<1>2. f = FabricIO(stall, ack) /\ io = BridgeIO(f)
  OBVIOUS
<1>3. /\ f.host = request_valid_q /\ f.host_we = head_write /\ f.video = video_stb
      /\ f.stall = stall /\ f.response = ack /\ f.ready = memory_ready
  BY DEF FabricIO, MemoryStb
<1>4. io.ready = memory_ready /\ io.rdata = RData(ack)
  BY DEF BridgeIO, FabricIO
<1> HIDE DEF f, io
<1>5. /\ (CpuAccept(f) <=> Issues(stall)) /\ (VideoAccept(f) <=> VideoTakes(stall))
      /\ (Start(f) <=> Starts) /\ (ChooseVideo(f) <=> Chooses)
      /\ (Issue(io) <=> Issues(stall))
      /\ (Reply(io) <=> Returns(ack) \/ (Issues(stall) /\ head_write))
      /\ (Complete(io) <=> Completes(stall, ack))
  BY <1>1, <1>2, MemoryWires
<1>6. BridgeMoves(stall, ack)
  <2>1. /\ consumer_gray_q' = IF Complete(io) THEN NextGray(consumer_gray_q) ELSE consumer_gray_q
        /\ producer_sync_q' = producer_meta_q
        /\ empty_q' = (NothingQueued \/ (Complete(io) /\ NothingNext))
        /\ UNCHANGED hostVars
    BY <1>1 DEF MemoryEdge, ReplyStep
  <2>2. ~(empty_q \/ Completes(stall, ack)) => (head_write' <=> head_write)
    BY <1>1, <1>5 DEF MemoryEdge, HeadStep
  <2>3. empty_q \/ Completes(stall, ack) =>
          LET slot == IF empty_q THEN consumer_gray_q ELSE NextGray(consumer_gray_q)
          IN  entry[slot] # Garbage => head_write' = entry[slot].we
    BY <1>1, <1>5 DEF MemoryEdge, HeadStep
  <2>4. /\ issued_q' = IF Issue(io) /\ ~head_write THEN (issued_q + 1) % Words ELSE issued_q
        /\ issued_last_q' = (~Complete(io) /\ (issued_last_q \/ (Issue(io) /\ LastIssue)))
        /\ request_valid_q' =
             (memory_ready /\ \/ Complete(io) /\ ~NothingNext
                              \/ ~(Issue(io) /\ LastIssue) /\ ~issued_last_q /\ ~NothingQueued)
    BY <1>1, <1>4 DEF MemoryEdge, IssueStep
  <2>5. Returns(ack) => ~head_write
    BY DEF Returns, Reading
  <2>6. /\ returned_q' = IF Reply(io) /\ ~head_write THEN (returned_q + 1) % Words ELSE returned_q
        /\ reply_last_q' = IF Reply(io) THEN ~LastReply /\ returned_q = Words - 2 ELSE reply_last_q
        /\ line_data' = IF ~empty_q /\ ~head_write THEN [line_data EXCEPT ![returned_q] = RData(ack)]
                        ELSE line_data
    BY <1>1, <1>4 DEF MemoryEdge, ReplyStep
  <2>7. LastReply <=> head_write \/ returned_q = LastWord
    BY LastReturned DEF LastReply
  <2>8. /\ Returns(ack) => (reply_last_q' <=> returned_q # LastWord /\ returned_q = Words - 2)
        /\ Issues(stall) /\ head_write => ~reply_last_q'
        /\ ~Returns(ack) /\ ~(Issues(stall) /\ head_write) => (reply_last_q' <=> reply_last_q)
    BY <1>5, <2>5, <2>6, <2>7
  <2>9. returned_q' = IF Returns(ack) THEN (returned_q + 1) % Words ELSE returned_q
    BY <1>5, <2>5, <2>6
  <2>10. /\ empty_q' <=> \/ consumer_gray_q = producer_sync_q
                         \/ Completes(stall, ack) /\ NextGray(consumer_gray_q) = producer_sync_q
         /\ issued_last_q' <=> /\ ~Completes(stall, ack)
                               /\ issued_last_q \/ (Issues(stall) /\ LastIssue)
         /\ request_valid_q' <=>
              /\ memory_ready
              /\ \/ Completes(stall, ack) /\ NextGray(consumer_gray_q) # producer_sync_q
                 \/ ~(Issues(stall) /\ LastIssue) /\ ~issued_last_q
                    /\ consumer_gray_q # producer_sync_q
    BY <1>5, <2>1, <2>4 DEF NothingQueued, NothingNext
  <2>11. (~Reading => line_data' = line_data)
         /\ (Reading => line_data' = [line_data EXCEPT ![returned_q] = RData(ack)])
    BY <2>6 DEF Reading
  <2> QED BY <1>5, <2>1, <2>2, <2>3, <2>4, <2>8, <2>9, <2>10, <2>11 DEF BridgeMoves
<1>7. GrantMoves(stall, ack)
  <2>1. GrantStep(f) /\ OwnerStep(f) /\ CountStep(f)
    BY <1>1 DEF FabricEdge
  <2>2. CASE Starts
    <3>1. grant' = IF Chooses THEN "VIDEO" ELSE "CPU"
      BY <1>5, <2>1, <2>2 DEF GrantStep, Starts
    <3>2. (owner_video_q' <=> Chooses) /\ (owner_write_q' <=> ~Chooses /\ head_write)
      BY <1>3, <1>5, <2>1, <2>2 DEF OwnerStep
    <3>3. pending_q' = 0
      BY <1>5, <2>1, <2>2 DEF CountStep
    <3> QED BY <2>2, <3>1, <3>2, <3>3 DEF GrantMoves
  <2>3. CASE ~Starts
    <3>1. (owner_video_q' <=> owner_video_q) /\ (owner_write_q' <=> owner_write_q)
      BY <1>5, <2>1, <2>3 DEF OwnerStep
    <3>2. pending_q' = (pending_q + (IF Issues(stall) \/ VideoTakes(stall) THEN 1 ELSE 0)
                                  + (IF ack THEN PendingModulus - 1 ELSE 0)) % PendingModulus
      BY <1>3, <1>5, <2>1, <2>3 DEF CountStep, Accept
    <3>3. grant' = CASE grant = "CPU" /\ FinishCpu(f) -> "DRAIN"
                     [] grant = "VIDEO" /\ FinishVideo(f) -> "DRAIN"
                     [] grant = "DRAIN" /\ pending_q = 0 -> "IDLE"
                     [] OTHER -> grant
      BY <1>5, <2>1, <2>3 DEF GrantStep
    <3>4. grant \in {"IDLE", "CPU", "VIDEO", "DRAIN"}
      BY DEF TypeOK, FabricTypeOK, Grants
    <3>5. /\ grant' \in {grant, "DRAIN", "IDLE"}
          /\ grant' = "IDLE" => grant = "IDLE" \/ (grant = "DRAIN" /\ pending_q = 0)
          /\ grant' = "CPU" => ~FinishCpu(f)
      BY <3>3, <3>4
    <3>6. ~FinishCpu(f) => owner_write_q \/ request_valid_q
      BY <1>3 DEF FinishCpu
    <3> QED BY <2>3, <3>1, <3>2, <3>5, <3>6 DEF GrantMoves
  <2> QED BY <2>2, <2>3
<1>8. BusMoves(stall, ack)
  <2>1. PICK a \in VideoAddrs : ControllerStep(f, a)
    BY <1>1
  <2>2. Taken(f, a) = IF Issues(stall) THEN <<[from |-> "host", cmd |-> MemoryCmd]>>
                      ELSE IF VideoTakes(stall) THEN <<VideoRead(a)>> ELSE <<>>
    BY <1>5 DEF Taken
  <2> QED BY <1>3, <2>1, <2>2 DEF ControllerStep, BusMoves
<1> QED BY <1>1, <1>6, <1>7, <1>8

\* What the memory side knows to be queued is.
LEMMA KnownQueued ==
  ASSUME TypeOK, PointersOrdered, QueueKept, consumer_gray_q # producer_sync_q
  PROVE  /\ Queues(consumer_gray_q) /\ HeadCommand \in Request /\ ~Crossed
         /\ consumer_gray_q # producer_meta_q
         /\ NextGray(consumer_gray_q) # producer_sync_q =>
              /\ Queues(NextGray(consumer_gray_q)) /\ entry[NextGray(consumer_gray_q)] \in Request
              /\ NextGray(consumer_gray_q) # producer_meta_q
<1> DEFINE c == consumer_gray_q
           n == NextGray(c)
           ps == producer_sync_q
           pm == producer_meta_q
           po == producer_old
           p == producer_gray_q
<1>1. c \in Pointer /\ n \in Pointer /\ ps \in Pointer /\ pm \in Pointer /\ po \in Pointer
      /\ p \in Pointer
  BY NextPlace DEF TypeOK, BridgeTypeOK
<1>2. c # ps
  OBVIOUS
<1>3. /\ Gap(c, p) = Gap(c, ps) + Gap(ps, pm) + Gap(pm, po) + Gap(po, p)
      /\ Gap(c, pm) = Gap(c, ps) + Gap(ps, pm)
  BY Ordered
<1>4. HeadCommand = entry[c]
  BY DEF HeadCommand
<1> SUFFICES /\ Queues(c) /\ c # p /\ c # pm
             /\ n # ps => Queues(n) /\ n # pm
  BY <1>1, <1>4 DEF QueueKept, Crossed
<1>5. \A q : Queues(q) <=> Gap(c, q) < Gap(c, p)
  BY DEF Queues
<1> HIDE DEF c, n, ps, pm, po, p
<1>6. /\ Gap(c, ps) \in 1 .. 3 /\ Gap(ps, pm) \in 0 .. 3 /\ Gap(pm, po) \in 0 .. 3
      /\ Gap(po, p) \in 0 .. 3 /\ Gap(c, c) = 0
  BY <1>1, <1>2, Gaps
<1>7. /\ Gap(c, p) \in Nat /\ Gap(c, p) >= Gap(c, ps)
      /\ Gap(c, pm) \in Nat /\ Gap(c, pm) >= Gap(c, ps)
  BY <1>3, <1>6
<1>8. Gap(c, n) = 1
  BY <1>1, <1>6, Gaps DEF n
<1>9. n # ps => Gap(c, ps) # 1
  BY <1>1, <1>8, SameGap
<1>10. Queues(c) /\ c # p /\ c # pm
  BY <1>5, <1>6, <1>7
<1>11. n # ps => Queues(n) /\ n # pm
  <2> SUFFICES ASSUME n # ps PROVE Queues(n) /\ n # pm
    OBVIOUS
  <2>1. Gap(c, p) > 1 /\ Gap(c, pm) > 1
    BY <1>6, <1>7, <1>9
  <2> QED BY <1>5, <1>8, <2>1
<1> QED BY <1>10, <1>11

LEMMA RequestKnown ==
  ASSUME NEW r \in Request
  PROVE  r # Garbage
<1>1. r.we \in BOOLEAN /\ Undef \notin BOOLEAN
  BY PathAssumption DEF Request
<1>2. Garbage.we = Undef
  BY DEF Garbage
<1> QED BY <1>1, <1>2

LEMMA HeadIssued ==
  ASSUME TypeOK, PointersOrdered, QueueKept, HeadKept, ~empty_q
  PROVE  /\ HeadCommand \in Request /\ ~Crossed
         /\ MemoryCmd \in Request /\ (MemoryCmd.we <=> head_write)
         /\ head_write => MemoryCmd = HeadCommand
         /\ ~head_write => /\ read_wait_q /\ HeadCommand.addr = line_address
                           /\ producer_gray_q = NextGray(consumer_gray_q) /\ ~HeadCommand.we
                           /\ MemoryCmd.addr = InLine(issued_q)
<1>1. HeadCommand \in Request /\ ~Crossed /\ Queues(consumer_gray_q)
  BY KnownQueued DEF HeadKept
<1>2. head_write = HeadCommand.we
  BY DEF HeadKept
<1>3. CASE head_write
  BY <1>1, <1>2, <1>3 DEF MemoryCmd
<1>4. CASE ~head_write
  <2>1. MemoryCmd = [HeadCommand EXCEPT !.addr.word = issued_q, !.we = FALSE, !.sel = Lanes]
    BY <1>4 DEF MemoryCmd
  <2>2. issued_q \in WordIndex
    BY DEF TypeOK, BridgeTypeOK
  <2>3. MemoryCmd \in Request /\ ~MemoryCmd.we /\ MemoryCmd.addr.line = HeadCommand.addr.line
        /\ MemoryCmd.addr = [line |-> HeadCommand.addr.line, word |-> issued_q]
    BY <1>1, <2>1, <2>2 DEF Request, Addr
  <2>4. read_wait_q
    BY <1>1, <1>2, <1>4 DEF QueueKept, HeadCommand, TypeOK, BridgeTypeOK
  <2>5. producer_gray_q = NextGray(consumer_gray_q) /\ ~HeadCommand.we
        /\ HeadCommand.addr = line_address
    BY <1>1, <2>4 DEF QueueKept
  <2> QED BY <1>1, <1>4, <2>3, <2>4, <2>5 DEF InLine
<1> QED BY <1>3, <1>4

LEMMA Wraps ==
  ASSUME NEW m \in Nat \ {0}, NEW n \in Nat
  PROVE  n % m \in 0 .. m - 1
  OBVIOUS

LEMMA Turn ==
  ASSUME NEW m \in Nat \ {0}, NEW n \in 0 .. m - 1
  PROVE  n % m = n /\ (n + m) % m = n
  OBVIOUS

LEMMA VideoTyped ==
  ASSUME NEW a \in VideoAddrs
  PROVE  VideoRead(a) \in Command
<1>1. (CHOOSE v \in Values : TRUE) \in Values /\ a \in Addr
  BY PathAssumption
<1>2. [l \in Lanes |-> CHOOSE v \in Values : TRUE] \in Word
  BY <1>1 DEF Word
<1>3. [addr |-> a, we |-> FALSE, sel |-> Lanes,
       wdata |-> [l \in Lanes |-> CHOOSE v \in Values : TRUE]] \in Request
  BY <1>1, <1>2 DEF Request
<1> QED BY <1>3 DEF VideoRead, Command

LEMMA MemoryTyped ==
  ASSUME TypeOK, PointersOrdered, QueueKept, HeadKept, GrantKept, AnswersOwned, ReadsCounted,
         NEW stall \in BOOLEAN, NEW ack \in BOOLEAN, MemoryClock(stall, ack)
  PROVE  TypeOK'
<1>1. /\ BridgeMoves(stall, ack) /\ GrantMoves(stall, ack) /\ BusMoves(stall, ack)
      /\ ack => bus # <<>>
      /\ UNCHANGED <<waiting, got, promised>>
  BY MemoryMoves
<1> DEFINE f == FabricIO(stall, ack)
           io == BridgeIO(f)
<1>2. MemoryEdge(io) /\ FabricEdge(f) /\ memory_ready' \in {memory_ready, TRUE}
      /\ video_stb' \in BOOLEAN
  BY DEF MemoryClock, ControllerStep
<1> HIDE DEF f, io
<1>3. bus \in Seq(Command) /\ (ack => bus[1] \in Command)
  <2>1. bus \in Seq(Command)
    BY DEF TypeOK
  <2>2. ack => 1 \in DOMAIN bus
    BY <1>1, <2>1
  <2> QED BY <2>1, <2>2, Element
<1>4. RData(ack) \in DataWord
  <2>1. CASE ack /\ ~bus[1].cmd.we
    <3>1. bus[1].cmd.addr \in Addr
      BY <1>3, <2>1 DEF Command, Request
    <3>2. memory[bus[1].cmd.addr] \in Word
      BY <3>1 DEF TypeOK
    <3> QED BY <2>1, <3>2 DEF RData, Word, DataWord
  <2>2. CASE ~(ack /\ ~bus[1].cmd.we)
    BY <2>2 DEF RData, UndefWord, DataWord
  <2> QED BY <2>1, <2>2
<1>5. line_data' \in [WordIndex -> DataWord]
  BY <1>1, <1>4 DEF BridgeMoves, TypeOK, BridgeTypeOK
<1>6. issued_q' \in WordIndex /\ returned_q' \in WordIndex
  <2>1. issued_q \in Nat /\ returned_q \in Nat /\ issued_q \in WordIndex /\ returned_q \in WordIndex
    BY WordsCount DEF TypeOK, BridgeTypeOK
  <2>2. (issued_q + 1) % Words \in WordIndex /\ (returned_q + 1) % Words \in WordIndex
    BY <2>1, WordsCount, Wraps
  <2> QED BY <1>1, <2>1, <2>2 DEF BridgeMoves
<1>7. consumer_gray_q' \in Pointer /\ producer_sync_q' \in Pointer
  <2>1. consumer_gray_q' = consumer_gray_q \/ consumer_gray_q' = NextGray(consumer_gray_q)
    BY <1>1 DEF BridgeMoves
  <2>2. producer_sync_q' = producer_meta_q
    BY <1>1 DEF BridgeMoves
  <2> QED BY <2>1, <2>2, NextPlace DEF TypeOK, BridgeTypeOK
<1>8. producer_meta_q' \in Pointer /\ producer_old' \in Pointer /\ consumer_old' \in Pointer
  BY <1>2 DEF MemoryEdge, Sampled, TypeOK, BridgeTypeOK
<1>9. empty_q' \in BOOLEAN /\ issued_last_q' \in BOOLEAN /\ request_valid_q' \in BOOLEAN
      /\ reply_last_q' \in BOOLEAN
  BY <1>2 DEF MemoryEdge, IssueStep, ReplyStep, TypeOK, BridgeTypeOK
<1>10. head_write' \in BOOLEAN
  <2>1. \A p \in Pointer : entry[p] # Garbage => entry[p].we \in BOOLEAN
    BY DEF TypeOK, BridgeTypeOK, Request
  <2>2. consumer_gray_q \in Pointer /\ NextGray(consumer_gray_q) \in Pointer
    BY NextPlace DEF TypeOK, BridgeTypeOK
  <2>3. head_write \in BOOLEAN
    BY DEF TypeOK, BridgeTypeOK
  <2> QED BY <1>2, <2>1, <2>2, <2>3 DEF MemoryEdge, HeadStep
<1>11. BridgeTypeOK'
  BY <1>1, <1>5, <1>6, <1>7, <1>8, <1>9, <1>10 DEF BridgeMoves, hostVars, TypeOK, BridgeTypeOK
<1>12. FabricTypeOK'
  <2>1. grant' \in Grants
    BY <1>1 DEF GrantMoves, TypeOK, FabricTypeOK, Grants
  <2>2. owner_video_q' \in BOOLEAN /\ owner_write_q' \in BOOLEAN /\ last_video_q' \in BOOLEAN
    BY <1>2 DEF FabricEdge, OwnerStep, ChooseVideo, FabricIO, f, TypeOK, BridgeTypeOK, FabricTypeOK
  <2>3. grant_issued_q' \in 0 .. ReadLimit - 1
    <3>1. grant_issued_q \in 0 .. ReadLimit - 1 /\ ReadLimit \in Nat \ {0}
      BY FabricAssumption DEF TypeOK, FabricTypeOK
    <3>2. (grant_issued_q + 1) % ReadLimit \in 0 .. ReadLimit - 1
      BY <3>1, Wraps
    <3>3. grant_issued_q' \in {0, (grant_issued_q + 1) % ReadLimit, grant_issued_q}
      BY <1>2 DEF FabricEdge, CountStep
    <3> QED BY <3>1, <3>2, <3>3
  <2>4. pending_q' \in 0 .. PendingModulus - 1
    <3>1. pending_q \in Nat /\ PendingModulus \in Nat \ {0}
      BY FabricAssumption DEF TypeOK, FabricTypeOK
    <3> DEFINE n == pending_q + (IF Issues(stall) \/ VideoTakes(stall) THEN 1 ELSE 0)
                              + (IF ack THEN PendingModulus - 1 ELSE 0)
    <3>2. n \in Nat
      BY <3>1
    <3>3. n % PendingModulus \in 0 .. PendingModulus - 1
      <4> HIDE DEF n
      <4> QED BY <3>1, <3>2, Wraps
    <3>4. pending_q' = 0 \/ pending_q' = n % PendingModulus
      BY <1>1 DEF GrantMoves
    <3> HIDE DEF n
    <3> QED BY <3>1, <3>3, <3>4
  <2> QED BY <2>1, <2>2, <2>3, <2>4 DEF FabricTypeOK
<1>13. memory' \in [Addr -> Word]
  <2>1. CASE ack /\ bus[1].cmd.we
    <3>1. bus[1].cmd \in Request
      BY <1>3, <2>1 DEF Command
    <3>2. memory \in [Addr -> Word] /\ memory[bus[1].cmd.addr] \in Word
      BY <3>1, Typed DEF TypeOK
    <3>3. Merge(memory[bus[1].cmd.addr], bus[1].cmd.sel, bus[1].cmd.wdata) \in Word
      BY <3>1, <3>2, Typed, MergeTyped
    <3>4. memory' = [memory EXCEPT ![bus[1].cmd.addr] =
                       Merge(memory[bus[1].cmd.addr], bus[1].cmd.sel, bus[1].cmd.wdata)]
      BY <1>1, <2>1 DEF BusMoves
    <3> QED BY <3>2, <3>3, <3>4
  <2>2. CASE ~(ack /\ bus[1].cmd.we)
    BY <1>1, <2>2 DEF BusMoves, TypeOK
  <2> QED BY <2>1, <2>2
<1>14. bus' \in Seq(Command)
  <2>1. (IF ack THEN Tail(bus) ELSE bus) \in Seq(Command)
    BY <1>1, <1>3
  <2>2. Issues(stall) => [from |-> "host", cmd |-> MemoryCmd] \in Command
    <3>1. Issues(stall) => MemoryCmd \in Request
      BY Issuing, HeadIssued
    <3> QED BY <3>1 DEF Command
  <2>3. \A a \in VideoAddrs : VideoRead(a) \in Command
    BY VideoTyped
  <2>4. PICK a \in VideoAddrs :
          bus' = (IF ack THEN Tail(bus) ELSE bus)
                 \o (IF Issues(stall) THEN <<[from |-> "host", cmd |-> MemoryCmd]>>
                     ELSE IF VideoTakes(stall) THEN <<VideoRead(a)>> ELSE <<>>)
    BY <1>1 DEF BusMoves
  <2>5. (IF Issues(stall) THEN <<[from |-> "host", cmd |-> MemoryCmd]>>
         ELSE IF VideoTakes(stall) THEN <<VideoRead(a)>> ELSE <<>>) \in Seq(Command)
    BY <2>2, <2>3
  <2> QED BY <2>1, <2>4, <2>5
<1> QED BY <1>1, <1>2, <1>11, <1>12, <1>13, <1>14 DEF TypeOK

\* The head leaves the queue when the bridge is done with it,
LEMMA MemoryQueue ==
  ASSUME TypeOK, PointersOrdered, QueueKept, HeadKept, GrantKept, ReadsCounted,
         NEW stall \in BOOLEAN, NEW ack \in BOOLEAN, MemoryClock(stall, ack)
  PROVE  /\ producer_gray_q' = producer_gray_q /\ entry' = entry
         /\ ~Completes(stall, ack) => consumer_gray_q' = consumer_gray_q
         /\ Completes(stall, ack) =>
              /\ consumer_gray_q' = NextGray(consumer_gray_q) /\ ~Crossed
              /\ Gap(consumer_gray_q, producer_gray_q) \in 1 .. 3
              /\ Gap(consumer_gray_q, producer_gray_q)' = Gap(consumer_gray_q, producer_gray_q) - 1
         /\ \A p \in Pointer : Queues(p)' => Queues(p)
<1>1. BridgeMoves(stall, ack) /\ (ack => bus # <<>>)
  BY MemoryMoves
<1>2. producer_gray_q' = producer_gray_q /\ entry' = entry
      /\ consumer_gray_q' = IF Completes(stall, ack) THEN NextGray(consumer_gray_q)
                            ELSE consumer_gray_q
  BY <1>1 DEF BridgeMoves, hostVars
<1>3. consumer_gray_q \in Pointer /\ producer_gray_q \in Pointer
  BY DEF TypeOK, BridgeTypeOK
<1>4. CASE ~Completes(stall, ack)
  BY <1>2, <1>4 DEF Queues, Gap, Place
<1>5. CASE Completes(stall, ack)
  <2>1. ~Crossed
    BY <1>1, <1>5, Completing, KnownQueued
  <2>2. Gap(consumer_gray_q, producer_gray_q) \in 1 .. 3
    BY <1>3, <2>1, Gaps DEF Crossed
  <2>3. \A p : Gap(consumer_gray_q, p)' = Gap(NextGray(consumer_gray_q), p')
    BY <1>2, <1>5 DEF Gap, Place
  <2>4. Gap(consumer_gray_q, producer_gray_q)' = Gap(consumer_gray_q, producer_gray_q) - 1
    <3>1. Gap(NextGray(consumer_gray_q), producer_gray_q)
            = Gap(consumer_gray_q, producer_gray_q) - 1
      BY <1>3, <2>2, Gaps
    <3>2. Gap(consumer_gray_q, producer_gray_q)' = Gap(NextGray(consumer_gray_q), producer_gray_q)
      BY <1>2, <1>5 DEF Gap, Place
    <3> QED BY <3>1, <3>2
  <2>5. ASSUME NEW p \in Pointer, Queues(p)' PROVE Queues(p)
    <3>1. Gap(consumer_gray_q, p)' = Gap(NextGray(consumer_gray_q), p)
      BY <1>2, <1>5 DEF Gap, Place
    <3>2. Gap(consumer_gray_q, p)' < Gap(consumer_gray_q, producer_gray_q)'
      BY <2>5 DEF Queues
    <3>3. Gap(NextGray(consumer_gray_q), p)
            = IF Gap(consumer_gray_q, p) = 0 THEN 3 ELSE Gap(consumer_gray_q, p) - 1
      BY <1>3, Gaps
    <3>4. Gap(consumer_gray_q, p) \in 0 .. 3
      BY <1>3, Gaps
    <3> QED BY <2>2, <2>4, <3>1, <3>2, <3>3, <3>4 DEF Queues
  <2> QED BY <1>2, <1>5, <2>1, <2>2, <2>4, <2>5
<1> QED BY <1>4, <1>5

LEMMA MemoryQueueKept ==
  ASSUME TypeOK, PointersOrdered, QueueKept, HeadKept, GrantKept, ReadsCounted,
         NEW stall \in BOOLEAN, NEW ack \in BOOLEAN, MemoryClock(stall, ack)
  PROVE  QueueKept'
<1>1. /\ producer_gray_q' = producer_gray_q /\ entry' = entry
      /\ ~Completes(stall, ack) => consumer_gray_q' = consumer_gray_q
      /\ Completes(stall, ack) => consumer_gray_q' = NextGray(consumer_gray_q) /\ ~Crossed
      /\ \A p \in Pointer : Queues(p)' => Queues(p)
  BY MemoryQueue
<1>2. read_wait_q' = read_wait_q /\ line_address' = line_address
  BY MemoryMoves DEF BridgeMoves, hostVars
<1>3. ASSUME NEW p \in Pointer, Queues(p)'
      PROVE  entry'[p] \in Request /\ (entry'[p].we \/ read_wait_q')
  BY <1>1, <1>2, <1>3 DEF QueueKept
<1>4. ASSUME read_wait_q', ~Crossed'
      PROVE  /\ producer_gray_q' = NextGray(consumer_gray_q')
             /\ ~HeadCommand'.we /\ HeadCommand'.addr = line_address'
  <2>1. ~Completes(stall, ack)
    BY <1>1, <1>2, <1>4 DEF QueueKept, Crossed
  <2> QED BY <1>1, <1>2, <1>4, <2>1 DEF QueueKept, Crossed, HeadCommand
<1> QED BY <1>3, <1>4 DEF QueueKept

\* and the one behind it becomes the head.
LEMMA MemoryHeadKept ==
  ASSUME TypeOK, TypeOK', PointersOrdered, QueueKept, HeadKept, GrantKept, ReadsCounted,
         NEW stall \in BOOLEAN, NEW ack \in BOOLEAN, MemoryClock(stall, ack)
  PROVE  HeadKept'
<1>1. BridgeMoves(stall, ack) /\ (ack => bus # <<>>)
  BY MemoryMoves
<1>2. /\ producer_gray_q' = producer_gray_q /\ entry' = entry
      /\ ~Completes(stall, ack) => consumer_gray_q' = consumer_gray_q
      /\ Completes(stall, ack) => consumer_gray_q' = NextGray(consumer_gray_q) /\ ~Crossed
  BY MemoryQueue
<1>3. /\ producer_sync_q' = producer_meta_q
      /\ empty_q' <=> \/ consumer_gray_q = producer_sync_q
                      \/ Completes(stall, ack) /\ NextGray(consumer_gray_q) = producer_sync_q
  BY <1>1 DEF BridgeMoves
<1>4. Completes(stall, ack) => ~empty_q /\ consumer_gray_q # producer_sync_q
  BY <1>1, Completing
<1>5. ASSUME ~empty_q'
      PROVE  consumer_gray_q' # producer_sync_q' /\ head_write' = HeadCommand'.we
  <2>1. consumer_gray_q # producer_sync_q
    BY <1>3, <1>5
  <2>2. Completes(stall, ack) => NextGray(consumer_gray_q) # producer_sync_q
    BY <1>3, <1>5
  <2>3. consumer_gray_q' # producer_sync_q'
    BY <1>2, <1>3, <2>1, <2>2, KnownQueued
  <2>4. CASE ~(empty_q \/ Completes(stall, ack))
    <3>1. head_write' <=> head_write
      BY <1>1, <2>4 DEF BridgeMoves
    <3>2. HeadCommand' = HeadCommand
      BY <1>2, <2>4 DEF HeadCommand
    <3>3. head_write = HeadCommand.we /\ head_write \in BOOLEAN
      BY <2>4 DEF HeadKept, TypeOK, BridgeTypeOK
    <3>4. head_write' \in BOOLEAN
      BY DEF TypeOK, BridgeTypeOK
    <3> QED BY <2>3, <3>1, <3>2, <3>3, <3>4
  <2>5. CASE empty_q
    <3>1. entry[consumer_gray_q] \in Request
      BY <2>1, KnownQueued DEF HeadCommand
    <3>2. entry[consumer_gray_q] # Garbage
      BY <3>1, RequestKnown
    <3>3. head_write' = entry[consumer_gray_q].we
      BY <1>1, <2>5, <3>2 DEF BridgeMoves
    <3> QED BY <1>2, <1>4, <2>3, <2>5, <3>3 DEF HeadCommand
  <2>6. CASE Completes(stall, ack)
    <3>1. entry[NextGray(consumer_gray_q)] \in Request
      BY <2>1, <2>2, <2>6, KnownQueued
    <3>2. entry[NextGray(consumer_gray_q)] # Garbage
      BY <3>1, RequestKnown
    <3>3. head_write' = entry[NextGray(consumer_gray_q)].we
      BY <1>1, <1>4, <2>6, <3>2 DEF BridgeMoves
    <3> QED BY <1>2, <2>3, <2>6, <3>3 DEF HeadCommand
  <2> QED BY <2>4, <2>5, <2>6
<1>6. ASSUME request_valid_q' PROVE ~empty_q'
  <2>1. \/ Completes(stall, ack) /\ NextGray(consumer_gray_q) # producer_sync_q
        \/ ~(Issues(stall) /\ LastIssue) /\ ~issued_last_q /\ consumer_gray_q # producer_sync_q
    BY <1>1, <1>6 DEF BridgeMoves
  <2>2. Completes(stall, ack) => issued_last_q \/ (Issues(stall) /\ LastIssue)
    <3>1. Completes(stall, ack) /\ head_write => Issues(stall)
      BY <1>1, Completing
    <3>2. Completes(stall, ack) /\ ~head_write => issued_last_q
      BY <1>1, Completing
    <3> QED BY <3>1, <3>2 DEF LastIssue
  <2> QED BY <1>3, <1>4, <2>1, <2>2
<1> QED BY <1>5, <1>6 DEF HeadKept

\* What is in the controller afterwards.
LEMMA BusNext ==
  ASSUME TypeOK, PointersOrdered, QueueKept, HeadKept, GrantKept, ReadsCounted,
         NEW stall \in BOOLEAN, NEW ack \in BOOLEAN, MemoryClock(stall, ack)
  PROVE  \E old, new \in Seq(Command) :
           /\ bus' = old \o new
           /\ old = IF ack THEN Tail(bus) ELSE bus
           /\ Len(old) = Len(bus) - (IF ack THEN 1 ELSE 0)
           /\ \A k \in DOMAIN old : (IF ack THEN k + 1 ELSE k) \in DOMAIN bus
                                    /\ old[k] = bus[IF ack THEN k + 1 ELSE k]
           /\ Issues(stall) => new = <<[from |-> "host", cmd |-> MemoryCmd]>>
           /\ ~Issues(stall) /\ VideoTakes(stall) => \E a \in VideoAddrs : new = <<VideoRead(a)>>
           /\ ~Issues(stall) /\ ~VideoTakes(stall) => new = <<>>
<1>1. BusMoves(stall, ack) /\ (ack => bus # <<>>) /\ bus \in Seq(Command)
  BY MemoryMoves DEF TypeOK
<1>2. PICK a \in VideoAddrs :
        bus' = (IF ack THEN Tail(bus) ELSE bus)
               \o (IF Issues(stall) THEN <<[from |-> "host", cmd |-> MemoryCmd]>>
                   ELSE IF VideoTakes(stall) THEN <<VideoRead(a)>> ELSE <<>>)
  BY <1>1 DEF BusMoves
<1> DEFINE old == IF ack THEN Tail(bus) ELSE bus
           new == IF Issues(stall) THEN <<[from |-> "host", cmd |-> MemoryCmd]>>
                  ELSE IF VideoTakes(stall) THEN <<VideoRead(a)>> ELSE <<>>
<1>3. old \in Seq(Command) /\ Len(old) = Len(bus) - (IF ack THEN 1 ELSE 0)
  BY <1>1
<1>4. \A k \in DOMAIN old : (IF ack THEN k + 1 ELSE k) \in DOMAIN bus
                            /\ old[k] = bus[IF ack THEN k + 1 ELSE k]
  <2>1. CASE ack
    <3>1. \A k \in 1 .. Len(bus) - 1 : k + 1 \in 1 .. Len(bus) /\ Tail(bus)[k] = bus[k + 1]
      BY <1>1, <2>1
    <3> QED BY <1>1, <2>1, <3>1
  <2>2. CASE ~ack
    BY <1>1, <2>2
  <2> QED BY <2>1, <2>2
<1>5. new \in Seq(Command)
  <2>1. Issues(stall) => [from |-> "host", cmd |-> MemoryCmd] \in Command
    <3>1. Issues(stall) => MemoryCmd \in Request
      BY Issuing, HeadIssued
    <3> QED BY <3>1 DEF Command
  <2>2. VideoRead(a) \in Command
    BY VideoTyped
  <2> QED BY <2>1, <2>2
<1>6. /\ Issues(stall) => new = <<[from |-> "host", cmd |-> MemoryCmd]>>
      /\ ~Issues(stall) /\ VideoTakes(stall) => new = <<VideoRead(a)>>
      /\ ~Issues(stall) /\ ~VideoTakes(stall) => new = <<>>
  OBVIOUS
<1>7. bus' = old \o new /\ old = IF ack THEN Tail(bus) ELSE bus
  BY <1>2
<1> HIDE DEF old, new
<1> QED BY <1>3, <1>4, <1>5, <1>6, <1>7

\* The grant keeps to one master and direction, and ends empty.
LEMMA MemoryGrantKept ==
  ASSUME TypeOK, TypeOK', PointersOrdered, QueueKept, HeadKept, GrantKept, AnswersOwned,
         ReadsCounted, NEW stall \in BOOLEAN, NEW ack \in BOOLEAN, MemoryClock(stall, ack)
  PROVE  GrantKept'
<1>1. /\ BridgeMoves(stall, ack) /\ GrantMoves(stall, ack) /\ (ack => bus # <<>>)
      /\ Len(bus) = Capacity => stall
  BY MemoryMoves
<1>2. PICK old, new \in Seq(Command) :
        /\ bus' = old \o new
        /\ old = IF ack THEN Tail(bus) ELSE bus
        /\ Len(old) = Len(bus) - (IF ack THEN 1 ELSE 0)
        /\ Issues(stall) => new = <<[from |-> "host", cmd |-> MemoryCmd]>>
        /\ ~Issues(stall) /\ VideoTakes(stall) => \E a \in VideoAddrs : new = <<VideoRead(a)>>
        /\ ~Issues(stall) /\ ~VideoTakes(stall) => new = <<>>
  BY BusNext
<1>3. /\ Len(new) = IF Issues(stall) \/ VideoTakes(stall) THEN 1 ELSE 0
      /\ Len(bus') = Len(old) + Len(new)
  BY <1>2
<1>4. bus \in Seq(Command) /\ Len(bus) \in Nat /\ Capacity \in Nat
  BY PathAssumption DEF TypeOK
<1>5. Issues(stall) \/ VideoTakes(stall) => ~stall /\ grant \in {"CPU", "VIDEO"}
  BY DEF Issues, VideoTakes
<1>6. Len(bus') <= Capacity
  BY <1>1, <1>2, <1>3, <1>4, <1>5 DEF GrantKept
<1>7. Len(bus) = 0 /\ grant \notin {"CPU", "VIDEO"} => bus' = <<>>
  BY <1>1, <1>2, <1>4, <1>5
<1>8. ASSUME grant' = "IDLE" PROVE bus' = <<>>
  <2>1. ~Starts
    BY <1>1, <1>8 DEF GrantMoves
  <2>2. grant = "IDLE" \/ (grant = "DRAIN" /\ pending_q = 0)
    BY <1>1, <1>8, <2>1 DEF GrantMoves
  <2>3. Len(bus) = 0
    BY <1>4, <2>2 DEF GrantKept, AnswersOwned
  <2> QED BY <1>7, <2>2, <2>3
<1>9. CASE Starts
  <2>1. /\ grant' = IF Chooses THEN "VIDEO" ELSE "CPU"
        /\ (owner_video_q' <=> Chooses) /\ (owner_write_q' <=> ~Chooses /\ head_write)
    BY <1>1, <1>9 DEF GrantMoves
  <2>2. ASSUME ~Chooses, ~owner_write_q', request_valid_q' PROVE ~head_write'
    <3>1. grant = "IDLE" /\ request_valid_q /\ ~head_write
      BY <1>9, <2>1, <2>2 DEF Starts, Chooses
    <3>2. ~empty_q
      BY <3>1 DEF HeadKept
    <3>3. ~Completes(stall, ack)
      BY <1>1, <1>4, <3>1 DEF Completes, Issues, Returns, GrantKept
    <3>4. head_write' <=> head_write
      BY <1>1, <3>2, <3>3 DEF BridgeMoves
    <3> QED BY <3>1, <3>4
  <2> QED BY <1>6, <1>8, <2>1, <2>2 DEF GrantKept
<1>10. CASE ~Starts
  <2>1. /\ (owner_video_q' <=> owner_video_q) /\ (owner_write_q' <=> owner_write_q)
        /\ grant' \in {grant, "DRAIN", "IDLE"}
        /\ grant' = "CPU" => owner_write_q \/ request_valid_q
    BY <1>1, <1>10 DEF GrantMoves
  <2>2. ASSUME grant' = "CPU", ~owner_write_q', request_valid_q' PROVE ~head_write'
    <3>1. grant = "CPU" /\ ~owner_write_q /\ request_valid_q
      BY <2>1, <2>2
    <3>2. ~head_write /\ ~empty_q
      BY <3>1 DEF GrantKept, HeadKept
    <3>3. ~Completes(stall, ack)
      BY <1>1, <3>1, <3>2, Completing
    <3>4. head_write' <=> head_write
      BY <1>1, <3>2, <3>3 DEF BridgeMoves
    <3> QED BY <3>2, <3>4
  <2> QED BY <1>6, <1>8, <2>1, <2>2 DEF GrantKept
<1> QED BY <1>9, <1>10

\* What is in the controller is the grant's, and counted.
LEMMA MemoryAnswersOwned ==
  ASSUME TypeOK, PointersOrdered, QueueKept, HeadKept, GrantKept, AnswersOwned,
         ReadsCounted, NEW stall \in BOOLEAN, NEW ack \in BOOLEAN, MemoryClock(stall, ack)
  PROVE  AnswersOwned'
<1>1. GrantMoves(stall, ack) /\ (ack => bus # <<>>) /\ (Len(bus) = Capacity => stall)
  BY MemoryMoves
<1>2. PICK old, new \in Seq(Command) :
        /\ bus' = old \o new
        /\ Len(old) = Len(bus) - (IF ack THEN 1 ELSE 0)
        /\ \A k \in DOMAIN old : (IF ack THEN k + 1 ELSE k) \in DOMAIN bus
                                 /\ old[k] = bus[IF ack THEN k + 1 ELSE k]
        /\ Issues(stall) => new = <<[from |-> "host", cmd |-> MemoryCmd]>>
        /\ ~Issues(stall) /\ VideoTakes(stall) => \E a \in VideoAddrs : new = <<VideoRead(a)>>
        /\ ~Issues(stall) /\ ~VideoTakes(stall) => new = <<>>
  BY BusNext
<1>3. /\ Len(new) = IF Issues(stall) \/ VideoTakes(stall) THEN 1 ELSE 0
      /\ Len(bus') = Len(old) + Len(new) /\ Len(bus') \in Nat
  <2>1. Len(new) = IF Issues(stall) \/ VideoTakes(stall) THEN 1 ELSE 0
    BY <1>2
  <2>2. Len(bus') = Len(old) + Len(new) /\ Len(bus') \in Nat
    BY <1>2
  <2> QED BY <2>1, <2>2
<1>4. bus \in Seq(Command) /\ Len(bus) \in Nat /\ Capacity \in Nat /\ Capacity < PendingModulus
      /\ PendingModulus \in Nat /\ Len(bus) = pending_q /\ Len(bus) <= Capacity
      /\ (ack => Len(bus) # 0)
  BY <1>1, PathAssumption, FabricAssumption DEF TypeOK, AnswersOwned, GrantKept
<1>5. Issues(stall) \/ VideoTakes(stall) => ~stall /\ grant \in {"CPU", "VIDEO"}
  BY DEF Issues, VideoTakes
<1>6. CASE Starts
  <2>1. bus = <<>> /\ grant = "IDLE" /\ pending_q' = 0
    BY <1>1, <1>6 DEF Starts, GrantKept, GrantMoves
  <2>2. Len(old) = 0 /\ Len(new) = 0
    BY <1>1, <1>2, <1>3, <1>5, <2>1
  <2>3. bus' = <<>>
    BY <1>2, <2>2
  <2> QED BY <2>1, <2>3 DEF AnswersOwned
<1>7. CASE ~Starts
  <2>1. /\ (owner_video_q' <=> owner_video_q) /\ (owner_write_q' <=> owner_write_q)
        /\ pending_q' = (pending_q + (IF Issues(stall) \/ VideoTakes(stall) THEN 1 ELSE 0)
                                   + (IF ack THEN PendingModulus - 1 ELSE 0)) % PendingModulus
    BY <1>1, <1>7 DEF GrantMoves
  <2>2. Len(bus') = pending_q'
    <3>1. Len(bus') \in 0 .. PendingModulus - 1
      BY <1>1, <1>2, <1>3, <1>4, <1>5
    <3>2. pending_q + (IF Issues(stall) \/ VideoTakes(stall) THEN 1 ELSE 0)
                    + (IF ack THEN PendingModulus - 1 ELSE 0)
          \in {Len(bus'), Len(bus') + PendingModulus}
      BY <1>2, <1>3, <1>4
    <3>3. pending_q' = Len(bus') % PendingModulus
          \/ pending_q' = (Len(bus') + PendingModulus) % PendingModulus
      BY <2>1, <3>2
    <3> QED BY <1>4, <3>1, <3>3, Turn
  <2>3. ASSUME NEW k \in DOMAIN new
        PROVE  new[k].from = (IF owner_video_q THEN "video" ELSE "host")
               /\ new[k].cmd.we = owner_write_q
    <3>1. CASE Issues(stall)
      <4>1. new = <<[from |-> "host", cmd |-> MemoryCmd]>> /\ ~owner_video_q
            /\ (head_write <=> owner_write_q) /\ ~empty_q
        BY <1>2, <3>1, Issuing
      <4>2. MemoryCmd.we <=> owner_write_q
        BY <4>1, HeadIssued
      <4>3. MemoryCmd.we \in BOOLEAN /\ owner_write_q \in BOOLEAN
        <5>1. MemoryCmd \in Request
          BY <4>1, HeadIssued
        <5> QED BY <5>1 DEF Request, TypeOK, FabricTypeOK
      <4>4. k = 1 /\ new[k] = [from |-> "host", cmd |-> MemoryCmd]
        BY <4>1, <2>3
      <4> QED BY <4>1, <4>2, <4>3, <4>4
    <3>2. CASE ~Issues(stall) /\ VideoTakes(stall)
      <4>1. PICK a \in VideoAddrs : new = <<VideoRead(a)>>
        BY <1>2, <3>2
      <4>2. owner_video_q /\ ~owner_write_q /\ owner_write_q \in BOOLEAN
        BY <3>2 DEF VideoTakes, GrantKept, TypeOK, FabricTypeOK
      <4>3. VideoRead(a).from = "video" /\ VideoRead(a).cmd.we = FALSE
        BY DEF VideoRead
      <4>4. new[k] = VideoRead(a)
        BY <2>3, <4>1
      <4> QED BY <4>2, <4>3, <4>4
    <3>3. CASE ~Issues(stall) /\ ~VideoTakes(stall)
      BY <1>2, <2>3, <3>3
    <3> QED BY <3>1, <3>2, <3>3
  <2>4. ASSUME NEW k \in DOMAIN bus'
        PROVE  bus'[k].from = (IF owner_video_q THEN "video" ELSE "host")
               /\ bus'[k].cmd.we = owner_write_q
    <3>1. CASE k \in DOMAIN old
      <4>1. bus'[k] = old[k]
        BY <1>2, <3>1
      <4>2. PICK j \in DOMAIN bus : old[k] = bus[j]
        BY <1>2, <3>1
      <4> QED BY <4>1, <4>2 DEF AnswersOwned
    <3>2. CASE k \notin DOMAIN old
      <4>1. k - Len(old) \in DOMAIN new /\ bus'[k] = new[k - Len(old)]
        BY <1>2, <2>4, <3>2
      <4> QED BY <2>3, <4>1
    <3> QED BY <3>1, <3>2
  <2>5. owner_video_q' = owner_video_q /\ owner_write_q' = owner_write_q
    <3>1. OwnerStep(FabricIO(stall, ack))
      BY DEF MemoryClock, FabricEdge
    <3>2. ~Start(FabricIO(stall, ack))
      BY <1>1, <1>7, MemoryWires
    <3> QED BY <3>1, <3>2 DEF OwnerStep
  <2> QED BY <2>2, <2>4, <2>5 DEF AnswersOwned
<1> QED BY <1>6, <1>7

\* The words issued and not returned are the ones in the controller.
LEMMA MemoryReadsCounted ==
  ASSUME TypeOK, TypeOK', PointersOrdered, QueueKept, HeadKept, GrantKept, AnswersOwned,
         ReadsCounted, NEW stall \in BOOLEAN, NEW ack \in BOOLEAN, MemoryClock(stall, ack)
  PROVE  /\ ReadsCounted'
         /\ Reading /\ ~Completes(stall, ack) => Reading'
         /\ Reading' /\ ~(Reading /\ ~Completes(stall, ack)) =>
              returned_q' = 0 /\ (ReadOwner' => Len(bus') = 0)
<1>1. /\ BridgeMoves(stall, ack) /\ GrantMoves(stall, ack) /\ (ack => bus # <<>>)
  BY MemoryMoves
<1>2. PICK old, new \in Seq(Command) :
        /\ bus' = old \o new
        /\ Len(old) = Len(bus) - (IF ack THEN 1 ELSE 0)
        /\ Issues(stall) => new = <<[from |-> "host", cmd |-> MemoryCmd]>>
        /\ ~Issues(stall) /\ VideoTakes(stall) => \E a \in VideoAddrs : new = <<VideoRead(a)>>
        /\ ~Issues(stall) /\ ~VideoTakes(stall) => new = <<>>
  BY BusNext
<1>3. /\ Len(new) = IF Issues(stall) \/ VideoTakes(stall) THEN 1 ELSE 0
      /\ Len(bus') = Len(bus) - (IF ack THEN 1 ELSE 0) + Len(new)
  <2>1. Len(new) = IF Issues(stall) \/ VideoTakes(stall) THEN 1 ELSE 0
    BY <1>2
  <2>2. Len(bus') = Len(old) + Len(new)
    BY <1>2
  <2> QED BY <1>2, <2>1, <2>2
<1>4. /\ Len(bus) \in Nat /\ (ack => Len(bus) # 0)
      /\ issued_q \in 0 .. LastWord /\ returned_q \in 0 .. LastWord
      /\ LastWord \in Nat /\ Words = LastWord + 1
  BY <1>1, WordsCount DEF TypeOK, BridgeTypeOK
<1>5. /\ issued_last_q => Reading /\ issued_q = 0 /\ ~request_valid_q
      /\ ~Reading => issued_q = 0 /\ returned_q = 0
      /\ reply_last_q <=> returned_q = LastWord /\ Words > 1
      /\ (IF ReadOwner THEN Len(bus) ELSE 0) = (IF Reading THEN Issued - returned_q ELSE 0)
  BY DEF ReadsCounted
<1>6. Issues(stall) => /\ ~empty_q /\ (head_write <=> owner_write_q) /\ ~owner_video_q
                       /\ ~issued_last_q /\ grant = "CPU" /\ request_valid_q
                       /\ head_write \/ (Reading /\ ReadOwner)
  BY Issuing
<1>7. Completes(stall, ack) =>
        /\ ~empty_q /\ consumer_gray_q # producer_sync_q
        /\ head_write => Issues(stall)
        /\ ~head_write => /\ Returns(ack) /\ returned_q = LastWord /\ Len(bus) = 1 /\ issued_q = 0
                          /\ issued_last_q /\ ~request_valid_q /\ ReadOwner /\ Reading /\ ack
  BY <1>1, Completing
<1>8. Reading <=> ~empty_q /\ ~head_write
  BY DEF Reading
<1>9. Returns(ack) <=> Reading /\ ReadOwner /\ ack
  BY DEF Returns
<1>10. (issued_q + 1) % Words = (IF issued_q = LastWord THEN 0 ELSE issued_q + 1)
       /\ (returned_q + 1) % Words = (IF returned_q = LastWord THEN 0 ELSE returned_q + 1)
  <2>1. \A n \in 0 .. LastWord : (n + 1) % Words = IF n = LastWord THEN 0 ELSE n + 1
    <3> TAKE n \in 0 .. LastWord
    <3>1. CASE n = LastWord
      BY <1>4, <3>1, Turn
    <3>2. CASE n # LastWord
      <4>1. n + 1 \in 0 .. Words - 1 /\ Words \in Nat \ {0}
        BY <1>4, <3>2
      <4> QED BY <3>2, <4>1, Turn
    <3> QED BY <3>1, <3>2
  <2> QED BY <1>4, <2>1
<1>11. Reading' <=> ~empty_q' /\ ~head_write'
  BY DEF Reading
<1>12. ASSUME Reading, ~Completes(stall, ack) PROVE Reading'
  <2>1. ~empty_q' /\ (head_write' <=> head_write)
    BY <1>1, <1>8, <1>12 DEF BridgeMoves, HeadKept
  <2> QED BY <1>8, <1>11, <1>12, <2>1
<1>13. /\ issued_q' = IF Issues(stall) /\ ~head_write THEN (issued_q + 1) % Words ELSE issued_q
       /\ returned_q' = IF Returns(ack) THEN (returned_q + 1) % Words ELSE returned_q
       /\ issued_last_q' <=> /\ ~Completes(stall, ack)
                             /\ issued_last_q \/ (Issues(stall) /\ LastIssue)
       /\ LastIssue <=> head_write \/ issued_q = LastWord
  BY <1>1 DEF BridgeMoves, LastIssue
<1>14. ASSUME ~Reading \/ Completes(stall, ack)
       PROVE  issued_q' = 0 /\ returned_q' = 0 /\ ~issued_last_q'
  <2>1. CASE ~Reading
    <3>1. ~(Issues(stall) /\ ~head_write) /\ ~Returns(ack)
      BY <1>6, <1>9, <2>1
    <3>2. Issues(stall) => Completes(stall, ack)
      BY <3>1 DEF Completes
    <3> QED BY <1>5, <1>13, <2>1, <3>1, <3>2
  <2>2. CASE Reading /\ Completes(stall, ack)
    <3>1. /\ Returns(ack) /\ returned_q = LastWord /\ issued_q = 0 /\ ~Issues(stall)
      BY <1>6, <1>7, <1>8, <2>2
    <3> QED BY <1>10, <1>13, <2>2, <3>1
  <2> QED BY <1>14, <2>1, <2>2
<1>15. issued_last_q' => Reading' /\ issued_q' = 0 /\ ~request_valid_q'
  <2> SUFFICES ASSUME issued_last_q' PROVE Reading' /\ issued_q' = 0 /\ ~request_valid_q'
    OBVIOUS
  <2>1. Reading /\ ~Completes(stall, ack) /\ (issued_last_q \/ (Issues(stall) /\ LastIssue))
    BY <1>13, <1>14
  <2>2. issued_q' = 0
    BY <1>5, <1>6, <1>8, <1>10, <1>13, <2>1
  <2>3. ~request_valid_q'
    BY <1>1, <2>1 DEF BridgeMoves
  <2> QED BY <1>12, <2>1, <2>2, <2>3
<1>16. ~Reading' => issued_q' = 0 /\ returned_q' = 0
  BY <1>12, <1>14
<1>17. reply_last_q' <=> returned_q' = LastWord /\ Words > 1
  <2>1. CASE Returns(ack)
    <3>1. reply_last_q' <=> returned_q # LastWord /\ returned_q = Words - 2
      BY <1>1, <2>1 DEF BridgeMoves
    <3>2. returned_q' = IF returned_q = LastWord THEN 0 ELSE returned_q + 1
      BY <1>10, <1>13, <2>1
    <3> QED BY <1>4, <3>1, <3>2
  <2>2. CASE Issues(stall) /\ head_write
    <3>1. returned_q' = 0 /\ ~reply_last_q'
      BY <1>1, <1>5, <1>8, <1>9, <1>13, <2>2 DEF BridgeMoves
    <3> QED BY <1>4, <3>1
  <2>3. CASE ~Returns(ack) /\ ~(Issues(stall) /\ head_write)
    <3>1. (reply_last_q' <=> reply_last_q) /\ returned_q' = returned_q
      BY <1>1, <1>13, <2>3 DEF BridgeMoves
    <3> QED BY <1>5, <3>1
  <2> QED BY <2>1, <2>2, <2>3
<1>18. Issued' = IF issued_last_q' THEN Words ELSE issued_q'
  BY DEF Issued
<1>19. (IF ReadOwner' THEN Len(bus') ELSE 0) = (IF Reading' THEN Issued' - returned_q' ELSE 0)
  <2>1. CASE Starts
    <3>1. Len(bus) = 0 /\ ~ack /\ ~Issues(stall) /\ ~VideoTakes(stall)
      BY <1>4, <1>6, <2>1 DEF Starts, GrantKept, VideoTakes
    <3>2. Len(bus') = 0
      BY <1>3, <3>1
    <3>3. ~Completes(stall, ack) /\ ~Returns(ack)
      BY <1>6, <1>7, <1>9, <3>1
    <3>4. CASE Reading
      <4>1. Reading' /\ Issued - returned_q = 0
        BY <1>4, <1>5, <1>12, <3>1, <3>3, <3>4
      <4>2. Issued' = Issued /\ returned_q' = returned_q
        BY <1>13, <1>18, <3>1, <3>3 DEF Issued
      <4> QED BY <3>2, <4>1, <4>2
    <3>5. CASE ~Reading
      BY <1>14, <1>18, <3>2, <3>5
    <3> QED BY <3>4, <3>5
  <2>2. CASE ~Starts
    <3>1. ReadOwner' <=> ReadOwner
      BY <1>1, <2>2 DEF GrantMoves, ReadOwner
    <3>2. VideoTakes(stall) => ~ReadOwner
      BY DEF VideoTakes, GrantKept, ReadOwner
    <3>3. CASE ~ReadOwner
      <4>1. ~Returns(ack) /\ ~(Issues(stall) /\ ~head_write)
        BY <1>6, <1>9, <3>3
      <4>2. CASE Reading
        <5>1. ~Completes(stall, ack) /\ ~Issues(stall)
          BY <1>6, <1>7, <1>8, <3>3, <4>1, <4>2
        <5>2. Issued' = Issued /\ returned_q' = returned_q /\ Reading'
          BY <1>12, <1>13, <1>18, <4>1, <4>2, <5>1 DEF Issued
        <5> QED BY <1>5, <3>1, <3>3, <4>2, <5>2
      <4>3. CASE ~Reading
        BY <1>14, <1>18, <3>1, <3>3, <4>3
      <4> QED BY <4>2, <4>3
    <3>4. CASE ReadOwner
      <4>1. Len(new) = IF Issues(stall) THEN 1 ELSE 0
        BY <1>3, <3>2, <3>4
      <4>2. CASE ~Reading
        <5>1. Len(bus) = 0
          BY <1>5, <3>4, <4>2
        <5>2. ~ack /\ ~Issues(stall)
          BY <1>4, <1>6, <3>4, <4>2, <5>1 DEF ReadOwner
        <5>3. Len(bus') = 0
          BY <1>3, <4>1, <5>1, <5>2
        <5> QED BY <1>14, <1>18, <3>1, <3>4, <4>2, <5>3
      <4>3. CASE Reading /\ Completes(stall, ack)
        <5>1. Len(bus) = 1 /\ ack /\ ~Issues(stall)
          BY <1>6, <1>7, <1>8, <4>3
        <5>2. Len(bus') = 0
          BY <1>3, <4>1, <5>1
        <5> QED BY <1>14, <1>18, <3>1, <3>4, <4>3, <5>2
      <4>4. CASE Reading /\ ~Completes(stall, ack)
        <5>1. Len(bus) = Issued - returned_q /\ Reading'
          BY <1>5, <1>12, <3>4, <4>4
        <5>2. Returns(ack) <=> ack
          BY <1>9, <3>4, <4>4
        <5>3. returned_q' = returned_q + (IF ack THEN 1 ELSE 0)
          <6>1. Returns(ack) => returned_q # LastWord
            BY <4>4 DEF Completes
          <6> QED BY <1>4, <1>10, <1>13, <5>2, <6>1
        <5>4. Issued' = Issued + (IF Issues(stall) THEN 1 ELSE 0)
          BY <1>4, <1>6, <1>8, <1>10, <1>13, <1>18, <4>4 DEF Issued
        <5>5. Issued \in Nat
          BY <1>4 DEF Issued
        <5>6. Len(bus') = Len(bus) - (IF ack THEN 1 ELSE 0) + (IF Issues(stall) THEN 1 ELSE 0)
          BY <1>3, <4>1
        <5>7. Len(bus') = Issued' - returned_q'
          BY <1>4, <5>1, <5>3, <5>4, <5>5, <5>6
        <5> QED BY <3>1, <3>4, <5>1, <5>7
      <4> QED BY <4>2, <4>3, <4>4
    <3> QED BY <3>3, <3>4
  <2> QED BY <2>1, <2>2
<1>20. Reading' /\ ~(Reading /\ ~Completes(stall, ack)) =>
         returned_q' = 0 /\ (ReadOwner' => Len(bus') = 0)
  BY <1>14, <1>18, <1>19
<1> QED BY <1>12, <1>15, <1>16, <1>17, <1>19, <1>20 DEF ReadsCounted

\* What a command of the controller's reads is what the stores have promised.
OnlyReads == \A k \in DOMAIN Owed : ~Owed[k].we

LEMMA OwedReadState == TypeOK /\ AnswersOwned /\ ~owner_write_q => OnlyReads
<1> SUFFICES ASSUME TypeOK, AnswersOwned, ~owner_write_q PROVE OnlyReads
  OBVIOUS
<1>1. /\ Owed \in Seq(Request) /\ Len(Owed) = Len(bus)
      /\ \A k \in 1 .. Len(bus) : Owed[k] = bus[k].cmd
  BY OwedState DEF OwedWell
<1>2. DOMAIN Owed = 1 .. Len(bus) /\ DOMAIN bus = 1 .. Len(bus)
  <2>1. bus \in Seq(Command)
    BY DEF TypeOK
  <2> HIDE DEF Owed
  <2> QED BY <1>1, <2>1
<1>3. \A k \in DOMAIN bus : bus[k].cmd.we = owner_write_q
  BY DEF AnswersOwned
<1> QED BY <1>1, <1>2, <1>3 DEF OnlyReads

LEMMA OwedReads ==
  ASSUME TypeOK, AnswersOwned, ~owner_write_q
  PROVE  \A k \in DOMAIN Owed : ~Owed[k].we
  BY OwedReadState DEF OnlyReads

LEMMA OwedReadsThen ==
  ASSUME TypeOK', AnswersOwned', ~owner_write_q'
  PROVE  \A k \in DOMAIN Owed' : ~Owed'[k].we
<1>1. OnlyReads'
  BY OwedReadState, PTL
<1> QED BY <1>1 DEF OnlyReads

LEMMA HeadQueued ==
  ASSUME TypeOK, PointersOrdered, QueueKept, HeadKept, ~empty_q
  PROVE  /\ Queued \in Seq(Request) /\ Queued # <<>> /\ Queued[1] = HeadCommand
         /\ ~head_write => Len(Queued) = 1
<1>1. /\ Queued \in Seq(Request) /\ Len(Queued) = Gap(consumer_gray_q, producer_gray_q)
      /\ \A k \in 1 .. Len(Queued) : Queued[k] = entry[Ahead(consumer_gray_q, k - 1)]
      /\ Gap(consumer_gray_q, producer_gray_q) \in 0 .. 3
  BY QueuedState DEF QueuedWell
<1>2. ~Crossed /\ (~head_write => producer_gray_q = NextGray(consumer_gray_q))
  BY HeadIssued
<1>3. consumer_gray_q \in Pointer /\ producer_gray_q \in Pointer
  BY DEF TypeOK, BridgeTypeOK
<1>4. Gap(consumer_gray_q, producer_gray_q) # 0
  BY <1>2, <1>3, Gaps DEF Crossed
<1>5. ~head_write => Gap(consumer_gray_q, producer_gray_q) = 1
  BY <1>2, <1>3, Gaps
<1>6. Queued[1] = HeadCommand
  BY <1>1, <1>4 DEF Ahead, HeadCommand
<1> QED BY <1>1, <1>4, <1>5, <1>6

LEMMA LineRead ==
  ASSUME TypeOK, PointersOrdered, QueueKept, HeadKept, AnswersOwned, StoresPromised,
         Reading, ~owner_write_q, NEW a \in Addr
  PROVE  memory[a] = promised[a]
<1>1. \A k \in DOMAIN Owed : ~Owed[k].we
  BY OwedReads
<1>2. Queued \in Seq(Request) /\ Len(Queued) = 1 /\ Queued[1] = HeadCommand /\ ~HeadCommand.we
  BY HeadQueued, HeadIssued DEF Reading
<1>3. Owed \in Seq(Request)
  BY OwedState DEF OwedWell
<1>4. ASSUME NEW l \in Lanes PROVE promised[a][l] = memory[a][l]
  <2>1. Shown(memory, Owed \o Queued, a, l, promised[a][l])
    BY DEF StoresPromised, Pending
  <2>2. Shown(memory, Queued, a, l, promised[a][l])
    <3> HIDE DEF Owed, Queued
    <3> QED BY <1>1, <1>2, <1>3, <2>1, ShownBeyond
  <2>3. \A k \in DOMAIN Queued : ~Covers(Queued[k], a, l)
    <3>1. \A k \in DOMAIN Queued : k = 1
      <4> HIDE DEF Queued
      <4> QED BY <1>2
    <3> QED BY <1>2, <3>1 DEF Covers
  <2> QED BY <2>2, <2>3 DEF Shown, Youngest
<1>5. memory[a] \in Word /\ promised[a] \in Word
  BY DEF TypeOK
<1> QED BY <1>4, <1>5 DEF Word

LEMMA WordReturned ==
  ASSUME TypeOK, PointersOrdered, QueueKept, HeadKept, GrantKept, AnswersOwned, ReadsCounted,
         LineFilled, StoresPromised, NEW ack \in BOOLEAN, ack => bus # <<>>, Returns(ack)
  PROVE  RData(ack) = promised[InLine(returned_q)]
<1>1. Reading /\ ReadOwner /\ ack /\ ~owner_write_q
  BY DEF Returns, ReadOwner
<1>2. bus \in Seq(Command) /\ 1 \in DOMAIN bus
  BY <1>1 DEF TypeOK
<1>3. returned_q \in WordIndex /\ returned_q \in Nat /\ line_address \in Addr
  BY WordsCount DEF TypeOK, BridgeTypeOK
<1>4. bus[1].cmd.addr = InLine(returned_q)
  <2>1. bus[1].cmd.addr = InLine(returned_q + 1 - 1)
    BY <1>1, <1>2 DEF LineFilled
  <2>2. returned_q + 1 - 1 = returned_q
    BY <1>3
  <2> QED BY <2>1, <2>2
<1>5. InLine(returned_q) \in Addr
  BY <1>3 DEF InLine, Addr
<1>6. ~bus[1].cmd.we
  BY <1>1, <1>2 DEF AnswersOwned
<1>7. RData(ack) = memory[InLine(returned_q)]
  BY <1>1, <1>4, <1>6 DEF RData
<1> QED BY <1>1, <1>5, <1>7, LineRead

\* The line fills from its first word on,
LEMMA MemoryLineFilled ==
  ASSUME TypeOK, TypeOK', PointersOrdered, QueueKept, HeadKept, GrantKept, AnswersOwned,
         ReadsCounted, LineFilled, StoresPromised,
         NEW stall \in BOOLEAN, NEW ack \in BOOLEAN, MemoryClock(stall, ack)
  PROVE  LineFilled'
<1>1. /\ BridgeMoves(stall, ack) /\ GrantMoves(stall, ack) /\ (ack => bus # <<>>)
      /\ promised' = promised
  BY MemoryMoves
<1>2. line_address' = line_address
  BY <1>1 DEF BridgeMoves, hostVars
<1> SUFFICES ASSUME Reading'
             PROVE  /\ \A w \in WordIndex : w < returned_q' => LineHeld(w)'
                    /\ ReadOwner' => \A k \in DOMAIN bus' :
                                       bus'[k].cmd.addr = InLine(returned_q + k - 1)'
  BY DEF LineFilled
<1>3. CASE ~(Reading /\ ~Completes(stall, ack))
  <2>1. returned_q' = 0 /\ (ReadOwner' => Len(bus') = 0)
    BY <1>3, MemoryReadsCounted
  <2>2. \A w \in WordIndex : ~(w < returned_q')
    BY <2>1, WordsCount
  <2>3. Len(bus') = 0 => DOMAIN bus' = {}
    BY DEF TypeOK
  <2> QED BY <2>1, <2>2, <2>3
<1>4. CASE Reading /\ ~Completes(stall, ack)
  <2>1. returned_q \in 0 .. LastWord /\ issued_q \in 0 .. LastWord /\ LastWord \in Nat
        /\ Words = LastWord + 1 /\ WordIndex = 0 .. LastWord /\ DOMAIN line_data = WordIndex
    BY WordsCount DEF TypeOK, BridgeTypeOK
  <2>2. line_data' = [line_data EXCEPT ![returned_q] = RData(ack)]
    BY <1>1, <1>4 DEF BridgeMoves
  <2>3. returned_q' = IF Returns(ack) THEN returned_q + 1 ELSE returned_q
    <3>1. Returns(ack) => returned_q # LastWord
      BY <1>4 DEF Completes
    <3>2. Returns(ack) => (returned_q + 1) % Words = returned_q + 1
      <4>1. Returns(ack) => returned_q + 1 \in 0 .. Words - 1 /\ Words \in Nat \ {0}
        BY <2>1, <3>1
      <4> QED BY <4>1, Turn
    <3> QED BY <1>1, <3>2 DEF BridgeMoves
  <2>4. ASSUME NEW w \in WordIndex, w < returned_q'
        PROVE  LineHeld(w)'
    <3>1. InLine(w)' = InLine(w)
      BY <1>2 DEF InLine
    <3>2. line_data'[w] = promised[InLine(w)]
      <4>1. CASE w < returned_q
        BY <1>4, <2>1, <2>2, <4>1 DEF LineFilled, LineHeld
      <4>2. CASE ~(w < returned_q)
        <5>1. Returns(ack) /\ w = returned_q
          BY <2>1, <2>3, <2>4, <4>2
        <5>2. line_data'[w] = RData(ack)
          BY <2>1, <2>2, <5>1
        <5> QED BY <1>1, <5>1, <5>2, WordReturned
      <4> QED BY <4>1, <4>2
    <3> QED BY <1>1, <3>1, <3>2 DEF LineHeld
  <2>5. ASSUME ReadOwner', NEW k \in DOMAIN bus'
        PROVE  bus'[k].cmd.addr = InLine(returned_q + k - 1)'
    <3>1. PICK old, new \in Seq(Command) :
            /\ bus' = old \o new
            /\ old = IF ack THEN Tail(bus) ELSE bus
            /\ Len(old) = Len(bus) - (IF ack THEN 1 ELSE 0)
            /\ \A j \in DOMAIN old : (IF ack THEN j + 1 ELSE j) \in DOMAIN bus
                                     /\ old[j] = bus[IF ack THEN j + 1 ELSE j]
            /\ Issues(stall) => new = <<[from |-> "host", cmd |-> MemoryCmd]>>
            /\ ~Issues(stall) /\ VideoTakes(stall) => \E a \in VideoAddrs : new = <<VideoRead(a)>>
            /\ ~Issues(stall) /\ ~VideoTakes(stall) => new = <<>>
      BY BusNext
    <3>2. k \in Nat /\ k \in 1 .. Len(bus')
      BY DEF TypeOK
    <3>3. CASE Starts
      <4>1. bus = <<>> /\ ~Issues(stall) /\ ~VideoTakes(stall) /\ ~ack
        BY <1>1, <3>3 DEF Starts, Issues, VideoTakes, GrantKept
      <4>2. Len(bus') = 0
        <5>1. Len(old) = 0 /\ new = <<>>
          BY <3>1, <4>1
        <5> QED BY <3>1, <5>1
      <4> QED BY <3>2, <4>2
    <3>4. CASE ~Starts
      <4>1. ReadOwner /\ ~VideoTakes(stall)
        <5>1. ReadOwner
          BY <1>1, <2>5, <3>4 DEF GrantMoves, ReadOwner
        <5> QED BY <5>1 DEF VideoTakes, GrantKept, ReadOwner
      <4>2. Returns(ack) <=> ack
        BY <1>4, <4>1 DEF Returns
      <4>3. InLine(returned_q + k - 1)' = InLine(returned_q' + k - 1)
        BY <1>2 DEF InLine
      <4>4. CASE k \in DOMAIN old
        <5>1. PICK j : j \in DOMAIN bus /\ j = (IF ack THEN k + 1 ELSE k) /\ old[k] = bus[j]
          BY <3>1, <4>4
        <5>2. bus'[k] = bus[j]
          BY <3>1, <4>4, <5>1
        <5>3. bus[j].cmd.addr = InLine(returned_q + j - 1)
          BY <1>4, <4>1, <5>1 DEF LineFilled
        <5>4. returned_q + j - 1 = returned_q' + k - 1
          BY <2>1, <2>3, <3>2, <4>2, <5>1
        <5> QED BY <4>3, <5>2, <5>3, <5>4
      <4>5. CASE k \notin DOMAIN old
        <5>1. k - Len(old) \in DOMAIN new /\ bus'[k] = new[k - Len(old)]
          BY <3>1, <2>5, <4>5
        <5>2. Issues(stall)
          BY <3>1, <4>1, <5>1
        <5>3. new = <<[from |-> "host", cmd |-> MemoryCmd]>>
          BY <3>1, <5>2
        <5>4. k - Len(old) = 1 /\ bus'[k].cmd = MemoryCmd
          BY <5>1, <5>3
        <5>5. ~empty_q /\ ~head_write /\ ~issued_last_q
          BY <1>4, <5>2, Issuing DEF Reading
        <5>6. MemoryCmd.addr = InLine(issued_q)
          BY <5>5, HeadIssued
        <5>7. Len(bus) = issued_q - returned_q
          BY <1>4, <4>1, <5>5 DEF ReadsCounted, Issued
        <5>8. returned_q' + k - 1 = issued_q
          <6>1. k = Len(bus) - (IF ack THEN 1 ELSE 0) + 1
            BY <3>1, <3>2, <5>4
          <6> QED BY <2>1, <2>3, <4>2, <5>7, <6>1
        <5> QED BY <4>3, <5>4, <5>6, <5>8
      <4> QED BY <4>4, <4>5
    <3> QED BY <3>3, <3>4
  <2> QED BY <2>4, <2>5
<1> QED BY <1>3, <1>4

\* and is whole when its command leaves the queue.
LEMMA MemoryLineKept ==
  ASSUME TypeOK, TypeOK', PointersOrdered, QueueKept, HeadKept, GrantKept, AnswersOwned,
         ReadsCounted, LineFilled, LineKept, StoresPromised,
         NEW stall \in BOOLEAN, NEW ack \in BOOLEAN, MemoryClock(stall, ack)
  PROVE  LineKept'
<1>1. BridgeMoves(stall, ack) /\ (ack => bus # <<>>) /\ promised' = promised
  BY MemoryMoves
<1>2. /\ producer_gray_q' = producer_gray_q
      /\ ~Completes(stall, ack) => consumer_gray_q' = consumer_gray_q
      /\ Completes(stall, ack) => ~Crossed
  BY MemoryQueue
<1>3. line_address' = line_address /\ line_valid_q' = line_valid_q /\ read_wait_q' = read_wait_q
  BY <1>1 DEF BridgeMoves, hostVars
<1>4. Crossed => ~Reading /\ ~Completes(stall, ack)
  BY <1>2, HeadIssued DEF Reading
<1>5. Crossed => Crossed' /\ line_data' = line_data
  BY <1>1, <1>2, <1>4 DEF BridgeMoves, Crossed
<1>6. line_valid_q' => Crossed'
  BY <1>3, <1>5 DEF LineKept
<1>7. ASSUME line_valid_q' \/ (read_wait_q' /\ Crossed'), NEW w \in WordIndex
      PROVE  LineHeld(w)'
  <2>1. line_data'[w] = promised[InLine(w)]
    <3>1. CASE Crossed
      BY <1>3, <1>5, <1>7, <3>1 DEF LineKept, LineHeld
    <3>2. CASE ~Crossed
      <4>1. read_wait_q /\ Completes(stall, ack)
        BY <1>2, <1>3, <1>6, <1>7, <3>2 DEF LineKept, Crossed
      <4>2. ~head_write
        <5>1. ~HeadCommand.we /\ ~empty_q
          BY <1>1, <3>2, <4>1, Completing DEF QueueKept
        <5> QED BY <5>1 DEF HeadKept
      <4>3. Returns(ack) /\ returned_q = LastWord /\ Reading
        BY <1>1, <4>1, <4>2, Completing
      <4>4. line_data' = [line_data EXCEPT ![returned_q] = RData(ack)]
        BY <1>1, <4>3 DEF BridgeMoves
      <4>5. DOMAIN line_data = WordIndex /\ w \in 0 .. LastWord /\ returned_q \in WordIndex
        BY WordsCount DEF TypeOK, BridgeTypeOK
      <4>6. CASE w = returned_q
        BY <1>1, <4>3, <4>4, <4>5, <4>6, WordReturned
      <4>7. CASE w # returned_q
        <5>1. w < returned_q
          BY <4>3, <4>5, <4>7, WordsCount
        <5> QED BY <4>3, <4>4, <4>5, <4>7, <5>1 DEF LineFilled, LineHeld
      <4> QED BY <4>6, <4>7
    <3> QED BY <3>1, <3>2
  <2>2. InLine(w)' = InLine(w)
    BY <1>3 DEF InLine
  <2> QED BY <1>1, <2>1, <2>2 DEF LineHeld
<1> QED BY <1>6, <1>7 DEF LineKept

LEMMA CommandsOne ==
  /\ Commands(<<>>) = <<>>
  /\ \A c \in Command : Commands(<<c>>) = <<c.cmd>>
<1>1. Commands(<<>>) = <<>>
  <2>1. <<>> \in Seq(Command)
    OBVIOUS
  <2>2. Commands(<<>>) \in Seq(Request) /\ Len(Commands(<<>>)) = 0
    BY <2>1, CommandsLen
  <2> QED BY <2>2
<1>2. ASSUME NEW c \in Command PROVE Commands(<<c>>) = <<c.cmd>>
  <2>1. <<c>> \in Seq(Command) /\ Len(<<c>>) = 1 /\ DOMAIN <<c>> = {1}
    OBVIOUS
  <2>2. Commands(<<c>>) \in Seq(Request) /\ Len(Commands(<<c>>)) = 1
    BY <2>1, CommandsLen
  <2>3. Commands(<<c>>)[1] = c.cmd
    BY <2>1 DEF Commands
  <2> QED BY <2>2, <2>3
<1> QED BY <1>1, <1>2

LEMMA CommandsTail ==
  ASSUME NEW q \in Seq(Command), q # <<>>
  PROVE  Commands(Tail(q)) = Tail(Commands(q))
<1>1. Tail(q) \in Seq(Command) /\ Len(Tail(q)) = Len(q) - 1 /\ Len(q) \in Nat \ {0}
  OBVIOUS
<1>2. /\ Commands(q) \in Seq(Request) /\ Len(Commands(q)) = Len(q)
      /\ Commands(Tail(q)) \in Seq(Request) /\ Len(Commands(Tail(q))) = Len(q) - 1
  BY <1>1, CommandsLen
<1>3. ASSUME NEW k \in 1 .. Len(q) - 1 PROVE Commands(Tail(q))[k] = Commands(q)[k + 1]
  <2>1. k \in DOMAIN Tail(q) /\ k + 1 \in DOMAIN q /\ Tail(q)[k] = q[k + 1]
    BY <1>1
  <2> QED BY <2>1 DEF Commands
<1> DEFINE r == Commands(q)
           t == Commands(Tail(q))
<1>4. r \in Seq(Request) /\ Len(r) = Len(q) /\ t \in Seq(Request) /\ Len(t) = Len(q) - 1
      /\ \A k \in 1 .. Len(q) - 1 : t[k] = r[k + 1]
  BY <1>2, <1>3
<1> HIDE DEF r, t
<1>5. Tail(r) \in Seq(Request) /\ Len(Tail(r)) = Len(q) - 1
      /\ \A k \in 1 .. Len(q) - 1 : Tail(r)[k] = r[k + 1]
  BY <1>1, <1>4
<1>6. t = Tail(r)
  BY <1>1, <1>4, <1>5
<1> QED BY <1>6 DEF r, t

LEMMA CommandsJoin ==
  ASSUME NEW p \in Seq(Command), NEW q \in Seq(Command)
  PROVE  Commands(p \o q) = Commands(p) \o Commands(q)
<1> DEFINE a == Commands(p)
           b == Commands(q)
           c == Commands(p \o q)
           n == Len(p) + Len(q)
<1>1. p \o q \in Seq(Command) /\ Len(p \o q) = n
  OBVIOUS
<1>2. /\ a \in Seq(Request) /\ Len(a) = Len(p)
      /\ b \in Seq(Request) /\ Len(b) = Len(q)
      /\ c \in Seq(Request) /\ Len(c) = n
  BY <1>1, CommandsLen
<1>3. ASSUME NEW k \in 1 .. n
      PROVE  c[k] = IF k <= Len(p) THEN a[k] ELSE b[k - Len(p)]
  <2>1. CASE k <= Len(p)
    <3>1. k \in DOMAIN p /\ k \in DOMAIN (p \o q) /\ (p \o q)[k] = p[k]
      BY <2>1
    <3> QED BY <2>1, <3>1 DEF Commands
  <2>2. CASE ~(k <= Len(p))
    <3>1. k - Len(p) \in DOMAIN q /\ k \in DOMAIN (p \o q) /\ (p \o q)[k] = q[k - Len(p)]
      BY <2>2
    <3> QED BY <2>2, <3>1 DEF Commands
  <2> QED BY <2>1, <2>2
<1>4. n \in Nat /\ Len(p) \in Nat /\ Len(q) \in Nat
  OBVIOUS
<1> HIDE DEF a, b, c
<1>5. a \o b \in Seq(Request) /\ Len(a \o b) = n
  BY <1>2, <1>4
<1>6. \A k \in 1 .. n : (a \o b)[k] = IF k <= Len(p) THEN a[k] ELSE b[k - Len(p)]
  BY <1>2, <1>4
<1>7. c = a \o b
  BY <1>2, <1>3, <1>5, <1>6
<1> QED BY <1>7 DEF a, b, c

\* A store on its way moves on, or lands.
LEMMA MemoryQueued ==
  ASSUME TypeOK, TypeOK', PointersOrdered, QueueKept, QueueKept', HeadKept, GrantKept,
         ReadsCounted, NEW stall \in BOOLEAN, NEW ack \in BOOLEAN, MemoryClock(stall, ack)
  PROVE  Queued' = IF Completes(stall, ack) THEN Tail(Queued) ELSE Queued
<1>1. /\ producer_gray_q' = producer_gray_q /\ entry' = entry
      /\ ~Completes(stall, ack) => consumer_gray_q' = consumer_gray_q
      /\ Completes(stall, ack) =>
           /\ consumer_gray_q' = NextGray(consumer_gray_q)
           /\ Gap(consumer_gray_q, producer_gray_q) \in 1 .. 3
           /\ Gap(consumer_gray_q, producer_gray_q)' = Gap(consumer_gray_q, producer_gray_q) - 1
  BY MemoryQueue
<1>2. CASE ~Completes(stall, ack)
  BY <1>1, <1>2 DEF Queued, Gap, Place, Ahead
<1>3. CASE Completes(stall, ack)
  <2>1. /\ Queued \in Seq(Request) /\ Len(Queued) = Gap(consumer_gray_q, producer_gray_q)
        /\ \A k \in 1 .. Len(Queued) : Queued[k] = entry[Ahead(consumer_gray_q, k - 1)]
    BY QueuedState DEF QueuedWell
  <2>2. /\ Queued' \in Seq(Request) /\ Len(Queued') = Gap(consumer_gray_q, producer_gray_q)'
        /\ \A k \in 1 .. Len(Queued') : Queued'[k] = entry'[Ahead(consumer_gray_q, k - 1)']
    BY QueuedThen DEF QueuedWell
  <2>3. Len(Queued') = Len(Queued) - 1 /\ Len(Queued) \in 1 .. 3
    BY <1>1, <1>3, <2>1, <2>2
  <2>4. ASSUME NEW k \in 1 .. Len(Queued) - 1 PROVE Queued'[k] = Queued[k + 1]
    <3>1. k - 1 \in 0 .. 3 /\ k - 1 < 3 /\ (k - 1) + 1 = k
          /\ (k + 1) - 1 = k /\ k + 1 \in 1 .. Len(Queued)
      BY <2>3
    <3>2. Ahead(NextGray(consumer_gray_q), k - 1) = Ahead(consumer_gray_q, k)
      <4>1. consumer_gray_q \in Pointer
        BY DEF TypeOK, BridgeTypeOK
      <4> QED BY <3>1, <4>1, AheadGaps
    <3>3. Ahead(consumer_gray_q, k - 1)' = Ahead(NextGray(consumer_gray_q), k - 1)
      BY <1>1, <1>3 DEF Ahead
    <3>4. Queued'[k] = entry'[Ahead(consumer_gray_q, k - 1)']
      BY <2>2, <2>3
    <3>5. Queued[k + 1] = entry[Ahead(consumer_gray_q, k)]
      BY <2>1, <3>1
    <3> QED BY <1>1, <3>2, <3>3, <3>4, <3>5
  <2>5. Queued' = Tail(Queued)
    <3> DEFINE q == Queued
               r == Queued'
    <3>1. q \in Seq(Request) /\ r \in Seq(Request) /\ Len(r) = Len(q) - 1 /\ Len(q) \in 1 .. 3
          /\ \A k \in 1 .. Len(q) - 1 : r[k] = q[k + 1]
      BY <2>1, <2>2, <2>3, <2>4
    <3> HIDE DEF q, r
    <3>2. Len(Tail(q)) = Len(q) - 1 /\ Tail(q) \in Seq(Request)
          /\ \A k \in 1 .. Len(q) - 1 : Tail(q)[k] = q[k + 1]
      BY <3>1
    <3>3. r = Tail(q)
      BY <3>1, <3>2
    <3> QED BY <3>3 DEF q, r
  <2> QED BY <1>3, <2>5
<1> QED BY <1>2, <1>3

LEMMA MemoryOwed ==
  ASSUME TypeOK, TypeOK', PointersOrdered, QueueKept, HeadKept, GrantKept, ReadsCounted,
         owner_write_q, NEW stall \in BOOLEAN, NEW ack \in BOOLEAN, MemoryClock(stall, ack)
  PROVE  Owed' = (IF ack THEN Tail(Owed) ELSE Owed)
                 \o (IF Issues(stall) THEN <<HeadCommand>> ELSE <<>>)
<1>1. BusMoves(stall, ack) /\ (ack => bus # <<>>) /\ bus \in Seq(Command)
  BY MemoryMoves DEF TypeOK
<1>2. ~VideoTakes(stall)
  BY DEF VideoTakes, GrantKept
<1>3. Issues(stall) => MemoryCmd = HeadCommand /\ HeadCommand \in Request
  BY Issuing, HeadIssued
<1> DEFINE c == [from |-> "host", cmd |-> HeadCommand]
           old == IF ack THEN Tail(bus) ELSE bus
           new == IF Issues(stall) THEN <<c>> ELSE <<>>
<1>4. bus' = old \o new
  <2>1. PICK a \in VideoAddrs :
          bus' = (IF ack THEN Tail(bus) ELSE bus)
                 \o (IF Issues(stall) THEN <<[from |-> "host", cmd |-> MemoryCmd]>>
                     ELSE IF VideoTakes(stall) THEN <<VideoRead(a)>> ELSE <<>>)
    BY <1>1 DEF BusMoves
  <2> QED BY <1>2, <1>3, <2>1
<1>5. Issues(stall) => c \in Command
  BY <1>3 DEF Command
<1>6. Commands(old) = IF ack THEN Tail(Commands(bus)) ELSE Commands(bus)
  BY <1>1, CommandsTail
<1>7. Commands(new) = IF Issues(stall) THEN <<HeadCommand>> ELSE <<>>
  BY <1>5, CommandsOne
<1>8. old \in Seq(Command) /\ new \in Seq(Command)
  BY <1>1, <1>5
<1>9. Owed = Commands(bus) /\ Owed' = Commands(bus')
  BY DEF Owed, Commands
<1> HIDE DEF old, new
<1>10. Commands(old \o new) = Commands(old) \o Commands(new)
  BY <1>8, CommandsJoin
<1> QED BY <1>4, <1>6, <1>7, <1>9, <1>10

LEMMA Regroup ==
  ASSUME NEW S, NEW w \in Seq(S), NEW q \in Seq(S), q # <<>>
  PROVE  (w \o <<q[1]>>) \o Tail(q) = w \o q
<1>1. q[1] \in S /\ Tail(q) \in Seq(S) /\ <<q[1]>> \o Tail(q) = q
  OBVIOUS
<1>2. (w \o <<q[1]>>) \o Tail(q) = w \o (<<q[1]>> \o Tail(q))
  BY <1>1
<1> QED BY <1>1, <1>2

LEMMA MemoryStores ==
  ASSUME TypeOK, TypeOK', PointersOrdered, QueueKept, QueueKept', HeadKept, GrantKept,
         AnswersOwned, AnswersOwned', ReadsCounted, StoresPromised,
         NEW stall \in BOOLEAN, NEW ack \in BOOLEAN, MemoryClock(stall, ack)
  PROVE  StoresPromised'
<1>1. /\ GrantMoves(stall, ack) /\ BusMoves(stall, ack) /\ (ack => bus # <<>>)
      /\ promised' = promised
  BY MemoryMoves
<1>2. Owed \in Seq(Request) /\ Queued \in Seq(Request) /\ Len(Owed) = Len(bus)
  BY QueuedNow DEF QueuedWell, OwedWell
<1>3. Owed' \in Seq(Request) /\ Queued' \in Seq(Request)
  BY QueuedThen DEF QueuedWell, OwedWell
<1>4. Queued' = IF Completes(stall, ack) THEN Tail(Queued) ELSE Queued
  BY MemoryQueued
<1>5. ack => /\ 1 \in DOMAIN bus /\ Owed # <<>> /\ Head(Owed) = bus[1].cmd
             /\ bus[1].cmd \in Request /\ bus[1].cmd.we = owner_write_q
  <2>1. bus \in Seq(Command)
    BY DEF TypeOK
  <2>2. ack => 1 \in DOMAIN bus /\ Len(bus) # 0
    BY <1>1, <2>1
  <2>3. ack => Owed[1] = bus[1].cmd
    BY <2>2 DEF Owed, Commands
  <2>4. ack => bus[1] \in Command
    BY <2>1, <2>2, Element
  <2>5. ack => Owed # <<>> /\ Head(Owed) = Owed[1]
    <3> HIDE DEF Owed
    <3> QED BY <1>2, <2>2
  <2> QED BY <2>2, <2>3, <2>4, <2>5 DEF AnswersOwned, Command
<1> SUFFICES ASSUME NEW a \in Addr, NEW l \in Lanes
             PROVE  Shown(memory', Owed' \o Queued', a, l, promised[a][l])
  BY <1>1 DEF StoresPromised, Pending, Shown, Youngest, Covers
<1>6. Shown(memory, Owed \o Queued, a, l, promised[a][l])
  BY DEF StoresPromised, Pending
<1>7. CASE owner_write_q
  <2>1. Completes(stall, ack) <=> Issues(stall)
    <3>1. ~ReadOwner
      BY <1>7 DEF ReadOwner
    <3> QED BY <1>7, <3>1, Issuing DEF Completes, Returns
  <2>2. Owed' = (IF ack THEN Tail(Owed) ELSE Owed) \o (IF Issues(stall) THEN <<HeadCommand>> ELSE <<>>)
    BY <1>7, MemoryOwed
  <2>3. Issues(stall) => Queued # <<>> /\ Queued[1] = HeadCommand
    BY Issuing, HeadQueued
  <2>4. Owed' \o Queued' = IF ack THEN Tail(Owed \o Queued) ELSE Owed \o Queued
    <3> DEFINE o == Owed
               q == Queued
               w == IF ack THEN Tail(o) ELSE o
    <3>1. o \in Seq(Request) /\ q \in Seq(Request) /\ (ack => o # <<>>) /\ w \in Seq(Request)
      BY <1>2, <1>5
    <3>2. Issues(stall) => q # <<>> /\ q[1] = HeadCommand
      BY <2>3
    <3>3. Owed' = w \o (IF Issues(stall) THEN <<HeadCommand>> ELSE <<>>)
      BY <2>2
    <3>4. Queued' = IF Issues(stall) THEN Tail(q) ELSE q
      BY <1>4, <2>1
    <3>5. w = IF ack THEN Tail(o) ELSE o
      OBVIOUS
    <3> HIDE DEF o, q, w
    <3>6. Owed' \o Queued' = w \o q
      <4>1. CASE Issues(stall)
        <5>1. (w \o <<q[1]>>) \o Tail(q) = w \o q
          BY <3>1, <3>2, <4>1, Regroup
        <5> QED BY <3>2, <3>3, <3>4, <4>1, <5>1
      <4>2. CASE ~Issues(stall)
        <5>1. w \o <<>> = w
          BY <3>1
        <5> QED BY <3>3, <3>4, <4>2, <5>1
      <4> QED BY <4>1, <4>2
    <3>7. ack => Tail(o) \o q = Tail(o \o q)
      BY <3>1
    <3> QED BY <3>5, <3>6, <3>7 DEF o, q
  <2>5. CASE ack
    <3> DEFINE c == bus[1].cmd
    <3>1. memory' = [memory EXCEPT ![c.addr] = Merge(@, c.sel, c.wdata)]
          /\ c.we /\ c \in Request /\ Head(Owed) = c /\ Owed # <<>>
      BY <1>1, <1>5, <1>7, <2>5 DEF BusMoves
    <3>2. Head(Owed \o Queued) = c /\ Owed \o Queued \in Seq(Request) /\ Owed \o Queued # <<>>
      <4> HIDE DEF Owed, Queued, c
      <4> QED BY <1>2, <3>1
    <3> HIDE DEF c
    <3>3. memory'[a][l] = IF Covers(c, a, l) THEN c.wdata[l] ELSE memory[a][l]
      <4>1. memory \in [Addr -> Word]
        BY DEF TypeOK
      <4> QED BY <3>1, <4>1 DEF Merge, Covers
    <3>4. Shown(memory', Tail(Owed \o Queued), a, l, promised[a][l])
      BY <1>6, <3>2, <3>3, ShownTail
    <3> QED BY <2>4, <2>5, <3>4
  <2>6. CASE ~ack
    <3>1. memory' = memory
      BY <1>1, <2>6 DEF BusMoves
    <3> QED BY <1>6, <2>4, <2>6, <3>1
  <2> QED BY <2>5, <2>6
<1>8. CASE ~owner_write_q
  <2>1. memory' = memory
    BY <1>1, <1>5, <1>8 DEF BusMoves
  <2>2. Shown(memory, Queued, a, l, promised[a][l])
    BY <1>2, <1>6, <1>8, OwedReads, ShownBeyond
  <2>3. Shown(memory, Queued', a, l, promised[a][l])
    <3>1. CASE ~Completes(stall, ack)
      BY <1>4, <2>2, <3>1
    <3>2. CASE Completes(stall, ack)
      <4>1. ~empty_q /\ ~head_write
        BY <1>1, <1>8, <3>2, Completing
      <4>2. Queued # <<>> /\ Queued[1] = HeadCommand /\ ~HeadCommand.we
        BY <4>1, HeadQueued, HeadIssued
      <4>3. Head(Queued) = Queued[1]
        <5> HIDE DEF Queued
        <5> QED BY <1>2, <4>2
      <4>4. Shown(memory, Tail(Queued), a, l, promised[a][l])
        <5> HIDE DEF Queued
        <5>1. ~Covers(Head(Queued), a, l)
          BY <4>2, <4>3 DEF Covers
        <5> QED BY <1>2, <2>2, <4>2, <5>1, ShownTail
      <4> QED BY <1>4, <3>2, <4>4
    <3> QED BY <3>1, <3>2
  <2>4. \A k \in DOMAIN Owed' : ~Owed'[k].we
    <3>1. CASE owner_write_q'
      <4>1. Starts
        BY <1>1, <1>8, <3>1 DEF GrantMoves
      <4>2. bus = <<>> /\ ~Issues(stall) /\ ~VideoTakes(stall) /\ ~ack
        BY <1>1, <4>1 DEF Starts, Issues, VideoTakes, GrantKept
      <4>3. bus' = <<>>
        BY <1>1, <4>2 DEF BusMoves
      <4>4. DOMAIN Owed' = {}
        BY <4>3 DEF Owed, Commands
      <4> QED BY <4>4
    <3>2. CASE ~owner_write_q'
      BY <3>2, OwedReadsThen
    <3> QED BY <3>1, <3>2
  <2>5. Shown(memory, Owed' \o Queued', a, l, promised[a][l])
    BY <1>3, <2>3, <2>4, ShownBeyond
  <2> QED BY <2>1, <2>5
<1> QED BY <1>7, <1>8

LEMMA MemoryCpuKept ==
  ASSUME TypeOK, HeadKept, GrantKept, ReadsCounted, CpuKept,
         NEW stall \in BOOLEAN, NEW ack \in BOOLEAN, MemoryClock(stall, ack)
  PROVE  CpuKept'
<1>1. UNCHANGED <<hostVars, waiting, promised>>
  BY MemoryMoves DEF BridgeMoves
<1> QED BY <1>1 DEF CpuKept, hostVars

-----------------------------------------------------------------------------
(* The invariant. *)

LEMMA InitInv == Init => PathInv
<1> SUFFICES ASSUME Init PROVE PathInv
  OBVIOUS
<1>1. PICK r \in CpuRequests : BridgeInit(r.addr)
  BY DEF Init
<1>2. r \in Request /\ r.addr \in Addr
  BY PathAssumption, Typed
<1>3. /\ FabricInit /\ memory \in [Addr -> Word] /\ promised = memory /\ bus = <<>>
      /\ memory_ready = FALSE /\ waiting = NoRequest /\ got = {} /\ video_stb = FALSE
  BY PathAssumption DEF Init
<1>4. Zero \in Pointer /\ Place(Zero) = 0
  <2>1. Zero[1] = FALSE /\ Zero[2] = FALSE
    BY SMT DEF Zero
  <2>2. \A a, b \in BOOLEAN : <<a, b>> \in BOOLEAN \X BOOLEAN
    BY SMT
  <2>3. Zero \in Pointer
    BY <2>2, Zenon DEF Zero, Pointer
  <2> QED BY <2>1, <2>3 DEF Place
<1>5. TypeOK
  <2>1. UndefWord \in DataWord
    BY DEF UndefWord, DataWord
  <2>2. BridgeTypeOK
    <3>1. ready_sync_q \in BOOLEAN \X BOOLEAN
      BY <1>1, <1>4 DEF BridgeInit, Zero, Pointer
    <3>2. /\ {producer_gray_q, consumer_meta_q, consumer_sync_q, producer_old} \subseteq Pointer
          /\ {consumer_gray_q, producer_meta_q, producer_sync_q, consumer_old} \subseteq Pointer
      BY <1>1, <1>4 DEF BridgeInit
    <3>3. /\ {read_wait_q, line_valid_q, host_ack} \subseteq BOOLEAN
          /\ {empty_q, head_write, issued_last_q, reply_last_q, request_valid_q} \subseteq BOOLEAN
      BY <1>1 DEF BridgeInit
    <3>4. entry \in [Pointer -> Request \cup {Garbage}]
      BY <1>1 DEF BridgeInit
    <3>5. /\ line_address \in Addr /\ host_rdata \in DataWord
          /\ line_data \in [WordIndex -> DataWord]
          /\ {issued_q, returned_q} \subseteq WordIndex
      BY <1>1, <1>2, <2>1, WordsCount DEF BridgeInit
    <3> QED BY <3>1, <3>2, <3>3, <3>4, <3>5 DEF BridgeTypeOK
  <2>3. FabricTypeOK
    <3>1. 0 \in 0 .. ReadLimit - 1 /\ 0 \in 0 .. PendingModulus - 1
      BY FabricAssumption
    <3> QED BY <1>3, <3>1 DEF FabricInit, FabricTypeOK, Grants
  <2>4. {memory, promised} \subseteq [Addr -> Word] /\ bus \in Seq(Command)
    BY <1>3
  <2>5. memory_ready \in BOOLEAN /\ video_stb \in BOOLEAN
    BY <1>3
  <2>6. waiting \in CpuRequests \cup {NoRequest} /\ got \in {{}} \cup {{w} : w \in DataWord}
    BY <1>3
  <2> QED BY <2>2, <2>3, <2>4, <2>5, <2>6 DEF TypeOK
<1>6. Crossed /\ Gap(consumer_gray_q, producer_gray_q) = 0
  BY <1>1, <1>4 DEF BridgeInit, Crossed, Gap
<1>7. PointersOrdered
  <2>1. Gap(Zero, Zero) = 0
    BY <1>4 DEF Gap
  <2> QED BY <1>1, <2>1 DEF BridgeInit, PointersOrdered
<1>8. QueueKept
  BY <1>1, <1>5, <1>6, HeadQueues DEF QueueKept, BridgeInit
<1>9. HeadKept /\ ReadsCounted
  <2>1. empty_q /\ ~request_valid_q /\ issued_q = 0 /\ returned_q = 0 /\ ~issued_last_q
        /\ ~reply_last_q /\ ~Reading
    BY <1>1 DEF BridgeInit, Reading
  <2> QED BY <1>3, <2>1, WordsCount DEF HeadKept, ReadsCounted
<1>10. GrantKept /\ AnswersOwned
  BY <1>3, PathAssumption DEF GrantKept, AnswersOwned, FabricInit
<1>11. LineFilled /\ LineKept /\ CpuKept
  BY <1>1 DEF BridgeInit, LineFilled, Reading, LineKept, CpuKept
<1>12. StoresPromised
  <2>1. Pending = <<>>
    <3>1. Owed = <<>> /\ Queued = <<>>
      BY <1>3, <1>6 DEF Owed, Commands, Queued
    <3> QED BY <3>1 DEF Pending
  <2> QED BY <1>3, <2>1 DEF StoresPromised, Shown
<1> QED BY <1>5, <1>7, <1>8, <1>9, <1>10, <1>11, <1>12 DEF PathInv

LEMMA HostInv ==
  ASSUME PathInv, NEW stb \in BOOLEAN, NEW c \in CpuRequests, HostClock(stb, c)
  PROVE  PathInv'
<1>1. /\ TypeOK /\ PointersOrdered /\ QueueKept /\ HeadKept /\ GrantKept /\ AnswersOwned
      /\ ReadsCounted /\ LineFilled /\ LineKept /\ CpuKept /\ StoresPromised
  BY DEF PathInv
<1>2. TypeOK'
  BY <1>1, HostTyped
<1>3. PointersOrdered'
  BY <1>1, <1>2, OrderedHost DEF HostClock
<1>4. QueueKept' /\ HeadKept'
  BY <1>1, HostQueueKept, HostHeadKept
<1>5. GrantKept' /\ AnswersOwned' /\ ReadsCounted'
  BY <1>1, HostMemoryKept
<1>6. LineFilled' /\ LineKept' /\ CpuKept'
  BY <1>1, HostLineFilled, HostLineKept, HostCpuKept
<1>7. StoresPromised'
  BY <1>1, <1>2, <1>4, HostStores
<1> QED BY <1>2, <1>3, <1>4, <1>5, <1>6, <1>7 DEF PathInv

LEMMA MemoryInv ==
  ASSUME PathInv, NEW stall \in BOOLEAN, NEW ack \in BOOLEAN, MemoryClock(stall, ack)
  PROVE  PathInv'
<1>1. /\ TypeOK /\ PointersOrdered /\ QueueKept /\ HeadKept /\ GrantKept /\ AnswersOwned
      /\ ReadsCounted /\ LineFilled /\ LineKept /\ CpuKept /\ StoresPromised
  BY DEF PathInv
<1>2. TypeOK'
  BY <1>1, MemoryTyped
<1>3. PointersOrdered'
  <2> DEFINE io == BridgeIO(FabricIO(stall, ack))
  <2>1. (ack => bus # <<>>) /\ MemoryEdge(io)
    BY DEF MemoryClock
  <2>2. Complete(io) <=> Completes(stall, ack)
    BY <1>1, <2>1, MemoryWires
  <2>3. Complete(io) => consumer_gray_q # producer_sync_q
    BY <1>1, <2>1, <2>2, Completing
  <2> HIDE DEF io
  <2> QED BY <1>1, <1>2, <2>1, <2>3, OrderedMemory
<1>4. QueueKept' /\ HeadKept'
  BY <1>1, <1>2, MemoryQueueKept, MemoryHeadKept
<1>5. GrantKept' /\ AnswersOwned' /\ ReadsCounted'
  BY <1>1, <1>2, MemoryGrantKept, MemoryAnswersOwned, MemoryReadsCounted
<1>6. LineFilled' /\ LineKept' /\ CpuKept'
  BY <1>1, <1>2, MemoryLineFilled, MemoryLineKept, MemoryCpuKept
<1>7. StoresPromised'
  BY <1>1, <1>2, <1>4, <1>5, MemoryStores
<1> QED BY <1>2, <1>3, <1>4, <1>5, <1>6, <1>7 DEF PathInv

LEMMA NextInv == PathInv /\ [Next]_vars => PathInv'
<1> SUFFICES ASSUME PathInv, [Next]_vars PROVE PathInv'
  OBVIOUS
<1>1. CASE Next
  BY <1>1, HostInv, MemoryInv DEF Next
<1>2. CASE UNCHANGED vars
  <2>1. /\ UNCHANGED <<hostVars, memoryVars, fabricVars, producer_old, consumer_old>>
        /\ UNCHANGED <<memory, promised, bus, memory_ready, waiting, got, video_stb>>
    BY <1>2 DEF vars, bridgeVars
  <2> USE <2>1 DEF PathInv, hostVars, memoryVars, fabricVars
  <2>2. TypeOK'
    BY DEF TypeOK, BridgeTypeOK, FabricTypeOK
  <2>3. PointersOrdered'
    BY DEF PointersOrdered, Gap, Place
  <2>4. QueueKept' /\ HeadKept'
    BY DEF QueueKept, HeadKept, HeadCommand, Queues, Gap, Place, Crossed
  <2>5. GrantKept' /\ AnswersOwned'
    BY DEF GrantKept, AnswersOwned
  <2>6. ReadsCounted'
    BY DEF ReadsCounted, Reading, Issued, ReadOwner
  <2>7. LineFilled' /\ LineKept'
    BY DEF LineFilled, LineKept, Reading, ReadOwner, LineHeld, InLine, Crossed
  <2>8. CpuKept'
    BY DEF CpuKept
  <2>9. StoresPromised'
    <3>1. Pending' = Pending
      BY DEF Pending, Owed, Commands, Queued, Gap, Place, Ahead
    <3> QED BY <3>1 DEF StoresPromised, Shown, Youngest, Covers
  <2> QED BY <2>2, <2>3, <2>4, <2>5, <2>6, <2>7, <2>8, <2>9
<1> QED BY <1>1, <1>2

\* The bridge, the arbiter and the controller keep the invariant above whatever the two
\* clocks do to one another.
THEOREM PathInvariant == Spec => []PathInv
  BY InitInv, NextInv, PTL DEF Spec

\* The head is a command the host accepted, answers go to whoever asked, and the retained
\* line is what memory will hold (riscc_sdram_bridge, riscc_sdram_fabric).
THEOREM CrossingKept == Spec => []PathKept
<1>1. PathInv => PathKept
  <2> SUFFICES ASSUME PathInv PROVE PathKept
    OBVIOUS
  <2>1. HeadOwned
    <3>1. ~empty_q => HeadCommand # Garbage
      BY HeadIssued, RequestKnown DEF PathInv
    <3> QED BY <3>1 DEF PathInv, HeadKept, HeadOwned
  <2>2. LineFresh
    BY DEF PathInv, LineKept, LineHeld, InLine, LineFresh
  <2> QED BY <2>1, <2>2 DEF PathInv, PathKept
<1> QED BY <1>1, PathInvariant, PTL

\* Posted stores arrive: when nothing is on its way the SDRAM holds all of them.
THEOREM StoresArrive == Spec => []StoresLand
<1>1. PathInv => StoresLand
  <2> SUFFICES ASSUME PathInv, bus = <<>>, Crossed PROVE memory = promised
    BY DEF StoresLand, Crossed
  <2>1. consumer_gray_q \in Pointer /\ producer_gray_q = consumer_gray_q
    BY DEF PathInv, TypeOK, BridgeTypeOK, Crossed
  <2>2. Gap(consumer_gray_q, producer_gray_q) = 0
    BY <2>1, Gaps
  <2>3. Pending = <<>>
    <3>1. Owed = <<>> /\ Queued = <<>>
      BY <2>2 DEF Owed, Commands, Queued
    <3> QED BY <3>1 DEF Pending
  <2>4. \A a \in Addr, l \in Lanes : promised[a][l] = memory[a][l]
    BY <2>3 DEF PathInv, StoresPromised, Shown, Youngest
  <2>5. memory \in [Addr -> Word] /\ promised \in [Addr -> Word]
    BY DEF PathInv, TypeOK
  <2>6. \A a \in Addr : promised[a] = memory[a]
    BY <2>4, <2>5 DEF Word
  <2> QED BY <2>5, <2>6
<1> QED BY <1>1, PathInvariant, PTL

\* Two clocks, posted stores and retained lines away, the CPU sees one flat memory.
LEMMA PortStep == PathInv /\ [Next]_vars => [Port!Next]_(Port!portVars)
<1> SUFFICES ASSUME PathInv, [Next]_vars PROVE Port!Next \/ UNCHANGED <<promised, waiting, got>>
  BY DEF Port!portVars
<1>1. ASSUME NEW stall \in BOOLEAN, NEW ack \in BOOLEAN, MemoryClock(stall, ack)
      PROVE  UNCHANGED <<promised, waiting, got>>
  BY <1>1 DEF MemoryClock
<1>2. ASSUME NEW stb \in BOOLEAN, NEW c \in CpuRequests, HostClock(stb, c)
      PROVE  Port!Next
  <2>1. /\ TakesStore(c) \/ TakesRead(c) \/ TakesHit(c) \/ TakesNothing
        /\ got' = IF host_ack /\ ~waiting.we THEN {host_rdata} ELSE {}
    BY <1>2, HostCases DEF PathInv
  <2>2. IF host_ack THEN Port!Reply ELSE got' = {}
    BY <2>1 DEF PathInv, CpuKept, Port!Reply
  <2>3. Port!External({}) = {promised}
    BY DEF Port!External
  <2>4. \A r : Port!WithWrite(promised, r) = [promised EXCEPT ![r.addr] = Merge(@, r.sel, r.wdata)]
    BY DEF Port!WithWrite, Port!Overlay, Merge
  <2>5. CASE TakesNothing
    <3>1. waiting' = (IF host_ack THEN NoRequest ELSE waiting) /\ promised' = promised
      BY <2>5 DEF TakesNothing
    <3>2. Port!Step(host_ack, {}, {})
      BY <2>2, <2>3, <3>1 DEF Port!Step
    <3>3. host_ack \in BOOLEAN
      BY DEF PathInv, TypeOK, BridgeTypeOK
    <3> QED BY <3>2, <3>3 DEF Port!Next
  <2>6. CASE TakesStore(c) \/ TakesRead(c) \/ TakesHit(c)
    <3>1. /\ waiting = NoRequest \/ host_ack
          /\ waiting' = c
          /\ promised' = IF c.we THEN Port!WithWrite(promised, c) ELSE promised
      BY <2>4, <2>6 DEF TakesStore, TakesRead, TakesHit, Takes
    <3>2. Port!Step(host_ack, {c}, {})
      BY <2>2, <2>3, <3>1 DEF Port!Step
    <3>3. host_ack \in BOOLEAN
      BY DEF PathInv, TypeOK, BridgeTypeOK
    <3> QED BY <3>2, <3>3 DEF Port!Next
  <2> QED BY <2>1, <2>5, <2>6
<1>3. CASE UNCHANGED vars
  BY <1>3 DEF vars
<1> QED BY <1>1, <1>2, <1>3 DEF Next

\* Across two clocks of any phases, with posted stores and a retained line, the CPU
\* has one flat memory: an edge of the host clock accepts and answers as CpuPort does,
\* an edge of the memory clock is not seen.
THEOREM PathImplemented == Spec => ImplementsPort
<1>1. Init => Port!Init
  <2> SUFFICES ASSUME Init PROVE Port!Init
    OBVIOUS
  <2>1. promised \in [Addr -> Word] /\ waiting = NoRequest /\ got = {}
    BY PathAssumption DEF Init
  <2> QED BY <2>1 DEF Port!Init
<1> QED BY <1>1, PortStep, PathInvariant, PTL DEF Spec, ImplementsPort, Port!Spec
=============================================================================
