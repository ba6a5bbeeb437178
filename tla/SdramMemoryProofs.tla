-------------------------- MODULE SdramMemoryProofs --------------------------
(***************************************************************************)
(* Proofs about SdramMemory, the controller with its device.               *)
(*                                                                         *)
(*   MemoryInvariant   the inductive invariant, MemInv                     *)
(*   ControllerStays   Spec => []ControllerKept                            *)
(*   DeviceObeyed      Spec => []DeviceRespected                           *)
(*   QueueImplemented  Spec => ImplementsPort: the bus sees one memory     *)
(*                                                                         *)
(* The controller counts what the device will have seen after the command  *)
(* on the pins: MemInv states each age, each open row and each beat with   *)
(* that command taken (OpenedSeen, ActSeen, Settling), against the counter *)
(* that waits for it.  A part of MemInv has a lemma for an edge of the     *)
(* clock.                                                                  *)
(***************************************************************************)
EXTENDS SdramMemory, TLAPS

\* The device after the command on the pins.
Activated == IF pin.cmd.op = "ACTIVE" THEN {pin.cmd.bank} ELSE {}
OpenedSeen == (opened \ Precharged(pin.cmd)) \cup Activated
RowSeen(b) == IF b \in Activated THEN pin.cmd.row ELSE row[b]
ActSeen(b) == IF b \in Activated THEN 1 ELSE Older(act_age[b])
PreSeen(b) == IF b \in Precharged(pin.cmd) THEN 1 ELSE Older(pre_age[b])
StoresSeen == {<<a, 1>> : a \in write_second}
              \cup (IF pin.cmd.op = "WRITE" THEN {<<Target(pin.cmd), 0>>} ELSE {})
WriteSeen(b) == IF \E s \in StoresSeen : s[1].bank = b THEN 1 ELSE Older(write_age[b])
BusySeen(b) == IF pin.cmd.op = "READ" /\ pin.cmd.bank = b THEN CAS + Half - 1 ELSE Down(read_busy[b])
RefreshSeen == IF pin.cmd.op = "REFRESH" THEN 1
               ELSE IF refresh_age = MaxRefreshAge THEN MaxRefreshAge ELSE refresh_age + 1
ModeSeen == IF pin.cmd.op = "MODE" THEN 1 ELSE Older(mode_age)
RefsSeen == IF pin.cmd.op = "REFRESH" /\ init_refs < 8 THEN init_refs + 1 ELSE init_refs
PrechargedSeen == precharged \/ pin.cmd.op = "PRE_ALL"
InitializedSeen == initialized \/ pin.cmd.op = "MODE"

SetUp == {"POWERUP", "INIT_PRE", "INIT_REFRESH", "INIT_MODE"}

\* The queue, its credits and the two pointers into the ring.
QueueKept ==
  /\ RingFits
  /\ looked = One(lookup_q # Nothing)
  /\ lookup_q # Nothing => lookup_q = ring[1]
  /\ ring \in Seq(Request)
  /\ full_q => fifo_q = 0 /\ blocked_q
  /\ empty_q <=> fifo_q = 0 /\ ~full_q
  /\ head_q # Nothing => head_we_q = head_q.we
  /\ ~ready => /\ empty_q /\ blocked_q /\ pref_count_q = 0
               /\ lookup_q = Nothing /\ head_q = Nothing

\* The wires of the state machine.
MachineKept ==
  /\ delay_done_q <=> delay_q = 0
  /\ recovered_q <=> recovery_q = 0
  /\ bank_safe_q => recovery_q = 0 /\ active_age_q = 0
  /\ run_ready_q => state_q = "RUN" /\ delay_q = 0
  /\ refresh_due_q => ready /\ ~run_ready_q /\ timer_q <= 1
  /\ ~init_done_q => state_q = "POWERUP" /\ timer_q # 0
  /\ init_done_q /\ ~refresh_due_q => timer_q # 0
  /\ state_q \in SetUp => ~ready /\ open_q = {}
  /\ state_q # "RUN" => recovery_q = 0 /\ active_age_q = 0
  /\ state_q \in {"POWERUP", "ROW_PRE", "ROW_ACTIVE", "REF_PRE"} => delay_q = 0
  /\ state_q \in {"REF_PRE", "REF_CMD"} => refresh_due_q
  /\ state_q = "REF_CMD" => open_q = {}
  /\ state_q \in {"ROW_PRE", "ROW_ACTIVE"} =>
       /\ head_q # Nothing /\ ~RowHit
       /\ state_q = "ROW_PRE" <=> head_q.addr.bank \in open_q
  /\ head_q # Nothing /\ RowHit => RowOpen(head_q.addr)

\* The direction of what was issued last.
Direction == IF head_q # Nothing /\ ~head_same_direction_q THEN ~head_we_q ELSE head_we_q

\* What the device will have been given before the next command.
DeviceKept ==
  /\ open_q = OpenedSeen /\ \A b \in open_q : rows_q[b] = RowSeen(b)
  /\ IF init_done_q THEN up_age >= PowerUp ELSE up_age + timer_q >= PowerUp
  /\ pin.dqm \/ init_done_q
  /\ state_q \in {"POWERUP", "INIT_PRE"} \/ PrechargedSeen
  /\ state_q \in SetUp \/ InitializedSeen
  /\ state_q = "INIT_REFRESH" => RefsSeen = init_refresh_q
  /\ state_q = "INIT_MODE" => RefsSeen = 8
  /\ state_q \in {"POWERUP", "INIT_PRE"} => RefsSeen = 0 /\ init_refresh_q = 0
  /\ RefreshSeen + delay_q >= TRFC /\ ModeSeen + delay_q >= 2
  /\ open_q # {} => RefreshSeen >= TRFC /\ ModeSeen >= 2
  /\ \A b \in Banks :
       /\ b \in open_q => ActSeen(b) + delay_q >= TRCD /\ ActSeen(b) + active_age_q >= TRAS
       /\ b \notin open_q => PreSeen(b) + delay_q >= TRP /\ ActSeen(b) + delay_q >= TRAS + TRP
       /\ WriteSeen(b) + recovery_q >= TWR
       /\ ~Direction => WriteSeen(b) >= TWR
       /\ BusySeen(b) <= recovery_q

\* A command that is n edges from its answer.
Flying(n) ==
  \/ n <= CAS + Half /\ CAS + Half - n \in read_pipe_q
  \/ n <= Half /\ Half - n \in write_pipe_q
\* The commands to be answered before it.
Ahead(n) ==
  One(mem_ack) + (IF n > 0 THEN One(Flying(0)) ELSE 0) + (IF n > 1 THEN One(Flying(1)) ELSE 0)
  + (IF n > 2 THEN One(Flying(2)) ELSE 0) + (IF n > 3 THEN One(Flying(3)) ELSE 0)
  + (IF n > 4 THEN One(Flying(4)) ELSE 0)
InFlight == Ahead(5)
Flown(n) == owed[Ahead(n) + 1]
Reader(k) == Flown(CAS + Half - k)
Writer(k) == Flown(Half - k)

FlightKept ==
  /\ read_pipe_q # {} => write_pipe_q = {} /\ ~Direction
  /\ write_pipe_q # {} => Direction
  /\ \A k \in read_pipe_q : recovery_q >= ReadWait - k
  /\ \A k \in write_pipe_q : recovery_q >= WriteWait - k
  /\ Half = 1 => \A k \in ReadPipe : ~(k \in read_pipe_q /\ k + 1 \in read_pipe_q)
  /\ Half = 1 => ~(0 \in write_pipe_q /\ 1 \in write_pipe_q)
  /\ Half = 1 /\ (0 \in read_pipe_q \/ 0 \in write_pipe_q) => ~run_ready_q /\ ~bank_safe_q
  /\ pin.cmd.op = "READ" <=> 0 \in read_pipe_q
  /\ pin.cmd.op = "WRITE" <=> 0 \in write_pipe_q
  /\ burst_q <=> Half = 1 /\ 0 \in write_pipe_q
  /\ pin.oe <=> write_pipe_q # {}
  /\ write_second # {} <=> 1 \in write_pipe_q
  /\ 1 \in write_pipe_q => pin.cmd = Nop
  /\ ~ready => read_pipe_q = {} /\ write_pipe_q = {} /\ ~mem_ack
  /\ pin.dqm => write_pipe_q # {} \/ head_q = Nothing
  /\ \A k \in read_pipe_q : ~pin.dqm /\ ~dqm_prev /\ (k > 0 => ~dqm_prev2)

\* What is owed is in flight, at the head or in the ring, in this order.
OwedKept ==
  /\ Len(owed) = InFlight + One(head_q # Nothing) + Len(ring)
  /\ head_q # Nothing => owed[InFlight + 1] = head_q
  /\ \A i \in DOMAIN ring : owed[InFlight + One(head_q # Nothing) + i] = ring[i]
  /\ \A k \in read_pipe_q : ~Reader(k).we
  /\ \A k \in write_pipe_q : Writer(k).we
  /\ 0 \in read_pipe_q => Target(pin.cmd) = Reader(0).addr
  /\ 0 \in write_pipe_q => Target(pin.cmd) = Writer(0).addr
  /\ 1 \in write_pipe_q => write_second = {Writer(1).addr}

\* The beats under way, the next one first.
BeatsKept ==
  /\ \A i, j \in DOMAIN reads : i < j => reads[i].due < reads[j].due
  /\ \A i \in DOMAIN reads : \E k \in read_pipe_q \ {0} :
       reads[i].due = CAS + reads[i].beat - 1 - k
  /\ \A k \in read_pipe_q \ {0}, h \in Beats : k < CAS + h =>
       \E i \in DOMAIN reads :
         reads[i] = [due |-> CAS + h - 1 - k, addr |-> Reader(k).addr, beat |-> h]
  /\ \A k \in read_pipe_q, h \in Beats : k = CAS + h => dq_o = memory[Reader(k).addr][h]
  /\ \A k \in read_pipe_q : Half = 1 /\ k = CAS + 1 => read_low_q = memory[Reader(k).addr][0]

\* The cells once the stores on the pins are done, and memory once those in flight are.
Settling(a, h) ==
  IF burst_q /\ a = Target(pin.cmd) /\ h = 1 /\ write_high_q[2] THEN write_high_q[1]
  ELSE IF ~pin.dqm /\ <<a, h>> \in StoresSeen THEN pin.dq
  ELSE memory[a][h]
Acked == IF mem_ack THEN Stored(contents, owed[1]) ELSE contents
Done == IF write_pipe_q # {} THEN Stored(Acked, owed[One(mem_ack) + 1]) ELSE Acked
DataKept ==
  /\ \A a \in Addr, h \in Beats : Settling(a, h) = Done[a][h]
  /\ mem_rdata = IF mem_ack /\ ~owed[1].we THEN {contents[owed[1].addr]} ELSE {}

\* A refresh is in time: n edges, then the precharge of all banks, are left.
Deadline == RefreshCycles + Slack
Within(n) == RefreshSeen + n + 1 + TRP <= Deadline
RefreshKept ==
  /\ state_q = "INIT_MODE" \/ (state_q = "INIT_REFRESH" /\ init_refresh_q # 0) =>
       RefreshSeen + delay_q <= TRFC
  /\ init_done_q /\ ~ready => timer_q = RefreshCycles - 1
  /\ state_q = "RUN" /\ ~ready => RefreshSeen + delay_q <= TRFC + 3
  /\ state_q \in {"ROW_PRE", "ROW_ACTIVE"} => ready
  /\ state_q \in SetUp => ~InitializedSeen
  /\ recovery_q <= Longest
  /\ ready /\ ~refresh_due_q => RefreshSeen + timer_q <= RefreshCycles + TRFC + 3
  /\ refresh_due_q =>
       /\ state_q = "RUN" => /\ Within(delay_q)
                             /\ bank_safe_q \/ \A n \in {recovery_q, active_age_q, 1} : Within(n)
       /\ state_q = "ROW_PRE" => Within(TRP)
       /\ state_q = "ROW_ACTIVE" => \A n \in {TRCD, TRAS, 2} : Within(n)
       /\ state_q = "REF_PRE" => RefreshSeen + TRP <= Deadline
       /\ state_q = "REF_CMD" => RefreshSeen + delay_q <= Deadline
  /\ RefreshInTime

MemInv ==
  /\ TypeOK /\ QueueKept /\ MachineKept /\ DeviceKept /\ FlightKept /\ OwedKept
  /\ BeatsKept /\ DataKept /\ RefreshKept /\ PinLegal(pin)

-----------------------------------------------------------------------------
(* Constants and the edge. *)

\* The named times.
LEMMA Times ==
  /\ Half \in {0, 1} /\ CAS \in {2, 3} /\ CAS \in Nat /\ Half \in Nat
  /\ TRCD \in Nat /\ TRP \in Nat /\ TRFC \in Nat /\ TRAS \in Nat /\ TWR \in Nat /\ PowerUp \in Nat
  /\ TRCD > 0 /\ TRP > 0 /\ TRFC > 0 /\ TRAS > 0 /\ TWR > 0 /\ PowerUp > 0
  /\ WriteWait = TWR + Half + 1 /\ ReadWait = CAS + Half + 3
  /\ WriteWait \in Nat /\ ReadWait \in Nat
  BY DeviceAssumption DEF WriteWait, ReadWait

\* The bounds of the ages are past every time the device waits for.
LEMMA Ages ==
  /\ MaxAge \in Nat /\ MaxRefreshAge \in Nat
  /\ MaxAge >= TRCD /\ MaxAge >= TRFC /\ MaxAge >= TRAS + TRP /\ MaxAge >= TWR /\ MaxAge >= PowerUp
  /\ MaxAge < MaxRefreshAge
  BY DeviceAssumption

\* The longest of a set of times, one more at a time.
LEMMA Longer ==
  ASSUME NEW S \in SUBSET Nat, NEW n \in Nat, \E l \in S : \A k \in S : k <= l
  PROVE  \E l \in S \cup {n} : \A k \in S \cup {n} : k <= l
<1>1. PICK m \in S : \A k \in S : k <= m
  OBVIOUS
<1>2. CASE n <= m
  BY <1>1, <1>2
<1>3. CASE m <= n
  BY <1>1, <1>3
<1> QED BY <1>2, <1>3

\* Three times have a longest.
LEMMA Longest3 ==
  ASSUME NEW a \in Nat, NEW b \in Nat, NEW c \in Nat
  PROVE  \E l \in {a, b, c} : \A k \in {a, b, c} : k <= l
<1>1. \E l \in {a} : \A k \in {a} : k <= l
  OBVIOUS
<1>2. \E l \in {a} \cup {b} : \A k \in {a} \cup {b} : k <= l
  BY <1>1, Longer
<1>3. {a} \cup {b} \in SUBSET Nat /\ ({a} \cup {b}) \cup {c} = {a, b, c}
  OBVIOUS
<1> QED BY <1>2, <1>3, Longer

\* The longest delay of the state machine.
LEMMA MaxWaitBounds ==
  /\ MaxWait \in Nat
  /\ TRP <= MaxWait /\ TRFC <= MaxWait /\ TRCD <= MaxWait /\ 3 <= MaxWait
<1> DEFINE S == {TRP, TRFC, TRCD}
<1>1. \E l \in S : \A k \in S : k <= l
  BY Longest3, Times
<1>2. S \in SUBSET Nat /\ S \cup {3} = {TRP, TRFC, TRCD, 3}
  BY Times
<1>3. \E l \in S \cup {3} : \A k \in S \cup {3} : k <= l
  <2> HIDE DEF S
  <2> QED BY <1>1, <1>2, Longer
<1>4. \E l \in {TRP, TRFC, TRCD, 3} : \A k \in {TRP, TRFC, TRCD, 3} : k <= l
  BY <1>2, <1>3
<1>5. MaxWait \in {TRP, TRFC, TRCD, 3} /\ \A k \in {TRP, TRFC, TRCD, 3} : k <= MaxWait
  BY <1>4 DEF MaxWait
<1> QED BY <1>5, Times

\* The longest wait, and the slack it gives the refresh interval.
LEMMA LongestBounds ==
  /\ Longest \in Nat /\ Slack \in Nat /\ Slack = TRFC + TRP + Longest + 4
  /\ TRFC <= Longest /\ TRP <= Longest /\ TRCD <= Longest /\ TRAS <= Longest
  /\ ReadWait <= Longest /\ WriteWait <= Longest
<1> DEFINE S3 == {TRFC, TRP, TRCD}
           S4 == S3 \cup {TRAS}
           S5 == S4 \cup {ReadWait}
           S6 == S5 \cup {WriteWait}
           Has(S) == S \in SUBSET Nat /\ \E l \in S : \A k \in S : k <= l
<1>0. /\ TRFC \in Nat /\ TRP \in Nat /\ TRCD \in Nat /\ TRAS \in Nat
      /\ ReadWait \in Nat /\ WriteWait \in Nat
  BY Times
<1>1. Has(S3)
  BY <1>0, Longest3
<1>2. Has(S4)
  <2> HIDE DEF S3
  <2> QED BY <1>0, <1>1, Longer
<1>3. Has(S5)
  <2> HIDE DEF S4
  <2> QED BY <1>0, <1>2, Longer
<1>4. Has(S6)
  <2> HIDE DEF S5
  <2> QED BY <1>0, <1>3, Longer
<1>5. S6 = {TRFC, TRP, TRCD, TRAS, ReadWait, WriteWait}
  OBVIOUS
<1>6. Longest \in S6 /\ \A k \in S6 : k <= Longest
  BY <1>4, <1>5 DEF Longest
<1> QED BY <1>0, <1>6 DEF Slack

Offers == {<<>>} \cup {<<c>> : c \in Requests}

\* An access is issued in RUN, to the open row of its bank, before the refresh is due.
LEMMA IssueWhen ==
  ASSUME MachineKept, Issue
  PROVE  /\ state_q = "RUN" /\ delay_q = 0 /\ ~refresh_due_q /\ DirectionOk
         /\ head_q # Nothing /\ RowOpen(head_q.addr)
<1>1. run_ready_q /\ RowHit /\ DirectionOk
  BY DEF Issue
<1>2. head_q # Nothing
  BY <1>1 DEF RowHit
<1> QED BY <1>1, <1>2 DEF MachineKept

\* What goes to the pins.
LEMMA CommandIs ==
  ASSUME MachineKept
  PROVE  /\ Command.op \in {"NOP", "PRE_ALL", "REFRESH", "MODE", "PRE", "ACTIVE", "READ", "WRITE"}
         /\ Command.op = "PRE_ALL" <=> Doing("INIT_PRE") \/ Doing("REF_PRE")
         /\ Command.op = "REFRESH" <=> Doing("INIT_REFRESH") \/ Doing("REF_CMD")
         /\ Command.op = "MODE" <=> Doing("INIT_MODE")
         /\ Command.op = "PRE" <=> Doing("ROW_PRE")
         /\ Command.op = "ACTIVE" <=> Doing("ROW_ACTIVE")
         /\ Command.op = "READ" <=> Issue /\ ~head_we_q
         /\ Command.op = "WRITE" <=> Issue /\ head_we_q
         /\ Command.op = "NOP" => Command = Nop
         /\ Command.op \in {"PRE", "ACTIVE", "READ", "WRITE"} => Command.bank = head_q.addr.bank
         /\ Command.op = "ACTIVE" => Command.row = head_q.addr.row
         /\ Command.op \in {"READ", "WRITE"} => Command.col = head_q.addr.col
<1> DEFINE Is(s) == Doing(s)
<1>1. Issue => state_q = "RUN"
  BY IssueWhen
<1>2. CASE Doing("INIT_PRE") \/ Doing("REF_PRE")
  BY <1>1, <1>2 DEF Command, Doing
<1>3. CASE Doing("INIT_REFRESH") \/ Doing("REF_CMD")
  BY <1>1, <1>3 DEF Command, Doing
<1>4. CASE Doing("INIT_MODE")
  BY <1>1, <1>4 DEF Command, Doing
<1>5. CASE Doing("ROW_PRE")
  BY <1>1, <1>5 DEF Command, Doing
<1>6. CASE Doing("ROW_ACTIVE")
  BY <1>1, <1>6 DEF Command, Doing
<1>7. CASE Issue
  BY <1>1, <1>7 DEF Command, Doing
<1>8. CASE /\ ~Issue /\ ~Doing("INIT_PRE") /\ ~Doing("REF_PRE") /\ ~Doing("INIT_REFRESH")
           /\ ~Doing("REF_CMD") /\ ~Doing("INIT_MODE") /\ ~Doing("ROW_PRE") /\ ~Doing("ROW_ACTIVE")
  BY <1>8 DEF Command, Nop
<1> QED BY <1>2, <1>3, <1>4, <1>5, <1>6, <1>7, <1>8

\* At an edge the device takes the command on the pins: its state becomes what the
\* controller has been counting on.
LEMMA DeviceSees ==
  ASSUME NEW offer, Clock(offer)
  PROVE  /\ pin'.cmd = Command
         /\ opened' = OpenedSeen
         /\ row' = [b \in Banks |-> RowSeen(b)]
         /\ act_age' = [b \in Banks |-> ActSeen(b)]
         /\ pre_age' = [b \in Banks |-> PreSeen(b)]
         /\ write_age' = [b \in Banks |-> WriteSeen(b)]
         /\ read_busy' = [b \in Banks |-> BusySeen(b)]
         /\ refresh_age' = RefreshSeen /\ mode_age' = ModeSeen /\ up_age' = Older(up_age)
         /\ init_refs' = RefsSeen
         /\ (precharged' <=> PrechargedSeen) /\ (initialized' <=> InitializedSeen)
<1>1. DeviceEdge(pin) /\ ControllerEdge(offer)
  BY DEF Clock
<1>2. pin'.cmd = Command
  BY <1>1 DEF ControllerEdge, PinStep
<1>3. /\ opened' = OpenedSeen
      /\ row' = [b \in Banks |-> RowSeen(b)]
      /\ act_age' = [b \in Banks |-> ActSeen(b)]
      /\ pre_age' = [b \in Banks |-> PreSeen(b)]
      /\ (precharged' <=> PrechargedSeen)
  BY <1>1 DEF DeviceEdge, BankStep, OpenedSeen, Activated, RowSeen, ActSeen, PreSeen, PrechargedSeen
<1>4. write_age' = [b \in Banks |-> WriteSeen(b)]
  BY <1>1 DEF DeviceEdge, StoreStep, WriteSeen, StoresSeen
<1>5. read_busy' = [b \in Banks |-> BusySeen(b)]
  BY <1>1 DEF DeviceEdge, LaunchStep, BusySeen, Down
<1>6. /\ refresh_age' = RefreshSeen /\ mode_age' = ModeSeen /\ up_age' = Older(up_age)
      /\ init_refs' = RefsSeen /\ (initialized' <=> InitializedSeen)
  BY <1>1 DEF DeviceEdge, SetupStep, RefreshSeen, ModeSeen, RefsSeen, InitializedSeen
<1> QED BY <1>2, <1>3, <1>4, <1>5, <1>6

-----------------------------------------------------------------------------
(* The queue. *)

\* A pointer within a ring, and one turn on.
LEMMA Turn ==
  ASSUME NEW n \in Nat \ {0}, NEW i \in 0 .. n - 1
  PROVE  i % n = i /\ (i + n) % n = i
<1>1. i % n = i
  OBVIOUS
<1>2. (1 * n + i) % n = i
  OBVIOUS
<1> QED BY <1>1, <1>2

\* Its counter, in so many bits.
LEMMA FifoCounts ==
  ASSUME NEW f \in 0 .. Depth - 1
  PROVE  /\ Depth \in Nat \ {0}
         /\ (f + 0 + Depth - 0) % Depth = f /\ (f + 1 + Depth - 1) % Depth = f
         /\ (f + 1 + Depth - 0) % Depth = IF f = Depth - 1 THEN 0 ELSE f + 1
         /\ (f + 0 + Depth - 1) % Depth = IF f = 0 THEN Depth - 1 ELSE f - 1
         /\ (f + 1) % Depth = 0 <=> f = Depth - 1
<1>1. Depth \in Nat \ {0} /\ Depth >= 2
  BY ControllerAssumption
<1>2. (f + Depth) % Depth = f
  BY <1>1, Turn
<1>3. CASE f = Depth - 1
  <2>1. (0 + Depth) % Depth = 0 /\ ((f - 1) + Depth) % Depth = f - 1
    BY <1>1, <1>3, Turn
  <2>2. (1 * Depth + Depth) % Depth = 0
    <3>1. (2 * Depth + 0) % Depth = 0
      BY <1>1
    <3> QED BY <1>1, <3>1
  <2> QED BY <1>1, <1>2, <1>3, <2>1, <2>2
<1>4. CASE f < Depth - 1
  <2>1. f + 1 \in 0 .. Depth - 1
    BY <1>1, <1>4
  <2>2. ((f + 1) + Depth) % Depth = f + 1 /\ (f + 1) % Depth = f + 1
    BY <1>1, <2>1, Turn
  <2>3. CASE f = 0
    <3>1. (Depth - 1) % Depth = Depth - 1
      BY <1>1, Turn
    <3> QED BY <1>1, <1>2, <1>4, <2>2, <2>3, <3>1
  <2>4. CASE f > 0
    <3>1. f - 1 \in 0 .. Depth - 1
      BY <1>1, <2>4
    <3>2. ((f - 1) + Depth) % Depth = f - 1
      BY <1>1, <3>1, Turn
    <3> QED BY <1>1, <1>2, <1>4, <2>2, <2>4, <3>2
  <2> QED BY <2>3, <2>4
<1> QED BY <1>1, <1>3, <1>4

\* What enters, and what moves on.
LEMMA QueueMoves ==
  ASSUME TypeOK, QueueKept, NEW offer \in Offers
  PROVE  /\ Accept(offer) => ~full_q /\ ready /\ \E c \in Requests : offer = <<c>>
         /\ Pop => ~empty_q /\ pref_count_q < 2
         /\ LoadHead => looked = 1 /\ lookup_q = ring[1] /\ lookup_q # Nothing /\ Len(ring) >= 1
         /\ LoadLookup => pref_count_q > 0 /\ Len(ring) >= looked + 1 /\ (looked = 1 => LoadHead)
         /\ ~ready => ~Pop /\ ~LoadHead /\ ~LoadLookup /\ ring = <<>> /\ head_q = Nothing
<1>0. /\ looked \in 0 .. 1 /\ fifo_q \in 0 .. Depth - 1 /\ pref_count_q \in 0 .. 2
      /\ full_q \in BOOLEAN /\ Depth \in Nat /\ ring \in Seq(Request) /\ Len(ring) \in Nat
  BY ControllerAssumption DEF TypeOK, ControllerTypeOK, QueueKept
<1>1. Accept(offer) => ~full_q /\ ready /\ \E c \in Requests : offer = <<c>>
  BY DEF Accept, Offers, QueueKept
<1>2. Pop => ~empty_q /\ pref_count_q < 2
  BY DEF Pop
<1>3. Len(ring) = looked + pref_count_q + (IF full_q THEN Depth ELSE fifo_q)
  BY DEF QueueKept, RingFits
<1>4. LoadHead => looked = 1 /\ lookup_q = ring[1] /\ lookup_q # Nothing /\ Len(ring) >= 1
  <2>1. LoadHead => lookup_q # Nothing /\ looked = 1 /\ lookup_q = ring[1]
    BY DEF LoadHead, QueueKept, One
  <2> QED BY <1>0, <1>3, <2>1
<1>5. LoadLookup => pref_count_q > 0 /\ Len(ring) >= looked + 1 /\ (looked = 1 => LoadHead)
  <2>1. LoadLookup => pref_count_q > 0 /\ (lookup_q = Nothing \/ LoadHead)
    BY <1>0 DEF LoadLookup, LoadHead
  <2>2. looked = 1 => lookup_q # Nothing
    BY DEF QueueKept, One
  <2> QED BY <1>0, <1>3, <2>1, <2>2
<1>6. ASSUME ~ready
      PROVE ~Pop /\ ~LoadHead /\ ~LoadLookup /\ ring = <<>> /\ head_q = Nothing
  <2>1. /\ empty_q /\ pref_count_q = 0 /\ lookup_q = Nothing /\ head_q = Nothing
        /\ looked = 0 /\ fifo_q = 0 /\ ~full_q
    BY <1>6 DEF QueueKept, One
  <2>2. Len(ring) = 0
    BY <1>0, <1>3, <2>1
  <2> QED BY <1>0, <2>1, <2>2 DEF Pop, LoadHead, LoadLookup
<1> QED BY <1>1, <1>2, <1>4, <1>5, <1>6

\* The ring loses its first command to the head and gains the one accepted.
LEMMA RingNext ==
  ASSUME TypeOK, QueueKept, NEW offer \in Offers, RingStep(offer)
  PROVE  /\ ring' = (IF LoadHead THEN Tail(ring) ELSE ring)
                    \o (IF Accept(offer) THEN offer ELSE <<>>)
         /\ ring' \in Seq(Request)
         /\ Len(ring') = Len(ring) + One(Accept(offer)) - One(LoadHead)
         /\ \A i \in 1 .. Len(ring) - One(LoadHead) : ring'[i] = ring[i + One(LoadHead)]
         /\ Accept(offer) => ring'[Len(ring')] = offer[1]
         /\ looked' \in 0 .. 1 /\ looked' = looked + One(LoadLookup) - One(LoadHead)
<1>0. ring \in Seq(Request) /\ looked \in 0 .. 1
  BY DEF QueueKept, TypeOK, ControllerTypeOK
<1>1. /\ Accept(offer) => ~full_q /\ \E c \in Requests : offer = <<c>>
      /\ LoadHead => Len(ring) >= 1 /\ looked = 1
      /\ LoadLookup => (looked = 1 => LoadHead)
  BY QueueMoves
<1>2. looked' \in 0 .. 1 /\ looked' = looked + One(LoadLookup) - One(LoadHead)
  BY <1>0, <1>1 DEF RingStep, One
<1> DEFINE old == IF LoadHead THEN Tail(ring) ELSE ring
           new == IF Accept(offer) THEN offer ELSE <<>>
<1>3. ring' = old \o new
  BY <1>1 DEF RingStep
<1>4. /\ old \in Seq(Request) /\ Len(old) = Len(ring) - One(LoadHead)
      /\ \A i \in 1 .. Len(old) : old[i] = ring[i + One(LoadHead)]
  BY <1>0, <1>1 DEF One
<1>5. new \in Seq(Request) /\ Len(new) = One(Accept(offer)) /\ (Accept(offer) => new[1] = offer[1])
  <2>1. CASE Accept(offer)
    <3>1. PICK c \in Requests : offer = <<c>>
      BY <1>1, <2>1
    <3>2. c \in Request /\ new = <<c>>
      BY <2>1, <3>1, ControllerAssumption
    <3> QED BY <2>1, <3>1, <3>2 DEF One
  <2>2. CASE ~Accept(offer)
    BY <2>2 DEF One
  <2> QED BY <2>1, <2>2
<1> HIDE DEF old, new
<1>6. /\ ring' \in Seq(Request) /\ Len(ring') = Len(old) + Len(new)
      /\ \A i \in 1 .. Len(old) : ring'[i] = old[i]
      /\ \A i \in 1 .. Len(new) : ring'[Len(old) + i] = new[i]
  <2>1. old \in Seq(Request) /\ new \in Seq(Request)
    BY <1>4, <1>5
  <2>2. ASSUME NEW r, r = old \o new
        PROVE  /\ r \in Seq(Request) /\ Len(r) = Len(old) + Len(new)
               /\ \A i \in 1 .. Len(old) : r[i] = old[i]
               /\ \A i \in 1 .. Len(new) : r[Len(old) + i] = new[i]
    BY <2>1, <2>2
  <2> QED BY <1>3, <2>2, Zenon
<1>7. Len(ring') = Len(ring) + One(Accept(offer)) - One(LoadHead)
  BY <1>0, <1>4, <1>5, <1>6 DEF One
<1>8. Accept(offer) => ring'[Len(ring')] = offer[1]
  BY <1>5, <1>6, <1>4 DEF One
<1>9. \A i \in 1 .. Len(ring) - One(LoadHead) : ring'[i] = ring[i + One(LoadHead)]
  BY <1>4, <1>6
<1> QED BY <1>2, <1>3, <1>6, <1>7, <1>8, <1>9 DEF old, new

\* The head is the oldest command of the ring.
LEMMA HeadNext ==
  ASSUME TypeOK, QueueKept, NEW offer \in Offers, HeadStep
  PROVE  /\ head_q' = IF LoadHead THEN ring[1] ELSE IF Issue THEN Nothing ELSE head_q
         /\ LoadHead => ring[1] \in Request
         /\ head_we_q' = IF LoadHead THEN ring[1].we ELSE head_we_q
         /\ head_same_direction_q' = IF LoadHead THEN ring[1].we = head_we_q
                                     ELSE head_same_direction_q
         /\ lookup_q' = IF LoadLookup THEN ring[looked + 1]
                        ELSE IF LoadHead THEN Nothing ELSE lookup_q
<1>1. LoadHead => lookup_q = ring[1] /\ Len(ring) >= 1
  BY QueueMoves
<1>2. LoadHead => ring[1] \in Request
  BY <1>1 DEF QueueKept
<1>3. ASSUME NEW r \in Request PROVE [r EXCEPT !.data = r.data, !.mask = r.mask] = r
  BY DEF Request
<1>4. LoadHead => head_q' = ring[1]
  <2> SUFFICES ASSUME LoadHead PROVE head_q' = ring[1]
    OBVIOUS
  <2> DEFINE r == ring[1]
  <2>1. lookup_q = r /\ r \in Request
    BY <1>1, <1>2
  <2>2. head_q' = [lookup_q EXCEPT !.data = r.data, !.mask = r.mask]
    BY DEF HeadStep
  <2> HIDE DEF r
  <2>3. head_q' = r
    BY <2>1, <2>2, <1>3
  <2> QED BY <2>3 DEF r
<1> QED BY <1>1, <1>2, <1>4 DEF HeadStep

\* Credits, backpressure and the two pointers agree with the ring after an edge.
LEMMA QueueNext ==
  ASSUME TypeOK, QueueKept, MachineKept, NEW offer \in Offers, Clock(offer)
  PROVE  /\ QueueKept'
         /\ fifo_q' \in 0 .. Depth - 1 /\ pref_count_q' \in 0 .. 2 /\ looked' \in 0 .. 1
         /\ {full_q', empty_q', blocked_q'} \subseteq BOOLEAN
<1> DEFINE A == One(Accept(offer))
           P == One(Pop)
           H == One(LoadHead)
           L == One(LoadLookup)
<1>1. RingStep(offer) /\ AdmissionStep(offer) /\ HeadStep /\ MachineStep
  BY DEF Clock, ControllerEdge
<1>2. /\ looked \in 0 .. 1 /\ fifo_q \in 0 .. Depth - 1 /\ pref_count_q \in 0 .. 2
      /\ {full_q, empty_q, blocked_q, ready} \subseteq BOOLEAN /\ Depth \in Nat /\ Depth >= 2
      /\ RingSize \in Nat /\ RingSize >= Depth + 4 /\ ring \in Seq(Request) /\ Len(ring) \in Nat
  BY ControllerAssumption DEF TypeOK, ControllerTypeOK, QueueKept
<1>3. /\ Accept(offer) => ~full_q /\ ready
      /\ Pop => ~empty_q /\ pref_count_q < 2
      /\ LoadHead => looked = 1 /\ lookup_q = ring[1] /\ lookup_q # Nothing /\ Len(ring) >= 1
      /\ LoadLookup => pref_count_q > 0 /\ Len(ring) >= looked + 1 /\ (looked = 1 => LoadHead)
      /\ ~ready => ~Pop /\ ~LoadHead /\ ~LoadLookup /\ ring = <<>> /\ head_q = Nothing
  BY QueueMoves
<1>4. /\ ring' \in Seq(Request) /\ Len(ring') = Len(ring) + A - H
      /\ \A i \in 1 .. Len(ring) - H : ring'[i] = ring[i + H]
      /\ looked' \in 0 .. 1 /\ looked' = looked + L - H
  BY <1>1, RingNext
<1>5. /\ A \in {0, 1} /\ P \in {0, 1} /\ H \in {0, 1} /\ L \in {0, 1}
      /\ (A = 1 <=> Accept(offer)) /\ (P = 1 <=> Pop) /\ (H = 1 <=> LoadHead)
      /\ (L = 1 <=> LoadLookup)
  BY DEF One
<1>6. /\ fifo_q' = (fifo_q + A + Depth - P) % Depth
      /\ full_q' <=> ~Pop /\ (full_q \/ (Accept(offer) /\ LastFree))
      /\ empty_q' <=> ~Accept(offer) /\ (empty_q \/ (Pop /\ LastUsed))
      /\ pref_count_q' = pref_count_q + P - L
      /\ blocked_q' <=> ~ready \/ (~Pop /\ (full_q \/ (offer # <<>> /\ LastFree)))
      /\ {full_q', empty_q', blocked_q'} \subseteq BOOLEAN
  BY <1>1, <1>2 DEF AdmissionStep, Stall
<1>7. /\ LastFree <=> fifo_q = Depth - 1
      /\ LastUsed <=> fifo_q = 1
  BY <1>2, FifoCounts DEF LastFree, LastUsed
<1>8. /\ (empty_q <=> fifo_q = 0 /\ ~full_q) /\ (full_q => fifo_q = 0)
      /\ Len(ring) = looked + pref_count_q + (IF full_q THEN Depth ELSE fifo_q)
      /\ (looked = 1 <=> lookup_q # Nothing)
  BY <1>2 DEF QueueKept, RingFits, One
<1>9. fifo_q' = IF A = P THEN fifo_q
                ELSE IF A = 1 THEN IF fifo_q = Depth - 1 THEN 0 ELSE fifo_q + 1
                ELSE IF fifo_q = 0 THEN Depth - 1 ELSE fifo_q - 1
  BY <1>2, <1>5, <1>6, FifoCounts
<1> HIDE DEF A, P, H, L
<1>10. fifo_q' \in 0 .. Depth - 1 /\ pref_count_q' \in 0 .. 2
  BY <1>2, <1>3, <1>5, <1>6, <1>9
<1>11. (full_q' => fifo_q' = 0 /\ blocked_q') /\ (empty_q' <=> fifo_q' = 0 /\ ~full_q')
  <2>1. Accept(offer) => offer # <<>>
    BY DEF Accept
  <2>2. full_q' => fifo_q' = 0 /\ blocked_q'
    BY <1>2, <1>3, <1>5, <1>6, <1>7, <1>8, <1>9, <2>1
  <2>3. empty_q' <=> fifo_q' = 0 /\ ~full_q'
    BY <1>2, <1>3, <1>5, <1>6, <1>7, <1>8, <1>9
  <2> QED BY <2>2, <2>3
<1>12. Len(ring') = looked' + pref_count_q' + (IF full_q' THEN Depth ELSE fifo_q')
  <2> DEFINE held == IF full_q THEN Depth ELSE fifo_q
  <2>0. (full_q' => P = 0 /\ (full_q \/ (A = 1 /\ fifo_q = Depth - 1))) /\ (full_q => A = 0)
    BY <1>3, <1>5, <1>6, <1>7
  <2>1. CASE full_q
    <3>1. fifo_q = 0 /\ held = Depth /\ A = 0 /\ (full_q' <=> P = 0)
      BY <1>5, <1>6, <1>8, <2>0, <2>1
    <3>2. (IF full_q' THEN Depth ELSE fifo_q') = held + A - P
      BY <1>2, <1>5, <1>9, <3>1
    <3>3. Len(ring) = looked + pref_count_q + held
      BY <1>8
    <3>4. held \in Nat
      BY <1>2
    <3> HIDE DEF held
    <3> QED BY <1>2, <1>4, <1>5, <1>6, <3>2, <3>3, <3>4
  <2>2. CASE ~full_q
    <3>1. held = fifo_q /\ (full_q' <=> P = 0 /\ A = 1 /\ fifo_q = Depth - 1) /\ (P = 1 => fifo_q # 0)
      BY <1>3, <1>5, <1>6, <1>7, <1>8, <2>2
    <3>2. (IF full_q' THEN Depth ELSE fifo_q') = held + A - P
      BY <1>2, <1>5, <1>9, <3>1
    <3> QED BY <1>2, <1>4, <1>5, <1>6, <1>8, <3>2
  <2> QED BY <1>2, <2>1, <2>2
<1>13. RingFits'
  <2>1. Len(ring') \in Nat
    BY <1>4
  <2>2. Len(ring') <= RingSize /\ (~full_q' => Len(ring') < RingSize)
    BY <1>2, <1>4, <1>10, <1>12, <2>1
  <2> QED BY <1>12, <2>2 DEF RingFits
<1>14. /\ head_q' = IF LoadHead THEN ring[1] ELSE IF Issue THEN Nothing ELSE head_q
       /\ head_we_q' = IF LoadHead THEN ring[1].we ELSE head_we_q
       /\ lookup_q' = IF LoadLookup THEN ring[looked + 1]
                      ELSE IF LoadHead THEN Nothing ELSE lookup_q
  BY <1>1, HeadNext
<1>15. LoadLookup => ring[looked + 1] \in Request /\ ring[looked + 1] # Nothing
  BY <1>2, <1>3, ControllerAssumption
<1>16. looked' = One(lookup_q' # Nothing)
  BY <1>2, <1>3, <1>4, <1>5, <1>8, <1>14, <1>15 DEF One
<1>17. lookup_q' # Nothing => lookup_q' = ring'[1]
  <2>1. CASE LoadLookup
    <3>1. looked - H = 0 /\ Len(ring) - H >= 1 /\ ring'[1] = ring[1 + H]
      BY <1>2, <1>3, <1>4, <1>5, <2>1
    <3> QED BY <1>2, <1>5, <1>14, <2>1, <3>1
  <2>2. CASE ~LoadLookup /\ ~LoadHead
    <3>1. lookup_q # Nothing => Len(ring) >= 1 /\ lookup_q = ring[1]
      BY <1>2, <1>8 DEF QueueKept
    <3>2. lookup_q # Nothing => ring'[1] = ring[1]
      BY <1>2, <1>4, <1>5, <2>2, <3>1
    <3> QED BY <1>14, <2>2, <3>1, <3>2
  <2> QED BY <1>14, <2>1, <2>2
<1>18. head_q' # Nothing => head_we_q' = head_q'.we
  BY <1>14 DEF QueueKept
<1>19. ~ready' => /\ empty_q' /\ blocked_q' /\ pref_count_q' = 0
                  /\ lookup_q' = Nothing /\ head_q' = Nothing
  <2>1. SUFFICES ASSUME ~ready' PROVE /\ empty_q' /\ blocked_q' /\ pref_count_q' = 0
                                      /\ lookup_q' = Nothing /\ head_q' = Nothing
    OBVIOUS
  <2>2. ~ready
    BY <1>1, <2>1 DEF MachineStep
  <2>3. /\ ~Accept(offer) /\ ~Pop /\ ~LoadHead /\ ~LoadLookup /\ empty_q /\ pref_count_q = 0
        /\ lookup_q = Nothing /\ head_q = Nothing
    BY <1>3, <2>2 DEF QueueKept
  <2> QED BY <1>2, <1>5, <1>6, <1>14, <2>2, <2>3
<1> QED BY <1>4, <1>6, <1>10, <1>11, <1>13, <1>16, <1>17, <1>18, <1>19 DEF QueueKept

-----------------------------------------------------------------------------
(* The state machine. *)

\* What the types say of single variables.
LEMMA Typed ==
  ASSUME TypeOK
  PROVE  /\ state_q \in States /\ delay_q \in Nat /\ delay_q <= MaxWait /\ timer_q \in Nat
         /\ (IF init_done_q THEN timer_q < RefreshCycles ELSE timer_q < PowerUp)
         /\ recovery_q \in Nat /\ active_age_q \in Nat /\ active_age_q < TRAS
         /\ init_refresh_q \in 0 .. 7
         /\ delay_done_q \in BOOLEAN /\ init_done_q \in BOOLEAN /\ refresh_due_q \in BOOLEAN
         /\ run_ready_q \in BOOLEAN /\ recovered_q \in BOOLEAN /\ bank_safe_q \in BOOLEAN
         /\ ready \in BOOLEAN /\ head_we_q \in BOOLEAN /\ head_same_direction_q \in BOOLEAN
         /\ head_hit_q \in BOOLEAN /\ head_activated_q \in BOOLEAN
         /\ burst_q \in BOOLEAN /\ mem_ack \in BOOLEAN
         /\ head_q # Nothing => head_q \in Request /\ head_q.addr \in Addr
                                /\ head_q.addr.bank \in Banks /\ head_q.addr.row \in Rows
                                /\ head_q.addr.col \in Columns
         /\ open_q \subseteq Banks /\ rows_q \in [Banks -> Rows]
         /\ RefreshCycles \in Nat /\ RefreshCycles > 3
         /\ MaxWait \in Nat
<1>1. head_q \in Request \cup {Nothing}
  BY DEF TypeOK, ControllerTypeOK
<1>2. head_q # Nothing => head_q \in Request /\ head_q.addr \in Addr
  BY <1>1 DEF Request
<1>3. head_q # Nothing => head_q.addr.bank \in Banks /\ head_q.addr.row \in Rows
                          /\ head_q.addr.col \in Columns
  BY <1>2 DEF Addr
<1>4. /\ delay_q \in 0 .. MaxWait /\ recovery_q \in 0 .. WriteWait + ReadWait
      /\ active_age_q \in 0 .. TRAS - 1
      /\ timer_q \in 0 .. (IF init_done_q THEN RefreshCycles ELSE PowerUp) - 1
  BY DEF TypeOK, ControllerTypeOK
<1>5. RefreshCycles \in Nat /\ RefreshCycles > 3
  BY ControllerAssumption
<1>6. /\ delay_q \in Nat /\ delay_q <= MaxWait /\ timer_q \in Nat
      /\ (IF init_done_q THEN timer_q < RefreshCycles ELSE timer_q < PowerUp)
      /\ recovery_q \in Nat /\ active_age_q \in Nat /\ active_age_q < TRAS
  BY <1>4, <1>5, Times, MaxWaitBounds
<1>7. /\ delay_done_q \in BOOLEAN /\ init_done_q \in BOOLEAN /\ refresh_due_q \in BOOLEAN
      /\ run_ready_q \in BOOLEAN /\ recovered_q \in BOOLEAN /\ bank_safe_q \in BOOLEAN
      /\ ready \in BOOLEAN /\ head_we_q \in BOOLEAN /\ head_same_direction_q \in BOOLEAN
      /\ head_hit_q \in BOOLEAN /\ head_activated_q \in BOOLEAN
      /\ burst_q \in BOOLEAN /\ mem_ack \in BOOLEAN
  BY DEF TypeOK, ControllerTypeOK
<1>8. /\ state_q \in States /\ init_refresh_q \in 0 .. 7
      /\ open_q \subseteq Banks /\ rows_q \in [Banks -> Rows]
  BY DEF TypeOK, ControllerTypeOK
<1> QED BY <1>2, <1>3, <1>5, <1>6, <1>7, <1>8, MaxWaitBounds

\* The waits, by state.
LEMMA WaitsAre ==
  /\ DOMAIN Waits = {"INIT_PRE", "INIT_REFRESH", "INIT_MODE", "ROW_PRE", "ROW_ACTIVE", "REF_PRE", "REF_CMD"}
  /\ Waits["INIT_PRE"] = TRP - 1 /\ Waits["INIT_REFRESH"] = TRFC - 1 /\ Waits["INIT_MODE"] = 2
  /\ Waits["ROW_PRE"] = TRP - 1 /\ Waits["ROW_ACTIVE"] = TRCD - 1
  /\ Waits["REF_PRE"] = TRP - 1 /\ Waits["REF_CMD"] = TRFC - 1
  /\ \A s \in DOMAIN Waits : Waits[s] \in Nat /\ Waits[s] <= MaxWait
<1>1. DOMAIN Waits = {"INIT_PRE", "INIT_REFRESH", "INIT_MODE", "ROW_PRE", "ROW_ACTIVE", "REF_PRE", "REF_CMD"}
  BY DEF Waits
<1>2. /\ Waits["INIT_PRE"] = TRP - 1 /\ Waits["INIT_REFRESH"] = TRFC - 1 /\ Waits["INIT_MODE"] = 2
      /\ Waits["ROW_PRE"] = TRP - 1 /\ Waits["ROW_ACTIVE"] = TRCD - 1
      /\ Waits["REF_PRE"] = TRP - 1 /\ Waits["REF_CMD"] = TRFC - 1
  BY DEF Waits
<1>3. \A s \in DOMAIN Waits : Waits[s] \in Nat /\ Waits[s] <= MaxWait
  <2> TAKE s \in DOMAIN Waits
  <2>1. Waits[s] \in {TRP - 1, TRFC - 1, TRCD - 1, 2}
    BY <1>1, <1>2
  <2> QED BY <2>1, Times, MaxWaitBounds
<1> QED BY <1>1, <1>2, <1>3

\* The head stays while its row is opened.
LEMMA HeadWaits ==
  ASSUME MachineKept, Miss \/ state_q \in {"ROW_PRE", "ROW_ACTIVE"}
  PROVE  head_q # Nothing /\ ~RowHit /\ ~Issue /\ ~LoadHead
<1>1. head_q # Nothing /\ ~RowHit
  BY DEF Miss, MachineKept
<1> QED BY <1>1 DEF Issue, LoadHead

\* Where the machine goes.
LEMMA StateNext ==
  ASSUME TypeOK, MachineKept, MachineStep
  PROVE  /\ ~delay_done_q => state_q' = state_q
         /\ delay_done_q =>
              /\ state_q = "POWERUP" => state_q' = IF init_done_q THEN "INIT_PRE" ELSE "POWERUP"
              /\ state_q = "INIT_PRE" => state_q' = "INIT_REFRESH"
              /\ state_q = "INIT_REFRESH" =>
                   state_q' = IF init_refresh_q = 7 THEN "INIT_MODE" ELSE "INIT_REFRESH"
              /\ state_q \in {"INIT_MODE", "ROW_PRE", "ROW_ACTIVE", "REF_CMD"} => state_q' = "RUN"
              /\ state_q = "REF_PRE" => state_q' = "REF_CMD"
              /\ state_q = "RUN" =>
                   state_q' = IF refresh_due_q /\ bank_safe_q THEN "REF_PRE"
                              ELSE IF Miss THEN IF head_q.addr.bank \in open_q THEN "ROW_PRE"
                                                ELSE "ROW_ACTIVE"
                              ELSE "RUN"
         /\ Miss => delay_done_q /\ state_q = "RUN" /\ ~refresh_due_q /\ bank_safe_q
<1>1. state_q \in States
  BY Typed
<1>2. Miss => delay_done_q /\ state_q = "RUN" /\ ~refresh_due_q /\ bank_safe_q
  BY DEF Miss, Doing
<1>3. state_q' = IF delay_done_q THEN NextState ELSE state_q
  BY DEF MachineStep
<1>4. CASE ~delay_done_q
  BY <1>2, <1>3, <1>4
<1>5. CASE delay_done_q /\ state_q # "RUN"
  BY <1>1, <1>2, <1>3, <1>5 DEF NextState, States
<1>6. CASE delay_done_q /\ state_q = "RUN"
  BY <1>2, <1>3, <1>6 DEF NextState
<1> QED BY <1>2, <1>4, <1>5, <1>6

\* How long it waits there.
LEMMA DelayNext ==
  ASSUME TypeOK, MachineKept, DelayStep
  PROVE  /\ delay_done_q /\ state_q \in DOMAIN Waits => delay_q' = Waits[state_q]
         /\ ~(delay_done_q /\ state_q \in DOMAIN Waits) => delay_q' = Down(delay_q)
         /\ delay_q' \in Nat /\ delay_q' <= MaxWait
         /\ delay_done_q' \in BOOLEAN /\ (delay_done_q' <=> delay_q' = 0)
         /\ (delay_done_q <=> delay_q = 0)
<1>1. /\ delay_q \in Nat /\ delay_q <= MaxWait /\ MaxWait \in Nat /\ delay_done_q \in BOOLEAN
      /\ (delay_done_q <=> delay_q = 0)
  BY Typed DEF MachineKept
<1>2. CASE delay_done_q /\ state_q \in DOMAIN Waits
  <2>1. delay_q' = Waits[state_q] /\ delay_done_q' = (Waits[state_q] = 0)
    BY <1>2 DEF DelayStep
  <2>2. delay_done_q' \in BOOLEAN
    BY <2>1, SMT
  <2>3. delay_done_q' <=> Waits[state_q] = 0
    BY <2>1, Zenon
  <2> QED BY <1>1, <1>2, <2>1, <2>2, <2>3, WaitsAre
<1>3. CASE ~(delay_done_q /\ state_q \in DOMAIN Waits)
  <2>1. delay_q' = Down(delay_q) /\ delay_done_q' = (delay_q <= 1)
    BY <1>3 DEF DelayStep
  <2>2. delay_done_q' \in BOOLEAN
    BY <2>1, SMT
  <2>3. delay_done_q' <=> delay_q <= 1
    BY <2>1, Zenon
  <2> QED BY <1>1, <1>3, <2>1, <2>2, <2>3 DEF Down
<1> QED BY <1>1, <1>2, <1>3

\* The timer, and what is due.
LEMMA TimerNext ==
  ASSUME TypeOK, MachineKept, TimerStep
  PROVE  /\ Doing("REF_CMD") => timer_q' = RefreshCycles - 1 /\ ~refresh_due_q' /\ init_done_q'
         /\ ~Doing("REF_CMD") =>
              /\ init_done_q' <=> init_done_q \/ timer_q <= 1
              /\ timer_q' = IF ~init_done_q
                            THEN IF timer_q <= 1 THEN RefreshCycles - 1 ELSE timer_q - 1
                            ELSE IF ready /\ ~refresh_due_q THEN timer_q - 1 ELSE timer_q
              /\ refresh_due_q' <=> ready /\ timer_q <= 1
         /\ timer_q' \in Nat
         /\ IF init_done_q' THEN timer_q' < RefreshCycles ELSE timer_q' < PowerUp
         /\ init_done_q' \in BOOLEAN /\ refresh_due_q' \in BOOLEAN
         /\ ready => init_done_q
<1>1. /\ timer_q \in Nat /\ RefreshCycles \in Nat /\ RefreshCycles > 3 /\ PowerUp \in Nat
      /\ (IF init_done_q THEN timer_q < RefreshCycles ELSE timer_q < PowerUp)
      /\ init_done_q \in BOOLEAN /\ refresh_due_q \in BOOLEAN /\ ready \in BOOLEAN
  BY Typed, Times
<1>2. /\ refresh_due_q => ready
      /\ ~init_done_q => state_q = "POWERUP" /\ timer_q # 0 /\ ~ready
      /\ init_done_q /\ ~refresh_due_q => timer_q # 0
  BY DEF MachineKept, SetUp
<1>3. CASE Doing("REF_CMD")
  <2>1. state_q = "REF_CMD"
    BY <1>3 DEF Doing
  <2>2. timer_q' = RefreshCycles - 1 /\ ~refresh_due_q' /\ refresh_due_q' \in BOOLEAN /\ init_done_q' = init_done_q
    BY <1>3 DEF TimerStep
  <2>3. init_done_q
    BY <1>2, <2>1
  <2> QED BY <1>1, <1>2, <1>3, <2>2, <2>3
<1>4. CASE ~Doing("REF_CMD")
  <2>1. /\ init_done_q' = (init_done_q \/ timer_q <= 1)
        /\ timer_q' = IF ~init_done_q
                      THEN IF timer_q <= 1 THEN RefreshCycles - 1 ELSE timer_q - 1
                      ELSE IF ready /\ ~refresh_due_q THEN timer_q - 1 ELSE timer_q
        /\ refresh_due_q' = IF ready THEN timer_q <= 1 ELSE refresh_due_q
    BY <1>4 DEF TimerStep
  <2>2. /\ init_done_q' <=> init_done_q \/ timer_q <= 1
        /\ refresh_due_q' <=> ready /\ timer_q <= 1
        /\ init_done_q' \in BOOLEAN /\ refresh_due_q' \in BOOLEAN
    <3>1. init_done_q' <=> init_done_q \/ timer_q <= 1
      BY <2>1, Zenon
    <3>2. refresh_due_q' <=> IF ready THEN timer_q <= 1 ELSE refresh_due_q
      BY <2>1, Zenon
    <3>3. init_done_q' \in BOOLEAN
      BY <2>1, SMT
    <3>4. refresh_due_q' \in BOOLEAN
      <4>1. ready => refresh_due_q' = (timer_q <= 1)
        BY <2>1, Zenon
      <4>2. ~ready => refresh_due_q' = refresh_due_q
        BY <2>1, Zenon
      <4>3. CASE ready
        <5>1. refresh_due_q' = (timer_q <= 1)
          BY <4>1, <4>3, Zenon
        <5> QED BY <5>1, SMT
      <4>4. CASE ~ready
        <5>1. refresh_due_q' = refresh_due_q
          BY <4>2, <4>4, Zenon
        <5> QED BY <1>1, <5>1
      <4> QED BY <4>3, <4>4
    <3> QED BY <1>1, <1>2, <3>1, <3>2, <3>3, <3>4
  <2> QED BY <1>1, <1>2, <1>4, <2>1, <2>2
<1> QED BY <1>2, <1>3, <1>4

\* What has to be waited for before a bank is closed or the data lines turn.
LEMMA RecoveryNext ==
  ASSUME TypeOK, RecoveryStep
  PROVE  /\ recovery_q' = IF Issue THEN IF head_we_q THEN WriteWait ELSE ReadWait ELSE Down(recovery_q)
         /\ active_age_q' = IF Doing("ROW_ACTIVE") THEN TRAS - 1 ELSE Down(active_age_q)
         /\ recovered_q' <=> ~Issue /\ recovery_q <= 1
         /\ bank_safe_q' <=> ~Issue /\ ~Doing("ROW_ACTIVE") /\ recovery_q <= 1 /\ active_age_q <= 1
         /\ recovered_q' \in BOOLEAN /\ bank_safe_q' \in BOOLEAN
         /\ recovery_q' \in 0 .. WriteWait + ReadWait /\ active_age_q' \in 0 .. TRAS - 1
<1>1. recovered_q' = (~Issue /\ recovery_q <= 1) /\ bank_safe_q' = BankSafe
  BY DEF RecoveryStep
<1>2. (recovered_q' <=> ~Issue /\ recovery_q <= 1) /\ (bank_safe_q' <=> BankSafe)
  BY <1>1, Zenon
<1>3. recovered_q' \in BOOLEAN /\ bank_safe_q' \in BOOLEAN
  BY <1>1, SMT DEF BankSafe
<1>4. /\ recovery_q' = IF Issue THEN IF head_we_q THEN WriteWait ELSE ReadWait ELSE Down(recovery_q)
      /\ active_age_q' = IF Doing("ROW_ACTIVE") THEN TRAS - 1 ELSE Down(active_age_q)
  BY DEF RecoveryStep
<1>5. recovery_q \in 0 .. WriteWait + ReadWait /\ active_age_q \in 0 .. TRAS - 1
  BY DEF TypeOK, ControllerTypeOK
<1>6. recovery_q' \in 0 .. WriteWait + ReadWait /\ active_age_q' \in 0 .. TRAS - 1
  BY <1>4, <1>5, Times DEF Down
<1> QED BY <1>2, <1>3, <1>4, <1>6 DEF BankSafe

\* A row hit may be issued when no wait is left and no refresh comes first.
LEMMA ReadyNext ==
  ASSUME TypeOK, MachineKept, DelayStep, RecoveryStep, MachineStep, run_ready_q'
  PROVE  /\ state_q' = "RUN" /\ delay_q' = 0 /\ timer_q > 1
         /\ ~Miss /\ state_q \in {"RUN", "ROW_ACTIVE"} /\ ~(Issue /\ Half = 1)
         /\ state_q = "ROW_ACTIVE" => TRCD = 1
         /\ state_q = "RUN" => delay_q <= 1
<1>0. RunReady
  <2>1. run_ready_q' = RunReady
    BY DEF RecoveryStep
  <2> QED BY <2>1, Zenon
<1>1. RunReady /\ delay_q \in Nat /\ (delay_done_q <=> delay_q = 0) /\ timer_q \in Nat
  BY <1>0, DelayNext, Typed
<1>2. timer_q > 1 /\ ~Miss
  <2>1. Miss => ~Doing("ROW_ACTIVE")
    BY DEF Miss, Doing
  <2>2. ~Miss
    BY <1>1, <2>1 DEF RunReady
  <2>3. timer_q > 1
    BY <1>1, <2>2 DEF RunReady
  <2> QED BY <2>2, <2>3
<1>3. CASE Doing("ROW_ACTIVE")
  <2>1. TRCD = 1
    BY <1>1, <1>2, <1>3 DEF RunReady
  <2>2. state_q' = "RUN" /\ delay_q' = 0
    BY <1>3, <2>1, StateNext, DelayNext, WaitsAre DEF Doing
  <2>3. ~Issue
    BY <1>3, IssueWhen DEF Doing
  <2> QED BY <1>2, <1>3, <2>1, <2>2, <2>3 DEF Doing
<1>4. CASE ~Doing("ROW_ACTIVE")
  <2>1. state_q = "RUN" /\ delay_q <= 1 /\ ~(Issue /\ Half = 1)
    BY <1>1, <1>2, <1>4 DEF RunReady
  <2>2. state_q' = "RUN"
    BY <1>1, <1>2, <2>1, StateNext DEF MachineKept
  <2>3. delay_q' = 0
    BY <1>1, <2>1, DelayNext, WaitsAre DEF Down
  <2> QED BY <1>2, <2>1, <2>2, <2>3
<1> QED BY <1>3, <1>4

\* The wires of the state machine agree with its state after an edge.
LEMMA MachineNext ==
  ASSUME TypeOK, QueueKept, MachineKept, NEW offer \in Offers, Clock(offer)
  PROVE  MachineKept'
<1>1. /\ HeadStep /\ DelayStep /\ TimerStep /\ RecoveryStep /\ MachineStep
  BY DEF Clock, ControllerEdge
<1>2. /\ state_q \in States /\ delay_q \in Nat /\ timer_q \in Nat /\ recovery_q \in Nat
      /\ active_age_q \in Nat /\ TRAS \in Nat /\ TRCD \in Nat /\ WriteWait \in Nat /\ ReadWait \in Nat
      /\ WriteWait > 0 /\ ReadWait > 0
  BY Typed, Times
<1>3. Issue => state_q = "RUN" /\ delay_q = 0 /\ ~refresh_due_q
  BY IssueWhen
<1>4. (delay_done_q' <=> delay_q' = 0) /\ (delay_done_q <=> delay_q = 0)
  BY <1>1, DelayNext
<1>5. recovered_q' <=> recovery_q' = 0
  BY <1>1, <1>2, RecoveryNext DEF Down
<1>6. bank_safe_q' => recovery_q' = 0 /\ active_age_q' = 0
  BY <1>1, <1>2, RecoveryNext DEF Down
<1>7. run_ready_q' => state_q' = "RUN" /\ delay_q' = 0
  BY <1>1, ReadyNext
<1>8. refresh_due_q' => ready' /\ ~run_ready_q' /\ timer_q' <= 1
  <2>1. refresh_due_q' => ready /\ init_done_q /\ timer_q <= 1 /\ timer_q' <= 1
    BY <1>1, <1>2, TimerNext
  <2>2. run_ready_q' => timer_q > 1
    BY <1>1, ReadyNext
  <2>3. ready => ready'
    BY <1>1 DEF MachineStep
  <2> QED BY <1>2, <2>1, <2>2, <2>3
<1>9. ~init_done_q' => state_q' = "POWERUP" /\ timer_q' # 0
  <2>1. SUFFICES ASSUME ~init_done_q' PROVE state_q' = "POWERUP" /\ timer_q' # 0
    OBVIOUS
  <2>2. ~init_done_q /\ timer_q > 1 /\ ~Doing("REF_CMD")
    BY <1>1, <1>2, <2>1, TimerNext
  <2>3. state_q = "POWERUP"
    BY <2>2 DEF MachineKept
  <2>4. state_q' = "POWERUP"
    BY <1>1, <2>2, <2>3, StateNext
  <2> QED BY <1>1, <1>2, <2>2, <2>4, TimerNext
<1>10. init_done_q' /\ ~refresh_due_q' => timer_q' # 0
  <2>1. CASE Doing("REF_CMD")
    BY <1>1, <2>1, TimerNext, Typed
  <2>2. CASE ~Doing("REF_CMD")
    <3>1. /\ init_done_q /\ ~refresh_due_q => timer_q # 0
          /\ refresh_due_q => ready /\ timer_q <= 1
      BY DEF MachineKept
    <3> QED BY <1>1, <1>2, <2>2, <3>1, TimerNext, Typed
  <2> QED BY <2>1, <2>2
<1>11. state_q' \in SetUp => ~ready' /\ open_q' = {}
  <2>1. SUFFICES ASSUME state_q' \in SetUp PROVE ~ready' /\ open_q' = {}
    OBVIOUS
  <2>2. state_q \in SetUp
    BY <1>1, <1>2, <2>1, StateNext DEF SetUp, States
  <2>3. ~ready /\ open_q = {}
    BY <2>2 DEF MachineKept
  <2> QED BY <1>1, <2>2, <2>3 DEF MachineStep, Doing, SetUp
<1>12. state_q' # "RUN" => recovery_q' = 0 /\ active_age_q' = 0
  <2>1. SUFFICES ASSUME state_q' # "RUN" PROVE recovery_q' = 0 /\ active_age_q' = 0
    OBVIOUS
  <2>2. recovery_q = 0 /\ active_age_q = 0
    BY <1>1, <2>1, StateNext DEF MachineKept
  <2>3. ~Issue /\ ~Doing("ROW_ACTIVE")
    BY <1>1, <1>3, <1>4, <2>1, StateNext, HeadWaits DEF Doing
  <2> QED BY <1>1, <2>2, <2>3 DEF RecoveryStep, Down
<1>13. state_q' \in {"POWERUP", "ROW_PRE", "ROW_ACTIVE", "REF_PRE"} => delay_q' = 0
  <2>1. SUFFICES ASSUME state_q' \in {"POWERUP", "ROW_PRE", "ROW_ACTIVE", "REF_PRE"}
                 PROVE  delay_q' = 0
    OBVIOUS
  <2>2. state_q \in {"POWERUP", "RUN"} /\ delay_q = 0
    BY <1>1, <1>2, <1>4, <2>1, StateNext DEF MachineKept, States
  <2> QED BY <1>1, <2>2, DelayNext, WaitsAre DEF Down
<1>14. state_q' \in {"REF_PRE", "REF_CMD"} => refresh_due_q'
  <2>1. SUFFICES ASSUME state_q' \in {"REF_PRE", "REF_CMD"} PROVE refresh_due_q'
    OBVIOUS
  <2>2. refresh_due_q /\ ~Doing("REF_CMD")
    BY <1>1, <1>2, <2>1, StateNext DEF MachineKept, States, Doing
  <2>3. ready /\ timer_q <= 1
    BY <2>2 DEF MachineKept
  <2> QED BY <1>1, <2>2, <2>3, TimerNext
<1>15. state_q' = "REF_CMD" => open_q' = {}
  <2>1. SUFFICES ASSUME state_q' = "REF_CMD" PROVE open_q' = {}
    OBVIOUS
  <2>2. CASE delay_done_q
    <3>1. state_q = "REF_PRE"
      BY <1>1, <1>2, <2>1, <2>2, StateNext DEF States
    <3> QED BY <1>1, <2>2, <3>1 DEF MachineStep, Doing
  <2>3. CASE ~delay_done_q
    <3>1. state_q = "REF_CMD"
      BY <1>1, <2>1, <2>3, StateNext
    <3> QED BY <1>1, <2>3, <3>1 DEF MachineStep, Doing, MachineKept
  <2> QED BY <2>2, <2>3
<1>16. /\ head_q' = IF LoadHead THEN ring[1] ELSE IF Issue THEN Nothing ELSE head_q
       /\ (LoadHead => lookup_q = ring[1])
       /\ ~LoadHead /\ ~Doing("REF_PRE") => head_hit_q' = head_hit_q
       /\ ~LoadHead /\ ~Doing("REF_PRE") /\ ~Doing("ROW_ACTIVE") =>
            (head_activated_q' <=> head_activated_q)
       /\ Doing("REF_PRE") => ~head_hit_q' /\ ~head_activated_q'
  BY <1>1, HeadNext, QueueMoves, Typed DEF HeadStep, Doing
<1>17. state_q' \in {"ROW_PRE", "ROW_ACTIVE"} =>
         /\ head_q' # Nothing /\ ~RowHit'
         /\ state_q' = "ROW_PRE" <=> head_q'.addr.bank \in open_q'
  <2>1. SUFFICES ASSUME state_q' \in {"ROW_PRE", "ROW_ACTIVE"}
                 PROVE  /\ head_q' # Nothing /\ ~RowHit'
                        /\ state_q' = "ROW_PRE" <=> head_q'.addr.bank \in open_q'
    OBVIOUS
  <2>2. Miss /\ state_q' = IF head_q.addr.bank \in open_q THEN "ROW_PRE" ELSE "ROW_ACTIVE"
    BY <1>1, <1>2, <1>4, <2>1, StateNext DEF MachineKept, States
  <2>3. state_q = "RUN" /\ head_q # Nothing /\ ~RowHit /\ ~Issue /\ ~LoadHead
    BY <1>1, <2>2, StateNext, HeadWaits
  <2>4. head_q' = head_q /\ head_hit_q' = head_hit_q /\ (head_activated_q' <=> head_activated_q)
    BY <1>16, <2>3 DEF Doing
  <2>5. open_q' = open_q
    BY <1>1, <2>3 DEF MachineStep, Doing
  <2> QED BY <2>2, <2>3, <2>4, <2>5 DEF RowHit
<1>18. head_q' # Nothing /\ RowHit' => RowOpen(head_q.addr)'
  <2>1. CASE Doing("REF_PRE")
    BY <1>16, <2>1 DEF RowHit
  <2>2. CASE Doing("ROW_ACTIVE")
    <3>1. head_q # Nothing /\ head_q' = head_q
      BY <1>16, <2>2, HeadWaits DEF Doing
    <3>2. head_q.addr.bank \in Banks /\ rows_q \in [Banks -> Rows]
      BY <3>1, Typed
    <3>3. /\ open_q' = open_q \cup {head_q.addr.bank}
          /\ rows_q' = [rows_q EXCEPT ![head_q.addr.bank] = head_q.addr.row]
      BY <1>1, <2>2 DEF MachineStep, Doing
    <3> QED BY <3>1, <3>2, <3>3 DEF RowOpen
  <2>3. CASE Doing("ROW_PRE")
    <3>1. head_q' = head_q /\ ~RowHit /\ ~LoadHead
      BY <1>16, <2>3, HeadWaits DEF Doing
    <3> QED BY <1>16, <2>3, <3>1 DEF RowHit, Doing
  <2>4. CASE ~Doing("REF_PRE") /\ ~Doing("ROW_ACTIVE") /\ ~Doing("ROW_PRE")
    <3>1. open_q' = open_q /\ rows_q' = rows_q
      BY <1>1, <2>4 DEF MachineStep
    <3>2. CASE LoadHead
      <4>1. head_q' = lookup_q /\ head_hit_q' = RowOpen(lookup_q.addr) /\ ~head_activated_q'
        BY <1>1, <1>16, <2>4, <3>2 DEF HeadStep
      <4> QED BY <3>1, <4>1 DEF RowHit, RowOpen
    <3>3. CASE ~LoadHead
      BY <1>16, <2>4, <3>1, <3>3 DEF RowHit, RowOpen, MachineKept
    <3> QED BY <3>2, <3>3
  <2> QED BY <2>1, <2>2, <2>3, <2>4
<1> QED BY <1>4, <1>5, <1>6, <1>7, <1>8, <1>9, <1>10, <1>11, <1>12, <1>13, <1>14, <1>15, <1>17, <1>18
        DEF MachineKept

-----------------------------------------------------------------------------
(* The device, after the command on the pins. *)

\* The direction of the last access.
LEMMA DirectionNext ==
  ASSUME TypeOK, QueueKept, NEW offer \in Offers, Clock(offer)
  PROVE  /\ Direction' <=> IF Issue THEN head_we_q ELSE Direction
         /\ Issue /\ head_same_direction_q => (Direction <=> head_we_q)
<1>1. HeadStep
  BY DEF Clock, ControllerEdge
<1>2. head_we_q \in BOOLEAN /\ head_same_direction_q \in BOOLEAN /\ Nothing \notin Request
  BY Typed, ControllerAssumption
<1>3. /\ head_q' = IF LoadHead THEN ring[1] ELSE IF Issue THEN Nothing ELSE head_q
      /\ LoadHead => ring[1] \in Request
      /\ head_we_q' = IF LoadHead THEN ring[1].we ELSE head_we_q
      /\ head_same_direction_q' = IF LoadHead THEN ring[1].we = head_we_q
                                  ELSE head_same_direction_q
  BY <1>1, HeadNext
<1>4. Issue => head_q # Nothing
  BY DEF Issue, RowHit
<1>5. CASE LoadHead
  <2>1. /\ head_q' # Nothing /\ head_we_q' = ring[1].we /\ ring[1].we \in BOOLEAN
        /\ head_same_direction_q' = (ring[1].we = head_we_q)
    BY <1>2, <1>3, <1>5 DEF Request
  <2>2. head_same_direction_q' <=> (ring[1].we <=> head_we_q)
    BY <1>2, <2>1
  <2>3. ~Issue => head_q = Nothing
    BY <1>5 DEF LoadHead
  <2>4. head_we_q' <=> ring[1].we
    BY <2>1
  <2> QED BY <1>2, <1>4, <2>1, <2>2, <2>3, <2>4, Zenon DEF Direction
<1>6. CASE ~LoadHead
  <2>1. (head_we_q' <=> head_we_q) /\ (head_same_direction_q' <=> head_same_direction_q)
    BY <1>3, <1>6
  <2>2. head_q' = IF Issue THEN Nothing ELSE head_q
    BY <1>3, <1>6
  <2>3. Issue => (head_q' = Nothing)
    BY <2>2
  <2>4. ASSUME Issue PROVE (Direction' <=> head_we_q) /\ (head_same_direction_q => (Direction <=> head_we_q))
    BY <1>2, <1>4, <2>1, <2>3, <2>4, Zenon DEF Direction
  <2>5. ASSUME ~Issue PROVE Direction' <=> Direction
    <3>1. head_q' = head_q
      BY <2>2, <2>5
    <3> QED BY <2>1, <3>1, Zenon DEF Direction
  <2> QED BY <2>4, <2>5
<1> QED BY <1>5, <1>6

\* The ages of a bank stay within their bounds.
LEMMA SeenTyped ==
  ASSUME TypeOK, NEW b \in Banks
  PROVE  /\ ActSeen(b) \in 1 .. MaxAge /\ PreSeen(b) \in 1 .. MaxAge /\ WriteSeen(b) \in 1 .. MaxAge
         /\ BusySeen(b) \in 0 .. CAS
<1>1. act_age[b] \in 1 .. MaxAge /\ pre_age[b] \in 1 .. MaxAge /\ write_age[b] \in 1 .. MaxAge
      /\ read_busy[b] \in 0 .. CAS
  BY DEF TypeOK, DeviceTypeOK
<1>2. \A n \in 1 .. MaxAge : Older(n) \in 1 .. MaxAge
  BY Ages DEF Older
<1>3. 1 \in 1 .. MaxAge
  BY Ages, Times
<1>4. ActSeen(b) \in 1 .. MaxAge /\ PreSeen(b) \in 1 .. MaxAge
  BY <1>1, <1>2, <1>3 DEF ActSeen, PreSeen
<1>5. WriteSeen(b) \in 1 .. MaxAge
  BY <1>1, <1>2, <1>3 DEF WriteSeen
<1>6. BusySeen(b) \in 0 .. CAS
  BY <1>1, Times DEF BusySeen, Down
<1> QED BY <1>4, <1>5, <1>6

\* The ages of the device stay within their bounds.
LEMMA SetupTyped ==
  ASSUME TypeOK
  PROVE  /\ RefreshSeen \in 1 .. MaxRefreshAge /\ ModeSeen \in 1 .. MaxAge /\ up_age \in 1 .. MaxAge
         /\ RefsSeen \in 0 .. 8
         /\ PrechargedSeen \in BOOLEAN /\ InitializedSeen \in BOOLEAN
<1>1. /\ refresh_age \in 1 .. MaxRefreshAge /\ mode_age \in 1 .. MaxAge /\ up_age \in 1 .. MaxAge
      /\ init_refs \in 0 .. 8 /\ precharged \in BOOLEAN /\ initialized \in BOOLEAN
  BY DEF TypeOK, DeviceTypeOK
<1>2. RefreshSeen \in 1 .. MaxRefreshAge
  BY <1>1, Ages, Times DEF RefreshSeen
<1>3. ModeSeen \in 1 .. MaxAge
  BY <1>1, Ages, Times DEF ModeSeen, Older
<1>4. RefsSeen \in 0 .. 8
  BY <1>1 DEF RefsSeen
<1>5. PrechargedSeen \in BOOLEAN /\ InitializedSeen \in BOOLEAN
  BY DEF PrechargedSeen, InitializedSeen
<1> QED BY <1>1, <1>2, <1>3, <1>4, <1>5

\* What one more edge makes of it.
LEMMA SeenNext ==
  ASSUME TypeOK, MachineKept, NEW offer, Clock(offer)
  PROVE  /\ Activated' = IF Doing("ROW_ACTIVE") THEN {head_q.addr.bank} ELSE {}
         /\ Precharged(pin.cmd)' = IF Doing("INIT_PRE") \/ Doing("REF_PRE") THEN Banks
                                   ELSE IF Doing("ROW_PRE") THEN {head_q.addr.bank} ELSE {}
         /\ OpenedSeen' = (OpenedSeen \ Precharged(pin.cmd)') \cup Activated'
         /\ RefreshSeen' = IF Doing("INIT_REFRESH") \/ Doing("REF_CMD") THEN 1
                           ELSE IF RefreshSeen = MaxRefreshAge THEN MaxRefreshAge ELSE RefreshSeen + 1
         /\ ModeSeen' = IF Doing("INIT_MODE") THEN 1 ELSE Older(ModeSeen)
         /\ RefsSeen' = IF (Doing("INIT_REFRESH") \/ Doing("REF_CMD")) /\ RefsSeen < 8
                        THEN RefsSeen + 1 ELSE RefsSeen
         /\ PrechargedSeen' <=> PrechargedSeen \/ Doing("INIT_PRE") \/ Doing("REF_PRE")
         /\ InitializedSeen' <=> InitializedSeen \/ Doing("INIT_MODE")
         /\ \A b \in Banks :
              /\ RowSeen(b)' = IF b \in Activated' THEN head_q.addr.row ELSE RowSeen(b)
              /\ ActSeen(b)' = IF b \in Activated' THEN 1 ELSE Older(ActSeen(b))
              /\ PreSeen(b)' = IF b \in Precharged(pin.cmd)' THEN 1 ELSE Older(PreSeen(b))
              /\ BusySeen(b)' = IF Issue /\ ~head_we_q /\ head_q.addr.bank = b THEN CAS + Half - 1
                                ELSE Down(BusySeen(b))
<1> DEFINE c == pin'.cmd
<1>1. c = Command
  BY DeviceSees
<1>2. /\ c.op \in {"NOP", "PRE_ALL", "REFRESH", "MODE", "PRE", "ACTIVE", "READ", "WRITE"}
      /\ c.op = "PRE_ALL" <=> Doing("INIT_PRE") \/ Doing("REF_PRE")
      /\ c.op = "REFRESH" <=> Doing("INIT_REFRESH") \/ Doing("REF_CMD")
      /\ c.op = "MODE" <=> Doing("INIT_MODE")
      /\ c.op = "PRE" <=> Doing("ROW_PRE")
      /\ c.op = "ACTIVE" <=> Doing("ROW_ACTIVE")
      /\ c.op = "READ" <=> Issue /\ ~head_we_q
      /\ c.op \in {"PRE", "ACTIVE", "READ", "WRITE"} => c.bank = head_q.addr.bank
      /\ c.op = "ACTIVE" => c.row = head_q.addr.row
  BY <1>1, CommandIs
<1> HIDE DEF c
<1>3. Activated' = IF Doing("ROW_ACTIVE") THEN {head_q.addr.bank} ELSE {}
  <2>1. Activated' = IF c.op = "ACTIVE" THEN {c.bank} ELSE {}
    BY DEF Activated, c
  <2> QED BY <1>2, <2>1
<1>4. Precharged(pin.cmd)' = IF Doing("INIT_PRE") \/ Doing("REF_PRE") THEN Banks
                             ELSE IF Doing("ROW_PRE") THEN {head_q.addr.bank} ELSE {}
  <2>1. Precharged(pin.cmd)' = Precharged(c)
    BY DEF c
  <2>2. Precharged(c) = IF c.op = "PRE_ALL" THEN Banks ELSE IF c.op = "PRE" THEN {c.bank} ELSE {}
    BY DEF Precharged
  <2> QED BY <1>2, <2>1, <2>2
<1>5. OpenedSeen' = (OpenedSeen \ Precharged(pin.cmd)') \cup Activated'
  BY DeviceSees DEF OpenedSeen
<1>6. RefreshSeen' = IF Doing("INIT_REFRESH") \/ Doing("REF_CMD") THEN 1
                     ELSE IF RefreshSeen = MaxRefreshAge THEN MaxRefreshAge ELSE RefreshSeen + 1
  <2>1. RefreshSeen' = IF c.op = "REFRESH" THEN 1
                       ELSE IF refresh_age' = MaxRefreshAge THEN MaxRefreshAge ELSE refresh_age' + 1
    BY DEF RefreshSeen, c
  <2>2. refresh_age' = RefreshSeen
    BY DeviceSees
  <2> QED BY <1>2, <2>1, <2>2
<1>7. ModeSeen' = IF Doing("INIT_MODE") THEN 1 ELSE Older(ModeSeen)
  <2>1. ModeSeen' = IF c.op = "MODE" THEN 1 ELSE Older(mode_age')
    BY DEF ModeSeen, c, Older
  <2>2. mode_age' = ModeSeen
    BY DeviceSees
  <2> QED BY <1>2, <2>1, <2>2
<1>8. RefsSeen' = IF (Doing("INIT_REFRESH") \/ Doing("REF_CMD")) /\ RefsSeen < 8
                  THEN RefsSeen + 1 ELSE RefsSeen
  <2>1. RefsSeen' = IF c.op = "REFRESH" /\ init_refs' < 8 THEN init_refs' + 1 ELSE init_refs'
    BY DEF RefsSeen, c
  <2>2. init_refs' = RefsSeen
    BY DeviceSees
  <2> QED BY <1>2, <2>1, <2>2
<1>9. /\ PrechargedSeen' <=> PrechargedSeen \/ Doing("INIT_PRE") \/ Doing("REF_PRE")
      /\ InitializedSeen' <=> InitializedSeen \/ Doing("INIT_MODE")
  <2>1. /\ PrechargedSeen' <=> precharged' \/ c.op = "PRE_ALL"
        /\ InitializedSeen' <=> initialized' \/ c.op = "MODE"
    BY DEF PrechargedSeen, InitializedSeen, c
  <2>2. (precharged' <=> PrechargedSeen) /\ (initialized' <=> InitializedSeen)
    BY DeviceSees
  <2> QED BY <1>2, <2>1, <2>2
<1>10. ASSUME NEW b \in Banks
       PROVE  /\ RowSeen(b)' = IF b \in Activated' THEN head_q.addr.row ELSE RowSeen(b)
              /\ ActSeen(b)' = IF b \in Activated' THEN 1 ELSE Older(ActSeen(b))
              /\ PreSeen(b)' = IF b \in Precharged(pin.cmd)' THEN 1 ELSE Older(PreSeen(b))
              /\ BusySeen(b)' = IF Issue /\ ~head_we_q /\ head_q.addr.bank = b THEN CAS + Half - 1
                                ELSE Down(BusySeen(b))
  <2>1. /\ row'[b] = RowSeen(b) /\ act_age'[b] = ActSeen(b) /\ pre_age'[b] = PreSeen(b)
        /\ read_busy'[b] = BusySeen(b)
    BY <1>10, DeviceSees
  <2>2. RowSeen(b)' = IF b \in Activated' THEN head_q.addr.row ELSE RowSeen(b)
    <3>1. RowSeen(b)' = IF b \in Activated' THEN c.row ELSE row'[b]
      BY DEF RowSeen, c
    <3>2. b \in Activated' => c.row = head_q.addr.row
      BY <1>2, <1>3
    <3> QED BY <2>1, <3>1, <3>2
  <2>3. ActSeen(b)' = IF b \in Activated' THEN 1 ELSE Older(ActSeen(b))
    <3>1. ActSeen(b)' = IF b \in Activated' THEN 1 ELSE Older(act_age'[b])
      BY DEF ActSeen, Older
    <3> QED BY <2>1, <3>1
  <2>4. PreSeen(b)' = IF b \in Precharged(pin.cmd)' THEN 1 ELSE Older(PreSeen(b))
    <3>1. PreSeen(b)' = IF b \in Precharged(pin.cmd)' THEN 1 ELSE Older(pre_age'[b])
      BY DEF PreSeen, Older
    <3> QED BY <2>1, <3>1
  <2>5. BusySeen(b)' = IF Issue /\ ~head_we_q /\ head_q.addr.bank = b THEN CAS + Half - 1
                       ELSE Down(BusySeen(b))
    <3>1. BusySeen(b)' = IF c.op = "READ" /\ c.bank = b THEN CAS + Half - 1 ELSE Down(read_busy'[b])
      BY DEF BusySeen, c, Down
    <3> QED BY <1>2, <2>1, <3>1
  <2> QED BY <2>2, <2>3, <2>4, <2>5
<1> QED BY <1>3, <1>4, <1>5, <1>6, <1>7, <1>8, <1>9, <1>10

\* An age and what is left of a delay.
LEMMA Ticks ==
  ASSUME NEW x \in Nat, NEW x1 \in Nat, NEW d \in Nat, NEW d1 \in Nat, NEW m \in Nat, NEW t \in Nat,
         t <= m, x1 = IF x = m THEN m ELSE x + 1, d1 + 1 >= d, x + d >= t
  PROVE  x1 + d1 >= t
  OBVIOUS

\* The same, of an age that stops at its bound.
LEMMA OlderTicks ==
  ASSUME NEW x \in 1 .. MaxAge, NEW d \in Nat, NEW d1 \in Nat, NEW t \in Nat,
         t <= MaxAge, d1 + 1 >= d, x + d >= t
  PROVE  Older(x) + d1 >= t
<1>1. MaxAge \in Nat
  BY Ages
<1>2. CASE x = MaxAge
  BY <1>1, <1>2 DEF Older
<1>3. CASE x # MaxAge
  BY <1>1, <1>3 DEF Older
<1> QED BY <1>2, <1>3

\* Delays shrink by one edge at a time.
LEMMA Shrinks ==
  ASSUME TypeOK, MachineKept, NEW offer, Clock(offer)
  PROVE  /\ delay_q \in Nat /\ delay_q' \in Nat /\ delay_q' + 1 >= delay_q
         /\ active_age_q \in Nat /\ active_age_q' \in Nat /\ active_age_q' + 1 >= active_age_q
         /\ delay_done_q => delay_q = 0
         /\ ~delay_done_q => delay_q' = delay_q - 1
<1>1. DelayStep /\ RecoveryStep
  BY DEF Clock, ControllerEdge
<1>2. delay_q \in Nat /\ active_age_q \in Nat /\ active_age_q < TRAS /\ TRAS \in Nat
  BY Typed, Times
<1>3. delay_q' \in Nat /\ (delay_done_q <=> delay_q = 0)
  BY <1>1, DelayNext
<1>4. delay_q' + 1 >= delay_q
  <2>1. CASE delay_done_q
    <3>1. delay_q = 0
      BY <1>3, <2>1
    <3>2. \A n \in Nat : n + 1 >= 0
      OBVIOUS
    <3> QED BY <1>3, <3>1, <3>2
  <2>2. CASE ~delay_done_q
    BY <1>1, <1>2, <2>2, DelayNext DEF Down
  <2> QED BY <2>1, <2>2
<1>5. ~delay_done_q => delay_q' = delay_q - 1
  BY <1>1, <1>2, <1>3, DelayNext DEF Down
<1>6. active_age_q' \in Nat /\ active_age_q' + 1 >= active_age_q
  BY <1>1, <1>2, RecoveryNext DEF Down
<1> QED BY <1>2, <1>3, <1>4, <1>5, <1>6

\* Open rows.
LEMMA RowsNext ==
  ASSUME TypeOK, MachineKept, DeviceKept, NEW offer \in Offers, Clock(offer)
  PROVE  /\ open_q' = OpenedSeen' /\ \A b \in open_q' : rows_q'[b] = RowSeen(b)'
         /\ open_q' = (open_q \ Precharged(pin.cmd)') \cup Activated'
         /\ open_q' \subseteq Banks
<1>1. MachineStep
  BY DEF Clock, ControllerEdge
<1>2. /\ Activated' = IF Doing("ROW_ACTIVE") THEN {head_q.addr.bank} ELSE {}
      /\ Precharged(pin.cmd)' = IF Doing("INIT_PRE") \/ Doing("REF_PRE") THEN Banks
                                ELSE IF Doing("ROW_PRE") THEN {head_q.addr.bank} ELSE {}
      /\ OpenedSeen' = (OpenedSeen \ Precharged(pin.cmd)') \cup Activated'
      /\ \A b \in Banks : RowSeen(b)' = IF b \in Activated' THEN head_q.addr.row ELSE RowSeen(b)
  BY SeenNext
<1>3. open_q = OpenedSeen /\ open_q \subseteq Banks /\ \A b \in open_q : rows_q[b] = RowSeen(b)
  BY Typed DEF DeviceKept
<1>4. Doing("ROW_ACTIVE") => head_q # Nothing /\ head_q.addr.bank \in Banks
  BY HeadWaits, Typed DEF Doing
<1>5. Doing("INIT_PRE") => open_q = {}
  BY DEF Doing, MachineKept, SetUp
<1>6. open_q' = (open_q \ Precharged(pin.cmd)') \cup Activated'
  <2>1. open_q' = IF Doing("REF_PRE") THEN {}
                  ELSE IF Doing("ROW_PRE") THEN open_q \ {head_q.addr.bank}
                  ELSE IF Doing("ROW_ACTIVE") THEN open_q \cup {head_q.addr.bank}
                  ELSE open_q
    BY <1>1 DEF MachineStep, Doing
  <2>2. ~(Doing("REF_PRE") /\ Doing("ROW_ACTIVE")) /\ ~(Doing("ROW_PRE") /\ Doing("ROW_ACTIVE"))
        /\ ~(Doing("INIT_PRE") /\ Doing("ROW_ACTIVE")) /\ ~(Doing("INIT_PRE") /\ Doing("ROW_PRE"))
        /\ ~(Doing("REF_PRE") /\ Doing("ROW_PRE"))
    BY DEF Doing
  <2> QED BY <1>2, <1>3, <1>5, <2>1, <2>2
<1>7. open_q' \subseteq Banks
  BY <1>2, <1>3, <1>4, <1>6
<1>8. ASSUME NEW b \in open_q' PROVE rows_q'[b] = RowSeen(b)'
  <2>1. rows_q \in [Banks -> Rows] /\ b \in Banks
    BY <1>7, <1>8, Typed
  <2>2. CASE Doing("ROW_ACTIVE")
    <3>1. rows_q' = [rows_q EXCEPT ![head_q.addr.bank] = head_q.addr.row]
      BY <1>1, <2>2 DEF MachineStep
    <3>2. CASE b = head_q.addr.bank
      BY <1>2, <2>1, <2>2, <3>1, <3>2
    <3>3. CASE b # head_q.addr.bank
      BY <1>2, <1>3, <1>6, <1>8, <2>1, <2>2, <3>1, <3>3
    <3> QED BY <3>2, <3>3
  <2>3. CASE ~Doing("ROW_ACTIVE")
    <3>1. rows_q' = rows_q
      BY <1>1, <2>3 DEF MachineStep
    <3> QED BY <1>2, <1>3, <1>6, <1>8, <2>1, <2>3, <3>1
  <2> QED BY <2>2, <2>3
<1> QED BY <1>2, <1>3, <1>6, <1>7, <1>8

\* The set-up of the device.
LEMMA SetupNext ==
  ASSUME TypeOK, MachineKept, DeviceKept, NEW offer \in Offers, Clock(offer)
  PROVE  /\ IF init_done_q' THEN up_age' >= PowerUp ELSE up_age' + timer_q' >= PowerUp
         /\ pin'.dqm \/ init_done_q'
         /\ state_q' \in {"POWERUP", "INIT_PRE"} \/ PrechargedSeen'
         /\ state_q' \in SetUp \/ InitializedSeen'
         /\ state_q' = "INIT_REFRESH" => RefsSeen' = init_refresh_q'
         /\ state_q' = "INIT_MODE" => RefsSeen' = 8
         /\ state_q' \in {"POWERUP", "INIT_PRE"} => RefsSeen' = 0 /\ init_refresh_q' = 0
         /\ init_refresh_q' \in 0 .. 7
<1>1. MachineStep /\ TimerStep /\ PinStep
  BY DEF Clock, ControllerEdge
<1>2. /\ state_q \in States /\ timer_q \in Nat /\ init_refresh_q \in 0 .. 7 /\ PowerUp \in Nat
      /\ up_age \in 1 .. MaxAge /\ MaxAge \in Nat /\ MaxAge >= PowerUp /\ RefsSeen \in 0 .. 8
      /\ init_done_q \in BOOLEAN /\ ready \in BOOLEAN /\ delay_done_q \in BOOLEAN
  BY Typed, SetupTyped, Ages, Times
<1>3. /\ PrechargedSeen' <=> PrechargedSeen \/ Doing("INIT_PRE") \/ Doing("REF_PRE")
      /\ InitializedSeen' <=> InitializedSeen \/ Doing("INIT_MODE")
      /\ RefsSeen' = IF (Doing("INIT_REFRESH") \/ Doing("REF_CMD")) /\ RefsSeen < 8
                     THEN RefsSeen + 1 ELSE RefsSeen
  BY SeenNext
<1>4. IF init_done_q' THEN up_age' >= PowerUp ELSE up_age' + timer_q' >= PowerUp
  <2>1. IF init_done_q THEN up_age >= PowerUp ELSE up_age + timer_q >= PowerUp
    BY DEF DeviceKept
  <2>2. up_age' = IF up_age = MaxAge THEN MaxAge ELSE up_age + 1
    BY DeviceSees DEF Older
  <2>3. /\ init_done_q => init_done_q'
        /\ ~init_done_q => /\ init_done_q' <=> timer_q <= 1
                           /\ timer_q > 1 => timer_q' = timer_q - 1
    <3>1. Doing("REF_CMD") => init_done_q
      BY DEF Doing, MachineKept
    <3> QED BY <1>1, <1>2, <3>1, TimerNext
  <2> QED BY <1>2, <2>1, <2>2, <2>3
<1>5. pin'.dqm \/ init_done_q'
  <2>1. ready => init_done_q'
    BY <1>1, TimerNext
  <2>2. pin'.dqm = (\/ ~ready
                    \/ (Issue /\ head_we_q) /\ 0 \notin head_q.mask
                    \/ burst_q /\ ~write_high_q[2])
    BY <1>1 DEF PinStep
  <2>3. pin'.dqm <=> (\/ ~ready
                      \/ (Issue /\ head_we_q) /\ 0 \notin head_q.mask
                      \/ burst_q /\ ~write_high_q[2])
    BY <2>2, Zenon
  <2> QED BY <1>2, <2>1, <2>3
<1>6. state_q' \in {"POWERUP", "INIT_PRE"} => state_q \in {"POWERUP", "INIT_PRE"} /\ ~Doing("INIT_PRE")
  BY <1>1, <1>2, StateNext DEF Doing, States
<1>7. state_q' \in {"POWERUP", "INIT_PRE"} \/ PrechargedSeen'
  <2>1. state_q \in {"POWERUP", "INIT_PRE"} \/ PrechargedSeen
    BY DEF DeviceKept
  <2>2. CASE state_q \notin {"POWERUP", "INIT_PRE"}
    BY <1>3, <2>1, <2>2
  <2>3. CASE state_q \in {"POWERUP", "INIT_PRE"}
    BY <1>1, <1>2, <1>3, <2>3, StateNext DEF Doing
  <2> QED BY <2>2, <2>3
<1>8. state_q' \in SetUp \/ InitializedSeen'
  <2>1. state_q \in SetUp \/ InitializedSeen
    BY DEF DeviceKept
  <2>2. CASE state_q \notin SetUp
    BY <1>3, <2>1, <2>2
  <2>3. CASE state_q \in SetUp
    BY <1>1, <1>2, <1>3, <2>3, StateNext DEF Doing, SetUp
  <2> QED BY <2>2, <2>3
<1>9. init_refresh_q' = (init_refresh_q + One(Doing("INIT_REFRESH"))) % 8
  BY <1>1 DEF MachineStep
<1>10. \A n \in 0 .. 7 : n % 8 = n /\ (n # 7 => (n + 1) % 8 = n + 1) /\ (7 + 1) % 8 = 0
  OBVIOUS
<1>11. init_refresh_q' = IF Doing("INIT_REFRESH") THEN IF init_refresh_q = 7 THEN 0 ELSE init_refresh_q + 1
                         ELSE init_refresh_q
  BY <1>2, <1>9, <1>10 DEF One
<1>12. state_q' \in {"POWERUP", "INIT_PRE"} => RefsSeen' = 0 /\ init_refresh_q' = 0
  <2>1. state_q \in {"POWERUP", "INIT_PRE"} => RefsSeen = 0 /\ init_refresh_q = 0
    BY DEF DeviceKept
  <2> QED BY <1>3, <1>6, <1>11, <2>1 DEF Doing
<1>13. state_q' = "INIT_REFRESH" => RefsSeen' = init_refresh_q'
  <2>1. SUFFICES ASSUME state_q' = "INIT_REFRESH" PROVE RefsSeen' = init_refresh_q'
    OBVIOUS
  <2>2. CASE state_q = "INIT_PRE"
    <3>1. RefsSeen = 0 /\ init_refresh_q = 0
      BY <2>2 DEF DeviceKept
    <3> QED BY <1>3, <1>11, <2>2, <3>1 DEF Doing
  <2>3. CASE state_q = "INIT_REFRESH"
    <3>1. RefsSeen = init_refresh_q
      BY <2>3 DEF DeviceKept
    <3>2. delay_done_q => init_refresh_q # 7
      BY <1>1, <2>1, <2>3, StateNext
    <3> QED BY <1>2, <1>3, <1>11, <2>3, <3>1, <3>2 DEF Doing
  <2>4. state_q \in {"INIT_PRE", "INIT_REFRESH"}
    BY <1>1, <1>2, <2>1, StateNext DEF States
  <2> QED BY <2>2, <2>3, <2>4
<1>14. state_q' = "INIT_MODE" => RefsSeen' = 8
  <2>1. SUFFICES ASSUME state_q' = "INIT_MODE" PROVE RefsSeen' = 8
    OBVIOUS
  <2>2. \/ state_q = "INIT_MODE" /\ ~delay_done_q
        \/ state_q = "INIT_REFRESH" /\ delay_done_q /\ init_refresh_q = 7
    BY <1>1, <1>2, <2>1, StateNext DEF States
  <2> QED BY <1>2, <1>3, <2>2 DEF Doing, DeviceKept
<1> QED BY <1>2, <1>4, <1>5, <1>7, <1>8, <1>11, <1>12, <1>13, <1>14

\* The waits after a refresh and a mode command.
LEMMA WaitsNext ==
  ASSUME TypeOK, MachineKept, DeviceKept, NEW offer \in Offers, Clock(offer)
  PROVE  /\ RefreshSeen' + delay_q' >= TRFC /\ ModeSeen' + delay_q' >= 2
         /\ open_q' # {} => RefreshSeen' >= TRFC /\ ModeSeen' >= 2
<1>1. DelayStep
  BY DEF Clock, ControllerEdge
<1>2. /\ RefreshSeen \in 1 .. MaxRefreshAge /\ ModeSeen \in 1 .. MaxAge
      /\ MaxAge \in Nat /\ MaxRefreshAge \in Nat /\ MaxAge < MaxRefreshAge /\ MaxAge >= TRFC
      /\ TRFC \in Nat /\ MaxAge >= 2
  BY SetupTyped, Ages, Times
<1>3. /\ delay_q \in Nat /\ delay_q' \in Nat /\ delay_q' + 1 >= delay_q
      /\ delay_done_q => delay_q = 0
  BY Shrinks
<1>4. /\ RefreshSeen' = IF Doing("INIT_REFRESH") \/ Doing("REF_CMD") THEN 1
                        ELSE IF RefreshSeen = MaxRefreshAge THEN MaxRefreshAge ELSE RefreshSeen + 1
      /\ ModeSeen' = IF Doing("INIT_MODE") THEN 1
                     ELSE IF ModeSeen = MaxAge THEN MaxAge ELSE ModeSeen + 1
  BY SeenNext DEF Older
<1>5. /\ Doing("INIT_REFRESH") \/ Doing("REF_CMD") => delay_q' = TRFC - 1
      /\ Doing("INIT_MODE") => delay_q' = 2
  BY <1>1, DelayNext, WaitsAre DEF Doing
<1>6. /\ RefreshSeen + delay_q >= TRFC /\ ModeSeen + delay_q >= 2
      /\ open_q # {} => RefreshSeen >= TRFC /\ ModeSeen >= 2
  BY DEF DeviceKept
<1>7. RefreshSeen' + delay_q' >= TRFC
  <2>1. CASE Doing("INIT_REFRESH") \/ Doing("REF_CMD")
    BY <1>2, <1>4, <1>5, <2>1
  <2>2. CASE ~(Doing("INIT_REFRESH") \/ Doing("REF_CMD"))
    <3>1. RefreshSeen' = IF RefreshSeen = MaxRefreshAge THEN MaxRefreshAge ELSE RefreshSeen + 1
      BY <1>4, <2>2
    <3>2. RefreshSeen \in Nat /\ RefreshSeen' \in Nat /\ TRFC <= MaxRefreshAge
      BY <1>2, <3>1
    <3> QED BY <1>2, <1>3, <1>6, <3>1, <3>2, Ticks
  <2> QED BY <2>1, <2>2
<1>8. ModeSeen' + delay_q' >= 2
  <2>1. CASE Doing("INIT_MODE")
    BY <1>2, <1>4, <1>5, <2>1
  <2>2. CASE ~Doing("INIT_MODE")
    <3>1. ModeSeen' = Older(ModeSeen)
      BY <2>2, SeenNext
    <3>2. 2 \in Nat /\ 2 <= MaxAge /\ ModeSeen + delay_q >= 2
      BY <1>2, <1>6
    <3>3. Older(ModeSeen) + delay_q' >= 2
      BY <1>2, <1>3, <3>2, OlderTicks
    <3> QED BY <3>1, <3>3
  <2> QED BY <2>1, <2>2
<1>9. ASSUME open_q' # {} PROVE RefreshSeen' >= TRFC /\ ModeSeen' >= 2
  <2>1. open_q # {} \/ Doing("ROW_ACTIVE")
    BY <1>9, RowsNext, SeenNext
  <2>2. RefreshSeen >= TRFC /\ ModeSeen >= 2
    <3>1. Doing("ROW_ACTIVE") => delay_q = 0
      BY <1>3 DEF Doing
    <3> QED BY <1>2, <1>6, <2>1, <3>1
  <2>3. ~Doing("INIT_REFRESH") /\ ~Doing("REF_CMD") /\ ~Doing("INIT_MODE")
    BY <2>1 DEF Doing, MachineKept, SetUp
  <2> QED BY <1>2, <1>4, <2>2, <2>3
<1> QED BY <1>7, <1>8, <1>9

\* The waits of one bank.
LEMMA BankNext ==
  ASSUME TypeOK, MachineKept, DeviceKept, NEW offer \in Offers, Clock(offer), NEW b \in Banks
  PROVE  /\ b \in open_q' => ActSeen(b)' + delay_q' >= TRCD /\ ActSeen(b)' + active_age_q' >= TRAS
         /\ b \notin open_q' => PreSeen(b)' + delay_q' >= TRP /\ ActSeen(b)' + delay_q' >= TRAS + TRP
<1>1. DelayStep /\ RecoveryStep
  BY DEF Clock, ControllerEdge
<1>2. /\ ActSeen(b) \in 1 .. MaxAge /\ PreSeen(b) \in 1 .. MaxAge
      /\ MaxAge \in Nat /\ MaxAge >= TRCD /\ MaxAge >= TRAS + TRP
      /\ TRCD \in Nat /\ TRP \in Nat /\ TRAS \in Nat /\ TRP > 0 /\ TRAS > 0 /\ TRCD > 0
  BY SeenTyped, Ages, Times
<1>3. /\ delay_q \in Nat /\ delay_q' \in Nat /\ delay_q' + 1 >= delay_q
      /\ active_age_q \in Nat /\ active_age_q' \in Nat /\ active_age_q' + 1 >= active_age_q
      /\ delay_done_q => delay_q = 0
  BY Shrinks
<1>4. /\ ActSeen(b)' = IF b \in Activated' THEN 1 ELSE Older(ActSeen(b))
      /\ PreSeen(b)' = IF b \in Precharged(pin.cmd)' THEN 1 ELSE Older(PreSeen(b))
  BY SeenNext
<1>5. /\ open_q' = (open_q \ Precharged(pin.cmd)') \cup Activated'
      /\ Activated' = IF Doing("ROW_ACTIVE") THEN {head_q.addr.bank} ELSE {}
      /\ Precharged(pin.cmd)' = IF Doing("INIT_PRE") \/ Doing("REF_PRE") THEN Banks
                                ELSE IF Doing("ROW_PRE") THEN {head_q.addr.bank} ELSE {}
  BY RowsNext, SeenNext
<1>6. /\ b \in open_q => ActSeen(b) + delay_q >= TRCD /\ ActSeen(b) + active_age_q >= TRAS
      /\ b \notin open_q => PreSeen(b) + delay_q >= TRP /\ ActSeen(b) + delay_q >= TRAS + TRP
  BY DEF DeviceKept
<1>7. ASSUME b \in open_q'
      PROVE  ActSeen(b)' + delay_q' >= TRCD /\ ActSeen(b)' + active_age_q' >= TRAS
  <2>1. CASE b \in Activated'
    <3>1. Doing("ROW_ACTIVE")
      BY <1>5, <2>1
    <3>2. delay_q' = TRCD - 1 /\ active_age_q' = TRAS - 1
      BY <1>1, <3>1, DelayNext, RecoveryNext, WaitsAre DEF Doing
    <3> QED BY <1>2, <1>4, <2>1, <3>2
  <2>2. CASE b \notin Activated'
    <3>1. b \in open_q
      BY <1>5, <1>7, <2>2
    <3>2. ActSeen(b)' = Older(ActSeen(b))
      BY <1>4, <2>2
    <3>3. TRAS <= MaxAge /\ TRCD <= MaxAge
      BY <1>2
    <3>4. ActSeen(b) + delay_q >= TRCD /\ ActSeen(b) + active_age_q >= TRAS
      BY <1>6, <3>1
    <3>5. Older(ActSeen(b)) + delay_q' >= TRCD
      BY <1>2, <1>3, <3>3, <3>4, OlderTicks
    <3>6. Older(ActSeen(b)) + active_age_q' >= TRAS
      BY <1>2, <1>3, <3>3, <3>4, OlderTicks
    <3> QED BY <3>2, <3>5, <3>6
  <2> QED BY <2>1, <2>2
<1>8. ASSUME b \notin open_q'
      PROVE  PreSeen(b)' + delay_q' >= TRP /\ ActSeen(b)' + delay_q' >= TRAS + TRP
  <2>0. b \notin Activated'
    BY <1>5, <1>8
  <2>1. CASE b \in Precharged(pin.cmd)'
    <3>1. Doing("INIT_PRE") \/ Doing("REF_PRE") \/ Doing("ROW_PRE")
      BY <1>5, <2>1
    <3>2. delay_q' = TRP - 1
      BY <1>1, <3>1, DelayNext, WaitsAre DEF Doing
    <3>3. active_age_q = 0 /\ delay_q = 0
      BY <1>3, <3>1 DEF Doing, MachineKept
    <3>4. ActSeen(b) >= TRAS
      <4>1. CASE b \in open_q
        BY <1>2, <1>6, <3>3, <4>1
      <4>2. CASE b \notin open_q
        BY <1>2, <1>6, <3>3, <4>2
      <4> QED BY <4>1, <4>2
    <3> QED BY <1>2, <1>4, <2>0, <2>1, <3>2, <3>4 DEF Older
  <2>2. CASE b \notin Precharged(pin.cmd)'
    <3>1. b \notin open_q
      BY <1>5, <1>8, <2>2
    <3>2. PreSeen(b) + delay_q >= TRP /\ ActSeen(b) + delay_q >= TRAS + TRP
      BY <1>6, <3>1
    <3>3. PreSeen(b)' + delay_q' >= TRP
      <4>1. TRP <= MaxAge
        BY <1>2
      <4>2. Older(PreSeen(b)) + delay_q' >= TRP
        BY <1>2, <1>3, <3>2, <4>1, OlderTicks
      <4>3. PreSeen(b)' = Older(PreSeen(b))
        BY <1>4, <2>2
      <4> QED BY <4>2, <4>3
    <3>4. ActSeen(b)' + delay_q' >= TRAS + TRP
      <4>1. TRAS + TRP \in Nat /\ TRAS + TRP <= MaxAge
        BY <1>2
      <4>2. Older(ActSeen(b)) + delay_q' >= TRAS + TRP
        BY <1>2, <1>3, <3>2, <4>1, OlderTicks
      <4>3. ActSeen(b)' = Older(ActSeen(b))
        BY <1>4, <2>0
      <4> QED BY <4>2, <4>3
    <3> QED BY <3>3, <3>4
  <2> QED BY <2>1, <2>2
<1> QED BY <1>7, <1>8

\* Data on the way to or from one bank.
LEMMA BusNext ==
  ASSUME TypeOK, QueueKept, MachineKept, DeviceKept, FlightKept,
         NEW offer \in Offers, Clock(offer), NEW b \in Banks
  PROVE  /\ WriteSeen(b)' + recovery_q' >= TWR /\ (~Direction' => WriteSeen(b)' >= TWR)
         /\ BusySeen(b)' <= recovery_q'
<1>1. RecoveryStep /\ DeviceEdge(pin)
  BY DEF Clock, ControllerEdge
<1>2. /\ WriteSeen(b) \in 1 .. MaxAge /\ BusySeen(b) \in 0 .. CAS /\ MaxAge \in Nat /\ MaxAge >= TWR
      /\ TWR \in Nat /\ TWR > 0 /\ CAS \in {2, 3} /\ Half \in {0, 1}
      /\ WriteWait = TWR + Half + 1 /\ ReadWait = CAS + Half + 3
      /\ recovery_q \in Nat /\ (recovered_q <=> recovery_q = 0) /\ head_we_q \in BOOLEAN
  BY SeenTyped, Ages, Times, Typed DEF MachineKept
<1>3. recovery_q' = IF Issue THEN IF head_we_q THEN WriteWait ELSE ReadWait ELSE Down(recovery_q)
  BY <1>1, RecoveryNext
<1>4. /\ WriteSeen(b) + recovery_q >= TWR /\ (~Direction => WriteSeen(b) >= TWR)
      /\ BusySeen(b) <= recovery_q
  BY DEF DeviceKept
<1>5. /\ Direction' <=> IF Issue THEN head_we_q ELSE Direction
      /\ Issue /\ head_same_direction_q => (Direction <=> head_we_q)
      /\ Issue => head_same_direction_q \/ recovery_q = 0
  BY <1>2, DirectionNext DEF Issue, DirectionOk
<1>6. BusySeen(b)' <= recovery_q'
  <2>1. BusySeen(b)' = IF Issue /\ ~head_we_q /\ head_q.addr.bank = b THEN CAS + Half - 1
                       ELSE IF BusySeen(b) = 0 THEN 0 ELSE BusySeen(b) - 1
    BY SeenNext DEF Down
  <2> QED BY <1>2, <1>3, <1>4, <2>1 DEF Down
<1>7. PICK stored \in BOOLEAN :
        /\ WriteSeen(b)' = IF stored THEN 1 ELSE Older(WriteSeen(b))
        /\ stored => \/ Issue /\ head_we_q
                     \/ Half = 1 /\ 0 \in write_pipe_q
  <2>1. WriteSeen(b)' = IF \E s \in StoresSeen' : s[1].bank = b THEN 1 ELSE Older(write_age'[b])
    BY DEF WriteSeen, Older
  <2>2. write_age'[b] = WriteSeen(b)
    BY DeviceSees
  <2>3. write_second' = IF pin.cmd.op = "WRITE" /\ Half = 1 THEN {Target(pin.cmd)} ELSE {}
    BY <1>1 DEF DeviceEdge, StoreStep
  <2>4. ASSUME StoresSeen' # {}
        PROVE  (Issue /\ head_we_q) \/ (Half = 1 /\ 0 \in write_pipe_q)
    <3>1. pin'.cmd.op = "WRITE" \/ write_second' # {}
      BY <2>4 DEF StoresSeen
    <3>2. pin'.cmd.op = "WRITE" <=> Issue /\ head_we_q
      BY DeviceSees, CommandIs
    <3>3. pin.cmd.op = "WRITE" <=> 0 \in write_pipe_q
      BY DEF FlightKept
    <3> QED BY <2>3, <3>1, <3>2, <3>3
  <2> DEFINE stored == \E s \in StoresSeen' : s[1].bank = b
  <2>5. stored \in BOOLEAN
    OBVIOUS
  <2>6. stored => (Issue /\ head_we_q) \/ (Half = 1 /\ 0 \in write_pipe_q)
    BY <2>4
  <2>7. WriteSeen(b)' = IF stored THEN 1 ELSE Older(WriteSeen(b))
    BY <2>1, <2>2
  <2> HIDE DEF stored
  <2> QED BY <2>5, <2>6, <2>7
<1>8. Half = 1 /\ 0 \in write_pipe_q => ~Issue /\ recovery_q >= WriteWait /\ Direction
  <2>1. SUFFICES ASSUME Half = 1, 0 \in write_pipe_q PROVE ~Issue /\ recovery_q >= WriteWait /\ Direction
    OBVIOUS
  <2>2. ~run_ready_q /\ Direction /\ recovery_q >= WriteWait - 0
    BY <2>1 DEF FlightKept
  <2> QED BY <1>2, <2>2 DEF Issue
<1>9. WriteSeen(b)' + recovery_q' >= TWR /\ (~Direction' => WriteSeen(b)' >= TWR)
  <2>0. Older(WriteSeen(b)) >= WriteSeen(b) /\ Older(WriteSeen(b)) \in Nat
        /\ (Older(WriteSeen(b)) >= WriteSeen(b) + 1 \/ Older(WriteSeen(b)) >= TWR)
    BY <1>2 DEF Older
  <2>1. CASE stored
    BY <1>2, <1>3, <1>5, <1>7, <1>8, <2>1 DEF Down
  <2>2. CASE ~stored
    <3>1. WriteSeen(b)' = Older(WriteSeen(b))
      BY <1>7, <2>2
    <3>2. CASE Issue /\ head_we_q
      BY <1>2, <1>3, <1>5, <2>0, <3>1, <3>2
    <3>3. CASE Issue /\ ~head_we_q
      <4>1. WriteSeen(b) >= TWR
        BY <1>2, <1>4, <1>5, <3>3
      <4> QED BY <1>2, <1>3, <2>0, <3>1, <3>3, <4>1
    <3>4. CASE ~Issue
      <4>1. recovery_q' \in Nat /\ recovery_q' + 1 >= recovery_q
        BY <1>2, <1>3, <3>4 DEF Down
      <4>2. ~Direction' => WriteSeen(b) >= TWR
        BY <1>4, <1>5, <3>4
      <4>3. WriteSeen(b)' + recovery_q' >= TWR
        <5>1. TWR <= MaxAge /\ WriteSeen(b) + recovery_q >= TWR
          BY <1>2, <1>4
        <5>2. Older(WriteSeen(b)) + recovery_q' >= TWR
          BY <1>2, <4>1, <5>1, OlderTicks
        <5> QED BY <3>1, <5>2
      <4>4. WriteSeen(b) >= TWR => WriteSeen(b)' >= TWR
        BY <1>2, <2>0, <3>1
      <4> QED BY <4>2, <4>3, <4>4
    <3> QED BY <3>2, <3>3, <3>4
  <2> QED BY <2>1, <2>2
<1> QED BY <1>6, <1>9

\* The device is ready for the next command after an edge.
LEMMA DeviceNext ==
  ASSUME TypeOK, QueueKept, MachineKept, DeviceKept, FlightKept, NEW offer \in Offers, Clock(offer)
  PROVE  DeviceKept'
<1>1. ASSUME NEW b \in Banks
      PROVE  /\ b \in open_q' => ActSeen(b)' + delay_q' >= TRCD /\ ActSeen(b)' + active_age_q' >= TRAS
             /\ b \notin open_q' => PreSeen(b)' + delay_q' >= TRP /\ ActSeen(b)' + delay_q' >= TRAS + TRP
             /\ WriteSeen(b)' + recovery_q' >= TWR
             /\ ~Direction' => WriteSeen(b)' >= TWR
             /\ BusySeen(b)' <= recovery_q'
  BY <1>1, BankNext, BusNext
<1> QED BY <1>1, RowsNext, SetupNext, WaitsNext DEF DeviceKept

-----------------------------------------------------------------------------
(* The pipelines. *)

\* The pipelines move one place; an access enters at the first, an answer leaves the last.
LEMMA PipesNext ==
  ASSUME TypeOK, NEW offer, Clock(offer)
  PROVE  /\ read_pipe_q \subseteq ReadPipe /\ write_pipe_q \subseteq WritePipe
         /\ read_pipe_q' \subseteq ReadPipe /\ write_pipe_q' \subseteq WritePipe
         /\ 0 \in read_pipe_q' <=> Issue /\ ~head_we_q
         /\ 0 \in write_pipe_q' <=> Issue /\ head_we_q
         /\ \A k \in Nat : /\ k + 1 \in read_pipe_q' <=> k \in read_pipe_q \ {CAS + Half}
                           /\ k + 1 \in write_pipe_q' <=> k \in write_pipe_q \ {Half}
         /\ mem_ack' <=> CAS + Half \in read_pipe_q \/ Half \in write_pipe_q
         /\ mem_ack' \in BOOLEAN
         /\ (burst_q' <=> Issue /\ head_we_q /\ Half = 1) /\ burst_q' \in BOOLEAN
<1>1. AnswerStep /\ PinStep
  BY DEF Clock, ControllerEdge
<1>2. read_pipe_q \subseteq ReadPipe /\ write_pipe_q \subseteq WritePipe
      /\ ReadPipe = 0 .. CAS + Half /\ WritePipe = 0 .. Half /\ CAS + Half \in Nat /\ Half \in Nat
  BY Times DEF TypeOK, ControllerTypeOK, ReadPipe, WritePipe
<1>3. /\ read_pipe_q' = {k + 1 : k \in read_pipe_q \ {CAS + Half}}
                        \cup (IF Issue /\ ~head_we_q THEN {0} ELSE {})
      /\ write_pipe_q' = {k + 1 : k \in write_pipe_q \ {Half}}
                         \cup (IF Issue /\ head_we_q THEN {0} ELSE {})
      /\ mem_ack' = (CAS + Half \in read_pipe_q \/ Half \in write_pipe_q)
      /\ burst_q' = ((Issue /\ head_we_q) /\ Half = 1)
  BY <1>1 DEF AnswerStep, PinStep
<1>4. read_pipe_q' \subseteq ReadPipe /\ write_pipe_q' \subseteq WritePipe
  <2>1. ASSUME NEW top \in Nat, NEW pipe \in SUBSET (0 .. top)
        PROVE  {k + 1 : k \in pipe \ {top}} \cup {0} \subseteq 0 .. top
    OBVIOUS
  <2>2. {k + 1 : k \in read_pipe_q \ {CAS + Half}} \cup {0} \subseteq ReadPipe
    BY <1>2, <2>1
  <2>3. {k + 1 : k \in write_pipe_q \ {Half}} \cup {0} \subseteq WritePipe
    BY <1>2, <2>1
  <2> QED BY <1>3, <2>2, <2>3
<1>5. (0 \in read_pipe_q' <=> Issue /\ ~head_we_q) /\ (0 \in write_pipe_q' <=> Issue /\ head_we_q)
  BY <1>2, <1>3
<1>6. ASSUME NEW k \in Nat
      PROVE  /\ k + 1 \in read_pipe_q' <=> k \in read_pipe_q \ {CAS + Half}
             /\ k + 1 \in write_pipe_q' <=> k \in write_pipe_q \ {Half}
  <2>1. k + 1 \in read_pipe_q' <=> k \in read_pipe_q \ {CAS + Half}
    BY <1>2, <1>3
  <2>2. k + 1 \in write_pipe_q' <=> k \in write_pipe_q \ {Half}
    BY <1>2, <1>3
  <2> QED BY <2>1, <2>2
<1>7. (mem_ack' <=> CAS + Half \in read_pipe_q \/ Half \in write_pipe_q)
      /\ (burst_q' <=> Issue /\ head_we_q /\ Half = 1)
  BY <1>3, Zenon
<1>8. mem_ack' \in BOOLEAN /\ burst_q' \in BOOLEAN
  BY <1>3
<1> QED BY <1>2, <1>4, <1>5, <1>6, <1>7, <1>8

\* An access is not issued into the other direction's data.
LEMMA OneDirection ==
  ASSUME TypeOK, QueueKept, MachineKept, FlightKept, NEW offer \in Offers, Clock(offer)
  PROVE  /\ Issue /\ head_we_q => read_pipe_q = {}
         /\ Issue /\ ~head_we_q => write_pipe_q = {}
         /\ Issue => Half = 0 \/ (0 \notin read_pipe_q /\ 0 \notin write_pipe_q)
<1>1. /\ Issue => head_same_direction_q \/ recovery_q = 0
      /\ Issue /\ head_same_direction_q => (Direction <=> head_we_q)
  BY DirectionNext DEF Issue, DirectionOk, MachineKept
<1>2. /\ read_pipe_q \subseteq ReadPipe /\ write_pipe_q \subseteq WritePipe
      /\ ReadPipe = 0 .. CAS + Half /\ WritePipe = 0 .. Half /\ CAS \in Nat /\ Half \in Nat
      /\ TWR \in Nat /\ WriteWait = TWR + Half + 1 /\ ReadWait = CAS + Half + 3
  BY PipesNext, Times DEF ReadPipe, WritePipe
<1>3. ASSUME recovery_q = 0 PROVE read_pipe_q = {} /\ write_pipe_q = {}
  <2>1. ASSUME NEW k \in read_pipe_q PROVE FALSE
    <3>1. 0 >= ReadWait - k
      BY <1>3, <2>1 DEF FlightKept
    <3> QED BY <1>2, <2>1, <3>1
  <2>2. ASSUME NEW k \in write_pipe_q PROVE FALSE
    <3>1. 0 >= WriteWait - k
      BY <1>3, <2>2 DEF FlightKept
    <3> QED BY <1>2, <2>2, <3>1
  <2> QED BY <2>1, <2>2
<1>4. Issue /\ head_we_q => read_pipe_q = {}
  BY <1>1, <1>3 DEF FlightKept
<1>5. Issue /\ ~head_we_q => write_pipe_q = {}
  BY <1>1, <1>3 DEF FlightKept
<1>6. Issue => Half = 0 \/ (0 \notin read_pipe_q /\ 0 \notin write_pipe_q)
  BY Times DEF Issue, FlightKept
<1> QED BY <1>4, <1>5, <1>6

\* The mask that comes with a command.
LEMMA MaskNext ==
  ASSUME TypeOK, QueueKept, MachineKept, FlightKept, NEW offer \in Offers, Clock(offer)
  PROVE  /\ pin'.dqm <=> \/ ~ready
                         \/ Issue /\ head_we_q /\ 0 \notin head_q.mask
                         \/ burst_q /\ ~write_high_q[2]
         /\ pin'.oe <=> (Issue /\ head_we_q) \/ burst_q
         /\ pin'.dqm \in BOOLEAN /\ pin'.oe \in BOOLEAN
         /\ dqm_prev' = pin.dqm /\ dqm_prev2' = dqm_prev
         /\ ~ready => ~Issue /\ ~burst_q /\ read_pipe_q = {} /\ write_pipe_q = {}
<1>1. PinStep /\ DeviceEdge(pin)
  BY DEF Clock, ControllerEdge
<1>2. /\ pin'.dqm = (\/ ~ready
                     \/ (Issue /\ head_we_q) /\ 0 \notin head_q.mask
                     \/ burst_q /\ ~write_high_q[2])
      /\ pin'.oe = ((Issue /\ head_we_q) \/ burst_q)
  BY <1>1 DEF PinStep
<1>3. /\ pin'.dqm <=> \/ ~ready
                      \/ (Issue /\ head_we_q) /\ 0 \notin head_q.mask
                      \/ burst_q /\ ~write_high_q[2]
      /\ pin'.oe <=> (Issue /\ head_we_q) \/ burst_q
  BY <1>2, Zenon
<1>4. pin'.dqm \in BOOLEAN /\ pin'.oe \in BOOLEAN
  BY <1>2
<1>5. dqm_prev' = pin.dqm /\ dqm_prev2' = dqm_prev
  BY <1>1 DEF DeviceEdge
<1>6. ~ready => ~Issue /\ ~burst_q /\ read_pipe_q = {} /\ write_pipe_q = {}
  <2>1. ~ready => head_q = Nothing /\ read_pipe_q = {} /\ write_pipe_q = {}
    BY DEF QueueKept, FlightKept
  <2>2. burst_q => 0 \in write_pipe_q
    BY DEF FlightKept
  <2> QED BY <2>1, <2>2 DEF Issue, RowHit
<1> QED BY <1>3, <1>4, <1>5, <1>6

\* A recovery counter loses one an edge, as an access in the pipelines does.
LEMMA DownBy ==
  ASSUME NEW r \in Nat, NEW w \in Int, NEW k \in Int, r >= w - (k - 1)
  PROVE  Down(r) >= w - k
  BY DEF Down

\* One direction at a time is in flight, with its recovery and its pins, after an edge.
LEMMA FlightNext ==
  ASSUME TypeOK, QueueKept, MachineKept, FlightKept, NEW offer \in Offers, Clock(offer)
  PROVE  FlightKept'
<1>1. RecoveryStep /\ DelayStep /\ MachineStep /\ HeadStep /\ DeviceEdge(pin)
  BY DEF Clock, ControllerEdge
<1>2. /\ read_pipe_q \subseteq ReadPipe /\ write_pipe_q \subseteq WritePipe
      /\ read_pipe_q' \subseteq ReadPipe /\ write_pipe_q' \subseteq WritePipe
      /\ 0 \in read_pipe_q' <=> Issue /\ ~head_we_q
      /\ 0 \in write_pipe_q' <=> Issue /\ head_we_q
      /\ \A k \in Nat : /\ k + 1 \in read_pipe_q' <=> k \in read_pipe_q \ {CAS + Half}
                        /\ k + 1 \in write_pipe_q' <=> k \in write_pipe_q \ {Half}
      /\ mem_ack' <=> CAS + Half \in read_pipe_q \/ Half \in write_pipe_q
      /\ burst_q' <=> Issue /\ head_we_q /\ Half = 1
  BY PipesNext
<1>3. /\ ReadPipe = 0 .. CAS + Half /\ WritePipe = 0 .. Half /\ CAS \in Nat /\ Half \in {0, 1}
      /\ TWR \in Nat /\ TWR > 0 /\ WriteWait = TWR + Half + 1 /\ ReadWait = CAS + Half + 3
      /\ head_we_q \in BOOLEAN /\ recovery_q \in Nat
  BY Times, Typed DEF ReadPipe, WritePipe
<1>4. /\ Issue /\ head_we_q => read_pipe_q = {}
      /\ Issue /\ ~head_we_q => write_pipe_q = {}
      /\ Issue => Half = 0 \/ (0 \notin read_pipe_q /\ 0 \notin write_pipe_q)
  BY OneDirection
<1>5. Direction' <=> IF Issue THEN head_we_q ELSE Direction
  BY DirectionNext
<1>6. recovery_q' = IF Issue THEN IF head_we_q THEN WriteWait ELSE ReadWait ELSE Down(recovery_q)
  BY <1>1, RecoveryNext
<1>7. /\ \A k \in read_pipe_q' : k = 0 \/ k - 1 \in read_pipe_q
      /\ \A k \in write_pipe_q' : k = 0 \/ k - 1 \in write_pipe_q
  <2>1. ASSUME NEW k \in read_pipe_q', k # 0 PROVE k - 1 \in read_pipe_q
    <3>1. k - 1 \in Nat /\ (k - 1) + 1 = k
      BY <1>2, <1>3, <2>1
    <3> QED BY <1>2, <2>1, <3>1
  <2>2. ASSUME NEW k \in write_pipe_q', k # 0 PROVE k - 1 \in write_pipe_q
    <3>1. k - 1 \in Nat /\ (k - 1) + 1 = k
      BY <1>2, <1>3, <2>2
    <3> QED BY <1>2, <2>2, <3>1
  <2> QED BY <2>1, <2>2
<1>8. /\ read_pipe_q' # {} => write_pipe_q' = {} /\ ~Direction'
      /\ write_pipe_q' # {} => Direction'
  <2>1. CASE Issue /\ head_we_q
    BY <1>2, <1>4, <1>5, <1>7, <2>1
  <2>2. CASE Issue /\ ~head_we_q
    BY <1>2, <1>4, <1>5, <1>7, <2>2
  <2>3. CASE ~Issue
    BY <1>2, <1>5, <1>7, <2>3 DEF FlightKept
  <2> QED BY <2>1, <2>2, <2>3
<1>9. ASSUME NEW k \in read_pipe_q' PROVE recovery_q' >= ReadWait - k
  <2>1. CASE Issue
    <3>1. ~head_we_q
      BY <1>2, <1>4, <1>7, <1>9, <2>1
    <3> QED BY <1>2, <1>3, <1>6, <1>9, <2>1, <3>1
  <2>2. CASE ~Issue
    <3>1. k - 1 \in read_pipe_q
      BY <1>2, <1>7, <1>9, <2>2
    <3>2. recovery_q >= ReadWait - (k - 1)
      BY <3>1 DEF FlightKept
    <3>3. ReadWait \in Int /\ k \in Int
      BY <1>2, <1>3, <1>9
    <3>4. Down(recovery_q) >= ReadWait - k
      BY <1>3, <3>2, <3>3, DownBy
    <3> QED BY <1>6, <2>2, <3>4
  <2> QED BY <2>1, <2>2
<1>10. ASSUME NEW k \in write_pipe_q' PROVE recovery_q' >= WriteWait - k
  <2>1. CASE Issue
    <3>1. head_we_q
      BY <1>2, <1>4, <1>7, <1>10, <2>1
    <3> QED BY <1>2, <1>3, <1>6, <1>10, <2>1, <3>1
  <2>2. CASE ~Issue
    <3>1. k - 1 \in write_pipe_q
      BY <1>2, <1>7, <1>10, <2>2
    <3>2. recovery_q >= WriteWait - (k - 1)
      BY <3>1 DEF FlightKept
    <3>3. WriteWait \in Int /\ k \in Int
      BY <1>2, <1>3, <1>10
    <3>4. Down(recovery_q) >= WriteWait - k
      BY <1>3, <3>2, <3>3, DownBy
    <3> QED BY <1>6, <2>2, <3>4
  <2> QED BY <2>1, <2>2
<1>11. Half = 1 => \A k \in ReadPipe : ~(k \in read_pipe_q' /\ k + 1 \in read_pipe_q')
  <2>1. SUFFICES ASSUME Half = 1, NEW k \in ReadPipe, k \in read_pipe_q', k + 1 \in read_pipe_q' PROVE FALSE
    OBVIOUS
  <2>2. k \in Nat /\ k \in read_pipe_q
    BY <1>2, <1>3, <2>1
  <2>3. CASE k = 0
    BY <1>2, <1>4, <2>1, <2>2, <2>3
  <2>4. CASE k # 0
    <3>1. k - 1 \in read_pipe_q /\ k - 1 \in ReadPipe /\ (k - 1) + 1 = k
      BY <1>2, <1>7, <1>3, <2>1, <2>4
    <3>2. ~(k - 1 \in read_pipe_q /\ (k - 1) + 1 \in read_pipe_q)
      BY <2>1, <3>1 DEF FlightKept
    <3> QED BY <2>2, <3>1, <3>2
  <2> QED BY <2>3, <2>4
<1>12. Half = 1 => ~(0 \in write_pipe_q' /\ 1 \in write_pipe_q')
  <2>1. 1 \in write_pipe_q' => 0 \in write_pipe_q
    <3>1. 0 \in Nat /\ 0 + 1 = 1
      OBVIOUS
    <3> QED BY <1>2, <3>1
  <2> QED BY <1>2, <1>4, <2>1
<1>13. Half = 1 /\ (0 \in read_pipe_q' \/ 0 \in write_pipe_q') => ~run_ready_q' /\ ~bank_safe_q'
  BY <1>1, <1>2, ReadyNext, RecoveryNext
<1>14. /\ pin'.cmd.op = "READ" <=> 0 \in read_pipe_q'
       /\ pin'.cmd.op = "WRITE" <=> 0 \in write_pipe_q'
  BY <1>2, DeviceSees, CommandIs
<1>15. burst_q' <=> Half = 1 /\ 0 \in write_pipe_q'
  BY <1>2
<1>16. (burst_q <=> Half = 1 /\ 0 \in write_pipe_q) /\ (1 \in write_pipe_q' <=> burst_q)
  <2>1. burst_q <=> Half = 1 /\ 0 \in write_pipe_q
    BY DEF FlightKept
  <2>2. 0 \in Nat /\ 0 + 1 = 1
    OBVIOUS
  <2>3. 1 \in write_pipe_q' <=> 0 \in write_pipe_q \ {Half}
    BY <1>2, <2>2
  <2> QED BY <1>3, <2>1, <2>3
<1>17. /\ pin'.dqm <=> \/ ~ready
                       \/ Issue /\ head_we_q /\ 0 \notin head_q.mask
                       \/ burst_q /\ ~write_high_q[2]
       /\ pin'.oe <=> (Issue /\ head_we_q) \/ burst_q
       /\ dqm_prev' = pin.dqm /\ dqm_prev2' = dqm_prev
       /\ ~ready => ~Issue /\ ~burst_q /\ read_pipe_q = {} /\ write_pipe_q = {}
  BY MaskNext
<1>18. pin'.oe <=> write_pipe_q' # {}
  <2>1. \A k \in write_pipe_q' : k \in {0, 1}
    BY <1>2, <1>3
  <2> QED BY <1>2, <1>16, <1>17, <2>1
<1>19. write_second' # {} <=> 1 \in write_pipe_q'
  <2>1. write_second' = IF pin.cmd.op = "WRITE" /\ Half = 1 THEN {Target(pin.cmd)} ELSE {}
    BY <1>1 DEF DeviceEdge, StoreStep
  <2>2. pin.cmd.op = "WRITE" <=> 0 \in write_pipe_q
    BY DEF FlightKept
  <2> QED BY <1>16, <2>1, <2>2
<1>20. 1 \in write_pipe_q' => pin'.cmd = Nop
  <2>1. SUFFICES ASSUME Half = 1, 0 \in write_pipe_q PROVE pin'.cmd = Nop
    BY <1>16
  <2>2. ~Issue
    BY <1>4, <1>3, <2>1
  <2>3. state_q = "RUN"
    <3>1. recovery_q >= WriteWait - 0
      BY <2>1 DEF FlightKept
    <3>2. recovery_q # 0
      BY <1>3, <3>1
    <3> QED BY <3>2 DEF MachineKept
  <2>4. Command = Nop
    BY <2>2, <2>3, CommandIs DEF Doing
  <2> QED BY <2>4, DeviceSees
<1>21. ~ready' => read_pipe_q' = {} /\ write_pipe_q' = {} /\ ~mem_ack'
  <2>1. ~ready' => ~ready
    BY <1>1 DEF MachineStep
  <2> QED BY <1>2, <1>7, <1>17, <2>1
<1>22. pin'.dqm => write_pipe_q' # {} \/ head_q' = Nothing
  <2>1. ~ready => head_q' = Nothing
    <3>1. ~ready => ~LoadHead /\ head_q = Nothing
      BY QueueMoves
    <3>2. head_q' = IF LoadHead THEN ring[1] ELSE IF Issue THEN Nothing ELSE head_q
      BY <1>1, HeadNext
    <3> QED BY <3>1, <3>2
  <2> QED BY <1>2, <1>16, <1>17, <2>1
<1>23. ASSUME NEW k \in read_pipe_q'
       PROVE  ~pin'.dqm /\ ~dqm_prev' /\ (k > 0 => ~dqm_prev2')
  <2>1. ready /\ write_pipe_q' = {}
    BY <1>2, <1>7, <1>8, <1>17, <1>23
  <2>2. ~pin'.dqm
    BY <1>2, <1>16, <1>17, <2>1
  <2>3. CASE k = 0
    <3>1. Issue /\ ~head_we_q /\ head_q # Nothing /\ write_pipe_q = {}
      BY <1>2, <1>4, <1>23, <2>3 DEF Issue, RowHit
    <3>2. ~pin.dqm
      BY <3>1 DEF FlightKept
    <3> QED BY <1>17, <2>2, <2>3, <3>2
  <2>4. CASE k # 0
    <3>1. k - 1 \in read_pipe_q
      BY <1>7, <1>23, <2>4
    <3>2. ~pin.dqm /\ ~dqm_prev
      BY <3>1 DEF FlightKept
    <3> QED BY <1>17, <2>2, <3>2
  <2> QED BY <2>3, <2>4
<1> QED BY <1>8, <1>9, <1>10, <1>11, <1>12, <1>13, <1>14, <1>15, <1>18, <1>19, <1>20, <1>21, <1>22, <1>23
        DEF FlightKept

-----------------------------------------------------------------------------
(* What is owed. *)

AheadSummed ==
  /\ Ahead(0) = One(mem_ack)
  /\ \A n \in 0 .. 4 : Ahead(n + 1) = Ahead(n) + One(Flying(n))
  /\ \A n \in 0 .. 5 : Ahead(n) \in Nat
  /\ InFlight = Ahead(5)

\* The commands ahead, one place at a time.
LEMMA AheadSums == AheadSummed
<1> DEFINE f(n) == One(Flying(n))
<1>1. One(mem_ack) \in {0, 1} /\ f(0) \in {0, 1} /\ f(1) \in {0, 1} /\ f(2) \in {0, 1}
      /\ f(3) \in {0, 1} /\ f(4) \in {0, 1}
  BY DEF One
<1>2. /\ Ahead(0) = One(mem_ack)
      /\ Ahead(1) = One(mem_ack) + f(0)
      /\ Ahead(2) = One(mem_ack) + f(0) + f(1)
      /\ Ahead(3) = One(mem_ack) + f(0) + f(1) + f(2)
      /\ Ahead(4) = One(mem_ack) + f(0) + f(1) + f(2) + f(3)
      /\ Ahead(5) = One(mem_ack) + f(0) + f(1) + f(2) + f(3) + f(4)
  <2> HIDE DEF f
  <2>1. ASSUME NEW n
        PROVE  Ahead(n) = One(mem_ack) + (IF n > 0 THEN f(0) ELSE 0) + (IF n > 1 THEN f(1) ELSE 0)
                          + (IF n > 2 THEN f(2) ELSE 0) + (IF n > 3 THEN f(3) ELSE 0)
                          + (IF n > 4 THEN f(4) ELSE 0)
    BY DEF Ahead, f
  <2>2. Ahead(0) = One(mem_ack) + 0 + 0 + 0 + 0 + 0
    BY <2>1
  <2>3. Ahead(1) = One(mem_ack) + f(0) + 0 + 0 + 0 + 0
    BY <2>1
  <2>4. Ahead(2) = One(mem_ack) + f(0) + f(1) + 0 + 0 + 0
    BY <2>1
  <2>5. Ahead(3) = One(mem_ack) + f(0) + f(1) + f(2) + 0 + 0
    BY <2>1
  <2>6. Ahead(4) = One(mem_ack) + f(0) + f(1) + f(2) + f(3) + 0
    BY <2>1
  <2>7. Ahead(5) = One(mem_ack) + f(0) + f(1) + f(2) + f(3) + f(4)
    BY <2>1
  <2> QED BY <1>1, <2>2, <2>3, <2>4, <2>5, <2>6, <2>7
<1>3. \A n \in 0 .. 5 : Ahead(n) \in Nat
  <2> HIDE DEF f
  <2>1. Ahead(0) \in Nat /\ Ahead(1) \in Nat /\ Ahead(2) \in Nat /\ Ahead(3) \in Nat
        /\ Ahead(4) \in Nat /\ Ahead(5) \in Nat
    BY <1>1, <1>2
  <2>2. \A n \in 0 .. 5 : n \in {0, 1, 2, 3, 4, 5}
    OBVIOUS
  <2> QED BY <2>1, <2>2
<1>4. ASSUME NEW n \in 0 .. 4 PROVE Ahead(n + 1) = Ahead(n) + f(n)
  <2> HIDE DEF f
  <2>1. n \in {0, 1, 2, 3, 4}
    OBVIOUS
  <2>2. Ahead(0 + 1) = Ahead(0) + f(0)
    BY <1>1, <1>2
  <2>3. Ahead(1 + 1) = Ahead(1) + f(1)
    BY <1>1, <1>2
  <2>4. Ahead(2 + 1) = Ahead(2) + f(2)
    BY <1>1, <1>2
  <2>5. Ahead(3 + 1) = Ahead(3) + f(3)
    BY <1>1, <1>2
  <2>6. Ahead(4 + 1) = Ahead(4) + f(4)
    BY <1>1, <1>2
  <2> QED BY <2>1, <2>2, <2>3, <2>4, <2>5, <2>6
<1> QED BY <1>2, <1>3, <1>4 DEF AheadSummed, InFlight

\* Where an access issued now comes in the order of the answers: at the end.
Landing == IF head_we_q THEN Half ELSE CAS + Half

\* An edge brings what flies one place nearer, and an access issued lands behind all of it.
LEMMA FlyingNext ==
  ASSUME TypeOK, QueueKept, MachineKept, FlightKept, NEW offer \in Offers, Clock(offer)
  PROVE  /\ Landing \in 0 .. 4
         /\ \A n \in 0 .. 4 : Flying(n)' <=> Flying(n + 1) \/ (Issue /\ n = Landing)
         /\ Issue => \A n \in 0 .. 5 : n > Landing => ~Flying(n)
         /\ ~Flying(5)
         /\ mem_ack' <=> Flying(0)
<1>1. /\ read_pipe_q \subseteq 0 .. CAS + Half /\ write_pipe_q \subseteq 0 .. Half
      /\ read_pipe_q' \subseteq 0 .. CAS + Half /\ write_pipe_q' \subseteq 0 .. Half
      /\ 0 \in read_pipe_q' <=> Issue /\ ~head_we_q
      /\ 0 \in write_pipe_q' <=> Issue /\ head_we_q
      /\ \A k \in Nat : /\ k + 1 \in read_pipe_q' <=> k \in read_pipe_q \ {CAS + Half}
                        /\ k + 1 \in write_pipe_q' <=> k \in write_pipe_q \ {Half}
      /\ mem_ack' <=> CAS + Half \in read_pipe_q \/ Half \in write_pipe_q
  BY PipesNext DEF ReadPipe, WritePipe
<1>2. /\ Half \in {0, 1} /\ CAS \in {2, 3} /\ CAS + Half \in 0 .. 4
      /\ head_we_q \in BOOLEAN
  BY Times, Typed
<1>3. Landing \in 0 .. 4
  BY <1>2 DEF Landing
<1>4. ASSUME NEW n \in 0 .. 4
      PROVE  /\ (n <= CAS + Half /\ CAS + Half - n \in read_pipe_q')
                  <=> \/ n + 1 <= CAS + Half /\ CAS + Half - (n + 1) \in read_pipe_q
                      \/ Issue /\ ~head_we_q /\ n = CAS + Half
             /\ (n <= Half /\ Half - n \in write_pipe_q')
                  <=> \/ n + 1 <= Half /\ Half - (n + 1) \in write_pipe_q
                      \/ Issue /\ head_we_q /\ n = Half
  <2>1. ASSUME NEW top \in Nat, NEW m \in Nat, NEW old, NEW new, NEW first \in BOOLEAN,
               0 \in new <=> first,
               \A k \in Nat : k + 1 \in new <=> k \in old \ {top}
        PROVE  (m <= top /\ top - m \in new)
                 <=> (m + 1 <= top /\ top - (m + 1) \in old) \/ (first /\ m = top)
    <3>1. CASE m = top
      BY <2>1, <3>1
    <3>2. CASE m < top
      <4>1. top - (m + 1) \in Nat /\ (top - (m + 1)) + 1 = top - m /\ top - (m + 1) # top
        BY <3>2
      <4>2. top - m \in new <=> top - (m + 1) \in old
        BY <2>1, <4>1
      <4> QED BY <3>2, <4>2
    <3>3. CASE m > top
      BY <3>3
    <3> QED BY <3>1, <3>2, <3>3
  <2>2. CAS + Half \in Nat /\ Half \in Nat /\ n \in Nat
        /\ (Issue /\ ~head_we_q) \in BOOLEAN /\ (Issue /\ head_we_q) \in BOOLEAN
    BY <1>2
  <2>3. (n <= CAS + Half /\ CAS + Half - n \in read_pipe_q')
          <=> \/ n + 1 <= CAS + Half /\ CAS + Half - (n + 1) \in read_pipe_q
              \/ (Issue /\ ~head_we_q) /\ n = CAS + Half
    <3> DEFINE t == CAS + Half
    <3>1. /\ 0 \in read_pipe_q' <=> (Issue /\ ~head_we_q)
          /\ \A k \in Nat : k + 1 \in read_pipe_q' <=> k \in read_pipe_q \ {t}
          /\ t \in Nat
      BY <1>1, <2>2
    <3> HIDE DEF t
    <3>2. (n <= t /\ t - n \in read_pipe_q')
            <=> (n + 1 <= t /\ t - (n + 1) \in read_pipe_q) \/ ((Issue /\ ~head_we_q) /\ n = t)
      BY <2>1, <2>2, <3>1
    <3>3. t = CAS + Half
      BY DEF t
    <3>4. t \in Nat /\ n \in Nat /\ CAS \in Nat /\ Half \in Nat
      BY <1>2, <3>1
    <3>5. t - n = CAS + Half - n /\ t - (n + 1) = CAS + Half - (n + 1)
      BY <3>3, <3>4
    <3>6. (n <= t <=> n <= CAS + Half) /\ (n + 1 <= t <=> n + 1 <= CAS + Half) /\ (n = t <=> n = CAS + Half)
      BY <3>3
    <3>7. (n <= t /\ t - n \in read_pipe_q') <=> (n <= CAS + Half /\ CAS + Half - n \in read_pipe_q')
      BY <3>5, <3>6, Zenon
    <3>8. (n + 1 <= t /\ t - (n + 1) \in read_pipe_q)
            <=> (n + 1 <= CAS + Half /\ CAS + Half - (n + 1) \in read_pipe_q)
      BY <3>5, <3>6, Zenon
    <3> QED BY <3>2, <3>6, <3>7, <3>8, Zenon
  <2>4. (n <= Half /\ Half - n \in write_pipe_q')
          <=> \/ n + 1 <= Half /\ Half - (n + 1) \in write_pipe_q
              \/ (Issue /\ head_we_q) /\ n = Half
    BY <1>1, <2>1, <2>2
  <2> QED BY <2>3, <2>4
<1>5. ASSUME NEW n \in 0 .. 4
      PROVE  Flying(n)' <=> Flying(n + 1) \/ (Issue /\ n = Landing)
  BY <1>2, <1>4 DEF Flying, Landing
<1>6. Issue => \A n \in 0 .. 5 : n > Landing => ~Flying(n)
  <2>1. /\ Issue /\ head_we_q => read_pipe_q = {}
        /\ Issue /\ ~head_we_q => write_pipe_q = {}
    BY OneDirection
  <2> QED BY <1>2, <2>1 DEF Flying, Landing
<1>7. ~Flying(5) /\ (mem_ack' <=> Flying(0))
  BY <1>1, <1>2 DEF Flying
<1> QED BY <1>3, <1>5, <1>6, <1>7

\* The commands ahead of one in flight lose the one that is answered.
LEMMA AheadNext ==
  ASSUME TypeOK, QueueKept, MachineKept, FlightKept, NEW offer \in Offers, Clock(offer)
  PROVE  /\ InFlight' = InFlight - One(mem_ack) + One(Issue)
         /\ InFlight \in Nat /\ InFlight' \in Nat /\ InFlight >= One(mem_ack)
         /\ \A n \in 0 .. 4 :
              /\ Ahead(n)' \in Nat /\ Ahead(n + 1) \in Nat
              /\ Flying(n + 1) => Ahead(n)' = Ahead(n + 1) - One(mem_ack)
              /\ Flying(n) => Ahead(n) \in Nat /\ Ahead(n) + 1 <= InFlight /\ Ahead(n) >= One(mem_ack)
         /\ \A n \in 0 .. 4 : Issue /\ n = Landing => Ahead(n)' = InFlight - One(mem_ack)
<1> DEFINE a == One(mem_ack)
           Late(n) == One(Issue /\ Landing < n)
<1>1. AheadSummed /\ AheadSummed'
  BY AheadSums, PTL
<1>2. /\ Ahead(0) = a
      /\ \A n \in 0 .. 4 : Ahead(n + 1) = Ahead(n) + One(Flying(n))
      /\ \A n \in 0 .. 5 : Ahead(n) \in Nat
      /\ InFlight = Ahead(5)
  BY <1>1 DEF AheadSummed
<1>3. /\ Ahead(0)' = One(mem_ack)'
      /\ \A n \in 0 .. 4 : Ahead(n + 1)' = Ahead(n)' + One(Flying(n))'
      /\ \A n \in 0 .. 5 : Ahead(n)' \in Nat
      /\ InFlight' = Ahead(5)'
  BY <1>1 DEF AheadSummed
<1>4. /\ Landing \in 0 .. 4
      /\ \A n \in 0 .. 4 : Flying(n)' <=> Flying(n + 1) \/ (Issue /\ n = Landing)
      /\ Issue => \A n \in 0 .. 5 : n > Landing => ~Flying(n)
      /\ ~Flying(5)
      /\ mem_ack' <=> Flying(0)
  BY FlyingNext
<1>5. a \in {0, 1} /\ \A n : Late(n) \in {0, 1}
  BY DEF One
<1>6. \A n \in 0 .. 4 : One(Flying(n))' = One(Flying(n + 1)) + One(Issue /\ n = Landing)
  <2> TAKE n \in 0 .. 4
  <2>1. Flying(n)' <=> Flying(n + 1) \/ (Issue /\ n = Landing)
    BY <1>4
  <2>2. ~(Flying(n + 1) /\ Issue /\ n = Landing)
    BY <1>4
  <2> QED BY <2>1, <2>2 DEF One
<1>7. Ahead(0)' = Ahead(1) - a + Late(0)
  <2>1. Ahead(0 + 1) = Ahead(0) + One(Flying(0))
    BY <1>2
  <2>2. Late(0) = 0 /\ One(mem_ack)' = One(Flying(0)) /\ One(Flying(0)) \in {0, 1}
    BY <1>4 DEF One
  <2> HIDE DEF Late, a
  <2> QED BY <1>2, <1>3, <1>5, <2>1, <2>2
<1>8. ASSUME NEW n \in 0 .. 3, Ahead(n)' = Ahead(n + 1) - a + Late(n)
      PROVE  Ahead(n + 1)' = Ahead(n + 1 + 1) - a + Late(n + 1)
  <2>1. n \in 0 .. 4 /\ n + 1 \in 0 .. 4 /\ n + 1 \in 0 .. 5
    OBVIOUS
  <2>2. /\ Ahead(n + 1)' = Ahead(n)' + One(Flying(n))'
        /\ Ahead(n + 1 + 1) = Ahead(n + 1) + One(Flying(n + 1))
        /\ One(Flying(n))' = One(Flying(n + 1)) + One(Issue /\ n = Landing)
        /\ Ahead(n + 1) \in Nat /\ Ahead(n)' \in Nat
    BY <1>2, <1>3, <1>6, <2>1
  <2>3. /\ Late(n + 1) = Late(n) + One(Issue /\ n = Landing)
        /\ One(Issue /\ n = Landing) \in {0, 1} /\ One(Flying(n + 1)) \in {0, 1}
    BY <1>4 DEF One
  <2> HIDE DEF Late, a
  <2> QED BY <1>5, <1>8, <2>2, <2>3
<1>9. \A n \in 0 .. 4 : Ahead(n)' = Ahead(n + 1) - a + Late(n)
  <2> HIDE DEF Late, a
  <2>1. Ahead(0)' = Ahead(0 + 1) - a + Late(0)
    BY <1>7
  <2>2. Ahead(0 + 1)' = Ahead(0 + 1 + 1) - a + Late(0 + 1)
    BY <1>8, <2>1
  <2>3. Ahead(1)' = Ahead(1 + 1) - a + Late(1)
    BY <2>2
  <2>4. Ahead(1 + 1)' = Ahead(1 + 1 + 1) - a + Late(1 + 1)
    BY <1>8, <2>3
  <2>5. Ahead(2)' = Ahead(2 + 1) - a + Late(2)
    BY <2>4
  <2>6. Ahead(2 + 1)' = Ahead(2 + 1 + 1) - a + Late(2 + 1)
    BY <1>8, <2>5
  <2>7. Ahead(3)' = Ahead(3 + 1) - a + Late(3)
    BY <2>6
  <2>8. Ahead(3 + 1)' = Ahead(3 + 1 + 1) - a + Late(3 + 1)
    BY <1>8, <2>7
  <2>9. Ahead(4)' = Ahead(4 + 1) - a + Late(4)
    BY <2>8
  <2>10. \A n \in 0 .. 4 : n \in {0, 1, 2, 3, 4}
    OBVIOUS
  <2> QED BY <2>1, <2>3, <2>5, <2>7, <2>9, <2>10
<1>10. InFlight' = InFlight - a + One(Issue)
  <2>1. /\ Ahead(4)' = Ahead(4 + 1) - a + Late(4)
        /\ Ahead(4 + 1)' = Ahead(4)' + One(Flying(4))'
        /\ One(Flying(4))' = One(Flying(4 + 1)) + One(Issue /\ 4 = Landing)
        /\ Ahead(5) \in Nat
    BY <1>2, <1>3, <1>6, <1>9
  <2>2. One(Flying(4 + 1)) = 0 /\ Late(4) + One(Issue /\ 4 = Landing) = One(Issue)
        /\ One(Issue /\ 4 = Landing) \in {0, 1} /\ One(Issue) \in {0, 1}
    BY <1>4 DEF One
  <2> HIDE DEF Late, a
  <2> QED BY <1>2, <1>3, <1>5, <2>1, <2>2
<1>11. /\ Ahead(1) = Ahead(0) + One(Flying(0)) /\ Ahead(2) = Ahead(1) + One(Flying(1))
       /\ Ahead(3) = Ahead(2) + One(Flying(2)) /\ Ahead(4) = Ahead(3) + One(Flying(3))
       /\ Ahead(5) = Ahead(4) + One(Flying(4))
       /\ One(Flying(0)) \in {0, 1} /\ One(Flying(1)) \in {0, 1} /\ One(Flying(2)) \in {0, 1}
       /\ One(Flying(3)) \in {0, 1} /\ One(Flying(4)) \in {0, 1}
       /\ Ahead(0) \in Nat /\ Ahead(1) \in Nat /\ Ahead(2) \in Nat /\ Ahead(3) \in Nat
       /\ Ahead(4) \in Nat /\ Ahead(5) \in Nat
  <2>1. /\ Ahead(0 + 1) = Ahead(0) + One(Flying(0)) /\ Ahead(1 + 1) = Ahead(1) + One(Flying(1))
        /\ Ahead(2 + 1) = Ahead(2) + One(Flying(2)) /\ Ahead(3 + 1) = Ahead(3) + One(Flying(3))
        /\ Ahead(4 + 1) = Ahead(4) + One(Flying(4))
    BY <1>2
  <2>2. /\ One(Flying(0)) \in {0, 1} /\ One(Flying(1)) \in {0, 1} /\ One(Flying(2)) \in {0, 1}
        /\ One(Flying(3)) \in {0, 1} /\ One(Flying(4)) \in {0, 1}
    BY DEF One
  <2> QED BY <1>2, <2>1, <2>2
<1>12. InFlight \in Nat /\ InFlight' \in Nat /\ InFlight >= a
  <2> HIDE DEF a
  <2> QED BY <1>2, <1>3, <1>11
<1>13. ASSUME NEW n \in 0 .. 4, Flying(n)
       PROVE  Ahead(n) \in Nat /\ Ahead(n) + 1 <= InFlight /\ Ahead(n) >= a
  <2>1. One(Flying(n)) = 1
    BY <1>13 DEF One
  <2>2. n \in {0, 1, 2, 3, 4}
    OBVIOUS
  <2> HIDE DEF a
  <2> QED BY <1>2, <1>11, <2>1, <2>2
<1>14. ASSUME NEW n \in 0 .. 4, Flying(n + 1) PROVE Ahead(n)' = Ahead(n + 1) - a
  <2>1. n + 1 \in 0 .. 5 /\ n + 1 # 5
    BY <1>4, <1>14
  <2>2. Late(n) = 0
    BY <1>4, <1>14, <2>1 DEF One
  <2>3. Ahead(n + 1) \in Nat
    BY <1>2, <2>1
  <2> HIDE DEF Late, a
  <2> QED BY <1>5, <1>9, <2>2, <2>3
<1>15. ASSUME NEW n \in 0 .. 4, Issue, n = Landing PROVE Ahead(n)' = InFlight - a
  <2>1. Late(n) = 0
    BY <1>4, <1>15 DEF One
  <2>2. n \in {0, 1, 2, 3, 4}
    OBVIOUS
  <2>3. n + 1 \in {1, 2, 3, 4, 5} /\ \A m \in {1, 2, 3, 4} : m > n => One(Flying(m)) = 0
    BY <1>4, <1>15, <2>2 DEF One
  <2>4. Ahead(n + 1) = Ahead(5)
    <3>1. CASE n = 0
      BY <1>11, <2>3, <3>1
    <3>2. CASE n = 1
      BY <1>11, <2>3, <3>2
    <3>3. CASE n = 2
      BY <1>11, <2>3, <3>3
    <3>4. CASE n = 3
      BY <1>11, <2>3, <3>4
    <3>5. CASE n = 4
      BY <3>5
    <3> QED BY <2>2, <3>1, <3>2, <3>3, <3>4, <3>5
  <2>5. Ahead(n)' = Ahead(n + 1) - a + Late(n)
    BY <1>4, <1>9
  <2> HIDE DEF Late, a
  <2> QED BY <1>2, <1>5, <1>11, <2>1, <2>4, <2>5
<1>16. \A n \in 0 .. 4 : Ahead(n)' \in Nat /\ Ahead(n + 1) \in Nat
  BY <1>2, <1>3
<1> QED BY <1>10, <1>12, <1>13, <1>14, <1>15, <1>16

\* What is owed loses the command answered and gains the one accepted.
LEMMA OwedMoves ==
  ASSUME TypeOK, QueueKept, MachineKept, FlightKept, OwedKept, NEW offer \in Offers, Clock(offer)
  PROVE  /\ owed \in Seq(Request) /\ Len(owed) >= One(mem_ack) /\ Len(owed) \in Nat
         /\ owed' \in Seq(Request)
         /\ Len(owed') = Len(owed) - One(mem_ack) + One(Accept(offer))
         /\ \A j \in 1 .. Len(owed) - One(mem_ack) : owed'[j] = owed[j + One(mem_ack)]
         /\ Accept(offer) => owed'[Len(owed')] = offer[1]
<1>0. /\ owed' = IF Accept(offer) THEN Answered \o offer ELSE Answered
      /\ owed \in Seq(Request) /\ Len(owed) \in Nat
      /\ Accept(offer) => \E c \in Requests : offer = <<c>>
  BY QueueMoves DEF Clock, TypeOK
<1>1. Len(owed) >= One(mem_ack) /\ One(mem_ack) \in {0, 1} /\ (mem_ack <=> One(mem_ack) = 1)
  <2>1. InFlight \in Nat /\ InFlight >= One(mem_ack)
    BY AheadNext
  <2>2. One(head_q # Nothing) \in {0, 1} /\ One(mem_ack) \in {0, 1} /\ (mem_ack <=> One(mem_ack) = 1)
    BY DEF One
  <2>3. Len(ring) \in Nat /\ Len(owed) = InFlight + One(head_q # Nothing) + Len(ring)
    BY DEF QueueKept, OwedKept
  <2> QED BY <2>1, <2>2, <2>3
<1> DEFINE old == Answered
           new == IF Accept(offer) THEN offer ELSE <<>>
           a == One(mem_ack)
<1>2. /\ old \in Seq(Request) /\ Len(old) = Len(owed) - a
      /\ \A j \in 1 .. Len(old) : old[j] = owed[j + a]
  BY <1>0, <1>1 DEF Answered
<1>3. new \in Seq(Request) /\ Len(new) = One(Accept(offer)) /\ (Accept(offer) => new[1] = offer[1])
  <2>1. CASE Accept(offer)
    <3>1. PICK c \in Requests : offer = <<c>>
      BY <1>0, <2>1
    <3>2. c \in Request /\ new = <<c>>
      BY <2>1, <3>1, ControllerAssumption
    <3> QED BY <2>1, <3>1, <3>2 DEF One
  <2>2. CASE ~Accept(offer)
    BY <2>2 DEF One
  <2> QED BY <2>1, <2>2
<1>4. owed' = old \o new
  <2>1. CASE Accept(offer)
    BY <1>0, <2>1
  <2>2. CASE ~Accept(offer)
    BY <1>0, <1>2, <2>2
  <2> QED BY <2>1, <2>2
<1> HIDE DEF old, new, a
<1>5. /\ owed' \in Seq(Request) /\ Len(owed') = Len(old) + Len(new)
      /\ \A i \in 1 .. Len(old) : owed'[i] = old[i]
      /\ \A i \in 1 .. Len(new) : owed'[Len(old) + i] = new[i]
  <2>1. old \in Seq(Request) /\ new \in Seq(Request)
    BY <1>2, <1>3
  <2>2. ASSUME NEW r, r = old \o new
        PROVE  /\ r \in Seq(Request) /\ Len(r) = Len(old) + Len(new)
               /\ \A i \in 1 .. Len(old) : r[i] = old[i]
               /\ \A i \in 1 .. Len(new) : r[Len(old) + i] = new[i]
    BY <2>1, <2>2
  <2> QED BY <1>4, <2>2, Zenon
<1>6. Len(owed') = Len(owed) - a + One(Accept(offer))
  BY <1>2, <1>3, <1>5
<1>7. Accept(offer) => owed'[Len(owed')] = offer[1]
  <2>1. Accept(offer) => Len(new) = 1 /\ new[1] = offer[1]
    BY <1>3 DEF One
  <2>2. Len(new) = 1 => owed'[Len(old) + 1] = new[1] /\ Len(owed') = Len(old) + 1
    BY <1>5
  <2> QED BY <2>1, <2>2
<1>8. \A j \in 1 .. Len(owed) - a : owed'[j] = owed[j + a]
  BY <1>2, <1>5
<1> QED BY <1>0, <1>1, <1>5, <1>6, <1>7, <1>8 DEF a

\* The head is emptied by an access and filled from the ring.
LEMMA HeadCounts ==
  ASSUME TypeOK, QueueKept, NEW offer \in Offers, Clock(offer)
  PROVE  /\ One(head_q' # Nothing) = One(head_q # Nothing) - One(Issue) + One(LoadHead)
         /\ LoadHead => head_q' = ring[1] /\ One(Issue) = One(head_q # Nothing)
         /\ ~LoadHead /\ head_q' # Nothing => head_q' = head_q /\ head_q # Nothing /\ ~Issue
         /\ Issue => head_q # Nothing
         /\ One(head_q # Nothing) \in {0, 1} /\ One(Issue) \in {0, 1} /\ One(LoadHead) \in {0, 1}
<1>1. HeadStep
  BY DEF Clock, ControllerEdge
<1>2. /\ head_q' = IF LoadHead THEN ring[1] ELSE IF Issue THEN Nothing ELSE head_q
      /\ LoadHead => ring[1] \in Request
  BY <1>1, HeadNext
<1>3. Nothing \notin Request
  BY ControllerAssumption
<1>4. (Issue => head_q # Nothing) /\ (LoadHead => head_q = Nothing \/ Issue)
  BY DEF Issue, RowHit, LoadHead
<1>5. CASE LoadHead
  BY <1>2, <1>3, <1>4, <1>5 DEF One
<1>6. CASE ~LoadHead
  BY <1>2, <1>4, <1>6 DEF One
<1> QED BY <1>5, <1>6

\* The commands in flight keep their places.
LEMMA FlownNext ==
  ASSUME TypeOK, QueueKept, MachineKept, FlightKept, OwedKept, NEW offer \in Offers, Clock(offer)
  PROVE  \A n \in 0 .. 4 :
           /\ Flying(n + 1) => Flown(n)' = Flown(n + 1)
           /\ Issue /\ n = Landing => Flown(n)' = head_q
           /\ Flying(n) => Flown(n) \in Request
<1> DEFINE a == One(mem_ack)
<1>1. /\ Len(owed) \in Nat /\ owed \in Seq(Request)
      /\ \A j \in 1 .. Len(owed) - a : owed'[j] = owed[j + a]
  BY OwedMoves
<1>2. /\ InFlight \in Nat /\ InFlight >= a
      /\ \A n \in 0 .. 4 :
              /\ Ahead(n)' \in Nat /\ Ahead(n + 1) \in Nat
              /\ Flying(n + 1) => Ahead(n)' = Ahead(n + 1) - a
              /\ Flying(n) => Ahead(n) \in Nat /\ Ahead(n) + 1 <= InFlight /\ Ahead(n) >= a
              /\ Issue /\ n = Landing => Ahead(n)' = InFlight - a
  BY AheadNext
<1>3. /\ Len(owed) = InFlight + One(head_q # Nothing) + Len(ring) /\ Len(ring) \in Nat
      /\ head_q # Nothing => owed[InFlight + 1] = head_q
  BY DEF OwedKept, QueueKept
<1>4. a \in {0, 1} /\ One(head_q # Nothing) \in {0, 1}
  BY DEF One
<1> HIDE DEF a
<1>8. InFlight \in Nat /\ InFlight >= a /\ Len(owed) \in Nat /\ Len(owed) >= InFlight
  BY <1>1, <1>2, <1>3, <1>4
<1>5. ASSUME NEW n \in 0 .. 4, Flying(n + 1) PROVE Flown(n)' = Flown(n + 1)
  <2>1. n + 1 \in 0 .. 4
    BY <1>5, FlyingNext
  <2>2. /\ Ahead(n)' = Ahead(n + 1) - a /\ Ahead(n + 1) \in Nat /\ Ahead(n)' \in Nat
        /\ Ahead(n + 1) + 1 <= InFlight /\ Ahead(n + 1) >= a
    BY <1>2, <1>5, <2>1
  <2>3. Ahead(n)' + 1 \in 1 .. Len(owed) - a /\ Ahead(n)' + 1 + a = Ahead(n + 1) + 1
    BY <1>4, <1>8, <2>2
  <2>4. owed'[Ahead(n)' + 1] = owed[Ahead(n + 1) + 1]
    BY <1>1, <2>3
  <2> QED BY <2>4 DEF Flown
<1>6. ASSUME NEW n \in 0 .. 4, Issue, n = Landing PROVE Flown(n)' = head_q
  <2>1. head_q # Nothing /\ One(head_q # Nothing) = 1
    BY <1>6, HeadCounts DEF One
  <2>2. Ahead(n)' = InFlight - a
    BY <1>2, <1>6
  <2>5. Len(owed) >= InFlight + 1
    BY <1>3, <1>8, <2>1
  <2>3. Ahead(n)' + 1 \in 1 .. Len(owed) - a /\ Ahead(n)' + 1 + a = InFlight + 1
    BY <1>4, <1>8, <2>2, <2>5
  <2>4. owed'[Ahead(n)' + 1] = owed[InFlight + 1]
    BY <1>1, <2>3
  <2> QED BY <1>3, <2>1, <2>4 DEF Flown
<1>7. ASSUME NEW n \in 0 .. 4, Flying(n) PROVE Flown(n) \in Request
  <2>1. Ahead(n) \in Nat /\ Ahead(n) + 1 <= InFlight
    BY <1>2, <1>7
  <2>2. Ahead(n) + 1 \in 1 .. Len(owed)
    BY <1>8, <2>1
  <2> QED BY <1>1, <2>2 DEF Flown
<1> QED BY <1>5, <1>6, <1>7

\* A place of a pipeline stands for the same command on its way.
LEMMA ReadersNext ==
  ASSUME TypeOK, QueueKept, MachineKept, FlightKept, OwedKept, NEW offer \in Offers, Clock(offer)
  PROVE  /\ 0 \in read_pipe_q' => Reader(0)' = head_q /\ Issue /\ ~head_we_q
         /\ 0 \in write_pipe_q' => Writer(0)' = head_q /\ Issue /\ head_we_q
         /\ \A k \in Nat : k + 1 \in read_pipe_q' => k \in read_pipe_q /\ Reader(k + 1)' = Reader(k)
         /\ \A k \in Nat : k + 1 \in write_pipe_q' => k \in write_pipe_q /\ Writer(k + 1)' = Writer(k)
         /\ \A k \in read_pipe_q : Reader(k) \in Request
         /\ \A k \in write_pipe_q : Writer(k) \in Request
<1>1. /\ read_pipe_q \subseteq 0 .. CAS + Half /\ write_pipe_q \subseteq 0 .. Half
      /\ read_pipe_q' \subseteq 0 .. CAS + Half /\ write_pipe_q' \subseteq 0 .. Half
      /\ 0 \in read_pipe_q' <=> Issue /\ ~head_we_q
      /\ 0 \in write_pipe_q' <=> Issue /\ head_we_q
      /\ \A k \in Nat : /\ k + 1 \in read_pipe_q' <=> k \in read_pipe_q \ {CAS + Half}
                        /\ k + 1 \in write_pipe_q' <=> k \in write_pipe_q \ {Half}
  BY PipesNext DEF ReadPipe, WritePipe
<1>2. /\ Half \in {0, 1} /\ CAS \in {2, 3} /\ CAS + Half \in 0 .. 4 /\ Half \in 0 .. 4
  BY Times
<1>3. \A n \in 0 .. 4 : /\ Flying(n + 1) => Flown(n)' = Flown(n + 1)
                        /\ Issue /\ n = Landing => Flown(n)' = head_q
                        /\ Flying(n) => Flown(n) \in Request
  BY FlownNext
<1>4. 0 \in read_pipe_q' => Reader(0)' = head_q /\ Issue /\ ~head_we_q
  <2>1. ASSUME Issue, ~head_we_q PROVE Reader(0)' = head_q
    <3>1. CAS + Half = Landing /\ CAS + Half - 0 = CAS + Half
      BY <1>2, <2>1 DEF Landing
    <3>2. Flown(CAS + Half)' = head_q
      BY <1>2, <1>3, <2>1, <3>1
    <3>3. Reader(0)' = Flown(CAS + Half - 0)'
      BY DEF Reader
    <3> QED BY <3>1, <3>2, <3>3
  <2> QED BY <1>1, <2>1
<1>5. 0 \in write_pipe_q' => Writer(0)' = head_q /\ Issue /\ head_we_q
  <2>1. ASSUME Issue, head_we_q PROVE Writer(0)' = head_q
    <3>1. Half = Landing /\ Half - 0 = Half
      BY <1>2, <2>1 DEF Landing
    <3>2. Flown(Half)' = head_q
      BY <1>2, <1>3, <2>1, <3>1
    <3>3. Writer(0)' = Flown(Half - 0)'
      BY DEF Writer
    <3> QED BY <3>1, <3>2, <3>3
  <2> QED BY <1>1, <2>1
<1>6. ASSUME NEW k \in read_pipe_q PROVE /\ CAS + Half - k \in 0 .. 4 /\ Flying(CAS + Half - k)
                                         /\ Reader(k) = Flown(CAS + Half - k)
  <2>1. k \in 0 .. CAS + Half
    BY <1>1
  <2>2. CAS + Half - k \in 0 .. 4 /\ CAS + Half - k <= CAS + Half /\ CAS + Half - (CAS + Half - k) = k
    BY <1>2, <2>1
  <2>3. Flying(CAS + Half - k)
    <3> DEFINE n == CAS + Half - k
    <3>1. n <= CAS + Half /\ CAS + Half - n = k
      BY <2>2
    <3> HIDE DEF n
    <3>2. Flying(n)
      BY <3>1, <1>6 DEF Flying
    <3> QED BY <3>2 DEF n
  <2> QED BY <2>2, <2>3 DEF Reader
<1>7. ASSUME NEW k \in write_pipe_q PROVE /\ Half - k \in 0 .. 4 /\ Flying(Half - k)
                                          /\ Writer(k) = Flown(Half - k)
  <2>1. k \in 0 .. Half
    BY <1>1
  <2>2. Half - k \in 0 .. 4 /\ Half - k <= Half /\ Half - (Half - k) = k
    BY <1>2, <2>1
  <2>3. Flying(Half - k)
    <3> DEFINE n == Half - k
    <3>1. n <= Half /\ Half - n = k
      BY <2>2
    <3> HIDE DEF n
    <3>2. Flying(n)
      BY <3>1, <1>7 DEF Flying
    <3> QED BY <3>2 DEF n
  <2> QED BY <2>2, <2>3 DEF Writer
<1>8. ASSUME NEW k \in Nat, k + 1 \in read_pipe_q'
      PROVE  k \in read_pipe_q /\ Reader(k + 1)' = Reader(k)
  <2>1. k \in read_pipe_q /\ k # CAS + Half /\ k \in 0 .. CAS + Half
    BY <1>1, <1>8
  <2> DEFINE n == CAS + Half - (k + 1)
  <2>2. n \in 0 .. 4 /\ n + 1 = CAS + Half - k
    BY <1>2, <2>1
  <2>3. Reader(k + 1)' = Flown(n)'
    BY DEF Reader
  <2> HIDE DEF n
  <2>4. Flying(n + 1) /\ Reader(k) = Flown(n + 1)
    BY <1>6, <2>1, <2>2
  <2> QED BY <1>3, <2>1, <2>2, <2>3, <2>4
<1>9. ASSUME NEW k \in Nat, k + 1 \in write_pipe_q'
      PROVE  k \in write_pipe_q /\ Writer(k + 1)' = Writer(k)
  <2>1. k \in write_pipe_q /\ k # Half /\ k \in 0 .. Half
    BY <1>1, <1>9
  <2> DEFINE n == Half - (k + 1)
  <2>2. n \in 0 .. 4 /\ n + 1 = Half - k
    BY <1>2, <2>1
  <2>3. Writer(k + 1)' = Flown(n)'
    BY DEF Writer
  <2> HIDE DEF n
  <2>4. Flying(n + 1) /\ Writer(k) = Flown(n + 1)
    BY <1>7, <2>1, <2>2
  <2> QED BY <1>3, <2>1, <2>2, <2>3, <2>4
<1>10. \A k \in read_pipe_q : Reader(k) \in Request
  BY <1>3, <1>6
<1>11. \A k \in write_pipe_q : Writer(k) \in Request
  BY <1>3, <1>7
<1> QED BY <1>4, <1>5, <1>8, <1>9, <1>10, <1>11

\* An access goes to the address of the head.
LEMMA TargetNext ==
  ASSUME TypeOK, QueueKept, MachineKept, DeviceKept, NEW offer \in Offers, Clock(offer), Issue
  PROVE  Target(pin.cmd)' = head_q.addr
<1>1. head_q # Nothing /\ RowOpen(head_q.addr)
  BY IssueWhen
<1>2. head_q.addr \in Addr /\ head_q.addr.bank \in Banks /\ head_we_q \in BOOLEAN
  BY <1>1, Typed
<1>3. /\ pin'.cmd = Command
      /\ row' = [b \in Banks |-> RowSeen(b)]
  BY DeviceSees
<1>4. Command.bank = head_q.addr.bank /\ Command.col = head_q.addr.col
  BY <1>2, CommandIs
<1>5. row'[head_q.addr.bank] = head_q.addr.row
  <2>1. row'[head_q.addr.bank] = RowSeen(head_q.addr.bank)
    BY <1>2, <1>3
  <2>2. rows_q[head_q.addr.bank] = head_q.addr.row /\ head_q.addr.bank \in open_q
    BY <1>1 DEF RowOpen
  <2> QED BY <2>1, <2>2 DEF DeviceKept
<1>6. Target(pin.cmd)' = [bank |-> pin'.cmd.bank, row |-> row'[pin'.cmd.bank], col |-> pin'.cmd.col]
  BY DEF Target
<1>7. Target(pin.cmd)' = [bank |-> head_q.addr.bank, row |-> head_q.addr.row, col |-> head_q.addr.col]
  BY <1>3, <1>4, <1>5, <1>6
<1>8. ASSUME NEW a \in Addr PROVE a = [bank |-> a.bank, row |-> a.row, col |-> a.col]
  BY DEF Addr
<1> QED BY <1>2, <1>7, <1>8

\* What is owed is in flight, at the head or in the ring, in order, after an edge.
LEMMA OwedNext ==
  ASSUME TypeOK, QueueKept, MachineKept, DeviceKept, FlightKept, OwedKept,
         NEW offer \in Offers, Clock(offer)
  PROVE  OwedKept'
<1> DEFINE a == One(mem_ack)
           h == One(head_q # Nothing)
           i == One(Issue)
           l == One(LoadHead)
           p == One(Accept(offer))
<1>1. /\ owed \in Seq(Request) /\ Len(owed) \in Nat
      /\ Len(owed') = Len(owed) - a + p
      /\ \A j \in 1 .. Len(owed) - a : owed'[j] = owed[j + a]
      /\ Accept(offer) => owed'[Len(owed')] = offer[1]
  BY OwedMoves
<1>2. InFlight' = InFlight - a + i /\ InFlight \in Nat /\ InFlight >= a /\ InFlight' \in Nat
  BY AheadNext
<1>3. /\ One(head_q' # Nothing) = h - i + l
      /\ LoadHead => head_q' = ring[1] /\ i = h
      /\ ~LoadHead /\ head_q' # Nothing => head_q' = head_q /\ head_q # Nothing /\ ~Issue
      /\ Issue => head_q # Nothing
      /\ h \in {0, 1} /\ i \in {0, 1} /\ l \in {0, 1}
  BY HeadCounts
<1>4. /\ Len(ring') = Len(ring) + p - l
      /\ ring' \in Seq(Request)
      /\ \A j \in 1 .. Len(ring) - l : ring'[j] = ring[j + l]
      /\ Accept(offer) => ring'[Len(ring')] = offer[1]
  <2>1. RingStep(offer)
    BY DEF Clock, ControllerEdge
  <2> QED BY <2>1, RingNext
<1>5. /\ a \in {0, 1} /\ p \in {0, 1} /\ (Accept(offer) <=> p = 1) /\ (LoadHead <=> l = 1)
      /\ (Issue <=> i = 1) /\ (head_q # Nothing <=> h = 1)
      /\ (Issue => i <= h)
  BY <1>3 DEF One
<1>6. /\ Len(owed) = InFlight + h + Len(ring) /\ ring \in Seq(Request) /\ Len(ring) \in Nat
      /\ head_q # Nothing => owed[InFlight + 1] = head_q
      /\ \A j \in DOMAIN ring : owed[InFlight + h + j] = ring[j]
      /\ DOMAIN ring = 1 .. Len(ring)
  BY DEF OwedKept, QueueKept
<1>7. LoadHead => Len(ring) >= 1
  BY QueueMoves
<1> HIDE DEF a, h, i, l, p
<1>8. Len(owed') = InFlight' + One(head_q' # Nothing) + Len(ring')
  BY <1>1, <1>2, <1>3, <1>4, <1>5, <1>6
<1>9. head_q' # Nothing => owed'[InFlight' + 1] = head_q'
  <2>1. CASE LoadHead
    <3>1. InFlight' + 1 \in 1 .. Len(owed) - a /\ InFlight' + 1 + a = InFlight + h + 1
      BY <1>1, <1>2, <1>3, <1>5, <1>6, <1>7, <2>1
    <3>2. owed'[InFlight' + 1] = owed[InFlight + h + 1]
      BY <1>1, <3>1
    <3>3. 1 \in DOMAIN ring
      BY <1>6, <1>7, <2>1
    <3> QED BY <1>3, <1>6, <2>1, <3>2, <3>3
  <2>2. CASE ~LoadHead /\ head_q' # Nothing
    <3>1. head_q' = head_q /\ head_q # Nothing /\ i = 0 /\ h = 1
      BY <1>3, <1>5, <2>2
    <3>2. InFlight' + 1 \in 1 .. Len(owed) - a /\ InFlight' + 1 + a = InFlight + 1
      BY <1>1, <1>2, <1>5, <1>6, <3>1
    <3>3. owed'[InFlight' + 1] = owed[InFlight + 1]
      BY <1>1, <3>2
    <3> QED BY <1>6, <3>1, <3>3
  <2> QED BY <2>1, <2>2
<1>10. \A j \in DOMAIN ring' : owed'[InFlight' + One(head_q' # Nothing) + j] = ring'[j]
  <2>1. SUFFICES ASSUME NEW j \in 1 .. Len(ring')
                 PROVE  owed'[InFlight' + One(head_q' # Nothing) + j] = ring'[j]
    BY <1>4
  <2>5. /\ j \in Nat /\ j >= 1 /\ j <= Len(ring') /\ Len(ring) \in Nat
        /\ l \in {0, 1} /\ p \in {0, 1} /\ Len(ring') = Len(ring) + p - l /\ Len(ring') \in Nat
    BY <1>3, <1>4, <1>5, <1>6
  <2>2. InFlight' + One(head_q' # Nothing) + j = InFlight - a + h + l + j
    BY <1>2, <1>3, <1>5
  <2>3. CASE j <= Len(ring) - l
    <3>1. j \in 1 .. Len(ring) - l /\ ring'[j] = ring[j + l]
      BY <1>4, <1>5, <1>6, <2>3
    <3>2. j + l \in DOMAIN ring
      <4>1. j + l \in 1 .. Len(ring)
        BY <2>3, <2>5
      <4> QED BY <1>6, <4>1
    <3>3. owed[InFlight + h + (j + l)] = ring[j + l]
      BY <1>6, <3>2
    <3>4. /\ InFlight - a + h + l + j \in 1 .. Len(owed) - a
          /\ InFlight - a + h + l + j + a = InFlight + h + (j + l)
      BY <1>2, <1>3, <1>5, <1>6, <3>1
    <3>5. owed'[InFlight - a + h + l + j] = owed[InFlight + h + (j + l)]
      BY <1>1, <3>4
    <3> QED BY <2>2, <3>1, <3>3, <3>5
  <2>4. CASE j > Len(ring) - l
    <3>1. p = 1 /\ j = Len(ring')
      BY <2>5, <2>4
    <3>2. InFlight - a + h + l + j = Len(owed')
      BY <1>1, <1>2, <1>3, <1>4, <1>5, <1>6, <3>1
    <3> QED BY <1>1, <1>4, <1>5, <2>2, <3>1, <3>2
  <2> QED BY <2>3, <2>4, <2>5
<1>11. /\ 0 \in read_pipe_q' => Reader(0)' = head_q /\ Issue /\ ~head_we_q
       /\ 0 \in write_pipe_q' => Writer(0)' = head_q /\ Issue /\ head_we_q
       /\ \A k \in Nat : k + 1 \in read_pipe_q' => k \in read_pipe_q /\ Reader(k + 1)' = Reader(k)
       /\ \A k \in Nat : k + 1 \in write_pipe_q' => k \in write_pipe_q /\ Writer(k + 1)' = Writer(k)
  BY ReadersNext
<1>12. Issue => (head_q.we <=> head_we_q)
  BY <1>3 DEF QueueKept
<1>13. read_pipe_q' \subseteq Nat /\ write_pipe_q' \subseteq Nat
  BY PipesNext, Times DEF ReadPipe, WritePipe
<1>14. ASSUME NEW k \in read_pipe_q' PROVE ~Reader(k)'.we
  <2>1. CASE k = 0
    BY <1>11, <1>12, <1>14, <2>1
  <2>2. CASE k # 0
    <3>1. k - 1 \in Nat /\ (k - 1) + 1 = k
      BY <1>13, <2>2
    <3>2. k - 1 \in read_pipe_q /\ Reader(k)' = Reader(k - 1)
      BY <1>11, <1>14, <3>1
    <3> QED BY <3>2 DEF OwedKept
  <2> QED BY <2>1, <2>2
<1>15. ASSUME NEW k \in write_pipe_q' PROVE Writer(k)'.we
  <2>1. CASE k = 0
    BY <1>11, <1>12, <1>15, <2>1
  <2>2. CASE k # 0
    <3>1. k - 1 \in Nat /\ (k - 1) + 1 = k
      BY <1>13, <2>2
    <3>2. k - 1 \in write_pipe_q /\ Writer(k)' = Writer(k - 1)
      BY <1>11, <1>15, <3>1
    <3> QED BY <3>2 DEF OwedKept
  <2> QED BY <2>1, <2>2
<1>16. /\ 0 \in read_pipe_q' => Target(pin.cmd)' = Reader(0)'.addr
       /\ 0 \in write_pipe_q' => Target(pin.cmd)' = Writer(0)'.addr
  BY <1>11, TargetNext
<1>17. 1 \in write_pipe_q' => write_second' = {Writer(1)'.addr}
  <2>1. SUFFICES ASSUME 1 \in write_pipe_q' PROVE write_second' = {Writer(1)'.addr}
    OBVIOUS
  <2>2. 0 \in write_pipe_q /\ Writer(1)' = Writer(0)
    <3>1. 0 \in Nat /\ 0 + 1 = 1
      OBVIOUS
    <3> QED BY <1>11, <2>1, <3>1
  <2>3. write_second' = IF pin.cmd.op = "WRITE" /\ Half = 1 THEN {Target(pin.cmd)} ELSE {}
    BY DEF Clock, DeviceEdge, StoreStep
  <2>4. write_second' # {}
    <3>1. FlightKept'
      BY FlightNext
    <3> QED BY <2>1, <3>1 DEF FlightKept
  <2>5. Target(pin.cmd) = Writer(0).addr
    BY <2>2 DEF OwedKept
  <2> QED BY <2>2, <2>3, <2>4, <2>5
<1> QED BY <1>8, <1>9, <1>10, <1>14, <1>15, <1>16, <1>17 DEF OwedKept

-----------------------------------------------------------------------------
(* The beats read. *)

Burst == [due : 0 .. CAS, addr : Addr, beat : Beats]

\* The first beat may be launched, the others move up.
LEMMA OutstandingIs ==
  ASSUME TypeOK, BeatsKept
  PROVE  /\ reads \in Seq(Burst) /\ Len(reads) \in Nat
         /\ Outstanding \in Seq(Burst) /\ Len(Outstanding) = Len(reads) - One(LaunchedNow)
         /\ \A i \in 1 .. Len(Outstanding) :
              /\ i + One(LaunchedNow) \in DOMAIN reads
              /\ Outstanding[i] = reads[i + One(LaunchedNow)]
              /\ Outstanding[i].due >= 1
         /\ \A i \in DOMAIN reads : reads[i].due = 0 => i = 1 /\ LaunchedNow
<1>1. reads \in Seq(Burst)
  BY DEF TypeOK, DeviceTypeOK, Burst
<1>2. /\ Len(reads) \in Nat /\ DOMAIN reads = 1 .. Len(reads)
      /\ \A i \in DOMAIN reads : reads[i] \in Burst /\ reads[i].due \in Nat
  <2>1. Len(reads) \in Nat /\ DOMAIN reads = 1 .. Len(reads) /\ \A i \in 1 .. Len(reads) : reads[i] \in Burst
    BY <1>1
  <2>2. \A r \in Burst : r.due \in Nat
    BY Times DEF Burst
  <2> QED BY <2>1, <2>2
<1>3. \A i, j \in DOMAIN reads : i < j => reads[i].due < reads[j].due
  BY DEF BeatsKept
<1>4. \A i \in DOMAIN reads : reads[i].due = 0 => i = 1 /\ LaunchedNow
  <2> TAKE i \in DOMAIN reads
  <2> HAVE reads[i].due = 0
  <2>1. 1 \in DOMAIN reads /\ i \in Nat /\ i >= 1
    BY <1>2
  <2>2. i = 1
    <3>1. ~(1 < i)
      BY <1>2, <1>3, <2>1
    <3> QED BY <2>1, <3>1
  <2> QED BY <1>1, <1>2, <2>2 DEF LaunchedNow
<1>5. CASE LaunchedNow
  <2>1. reads # <<>> /\ reads[1].due = 0 /\ One(LaunchedNow) = 1 /\ Outstanding = Tail(reads)
    BY <1>5 DEF LaunchedNow, One, Outstanding
  <2>2. /\ Tail(reads) \in Seq(Burst) /\ Len(Tail(reads)) = Len(reads) - 1
        /\ \A i \in 1 .. Len(Tail(reads)) : Tail(reads)[i] = reads[i + 1]
    BY <1>1, <2>1
  <2>3. \A i \in 1 .. Len(Tail(reads)) : i + 1 \in DOMAIN reads /\ reads[i + 1].due >= 1
    <3> TAKE i \in 1 .. Len(Tail(reads))
    <3>1. i + 1 \in DOMAIN reads /\ i + 1 # 1
      BY <1>2, <2>2
    <3>2. reads[i + 1].due # 0
      BY <1>4, <3>1
    <3> QED BY <1>2, <3>1, <3>2
  <2> QED BY <1>1, <1>2, <1>4, <2>1, <2>2, <2>3
<1>6. CASE ~LaunchedNow
  <2>1. One(LaunchedNow) = 0 /\ Outstanding = reads
    BY <1>6 DEF One, Outstanding
  <2>2. \A i \in 1 .. Len(reads) : i + 0 = i /\ i \in DOMAIN reads /\ reads[i].due >= 1
    <3> TAKE i \in 1 .. Len(reads)
    <3>1. i \in DOMAIN reads /\ reads[i].due # 0
      BY <1>2, <1>4, <1>6
    <3> QED BY <1>2, <3>1
  <2> QED BY <1>1, <1>2, <1>4, <2>1, <2>2
<1> QED BY <1>5, <1>6

\* The beats under way come one edge nearer; a read adds its burst behind them.
LEMMA ReadsNext ==
  ASSUME TypeOK, BeatsKept, NEW offer, Clock(offer), pin.cmd.op = "READ" => Target(pin.cmd) \in Addr
  PROVE  /\ reads' \in Seq(Burst)
         /\ \A i \in 1 .. Len(Outstanding) : reads'[i] = [Outstanding[i] EXCEPT !.due = @ - 1]
         /\ Len(reads') = Len(Outstanding) + (IF pin.cmd.op = "READ" THEN Half + 1 ELSE 0)
         /\ pin.cmd.op = "READ" =>
              \A h \in Beats : reads'[Len(Outstanding) + h + 1]
                               = [due |-> CAS - 2 + h, addr |-> Target(pin.cmd), beat |-> h]
<1> DEFINE coming == [k \in 1 .. Len(Outstanding) |-> [Outstanding[k] EXCEPT !.due = @ - 1]]
           burst == [k \in 1 .. Half + 1 |->
                       [due |-> CAS - 3 + k, addr |-> Target(pin.cmd), beat |-> k - 1]]
<1>1. reads' = IF pin.cmd.op = "READ" THEN coming \o burst ELSE coming
  BY DEF Clock, DeviceEdge, LaunchStep
<1>2. /\ Outstanding \in Seq(Burst) /\ Len(Outstanding) \in Nat
      /\ \A i \in 1 .. Len(Outstanding) : Outstanding[i].due >= 1
  BY OutstandingIs
<1>3. Half \in {0, 1} /\ CAS \in {2, 3} /\ Beats = 0 .. Half
  BY Times DEF Beats
<1>4. /\ coming \in Seq(Burst) /\ Len(coming) = Len(Outstanding)
      /\ \A i \in 1 .. Len(Outstanding) : coming[i] = [Outstanding[i] EXCEPT !.due = @ - 1]
  <2>1. ASSUME NEW i \in 1 .. Len(Outstanding) PROVE [Outstanding[i] EXCEPT !.due = @ - 1] \in Burst
    <3>1. ASSUME NEW r \in Burst, r.due >= 1 PROVE [r EXCEPT !.due = @ - 1] \in Burst
      BY <1>3, <3>1 DEF Burst
    <3>2. Outstanding[i] \in Burst /\ Outstanding[i].due >= 1
      BY <1>2
    <3> QED BY <3>1, <3>2
  <2> QED BY <1>2, <2>1
<1>5. pin.cmd.op = "READ" => burst \in Seq(Burst) /\ Len(burst) = Half + 1
  <2>1. SUFFICES ASSUME Target(pin.cmd) \in Addr PROVE burst \in Seq(Burst) /\ Len(burst) = Half + 1
    OBVIOUS
  <2>2. ASSUME NEW k \in 1 .. Half + 1
        PROVE [due |-> CAS - 3 + k, addr |-> Target(pin.cmd), beat |-> k - 1] \in Burst
    BY <1>3, <2>1 DEF Burst
  <2> DEFINE n == Half + 1
             beat(k) == [due |-> CAS - 3 + k, addr |-> Target(pin.cmd), beat |-> k - 1]
  <2>3. n \in Nat /\ burst = [k \in 1 .. n |-> beat(k)] /\ \A k \in 1 .. n : beat(k) \in Burst
    BY <1>3, <2>2
  <2> HIDE DEF beat, n, burst
  <2>4. burst \in Seq(Burst) /\ Len(burst) = n
    BY <2>3
  <2> QED BY <2>4 DEF n
<1>6. \A h \in Beats : /\ h + 1 \in 1 .. Half + 1
                       /\ burst[h + 1] = [due |-> CAS - 2 + h, addr |-> Target(pin.cmd), beat |-> h]
  <2> TAKE h \in Beats
  <2>1. h + 1 \in 1 .. Half + 1 /\ CAS - 3 + (h + 1) = CAS - 2 + h /\ (h + 1) - 1 = h
    BY <1>3
  <2> QED BY <2>1
<1> HIDE DEF coming, burst
<1>7. CASE pin.cmd.op = "READ"
  <2>1. ASSUME NEW r, r = coming \o burst
        PROVE  /\ r \in Seq(Burst) /\ Len(r) = Len(coming) + Len(burst)
               /\ \A i \in 1 .. Len(coming) : r[i] = coming[i]
               /\ \A i \in 1 .. Len(burst) : r[Len(coming) + i] = burst[i]
    <3>1. coming \in Seq(Burst) /\ burst \in Seq(Burst)
      BY <1>4, <1>5, <1>7
    <3> QED BY <2>1, <3>1
  <2>2. /\ reads' \in Seq(Burst) /\ Len(reads') = Len(coming) + Len(burst)
        /\ \A i \in 1 .. Len(coming) : reads'[i] = coming[i]
        /\ \A i \in 1 .. Len(burst) : reads'[Len(coming) + i] = burst[i]
    BY <1>1, <1>7, <2>1, Zenon
  <2>3. ASSUME NEW h \in Beats
        PROVE  reads'[Len(Outstanding) + h + 1] = [due |-> CAS - 2 + h, addr |-> Target(pin.cmd), beat |-> h]
    <3>1. h + 1 \in 1 .. Len(burst) /\ Len(coming) + (h + 1) = Len(Outstanding) + h + 1
      BY <1>2, <1>3, <1>4, <1>5, <1>6, <1>7
    <3>2. reads'[Len(coming) + (h + 1)] = burst[h + 1]
      BY <2>2, <3>1
    <3> QED BY <1>6, <3>1, <3>2
  <2> QED BY <1>4, <1>5, <1>7, <2>2, <2>3
<1>8. CASE pin.cmd.op # "READ"
  BY <1>1, <1>2, <1>4, <1>8
<1> QED BY <1>7, <1>8

\* Memory does not change under a read.
LEMMA MemoryStays ==
  ASSUME TypeOK, NEW offer, Clock(offer), pin.cmd.op # "WRITE", write_second = {}
  PROVE  memory' = memory
<1>1. memory' = IF pin.dqm THEN memory
                ELSE [a \in Addr |-> [h \in Beats |-> IF <<a, h>> \in StoresSeen THEN pin.dq ELSE memory[a][h]]]
  BY DEF Clock, DeviceEdge, StoreStep, StoresSeen
<1>2. StoresSeen = {}
  BY DEF StoresSeen
<1>3. memory \in [Addr -> [Beats -> Values]]
  BY DEF TypeOK, DeviceTypeOK, Word
<1>4. memory = [a \in Addr |-> [h \in Beats |-> memory[a][h]]]
  BY <1>3
<1> QED BY <1>1, <1>2, <1>4

\* The beats on their way are those of the reads in flight, after an edge.
LEMMA BeatsNext ==
  ASSUME TypeOK, QueueKept, MachineKept, DeviceKept, FlightKept, OwedKept, BeatsKept,
         NEW offer \in Offers, Clock(offer)
  PROVE  BeatsKept' /\ reads' \in Seq(Burst)
<1> DEFINE N == Len(Outstanding)
           l == One(LaunchedNow)
           isRead == pin.cmd.op = "READ"
<1>1. /\ Half \in {0, 1} /\ CAS \in {2, 3} /\ Beats = 0 .. Half
      /\ read_pipe_q \subseteq 0 .. CAS + Half /\ read_pipe_q' \subseteq 0 .. CAS + Half
      /\ \A k \in Nat : k + 1 \in read_pipe_q' <=> k \in read_pipe_q \ {CAS + Half}
      /\ l \in {0, 1}
  BY Times, PipesNext DEF Beats, ReadPipe, One
<1>2. isRead <=> 0 \in read_pipe_q
  BY DEF FlightKept
<1>3. /\ \A k \in Nat : k + 1 \in read_pipe_q' => k \in read_pipe_q /\ Reader(k + 1)' = Reader(k)
      /\ \A k \in read_pipe_q : Reader(k) \in Request
  BY ReadersNext
<1>4. isRead => Target(pin.cmd) = Reader(0).addr /\ Target(pin.cmd) \in Addr
  <2>1. 0 \in read_pipe_q => Target(pin.cmd) = Reader(0).addr
    BY DEF OwedKept
  <2> QED BY <1>2, <1>3, <2>1 DEF Request
<1>5. /\ reads \in Seq(Burst) /\ Len(reads) \in Nat
      /\ Outstanding \in Seq(Burst) /\ N = Len(reads) - l /\ N \in Nat
      /\ \A i \in 1 .. N : /\ i + l \in DOMAIN reads
                           /\ Outstanding[i] = reads[i + l]
                           /\ Outstanding[i].due >= 1
      /\ \A i \in DOMAIN reads : reads[i].due = 0 => i = 1 /\ LaunchedNow
      /\ DOMAIN reads = 1 .. Len(reads)
  BY OutstandingIs
<1>6. /\ reads' \in Seq(Burst)
      /\ \A i \in 1 .. N : reads'[i] = [Outstanding[i] EXCEPT !.due = @ - 1]
      /\ Len(reads') = N + (IF isRead THEN Half + 1 ELSE 0)
      /\ isRead => \A h \in Beats : reads'[N + h + 1]
                                     = [due |-> CAS - 2 + h, addr |-> Reader(0).addr, beat |-> h]
  BY <1>4, ReadsNext
<1>7. DOMAIN reads' = 1 .. Len(reads') /\ Len(reads') \in Nat
  BY <1>6
<1> HIDE DEF N, l, isRead
<1>8. ASSUME NEW i \in 1 .. N
      PROVE  /\ i + l \in DOMAIN reads
             /\ reads'[i] = [due |-> reads[i + l].due - 1, addr |-> reads[i + l].addr, beat |-> reads[i + l].beat]
             /\ reads[i + l].due \in Nat /\ reads[i + l].due >= 1 /\ reads[i + l].beat \in Beats
             /\ reads'[i].due = reads[i + l].due - 1 /\ reads'[i].beat = reads[i + l].beat
  <2>1. i + l \in DOMAIN reads /\ Outstanding[i] = reads[i + l] /\ Outstanding[i].due >= 1
    BY <1>5
  <2>2. reads[i + l] \in Burst
    BY <1>5, <2>1
  <2>3. ASSUME NEW r \in Burst
        PROVE  [r EXCEPT !.due = @ - 1] = [due |-> r.due - 1, addr |-> r.addr, beat |-> r.beat] /\ r.due \in Nat
    BY <1>1 DEF Burst
  <2>4. reads'[i] = [reads[i + l] EXCEPT !.due = @ - 1]
    BY <1>6, <2>1
  <2>5. reads'[i] = [due |-> reads[i + l].due - 1, addr |-> reads[i + l].addr, beat |-> reads[i + l].beat]
    BY <2>2, <2>3, <2>4, Zenon
  <2>6. reads'[i].due = reads[i + l].due - 1 /\ reads'[i].beat = reads[i + l].beat
    BY <2>5
  <2>7. reads[i + l].due \in Nat /\ reads[i + l].due >= 1 /\ reads[i + l].beat \in Beats
    <3>1. ASSUME NEW r \in Burst PROVE r.due \in Nat /\ r.beat \in Beats
      BY <1>1 DEF Burst
    <3>2. reads[i + l].due >= 1
      BY <2>1
    <3> QED BY <2>2, <3>1, <3>2
  <2> QED BY <2>1, <2>5, <2>6, <2>7, Zenon
\* A beat of the read on the pins.
<1>20. ASSUME isRead, NEW h \in Beats
       PROVE  /\ N + h + 1 \in DOMAIN reads'
              /\ reads'[N + h + 1] = [due |-> CAS - 2 + h, addr |-> Reader(0).addr, beat |-> h]
              /\ reads'[N + h + 1].due = CAS - 2 + h /\ reads'[N + h + 1].beat = h
  <2>1. reads'[N + h + 1] = [due |-> CAS - 2 + h, addr |-> Reader(0).addr, beat |-> h]
    BY <1>6, <1>20
  <2>2. N + h + 1 \in DOMAIN reads'
    <3>1. h \in 0 .. Half /\ Half \in {0, 1} /\ N \in Nat /\ Len(reads') = N + (Half + 1)
      BY <1>1, <1>5, <1>6, <1>20
    <3>2. N + h + 1 \in 1 .. Len(reads')
      BY <3>1
    <3> QED BY <1>7, <3>2
  <2>3. reads'[N + h + 1].due = CAS - 2 + h /\ reads'[N + h + 1].beat = h
    BY <2>1
  <2> QED BY <2>1, <2>2, <2>3
\* Where a beat of the new sequence comes from.
<1>9. ASSUME NEW i \in DOMAIN reads'
      PROVE  \/ i \in 1 .. N
             \/ isRead /\ \E h \in Beats : i = N + h + 1
  <2>1. CASE i \in 1 .. N
    BY <2>1
  <2>2. CASE i \notin 1 .. N
    <3>3. N \in Nat /\ i \in 1 .. Len(reads') /\ Len(reads') = N + (IF isRead THEN Half + 1 ELSE 0)
      BY <1>5, <1>6, <1>7
    <3>4. Half \in Nat /\ Beats = 0 .. Half
      BY <1>1
    <3>1. isRead /\ i \in Nat /\ i > N /\ i <= N + Half + 1
      BY <2>2, <3>3, <3>4
    <3>2. i - N - 1 \in Beats /\ i = N + (i - N - 1) + 1
      BY <3>1, <3>3, <3>4
    <3> QED BY <3>1, <3>2
  <2> QED BY <2>1, <2>2
<1>10. \A i \in DOMAIN reads : \E k \in read_pipe_q \ {0} : reads[i].due = CAS + reads[i].beat - 1 - k
  BY DEF BeatsKept
\* The beats that were coming come before those of this read.
<1>11. ASSUME isRead, NEW i \in 1 .. N PROVE reads[i + l].due - 1 < CAS - 2
  <2>0. i + l \in DOMAIN reads
    BY <1>8
  <2>1. PICK k \in read_pipe_q \ {0} : reads[i + l].due = CAS + reads[i + l].beat - 1 - k
    BY <1>10, <2>0
  <2>2. reads[i + l].beat \in 0 .. Half /\ reads[i + l].due \in Nat
    BY <1>1, <1>8
  <2>3. k \in Nat /\ k >= 1
    BY <1>1
  <2>4. Half = 1 => k # 1
    <3>1. Half = 1 => ~(0 \in read_pipe_q /\ 0 + 1 \in read_pipe_q)
      <4>1. 0 \in ReadPipe
        BY Times DEF ReadPipe
      <4> QED BY <4>1 DEF FlightKept
    <3> QED BY <1>2, <1>11, <3>1
  <2>5. Half \in {0, 1} /\ CAS \in {2, 3}
    BY <1>1
  <2> QED BY <2>1, <2>2, <2>3, <2>4, <2>5
<1>12. ASSUME NEW i \in DOMAIN reads', NEW j \in DOMAIN reads', i < j
       PROVE  reads'[i].due < reads'[j].due
  <2>1. \A p, q \in DOMAIN reads : p < q => reads[p].due < reads[q].due
    BY DEF BeatsKept
  <2>2. CASE j \in 1 .. N
    <3>0. N \in Nat /\ i \in 1 .. Len(reads') /\ Len(reads') \in Nat /\ l \in Nat /\ i < j
      BY <1>1, <1>5, <1>7, <1>12
    <3>1. i \in 1 .. N
      BY <2>2, <3>0
    <3>2. i + l < j + l
      BY <2>2, <3>0
    <3>5. i + l \in DOMAIN reads /\ j + l \in DOMAIN reads
      BY <1>8, <2>2, <3>1
    <3>3. reads[i + l].due < reads[j + l].due
      BY <2>1, <3>2, <3>5
    <3>6. reads[i + l].due \in Nat /\ reads[j + l].due \in Nat
      BY <1>8, <2>2, <3>1
    <3>4. reads'[i].due = reads[i + l].due - 1 /\ reads'[j].due = reads[j + l].due - 1
      BY <1>8, <2>2, <3>1
    <3> QED BY <3>3, <3>4, <3>6
  <2>3. CASE isRead /\ \E h \in Beats : j = N + h + 1
    <3>1. PICK h \in Beats : j = N + h + 1
      BY <2>3
    <3>2. reads'[j].due = CAS - 2 + h
      BY <1>20, <2>3, <3>1
    <3>5. CAS \in {2, 3} /\ h \in Nat
      BY <1>1
    <3>3. CASE i \in 1 .. N
      <4>1. reads'[i].due = reads[i + l].due - 1 /\ reads[i + l].due \in Nat
        BY <1>8, <3>3
      <4>2. reads[i + l].due - 1 < CAS - 2
        BY <1>11, <2>3, <3>3
      <4> QED BY <3>2, <3>5, <4>1, <4>2
    <3>4. CASE \E g \in Beats : i = N + g + 1
      <4>1. PICK g \in Beats : i = N + g + 1
        BY <3>4
      <4>2. reads'[i].due = CAS - 2 + g
        BY <1>20, <2>3, <4>1
      <4>4. g \in Nat /\ N \in Nat /\ i < j
        BY <1>1, <1>5, <1>12
      <4>3. g < h
        BY <3>1, <3>5, <4>1, <4>4
      <4> QED BY <3>2, <3>5, <4>2, <4>3, <4>4
    <3> QED BY <1>9, <3>3, <3>4
  <2> QED BY <1>9, <2>2, <2>3
<1>13. ASSUME NEW i \in DOMAIN reads'
       PROVE  \E k \in read_pipe_q' \ {0} : reads'[i].due = CAS + reads'[i].beat - 1 - k
  <2>1. CASE i \in 1 .. N
    <3>0. i + l \in DOMAIN reads
      BY <1>8, <2>1
    <3>1. PICK k \in read_pipe_q \ {0} : reads[i + l].due = CAS + reads[i + l].beat - 1 - k
      BY <1>10, <3>0
    <3>2. /\ reads'[i].due = reads[i + l].due - 1 /\ reads'[i].beat = reads[i + l].beat
          /\ reads[i + l].beat \in 0 .. Half /\ reads[i + l].due >= 1 /\ reads[i + l].due \in Nat
      BY <1>1, <1>8, <2>1
    <3>6. Half \in {0, 1} /\ CAS \in {2, 3} /\ k \in Nat
      BY <1>1
    <3>3. k \in Nat /\ k # CAS + Half
      BY <3>1, <3>2, <3>6
    <3>4. k + 1 \in read_pipe_q' /\ k + 1 # 0
      <4>1. k \in read_pipe_q \ {CAS + Half}
        BY <3>3
      <4> QED BY <1>1, <3>3, <4>1
    <3>5. reads'[i].due = CAS + reads'[i].beat - 1 - (k + 1)
      BY <3>1, <3>2, <3>6
    <3> QED BY <3>4, <3>5
  <2>2. CASE isRead /\ \E h \in Beats : i = N + h + 1
    <3>1. PICK h \in Beats : i = N + h + 1
      BY <2>2
    <3>2. reads'[i].due = CAS - 2 + h /\ reads'[i].beat = h
      BY <1>20, <2>2, <3>1
    <3>3. 1 \in read_pipe_q'
      <4>1. 0 \in Nat /\ 0 + 1 = 1 /\ 0 # CAS + Half
        BY <1>1
      <4> QED BY <1>1, <1>2, <2>2, <4>1
    <3>5. CAS \in {2, 3} /\ h \in Nat
      BY <1>1
    <3>4. reads'[i].due = CAS + reads'[i].beat - 1 - 1
      BY <3>2, <3>5
    <3> QED BY <3>3, <3>4
  <2> QED BY <1>9, <2>1, <2>2
\* A beat that is not due now is still to come.
<1>14. ASSUME NEW i \in DOMAIN reads, reads[i].due # 0
       PROVE  \E j \in 1 .. N : i = j + l
  <2>1. CASE LaunchedNow
    <3>1. l = 1 /\ reads[1].due = 0
      BY <2>1 DEF l, One, LaunchedNow
    <3>2. i # 1
      BY <1>14, <3>1
    <3>3. i - 1 \in 1 .. N /\ i = (i - 1) + l
      BY <1>5, <3>1, <3>2
    <3> QED BY <3>3
  <2>2. CASE ~LaunchedNow
    <3>1. l = 0
      BY <2>2 DEF l, One
    <3>2. i \in 1 .. N /\ i = i + l
      BY <1>5, <3>1
    <3> QED BY <3>2
  <2> QED BY <2>1, <2>2
<1>15. ASSUME NEW k \in read_pipe_q \ {0}, NEW h \in Beats, k < CAS + h
       PROVE  \E i \in DOMAIN reads :
                reads[i] = [due |-> CAS + h - 1 - k, addr |-> Reader(k).addr, beat |-> h]
  BY <1>15 DEF BeatsKept
<1>16. ASSUME NEW k \in read_pipe_q' \ {0}, NEW h \in Beats, k < CAS + h
       PROVE  \E i \in DOMAIN reads' :
                reads'[i] = [due |-> CAS + h - 1 - k, addr |-> Reader(k)'.addr, beat |-> h]
  <2> DEFINE j == k - 1
  <2>5. /\ Half \in {0, 1} /\ CAS \in {2, 3} /\ h \in 0 .. Half /\ k < CAS + h
        /\ k \in Nat /\ k # 0
    BY <1>1, <1>16
  <2>1. j \in Nat /\ j + 1 = k /\ j < CAS + h
    BY <2>5
  <2> HIDE DEF j
  <2>2. j \in read_pipe_q /\ Reader(k)' = Reader(j)
    BY <1>3, <1>16, <2>1
  <2>3. CASE j = 0
    <3>0. isRead
      BY <1>2, <2>2, <2>3
    <3>1. N + h + 1 \in DOMAIN reads'
      BY <1>20, <3>0
    <3>2. reads'[N + h + 1] = [due |-> CAS - 2 + h, addr |-> Reader(0).addr, beat |-> h]
      BY <1>20, <3>0
    <3>3. CAS + h - 1 - k = CAS - 2 + h
      BY <2>1, <2>3, <2>5
    <3> QED BY <2>2, <2>3, <3>1, <3>2, <3>3
  <2>4. CASE j # 0
    <3>1. PICK i \in DOMAIN reads :
            reads[i] = [due |-> CAS + h - 1 - j, addr |-> Reader(j).addr, beat |-> h]
      <4>1. j \in read_pipe_q \ {0} /\ j < CAS + h
        BY <2>1, <2>2, <2>4
      <4> QED BY <1>15, <4>1
    <3>7. reads[i].due = CAS + h - 1 - j /\ reads[i].addr = Reader(j).addr /\ reads[i].beat = h
      BY <3>1
    <3>2. reads[i].due # 0
      BY <2>1, <2>5, <3>7
    <3>3. PICK m \in 1 .. N : i = m + l
      BY <1>14, <3>2
    <3>8. reads'[m] = [due |-> reads[i].due - 1, addr |-> reads[i].addr, beat |-> reads[i].beat]
      BY <1>8, <3>3
    <3>4. reads'[m] = [due |-> (CAS + h - 1 - j) - 1, addr |-> Reader(j).addr, beat |-> h]
      BY <3>7, <3>8
    <3>5. m \in DOMAIN reads'
      <4>1. Len(reads') \in Nat /\ Len(reads') >= N /\ N \in Nat
        BY <1>1, <1>5, <1>6, <1>7
      <4> QED BY <1>7, <4>1
    <3>6. (CAS + h - 1 - j) - 1 = CAS + h - 1 - k
      BY <2>1, <2>5
    <3> QED BY <2>2, <3>4, <3>5, <3>6
  <2> QED BY <2>3, <2>4
<1>17. read_pipe_q # {} => memory' = memory
  <2>1. read_pipe_q # {} => write_pipe_q = {}
    BY DEF FlightKept
  <2>2. write_pipe_q = {} => pin.cmd.op # "WRITE" /\ write_second = {}
    BY DEF FlightKept
  <2> QED BY <2>1, <2>2, MemoryStays
<1>18. ASSUME NEW k \in read_pipe_q', NEW h \in Beats, k = CAS + h
       PROVE  dq_o' = memory'[Reader(k)'.addr][h]
  <2> DEFINE j == k - 1
  <2>0. Half \in {0, 1} /\ CAS \in {2, 3} /\ h \in 0 .. Half /\ k = CAS + h
    BY <1>1, <1>18
  <2>1. j \in Nat /\ j + 1 = k /\ h \in Nat /\ j # 0 /\ j < CAS + h /\ CAS + h - 1 - j = 0
    BY <2>0
  <2> HIDE DEF j
  <2>2. j \in read_pipe_q /\ Reader(k)' = Reader(j)
    BY <1>3, <1>18, <2>1
  <2>3. PICK i \in DOMAIN reads :
          reads[i] = [due |-> CAS + h - 1 - j, addr |-> Reader(j).addr, beat |-> h]
    BY <1>15, <2>1, <2>2
  <2>4. i = 1 /\ LaunchedNow
    BY <1>5, <2>1, <2>3
  <2>5. dq_o' = memory[reads[1].addr][reads[1].beat]
    BY <2>4 DEF Clock, DeviceEdge, LaunchStep
  <2> QED BY <1>17, <2>2, <2>3, <2>4, <2>5
<1>19. ASSUME NEW k \in read_pipe_q', Half = 1, k = CAS + 1
       PROVE  read_low_q' = memory'[Reader(k)'.addr][0]
  <2>1. CAS \in Nat /\ CAS \in read_pipe_q /\ Reader(k)' = Reader(CAS)
    BY <1>1, <1>3, <1>19
  <2>2. read_low_q' = dq_o
    BY <1>19, <2>1 DEF Clock, ControllerEdge, AnswerStep
  <2>3. 0 \in Beats /\ CAS = CAS + 0
    BY <1>1
  <2>4. dq_o = memory[Reader(CAS).addr][0]
    BY <2>1, <2>3 DEF BeatsKept
  <2> QED BY <1>17, <2>1, <2>2, <2>4
<1> QED BY <1>6, <1>12, <1>13, <1>16, <1>18, <1>19 DEF BeatsKept

-----------------------------------------------------------------------------
(* Types. *)

\* A command of the controller is one of the device.
LEMMA CommandTyped ==
  ASSUME TypeOK, MachineKept
  PROVE  Command \in Commands
<1>1. Issue => state_q = "RUN" /\ head_q # Nothing
  BY IssueWhen
<1>2. head_q # Nothing => head_q.addr.bank \in Banks /\ head_q.addr.row \in Rows /\ head_q.addr.col \in Columns
  BY Typed
<1>3. state_q \in {"ROW_PRE", "ROW_ACTIVE"} => head_q # Nothing
  BY DEF MachineKept
<1>4. CASE \/ Doing("INIT_PRE") \/ Doing("REF_PRE") \/ Doing("INIT_REFRESH") \/ Doing("REF_CMD")
           \/ Doing("INIT_MODE")
  <2>1. Command \in [op : {"PRE_ALL", "REFRESH", "MODE"}]
    BY <1>1, <1>4 DEF Command, Doing
  <2> QED BY <2>1 DEF Commands
<1>5. CASE Doing("ROW_PRE")
  <2>1. Command = [op |-> "PRE", bank |-> head_q.addr.bank]
    BY <1>1, <1>5 DEF Command, Doing
  <2>2. [op |-> "PRE", bank |-> head_q.addr.bank] \in [op : {"PRE"}, bank : Banks]
    BY <1>2, <1>3, <1>5 DEF Doing
  <2> QED BY <2>1, <2>2 DEF Commands
<1>6. CASE Doing("ROW_ACTIVE")
  <2>1. Command = [op |-> "ACTIVE", bank |-> head_q.addr.bank, row |-> head_q.addr.row]
    BY <1>1, <1>6 DEF Command, Doing
  <2>2. [op |-> "ACTIVE", bank |-> head_q.addr.bank, row |-> head_q.addr.row]
          \in [op : {"ACTIVE"}, bank : Banks, row : Rows]
    BY <1>2, <1>3, <1>6 DEF Doing
  <2> QED BY <2>1, <2>2 DEF Commands
<1>7. CASE Issue
  <2>1. Command = [op |-> IF head_we_q THEN "WRITE" ELSE "READ",
                   bank |-> head_q.addr.bank, col |-> head_q.addr.col]
    BY <1>1, <1>7 DEF Command, Doing
  <2>2. [op |-> IF head_we_q THEN "WRITE" ELSE "READ",
         bank |-> head_q.addr.bank, col |-> head_q.addr.col]
          \in [op : {"READ", "WRITE"}, bank : Banks, col : Columns]
    BY <1>1, <1>2, <1>7
  <2> QED BY <2>1, <2>2 DEF Commands
<1>8. CASE /\ ~Issue /\ ~Doing("INIT_PRE") /\ ~Doing("REF_PRE") /\ ~Doing("INIT_REFRESH")
           /\ ~Doing("REF_CMD") /\ ~Doing("INIT_MODE") /\ ~Doing("ROW_PRE") /\ ~Doing("ROW_ACTIVE")
  BY <1>8 DEF Command, Commands
<1> QED BY <1>4, <1>5, <1>6, <1>7, <1>8

\* What the head stores.
LEMMA HeadData ==
  ASSUME TypeOK, head_q # Nothing
  PROVE  /\ head_q.data \in Word /\ head_q.mask \subseteq Beats
         /\ 0 \in Beats /\ head_q.data[0] \in Values
         /\ Half = 1 => 1 \in Beats /\ head_q.data[1] \in Values
<1>1. head_q \in Request
  BY Typed
<1>2. head_q.data \in Word /\ head_q.mask \subseteq Beats
  BY <1>1 DEF Request
<1>3. 0 \in Beats /\ (Half = 1 => 1 \in Beats)
  BY Times DEF Beats
<1> QED BY <1>2, <1>3 DEF Word

\* What goes to the pins is a command, with beats or nothing on the data lines.
LEMMA PinTyped ==
  ASSUME TypeOK, QueueKept, MachineKept, FlightKept, NEW offer \in Offers, Clock(offer)
  PROVE  /\ pin' \in Pin /\ burst_q' \in BOOLEAN
         /\ write_high_q'[1] \in Line /\ write_high_q'[2] \in BOOLEAN
         /\ pin' = [cmd |-> Command, oe |-> pin'.oe, dq |-> pin'.dq, dqm |-> pin'.dqm]
         /\ pin'.dq = IF burst_q THEN write_high_q[1]
                      ELSE IF Issue /\ head_we_q THEN head_q.data[0] ELSE Undef
         /\ write_high_q' = IF Issue /\ head_we_q /\ Half = 1 THEN <<head_q.data[1], 1 \in head_q.mask>>
                            ELSE <<Undef, FALSE>>
<1>1. PinStep
  BY DEF Clock, ControllerEdge
<1>2. pin' = [cmd |-> Command, oe |-> pin'.oe, dq |-> pin'.dq, dqm |-> pin'.dqm]
  BY <1>1 DEF PinStep
<1>3. pin'.dq = IF burst_q THEN write_high_q[1]
                ELSE IF Issue /\ head_we_q THEN head_q.data[0] ELSE Undef
  BY <1>1 DEF PinStep
<1>4. write_high_q' = IF Issue /\ head_we_q /\ Half = 1 THEN <<head_q.data[1], 1 \in head_q.mask>>
                      ELSE <<Undef, FALSE>>
  BY <1>1 DEF PinStep
<1>5. Issue => head_q # Nothing
  BY IssueWhen
<1>6. write_high_q[1] \in Line /\ Undef \in Line /\ Values \subseteq Line
  BY DEF TypeOK, ControllerTypeOK, Line
<1>7. pin'.dq \in Line
  BY <1>3, <1>5, <1>6, HeadData
<1>8. pin'.oe \in BOOLEAN /\ pin'.dqm \in BOOLEAN
  BY MaskNext
<1>9. Command \in Commands
  BY CommandTyped
<1>10. pin' \in Pin
  <2>1. ASSUME NEW c \in Commands, NEW o \in BOOLEAN, NEW d \in Line, NEW m \in BOOLEAN
        PROVE  [cmd |-> c, oe |-> o, dq |-> d, dqm |-> m] \in Pin
    BY DEF Pin
  <2> QED BY <1>2, <1>7, <1>8, <1>9, <2>1
<1>11. write_high_q'[1] \in Line /\ write_high_q'[2] \in BOOLEAN
  <2>1. CASE Issue /\ head_we_q /\ Half = 1
    <3>1. ASSUME NEW x, NEW y PROVE <<x, y>>[1] = x /\ <<x, y>>[2] = y
      OBVIOUS
    <3>2. write_high_q'[1] = head_q.data[1] /\ write_high_q'[2] = (1 \in head_q.mask)
      BY <1>4, <2>1, <3>1
    <3>3. head_q.data[1] \in Line
      BY <1>5, <1>6, <2>1, HeadData
    <3> QED BY <3>2, <3>3
  <2>2. CASE ~(Issue /\ head_we_q /\ Half = 1)
    <3>1. write_high_q' = <<Undef, FALSE>>
      BY <1>4, <2>2
    <3> QED BY <1>6, <3>1
  <2> QED BY <2>1, <2>2
<1>12. burst_q' \in BOOLEAN
  BY PipesNext
<1> QED BY <1>2, <1>3, <1>4, <1>10, <1>11, <1>12

\* Admission and head keep their types.
LEMMA QueueTyped ==
  ASSUME TypeOK, QueueKept, MachineKept, NEW offer \in Offers, Clock(offer)
  PROVE  /\ ring' \in Seq(Request \cup {Nothing})
         /\ lookup_q' \in Request \cup {Nothing} /\ head_q' \in Request \cup {Nothing}
         /\ {head_we_q', head_same_direction_q', head_hit_q', head_activated_q'} \subseteq BOOLEAN
<1>1. RingStep(offer) /\ HeadStep
  BY DEF Clock, ControllerEdge
<1>2. ring' \in Seq(Request)
  BY <1>1, RingNext
<1>3. /\ head_q' = IF LoadHead THEN ring[1] ELSE IF Issue THEN Nothing ELSE head_q
      /\ LoadHead => ring[1] \in Request
      /\ head_we_q' = IF LoadHead THEN ring[1].we ELSE head_we_q
      /\ head_same_direction_q' = IF LoadHead THEN ring[1].we = head_we_q ELSE head_same_direction_q
      /\ lookup_q' = IF LoadLookup THEN ring[looked + 1] ELSE IF LoadHead THEN Nothing ELSE lookup_q
  BY <1>1, HeadNext
<1>4. /\ head_q \in Request \cup {Nothing} /\ lookup_q \in Request \cup {Nothing} /\ looked \in 0 .. 1
      /\ ring \in Seq(Request)
      /\ head_we_q \in BOOLEAN /\ head_same_direction_q \in BOOLEAN
      /\ head_hit_q \in BOOLEAN /\ head_activated_q \in BOOLEAN
  BY DEF TypeOK, ControllerTypeOK, QueueKept
<1>5. head_q' \in Request \cup {Nothing}
  BY <1>3, <1>4
<1>6. lookup_q' \in Request \cup {Nothing}
  <2>1. CASE LoadLookup
    <3>1. Len(ring) >= looked + 1 /\ looked + 1 \in 1 .. Len(ring)
      BY <1>4, <2>1, QueueMoves
    <3> QED BY <1>3, <1>4, <2>1, <3>1
  <2> QED BY <1>3, <1>4, <2>1
<1>7. head_we_q' \in BOOLEAN /\ head_same_direction_q' \in BOOLEAN
  <2>1. LoadHead => ring[1].we \in BOOLEAN
    BY <1>3 DEF Request
  <2> QED BY <1>3, <1>4, <2>1
<1>8. head_hit_q' \in BOOLEAN
  BY <1>1, <1>4 DEF HeadStep, RowOpen
<1>9. head_activated_q' \in BOOLEAN
  <2>1. Doing("REF_PRE") => ~Doing("ROW_ACTIVE")
    BY DEF Doing
  <2>2. CASE Doing("REF_PRE")
    BY <1>1, <2>1, <2>2 DEF HeadStep
  <2>3. CASE Doing("ROW_ACTIVE")
    BY <1>1, <2>1, <2>3 DEF HeadStep
  <2>4. CASE ~Doing("REF_PRE") /\ ~Doing("ROW_ACTIVE")
    <3>1. head_activated_q' = (head_activated_q /\ ~LoadHead)
      BY <1>1, <2>4 DEF HeadStep
    <3> QED BY <3>1
  <2> QED BY <2>2, <2>3, <2>4
<1>10. ring' \in Seq(Request \cup {Nothing})
  BY <1>2
<1> QED BY <1>5, <1>6, <1>7, <1>8, <1>9, <1>10

\* The state machine keeps its types.
LEMMA TimingTyped ==
  ASSUME TypeOK, QueueKept, MachineKept, DeviceKept, NEW offer \in Offers, Clock(offer)
  PROVE  /\ state_q' \in States /\ init_refresh_q' \in 0 .. 7 /\ delay_q' \in 0 .. MaxWait
         /\ timer_q' \in 0 .. (IF init_done_q' THEN RefreshCycles ELSE PowerUp) - 1
         /\ recovery_q' \in 0 .. WriteWait + ReadWait /\ active_age_q' \in 0 .. TRAS - 1
         /\ {delay_done_q', init_done_q', refresh_due_q', run_ready_q', recovered_q',
             bank_safe_q', burst_q', mem_ack', ready'} \subseteq BOOLEAN
         /\ open_q' \subseteq Banks /\ rows_q' \in [Banks -> Rows]
<1>1. DelayStep /\ TimerStep /\ RecoveryStep /\ MachineStep
  BY DEF Clock, ControllerEdge
<1>2. state_q' \in States
  <2>1. state_q \in States
    BY Typed
  <2> QED BY <1>1, <2>1, StateNext DEF States
<1>3. init_refresh_q' \in 0 .. 7 /\ open_q' \subseteq Banks
  BY SetupNext, RowsNext
<1>4. delay_q' \in 0 .. MaxWait /\ delay_done_q' \in BOOLEAN
  <2>1. delay_q' \in Nat /\ delay_q' <= MaxWait /\ MaxWait \in Nat
    BY <1>1, DelayNext, Typed
  <2>2. delay_done_q' \in BOOLEAN
    BY <1>1, DelayNext
  <2> QED BY <2>1, <2>2
<1>5. timer_q' \in 0 .. (IF init_done_q' THEN RefreshCycles ELSE PowerUp) - 1
  <2>1. timer_q' \in Nat /\ IF init_done_q' THEN timer_q' < RefreshCycles ELSE timer_q' < PowerUp
    BY <1>1, TimerNext
  <2>2. RefreshCycles \in Nat /\ PowerUp \in Nat
    BY Typed, Times
  <2> QED BY <2>1, <2>2
<1>6. init_done_q' \in BOOLEAN /\ refresh_due_q' \in BOOLEAN
  BY <1>1, TimerNext
<1>7. /\ recovered_q' \in BOOLEAN /\ bank_safe_q' \in BOOLEAN
      /\ recovery_q' \in 0 .. WriteWait + ReadWait /\ active_age_q' \in 0 .. TRAS - 1
  BY <1>1, RecoveryNext
<1>8. run_ready_q' \in BOOLEAN
  <2>1. run_ready_q' = RunReady
    BY <1>1 DEF RecoveryStep
  <2>2. Miss => ~Doing("ROW_ACTIVE")
    BY DEF Miss, Doing
  <2>3. CASE Miss
    BY <2>1, <2>2, <2>3 DEF RunReady
  <2>4. CASE Doing("ROW_ACTIVE")
    <3>1. run_ready_q' = (TRCD = 1 /\ timer_q > 1)
      BY <2>1, <2>2, <2>4 DEF RunReady
    <3> QED BY <3>1, Zenon
  <2>5. CASE ~Miss /\ ~Doing("ROW_ACTIVE")
    <3>1. run_ready_q' = (state_q = "RUN" /\ delay_q <= 1 /\ timer_q > 1 /\ ~(Issue /\ Half = 1))
      BY <2>1, <2>5 DEF RunReady
    <3> QED BY <3>1, Zenon
  <2> QED BY <2>3, <2>4, <2>5
<1>9. burst_q' \in BOOLEAN /\ mem_ack' \in BOOLEAN
  BY PipesNext
<1>10. ready' \in BOOLEAN
  BY <1>1 DEF MachineStep
<1>11. rows_q' \in [Banks -> Rows]
  <2>1. rows_q \in [Banks -> Rows]
    BY Typed
  <2>2. CASE Doing("ROW_ACTIVE")
    <3>1. head_q # Nothing
      BY <2>2 DEF Doing, MachineKept
    <3>2. head_q.addr.row \in Rows
      BY <3>1, Typed
    <3>3. rows_q' = [rows_q EXCEPT ![head_q.addr.bank] = head_q.addr.row]
      BY <1>1, <2>2 DEF MachineStep
    <3> QED BY <2>1, <3>2, <3>3
  <2>3. CASE ~Doing("ROW_ACTIVE")
    BY <1>1, <2>1, <2>3 DEF MachineStep
  <2> QED BY <2>2, <2>3
<1> QED BY <1>2, <1>3, <1>4, <1>5, <1>6, <1>7, <1>8, <1>9, <1>10, <1>11

\* Answers are words of the lines.
LEMMA AnswersTyped ==
  ASSUME TypeOK, NEW offer, Clock(offer)
  PROVE  /\ read_low_q' \in Line /\ dq_o \in Line
         /\ mem_rdata' \in {{}} \cup {{w} : w \in [Beats -> Line]}
         /\ mem_rdata' = IF CAS + Half \notin read_pipe_q THEN {}
                         ELSE {[h \in Beats |-> IF h = Half THEN dq_o ELSE read_low_q]}
<1>1. AnswerStep
  BY DEF Clock, ControllerEdge
<1>2. dq_o \in Line /\ read_low_q \in Line /\ Undef \in Line
  BY DEF TypeOK, ControllerTypeOK, DeviceTypeOK, Line
<1>3. read_low_q' \in Line
  BY <1>1, <1>2 DEF AnswerStep
<1>4. mem_rdata' = IF CAS + Half \notin read_pipe_q THEN {}
                   ELSE {[h \in Beats |-> IF h = Half THEN dq_o ELSE read_low_q]}
  BY <1>1 DEF AnswerStep
<1>5. [h \in Beats |-> IF h = Half THEN dq_o ELSE read_low_q] \in [Beats -> Line]
  BY <1>2
<1> QED BY <1>2, <1>3, <1>4, <1>5

\* The device keeps its types.
LEMMA DeviceTyped ==
  ASSUME TypeOK, QueueKept, MachineKept, DeviceKept, FlightKept, OwedKept, BeatsKept,
         NEW offer \in Offers, Clock(offer)
  PROVE  /\ opened' \subseteq Banks /\ row' \in [Banks -> Rows]
         /\ {act_age', pre_age', write_age'} \subseteq [Banks -> 1 .. MaxAge]
         /\ read_busy' \in [Banks -> 0 .. CAS]
         /\ {mode_age', up_age'} \subseteq 1 .. MaxAge /\ refresh_age' \in 1 .. MaxRefreshAge
         /\ init_refs' \in 0 .. 8
         /\ {precharged', initialized', dqm_prev', dqm_prev2'} \subseteq BOOLEAN
         /\ reads' \in Seq([due : 0 .. CAS, addr : Addr, beat : Beats])
         /\ dq_o' \in Line
         /\ write_second' \in {{}} \cup {{a} : a \in Addr}
<1>1. DeviceEdge(pin)
  BY DEF Clock
<1>2. /\ opened' = OpenedSeen
      /\ row' = [b \in Banks |-> RowSeen(b)]
      /\ act_age' = [b \in Banks |-> ActSeen(b)]
      /\ pre_age' = [b \in Banks |-> PreSeen(b)]
      /\ write_age' = [b \in Banks |-> WriteSeen(b)]
      /\ read_busy' = [b \in Banks |-> BusySeen(b)]
      /\ refresh_age' = RefreshSeen /\ mode_age' = ModeSeen /\ up_age' = Older(up_age)
      /\ init_refs' = RefsSeen
  BY DeviceSees
<1>3. opened' \subseteq Banks
  BY <1>2, Typed DEF DeviceKept
<1>4. /\ pin \in Pin /\ row \in [Banks -> Rows]
      /\ memory \in [Addr -> [Beats -> Values]] /\ Values \subseteq Line /\ Undef \in Line
      /\ precharged \in BOOLEAN /\ initialized \in BOOLEAN /\ dqm_prev \in BOOLEAN
  BY DEF TypeOK, ControllerTypeOK, DeviceTypeOK, Word, Line
<1>5. row' \in [Banks -> Rows]
  <2>1. pin.cmd.op = "ACTIVE" => pin.cmd.row \in Rows
    BY <1>4 DEF Pin, Commands, Nop
  <2>2. \A b \in Banks : RowSeen(b) \in Rows
    BY <1>4, <2>1 DEF RowSeen, Activated
  <2> QED BY <1>2, <2>2
<1>6. {act_age', pre_age', write_age'} \subseteq [Banks -> 1 .. MaxAge]
  <2>1. \A b \in Banks : ActSeen(b) \in 1 .. MaxAge /\ PreSeen(b) \in 1 .. MaxAge /\ WriteSeen(b) \in 1 .. MaxAge
    BY SeenTyped
  <2> QED BY <1>2, <2>1
<1>7. read_busy' \in [Banks -> 0 .. CAS]
  <2>1. \A b \in Banks : BusySeen(b) \in 0 .. CAS
    BY SeenTyped
  <2> QED BY <1>2, <2>1
<1>8. /\ {mode_age', up_age'} \subseteq 1 .. MaxAge /\ refresh_age' \in 1 .. MaxRefreshAge
      /\ init_refs' \in 0 .. 8
  <2>1. /\ RefreshSeen \in 1 .. MaxRefreshAge /\ ModeSeen \in 1 .. MaxAge /\ up_age \in 1 .. MaxAge
        /\ RefsSeen \in 0 .. 8
    BY SetupTyped
  <2>2. Older(up_age) \in 1 .. MaxAge
    BY <2>1, Ages DEF Older
  <2> QED BY <1>2, <2>1, <2>2
<1>9. {precharged', initialized', dqm_prev', dqm_prev2'} \subseteq BOOLEAN
  <2>1. precharged' \in BOOLEAN
    BY <1>1, <1>4 DEF DeviceEdge, BankStep
  <2>2. initialized' \in BOOLEAN
    BY <1>1, <1>4 DEF DeviceEdge, SetupStep
  <2>3. dqm_prev' \in BOOLEAN /\ dqm_prev2' \in BOOLEAN
    BY <1>1, <1>4 DEF DeviceEdge, Pin
  <2> QED BY <2>1, <2>2, <2>3
<1>10. reads' \in Seq([due : 0 .. CAS, addr : Addr, beat : Beats])
  BY BeatsNext DEF Burst
<1>11. dq_o' \in Line
  <2>1. dq_o' = IF LaunchedNow THEN memory[reads[1].addr][reads[1].beat] ELSE Undef
    BY <1>1 DEF DeviceEdge, LaunchStep
  <2>2. CASE LaunchedNow
    <3>1. reads \in Seq(Burst) /\ Len(reads) \in Nat
      BY OutstandingIs
    <3>2. reads[1] \in Burst
      BY <2>2, <3>1 DEF LaunchedNow
    <3>3. reads[1].addr \in Addr /\ reads[1].beat \in Beats
      BY <3>2 DEF Burst
    <3> QED BY <1>4, <2>1, <2>2, <3>3
  <2> QED BY <1>4, <2>1, <2>2
<1>12. write_second' \in {{}} \cup {{a} : a \in Addr}
  <2>1. write_second' = IF pin.cmd.op = "WRITE" /\ Half = 1 THEN {Target(pin.cmd)} ELSE {}
    BY <1>1 DEF DeviceEdge, StoreStep
  <2>2. pin.cmd.op = "WRITE" => Target(pin.cmd) \in Addr
    <3>1. pin.cmd.op = "WRITE" => Target(pin.cmd) = Writer(0).addr /\ Writer(0) \in Request
      BY ReadersNext DEF OwedKept, FlightKept
    <3> QED BY <3>1 DEF Request
  <2> QED BY <2>1, <2>2
<1> QED BY <1>3, <1>5, <1>6, <1>7, <1>8, <1>9, <1>10, <1>11, <1>12

-----------------------------------------------------------------------------
(* The stores. *)

\* The write in flight is the first command that is not answered.
WriterNow == \A k \in write_pipe_q : /\ write_pipe_q = {k} /\ k \in 0 .. Half
                                     /\ Writer(k) = owed[One(mem_ack) + 1]

\* The store in flight is the command to be answered next.
LEMMA WriterIs == TypeOK /\ FlightKept => WriterNow
<1> SUFFICES ASSUME TypeOK, FlightKept, NEW k \in write_pipe_q
             PROVE  /\ write_pipe_q = {k} /\ k \in 0 .. Half
                    /\ Writer(k) = owed[One(mem_ack) + 1]
  BY DEF WriterNow
<1>1. write_pipe_q \subseteq 0 .. Half /\ Half \in {0, 1} /\ CAS \in {2, 3}
  BY Times DEF TypeOK, ControllerTypeOK, WritePipe
<1>2. Half = 1 => ~(0 \in write_pipe_q /\ 1 \in write_pipe_q)
  BY DEF FlightKept
<1>3. k \in 0 .. Half /\ write_pipe_q = {k}
  <2>1. ASSUME NEW j \in write_pipe_q PROVE j = k
    BY <1>1, <1>2
  <2> QED BY <1>1, <2>1
<1>4. read_pipe_q = {}
  BY DEF FlightKept
<1>5. One(mem_ack) \in {0, 1}
  BY DEF One
<1>6. Ahead(0) = One(mem_ack)
  BY <1>5 DEF Ahead
<1>7. CASE k = Half
  <2>1. Half - k = 0
    BY <1>1, <1>7
  <2>2. Writer(k) = Flown(0)
    BY <2>1 DEF Writer
  <2> QED BY <1>3, <1>6, <2>2 DEF Flown
<1>8. CASE k # Half
  <2>1. Half - k = 1 /\ Half \notin write_pipe_q
    BY <1>1, <1>3, <1>8
  <2>2. ~Flying(0)
    <3>1. Half - 0 = Half
      BY <1>1
    <3> QED BY <1>4, <2>1, <3>1 DEF Flying
  <2>3. Ahead(1) = One(mem_ack)
    BY <1>5, <2>2 DEF Ahead, One
  <2>4. Writer(k) = Flown(1)
    BY <2>1 DEF Writer
  <2> QED BY <1>3, <2>3, <2>4 DEF Flown
<1> QED BY <1>7, <1>8

\* A store, one half of a word at a time.
LEMMA StoredIs ==
  ASSUME NEW mem \in [Addr -> Word], NEW c \in Request
  PROVE  /\ Stored(mem, c) \in [Addr -> Word]
         /\ \A a \in Addr, h \in Beats :
              Stored(mem, c)[a][h] = IF c.we /\ a = c.addr /\ h \in c.mask THEN c.data[h] ELSE mem[a][h]
<1>1. c.addr \in Addr /\ c.data \in [Beats -> Values] /\ c.mask \subseteq Beats
  BY DEF Request, Word
<1> DEFINE word == [b \in Beats |-> IF b \in c.mask THEN c.data[b] ELSE mem[c.addr][b]]
<1>2. mem[c.addr] \in [Beats -> Values]
  BY <1>1 DEF Word
<1>3. word \in Word /\ \A h \in Beats : word[h] = IF h \in c.mask THEN c.data[h] ELSE mem[c.addr][h]
  BY <1>1, <1>2 DEF Word
<1>4. Stored(mem, c) = IF c.we THEN [mem EXCEPT ![c.addr] = word] ELSE mem
  BY DEF Stored
<1> HIDE DEF word
<1>5. CASE c.we
  <2>1. Stored(mem, c) = [mem EXCEPT ![c.addr] = word]
    BY <1>4, <1>5
  <2> QED BY <1>1, <1>3, <1>5, <2>1
<1>6. CASE ~c.we
  BY <1>4, <1>6
<1> QED BY <1>5, <1>6

\* The history of memory, and the command that is answered next.
LEMMA AckedNext ==
  ASSUME TypeOK, QueueKept, MachineKept, FlightKept, OwedKept, NEW offer \in Offers, Clock(offer)
  PROVE  /\ contents' = Acked /\ Acked \in [Addr -> Word] /\ Done \in [Addr -> Word]
         /\ write_pipe_q # {} => /\ owed[One(mem_ack) + 1] \in Request /\ owed[One(mem_ack) + 1].we
                                 /\ owed'[1] = owed[One(mem_ack) + 1]
         /\ CAS + Half \in read_pipe_q => /\ Reader(CAS + Half) = owed[One(mem_ack) + 1]
                                          /\ owed[One(mem_ack) + 1] \in Request
                                          /\ ~owed[One(mem_ack) + 1].we
                                          /\ owed'[1] = owed[One(mem_ack) + 1]
<1>1. /\ owed \in Seq(Request) /\ Len(owed) >= One(mem_ack) /\ Len(owed) \in Nat
      /\ \A j \in 1 .. Len(owed) - One(mem_ack) : owed'[j] = owed[j + One(mem_ack)]
  BY OwedMoves
<1>2. Half \in {0, 1} /\ CAS \in {2, 3} /\ One(mem_ack) \in {0, 1} /\ (mem_ack => One(mem_ack) = 1)
  BY Times DEF One
<1>3. mem_ack => owed # <<>> /\ owed[1] \in Request
  <2>1. mem_ack => Len(owed) >= 1
    BY <1>1, <1>2
  <2>2. ASSUME NEW s \in Seq(Request), Len(s) >= 1 PROVE s # <<>> /\ s[1] \in Request
    BY <2>2
  <2> QED BY <1>1, <2>1, <2>2
<1>4. contents' = Acked
  BY <1>3 DEF Clock, Acked
<1>5. contents \in [Addr -> Word]
  BY DEF TypeOK
<1>6. Acked \in [Addr -> Word]
  BY <1>3, <1>5, StoredIs DEF Acked
<1>7. Len(owed) >= InFlight /\ InFlight \in Nat
  <2>1. InFlight \in Nat
    BY AheadNext
  <2>2. Len(owed) = InFlight + One(head_q # Nothing) + Len(ring)
    BY DEF OwedKept
  <2>3. One(head_q # Nothing) \in {0, 1} /\ Len(ring) \in Nat
    BY DEF One, QueueKept
  <2> QED BY <2>1, <2>2, <2>3
<1>8. \A n \in 0 .. 4 : Flying(n) => owed'[1] = owed[One(mem_ack) + 1]
  <2> TAKE n \in 0 .. 4
  <2> HAVE Flying(n)
  <2>1. Ahead(n) \in Nat /\ Ahead(n) + 1 <= InFlight /\ Ahead(n) >= One(mem_ack)
    BY AheadNext
  <2>2. 1 \in 1 .. Len(owed) - One(mem_ack) /\ 1 + One(mem_ack) = One(mem_ack) + 1
    BY <1>1, <1>2, <1>7, <2>1
  <2> QED BY <1>1, <2>2
<1>9. write_pipe_q # {} => /\ owed[One(mem_ack) + 1] \in Request /\ owed[One(mem_ack) + 1].we
                           /\ owed'[1] = owed[One(mem_ack) + 1]
  <2> SUFFICES ASSUME NEW k \in write_pipe_q
               PROVE  /\ owed[One(mem_ack) + 1] \in Request /\ owed[One(mem_ack) + 1].we
                      /\ owed'[1] = owed[One(mem_ack) + 1]
    OBVIOUS
  <2>1. k \in 0 .. Half /\ Writer(k) = owed[One(mem_ack) + 1]
    BY WriterIs DEF WriterNow
  <2>2. Writer(k) \in Request /\ Writer(k).we
    BY ReadersNext DEF OwedKept
  <2>3. Half - k \in 0 .. 4 /\ Half - k <= Half /\ Half - (Half - k) = k
    BY <1>2, <2>1
  <2>4. Flying(Half - k)
    BY <2>3 DEF Flying
  <2> QED BY <1>8, <2>1, <2>2, <2>3, <2>4
<1>10. CAS + Half \in read_pipe_q => /\ Reader(CAS + Half) = owed[One(mem_ack) + 1]
                                     /\ owed[One(mem_ack) + 1] \in Request
                                     /\ ~owed[One(mem_ack) + 1].we
                                     /\ owed'[1] = owed[One(mem_ack) + 1]
  <2> SUFFICES ASSUME CAS + Half \in read_pipe_q
               PROVE  /\ Reader(CAS + Half) = owed[One(mem_ack) + 1]
                      /\ owed[One(mem_ack) + 1] \in Request
                      /\ ~owed[One(mem_ack) + 1].we
                      /\ owed'[1] = owed[One(mem_ack) + 1]
    OBVIOUS
  <2>1. CAS + Half - (CAS + Half) = 0 /\ CAS + Half - 0 = CAS + Half /\ 0 <= CAS + Half
    BY <1>2
  <2>2. Reader(CAS + Half) = Flown(0)
    BY <2>1 DEF Reader
  <2>3. Ahead(0) = One(mem_ack)
    BY <1>2 DEF Ahead
  <2>4. Reader(CAS + Half) = owed[One(mem_ack) + 1]
    BY <2>2, <2>3 DEF Flown
  <2>5. Reader(CAS + Half) \in Request /\ ~Reader(CAS + Half).we
    BY ReadersNext DEF OwedKept
  <2>6. Flying(0)
    BY <2>1 DEF Flying
  <2> QED BY <1>8, <2>4, <2>5, <2>6
<1>11. Done \in [Addr -> Word]
  BY <1>6, <1>9, StoredIs DEF Done
<1> QED BY <1>4, <1>6, <1>9, <1>10, <1>11

\* A store on the pins lands, unless its second beat is still to come.
LEMMA MemoryNext ==
  ASSUME TypeOK, QueueKept, MachineKept, FlightKept, OwedKept, DataKept,
         NEW offer \in Offers, Clock(offer)
  PROVE  /\ memory' \in [Addr -> Word]
         /\ \A a \in Addr, h \in Beats :
              memory'[a][h] = IF burst_q /\ a = Target(pin.cmd) /\ h = 1 THEN memory[a][h] ELSE Done[a][h]
         /\ burst_q => /\ Half = 1 /\ write_pipe_q = {0} /\ write_second = {} /\ ready
<1>1. memory' = IF pin.dqm THEN memory
                ELSE [a \in Addr |-> [h \in Beats |-> IF <<a, h>> \in StoresSeen THEN pin.dq ELSE memory[a][h]]]
  BY DEF Clock, DeviceEdge, StoreStep, StoresSeen
<1>2. memory \in [Addr -> [Beats -> Values]]
  BY DEF TypeOK, DeviceTypeOK, Word
<1>3. \A a \in Addr, h \in Beats :
        memory'[a][h] = IF ~pin.dqm /\ <<a, h>> \in StoresSeen THEN pin.dq ELSE memory[a][h]
  <2>1. CASE pin.dqm
    BY <1>1, <2>1
  <2>2. CASE ~pin.dqm
    <3>1. memory' = [a \in Addr |-> [h \in Beats |-> IF <<a, h>> \in StoresSeen THEN pin.dq ELSE memory[a][h]]]
      BY <1>1, <2>2
    <3> QED BY <2>2, <3>1
  <2> QED BY <2>1, <2>2
<1>4. burst_q => Half = 1 /\ write_pipe_q = {0} /\ write_second = {} /\ ready
  <2>1. burst_q => Half = 1 /\ 0 \in write_pipe_q
    BY DEF FlightKept
  <2>2. 0 \in write_pipe_q => write_pipe_q = {0}
    BY WriterIs DEF WriterNow
  <2>3. write_pipe_q = {0} => write_second = {} /\ ready
    BY DEF FlightKept
  <2> QED BY <2>1, <2>2, <2>3
<1>5. \A a \in Addr, h \in Beats : Settling(a, h) = Done[a][h]
  BY DEF DataKept
<1>6. ASSUME NEW a \in Addr, NEW h \in Beats
      PROVE  memory'[a][h] = IF burst_q /\ a = Target(pin.cmd) /\ h = 1 THEN memory[a][h] ELSE Done[a][h]
  <2>1. memory'[a][h] = IF ~pin.dqm /\ <<a, h>> \in StoresSeen THEN pin.dq ELSE memory[a][h]
    BY <1>3
  <2>2. CASE burst_q /\ a = Target(pin.cmd) /\ h = 1
    <3>1. <<a, h>> \notin StoresSeen
      BY <1>4, <2>2 DEF StoresSeen
    <3> QED BY <2>1, <2>2, <3>1
  <2>3. CASE ~(burst_q /\ a = Target(pin.cmd) /\ h = 1)
    <3>1. memory'[a][h] = Settling(a, h)
      BY <2>1, <2>3 DEF Settling
    <3> QED BY <1>5, <2>3, <3>1
  <2> QED BY <2>2, <2>3
<1>7. memory' \in [Addr -> Word]
  <2>1. \A a \in Addr, h \in Beats : memory'[a][h] \in Values
    <3>1. Done \in [Addr -> Word]
      BY AckedNext
    <3> QED BY <1>2, <1>6, <3>1 DEF Word
  <2>2. CASE pin.dqm
    BY <1>1, <1>2, <2>2 DEF Word
  <2>3. CASE ~pin.dqm
    <3> DEFINE f(a) == [h \in Beats |-> IF <<a, h>> \in StoresSeen THEN pin.dq ELSE memory[a][h]]
    <3>1. memory' = [a \in Addr |-> f(a)]
      BY <1>1, <2>3
    <3>2. \A a \in Addr : f(a) \in Word
      <4> TAKE a \in Addr
      <4>1. memory'[a] = f(a)
        BY <3>1
      <4>2. f(a) = [h \in Beats |-> f(a)[h]]
        OBVIOUS
      <4>3. \A h \in Beats : f(a)[h] \in Values
        <5> HIDE DEF f
        <5> QED BY <2>1, <4>1
      <4> HIDE DEF f
      <4> QED BY <4>2, <4>3 DEF Word
    <3> HIDE DEF f
    <3> QED BY <3>1, <3>2
  <2> QED BY <2>2, <2>3
<1> QED BY <1>4, <1>6, <1>7

\* Every variable keeps its type over an edge.
LEMMA TypeNext ==
  ASSUME TypeOK, QueueKept, MachineKept, DeviceKept, FlightKept, OwedKept, BeatsKept, DataKept,
         NEW offer \in Offers, Clock(offer)
  PROVE  TypeOK'
<1>1. /\ ring' \in Seq(Request \cup {Nothing})
      /\ lookup_q' \in Request \cup {Nothing} /\ head_q' \in Request \cup {Nothing}
      /\ {head_we_q', head_same_direction_q', head_hit_q', head_activated_q'} \subseteq BOOLEAN
  BY QueueTyped
<1>2. /\ fifo_q' \in 0 .. Depth - 1 /\ pref_count_q' \in 0 .. 2 /\ looked' \in 0 .. 1
      /\ {full_q', empty_q', blocked_q'} \subseteq BOOLEAN
  BY QueueNext
<1>3. /\ state_q' \in States /\ init_refresh_q' \in 0 .. 7 /\ delay_q' \in 0 .. MaxWait
      /\ timer_q' \in 0 .. (IF init_done_q' THEN RefreshCycles ELSE PowerUp) - 1
      /\ recovery_q' \in 0 .. WriteWait + ReadWait /\ active_age_q' \in 0 .. TRAS - 1
      /\ {delay_done_q', init_done_q', refresh_due_q', run_ready_q', recovered_q',
          bank_safe_q', burst_q', mem_ack', ready'} \subseteq BOOLEAN
      /\ open_q' \subseteq Banks /\ rows_q' \in [Banks -> Rows]
  BY TimingTyped
<1>4. /\ read_pipe_q' \subseteq ReadPipe /\ write_pipe_q' \subseteq WritePipe
      /\ read_low_q' \in Line
      /\ mem_rdata' \in {{}} \cup {{w} : w \in [Beats -> Line]}
      /\ pin' \in Pin /\ write_high_q'[1] \in Line /\ write_high_q'[2] \in BOOLEAN
  BY PipesNext, AnswersTyped, PinTyped
<1>5. ControllerTypeOK'
  BY <1>1, <1>2, <1>3, <1>4, Zenon DEF ControllerTypeOK
<1>6. DeviceTypeOK'
  <2>1. memory' \in [Addr -> Word]
    BY MemoryNext
  <2> QED BY <2>1, DeviceTyped, Zenon DEF DeviceTypeOK
<1>7. owed' \in Seq(Request) /\ contents' \in [Addr -> Word]
  BY OwedMoves, AckedNext
<1> QED BY <1>5, <1>6, <1>7 DEF TypeOK

\* An answer shows the word as of the commands answered before it.
LEMMA AnswerRight ==
  ASSUME TypeOK, QueueKept, MachineKept, FlightKept, OwedKept, BeatsKept, DataKept,
         NEW offer \in Offers, Clock(offer)
  PROVE  mem_rdata' = IF mem_ack' /\ ~owed'[1].we THEN {contents'[owed'[1].addr]} ELSE {}
<1>1. mem_rdata' = IF CAS + Half \notin read_pipe_q THEN {}
                   ELSE {[h \in Beats |-> IF h = Half THEN dq_o ELSE read_low_q]}
  BY AnswersTyped
<1>2. mem_ack' <=> CAS + Half \in read_pipe_q \/ Half \in write_pipe_q
  BY PipesNext
<1>3. CASE CAS + Half \notin read_pipe_q
  <2>1. mem_ack' => owed'[1].we
    BY <1>2, <1>3, AckedNext
  <2> QED BY <1>1, <1>3, <2>1
<1>4. CASE CAS + Half \in read_pipe_q
  <2> DEFINE c == owed[One(mem_ack) + 1]
  <2>1. Reader(CAS + Half) = c /\ c \in Request /\ ~c.we /\ owed'[1] = c
    BY <1>4, AckedNext
  <2>2. contents' = Acked /\ Done = Acked /\ Acked \in [Addr -> Word]
    <3>1. write_pipe_q = {}
      BY <1>4 DEF FlightKept
    <3> QED BY <3>1, AckedNext DEF Done
  <2> HIDE DEF c
  <2>3. c.addr \in Addr
    BY <2>1 DEF Request
  <2>4. \A h \in Beats : memory[c.addr][h] = Acked[c.addr][h]
    <3> TAKE h \in Beats
    <3>1. ~burst_q /\ StoresSeen = {}
      <4>1. write_pipe_q = {}
        BY <1>4 DEF FlightKept
      <4>2. write_second = {} /\ pin.cmd.op # "WRITE" /\ ~burst_q
        BY <4>1 DEF FlightKept
      <4> QED BY <4>2 DEF StoresSeen
    <3>2. Settling(c.addr, h) = memory[c.addr][h]
      BY <3>1 DEF Settling
    <3>3. Settling(c.addr, h) = Done[c.addr][h]
      BY <2>3 DEF DataKept
    <3> QED BY <2>2, <3>2, <3>3
  <2>5. \A h \in Beats : (IF h = Half THEN dq_o ELSE read_low_q) = memory[c.addr][h]
    <3> TAKE h \in Beats
    <3>1. h \in 0 .. Half /\ Half \in {0, 1} /\ CAS \in {2, 3}
      BY Times DEF Beats
    <3>2. CASE h = Half
      BY <1>4, <2>1, <3>2 DEF BeatsKept
    <3>3. CASE h # Half
      <4>1. h = 0 /\ Half = 1 /\ CAS + Half = CAS + 1
        BY <3>1, <3>3
      <4>2. read_low_q = memory[Reader(CAS + Half).addr][0]
        BY <1>4, <4>1 DEF BeatsKept
      <4> QED BY <2>1, <3>3, <4>1, <4>2
    <3> QED BY <3>2, <3>3
  <2>6. [h \in Beats |-> IF h = Half THEN dq_o ELSE read_low_q] = Acked[c.addr]
    <3>1. Acked[c.addr] \in [Beats -> Values]
      BY <2>2, <2>3 DEF Word
    <3> QED BY <2>4, <2>5, <3>1
  <2> QED BY <1>1, <1>2, <1>4, <2>1, <2>2, <2>6
<1> QED BY <1>3, <1>4

\* What is done when the command in flight retires.
LEMMA DoneNext ==
  ASSUME TypeOK, QueueKept, MachineKept, FlightKept, OwedKept, NEW offer \in Offers, Clock(offer)
  PROVE  /\ ~burst_q => Acked' = Done
         /\ burst_q => Acked' = Acked /\ Done = Stored(Acked, owed[One(mem_ack) + 1])
                       /\ ~mem_ack' /\ owed'[1] = owed[One(mem_ack) + 1]
<1>1. contents' = Acked
  BY AckedNext
<1>2. mem_ack' <=> CAS + Half \in read_pipe_q \/ Half \in write_pipe_q
  BY PipesNext
<1>3. Acked' = IF mem_ack' THEN Stored(Acked, owed'[1]) ELSE Acked
  BY <1>1 DEF Acked
<1>4. Half \in {0, 1} /\ (burst_q <=> Half = 1 /\ 0 \in write_pipe_q)
  BY Times DEF FlightKept
<1>5. \A k \in write_pipe_q : write_pipe_q = {k} /\ k \in 0 .. Half
  BY WriterIs DEF WriterNow
<1>6. write_pipe_q # {} => read_pipe_q = {}
  BY DEF FlightKept
<1>7. CASE write_pipe_q = {}
  <2>1. Done = Acked /\ ~burst_q
    BY <1>4, <1>7 DEF Done
  <2>2. mem_ack' => ~owed'[1].we
    BY <1>2, <1>7, AckedNext
  <2>3. Acked' = Acked
    BY <1>3, <2>2 DEF Stored
  <2> QED BY <2>1, <2>3
<1>8. CASE Half \in write_pipe_q
  <2>1. mem_ack' /\ owed'[1] = owed[One(mem_ack) + 1]
    BY <1>2, <1>8, AckedNext
  <2>2. ~burst_q
    BY <1>4, <1>5, <1>8
  <2>3. Done = Stored(Acked, owed[One(mem_ack) + 1])
    BY <1>8 DEF Done
  <2> QED BY <1>3, <2>1, <2>2, <2>3
<1>9. CASE Half \notin write_pipe_q /\ write_pipe_q # {}
  <2>1. PICK k \in write_pipe_q : TRUE
    BY <1>9
  <2>2. k = 0 /\ Half = 1
    BY <1>4, <1>5, <1>9, <2>1
  <2>3. burst_q /\ ~mem_ack'
    BY <1>2, <1>4, <1>6, <1>9, <2>2
  <2>4. Acked' = Acked /\ Done = Stored(Acked, owed[One(mem_ack) + 1])
    BY <1>3, <1>9, <2>3 DEF Done
  <2> QED BY <1>9, <2>3, <2>4, AckedNext
<1> QED BY <1>7, <1>8, <1>9

\* The stores on the pins are those of the command that has just been issued, or of the one
\* whose second beat follows.
LEMMA StoresNext ==
  ASSUME TypeOK, QueueKept, MachineKept, DeviceKept, FlightKept, OwedKept, BeatsKept, DataKept,
         NEW offer \in Offers, Clock(offer)
  PROVE  \A a \in Addr, h \in Beats : Settling(a, h)' = Done'[a][h]
<1>1. /\ memory' \in [Addr -> Word]
      /\ \A a \in Addr, h \in Beats :
           memory'[a][h] = IF burst_q /\ a = Target(pin.cmd) /\ h = 1 THEN memory[a][h] ELSE Done[a][h]
      /\ burst_q => Half = 1 /\ write_pipe_q = {0} /\ write_second = {} /\ ready
  BY MemoryNext
<1>2. /\ pin'.dqm <=> \/ ~ready
                      \/ Issue /\ head_we_q /\ 0 \notin head_q.mask
                      \/ burst_q /\ ~write_high_q[2]
      /\ ~ready => ~Issue
  BY MaskNext
<1>3. /\ pin'.dq = IF burst_q THEN write_high_q[1]
                   ELSE IF Issue /\ head_we_q THEN head_q.data[0] ELSE Undef
      /\ write_high_q' = IF Issue /\ head_we_q /\ Half = 1 THEN <<head_q.data[1], 1 \in head_q.mask>>
                         ELSE <<Undef, FALSE>>
  BY PinTyped
<1>4. /\ ~burst_q => Acked' = Done
      /\ burst_q => Acked' = Acked /\ Done = Stored(Acked, owed[One(mem_ack) + 1])
                    /\ ~mem_ack' /\ owed'[1] = owed[One(mem_ack) + 1]
  BY DoneNext
<1>5. pin'.cmd = Command /\ (Command.op = "WRITE" <=> Issue /\ head_we_q)
  BY DeviceSees, CommandIs
<1>6. /\ burst_q' <=> Issue /\ head_we_q /\ Half = 1
      /\ 0 \in write_pipe_q' <=> Issue /\ head_we_q
      /\ \A k \in Nat : k + 1 \in write_pipe_q' <=> k \in write_pipe_q \ {Half}
      /\ write_pipe_q' \subseteq WritePipe
  BY PipesNext
<1>7. write_second' = IF pin.cmd.op = "WRITE" /\ Half = 1 THEN {Target(pin.cmd)} ELSE {}
  BY DEF Clock, DeviceEdge, StoreStep
<1>8. StoresSeen' = {<<a, 1>> : a \in write_second'}
                    \cup (IF pin'.cmd.op = "WRITE" THEN {<<Target(pin.cmd)', 0>>} ELSE {})
  BY DEF StoresSeen, Target
<1>9. Half \in {0, 1} /\ Beats = 0 .. Half
  BY Times DEF Beats
<1>10. /\ pin.cmd.op = "WRITE" <=> 0 \in write_pipe_q
       /\ burst_q <=> Half = 1 /\ 0 \in write_pipe_q
  BY DEF FlightKept
<1>11. \A k \in write_pipe_q : write_pipe_q = {k} /\ k \in 0 .. Half
  BY WriterIs DEF WriterNow
<1>12. ASSUME NEW a \in Addr, NEW h \in Beats
       PROVE  Settling(a, h)' = IF burst_q' /\ a = Target(pin.cmd)' /\ h = 1 /\ write_high_q'[2] THEN write_high_q'[1]
                                ELSE IF ~pin'.dqm /\ <<a, h>> \in StoresSeen' THEN pin'.dq
                                ELSE memory'[a][h]
  BY DEF Settling, Target
<1>13. Done' = IF write_pipe_q' # {} THEN Stored(Acked', owed'[One(mem_ack') + 1]) ELSE Acked'
  BY DEF Done
<1>20. TypeOK' /\ FlightKept'
  BY TypeNext, FlightNext
<1>21. WriterNow'
  BY <1>20, WriterIs, PTL
<1>14. CASE Issue /\ head_we_q
  <2>1. ~burst_q /\ 0 \in write_pipe_q'
    BY <1>6, <1>10, <1>14, OneDirection, <1>9
  <2>2. Target(pin.cmd)' = head_q.addr
    BY <1>14, TargetNext
  <2>3. Writer(0)' = head_q /\ head_q # Nothing /\ head_q \in Request /\ head_q.we
    <3>1. Writer(0)' = head_q
      BY <2>1, ReadersNext
    <3>2. head_q # Nothing
      BY <1>14, IssueWhen
    <3>3. head_q.we <=> head_we_q
      BY <3>2 DEF QueueKept
    <3> QED BY <1>14, <3>1, <3>2, <3>3, Typed
  <2>4. write_pipe_q' = {0} /\ Writer(0)' = owed'[One(mem_ack') + 1]
    BY <1>21, <2>1 DEF WriterNow
  <2>5. Acked' = Done /\ Done \in [Addr -> Word]
    BY <1>4, <2>1, AckedNext
  <2>6. Done' = Stored(Done, head_q)
    BY <1>13, <2>3, <2>4, <2>5
  <2>7. write_second' = {}
    BY <1>7, <1>9, <1>10, <2>1
  <2>8. StoresSeen' = {<<head_q.addr, 0>>}
    BY <1>5, <1>8, <1>14, <2>2, <2>7
  <2>9. /\ pin'.dq = head_q.data[0] /\ (pin'.dqm <=> 0 \notin head_q.mask)
        /\ Half = 1 => write_high_q'[1] = head_q.data[1] /\ (write_high_q'[2] <=> 1 \in head_q.mask)
    <3>1. pin'.dq = head_q.data[0]
      BY <1>3, <1>14, <2>1
    <3>2. pin'.dqm <=> 0 \notin head_q.mask
      BY <1>2, <1>14, <2>1
    <3>3. Half = 1 => write_high_q' = <<head_q.data[1], 1 \in head_q.mask>>
      BY <1>3, <1>14
    <3>4. ASSUME NEW x, NEW y PROVE <<x, y>>[1] = x /\ <<x, y>>[2] = y
      OBVIOUS
    <3>6. Half = 1 => write_high_q'[1] = head_q.data[1] /\ write_high_q'[2] = (1 \in head_q.mask)
      BY <3>3, <3>4
    <3>5. Half = 1 => write_high_q'[1] = head_q.data[1] /\ (write_high_q'[2] <=> 1 \in head_q.mask)
      BY <3>6, Zenon
    <3> QED BY <3>1, <3>2, <3>5
  <2>10. ASSUME NEW a \in Addr, NEW h \in Beats PROVE Settling(a, h)' = Done'[a][h]
    <3>1. Done'[a][h] = IF a = head_q.addr /\ h \in head_q.mask THEN head_q.data[h] ELSE Done[a][h]
      BY <2>3, <2>5, <2>6, StoredIs
    <3>2. memory'[a][h] = Done[a][h]
      BY <1>1, <2>1
    <3>3. <<a, h>> \in StoresSeen' <=> a = head_q.addr /\ h = 0
      BY <2>8
    <3>4. h = 0 \/ (h = 1 /\ Half = 1)
      BY <1>9
    <3>5. burst_q' <=> Half = 1
      BY <1>6, <1>14
    <3>6. CASE h = 0
      BY <1>12, <2>9, <3>1, <3>2, <3>3, <3>6
    <3>7. CASE h = 1 /\ Half = 1
      BY <1>12, <2>2, <2>9, <3>1, <3>2, <3>3, <3>5, <3>7
    <3> QED BY <3>4, <3>6, <3>7
  <2> QED BY <2>10
<1>15. CASE ~(Issue /\ head_we_q) /\ burst_q
  <2>1. write_pipe_q = {0} /\ Half = 1 /\ ready /\ ~burst_q' /\ pin'.cmd.op # "WRITE"
    BY <1>1, <1>5, <1>6, <1>15
  <2>2. 1 \in write_pipe_q'
    <3>1. 0 \in Nat /\ 0 + 1 = 1 /\ 0 # Half
      BY <2>1
    <3> QED BY <1>6, <2>1, <3>1
  <2>3. Done' = Done
    <3>1. Acked' = Acked /\ Done = Stored(Acked, owed[One(mem_ack) + 1])
          /\ ~mem_ack' /\ owed'[1] = owed[One(mem_ack) + 1]
      BY <1>4, <1>15
    <3>2. One(mem_ack') + 1 = 1
      BY <3>1 DEF One
    <3> QED BY <1>13, <2>2, <3>1, <3>2
  <2>4. StoresSeen' = {<<Target(pin.cmd), 1>>}
    <3>1. write_second' = {Target(pin.cmd)}
      BY <1>7, <1>10, <2>1
    <3> QED BY <1>8, <2>1, <3>1
  <2>5. pin'.dq = write_high_q[1] /\ (pin'.dqm <=> ~write_high_q[2])
    BY <1>2, <1>3, <1>15, <2>1
  <2>6. ASSUME NEW a \in Addr, NEW h \in Beats PROVE Settling(a, h)' = Done'[a][h]
    <3>1. Settling(a, h)' = IF ~pin'.dqm /\ <<a, h>> \in StoresSeen' THEN pin'.dq ELSE memory'[a][h]
      BY <1>12, <2>1
    <3>2. <<a, h>> \in StoresSeen' <=> a = Target(pin.cmd) /\ h = 1
      BY <2>4
    <3>3. Settling(a, h) = Done[a][h]
      BY DEF DataKept
    <3>4. CASE a = Target(pin.cmd) /\ h = 1
      <4>1. memory'[a][h] = memory[a][h]
        BY <1>1, <1>15, <3>4
      <4>2. StoresSeen = {<<Target(pin.cmd), 0>>}
        BY <1>1, <1>10, <1>15, <2>1 DEF StoresSeen
      <4>3. Settling(a, h) = IF write_high_q[2] THEN write_high_q[1] ELSE memory[a][h]
        BY <1>15, <3>4, <4>2 DEF Settling
      <4> QED BY <2>3, <2>5, <3>1, <3>2, <3>3, <3>4, <4>1, <4>3
    <3>5. CASE ~(a = Target(pin.cmd) /\ h = 1)
      BY <1>1, <2>3, <3>1, <3>2, <3>5
    <3> QED BY <3>4, <3>5
  <2> QED BY <2>6
<1>16. CASE ~(Issue /\ head_we_q) /\ ~burst_q
  <2>1. write_pipe_q' = {}
    <3>1. SUFFICES ASSUME NEW j \in write_pipe_q' PROVE FALSE
      OBVIOUS
    <3>2. j \in 0 .. Half /\ j # 0
      BY <1>6, <1>16 DEF WritePipe
    <3>3. j - 1 \in Nat /\ (j - 1) + 1 = j
      BY <1>9, <3>2
    <3>4. j - 1 \in write_pipe_q \ {Half}
      BY <1>6, <3>3
    <3>5. j = 1 /\ Half = 1 /\ 0 \in write_pipe_q
      BY <1>9, <3>2, <3>4
    <3> QED BY <1>10, <1>16, <3>5
  <2>2. Done' = Done
    BY <1>4, <1>13, <1>16, <2>1
  <2>3. write_second' = {} /\ ~burst_q' /\ pin'.cmd.op # "WRITE"
    BY <1>5, <1>6, <1>7, <1>10, <1>16
  <2>4. StoresSeen' = {}
    BY <1>8, <2>3
  <2> QED BY <1>1, <1>12, <1>16, <2>2, <2>3, <2>4
<1> QED BY <1>14, <1>15, <1>16

\* The cells hold what was answered and what is in flight, after an edge.
LEMMA DataNext ==
  ASSUME TypeOK, QueueKept, MachineKept, DeviceKept, FlightKept, OwedKept, BeatsKept, DataKept,
         NEW offer \in Offers, Clock(offer)
  PROVE  DataKept'
  BY StoresNext, AnswerRight DEF DataKept

-----------------------------------------------------------------------------
(* The refresh interval. *)

\* An edge adds one to the interval and takes one from what is left to do.
LEMMA Counts ==
  ASSUME NEW x \in Nat, NEW x1 \in Nat, x1 <= x + 1, NEW n \in Nat, NEW m \in Nat, m + 1 <= n,
         NEW d \in Nat, x + n <= d
  PROVE  x1 + m <= d
  OBVIOUS

\* The same, with a precharge of all banks to come.
LEMMA CountsOn ==
  ASSUME NEW x \in Nat, NEW x1 \in Nat, x1 <= x + 1, NEW n \in Nat, NEW m \in Nat, m + 1 <= n,
         NEW t \in Nat, NEW d \in Nat, x + n + 1 + t <= d
  PROVE  x1 + m + 1 + t <= d
  OBVIOUS

\* The interval at the moment the refresh falls due.
LEMMA CountsFrom ==
  ASSUME NEW x \in Nat, NEW c \in Nat, NEW f \in Nat, NEW t \in Nat, NEW l \in Nat, NEW n \in Nat,
         x <= c + f + 3, n <= l
  PROVE  x + n + 1 + t <= c + (f + t + l + 4)
  OBVIOUS

\* Less is left than the deadline allows.
LEMMA CountsLess ==
  ASSUME NEW x \in Nat, NEW t \in Nat, NEW n \in Nat, NEW d \in Nat, x + n + 1 + t <= d
  PROVE  x + t <= d /\ x + n <= d /\ x + (1 + t) <= d
  OBVIOUS

\* The refresh interval grows by one an edge, the delay runs down.
LEMMA RefreshMoves ==
  ASSUME TypeOK, MachineKept, NEW offer \in Offers, Clock(offer)
  PROVE  /\ RefreshSeen \in Nat /\ RefreshSeen' \in Nat /\ RefreshSeen' <= RefreshSeen + 1
         /\ Doing("INIT_REFRESH") \/ Doing("REF_CMD") => RefreshSeen' = 1
         /\ delay_q \in Nat /\ delay_q' \in Nat /\ delay_q' <= Longest
         /\ delay_done_q <=> delay_q = 0
         /\ ~delay_done_q => delay_q' = delay_q - 1
         /\ state_q = "RUN" /\ delay_q = 0 => delay_q' = 0
         /\ delay_done_q =>
              /\ state_q = "INIT_REFRESH" => delay_q' = TRFC - 1
              /\ state_q = "INIT_MODE" => delay_q' = 2
              /\ state_q \in {"ROW_PRE", "REF_PRE"} => delay_q' = TRP - 1
              /\ state_q = "ROW_ACTIVE" => delay_q' = TRCD - 1
<1>1. RefreshSeen \in Nat
  <2>1. RefreshSeen \in 1 .. MaxRefreshAge
    BY SetupTyped
  <2> QED BY <2>1, Ages
<1>2. RefreshSeen' = IF Doing("INIT_REFRESH") \/ Doing("REF_CMD") THEN 1
                     ELSE IF RefreshSeen = MaxRefreshAge THEN MaxRefreshAge ELSE RefreshSeen + 1
  BY SeenNext
<1>3. RefreshSeen' \in Nat /\ RefreshSeen' <= RefreshSeen + 1
  BY <1>1, <1>2, Ages
<1>4. DelayStep
  BY DEF Clock, ControllerEdge
<1>5. /\ delay_done_q /\ state_q \in DOMAIN Waits => delay_q' = Waits[state_q]
      /\ ~(delay_done_q /\ state_q \in DOMAIN Waits) => delay_q' = Down(delay_q)
      /\ delay_q' \in Nat /\ delay_q' <= MaxWait
      /\ (delay_done_q <=> delay_q = 0)
  BY <1>4, DelayNext
<1>6. delay_q' <= Longest
  <2>1. MaxWait <= Longest
    <3>1. MaxWait \in {TRP, TRFC, TRCD, 3}
      <4>1. \E l \in {TRP, TRFC, TRCD, 3} : \A k \in {TRP, TRFC, TRCD, 3} : k <= l
        <5>1. \E l \in {TRP, TRFC, TRCD} : \A k \in {TRP, TRFC, TRCD} : k <= l
          BY Longest3, Times
        <5>2. {TRP, TRFC, TRCD} \in SUBSET Nat /\ {TRP, TRFC, TRCD} \cup {3} = {TRP, TRFC, TRCD, 3}
          BY Times
        <5>3. ASSUME NEW S \in SUBSET Nat, \E l \in S : \A k \in S : k <= l
              PROVE  \E l \in S \cup {3} : \A k \in S \cup {3} : k <= l
          BY <5>3, Longer
        <5>4. \E l \in {TRP, TRFC, TRCD} \cup {3} : \A k \in {TRP, TRFC, TRCD} \cup {3} : k <= l
          BY <5>1, <5>2, <5>3
        <5> QED BY <5>2, <5>4
      <4> QED BY <4>1 DEF MaxWait
    <3>2. ReadWait >= 3
      BY Times
    <3>3. TRP <= Longest /\ TRFC <= Longest /\ TRCD <= Longest /\ 3 <= Longest
      BY <3>2, LongestBounds, Times
    <3> QED BY <3>1, <3>3
  <2> QED BY <1>5, <2>1, MaxWaitBounds, LongestBounds
<1>7. delay_q \in Nat
  BY Typed
<1>8. /\ ~delay_done_q => delay_q' = delay_q - 1
      /\ state_q = "RUN" /\ delay_q = 0 => delay_q' = 0
  BY <1>5, <1>7, WaitsAre DEF Down
<1>9. delay_done_q =>
        /\ state_q = "INIT_REFRESH" => delay_q' = TRFC - 1
        /\ state_q = "INIT_MODE" => delay_q' = 2
        /\ state_q \in {"ROW_PRE", "REF_PRE"} => delay_q' = TRP - 1
        /\ state_q = "ROW_ACTIVE" => delay_q' = TRCD - 1
  BY <1>5, WaitsAre
<1>10. Doing("INIT_REFRESH") \/ Doing("REF_CMD") => RefreshSeen' = 1
  BY <1>2
<1> QED BY <1>1, <1>3, <1>5, <1>6, <1>7, <1>8, <1>9, <1>10

\* While the device is set up.
LEMMA RefreshSetUp ==
  ASSUME TypeOK, QueueKept, MachineKept, DeviceKept, RefreshKept, NEW offer \in Offers, Clock(offer)
  PROVE  /\ state_q' = "INIT_MODE" \/ (state_q' = "INIT_REFRESH" /\ init_refresh_q' # 0) =>
              RefreshSeen' + delay_q' <= TRFC
         /\ init_done_q' /\ ~ready' => timer_q' = RefreshCycles - 1
         /\ state_q' = "RUN" /\ ~ready' => RefreshSeen' + delay_q' <= TRFC + 3
         /\ state_q' \in {"ROW_PRE", "ROW_ACTIVE"} => ready'
         /\ state_q' \in SetUp => ~InitializedSeen'
         /\ recovery_q' <= Longest
<1>1. MachineStep /\ TimerStep /\ RecoveryStep
  BY DEF Clock, ControllerEdge
<1>2. /\ ~delay_done_q => state_q' = state_q
      /\ delay_done_q =>
           /\ state_q = "POWERUP" => state_q' = IF init_done_q THEN "INIT_PRE" ELSE "POWERUP"
           /\ state_q = "INIT_PRE" => state_q' = "INIT_REFRESH"
           /\ state_q = "INIT_REFRESH" =>
                state_q' = IF init_refresh_q = 7 THEN "INIT_MODE" ELSE "INIT_REFRESH"
           /\ state_q \in {"INIT_MODE", "ROW_PRE", "ROW_ACTIVE", "REF_CMD"} => state_q' = "RUN"
           /\ state_q = "REF_PRE" => state_q' = "REF_CMD"
           /\ state_q = "RUN" => state_q' \in {"REF_PRE", "ROW_PRE", "ROW_ACTIVE", "RUN"}
  BY <1>1, StateNext
<1>3. /\ RefreshSeen \in Nat /\ RefreshSeen' \in Nat /\ RefreshSeen' <= RefreshSeen + 1
      /\ Doing("INIT_REFRESH") \/ Doing("REF_CMD") => RefreshSeen' = 1
      /\ delay_q \in Nat /\ delay_q' \in Nat
      /\ delay_done_q <=> delay_q = 0
      /\ ~delay_done_q => delay_q' = delay_q - 1
      /\ delay_done_q /\ state_q = "INIT_REFRESH" => delay_q' = TRFC - 1
      /\ delay_done_q /\ state_q = "INIT_MODE" => delay_q' = 2
  BY RefreshMoves
<1>4. /\ ready' <=> ready \/ Doing("RUN")
      /\ init_refresh_q' = (init_refresh_q + One(Doing("INIT_REFRESH"))) % 8
      /\ init_refresh_q \in 0 .. 7 /\ ready \in BOOLEAN
  BY <1>1, Typed DEF MachineStep
<1>5. state_q \in States
  BY Typed
<1>6. ~Doing("INIT_REFRESH") => init_refresh_q' = init_refresh_q
  BY <1>4 DEF One
<1>7. state_q' = "INIT_MODE" \/ (state_q' = "INIT_REFRESH" /\ init_refresh_q' # 0) =>
        RefreshSeen' + delay_q' <= TRFC
  <2> SUFFICES ASSUME state_q' = "INIT_MODE" \/ (state_q' = "INIT_REFRESH" /\ init_refresh_q' # 0)
               PROVE  RefreshSeen' + delay_q' <= TRFC
    OBVIOUS
  <2>1. CASE ~delay_done_q
    <3>1. RefreshSeen + delay_q <= TRFC
      <4>1. ~Doing("INIT_REFRESH") /\ state_q' = state_q
        BY <1>2, <2>1 DEF Doing
      <4> QED BY <1>6, <4>1 DEF RefreshKept
    <3>2. /\ RefreshSeen \in Nat /\ RefreshSeen' \in Nat /\ RefreshSeen' <= RefreshSeen + 1
          /\ delay_q \in Nat /\ delay_q' \in Nat /\ delay_q' + 1 <= delay_q
          /\ TRFC \in Nat /\ TRFC + 3 \in Nat
      BY <1>3, <2>1, Times
    <3> QED BY <3>1, <3>2, Counts
  <2>2. CASE delay_done_q
    <3>1. state_q \in {"INIT_PRE", "INIT_REFRESH"}
      BY <1>2, <1>5, <2>2 DEF States
    <3>2. state_q # "INIT_PRE"
      <4>1. SUFFICES ASSUME state_q = "INIT_PRE" PROVE FALSE
        OBVIOUS
      <4>2. init_refresh_q = 0 /\ ~Doing("INIT_REFRESH")
        BY <4>1 DEF DeviceKept, Doing
      <4> QED BY <1>2, <1>6, <2>2, <4>1, <4>2
    <3>3. Doing("INIT_REFRESH")
      BY <2>2, <3>1, <3>2 DEF Doing
    <3>4. RefreshSeen' = 1 /\ delay_q' = TRFC - 1 /\ TRFC \in Nat
      BY <1>3, <2>2, <3>1, <3>2, <3>3, Times
    <3> QED BY <3>4
  <2> QED BY <2>1, <2>2
<1>8. /\ Doing("REF_CMD") => timer_q' = RefreshCycles - 1
      /\ ~Doing("REF_CMD") =>
           /\ init_done_q' <=> init_done_q \/ timer_q <= 1
           /\ timer_q' = IF ~init_done_q
                         THEN IF timer_q <= 1 THEN RefreshCycles - 1 ELSE timer_q - 1
                         ELSE IF ready /\ ~refresh_due_q THEN timer_q - 1 ELSE timer_q
  BY <1>1, TimerNext
<1>9. init_done_q' /\ ~ready' => timer_q' = RefreshCycles - 1
  BY <1>4, <1>8 DEF RefreshKept
<1>10. refresh_due_q => ready
  BY DEF MachineKept
<1>11. state_q' = "RUN" /\ ~ready' => RefreshSeen' + delay_q' <= TRFC + 3
  <2> SUFFICES ASSUME state_q' = "RUN", ~ready' PROVE RefreshSeen' + delay_q' <= TRFC + 3
    OBVIOUS
  <2>0. ~ready
    BY <1>4
  <2>1. CASE ~delay_done_q
    <3>1. RefreshSeen + delay_q <= TRFC + 3
      BY <1>2, <2>0, <2>1 DEF RefreshKept
    <3>2. /\ RefreshSeen \in Nat /\ RefreshSeen' \in Nat /\ RefreshSeen' <= RefreshSeen + 1
          /\ delay_q \in Nat /\ delay_q' \in Nat /\ delay_q' + 1 <= delay_q
          /\ TRFC \in Nat /\ TRFC + 3 \in Nat
      BY <1>3, <2>1, Times
    <3>3. PICK d \in Nat : d = TRFC + 3
      BY <3>2
    <3>4. RefreshSeen + delay_q <= d
      BY <3>1, <3>3
    <3>5. RefreshSeen' + delay_q' <= d
      BY <3>2, <3>4, Counts
    <3> QED BY <3>3, <3>5
  <2>2. CASE delay_done_q
    <3>1. state_q = "INIT_MODE"
      <4>1. state_q # "RUN"
        BY <1>4, <2>2 DEF Doing
      <4>2. state_q \notin {"ROW_PRE", "ROW_ACTIVE"}
        BY <2>0 DEF RefreshKept
      <4>3. state_q \notin {"REF_PRE", "REF_CMD"}
        BY <1>10, <2>0 DEF MachineKept
      <4> QED BY <1>2, <1>5, <2>2, <4>1, <4>2, <4>3 DEF States
    <3>2. RefreshSeen + delay_q <= TRFC
      BY <3>1 DEF RefreshKept
    <3>3. /\ RefreshSeen \in Nat /\ RefreshSeen' \in Nat /\ RefreshSeen' <= RefreshSeen + 1
          /\ delay_q = 0 /\ delay_q' = 2 /\ TRFC \in Nat
      BY <1>3, <2>2, <3>1, Times
    <3>4. RefreshSeen + 3 <= TRFC + 3 /\ 2 + 1 <= 3 /\ TRFC + 3 \in Nat
      BY <3>2, <3>3
    <3>5. PICK d \in Nat, m \in Nat, n \in Nat : d = TRFC + 3 /\ m = 2 /\ n = 3
      BY <3>4
    <3>6. RefreshSeen + n <= d /\ m + 1 <= n
      BY <3>4, <3>5
    <3>7. RefreshSeen' + m <= d
      BY <3>3, <3>6, Counts
    <3> QED BY <3>3, <3>5, <3>7
  <2> QED BY <2>1, <2>2
<1>12. state_q' \in {"ROW_PRE", "ROW_ACTIVE"} => ready'
  <2> SUFFICES ASSUME state_q' \in {"ROW_PRE", "ROW_ACTIVE"} PROVE ready'
    OBVIOUS
  <2>1. CASE ~delay_done_q
    BY <1>2, <1>4, <2>1 DEF RefreshKept
  <2>2. CASE delay_done_q
    BY <1>2, <1>4, <1>5, <2>2 DEF States, Doing
  <2> QED BY <2>1, <2>2
<1>13. state_q' \in SetUp => ~InitializedSeen'
  <2> SUFFICES ASSUME state_q' \in SetUp PROVE ~InitializedSeen'
    OBVIOUS
  <2>1. InitializedSeen' <=> InitializedSeen \/ Doing("INIT_MODE")
    BY SeenNext
  <2>2. state_q \in SetUp /\ ~Doing("INIT_MODE")
    BY <1>2, <1>5 DEF States, SetUp, Doing
  <2> QED BY <2>1, <2>2 DEF RefreshKept
<1>14. recovery_q' <= Longest
  <2>1. recovery_q' = IF Issue THEN IF head_we_q THEN WriteWait ELSE ReadWait ELSE Down(recovery_q)
    BY <1>1, RecoveryNext
  <2>2. recovery_q \in Nat /\ recovery_q <= Longest
    BY Typed DEF RefreshKept
  <2> QED BY <2>1, <2>2, LongestBounds, Times DEF Down
<1> QED BY <1>7, <1>9, <1>11, <1>12, <1>13, <1>14

\* Between refreshes the timer runs with the interval.
LEMMA RefreshRuns ==
  ASSUME TypeOK, QueueKept, MachineKept, DeviceKept, RefreshKept, NEW offer \in Offers, Clock(offer)
  PROVE  ready' /\ ~refresh_due_q' => RefreshSeen' + timer_q' <= RefreshCycles + TRFC + 3
<1> SUFFICES ASSUME ready', ~refresh_due_q'
             PROVE  RefreshSeen' + timer_q' <= RefreshCycles + TRFC + 3
  OBVIOUS
<1>1. MachineStep /\ TimerStep
  BY DEF Clock, ControllerEdge
<1>2. /\ RefreshSeen \in Nat /\ RefreshSeen' \in Nat /\ RefreshSeen' <= RefreshSeen + 1
      /\ Doing("REF_CMD") => RefreshSeen' = 1
      /\ delay_done_q <=> delay_q = 0
  BY RefreshMoves
<1>3. RefreshCycles \in Nat /\ timer_q \in Nat /\ TRFC \in Nat
  BY Typed, Times
<1>4. /\ Doing("REF_CMD") => timer_q' = RefreshCycles - 1
      /\ ~Doing("REF_CMD") =>
           /\ init_done_q' <=> init_done_q \/ timer_q <= 1
           /\ timer_q' = IF ~init_done_q
                         THEN IF timer_q <= 1 THEN RefreshCycles - 1 ELSE timer_q - 1
                         ELSE IF ready /\ ~refresh_due_q THEN timer_q - 1 ELSE timer_q
           /\ refresh_due_q' <=> ready /\ timer_q <= 1
      /\ ready => init_done_q
  BY <1>1, TimerNext
<1>5. CASE Doing("REF_CMD")
  BY <1>2, <1>3, <1>4, <1>5
<1>6. CASE ~Doing("REF_CMD") /\ ready
  <2>1. ~refresh_due_q /\ init_done_q
    BY <1>4, <1>6 DEF MachineKept
  <2>2. timer_q' = timer_q - 1
    BY <1>4, <1>6, <2>1
  <2>3. RefreshSeen + timer_q <= RefreshCycles + TRFC + 3
    BY <1>6, <2>1 DEF RefreshKept
  <2>4. timer_q # 0
    BY <1>6, <2>1 DEF MachineKept
  <2>5. timer_q' \in Nat /\ timer_q' + 1 <= timer_q /\ RefreshCycles + TRFC + 3 \in Nat
    BY <1>3, <2>2, <2>4
  <2>6. PICK d \in Nat : d = RefreshCycles + TRFC + 3
    BY <2>5
  <2>7. RefreshSeen + timer_q <= d
    BY <2>3, <2>6
  <2>8. RefreshSeen' + timer_q' <= d
    BY <1>2, <1>3, <2>5, <2>7, Counts
  <2> QED BY <2>6, <2>8
<1>7. CASE ~Doing("REF_CMD") /\ ~ready
  <2>1. Doing("RUN")
    BY <1>1, <1>7 DEF MachineStep
  <2>2. state_q = "RUN" /\ delay_q = 0
    BY <1>2, <2>1 DEF Doing
  <2>3. init_done_q
    BY <2>2 DEF MachineKept
  <2>4. timer_q' = RefreshCycles - 1
    BY <1>4, <1>7, <2>3 DEF RefreshKept
  <2>5. RefreshSeen + delay_q <= TRFC + 3
    BY <1>7, <2>2 DEF RefreshKept
  <2>6. /\ RefreshSeen + RefreshCycles <= RefreshCycles + TRFC + 3 /\ RefreshCycles + TRFC + 3 \in Nat
        /\ timer_q' \in Nat /\ timer_q' + 1 <= RefreshCycles
    <3>1. RefreshCycles > 3
      BY Typed
    <3> QED BY <1>2, <1>3, <2>2, <2>4, <2>5, <3>1
  <2>7. PICK d \in Nat : d = RefreshCycles + TRFC + 3
    BY <2>6
  <2>8. RefreshSeen + RefreshCycles <= d
    BY <2>6, <2>7
  <2>9. RefreshSeen' + timer_q' <= d
    BY <1>2, <1>3, <2>6, <2>8, Counts
  <2> QED BY <2>7, <2>9
<1> QED BY <1>5, <1>6, <1>7

\* The names of what is left to do when a refresh is due.
WithinAll(seen) ==
  /\ state_q = "RUN" => /\ seen + delay_q + 1 + TRP <= Deadline
                        /\ bank_safe_q \/ \A n \in {recovery_q, active_age_q, 1} : seen + n + 1 + TRP <= Deadline
  /\ state_q = "ROW_PRE" => seen + TRP + 1 + TRP <= Deadline
  /\ state_q = "ROW_ACTIVE" => \A n \in {TRCD, TRAS, 2} : seen + n + 1 + TRP <= Deadline
  /\ state_q = "REF_PRE" => seen + TRP <= Deadline
  /\ state_q = "REF_CMD" => seen + delay_q <= Deadline

\* A refresh is due: what is under way ends in time.
LEMMA RefreshDue ==
  ASSUME TypeOK, QueueKept, MachineKept, DeviceKept, RefreshKept, NEW offer \in Offers, Clock(offer),
         refresh_due_q'
  PROVE  /\ state_q' = "RUN" =>
              /\ RefreshSeen' + delay_q' + 1 + TRP <= Deadline
              /\ bank_safe_q' \/ \A n \in {recovery_q', active_age_q', 1} : RefreshSeen' + n + 1 + TRP <= Deadline
         /\ state_q' = "ROW_PRE" => RefreshSeen' + TRP + 1 + TRP <= Deadline
         /\ state_q' = "ROW_ACTIVE" => \A n \in {TRCD, TRAS, 2} : RefreshSeen' + n + 1 + TRP <= Deadline
         /\ state_q' = "REF_PRE" => RefreshSeen' + TRP <= Deadline
         /\ state_q' = "REF_CMD" => RefreshSeen' + delay_q' <= Deadline
<1>1. MachineStep /\ TimerStep /\ RecoveryStep
  BY DEF Clock, ControllerEdge
<1>2. /\ RefreshSeen \in Nat /\ RefreshSeen' \in Nat /\ RefreshSeen' <= RefreshSeen + 1
      /\ delay_q \in Nat /\ delay_q' \in Nat /\ delay_q' <= Longest
      /\ delay_done_q <=> delay_q = 0
      /\ ~delay_done_q => delay_q' = delay_q - 1
      /\ state_q = "RUN" /\ delay_q = 0 => delay_q' = 0
      /\ delay_done_q /\ state_q \in {"ROW_PRE", "REF_PRE"} => delay_q' = TRP - 1
      /\ delay_done_q /\ state_q = "ROW_ACTIVE" => delay_q' = TRCD - 1
  BY RefreshMoves
<1>3. /\ RefreshCycles \in Nat /\ timer_q \in Nat /\ TRFC \in Nat /\ TRP \in Nat /\ TRCD \in Nat /\ TRAS \in Nat
      /\ TRP > 0 /\ TRCD > 0 /\ TRAS > 0 /\ TRFC > 0
      /\ Longest \in Nat /\ TRP <= Longest /\ TRCD <= Longest /\ TRAS <= Longest /\ 2 <= Longest
      /\ Deadline = RefreshCycles + (TRFC + TRP + Longest + 4)
  <2>1. 2 <= ReadWait /\ ReadWait \in Nat
    BY Times
  <2>2. 2 <= Longest
    BY <2>1, LongestBounds
  <2> QED BY <2>2, Typed, Times, LongestBounds DEF Deadline
<1>4. /\ recovery_q' \in Nat /\ recovery_q' <= Longest /\ active_age_q' \in Nat /\ active_age_q' <= Longest
      /\ recovery_q \in Nat /\ active_age_q \in Nat
      /\ recovery_q' = IF Issue THEN IF head_we_q THEN WriteWait ELSE ReadWait ELSE Down(recovery_q)
      /\ active_age_q' = IF Doing("ROW_ACTIVE") THEN TRAS - 1 ELSE Down(active_age_q)
      /\ bank_safe_q' <=> ~Issue /\ ~Doing("ROW_ACTIVE") /\ recovery_q <= 1 /\ active_age_q <= 1
  <2>1. /\ recovery_q' \in 0 .. WriteWait + ReadWait /\ active_age_q' \in 0 .. TRAS - 1
        /\ recovery_q' = IF Issue THEN IF head_we_q THEN WriteWait ELSE ReadWait ELSE Down(recovery_q)
        /\ active_age_q' = IF Doing("ROW_ACTIVE") THEN TRAS - 1 ELSE Down(active_age_q)
        /\ bank_safe_q' <=> ~Issue /\ ~Doing("ROW_ACTIVE") /\ recovery_q <= 1 /\ active_age_q <= 1
    BY <1>1, RecoveryNext
  <2>2. recovery_q' <= Longest
    BY RefreshSetUp
  <2>3. recovery_q' \in Nat /\ active_age_q' \in Nat /\ active_age_q' <= Longest
    BY <1>3, <2>1, Times
  <2> QED BY <2>1, <2>2, <2>3, Typed
<1>5. ~Doing("REF_CMD") /\ ready /\ timer_q <= 1
  BY <1>1, TimerNext
<1>6. CASE ~refresh_due_q
  <2>1. timer_q # 0
    <3>1. init_done_q
      BY <1>1, <1>5, TimerNext
    <3> QED BY <1>6, <3>1 DEF MachineKept
  <2>2. RefreshSeen + timer_q <= RefreshCycles + TRFC + 3
    BY <1>5, <1>6 DEF RefreshKept
  <2>3. RefreshSeen' <= RefreshCycles + TRFC + 3
    BY <1>2, <1>3, <1>5, <2>1, <2>2
  <2>4. ASSUME NEW n \in Nat, n <= Longest PROVE RefreshSeen' + n + 1 + TRP <= Deadline
    <3>1. /\ RefreshSeen' \in Nat /\ RefreshCycles \in Nat /\ TRFC \in Nat /\ TRP \in Nat /\ Longest \in Nat
          /\ Deadline = RefreshCycles + (TRFC + TRP + Longest + 4)
      BY <1>2, <1>3
    <3> QED BY <2>3, <2>4, <3>1, CountsFrom
  <2>5. RefreshSeen' + delay_q' + 1 + TRP <= Deadline
    BY <1>2, <2>4
  <2>6. \A n \in {recovery_q', active_age_q', 1, TRP, TRCD, TRAS, 2} : RefreshSeen' + n + 1 + TRP <= Deadline
    <3>1. \A n \in {recovery_q', active_age_q', 1, TRP, TRCD, TRAS, 2} : n \in Nat /\ n <= Longest
      BY <1>3, <1>4
    <3> QED BY <2>4, <3>1
  <2>7. RefreshSeen' + TRP <= Deadline /\ RefreshSeen' + delay_q' <= Deadline
    <3>1. RefreshSeen' \in Nat /\ delay_q' \in Nat /\ TRP \in Nat
      BY <1>2, <1>3
    <3>2. Deadline \in Nat
      BY <1>3
    <3> QED BY <2>5, <3>1, <3>2, CountsLess
  <2> QED BY <2>5, <2>6, <2>7
<1>7. CASE refresh_due_q
  <2>1. ~Issue /\ ~Miss
    BY <1>7, IssueWhen DEF Miss
  <2>2. WithinAll(RefreshSeen)
    BY <1>7 DEF RefreshKept, WithinAll, Within
  <2>3. /\ ~delay_done_q => state_q' = state_q
        /\ delay_done_q =>
             /\ state_q \in {"ROW_PRE", "ROW_ACTIVE"} => state_q' = "RUN"
             /\ state_q = "REF_PRE" => state_q' = "REF_CMD"
             /\ state_q = "RUN" => state_q' = IF bank_safe_q THEN "REF_PRE" ELSE "RUN"
    BY <1>1, <1>7, <2>1, StateNext
  <2>4. state_q \in {"RUN", "ROW_PRE", "ROW_ACTIVE", "REF_PRE", "REF_CMD"}
    <3>1. state_q \notin SetUp
      BY <1>5 DEF MachineKept
    <3> QED BY <3>1, Typed DEF States, SetUp
  <2>5. Deadline \in Nat
    BY <1>3
  <2>6. bank_safe_q => recovery_q = 0 /\ active_age_q = 0
    BY DEF MachineKept
  <2>7. state_q # "RUN" => recovery_q = 0 /\ active_age_q = 0
    BY DEF MachineKept
  <2>8. state_q \in {"ROW_PRE", "ROW_ACTIVE", "REF_PRE"} => delay_q = 0
    BY DEF MachineKept
  \* One edge, one step nearer.
  <2>9. ASSUME NEW n \in Nat, NEW m \in Nat, RefreshSeen + n + 1 + TRP <= Deadline, m + 1 <= n
        PROVE  RefreshSeen' + m + 1 + TRP <= Deadline
    <3>1. RefreshSeen \in Nat /\ RefreshSeen' \in Nat /\ RefreshSeen' <= RefreshSeen + 1 /\ TRP \in Nat
      BY <1>2, <1>3
    <3> QED BY <2>5, <2>9, <3>1, CountsOn
  <2>10. CASE state_q = "RUN"
    <3>1. /\ recovery_q' = Down(recovery_q) /\ active_age_q' = Down(active_age_q)
          /\ bank_safe_q' <=> recovery_q <= 1 /\ active_age_q <= 1
      BY <1>4, <2>1, <2>10 DEF Doing
    <3>2. /\ RefreshSeen + delay_q + 1 + TRP <= Deadline
          /\ bank_safe_q \/ /\ RefreshSeen + recovery_q + 1 + TRP <= Deadline
                            /\ RefreshSeen + active_age_q + 1 + TRP <= Deadline
                            /\ RefreshSeen + 1 + 1 + TRP <= Deadline
      BY <2>2, <2>10 DEF WithinAll
    <3>3. CASE state_q' = "RUN"
      <4>1. RefreshSeen' + delay_q' + 1 + TRP <= Deadline
        <5>1. CASE ~delay_done_q
          <6>1. delay_q \in Nat /\ delay_q' \in Nat /\ delay_q' + 1 <= delay_q
            BY <1>2, <5>1
          <6> QED BY <2>9, <3>2, <6>1
        <5>2. CASE delay_done_q
          <6>1. ~bank_safe_q /\ delay_q' = 0
            BY <1>2, <2>3, <2>10, <3>3, <5>2
          <6>2. RefreshSeen + 1 + 1 + TRP <= Deadline /\ 0 + 1 <= 1
            BY <3>2, <6>1
          <6>3. RefreshSeen' + 0 + 1 + TRP <= Deadline
            BY <2>9, <6>2
          <6> QED BY <6>1, <6>3
        <5> QED BY <5>1, <5>2
      <4>2. ~bank_safe_q' => \A n \in {recovery_q', active_age_q', 1} : RefreshSeen' + n + 1 + TRP <= Deadline
        <5> SUFFICES ASSUME ~bank_safe_q', NEW n \in {recovery_q', active_age_q', 1}
                     PROVE  RefreshSeen' + n + 1 + TRP <= Deadline
          OBVIOUS
        <5>1. ~bank_safe_q
          BY <2>6, <3>1
        <5>2. PICK m \in {recovery_q, active_age_q} : m >= 2
          <6>1. recovery_q >= 2 \/ active_age_q >= 2
            BY <1>4, <3>1
          <6> QED BY <6>1
        <5>3. m \in Nat /\ RefreshSeen + m + 1 + TRP <= Deadline
          BY <1>4, <3>2, <5>1
        <5>4. CASE n <= 1
          <6>1. n \in Nat /\ n + 1 <= m
            BY <1>4, <5>2, <5>3, <5>4
          <6> QED BY <2>9, <5>3, <6>1
        <5>5. CASE n > 1
          <6>1. PICK w \in {recovery_q, active_age_q} : n = Down(w)
            BY <3>1, <5>5
          <6>2. w \in Nat /\ RefreshSeen + w + 1 + TRP <= Deadline
            BY <1>4, <3>2, <5>1
          <6>3. n \in Nat /\ n + 1 <= w
            BY <5>5, <6>1, <6>2 DEF Down
          <6> QED BY <2>9, <6>2, <6>3
        <5> QED BY <1>4, <5>4, <5>5
      <4> QED BY <3>3, <4>1, <4>2
    <3>4. CASE state_q' # "RUN"
      <4>1. state_q' = "REF_PRE" /\ delay_q = 0
        BY <1>2, <2>3, <2>10, <3>4
      <4>2. RefreshSeen' + TRP <= Deadline
        <5>1. RefreshSeen \in Nat /\ RefreshSeen' \in Nat /\ RefreshSeen' <= RefreshSeen + 1 /\ TRP \in Nat
              /\ delay_q = 0
          BY <1>2, <1>3, <4>1
        <5>2. RefreshSeen + delay_q + 1 + TRP <= Deadline
          BY <3>2
        <5>3. RefreshSeen + (1 + TRP) <= Deadline /\ TRP + 1 <= 1 + TRP /\ 1 + TRP \in Nat
          BY <1>2, <2>5, <5>1, <5>2, CountsLess
        <5>4. PICK n \in Nat : n = 1 + TRP
          BY <5>3
        <5>5. RefreshSeen + n <= Deadline /\ TRP + 1 <= n
          BY <5>3, <5>4
        <5> QED BY <2>5, <5>1, <5>5, Counts
      <4> QED BY <4>1, <4>2
    <3> QED BY <3>3, <3>4
  <2>11. CASE state_q = "ROW_PRE"
    <3>1. state_q' = "RUN" /\ delay_q' = TRP - 1
      BY <1>2, <2>3, <2>8, <2>11
    <3>2. bank_safe_q'
      BY <1>4, <2>1, <2>7, <2>11 DEF Doing
    <3>3. RefreshSeen + TRP + 1 + TRP <= Deadline /\ (TRP - 1) + 1 <= TRP /\ TRP - 1 \in Nat
      BY <1>3, <2>2, <2>11 DEF WithinAll
    <3>4. RefreshSeen' + (TRP - 1) + 1 + TRP <= Deadline
      BY <1>3, <2>9, <3>3
    <3> QED BY <3>1, <3>2, <3>4
  <2>12. CASE state_q = "ROW_ACTIVE"
    <3>1. state_q' = "RUN" /\ delay_q' = TRCD - 1
      BY <1>2, <2>3, <2>8, <2>12
    <3>2. recovery_q' = 0 /\ active_age_q' = TRAS - 1
      BY <1>2, <1>4, <2>1, <2>7, <2>8, <2>12 DEF Doing, Down
    <3>3. /\ RefreshSeen + TRCD + 1 + TRP <= Deadline /\ RefreshSeen + TRAS + 1 + TRP <= Deadline
          /\ RefreshSeen + 2 + 1 + TRP <= Deadline
      BY <2>2, <2>12 DEF WithinAll
    <3>4. /\ (TRCD - 1) + 1 <= TRCD /\ TRCD - 1 \in Nat /\ (TRAS - 1) + 1 <= TRAS /\ TRAS - 1 \in Nat
          /\ 0 + 1 <= 2 /\ 1 + 1 <= 2
      BY <1>3
    <3>5. RefreshSeen' + (TRCD - 1) + 1 + TRP <= Deadline
      BY <1>3, <2>9, <3>3, <3>4
    <3>6. RefreshSeen' + (TRAS - 1) + 1 + TRP <= Deadline
      BY <1>3, <2>9, <3>3, <3>4
    <3>7. RefreshSeen' + 0 + 1 + TRP <= Deadline /\ RefreshSeen' + 1 + 1 + TRP <= Deadline
      BY <2>9, <3>3, <3>4
    <3> QED BY <3>1, <3>2, <3>5, <3>6, <3>7
  <2>13. CASE state_q = "REF_PRE"
    <3>1. state_q' = "REF_CMD" /\ delay_q' = TRP - 1
      BY <1>2, <2>3, <2>8, <2>13
    <3>2. RefreshSeen + TRP <= Deadline
      BY <2>2, <2>13 DEF WithinAll
    <3>3. RefreshSeen \in Nat /\ RefreshSeen' \in Nat /\ RefreshSeen' <= RefreshSeen + 1 /\ TRP \in Nat
      BY <1>2, <1>3
    <3>5. TRP - 1 \in Nat /\ (TRP - 1) + 1 <= TRP
      BY <1>3
    <3>6. PICK m \in Nat : m = TRP - 1
      BY <3>5
    <3>7. m + 1 <= TRP
      BY <3>5, <3>6
    <3>8. RefreshSeen' + m <= Deadline
      BY <2>5, <3>2, <3>3, <3>7, Counts
    <3>4. RefreshSeen' + (TRP - 1) <= Deadline
      BY <3>6, <3>8
    <3> QED BY <3>1, <3>4
  <2>14. CASE state_q = "REF_CMD"
    <3>1. state_q' = "REF_CMD" /\ delay_q' = delay_q - 1
      BY <1>2, <1>5, <2>3, <2>14 DEF Doing
    <3>2. RefreshSeen + delay_q <= Deadline
      BY <2>2, <2>14 DEF WithinAll
    <3>3. RefreshSeen \in Nat /\ RefreshSeen' \in Nat /\ RefreshSeen' <= RefreshSeen + 1 /\ delay_q \in Nat
      BY <1>2
    <3>5. delay_q - 1 \in Nat /\ (delay_q - 1) + 1 <= delay_q
      <4>1. delay_q # 0
        BY <1>2, <1>5, <2>14 DEF Doing
      <4> QED BY <3>3, <4>1
    <3>6. PICK m \in Nat : m = delay_q - 1
      BY <3>5
    <3>7. m + 1 <= delay_q
      BY <3>5, <3>6
    <3>8. RefreshSeen' + m <= Deadline
      BY <2>5, <3>2, <3>3, <3>7, Counts
    <3>4. RefreshSeen' + (delay_q - 1) <= Deadline
      BY <3>6, <3>8
    <3> QED BY <3>1, <3>4
  <2> QED BY <2>4, <2>10, <2>11, <2>12, <2>13, <2>14
<1> QED BY <1>6, <1>7

\* The refresh is as much in time after an edge as before.
LEMMA RefreshNext ==
  ASSUME TypeOK, QueueKept, MachineKept, DeviceKept, RefreshKept, NEW offer \in Offers, Clock(offer)
  PROVE  RefreshKept'
<1>1. RefreshInTime'
  <2>1. refresh_age' = RefreshSeen /\ (initialized' <=> InitializedSeen)
    BY DeviceSees
  <2>2. InitializedSeen => RefreshSeen <= Deadline
    <3> SUFFICES ASSUME InitializedSeen PROVE RefreshSeen <= Deadline
      OBVIOUS
    <3>1. RefreshSeen \in Nat /\ delay_q \in Nat
      BY RefreshMoves
    <3>2. /\ RefreshCycles \in Nat /\ timer_q \in Nat /\ TRFC \in Nat /\ TRP \in Nat /\ TRP > 0
          /\ Longest \in Nat /\ Deadline = RefreshCycles + (TRFC + TRP + Longest + 4)
          /\ TRCD \in Nat
      BY Typed, Times, LongestBounds DEF Deadline
    <3>3. state_q \in {"RUN", "ROW_PRE", "ROW_ACTIVE", "REF_PRE", "REF_CMD"}
      <4>1. state_q \notin SetUp
        BY DEF RefreshKept
      <4> QED BY <4>1, Typed DEF States, SetUp
    <3>4. CASE refresh_due_q
      <4>1. WithinAll(RefreshSeen)
        BY <3>4 DEF RefreshKept, WithinAll, Within
      <4>2. \E n \in Nat : RefreshSeen + n <= Deadline
        <5>1. CASE state_q = "RUN"
          <6>1. RefreshSeen + delay_q + 1 + TRP <= Deadline
            BY <4>1, <5>1 DEF WithinAll
          <6>2. RefreshSeen + (delay_q + 1 + TRP) <= Deadline
            BY <3>1, <3>2, <6>1
          <6> QED BY <3>1, <3>2, <6>2
        <5>2. CASE state_q = "ROW_PRE"
          <6>1. RefreshSeen + TRP + 1 + TRP <= Deadline
            BY <4>1, <5>2 DEF WithinAll
          <6>2. RefreshSeen + (TRP + 1 + TRP) <= Deadline
            BY <3>1, <3>2, <6>1
          <6> QED BY <3>2, <6>2
        <5>3. CASE state_q = "ROW_ACTIVE"
          <6>1. RefreshSeen + TRCD + 1 + TRP <= Deadline
            BY <4>1, <5>3 DEF WithinAll
          <6>2. RefreshSeen + (TRCD + 1 + TRP) <= Deadline
            BY <3>1, <3>2, <6>1
          <6> QED BY <3>2, <6>2
        <5>4. CASE state_q = "REF_PRE"
          BY <3>2, <4>1, <5>4 DEF WithinAll
        <5>5. CASE state_q = "REF_CMD"
          BY <3>1, <4>1, <5>5 DEF WithinAll
        <5> QED BY <3>3, <5>1, <5>2, <5>3, <5>4, <5>5
      <4>3. Deadline \in Nat
        BY <3>2
      <4> QED BY <3>1, <4>2, <4>3
    <3>5. CASE ~refresh_due_q /\ ready
      <4>1. RefreshSeen + timer_q <= RefreshCycles + TRFC + 3
        BY <3>5 DEF RefreshKept
      <4> QED BY <3>1, <3>2, <4>1
    <3>6. CASE ~refresh_due_q /\ ~ready
      <4>1. state_q = "RUN"
        BY <3>3, <3>6 DEF RefreshKept, MachineKept
      <4>2. RefreshSeen + delay_q <= TRFC + 3
        BY <3>6, <4>1 DEF RefreshKept
      <4> QED BY <3>1, <3>2, <4>2
    <3> QED BY <3>4, <3>5, <3>6
  <2> QED BY <2>1, <2>2 DEF RefreshInTime, Deadline
<1>2. /\ state_q' = "INIT_MODE" \/ (state_q' = "INIT_REFRESH" /\ init_refresh_q' # 0) =>
           RefreshSeen' + delay_q' <= TRFC
      /\ init_done_q' /\ ~ready' => timer_q' = RefreshCycles - 1
      /\ state_q' = "RUN" /\ ~ready' => RefreshSeen' + delay_q' <= TRFC + 3
      /\ state_q' \in {"ROW_PRE", "ROW_ACTIVE"} => ready'
      /\ state_q' \in SetUp => ~InitializedSeen'
      /\ recovery_q' <= Longest
  BY RefreshSetUp
<1>3. ready' /\ ~refresh_due_q' => RefreshSeen' + timer_q' <= RefreshCycles + TRFC + 3
  BY RefreshRuns
<1> QED BY <1>1, <1>2, <1>3, RefreshDue DEF RefreshKept, Within, Deadline

-----------------------------------------------------------------------------
(* The rules of the device. *)

\* The data lines have one driver, and masks are off when data is read.
LEMMA DataIsLegal == TypeOK /\ DeviceKept /\ FlightKept /\ BeatsKept => DataLegal(pin)
<1> SUFFICES ASSUME TypeOK, DeviceKept, FlightKept, BeatsKept PROVE DataLegal(pin)
  OBVIOUS
<1>1. ~initialized /\ up_age < PowerUp => pin.dqm
  <2>1. up_age \in Nat /\ PowerUp \in Nat
    <3>1. up_age \in 1 .. MaxAge
      BY SetupTyped
    <3> QED BY <3>1, Ages, Times
  <2>2. pin.dqm \/ init_done_q
    BY DEF DeviceKept
  <2>3. init_done_q => up_age >= PowerUp
    BY DEF DeviceKept
  <2> QED BY <2>1, <2>2, <2>3
<1>2. LaunchedNow => ~pin.oe /\ ~dqm_prev2
  <2> SUFFICES ASSUME LaunchedNow PROVE ~pin.oe /\ ~dqm_prev2
    OBVIOUS
  <2>1. reads # <<>> /\ reads \in Seq(Burst)
    BY OutstandingIs DEF LaunchedNow
  <2>2. 1 \in DOMAIN reads
    BY <2>1
  <2>3. PICK k \in read_pipe_q \ {0} : TRUE
    BY <2>2 DEF BeatsKept
  <2>4. k > 0
    <3>1. read_pipe_q \subseteq ReadPipe
      BY DEF TypeOK, ControllerTypeOK
    <3>2. k \in 0 .. CAS + Half
      BY <2>3, <3>1 DEF ReadPipe
    <3> QED BY <2>3, <3>2, Times
  <2>5. ~dqm_prev2
    BY <2>3, <2>4 DEF FlightKept
  <2>6. ~pin.oe
    BY <2>3 DEF FlightKept
  <2> QED BY <2>5, <2>6
<1>3. write_second # {} => pin.oe /\ pin.cmd = Nop
  BY DEF FlightKept
<1> QED BY <1>1, <1>2, <1>3 DEF DataLegal

\* When the beats of the reads under way are over, and when there is room for the next ones.
ReadsEnd ==
  /\ read_pipe_q \subseteq {0} => Outstanding = <<>>
  /\ 0 \in read_pipe_q /\ Outstanding # <<>> => Outstanding[Len(Outstanding)].due < CAS - 1

\* A read leaves the lines before the next burst comes.
LEMMA ReadsEnding == TypeOK /\ FlightKept /\ BeatsKept => ReadsEnd
<1> SUFFICES ASSUME TypeOK, FlightKept, BeatsKept PROVE ReadsEnd
  OBVIOUS
<1>1. /\ reads \in Seq(Burst) /\ Outstanding \in Seq(Burst) /\ Len(reads) \in Nat
      /\ Len(Outstanding) = Len(reads) - One(LaunchedNow)
      /\ \A i \in 1 .. Len(Outstanding) :
           /\ i + One(LaunchedNow) \in DOMAIN reads
           /\ Outstanding[i] = reads[i + One(LaunchedNow)]
  BY OutstandingIs
<1>2. \A i \in DOMAIN reads : \E k \in read_pipe_q \ {0} : reads[i].due = CAS + reads[i].beat - 1 - k
  BY DEF BeatsKept
<1>3. ASSUME Outstanding # <<>>
      PROVE  /\ Len(Outstanding) \in 1 .. Len(Outstanding)
             /\ Len(Outstanding) + One(LaunchedNow) \in DOMAIN reads
             /\ Outstanding[Len(Outstanding)] = reads[Len(Outstanding) + One(LaunchedNow)]
  <2>1. ASSUME NEW s \in Seq(Burst), s # <<>> PROVE Len(s) \in 1 .. Len(s)
    BY <2>1
  <2>2. Len(Outstanding) \in 1 .. Len(Outstanding)
    BY <1>1, <1>3, <2>1
  <2> QED BY <1>1, <2>2
<1>4. read_pipe_q \subseteq {0} => Outstanding = <<>>
  BY <1>2, <1>3
<1>5. ASSUME 0 \in read_pipe_q, Outstanding # <<>>
      PROVE  Outstanding[Len(Outstanding)].due < CAS - 1
  <2> DEFINE i == Len(Outstanding) + One(LaunchedNow)
  <2>1. i \in DOMAIN reads /\ Outstanding[Len(Outstanding)] = reads[i]
    BY <1>3, <1>5
  <2> HIDE DEF i
  <2>2. PICK k \in read_pipe_q \ {0} : reads[i].due = CAS + reads[i].beat - 1 - k
    BY <1>2, <2>1
  <2>3. reads[i].beat \in 0 .. Half
    <3>1. reads[i] \in Burst
      BY <1>1, <2>1
    <3> QED BY <3>1 DEF Burst, Beats
  <2>4. k \in 0 .. CAS + Half /\ k # 0
    BY <2>2 DEF TypeOK, ControllerTypeOK, ReadPipe
  <2>5. Half = 1 => k # 1
    <3>1. Half = 1 => ~(0 \in read_pipe_q /\ 0 + 1 \in read_pipe_q)
      <4>1. 0 \in ReadPipe
        BY Times DEF ReadPipe
      <4> QED BY <4>1 DEF FlightKept
    <3> QED BY <1>5, <2>2, <3>1
  <2>6. Half \in {0, 1} /\ CAS \in {2, 3}
    BY Times
  <2>7. reads[i].due < CAS - 1
    BY <2>2, <2>3, <2>4, <2>5, <2>6
  <2> QED BY <2>1, <2>7
<1> QED BY <1>4, <1>5 DEF ReadsEnd

\* The rules for the command on the pins, as the edge leaves it and the device.
LegalAfter(c) ==
  /\ up_age' >= PowerUp /\ RefreshSeen >= TRFC /\ ModeSeen >= 2
  /\ \A b \in Precharged(c) :
       /\ b \in OpenedSeen => ActSeen(b) >= TRAS
       /\ WriteSeen(b) >= TWR /\ BusySeen(b) = 0
  /\ c.op = "REFRESH" =>
       /\ OpenedSeen = {} /\ PrechargedSeen /\ Outstanding' = <<>>
       /\ \A b \in Banks : PreSeen(b) >= TRP
  /\ c.op = "MODE" => OpenedSeen = {} /\ RefsSeen = 8
  /\ c.op = "ACTIVE" =>
       /\ InitializedSeen /\ c.bank \notin OpenedSeen
       /\ PreSeen(c.bank) >= TRP /\ ActSeen(c.bank) >= TRAS + TRP
  /\ c.op \in {"READ", "WRITE"} =>
       /\ InitializedSeen /\ c.bank \in OpenedSeen /\ ActSeen(c.bank) >= TRCD
       /\ IF c.op = "WRITE" THEN Outstanding' = <<>> /\ pin'.oe
          ELSE ~pin'.oe /\ (Outstanding' # <<>> => Outstanding'[Len(Outstanding')].due < CAS - 1)

\* A command is legal when what the device will have seen allows it.
LEMMA LegalSeen ==
  ASSUME TypeOK, MachineKept, NEW offer \in Offers, Clock(offer),
         Command # Nop => LegalAfter(Command),
         Command.op \in {"PRE", "ACTIVE", "READ", "WRITE"} => Command.bank \in Banks
  PROVE  CommandLegal(pin)'
<1>1. /\ pin'.cmd = Command
      /\ opened' = OpenedSeen
      /\ act_age' = [b \in Banks |-> ActSeen(b)]
      /\ pre_age' = [b \in Banks |-> PreSeen(b)]
      /\ write_age' = [b \in Banks |-> WriteSeen(b)]
      /\ read_busy' = [b \in Banks |-> BusySeen(b)]
      /\ refresh_age' = RefreshSeen /\ mode_age' = ModeSeen
      /\ init_refs' = RefsSeen
      /\ (precharged' <=> PrechargedSeen) /\ (initialized' <=> InitializedSeen)
  BY DeviceSees
<1> DEFINE c == Command
<1>2. SUFFICES ASSUME pin'.cmd # Nop
               PROVE  /\ up_age' >= PowerUp /\ refresh_age' >= TRFC /\ mode_age' >= 2
                      /\ PrechargeLegal(pin.cmd)'
                      /\ pin'.cmd.op = "REFRESH" =>
                           /\ opened' = {} /\ precharged' /\ Outstanding' = <<>>
                           /\ \A b \in Banks : pre_age'[b] >= TRP
                      /\ pin'.cmd.op = "MODE" => opened' = {} /\ init_refs' = 8
                      /\ pin'.cmd.op = "ACTIVE" =>
                           /\ initialized' /\ pin'.cmd.bank \notin opened'
                           /\ pre_age'[pin'.cmd.bank] >= TRP /\ act_age'[pin'.cmd.bank] >= TRAS + TRP
                      /\ pin'.cmd.op \in {"READ", "WRITE"} => AccessLegal(pin)'
  BY DEF CommandLegal
<1>3. c = pin'.cmd /\ LegalAfter(c)
  BY <1>1, <1>2
<1>4. c.op \in {"PRE", "ACTIVE", "READ", "WRITE"} => c.bank \in Banks
  OBVIOUS
<1> HIDE DEF c
<1>5. up_age' >= PowerUp /\ refresh_age' >= TRFC /\ mode_age' >= 2
  BY <1>1, <1>3 DEF LegalAfter
<1>6. PrechargeLegal(pin.cmd)'
  <2>1. Precharged(pin.cmd)' = Precharged(c)
    BY <1>3 DEF Precharged
  <2>2. \A b \in Precharged(c) : b \in Banks
    BY <1>4 DEF Precharged
  <2>3. \A b \in Precharged(c) : /\ b \in OpenedSeen => ActSeen(b) >= TRAS
                               /\ WriteSeen(b) >= TWR /\ BusySeen(b) = 0
    BY <1>3 DEF LegalAfter
  <2>4. \A b \in Precharged(c) : /\ b \in opened' => act_age'[b] >= TRAS
                               /\ write_age'[b] >= TWR /\ read_busy'[b] = 0
    BY <1>1, <2>2, <2>3
  <2> QED BY <2>1, <2>4 DEF PrechargeLegal
<1>7. c.op = "REFRESH" =>
        /\ opened' = {} /\ precharged' /\ Outstanding' = <<>>
        /\ \A b \in Banks : pre_age'[b] >= TRP
  BY <1>1, <1>3 DEF LegalAfter
<1>8. c.op = "MODE" => opened' = {} /\ init_refs' = 8
  BY <1>1, <1>3 DEF LegalAfter
<1>9. c.op = "ACTIVE" =>
        /\ initialized' /\ c.bank \notin opened'
        /\ pre_age'[c.bank] >= TRP /\ act_age'[c.bank] >= TRAS + TRP
  BY <1>1, <1>3, <1>4 DEF LegalAfter
<1>10. c.op \in {"READ", "WRITE"} => AccessLegal(pin)'
  <2> SUFFICES ASSUME c.op \in {"READ", "WRITE"} PROVE AccessLegal(pin)'
    OBVIOUS
  <2>1. initialized' /\ c.bank \in opened' /\ act_age'[c.bank] >= TRCD
    BY <1>1, <1>3, <1>4 DEF LegalAfter
  <2>2. IF c.op = "WRITE" THEN Outstanding' = <<>> /\ pin'.oe
        ELSE ~pin'.oe /\ (Outstanding' # <<>> => Outstanding'[Len(Outstanding')].due < CAS - 1)
    BY <1>3 DEF LegalAfter
  <2>3. AccessLegal(pin)' <=>
          /\ initialized' /\ pin'.cmd.bank \in opened' /\ act_age'[pin'.cmd.bank] >= TRCD
          /\ IF pin'.cmd.op = "WRITE" THEN Outstanding' = <<>> /\ pin'.oe
             ELSE ~pin'.oe /\ (Outstanding' # <<>> => Outstanding'[Len(Outstanding')].due < CAS - 1)
    BY DEF AccessLegal
  <2> QED BY <1>3, <2>1, <2>2, <2>3
<1> QED BY <1>3, <1>5, <1>6, <1>7, <1>8, <1>9, <1>10

\* Every command the state machine and the head give is legal.
LEMMA LegalNext ==
  ASSUME TypeOK, QueueKept, MachineKept, DeviceKept, FlightKept, OwedKept, BeatsKept, DataKept,
         NEW offer \in Offers, Clock(offer)
  PROVE  PinLegal(pin)'
<1>1. TypeOK' /\ DeviceKept' /\ FlightKept' /\ BeatsKept'
  BY TypeNext, DeviceNext, FlightNext, BeatsNext
<1>2. DataLegal(pin)'
  BY <1>1, DataIsLegal, PTL
<1>3. ReadsEnd'
  BY <1>1, ReadsEnding, PTL
<1>4. /\ read_pipe_q' \subseteq {0} => Outstanding' = <<>>
      /\ 0 \in read_pipe_q' /\ Outstanding' # <<>> => Outstanding'[Len(Outstanding')].due < CAS - 1
  BY <1>3 DEF ReadsEnd
<1>5. /\ 0 \in read_pipe_q' <=> Issue /\ ~head_we_q
      /\ \A k \in Nat : k + 1 \in read_pipe_q' <=> k \in read_pipe_q \ {CAS + Half}
      /\ read_pipe_q \subseteq 0 .. CAS + Half /\ read_pipe_q' \subseteq 0 .. CAS + Half
      /\ Half \in {0, 1} /\ CAS \in {2, 3}
  BY PipesNext, Times DEF ReadPipe
\* No read is under way that is not on the pins.
<1>6. read_pipe_q = {} => Outstanding' = <<>>
  <2> SUFFICES ASSUME read_pipe_q = {} PROVE read_pipe_q' \subseteq {0}
    BY <1>4
  <2> SUFFICES ASSUME NEW j \in read_pipe_q', j # 0 PROVE FALSE
    OBVIOUS
  <2>1. j \in 0 .. CAS + Half /\ CAS + Half \in Nat
    BY <1>5
  <2>2. j - 1 \in Nat /\ (j - 1) + 1 = j
    BY <2>1
  <2> QED BY <1>5, <2>2
<1>7. recovery_q = 0 => read_pipe_q = {}
  <2> SUFFICES ASSUME recovery_q = 0, NEW k \in read_pipe_q PROVE FALSE
    OBVIOUS
  <2>1. recovery_q >= ReadWait - k
    BY DEF FlightKept
  <2>2. ReadWait = CAS + Half + 3
    BY Times
  <2>3. k \in 0 .. CAS + Half /\ Half \in {0, 1} /\ CAS \in {2, 3}
    BY <1>5
  <2> QED BY <2>1, <2>2, <2>3
<1>8. /\ Command.op \in {"NOP", "PRE_ALL", "REFRESH", "MODE", "PRE", "ACTIVE", "READ", "WRITE"}
      /\ Command.op = "PRE_ALL" <=> Doing("INIT_PRE") \/ Doing("REF_PRE")
      /\ Command.op = "REFRESH" <=> Doing("INIT_REFRESH") \/ Doing("REF_CMD")
      /\ Command.op = "MODE" <=> Doing("INIT_MODE")
      /\ Command.op = "PRE" <=> Doing("ROW_PRE")
      /\ Command.op = "ACTIVE" <=> Doing("ROW_ACTIVE")
      /\ Command.op = "READ" <=> Issue /\ ~head_we_q
      /\ Command.op = "WRITE" <=> Issue /\ head_we_q
      /\ Command.op = "NOP" => Command = Nop
      /\ Command.op \in {"PRE", "ACTIVE", "READ", "WRITE"} => Command.bank = head_q.addr.bank
  BY CommandIs
<1>9. Issue => state_q = "RUN" /\ delay_q = 0 /\ head_q # Nothing /\ RowOpen(head_q.addr)
  BY IssueWhen
<1>10. state_q \in {"ROW_PRE", "ROW_ACTIVE"} =>
         head_q # Nothing /\ (state_q = "ROW_PRE" <=> head_q.addr.bank \in open_q)
  BY DEF MachineKept
<1>11. Command.op \in {"PRE", "ACTIVE", "READ", "WRITE"} => Command.bank \in Banks
  BY <1>8, <1>9, <1>10, Typed DEF Doing
<1>12. delay_done_q <=> delay_q = 0
  BY DEF MachineKept
<1>13. /\ delay_q \in Nat /\ recovery_q \in Nat /\ active_age_q \in Nat
       /\ TRFC \in Nat /\ TRP \in Nat /\ TRAS \in Nat /\ TRCD \in Nat /\ TWR \in Nat
  BY Typed, Times
<1>14. RefreshSeen \in Nat /\ ModeSeen \in Nat
  <2>1. RefreshSeen \in 1 .. MaxRefreshAge /\ ModeSeen \in 1 .. MaxAge
    BY SetupTyped
  <2> QED BY <2>1, Ages
<1>15. \A b \in Banks : /\ ActSeen(b) \in Nat /\ PreSeen(b) \in Nat
                        /\ WriteSeen(b) \in Nat /\ BusySeen(b) \in Nat
  <2> TAKE b \in Banks
  <2>1. /\ ActSeen(b) \in 1 .. MaxAge /\ PreSeen(b) \in 1 .. MaxAge
        /\ WriteSeen(b) \in 1 .. MaxAge /\ BusySeen(b) \in 0 .. CAS
    BY SeenTyped
  <2> QED BY <2>1, Ages, Times
<1>16. open_q = OpenedSeen
  BY DEF DeviceKept
<1>17. SUFFICES ASSUME Command # Nop PROVE LegalAfter(Command)
  BY <1>2, <1>11, LegalSeen DEF PinLegal
<1>18. delay_q = 0 /\ state_q # "POWERUP"
  BY <1>8, <1>9, <1>12, <1>17 DEF Doing
<1>19. up_age' >= PowerUp
  <2>1. init_done_q'
    <3>1. init_done_q
      BY <1>18 DEF MachineKept
    <3>2. TimerStep
      BY DEF Clock, ControllerEdge
    <3> QED BY <3>1, <3>2, TimerNext
  <2> QED BY <1>1, <2>1 DEF DeviceKept
<1>20. RefreshSeen >= TRFC /\ ModeSeen >= 2
  <2>1. RefreshSeen + delay_q >= TRFC /\ ModeSeen + delay_q >= 2
    BY DEF DeviceKept
  <2> QED BY <1>13, <1>14, <1>18, <2>1
\* Of the banks.
<1>21. \A b \in Banks : /\ b \in open_q => ActSeen(b) >= TRCD /\ ActSeen(b) + active_age_q >= TRAS
                        /\ b \notin open_q => PreSeen(b) >= TRP /\ ActSeen(b) >= TRAS + TRP
                        /\ WriteSeen(b) + recovery_q >= TWR /\ BusySeen(b) <= recovery_q
  <2> TAKE b \in Banks
  <2>1. /\ b \in open_q => ActSeen(b) + delay_q >= TRCD /\ ActSeen(b) + active_age_q >= TRAS
        /\ b \notin open_q => PreSeen(b) + delay_q >= TRP /\ ActSeen(b) + delay_q >= TRAS + TRP
        /\ WriteSeen(b) + recovery_q >= TWR /\ BusySeen(b) <= recovery_q
    BY DEF DeviceKept
  <2>2. ActSeen(b) \in Nat /\ PreSeen(b) \in Nat
    BY <1>15
  <2> QED BY <1>13, <1>18, <2>1, <2>2
<1>22. state_q # "RUN" => recovery_q = 0 /\ active_age_q = 0
  BY DEF MachineKept
<1>23. \A b \in Precharged(Command) :
         /\ b \in OpenedSeen => ActSeen(b) >= TRAS
         /\ WriteSeen(b) >= TWR /\ BusySeen(b) = 0
  <2> TAKE b \in Precharged(Command)
  <2>1. Command.op \in {"PRE_ALL", "PRE"} /\ b \in Banks
    BY <1>11 DEF Precharged
  <2>2. state_q # "RUN"
    BY <1>8, <2>1 DEF Doing
  <2>3. recovery_q = 0 /\ active_age_q = 0
    BY <1>22, <2>2
  <2>4. /\ b \in open_q => ActSeen(b) + active_age_q >= TRAS
        /\ WriteSeen(b) + recovery_q >= TWR /\ BusySeen(b) <= recovery_q
    BY <1>21, <2>1
  <2>5. ActSeen(b) \in Nat /\ WriteSeen(b) \in Nat /\ BusySeen(b) \in Nat
    BY <1>15, <2>1
  <2> QED BY <1>13, <1>16, <2>3, <2>4, <2>5
<1>24. Command.op = "REFRESH" =>
         /\ OpenedSeen = {} /\ PrechargedSeen /\ Outstanding' = <<>>
         /\ \A b \in Banks : PreSeen(b) >= TRP
  <2> SUFFICES ASSUME Command.op = "REFRESH"
               PROVE  /\ OpenedSeen = {} /\ PrechargedSeen /\ Outstanding' = <<>>
                      /\ \A b \in Banks : PreSeen(b) >= TRP
    OBVIOUS
  <2>1. state_q \in {"INIT_REFRESH", "REF_CMD"}
    BY <1>8 DEF Doing
  <2>2. open_q = {}
    BY <2>1 DEF MachineKept, SetUp
  <2>3. PrechargedSeen
    BY <2>1 DEF DeviceKept
  <2>4. Outstanding' = <<>>
    BY <1>6, <1>7, <1>22, <2>1
  <2> QED BY <1>16, <1>21, <2>2, <2>3, <2>4
<1>25. Command.op = "MODE" => OpenedSeen = {} /\ RefsSeen = 8
  <2> SUFFICES ASSUME Command.op = "MODE" PROVE OpenedSeen = {} /\ RefsSeen = 8
    OBVIOUS
  <2>1. state_q = "INIT_MODE"
    BY <1>8 DEF Doing
  <2>2. open_q = {}
    BY <2>1 DEF MachineKept, SetUp
  <2> QED BY <1>16, <2>1, <2>2 DEF DeviceKept
<1>26. Command.op = "ACTIVE" =>
         /\ InitializedSeen /\ Command.bank \notin OpenedSeen
         /\ PreSeen(Command.bank) >= TRP /\ ActSeen(Command.bank) >= TRAS + TRP
  <2> SUFFICES ASSUME Command.op = "ACTIVE"
               PROVE  /\ InitializedSeen /\ Command.bank \notin OpenedSeen
                      /\ PreSeen(Command.bank) >= TRP /\ ActSeen(Command.bank) >= TRAS + TRP
    OBVIOUS
  <2>1. state_q = "ROW_ACTIVE"
    BY <1>8 DEF Doing
  <2>2. InitializedSeen
    BY <2>1 DEF DeviceKept, SetUp
  <2>3. Command.bank \in Banks /\ Command.bank \notin open_q
    BY <1>8, <1>10, <1>11, <2>1
  <2> QED BY <1>16, <1>21, <2>2, <2>3
<1>27. Command.op \in {"READ", "WRITE"} =>
         /\ InitializedSeen /\ Command.bank \in OpenedSeen /\ ActSeen(Command.bank) >= TRCD
         /\ IF Command.op = "WRITE" THEN Outstanding' = <<>> /\ pin'.oe
            ELSE ~pin'.oe /\ (Outstanding' # <<>> => Outstanding'[Len(Outstanding')].due < CAS - 1)
  <2> SUFFICES ASSUME Command.op \in {"READ", "WRITE"}
               PROVE  /\ InitializedSeen /\ Command.bank \in OpenedSeen /\ ActSeen(Command.bank) >= TRCD
                      /\ IF Command.op = "WRITE" THEN Outstanding' = <<>> /\ pin'.oe
                         ELSE ~pin'.oe /\ (Outstanding' # <<>> => Outstanding'[Len(Outstanding')].due < CAS - 1)
    OBVIOUS
  <2>1. Issue /\ (Command.op = "WRITE" <=> head_we_q)
    BY <1>8
  <2>2. InitializedSeen
    BY <1>9, <2>1 DEF DeviceKept, SetUp
  <2>3. Command.bank \in Banks /\ Command.bank \in open_q
    BY <1>8, <1>9, <1>11, <2>1 DEF RowOpen
  <2>4. pin'.oe <=> (Issue /\ head_we_q) \/ burst_q
    BY MaskNext
  <2>5. CASE Command.op = "WRITE"
    <3>1. read_pipe_q = {}
      BY <2>1, <2>5, OneDirection
    <3> QED BY <1>6, <1>16, <1>21, <2>1, <2>2, <2>3, <2>4, <2>5, <3>1
  <2>6. CASE Command.op # "WRITE"
    <3>1. write_pipe_q = {}
      BY <2>1, <2>6, OneDirection
    <3>2. ~burst_q
      BY <3>1 DEF FlightKept
    <3>3. 0 \in read_pipe_q'
      BY <1>5, <2>1, <2>6
    <3> QED BY <1>4, <1>16, <1>21, <2>1, <2>2, <2>3, <2>4, <2>6, <3>2, <3>3
  <2> QED BY <2>5, <2>6
<1> QED BY <1>19, <1>20, <1>23, <1>24, <1>25, <1>26, <1>27 DEF LegalAfter

-----------------------------------------------------------------------------
(* The reset edge. *)

\* What the pins and the pipelines are at reset.
LEMMA Quiet ==
  ASSUME Init
  PROVE  /\ pin = [cmd |-> Nop, oe |-> FALSE, dq |-> Undef, dqm |-> TRUE]
         /\ pin.cmd = Nop /\ pin.cmd.op = "NOP" /\ ~pin.oe /\ pin.dqm
         /\ read_pipe_q = {} /\ write_pipe_q = {} /\ write_second = {} /\ reads = <<>>
         /\ ~burst_q /\ ~mem_ack /\ ~ready /\ ~initialized /\ ~precharged
         /\ state_q = "POWERUP" /\ head_q = Nothing /\ lookup_q = Nothing /\ ring = <<>> /\ owed = <<>>
         /\ open_q = {} /\ opened = {}
         /\ (init_done_q <=> PowerUp = 1)
         /\ timer_q = IF PowerUp = 1 THEN RefreshCycles - 1 ELSE PowerUp - 1
         /\ ~refresh_due_q /\ ~run_ready_q /\ delay_q = 0 /\ delay_done_q
         /\ recovery_q = 0 /\ active_age_q = 0 /\ recovered_q /\ init_refresh_q = 0
         /\ StoresSeen = {} /\ InFlight = 0
<1>1. pin = [cmd |-> Nop, oe |-> FALSE, dq |-> Undef, dqm |-> TRUE]
  BY DEF Init, ControllerInit
<1>2. pin.cmd = Nop /\ ~pin.oe /\ pin.dqm
  BY <1>1
<1>3. pin.cmd.op = "NOP"
  BY <1>2 DEF Nop
<1>4. /\ read_pipe_q = {} /\ write_pipe_q = {} /\ write_second = {} /\ reads = <<>>
      /\ ~burst_q /\ ~mem_ack /\ ~ready /\ ~initialized /\ ~precharged
      /\ state_q = "POWERUP" /\ head_q = Nothing /\ lookup_q = Nothing /\ ring = <<>> /\ owed = <<>>
      /\ open_q = {} /\ opened = {}
      /\ timer_q = IF PowerUp = 1 THEN RefreshCycles - 1 ELSE PowerUp - 1
      /\ ~refresh_due_q /\ ~run_ready_q /\ delay_q = 0 /\ delay_done_q
      /\ recovery_q = 0 /\ active_age_q = 0 /\ recovered_q /\ init_refresh_q = 0
  BY DEF Init, ControllerInit, DeviceInit
<1>5. init_done_q <=> PowerUp = 1
  <2>1. init_done_q = (PowerUp = 1)
    BY DEF Init, ControllerInit
  <2> QED BY <2>1, Zenon
<1>6. StoresSeen = {}
  BY <1>3, <1>4 DEF StoresSeen
<1>7. InFlight = 0
  <2>1. \A n \in Nat : ~Flying(n)
    BY <1>4 DEF Flying
  <2>2. ~Flying(0) /\ ~Flying(1) /\ ~Flying(2) /\ ~Flying(3) /\ ~Flying(4)
    BY <2>1
  <2> QED BY <1>4, <2>2 DEF InFlight, Ahead, One
<1> QED BY <1>1, <1>2, <1>3, <1>4, <1>5, <1>6, <1>7

\* Reset sets everything to a value of its type.
LEMMA InitTyped ==
  ASSUME Init
  PROVE  TypeOK
<1>1. PICK mem \in InitMemories : DeviceInit(mem) /\ contents = mem
  BY DEF Init
<1>2. mem \in [Addr -> Word] /\ Capacity \in Nat
  BY MemoryAssumption
<1>3. /\ MaxAge \in Nat /\ MaxAge >= 1 /\ MaxRefreshAge \in 1 .. MaxRefreshAge /\ MaxAge \in 1 .. MaxAge
      /\ 1 \in 1 .. MaxAge
  BY Ages, Times
<1>4. row \in [Banks -> Rows]
  BY <1>1 DEF DeviceInit
<1>5. Undef \in Line
  BY DEF Line
<1>6. DeviceTypeOK
  <2>1. memory \in [Addr -> Word] /\ opened \subseteq Banks
    BY <1>1, <1>2 DEF DeviceInit
  <2>2. {act_age, pre_age, write_age} \subseteq [Banks -> 1 .. MaxAge]
    BY <1>1, <1>3 DEF DeviceInit
  <2>3. read_busy \in [Banks -> 0 .. CAS]
    BY <1>1, Times DEF DeviceInit
  <2>4. {mode_age, up_age} \subseteq 1 .. MaxAge /\ refresh_age \in 1 .. MaxRefreshAge /\ init_refs \in 0 .. 8
    BY <1>1, <1>3 DEF DeviceInit
  <2>5. {precharged, initialized, dqm_prev, dqm_prev2} \subseteq BOOLEAN
    BY <1>1 DEF DeviceInit
  <2>6. reads \in Seq([due : 0 .. CAS, addr : Addr, beat : Beats])
    BY <1>1 DEF DeviceInit
  <2>7. dq_o \in Line /\ write_second \in {{}} \cup {{a} : a \in Addr}
    BY <1>1, <1>5 DEF DeviceInit
  <2> QED BY <1>4, <2>1, <2>2, <2>3, <2>4, <2>5, <2>6, <2>7 DEF DeviceTypeOK
<1>7. ControllerTypeOK
  <2>0. ControllerInit
    BY DEF Init
  <2>1. /\ ring \in Seq(Request \cup {Nothing}) /\ looked \in 0 .. 1 /\ fifo_q \in 0 .. Depth - 1
        /\ {full_q, empty_q, blocked_q} \subseteq BOOLEAN /\ pref_count_q \in 0 .. 2
        /\ lookup_q \in Request \cup {Nothing} /\ head_q \in Request \cup {Nothing}
        /\ {head_we_q, head_same_direction_q, head_hit_q, head_activated_q} \subseteq BOOLEAN
    <3>1. ring \in Seq(Request \cup {Nothing})
      BY <2>0 DEF ControllerInit
    <3>2. Depth \in Nat /\ Depth >= 2 /\ 0 \in 0 .. Depth - 1
      BY ControllerAssumption
    <3>3. looked \in 0 .. 1 /\ fifo_q \in 0 .. Depth - 1 /\ pref_count_q \in 0 .. 2
      BY <2>0, <3>2 DEF ControllerInit
    <3>4. full_q = FALSE /\ empty_q = TRUE /\ blocked_q = TRUE
      BY <2>0 DEF ControllerInit
    <3>5. lookup_q \in Request \cup {Nothing} /\ head_q \in Request \cup {Nothing}
      BY <2>0 DEF ControllerInit
    <3>6. /\ head_we_q = FALSE /\ head_same_direction_q = TRUE /\ head_hit_q = FALSE
          /\ head_activated_q = FALSE
      BY <2>0 DEF ControllerInit
    <3>7. {full_q, empty_q, blocked_q} \subseteq BOOLEAN
      BY <3>4
    <3>8. {head_we_q, head_same_direction_q, head_hit_q, head_activated_q} \subseteq BOOLEAN
      BY <3>6
    <3> QED BY <3>1, <3>3, <3>5, <3>7, <3>8
  <2>2. state_q \in States /\ init_refresh_q \in 0 .. 7 /\ delay_q \in 0 .. MaxWait
    BY <2>0, MaxWaitBounds DEF ControllerInit, States
  <2>3. timer_q \in 0 .. (IF init_done_q THEN RefreshCycles ELSE PowerUp) - 1
    <3>1. RefreshCycles \in Nat /\ RefreshCycles > 3 /\ PowerUp \in Nat /\ PowerUp > 0
      BY ControllerAssumption, Times
    <3>2. timer_q = IF PowerUp = 1 THEN RefreshCycles - 1 ELSE PowerUp - 1
      BY Quiet
    <3>3. init_done_q <=> PowerUp = 1
      BY Quiet
    <3> QED BY <3>1, <3>2, <3>3
  <2>4. recovery_q \in 0 .. WriteWait + ReadWait /\ active_age_q \in 0 .. TRAS - 1
    BY <2>0, Times DEF ControllerInit
  <2>5. {delay_done_q, init_done_q, refresh_due_q, run_ready_q, recovered_q,
         bank_safe_q, burst_q, mem_ack, ready} \subseteq BOOLEAN
    BY <2>0 DEF ControllerInit
  <2>6. open_q \subseteq Banks /\ rows_q \in [Banks -> Rows]
    BY <1>4, <2>0 DEF ControllerInit
  <2>7. read_pipe_q \subseteq ReadPipe /\ write_pipe_q \subseteq WritePipe
    BY Quiet
  <2>8. {write_high_q[1], read_low_q} \subseteq Line /\ write_high_q[2] \in BOOLEAN
    BY <1>5, <2>0 DEF ControllerInit
  <2>9. mem_rdata \in {{}} \cup {{w} : w \in [Beats -> Line]}
    BY <2>0 DEF ControllerInit
  <2>10. pin \in Pin
    <3>1. ASSUME NEW c \in Commands, NEW o \in BOOLEAN, NEW d \in Line, NEW m \in BOOLEAN
          PROVE  [cmd |-> c, oe |-> o, dq |-> d, dqm |-> m] \in Pin
      BY DEF Pin
    <3>2. Nop \in Commands
      BY DEF Commands
    <3>3. pin = [cmd |-> Nop, oe |-> FALSE, dq |-> Undef, dqm |-> TRUE]
      BY <2>0 DEF ControllerInit
    <3> QED BY <1>5, <3>1, <3>2, <3>3
  <2> QED BY <2>1, <2>2, <2>3, <2>4, <2>5, <2>6, <2>7, <2>8, <2>9, <2>10 DEF ControllerTypeOK
<1>8. owed \in Seq(Request) /\ contents \in [Addr -> Word]
  BY <1>1, <1>2 DEF Init
<1> QED BY <1>6, <1>7, <1>8 DEF TypeOK

\* Reset makes the invariant.
LEMMA InitKept ==
  ASSUME Init
  PROVE  MemInv
<1>1. PICK mem \in InitMemories : DeviceInit(mem) /\ contents = mem
  BY DEF Init
<1>2. ControllerInit
  BY DEF Init
<1>3. /\ Depth \in Nat /\ RingSize \in Nat /\ RingSize >= Depth + 4
      /\ RefreshCycles \in Nat /\ RefreshCycles > 3 /\ PowerUp \in Nat /\ PowerUp > 0
  BY ControllerAssumption, Times
<1>4. QueueKept
  <2>1. RingFits
    BY <1>2, <1>3 DEF ControllerInit, RingFits
  <2> QED BY <1>2, <2>1 DEF ControllerInit, QueueKept, One
<1>5. MachineKept
  <2>1. bank_safe_q => recovery_q = 0 /\ active_age_q = 0
    BY Quiet
  <2>2. ~init_done_q => timer_q # 0
    BY <1>3, Quiet
  <2>3. init_done_q => timer_q # 0
    BY <1>3, Quiet
  <2> QED BY <2>1, <2>2, <2>3, Quiet DEF MachineKept, SetUp
<1>6. DeviceKept
  <2>1. Activated = {} /\ Precharged(pin.cmd) = {}
    BY Quiet DEF Activated, Precharged
  <2>2. open_q = OpenedSeen
    BY <2>1, Quiet DEF OpenedSeen
  <2>3. up_age = 1
    BY <1>1 DEF DeviceInit
  <2>4. IF init_done_q THEN up_age >= PowerUp ELSE up_age + timer_q >= PowerUp
    BY <1>3, <2>3, Quiet
  <2>5. RefsSeen = 0
    BY <1>1, Quiet DEF DeviceInit, RefsSeen
  <2>6. RefreshSeen = MaxRefreshAge /\ ModeSeen = MaxAge
    BY <1>1, Quiet DEF DeviceInit, RefreshSeen, ModeSeen, Older
  <2>7. RefreshSeen + delay_q >= TRFC /\ ModeSeen + delay_q >= 2
    <3>1. delay_q = 0
      BY Quiet
    <3> QED BY <2>6, <3>1, Ages, Times
  <2>8. ASSUME NEW b \in Banks
        PROVE  /\ PreSeen(b) + delay_q >= TRP /\ ActSeen(b) + delay_q >= TRAS + TRP
               /\ WriteSeen(b) + recovery_q >= TWR
               /\ WriteSeen(b) >= TWR
               /\ BusySeen(b) <= recovery_q
    <3>1. PreSeen(b) = MaxAge /\ ActSeen(b) = MaxAge
      BY <1>1, <2>1 DEF DeviceInit, PreSeen, ActSeen, Older
    <3>2. WriteSeen(b) = MaxAge
      <4>1. StoresSeen = {}
        BY Quiet
      <4> QED BY <1>1, <4>1 DEF DeviceInit, WriteSeen, Older
    <3>3. BusySeen(b) = 0
      <4>1. pin.cmd.op = "NOP"
        BY Quiet
      <4> QED BY <1>1, <4>1 DEF DeviceInit, BusySeen, Down
    <3>4. delay_q = 0 /\ recovery_q = 0
      BY Quiet
    <3> QED BY <3>1, <3>2, <3>3, <3>4, Ages, Times
  <2>9. pin.dqm /\ state_q = "POWERUP" /\ open_q = {} /\ init_refresh_q = 0
    BY Quiet
  <2>10. \A b \in open_q : rows_q[b] = RowSeen(b)
    BY <2>9
  <2>11. /\ pin.dqm \/ init_done_q
         /\ state_q \in {"POWERUP", "INIT_PRE"} \/ PrechargedSeen
         /\ state_q \in SetUp \/ InitializedSeen
         /\ state_q = "INIT_REFRESH" => RefsSeen = init_refresh_q
         /\ state_q = "INIT_MODE" => RefsSeen = 8
         /\ state_q \in {"POWERUP", "INIT_PRE"} => RefsSeen = 0 /\ init_refresh_q = 0
         /\ open_q # {} => RefreshSeen >= TRFC /\ ModeSeen >= 2
    BY <2>5, <2>9 DEF SetUp
  <2>12. \A b \in Banks :
       /\ b \in open_q => ActSeen(b) + delay_q >= TRCD /\ ActSeen(b) + active_age_q >= TRAS
       /\ b \notin open_q => PreSeen(b) + delay_q >= TRP /\ ActSeen(b) + delay_q >= TRAS + TRP
       /\ WriteSeen(b) + recovery_q >= TWR
       /\ ~Direction => WriteSeen(b) >= TWR
       /\ BusySeen(b) <= recovery_q
    BY <2>8, <2>9
  <2> QED BY <2>2, <2>4, <2>7, <2>10, <2>11, <2>12 DEF DeviceKept
<1>7. FlightKept
  BY Quiet DEF FlightKept
<1>8. OwedKept
  BY Quiet DEF OwedKept, One
<1>9. BeatsKept
  BY Quiet DEF BeatsKept
<1>10. DataKept
  <2>1. mem_rdata = {}
    BY <1>2 DEF ControllerInit
  <2>2. Done = contents
    BY Quiet DEF Done, Acked
  <2>3. memory = contents
    BY <1>1 DEF DeviceInit
  <2>4. \A a \in Addr, h \in Beats : Settling(a, h) = memory[a][h]
    BY Quiet DEF Settling
  <2> QED BY <2>1, <2>2, <2>3, <2>4, Quiet DEF DataKept
<1>11. RefreshKept
  <2>1. ~InitializedSeen
    BY Quiet DEF InitializedSeen
  <2>2. recovery_q <= Longest
    BY Quiet, LongestBounds
  <2>3. RefreshInTime
    BY Quiet DEF RefreshInTime
  <2> QED BY <2>1, <2>2, <2>3, Quiet DEF RefreshKept, SetUp
<1>12. PinLegal(pin)
  <2>1. ~LaunchedNow
    BY Quiet DEF LaunchedNow
  <2> QED BY <2>1, Quiet DEF PinLegal, DataLegal, CommandLegal
<1> QED BY <1>4, <1>5, <1>6, <1>7, <1>8, <1>9, <1>10, <1>11, <1>12, InitTyped DEF MemInv

-----------------------------------------------------------------------------
(* The theorems. *)

\* An edge of the clock keeps it.
LEMMA EdgeKept ==
  ASSUME MemInv, NEW offer \in Offers, Clock(offer)
  PROVE  MemInv'
<1>1. /\ TypeOK /\ QueueKept /\ MachineKept /\ DeviceKept /\ FlightKept /\ OwedKept
      /\ BeatsKept /\ DataKept /\ RefreshKept
  BY DEF MemInv
<1>2. TypeOK' /\ QueueKept' /\ MachineKept'
  BY <1>1, TypeNext, QueueNext, MachineNext
<1>3. DeviceKept' /\ FlightKept' /\ OwedKept'
  BY <1>1, DeviceNext, FlightNext, OwedNext
<1>4. BeatsKept' /\ DataKept' /\ RefreshKept'
  BY <1>1, BeatsNext, DataNext, RefreshNext
<1>5. PinLegal(pin)'
  BY <1>1, LegalNext
<1> QED BY <1>2, <1>3, <1>4, <1>5 DEF MemInv

\* It is about the state alone.
LEMMA StutterKept ==
  ASSUME MemInv, UNCHANGED vars
  PROVE  MemInv'
<1>1. /\ ring' = ring /\ looked' = looked /\ fifo_q' = fifo_q /\ full_q' = full_q
      /\ empty_q' = empty_q /\ pref_count_q' = pref_count_q /\ blocked_q' = blocked_q
      /\ lookup_q' = lookup_q /\ head_q' = head_q /\ head_we_q' = head_we_q
      /\ head_same_direction_q' = head_same_direction_q /\ head_hit_q' = head_hit_q
      /\ head_activated_q' = head_activated_q
  BY DEF vars, controllerVars, admissionVars, headVars
<1>2. /\ state_q' = state_q /\ init_refresh_q' = init_refresh_q /\ delay_q' = delay_q
      /\ delay_done_q' = delay_done_q /\ init_done_q' = init_done_q /\ timer_q' = timer_q
      /\ refresh_due_q' = refresh_due_q /\ recovery_q' = recovery_q
      /\ active_age_q' = active_age_q /\ run_ready_q' = run_ready_q
      /\ recovered_q' = recovered_q /\ bank_safe_q' = bank_safe_q /\ open_q' = open_q
      /\ rows_q' = rows_q /\ ready' = ready
  BY DEF vars, controllerVars, timingVars
<1>3. /\ read_pipe_q' = read_pipe_q /\ write_pipe_q' = write_pipe_q /\ burst_q' = burst_q
      /\ write_high_q' = write_high_q /\ read_low_q' = read_low_q /\ mem_ack' = mem_ack
      /\ mem_rdata' = mem_rdata /\ pin' = pin
  BY DEF vars, controllerVars, answerVars
<1>4. /\ memory' = memory /\ opened' = opened /\ row' = row /\ act_age' = act_age
      /\ pre_age' = pre_age /\ write_age' = write_age /\ read_busy' = read_busy
      /\ refresh_age' = refresh_age /\ mode_age' = mode_age /\ up_age' = up_age
      /\ init_refs' = init_refs /\ precharged' = precharged /\ initialized' = initialized
      /\ reads' = reads /\ dq_o' = dq_o /\ write_second' = write_second
      /\ dqm_prev' = dqm_prev /\ dqm_prev2' = dqm_prev2
  BY DEF vars, deviceVars
<1>5. owed' = owed /\ contents' = contents
  BY DEF vars
<1>6. /\ TypeOK /\ QueueKept /\ MachineKept /\ DeviceKept /\ FlightKept /\ OwedKept
      /\ BeatsKept /\ DataKept /\ RefreshKept /\ PinLegal(pin)
  BY DEF MemInv
<1>7. TypeOK'
  BY <1>1, <1>2, <1>3, <1>4, <1>5, <1>6 DEF TypeOK, ControllerTypeOK, DeviceTypeOK
<1>8. QueueKept' /\ MachineKept'
  BY <1>1, <1>2, <1>6
  DEF QueueKept, RingFits, MachineKept, RowHit, RowOpen
<1>9. DeviceKept'
  BY <1>1, <1>2, <1>3, <1>4, <1>6
  DEF DeviceKept, OpenedSeen, Activated, Precharged, RowSeen, ActSeen, PreSeen, WriteSeen,
      StoresSeen, Target, BusySeen, RefreshSeen, ModeSeen, RefsSeen, PrechargedSeen,
      InitializedSeen, Older, Direction
<1>10. FlightKept'
  <2>1. Direction' <=> Direction
    BY <1>1 DEF Direction
  <2>2. FlightKept
    BY <1>6
  <2>3. /\ (read_pipe_q # {} => write_pipe_q = {} /\ ~Direction)'
        /\ (write_pipe_q # {} => Direction)'
        /\ (\A k \in read_pipe_q : recovery_q >= ReadWait - k)'
        /\ (\A k \in write_pipe_q : recovery_q >= WriteWait - k)'
    BY <1>2, <1>3, <2>1, <2>2 DEF FlightKept
  <2>4. /\ (Half = 1 => \A k \in ReadPipe : ~(k \in read_pipe_q /\ k + 1 \in read_pipe_q))'
        /\ (Half = 1 => ~(0 \in write_pipe_q /\ 1 \in write_pipe_q))'
        /\ (Half = 1 /\ (0 \in read_pipe_q \/ 0 \in write_pipe_q) => ~run_ready_q /\ ~bank_safe_q)'
    BY <1>2, <1>3, <2>2 DEF FlightKept
  <2>5. /\ (pin.cmd.op = "READ" <=> 0 \in read_pipe_q)'
        /\ (pin.cmd.op = "WRITE" <=> 0 \in write_pipe_q)'
        /\ (burst_q <=> Half = 1 /\ 0 \in write_pipe_q)'
        /\ (pin.oe <=> write_pipe_q # {})'
        /\ (write_second # {} <=> 1 \in write_pipe_q)'
        /\ (1 \in write_pipe_q => pin.cmd = Nop)'
    BY <1>3, <1>4, <2>2 DEF FlightKept
  <2>6. /\ (~ready => read_pipe_q = {} /\ write_pipe_q = {} /\ ~mem_ack)'
        /\ (pin.dqm => write_pipe_q # {} \/ head_q = Nothing)'
        /\ (\A k \in read_pipe_q : ~pin.dqm /\ ~dqm_prev /\ (k > 0 => ~dqm_prev2))'
    BY <1>1, <1>2, <1>3, <1>4, <2>2 DEF FlightKept
  <2> QED BY <2>3, <2>4, <2>5, <2>6 DEF FlightKept
<1>11. \A n : Ahead(n)' = Ahead(n)
  <2>1. \A n : Flying(n)' <=> Flying(n)
    BY <1>3 DEF Flying
  <2> QED BY <1>3, <2>1 DEF Ahead, One
<1>12. \A k : Reader(k)' = Reader(k) /\ Writer(k)' = Writer(k)
  BY <1>5, <1>11 DEF Reader, Writer, Flown
<1>13. OwedKept'
  <2>1. InFlight' = InFlight
    BY <1>11 DEF InFlight
  <2>2. Target(pin.cmd)' = Target(pin.cmd)
    BY <1>3, <1>4 DEF Target
  <2>3. OwedKept
    BY <1>6
  <2>4. /\ (Len(owed) = InFlight + One(head_q # Nothing) + Len(ring))'
        /\ (head_q # Nothing => owed[InFlight + 1] = head_q)'
        /\ (\A i \in DOMAIN ring : owed[InFlight + One(head_q # Nothing) + i] = ring[i])'
    BY <1>1, <1>5, <2>1, <2>3 DEF OwedKept
  <2>5. /\ (\A k \in read_pipe_q : ~Reader(k).we)'
        /\ (\A k \in write_pipe_q : Writer(k).we)'
        /\ (0 \in read_pipe_q => Target(pin.cmd) = Reader(0).addr)'
        /\ (0 \in write_pipe_q => Target(pin.cmd) = Writer(0).addr)'
        /\ (1 \in write_pipe_q => write_second = {Writer(1).addr})'
    BY <1>3, <1>4, <1>12, <2>2, <2>3 DEF OwedKept
  <2> QED BY <2>4, <2>5 DEF OwedKept
<1>14. BeatsKept'
  <2>1. BeatsKept
    BY <1>6
  <2>2. /\ (\A i, j \in DOMAIN reads : i < j => reads[i].due < reads[j].due)'
        /\ (\A i \in DOMAIN reads : \E k \in read_pipe_q \ {0} :
             reads[i].due = CAS + reads[i].beat - 1 - k)'
    BY <1>3, <1>4, <2>1 DEF BeatsKept
  <2>3. (\A k \in read_pipe_q \ {0}, h \in Beats : k < CAS + h =>
          \E i \in DOMAIN reads :
            reads[i] = [due |-> CAS + h - 1 - k, addr |-> Reader(k).addr, beat |-> h])'
    BY <1>3, <1>4, <1>12, <2>1 DEF BeatsKept
  <2>4. (\A k \in read_pipe_q, h \in Beats : k = CAS + h => dq_o = memory[Reader(k).addr][h])'
    BY <1>3, <1>4, <1>12, <2>1 DEF BeatsKept
  <2>5. (\A k \in read_pipe_q : Half = 1 /\ k = CAS + 1 => read_low_q = memory[Reader(k).addr][0])'
    BY <1>3, <1>4, <1>12, <2>1 DEF BeatsKept
  <2> QED BY <2>2, <2>3, <2>4, <2>5 DEF BeatsKept
<1>15. DataKept'
  BY <1>3, <1>4, <1>5, <1>6 DEF DataKept, Settling, StoresSeen, Target, Done, Acked, Stored
<1>16. RefreshKept'
  BY <1>2, <1>3, <1>4, <1>6
  DEF RefreshKept, Within, RefreshSeen, InitializedSeen, RefreshInTime
<1>17. PinLegal(pin)'
  BY <1>3, <1>4, <1>6
  DEF PinLegal, DataLegal, CommandLegal, PrechargeLegal, AccessLegal, Precharged,
      LaunchedNow, Outstanding
<1> QED BY <1>7, <1>8, <1>9, <1>10, <1>13, <1>14, <1>15, <1>16, <1>17 DEF MemInv

\* Nothing is lost, late or misread: the queue, its timing, the device and what is owed agree.
THEOREM MemoryInvariant == Spec => []MemInv
<1>1. Init => MemInv
  BY InitKept
<1>2. MemInv /\ [Next]_vars => MemInv'
  <2> SUFFICES ASSUME MemInv, [Next]_vars PROVE MemInv'
    OBVIOUS
  <2>1. CASE Next
    <3>1. PICK offer \in Offers : Clock(offer)
      BY <2>1 DEF Next, Offers
    <3> QED BY <3>1, EdgeKept
  <2>2. CASE UNCHANGED vars
    BY <2>2, StutterKept
  <2> QED BY <2>1, <2>2
<1> QED BY <1>1, <1>2, PTL DEF Spec

\* Accepted commands are never overwritten in the ring, and no refresh is later than its slack.
THEOREM ControllerStays == Spec => []ControllerKept
<1>1. MemInv => ControllerKept
  BY DEF MemInv, ControllerKept, QueueKept, RefreshKept
<1> QED BY <1>1, MemoryInvariant, PTL

\* No command and no data line breaks a rule that the device model checks.
THEOREM DeviceObeyed == Spec => []DeviceRespected
<1>1. MemInv => DeviceRespected
  BY DEF MemInv, DeviceRespected
<1> QED BY <1>1, MemoryInvariant, PTL

-----------------------------------------------------------------------------
(* The port. *)

OwedBounded == Len(owed) \in Nat /\ Len(owed) <= Capacity /\ (mem_ack => owed # <<>>)

\* No more is owed than the port may hold, and an answer is of something owed.
LEMMA OwedFits == MemInv => OwedBounded
<1> SUFFICES ASSUME MemInv PROVE OwedBounded
  OBVIOUS
<1>1. TypeOK /\ QueueKept /\ FlightKept /\ OwedKept
  BY DEF MemInv
<1>2. /\ Half \in {0, 1} /\ CAS \in {2, 3} /\ Depth \in Nat
      /\ Capacity \in Nat /\ Capacity >= Depth + CAS + 6
  BY Times, ControllerAssumption, MemoryAssumption
<1>3. /\ One(mem_ack) \in {0, 1} /\ (mem_ack => One(mem_ack) = 1)
      /\ \A n \in 0 .. 4 : One(Flying(n)) \in {0, 1} /\ (~Flying(n) => One(Flying(n)) = 0)
  BY DEF One
<1> DEFINE F(n) == One(Flying(n))
<1>4. /\ F(0) \in {0, 1} /\ F(1) \in {0, 1} /\ F(2) \in {0, 1} /\ F(3) \in {0, 1} /\ F(4) \in {0, 1}
      /\ (~Flying(0) => F(0) = 0) /\ (~Flying(1) => F(1) = 0) /\ (~Flying(2) => F(2) = 0)
      /\ (~Flying(3) => F(3) = 0) /\ (~Flying(4) => F(4) = 0)
  BY <1>3
<1>5. InFlight = One(mem_ack) + F(0) + F(1) + F(2) + F(3) + F(4)
  BY DEF InFlight, Ahead
<1>6. F(0) + F(1) + F(2) + F(3) + F(4) <= CAS + 1
  <2>1. ASSUME NEW n \in 0 .. 4, Flying(n)
        PROVE  n <= CAS + Half
    BY <1>2, <2>1 DEF Flying
  <2>2. CASE Half = 0
    <3>1. ~Flying(4) /\ (CAS = 2 => ~Flying(3))
      BY <1>2, <2>1, <2>2
    <3> HIDE DEF F
    <3> QED BY <1>2, <1>4, <3>1
  <2>3. CASE Half = 1
    <3>1. ASSUME NEW n \in 0 .. 3, Flying(n), Flying(n + 1)
          PROVE  n = 0 /\ write_pipe_q # {} /\ read_pipe_q = {}
      <4>1. CASE write_pipe_q = {}
        <5>1. CAS + 1 - n \in read_pipe_q /\ CAS + 1 - (n + 1) \in read_pipe_q
          BY <2>3, <3>1, <4>1 DEF Flying
        <5>2. \A k \in ReadPipe : ~(k \in read_pipe_q /\ k + 1 \in read_pipe_q)
          BY <1>1, <2>3 DEF FlightKept
        <5>3. read_pipe_q \subseteq ReadPipe
          BY <1>1 DEF TypeOK, ControllerTypeOK
        <5>4. CAS + 1 - n = (CAS + 1 - (n + 1)) + 1
          BY <1>2
        <5> QED BY <5>1, <5>2, <5>3, <5>4
      <4>2. CASE write_pipe_q # {}
        <5>1. read_pipe_q = {}
          BY <1>1, <4>2 DEF FlightKept
        <5>2. n + 1 <= 1
          BY <2>3, <3>1, <5>1 DEF Flying
        <5> QED BY <4>2, <5>1, <5>2
      <4> QED BY <4>1, <4>2
    <3>2. CASE read_pipe_q = {}
      <4>1. ~Flying(2) /\ ~Flying(3) /\ ~Flying(4)
        BY <2>3, <3>2 DEF Flying
      <4> HIDE DEF F
      <4> QED BY <1>2, <1>4, <4>1
    <3>3. CASE read_pipe_q # {}
      <4>1. /\ ~(Flying(0) /\ Flying(1)) /\ ~(Flying(1) /\ Flying(2)) /\ ~(Flying(2) /\ Flying(3))
            /\ ~(Flying(3) /\ Flying(4))
        <5>1. ASSUME NEW n \in 0 .. 3 PROVE ~(Flying(n) /\ Flying(n + 1))
          BY <3>1, <3>3
        <5>2. 0 + 1 = 1 /\ 1 + 1 = 2 /\ 2 + 1 = 3 /\ 3 + 1 = 4
          OBVIOUS
        <5> QED BY <5>1, <5>2
      <4>2. CAS = 2 => ~Flying(4)
        BY <1>2, <2>1, <2>3
      <4> HIDE DEF F
      <4> QED BY <1>2, <1>4, <4>1, <4>2
    <3> QED BY <3>2, <3>3
  <2> QED BY <1>2, <2>2, <2>3
<1>7. Len(ring) \in Nat /\ Len(ring) <= Depth + 3
  <2>1. /\ Len(ring) = looked + pref_count_q + (IF full_q THEN Depth ELSE fifo_q)
        /\ looked \in 0 .. 1 /\ pref_count_q \in 0 .. 2 /\ fifo_q \in 0 .. Depth - 1
    BY <1>1 DEF QueueKept, RingFits, TypeOK, ControllerTypeOK
  <2> QED BY <1>2, <2>1
<1>8. /\ Len(owed) = InFlight + One(head_q # Nothing) + Len(ring)
      /\ One(head_q # Nothing) \in {0, 1}
  BY <1>1 DEF OwedKept, One
<1>9. Len(owed) \in Nat /\ Len(owed) <= Capacity /\ (mem_ack => Len(owed) > 0)
  <2>1. ASSUME NEW m \in Nat, NEW a \in Nat, NEW b \in Nat, NEW c \in Nat, NEW d \in Nat, NEW e \in Nat,
               NEW l \in Nat, m <= 1, a + b + c + d + e <= l + 1
        PROVE  /\ m + a + b + c + d + e \in Nat /\ m + a + b + c + d + e >= m
               /\ m + a + b + c + d + e <= l + 2
    BY <2>1
  <2>2. /\ F(0) \in Nat /\ F(1) \in Nat /\ F(2) \in Nat /\ F(3) \in Nat /\ F(4) \in Nat
        /\ CAS \in Nat /\ One(mem_ack) \in Nat /\ One(mem_ack) <= 1
    BY <1>2, <1>3, <1>4
  <2>3. InFlight \in Nat /\ InFlight >= One(mem_ack) /\ InFlight <= CAS + 2
    <3> HIDE DEF F
    <3> QED BY <1>5, <1>6, <2>1, <2>2
  <2> QED BY <1>2, <1>3, <1>7, <1>8, <2>3
<1> QED BY <1>9 DEF OwedBounded

\* An edge of the clock is an edge of the port: what is owed and what memory holds move with
\* the answers, and a ready controller that stalls owes something.
LEMMA PortEdge ==
  ASSUME MemInv, NEW offer \in Offers, Clock(offer)
  PROVE  Port!Edge(offer)
<1>1. /\ TypeOK /\ QueueKept /\ MachineKept /\ FlightKept /\ OwedKept /\ BeatsKept /\ DataKept
  BY DEF MemInv
<1>2. OwedBounded /\ OwedBounded'
  <2>1. MemInv'
    BY EdgeKept
  <2> QED BY <2>1, OwedFits, PTL
<1>3. /\ (IF mem_ack THEN mem_rdata ELSE Nothing) # Nothing <=> mem_ack
      /\ (IF mem_ack' THEN mem_rdata' ELSE Nothing) = Nothing <=> ~mem_ack'
  <2>1. /\ mem_rdata \in {{}} \cup {{w} : w \in [Beats -> Line]}
        /\ mem_rdata' \in {{}} \cup {{w} : w \in [Beats -> Line]}
    BY <1>1, AnswersTyped DEF TypeOK, ControllerTypeOK
  <2> QED BY <2>1, MemoryAssumption
<1>4. /\ owed \in Seq(Request) /\ owed' = IF Accept(offer) THEN Answered \o offer ELSE Answered
      /\ contents' = IF mem_ack /\ owed # <<>> THEN Stored(contents, owed[1]) ELSE contents
  BY <1>1 DEF Clock, TypeOK
<1>5. owed' = (IF mem_ack THEN Tail(owed) ELSE owed) \o (IF blocked_q THEN <<>> ELSE offer)
  <2>1. Answered \in Seq(Request)
    BY <1>2, <1>4 DEF Answered, OwedBounded
  <2>2. Answered \o <<>> = Answered
    BY <2>1
  <2> QED BY <1>4, <2>2 DEF Accept, Answered
<1>6. contents' = IF mem_ack THEN Port!Effect(contents, owed[1]) ELSE contents
  BY <1>2, <1>4 DEF OwedBounded, Stored, Port!Effect
<1>7. mem_ack' => owed' # <<>> /\ mem_rdata' = Port!Answer(contents', owed'[1])
  <2>1. mem_rdata' = IF mem_ack' /\ ~owed'[1].we THEN {contents'[owed'[1].addr]} ELSE {}
    BY <1>1, AnswerRight
  <2> QED BY <1>2, <2>1 DEF OwedBounded, Port!Answer
<1>8. ready' \in {ready, TRUE}
  BY <1>1 DEF Clock, ControllerEdge, MachineStep, TypeOK, ControllerTypeOK
<1>9. blocked_q' => ~ready \/ owed' # <<>>
  <2> SUFFICES ASSUME blocked_q', ready PROVE owed' # <<>>
    OBVIOUS
  <2>1. CASE Len(ring) > 0
    <3>1. Len(owed) > One(mem_ack)
      <4>1. InFlight \in Nat /\ InFlight >= One(mem_ack)
        BY <1>1, AheadNext
      <4>2. Len(owed) = InFlight + One(head_q # Nothing) + Len(ring)
        BY <1>1 DEF OwedKept
      <4>3. One(head_q # Nothing) \in {0, 1} /\ One(mem_ack) \in {0, 1} /\ Len(ring) \in Nat
        BY <1>1 DEF One, QueueKept
      <4> QED BY <2>1, <4>1, <4>2, <4>3
    <3>2. Len(owed') = Len(owed) - One(mem_ack) + One(Accept(offer)) /\ Len(owed) \in Nat
      BY <1>1, OwedMoves
    <3>3. One(Accept(offer)) \in {0, 1} /\ One(mem_ack) \in {0, 1}
      BY DEF One
    <3>4. Len(owed') > 0
      BY <3>1, <3>2, <3>3
    <3> QED BY <3>4
  <2>2. CASE Len(ring) = 0
    <3>1. /\ Len(ring) = looked + pref_count_q + (IF full_q THEN Depth ELSE fifo_q)
          /\ looked \in 0 .. 1 /\ pref_count_q \in 0 .. 2 /\ fifo_q \in 0 .. Depth - 1
      BY <1>1 DEF QueueKept, RingFits, TypeOK, ControllerTypeOK
    <3>2. Depth \in Nat /\ Depth >= 2
      BY ControllerAssumption
    <3>3. fifo_q = 0 /\ ~full_q
      BY <2>2, <3>1, <3>2
    <3>4. ~LastFree
      BY <3>2, <3>3 DEF LastFree
    <3>5. blocked_q' = (~ready \/ (~Pop /\ (full_q \/ (offer # <<>> /\ LastFree))))
      BY DEF Clock, ControllerEdge, AdmissionStep, Stall
    <3>6. ~ready
      BY <3>3, <3>4, <3>5
    <3> QED BY <3>6
  <2>3. Len(ring) \in Nat
    BY <1>1 DEF QueueKept
  <2> QED BY <2>1, <2>2, <2>3
<1>10. Len(owed') <= Capacity
  BY <1>2 DEF OwedBounded
<1> QED BY <1>3, <1>5, <1>6, <1>7, <1>8, <1>9, <1>10, Zenon DEF Port!Edge

\* Whatever rows are opened, closed and refreshed on the way, the bus sees a queue in front
\* of one memory, as SdramPort specifies it.
THEOREM QueueImplemented == Spec => ImplementsPort
<1>1. Init => Port!Init
  <2> SUFFICES ASSUME Init PROVE Port!Init
    OBVIOUS
  <2>1. contents \in [Addr -> Word]
    BY InitTyped DEF TypeOK
  <2>2. owed = <<>> /\ ready = FALSE /\ blocked_q = TRUE /\ mem_ack = FALSE
    BY DEF Init, ControllerInit
  <2> QED BY <2>1, <2>2 DEF Port!Init
<1>2. MemInv /\ [Next]_vars => [Port!Next]_(Port!portVars)
  <2> SUFFICES ASSUME MemInv, [Next]_vars PROVE [Port!Next]_(Port!portVars)
    OBVIOUS
  <2>1. CASE Next
    <3>1. PICK offer \in Offers : Clock(offer)
      BY <2>1 DEF Next, Offers
    <3>2. Port!Edge(offer)
      BY <3>1, PortEdge
    <3> QED BY <3>2 DEF Port!Next, Offers
  <2>2. CASE UNCHANGED vars
    BY <2>2 DEF vars, controllerVars, admissionVars, timingVars, answerVars, Port!portVars
  <2> QED BY <2>1, <2>2
<1> QED BY <1>1, <1>2, MemoryInvariant, PTL DEF Spec, ImplementsPort, Port!Spec

=============================================================================
