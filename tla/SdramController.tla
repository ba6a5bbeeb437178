--------------------------- MODULE SdramController ---------------------------
(***************************************************************************)
(* The SDRAM controller (riscc_sdram, boards/shared/rtl/riscc_sdram.v):    *)
(* a request queue, a look-ahead of one command, a bank and refresh state  *)
(* machine, and the pipelines that time its answers.  The device it drives *)
(* is SdramDevice; both see the same clock edges (PIN_PIPELINE and         *)
(* READ_DELAY are 0).                                                      *)
(*                                                                         *)
(* Accepted commands wait in a RAM ring that two pointers read: the look-up*)
(* takes addresses, the head takes payloads.  Here the ring is the         *)
(* sequence of what the head has not taken yet, and RingFits says that the *)
(* pointers never wrap onto it.  Its free tail is rewritten on every edge  *)
(* with whatever the bus shows.                                            *)
(***************************************************************************)
EXTENDS SdramDevice

CONSTANTS
  Depth,          \* 1 << FIFO_BITS
  RingSize,       \* 1 << PAYLOAD_BITS, $clog2(DEPTH + 4)
  RefreshCycles,  \* REFRESH_CYCLES
  Requests,       \* the commands offered on the bus
  InitMemories,
  Nothing         \* an empty look-up, head or pipeline

Request == [addr : Addr, we : BOOLEAN, data : Word, mask : SUBSET Beats]

ASSUME ControllerAssumption ==
  /\ Depth \in Nat /\ Depth >= 2
  /\ RingSize \in Nat /\ RingSize >= Depth + 4
  /\ RefreshCycles \in Nat /\ RefreshCycles > 3
  /\ Requests \subseteq Request
  /\ Nothing \notin Request

States == {"POWERUP", "INIT_PRE", "INIT_REFRESH", "INIT_MODE", "RUN",
           "REF_PRE", "REF_CMD", "ROW_PRE", "ROW_ACTIVE"}

VARIABLES
  \* admission
  ring,              \* request_mem and payload, from payload_head_q on
  looked,            \* request_lookup_q - payload_head_q
  fifo_q,            \* payload_wr_q - rd_q, in FIFO_BITS bits
  full_q, empty_q, pref_count_q, blocked_q,
  lookup_q,          \* lookup_addr_q and lookup_we_q, or Nothing
  head_q,            \* head_addr_q, head_data_q and head_mask_q, or Nothing
  head_we_q, head_same_direction_q,
  head_hit_q,        \* head_open_q and every slice of head_hit_q
  head_activated_q,
  \* timing
  state_q, init_refresh_q, delay_q, delay_done_q, init_done_q, timer_q,
  refresh_due_q, recovery_q, active_age_q, run_ready_q, recovered_q, bank_safe_q,
  open_q, rows_q,
  \* answers
  read_pipe_q, write_pipe_q, burst_q, write_high_q, read_low_q,
  mem_ack, mem_rdata, ready,
  pin                \* command_q, sd_addr, sd_ba, sd_dq_o, sd_dq_oe, sd_dqm

admissionVars == <<ring, looked, fifo_q, full_q, empty_q, pref_count_q, blocked_q>>
headVars == <<lookup_q, head_q, head_we_q, head_same_direction_q, head_hit_q,
              head_activated_q>>
timingVars == <<state_q, init_refresh_q, delay_q, delay_done_q, init_done_q,
                timer_q, refresh_due_q, recovery_q, active_age_q, run_ready_q,
                recovered_q, bank_safe_q, open_q, rows_q, ready>>
answerVars == <<read_pipe_q, write_pipe_q, burst_q, write_high_q, read_low_q,
                mem_ack, mem_rdata, pin>>
controllerVars == <<admissionVars, headVars, timingVars, answerVars>>

WriteWait == TWR + Half + 1
ReadWait == CAS + Half + 3
MaxWait == CHOOSE m \in {TRP, TRFC, TRCD, 3} : \A t \in {TRP, TRFC, TRCD, 3} : t <= m
ReadPipe == 0 .. CAS + Half
WritePipe == 0 .. Half

ControllerTypeOK ==
  /\ ring \in Seq(Request \cup {Nothing})
  /\ looked \in 0 .. 1
  /\ fifo_q \in 0 .. Depth - 1
  /\ {full_q, empty_q, blocked_q} \subseteq BOOLEAN
  /\ pref_count_q \in 0 .. 2
  /\ lookup_q \in Request \cup {Nothing}
  /\ head_q \in Request \cup {Nothing}
  /\ {head_we_q, head_same_direction_q, head_hit_q, head_activated_q} \subseteq BOOLEAN
  /\ state_q \in States
  /\ init_refresh_q \in 0 .. 7
  /\ delay_q \in 0 .. MaxWait
  /\ timer_q \in 0 .. (IF init_done_q THEN RefreshCycles ELSE PowerUp) - 1
  /\ recovery_q \in 0 .. WriteWait + ReadWait
  /\ active_age_q \in 0 .. TRAS - 1
  /\ {delay_done_q, init_done_q, refresh_due_q, run_ready_q, recovered_q,
      bank_safe_q, burst_q, mem_ack, ready} \subseteq BOOLEAN
  /\ open_q \subseteq Banks
  /\ rows_q \in [Banks -> Rows]
  /\ read_pipe_q \subseteq ReadPipe /\ write_pipe_q \subseteq WritePipe
  /\ {write_high_q[1], read_low_q} \subseteq Line /\ write_high_q[2] \in BOOLEAN
  /\ mem_rdata \in {{}} \cup {{w} : w \in [Beats -> Line]}
  /\ pin \in Pin

-----------------------------------------------------------------------------
(* Admission: accepted commands, credits, backpressure. *)

\* Mutant: the activation does not count for the head that asked for it.
HitWhenLoaded == head_q # Nothing /\ head_hit_q
RowHit == head_q # Nothing /\ (head_activated_q \/ head_hit_q)
DirectionOk == head_same_direction_q \/ recovered_q
Issue == run_ready_q /\ RowHit /\ DirectionOk
LoadHead == (head_q = Nothing \/ Issue) /\ lookup_q # Nothing
LoadLookup == (lookup_q = Nothing \/ head_q = Nothing \/ Issue) /\ pref_count_q # 0
\* Mutant: a third credit for two slots.
PopAny == ~empty_q
Pop == pref_count_q < 2 /\ ~empty_q
Accept(offer) == offer # <<>> /\ ~blocked_q
LastFree == (fifo_q + 1) % Depth = 0
LastUsed == fifo_q = 1

One(b) == IF b THEN 1 ELSE 0

RingStep(offer) ==
  LET stored == IF full_q THEN <<Nothing>> ELSE offer
  IN  /\ ring' = (IF LoadHead THEN Tail(ring) ELSE ring)
                 \o (IF Accept(offer) THEN stored ELSE <<>>)
      /\ looked' = looked + One(LoadLookup) - One(LoadHead)

\* With one slot left, a ready controller accepts the command on offer and
\* stalls from then on.
\* Mutant: it notices one command late.
Stalled(offer) == ~ready \/ (~Pop /\ full_q)
Stall(offer) == ~ready \/ (~Pop /\ (full_q \/ (offer # <<>> /\ LastFree)))

AdmissionStep(offer) ==
  /\ fifo_q' = (fifo_q + One(Accept(offer)) + Depth - One(Pop)) % Depth
  /\ full_q' = (~Pop /\ (full_q \/ (Accept(offer) /\ LastFree)))
  /\ empty_q' = (~Accept(offer) /\ (empty_q \/ (Pop /\ LastUsed)))
  /\ pref_count_q' = pref_count_q + One(Pop) - One(LoadLookup)
  /\ blocked_q' = Stall(offer)

\* The state machine acts in a state only when its delay has passed.
Doing(s) == delay_done_q /\ state_q = s

\* Mutant: an open bank is taken for the wanted row.
AnyRowOpen(a) == a.bank \in open_q
RowOpen(a) == a.bank \in open_q /\ rows_q[a.bank] = a.row

HeadStep ==
  /\ lookup_q' = IF LoadLookup THEN ring[looked + 1]
                 ELSE IF LoadHead THEN Nothing ELSE lookup_q
  /\ head_q' = IF LoadHead THEN [lookup_q EXCEPT !.data = ring[1].data, !.mask = ring[1].mask]
               ELSE IF Issue THEN Nothing ELSE head_q
  /\ head_we_q' = IF LoadHead THEN lookup_q.we ELSE head_we_q
  /\ head_same_direction_q' = IF LoadHead THEN lookup_q.we = head_we_q
                              ELSE head_same_direction_q
  /\ head_hit_q' =
       IF Doing("REF_PRE") THEN FALSE
       ELSE IF LoadHead THEN RowOpen(lookup_q.addr)
       ELSE head_hit_q
  /\ head_activated_q' =
       CASE Doing("REF_PRE") -> FALSE
         [] Doing("ROW_ACTIVE") -> TRUE
         [] OTHER -> head_activated_q /\ ~LoadHead

-----------------------------------------------------------------------------
(* Timing. *)

Waits == [INIT_PRE |-> TRP - 1, INIT_REFRESH |-> TRFC - 1, INIT_MODE |-> 2,
          ROW_PRE |-> TRP - 1, ROW_ACTIVE |-> TRCD - 1,
          REF_PRE |-> TRP - 1, REF_CMD |-> TRFC - 1]
Down(n) == IF n = 0 THEN 0 ELSE n - 1

DelayStep ==
  IF delay_done_q /\ state_q \in DOMAIN Waits
  THEN delay_q' = Waits[state_q] /\ delay_done_q' = (Waits[state_q] = 0)
  ELSE delay_q' = Down(delay_q) /\ delay_done_q' = (delay_q <= 1)

\* One timer: power-up first, then the refresh interval.
TimerStep ==
  IF Doing("REF_CMD")
  THEN timer_q' = RefreshCycles - 1 /\ refresh_due_q' = FALSE /\ UNCHANGED init_done_q
  ELSE /\ init_done_q' = (init_done_q \/ timer_q <= 1)
       /\ timer_q' = IF ~init_done_q
                     THEN IF timer_q <= 1 THEN RefreshCycles - 1 ELSE timer_q - 1
                     ELSE IF ready /\ ~refresh_due_q THEN timer_q - 1 ELSE timer_q
       /\ refresh_due_q' = IF ready THEN timer_q <= 1 ELSE refresh_due_q

\* A row miss starts a precharge or an activation, unless a refresh is due.
Miss == Doing("RUN") /\ ~refresh_due_q /\ head_q # Nothing /\ ~RowHit /\ bank_safe_q

\* Row hits may be issued: not while a delay, a miss or a burst's second beat
\* is under way, and no longer when the refresh timer has run down.
\* Mutant: row hits go on before the refresh.
RunOn ==
  CASE Miss -> FALSE
    [] Doing("ROW_ACTIVE") -> TRCD = 1
    [] OTHER -> state_q = "RUN" /\ delay_q <= 1 /\ ~(Issue /\ Half = 1)
RunReady ==
  CASE Miss -> FALSE
    [] Doing("ROW_ACTIVE") -> TRCD = 1 /\ timer_q > 1
    [] OTHER -> state_q = "RUN" /\ delay_q <= 1 /\ timer_q > 1 /\ ~(Issue /\ Half = 1)

\* A bank may be closed: its last burst is over and TRAS has passed.
\* Mutant: TRAS is not waited for.
BurstOver == ~Issue /\ ~Doing("ROW_ACTIVE") /\ recovery_q <= 1
BankSafe == ~Issue /\ ~Doing("ROW_ACTIVE") /\ recovery_q <= 1 /\ active_age_q <= 1

RecoveryStep ==
  /\ recovery_q' = IF Issue THEN IF head_we_q THEN WriteWait ELSE ReadWait
                   ELSE Down(recovery_q)
  /\ active_age_q' = IF Doing("ROW_ACTIVE") THEN TRAS - 1 ELSE Down(active_age_q)
  /\ recovered_q' = (~Issue /\ recovery_q <= 1)
  /\ bank_safe_q' = BankSafe
  /\ run_ready_q' = RunReady

NextState ==
  CASE state_q = "POWERUP" -> IF init_done_q THEN "INIT_PRE" ELSE "POWERUP"
    [] state_q = "INIT_PRE" -> "INIT_REFRESH"
    [] state_q = "INIT_REFRESH" -> IF init_refresh_q = 7 THEN "INIT_MODE" ELSE "INIT_REFRESH"
    [] state_q = "RUN" /\ refresh_due_q /\ bank_safe_q -> "REF_PRE"
    [] Miss -> IF head_q.addr.bank \in open_q THEN "ROW_PRE" ELSE "ROW_ACTIVE"
    [] state_q = "REF_PRE" -> "REF_CMD"
    [] OTHER -> "RUN"

MachineStep ==
  /\ state_q' = IF delay_done_q THEN NextState ELSE state_q
  /\ ready' = (ready \/ Doing("RUN"))
  /\ init_refresh_q' = (init_refresh_q + One(Doing("INIT_REFRESH"))) % 8
  /\ open_q' = CASE Doing("REF_PRE") -> {}
                 [] Doing("ROW_PRE") -> open_q \ {head_q.addr.bank}
                 [] Doing("ROW_ACTIVE") -> open_q \cup {head_q.addr.bank}
                 [] OTHER -> open_q
  /\ rows_q' = IF Doing("ROW_ACTIVE") THEN [rows_q EXCEPT ![head_q.addr.bank] = head_q.addr.row]
               ELSE rows_q

-----------------------------------------------------------------------------
(* Pins and answers. *)

Command ==
  CASE Doing("INIT_PRE") \/ Doing("REF_PRE") -> [op |-> "PRE_ALL"]
    [] Doing("INIT_REFRESH") \/ Doing("REF_CMD") -> [op |-> "REFRESH"]
    [] Doing("INIT_MODE") -> [op |-> "MODE"]
    [] Doing("ROW_PRE") -> [op |-> "PRE", bank |-> head_q.addr.bank]
    [] Doing("ROW_ACTIVE") ->
         [op |-> "ACTIVE", bank |-> head_q.addr.bank, row |-> head_q.addr.row]
    [] Issue -> [op |-> IF head_we_q THEN "WRITE" ELSE "READ",
                 bank |-> head_q.addr.bank, col |-> head_q.addr.col]
    [] OTHER -> Nop

\* Writes drive the first beat with the command and the second one after it.
PinStep ==
  LET first == Issue /\ head_we_q
  IN  /\ burst_q' = (first /\ Half = 1)
      /\ write_high_q' = IF first /\ Half = 1 THEN <<head_q.data[1], 1 \in head_q.mask>>
                         ELSE <<Undef, FALSE>>
      /\ pin' = [cmd |-> Command,
                 oe |-> first \/ burst_q,
                 dq |-> IF burst_q THEN write_high_q[1]
                        ELSE IF first THEN head_q.data[0] ELSE Undef,
                 dqm |-> \/ ~ready
                         \/ first /\ 0 \notin head_q.mask
                         \/ burst_q /\ ~write_high_q[2]]

AnswerStep ==
  /\ read_pipe_q' = {k + 1 : k \in read_pipe_q \ {CAS + Half}}
                    \cup (IF Issue /\ ~head_we_q THEN {0} ELSE {})
  /\ write_pipe_q' = {k + 1 : k \in write_pipe_q \ {Half}}
                     \cup (IF Issue /\ head_we_q THEN {0} ELSE {})
  /\ read_low_q' = IF Half = 1 /\ CAS \in read_pipe_q THEN dq_o ELSE Undef
  /\ mem_ack' = (CAS + Half \in read_pipe_q \/ Half \in write_pipe_q)
  /\ mem_rdata' = IF CAS + Half \notin read_pipe_q THEN {}
                  ELSE {[h \in Beats |-> IF h = Half THEN dq_o ELSE read_low_q]}

ControllerEdge(offer) ==
  /\ RingStep(offer) /\ AdmissionStep(offer) /\ HeadStep
  /\ DelayStep /\ TimerStep /\ RecoveryStep /\ MachineStep
  /\ PinStep /\ AnswerStep

\* The reset edge.
ControllerInit ==
  /\ ring = <<>> /\ looked = 0
  /\ fifo_q = 0 /\ full_q = FALSE /\ empty_q = TRUE
  /\ pref_count_q = 0 /\ blocked_q = TRUE
  /\ lookup_q = Nothing /\ head_q = Nothing
  /\ head_we_q = FALSE /\ head_same_direction_q = TRUE
  /\ head_hit_q = FALSE /\ head_activated_q = FALSE
  /\ state_q = "POWERUP" /\ init_refresh_q = 0
  /\ delay_q = 0 /\ delay_done_q = TRUE
  /\ init_done_q = (PowerUp = 1)
  /\ timer_q = IF PowerUp = 1 THEN RefreshCycles - 1 ELSE PowerUp - 1
  /\ refresh_due_q = FALSE
  /\ recovery_q = 0 /\ active_age_q = 0
  /\ run_ready_q = FALSE /\ recovered_q = TRUE /\ bank_safe_q = TRUE
  /\ open_q = {} /\ rows_q = row  \* not reset: any rows
  /\ read_pipe_q = {} /\ write_pipe_q = {} /\ burst_q = FALSE
  /\ write_high_q = <<Undef, FALSE>> /\ read_low_q = Undef
  /\ mem_ack = FALSE /\ mem_rdata = {} /\ ready = FALSE
  /\ pin = [cmd |-> Nop, oe |-> FALSE, dq |-> Undef, dqm |-> TRUE]
=============================================================================
