----------------------------- MODULE SdramDevice -----------------------------
(***************************************************************************)
(* An SDR SDRAM as the repository's own device model describes it          *)
(* (test/riscc_sdram_model.v): banks, open rows, command timing, read      *)
(* bursts that come CAS edges later and write bursts that start at once.   *)
(*                                                                         *)
(* The module is open: one step is one device clock edge, at which it sees *)
(* pin, a record with the command and the data lines.  PinLegal(pin) says  *)
(* that the device model raises none of its $fatal errors at that edge.    *)
(* Times that the model takes from cycle numbers are ages, counted to the  *)
(* coming edge and no further than a bound.                                *)
(***************************************************************************)
EXTENDS Integers, Sequences, FiniteSets

CONSTANTS
  Banks, Rows, Columns,
  Values,              \* what one beat holds
  Undef,               \* what undriven lines show
  Half,                \* 1: x16 device, bursts of two; 0: x32 device
  CAS, TRCD, TRP, TRFC, TRAS, TWR,
  PowerUp,             \* INIT_CYCLES
  MaxAge,              \* bound of the ages
  MaxRefreshAge        \* bound of the refresh interval

ASSUME DeviceAssumption ==
  /\ Half \in {0, 1}
  /\ CAS \in {2, 3}
  /\ {TRCD, TRP, TRFC, TRAS, TWR, PowerUp} \subseteq Nat \ {0}
  /\ \A t \in {TRCD, TRFC, TRAS + TRP, TWR, PowerUp} : t <= MaxAge
  /\ MaxAge \in Nat /\ MaxRefreshAge \in Nat /\ MaxAge < MaxRefreshAge
  /\ Undef \notin Values

Beats == 0 .. Half
Addr == [bank : Banks, row : Rows, col : Columns]
Word == [Beats -> Values]
Line == Values \cup {Undef}

\* A command on the pins, with what the data lines and DQM show beside it.
Nop == [op |-> "NOP"]
Commands == {Nop}
  \cup [op : {"PRE_ALL", "REFRESH", "MODE"}]
  \cup [op : {"PRE"}, bank : Banks]
  \cup [op : {"ACTIVE"}, bank : Banks, row : Rows]
  \cup [op : {"READ", "WRITE"}, bank : Banks, col : Columns]
Pin == [cmd : Commands, oe : BOOLEAN, dq : Line, dqm : BOOLEAN]

VARIABLES
  memory,        \* what the cells hold
  opened, row,   \* open banks and their rows
  act_age, pre_age, write_age,  \* edges since last_act, last_pre, last_write
  read_busy,     \* edges left of the bank's last read burst
  refresh_age, mode_age, up_age,
  init_refs, precharged, initialized,
  reads,         \* beats still to be launched
  dq_o,          \* the beat launched on the last edge
  write_second,  \* the address of a write burst's second beat, or {}
  dqm_prev, dqm_prev2

deviceVars == <<memory, opened, row, act_age, pre_age, write_age, read_busy,
                refresh_age, mode_age, up_age, init_refs, precharged, initialized,
                reads, dq_o, write_second, dqm_prev, dqm_prev2>>

DeviceTypeOK ==
  /\ memory \in [Addr -> Word]
  /\ opened \subseteq Banks
  /\ row \in [Banks -> Rows]
  /\ {act_age, pre_age, write_age} \subseteq [Banks -> 1 .. MaxAge]
  /\ read_busy \in [Banks -> 0 .. CAS]
  /\ {mode_age, up_age} \subseteq 1 .. MaxAge
  /\ refresh_age \in 1 .. MaxRefreshAge
  /\ init_refs \in 0 .. 8
  /\ {precharged, initialized, dqm_prev, dqm_prev2} \subseteq BOOLEAN
  /\ reads \in Seq([due : 0 .. CAS, addr : Addr, beat : Beats])
  /\ dq_o \in Line
  /\ write_second \in {{}} \cup {{a} : a \in Addr}

Older(age) == IF age = MaxAge THEN MaxAge ELSE age + 1
Target(cmd) == [bank |-> cmd.bank, row |-> row[cmd.bank], col |-> cmd.col]
Precharged(cmd) ==
  CASE cmd.op = "PRE_ALL" -> Banks
    [] cmd.op = "PRE" -> {cmd.bank}
    [] OTHER -> {}

\* Beats that are still to come after this edge.
LaunchedNow == reads # <<>> /\ reads[1].due = 0
Outstanding == IF LaunchedNow THEN Tail(reads) ELSE reads

-----------------------------------------------------------------------------
(* What the device model checks at an edge. *)

DataLegal(pin) ==
  /\ ~initialized /\ up_age < PowerUp => pin.dqm
  /\ LaunchedNow => ~pin.oe /\ ~dqm_prev2
  /\ write_second # {} => pin.oe /\ pin.cmd = Nop

PrechargeLegal(cmd) ==
  \A b \in Precharged(cmd) :
    /\ b \in opened => act_age[b] >= TRAS
    /\ write_age[b] >= TWR
    /\ read_busy[b] = 0

AccessLegal(pin) ==
  LET cmd == pin.cmd
  IN  /\ initialized /\ cmd.bank \in opened
      /\ act_age[cmd.bank] >= TRCD
      /\ IF cmd.op = "WRITE" THEN Outstanding = <<>> /\ pin.oe
         ELSE /\ ~pin.oe
              /\ Outstanding # <<>> => Outstanding[Len(Outstanding)].due < CAS - 1

CommandLegal(pin) ==
  LET cmd == pin.cmd
  IN  cmd # Nop =>
        /\ up_age >= PowerUp /\ refresh_age >= TRFC /\ mode_age >= 2
        /\ PrechargeLegal(cmd)
        /\ cmd.op = "REFRESH" =>
             /\ opened = {} /\ precharged /\ Outstanding = <<>>
             /\ \A b \in Banks : pre_age[b] >= TRP
        /\ cmd.op = "MODE" => opened = {} /\ init_refs = 8
        /\ cmd.op = "ACTIVE" =>
             /\ initialized /\ cmd.bank \notin opened
             /\ pre_age[cmd.bank] >= TRP /\ act_age[cmd.bank] >= TRAS + TRP
        /\ cmd.op \in {"READ", "WRITE"} => AccessLegal(pin)

PinLegal(pin) == DataLegal(pin) /\ CommandLegal(pin)

-----------------------------------------------------------------------------
(* The edge. *)

\* A beat is stored in one half of a word unless DQM masks it.
StoreStep(pin) ==
  LET cmd == pin.cmd
      stores == {<<a, 1>> : a \in write_second}
                \cup (IF cmd.op = "WRITE" THEN {<<Target(cmd), 0>>} ELSE {})
  IN  /\ memory' = IF pin.dqm THEN memory
                   ELSE [a \in Addr |-> [h \in Beats |->
                           IF <<a, h>> \in stores THEN pin.dq ELSE memory[a][h]]]
      /\ write_second' = IF cmd.op = "WRITE" /\ Half = 1 THEN {Target(cmd)} ELSE {}
      /\ write_age' = [b \in Banks |->
           IF \E s \in stores : s[1].bank = b THEN 1 ELSE Older(write_age[b])]

LaunchStep(pin) ==
  LET cmd == pin.cmd
      coming == [k \in 1 .. Len(Outstanding) |->
                   [Outstanding[k] EXCEPT !.due = @ - 1]]
      burst == [k \in 1 .. Half + 1 |->
                  [due |-> CAS - 3 + k, addr |-> Target(cmd), beat |-> k - 1]]
  IN  /\ dq_o' = IF LaunchedNow THEN memory[reads[1].addr][reads[1].beat] ELSE Undef
      /\ reads' = IF cmd.op = "READ" THEN coming \o burst ELSE coming
      /\ read_busy' = [b \in Banks |->
           IF cmd.op = "READ" /\ cmd.bank = b THEN CAS + Half - 1
           ELSE IF read_busy[b] = 0 THEN 0 ELSE read_busy[b] - 1]

BankStep(pin) ==
  LET cmd == pin.cmd
      opens == IF cmd.op = "ACTIVE" THEN {cmd.bank} ELSE {}
  IN  /\ opened' = (opened \ Precharged(cmd)) \cup opens
      /\ row' = [b \in Banks |-> IF b \in opens THEN cmd.row ELSE row[b]]
      /\ act_age' = [b \in Banks |-> IF b \in opens THEN 1 ELSE Older(act_age[b])]
      /\ pre_age' = [b \in Banks |->
           IF b \in Precharged(cmd) THEN 1 ELSE Older(pre_age[b])]
      /\ precharged' = (precharged \/ cmd.op = "PRE_ALL")

SetupStep(pin) ==
  LET op == pin.cmd.op
  IN  /\ up_age' = Older(up_age)
      /\ refresh_age' = IF op = "REFRESH" THEN 1
                         ELSE IF refresh_age = MaxRefreshAge THEN MaxRefreshAge
                         ELSE refresh_age + 1
      /\ mode_age' = IF op = "MODE" THEN 1 ELSE Older(mode_age)
      /\ init_refs' = IF op = "REFRESH" /\ init_refs < 8 THEN init_refs + 1 ELSE init_refs
      /\ initialized' = (initialized \/ op = "MODE")

DeviceEdge(pin) ==
  /\ StoreStep(pin) /\ LaunchStep(pin) /\ BankStep(pin) /\ SetupStep(pin)
  /\ dqm_prev' = pin.dqm
  /\ dqm_prev2' = dqm_prev

DeviceInit(mem) ==
  /\ memory = mem
  /\ opened = {}
  /\ \E r \in Rows : row = [b \in Banks |-> r]
  /\ act_age = [b \in Banks |-> MaxAge]
  /\ pre_age = [b \in Banks |-> MaxAge]
  /\ write_age = [b \in Banks |-> MaxAge]
  /\ read_busy = [b \in Banks |-> 0]
  /\ refresh_age = MaxRefreshAge /\ mode_age = MaxAge /\ up_age = 1
  /\ init_refs = 0 /\ precharged = FALSE /\ initialized = FALSE
  /\ reads = <<>> /\ dq_o = Undef /\ write_second = {}
  /\ dqm_prev = FALSE /\ dqm_prev2 = FALSE
=============================================================================
