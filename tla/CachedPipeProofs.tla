--------------------------- MODULE CachedPipeProofs ---------------------------
(***************************************************************************)
(* Proofs about CachedPipe, for any programs, registers, sizes of memory   *)
(* and rows of the branch target buffer, whatever is stalled, answered     *)
(* late, predicted or interrupted:                                         *)
(*                                                                         *)
(*   PredictionsKept  the branch target buffer is true and all types hold  *)
(*   IsaImplemented   the pipeline implements the sequential machine, when *)
(*                    rewritten code is flushed before it is executed and  *)
(*                    r0 is written before a branch tests it               *)
(*   FlagsSettle      once the r0 flags agree with r0 they always do       *)
(*   IsaFromReset     so that fresh code is enough if they agree at reset, *)
(*   IsaOfPlainCode   and nothing more is asked of code that is not        *)
(*                    rewritten                                            *)
(*                                                                         *)
(* All rest on Inv, whose parts follow the pipeline: FetchInv (whose reply *)
(* the one request, or Decode, holds), ExecuteInv (Execute works on the    *)
(* instruction of its address and Fetch is where the prediction says),     *)
(* BtbInv (a row that can still be read as a hit is true) and DataInv      *)
(* (an operand is read from the slot or from a register that nothing will  *)
(* write).  The refinement takes one lemma for each way to go on.          *)
(***************************************************************************)
EXTENDS CachedPipe, Integers, TLAPS

-----------------------------------------------------------------------------
(* Addresses, rows and tags. *)

\* Address arithmetic stays among the addresses.
LEMMA PlusType == ASSUME NEW a \in Nat, NEW n \in Nat PROVE Plus(a, n) \in Pc
BY InstructionAssumption DEF Plus, Pc

\* Sums that do not leave the addresses.
LEMMA PcMod == ASSUME NEW a \in Pc PROVE a % Size = a
BY InstructionAssumption DEF Pc

\* Quotients by the number of rows keep the order of addresses.
LEMMA DivOrder ==
  ASSUME NEW n \in Nat \ {0}, NEW a \in Nat, NEW b \in Nat, a <= b
  PROVE  a \div n \in Nat /\ a \div n <= b \div n
<1> DEFINE p == a \div n  q == b \div n
<1>1. p \in Nat /\ q \in Nat /\ n * p <= a /\ a < n * p + n /\ n * q <= b /\ b < n * q + n
  OBVIOUS
<1>2. ASSUME p >= q + 1 PROVE FALSE
  <2>1. n * p >= n * (q + 1)
    BY <1>1, <1>2
  <2>2. n * (q + 1) = n * q + n
    BY <1>1
  <2> QED BY <1>1, <2>1, <2>2
<1> QED BY <1>1, <1>2

\* A number below the modulus is its own remainder.
LEMMA ModSmall == ASSUME NEW n \in Nat \ {0}, NEW a \in 0 .. n - 1 PROVE a % n = a
OBVIOUS

\* A row number wraps.
LEMMA ModRow == ASSUME NEW n \in Nat \ {0}, NEW a \in Nat PROVE a % n \in 0 .. n - 1
OBVIOUS

\* Tags and rows have the types of the branch target buffer.
LEMMA IndexType ==
  ASSUME NEW a \in Pc PROVE Tag(a) \in 0 .. Tag(Size - 1) /\ Index(a) \in Row
<1>1. a \in Nat /\ Size - 1 \in Nat /\ a <= Size - 1 /\ Rows \in Nat \ {0}
  BY InstructionAssumption, PipeAssumption DEF Pc
<1>2. Tag(a) \in Nat /\ Tag(a) <= Tag(Size - 1) /\ Tag(Size - 1) \in Nat
  BY <1>1, DivOrder DEF Tag
<1>3. (a % Rows) + Tag(a) \in Nat
  BY <1>1, <1>2
<1> QED BY <1>1, <1>2, <1>3, ModRow DEF Index, Row

\* A remainder is not changed by multiples.
LEMMA ModMultiple ==
  ASSUME NEW n \in Nat \ {0}, NEW k \in Int, NEW j \in 0 .. n - 1
  PROVE  (n * k + j) % n = j
OBVIOUS

\* Quotient and remainder.
LEMMA DivMod ==
  ASSUME NEW n \in Nat \ {0}, NEW a \in Nat
  PROVE  a \div n \in Nat /\ a % n \in 0 .. n - 1 /\ a = n * (a \div n) + (a % n)
OBVIOUS

\* Wrapping an address into its row can be undone.
LEMMA Unwrap ==
  ASSUME NEW n \in Nat \ {0}, NEW t \in Nat, NEW u \in 0 .. n - 1, NEW k \in Nat, NEW r \in Nat,
         u + t = n * k + r
  PROVE  (r + n * t - t) % n = u
<1>1. n * t \in Nat /\ n * k \in Nat /\ n * (t - k) = n * t - n * k /\ t - k \in Int
  OBVIOUS
<1>2. r + n * t - t = n * (t - k) + u
  <2> DEFINE p == n * t  q == n * k  s == n * (t - k)
  <2> HIDE DEF p, q, s
  <2>1. p \in Nat /\ q \in Nat /\ s = p - q /\ u + t = q + r
    BY <1>1 DEF p, q, s
  <2>2. r + p - t = s + u
    BY <2>1
  <2> QED BY <2>2 DEF p, s
<1> QED BY <1>1, <1>2, ModMultiple

\* The row and the tag of an address give the address back.
LEMMA RowPcIndex ==
  ASSUME NEW a \in Nat
  PROVE  Tag(a) * Rows + ((Index(a) + Rows * Tag(a) - Tag(a)) % Rows) = a
<1> DEFINE u == a % Rows  t == Tag(a)  k == (u + t) \div Rows  r == Index(a)
<1>1. Rows \in Nat \ {0} /\ t \in Nat /\ u \in 0 .. Rows - 1 /\ a = Rows * t + u
  BY PipeAssumption, DivMod DEF Tag
<1>2. u + t \in Nat
  BY <1>1
<1>3. k \in Nat /\ r \in Nat /\ u + t = Rows * k + r
  <2>1. r = (u + t) % Rows
    BY DEF Index
  <2> DEFINE z == u + t
  <2>2. z \in Nat
    BY <1>2
  <2> HIDE DEF z, r
  <2>3. z \div Rows \in Nat /\ z % Rows \in Nat /\ z = Rows * (z \div Rows) + (z % Rows)
    <3>1. Rows \in Nat \ {0}
      BY PipeAssumption
    <3>2. z \div Rows \in Nat /\ z % Rows \in 0 .. Rows - 1
          /\ z = Rows * (z \div Rows) + (z % Rows)
      BY <3>1, <2>2, DivMod
    <3> QED BY <3>1, <3>2
  <2> QED BY <2>1, <2>3 DEF z
<1> HIDE DEF u, t, k, r
<1>4. (r + Rows * t - t) % Rows = u
  BY <1>1, <1>3, Unwrap
<1>5. t * Rows = Rows * t
  BY <1>1
<1> QED BY <1>1, <1>4, <1>5 DEF t, r

-----------------------------------------------------------------------------
(* The inputs, and types. *)

\* What an input can be: an answer belongs to a request.
InOk(in) ==
  /\ in.irq \in BOOLEAN /\ in.imem_stall \in BOOLEAN /\ in.imem_ack \in BOOLEAN
  /\ in.dmem_stall \in BOOLEAN /\ in.dmem_ack \in BOOLEAN /\ in.iflush_ack \in BOOLEAN
  /\ in.mixed \in Count
  /\ in.imem_ack => i_pending_q
  /\ in.dmem_ack => data_pending_q
  /\ in.iflush_ack => state_q = "IFLUSH"

\* An answer may be withheld.
LEMMA Withheld ==
  ASSUME NEW q \in BOOLEAN, NEW b \in {FALSE, q} PROVE b \in BOOLEAN /\ (b => q)
<1>1. CASE q = TRUE
  BY <1>1
<1>2. CASE q = FALSE
  BY <1>2
<1> QED BY <1>1, <1>2

\* The inputs of a step are of that kind.
LEMMA InputFacts == ASSUME TypeOK, NEW in \in Inputs PROVE InOk(in)
<1>1. PICK irq \in BOOLEAN, imem_stall \in BOOLEAN, imem_ack \in {FALSE, i_pending_q},
           dmem_stall \in {FALSE, RunX /\ XMemory}, dmem_ack \in {FALSE, data_pending_q},
           iflush_ack \in {FALSE, state_q = "IFLUSH"},
           mixed \in IF count_write = read_index_q THEN Count ELSE {0} :
        in = [irq |-> irq, imem_stall |-> imem_stall, imem_ack |-> imem_ack,
              dmem_stall |-> dmem_stall, dmem_ack |-> dmem_ack, iflush_ack |-> iflush_ack,
              mixed |-> mixed]
  BY DEF Inputs
<1>2. i_pending_q \in BOOLEAN /\ data_pending_q \in BOOLEAN
  BY DEF TypeOK
<1>3. mixed \in Count
  BY <1>1 DEF Count
<1>4. (RunX /\ XMemory) \in BOOLEAN /\ (state_q = "IFLUSH") \in BOOLEAN
  OBVIOUS
<1>5. /\ in.irq = irq /\ in.imem_stall = imem_stall /\ in.imem_ack = imem_ack
      /\ in.dmem_stall = dmem_stall /\ in.dmem_ack = dmem_ack /\ in.iflush_ack = iflush_ack
      /\ in.mixed = mixed
  BY <1>1
<1>6. imem_ack \in BOOLEAN /\ (imem_ack => i_pending_q)
  BY <1>1, <1>2, Withheld
<1>7. dmem_ack \in BOOLEAN /\ (dmem_ack => data_pending_q)
  BY <1>1, <1>2, Withheld
<1>8. iflush_ack \in BOOLEAN /\ (iflush_ack => state_q = "IFLUSH")
  BY <1>1, <1>4
<1>9. dmem_stall \in BOOLEAN
  BY <1>1, <1>4
<1> QED BY <1>1, <1>3, <1>5, <1>6, <1>7, <1>8, <1>9 DEF InOk

\* Instructions are instructions and addresses addresses.
LEMMA TextType ==
  ASSUME NEW p \in Programs, NEW v, NEW a \in Pc PROVE Text(p, v, a) \in Instruction
BY InstructionAssumption DEF Text

\* The fields of an instruction.
LEMMA InstructionFields ==
  ASSUME NEW i \in Instruction
  PROVE  /\ i.op \in Ops /\ i.d \in 0 .. 15 /\ i.a \in Registers /\ i.b \in Registers /\ i.n \in Pc
         /\ Writes(i) => i.d \in Registers
         /\ i.op = "LD" => i.d \in General
         /\ i.op \in {"MFS", "RET", "RETI"} => i.a \in System
BY DEF Instruction, Encodable

\* The registers are numbers; r0 and s0 are two of them.
LEMMA RegisterFacts ==
  /\ 0 \in Registers /\ S0 \in Registers /\ 0 # S0
  /\ Registers \subseteq Nat /\ General \cap System = {}
BY InstructionAssumption DEF Registers, S0

\* Arithmetic results stay among the values of a register.
LEMMA ComputeType ==
  ASSUME NEW i \in Instruction, NEW a \in Pc, NEW v \in Pc, NEW w \in Pc
  PROVE  Compute(i, a, v, w) \in Pc
<1>1. i.n \in Pc
  BY InstructionFields
<1>2. /\ Size \in Nat /\ Size > 2 /\ a \in Nat /\ v \in Nat /\ w \in Nat /\ i.n \in Nat
      /\ v * w \in Nat
  BY <1>1, InstructionAssumption DEF Pc
<1>3. Plus(v, i.n) \in Pc /\ Plus(a, 1) \in Pc /\ Plus(a, 2) \in Pc
  BY <1>2, PlusType
<1>4. (v * w) % Size \in Pc
  BY <1>2, ModRow DEF Pc
<1>5. 0 \in Pc /\ 1 \in Pc
  BY <1>2 DEF Pc
<1> QED BY <1>1, <1>3, <1>4, <1>5 DEF Compute

\* The fields of the instruction in Execute.
LEMMA XFields ==
  ASSUME TypeOK
  PROVE  /\ x.instr \in Instruction /\ x.pc \in Pc /\ x.count \in Count
         /\ x.hit \in BOOLEAN /\ x.collision \in BOOLEAN /\ x.jall_hit \in BOOLEAN
         /\ x.forward_a \in BOOLEAN /\ x.forward_b \in BOOLEAN
BY DEF TypeOK

\* A row of the branch target buffer.
LEMMA RowFields ==
  ASSUME TypeOK, NEW r \in Row
  PROVE  /\ target_mem[r].tag \in 0 .. Tag(Size - 1) /\ target_mem[r].target \in Pc
         /\ count_mem[r] \in Count
BY DEF TypeOK

\* The wires that carry addresses and data.
LEMMA WireTypes ==
  ASSUME TypeOK, NEW in, InOk(in)
  PROVE  /\ RfA \in Pc /\ RfB \in Pc /\ RfWdata \in Pc /\ XResult \in Pc
         /\ ResolvedTarget \in Pc /\ ImemAddr(in) \in Pc
         /\ RowCount(in) \in Count
         /\ Committed \in [Registers -> Pc]
<1>1. /\ x.instr \in Instruction /\ x.pc \in Pc /\ w_result_q \in Pc /\ product \in Pc
      /\ rf \in [Registers -> Pc] /\ loaded \in Pc /\ f_pc_q \in Pc /\ reply \in Instruction
      /\ read_index_q \in Row
  BY DEF TypeOK
<1>2. /\ x.instr.a \in Registers /\ x.instr.b \in Registers /\ x.instr.n \in Pc /\ reply.n \in Pc
  BY <1>1, InstructionFields
<1>3. RfA \in Pc /\ RfB \in Pc
  BY <1>1, <1>2 DEF RfA, RfB
<1>4. Size \in Nat /\ Size > 2 /\ 0 \in Pc
  BY InstructionAssumption DEF Pc
<1>5. RfWdata \in Pc
  <2>1. ASSUME NEW n \in Pc PROVE (w_result_q + n) % Size \in Pc
    BY <1>1, <1>4 DEF Pc
  <2>2. (IF data_pending_q THEN loaded ELSE 0) \in Pc
    BY <1>1, <1>4
  <2> QED BY <2>1, <2>2 DEF RfWdata
<1>6. XResult \in Pc
  BY <1>1, <1>3, <1>4, ComputeType DEF XResult
<1>7. ResolvedTarget \in Pc
  <2>1. Plus(x.pc, 1 + x.instr.n) \in Pc
    <3>1. x.pc \in Nat /\ 1 + x.instr.n \in Nat
      BY <1>1, <1>2, <1>4 DEF Pc
    <3> QED BY <3>1, PlusType
  <2> QED BY <1>2, <1>3, <2>1 DEF ResolvedTarget
<1>8. ImemAddr(in) \in Pc
  <2>1. Plus(f_pc_q, 1) \in Pc
    <3>1. f_pc_q \in Nat /\ 1 \in Nat
      BY <1>1, <1>4 DEF Pc
    <3> QED BY <3>1, PlusType
  <2>2. IrqVector \in Pc
    BY <1>4 DEF IrqVector, Pc
  <2>3. target_mem[read_index_q].target \in Pc
    BY <1>1, RowFields
  <2> QED BY <1>1, <1>7, <2>1, <2>2, <2>3 DEF ImemAddr, SequentialFetchPc
<1>9. RowCount(in) \in Count
  BY <1>1, RowFields DEF RowCount, InOk
<1>10. Committed \in [Registers -> Pc]
  BY <1>1, <1>5 DEF Committed
<1> QED BY <1>3, <1>5, <1>6, <1>7, <1>8, <1>9, <1>10

-----------------------------------------------------------------------------
(* Type correctness. *)

\* The registers of Fetch.
LEMMA FetchTypes ==
  ASSUME TypeOK, NEW in, InOk(in), FetchStep(in), DataStep(in), UNCHANGED program
  PROVE  /\ f_pc_q' \in Pc /\ reply' \in Instruction
         /\ ({f_advance_q, recover_q, i_pending_q, i_discard_q, d_valid_q} \subseteq BOOLEAN)'
<1>1. /\ x.pc \in Pc /\ f_pc_q \in Pc /\ ImemAddr(in) \in Pc /\ reply \in Instruction
      /\ program \in Programs
      /\ f_advance_q \in BOOLEAN
  BY XFields, WireTypes DEF TypeOK
<1>2. reply' \in Instruction
  <2>1. CASE IAccept(in)
    <3>1. PICK v \in seen' : reply' = Text(program, v, ImemAddr(in))
      BY <2>1 DEF FetchStep
    <3> QED BY <1>1, <3>1, TextType
  <2>2. CASE ~IAccept(in)
    BY <1>1, <2>2 DEF FetchStep
  <2> QED BY <2>1, <2>2
<1>3. f_pc_q' \in Pc
  BY <1>1 DEF FetchStep
<1>4. recover_q' \in BOOLEAN
  BY DEF FetchStep, DeferredRecovery
<1>5. i_pending_q' \in BOOLEAN /\ i_discard_q' \in BOOLEAN /\ d_valid_q' \in BOOLEAN
  BY DEF FetchStep
<1>6. f_advance_q' \in BOOLEAN
  BY <1>1 DEF FetchStep, IAccept
<1> QED BY <1>2, <1>3, <1>4, <1>5, <1>6

\* The registers of Execute.
LEMMA ExecuteTypes ==
  ASSUME TypeOK, NEW in, InOk(in), ExecuteStep(in)
  PROVE  /\ state_q' \in {"RUN", "MUL", "MUL_CALC", "IFLUSH"}
         /\ ({x_valid_q, x_load_wait_q} \subseteq BOOLEAN)'
         /\ x' \in [instr : Instruction, pc : Pc, count : Count, hit : BOOLEAN,
                    collision : BOOLEAN, jall_hit : BOOLEAN, forward_a : BOOLEAN,
                    forward_b : BOOLEAN]
         /\ product' \in Pc
         /\ ({interrupt_enable_q, interrupt_request_q} \subseteq BOOLEAN)'
<1>1. state_q' \in {"RUN", "MUL", "MUL_CALC", "IFLUSH"}
  BY DEF ExecuteStep, NextState, TypeOK
<1>2. x_valid_q' \in BOOLEAN
  BY DEF ExecuteStep, DIssue, TypeOK
<1>3. x_load_wait_q' \in BOOLEAN
  BY DEF ExecuteStep, DIssue, TypeOK
<1>4. x' \in [instr : Instruction, pc : Pc, count : Count, hit : BOOLEAN,
              collision : BOOLEAN, jall_hit : BOOLEAN, forward_a : BOOLEAN, forward_b : BOOLEAN]
  <2>1. CASE DIssue(in)
    <3> DEFINE jall == reply.op = "JALL" /\ BtbCount(in) >= 2
               hit == BtbCount(in) > 0  a == Forward(reply.a)  b == Forward(reply.b)
    <3>1. jall \in BOOLEAN /\ hit \in BOOLEAN /\ BtbCollision \in BOOLEAN
      BY DEF BtbCollision
    <3>2. a \in BOOLEAN /\ b \in BOOLEAN
      BY DEF Forward
    <3>3. x' = [instr |-> reply, pc |-> f_pc_q, count |-> RowCount(in), hit |-> hit,
                collision |-> BtbCollision, jall_hit |-> jall, forward_a |-> a, forward_b |-> b]
      BY <2>1 DEF ExecuteStep
    <3>4. reply \in Instruction /\ f_pc_q \in Pc /\ RowCount(in) \in Count
      BY WireTypes DEF TypeOK
    <3> HIDE DEF jall, hit, a, b
    <3> QED BY <3>1, <3>2, <3>3, <3>4
  <2>2. CASE ~DIssue(in)
    <3>1. x' = x
      BY <2>2 DEF ExecuteStep
    <3> QED BY <3>1 DEF TypeOK
  <2> QED BY <2>1, <2>2
<1>5. product' \in Pc
  <2>1. RfA \in Pc /\ RfB \in Pc
    BY WireTypes
  <2>2. RfA * RfB \in Nat /\ Size \in Nat \ {0}
    BY <2>1, InstructionAssumption DEF Pc
  <2>3. (RfA * RfB) % Size \in Pc
    BY <2>2, ModRow DEF Pc
  <2> QED BY <2>3 DEF ExecuteStep, TypeOK
<1>6. interrupt_enable_q' \in BOOLEAN
  BY DEF ExecuteStep, TypeOK, EnableAfter
<1>7. interrupt_request_q' \in BOOLEAN
  BY DEF ExecuteStep, InOk
<1> QED BY <1>1, <1>2, <1>3, <1>4, <1>5, <1>6, <1>7

\* Writeback and memory.
LEMMA DataTypes ==
  ASSUME TypeOK, NEW in, InOk(in), WritebackStep(in), FlagsStep(in), DataStep(in)
  PROVE  /\ mem' \in [Cells -> Pc] /\ seen' \subseteq Pc
         /\ ({r0_zero_q, r0_negative_q} \subseteq BOOLEAN)'
         /\ ({w_we_q, data_pending_q} \subseteq BOOLEAN)'
         /\ w_dst_q' \in Registers /\ w_result_q' \in Pc
         /\ rf' \in [Registers -> Pc] /\ loaded' \in Pc
<1>1. RfA \in Pc /\ RfB \in Pc /\ RfWdata \in Pc /\ XResult \in Pc
  BY WireTypes
<1>2. Cell(RfA) \in Cells /\ PatchCell \in Cells
  <2>1. RfA \in Nat
    BY <1>1, InstructionAssumption DEF Pc
  <2> QED BY <2>1 DEF Cell, Cells, PatchCell
<1>3. mem \in [Cells -> Pc] /\ seen \subseteq Pc
  BY DEF TypeOK
<1>4. mem' \in [Cells -> Pc]
  BY <1>1, <1>3 DEF DataStep
<1>5. seen' \subseteq Pc
  BY <1>2, <1>3, <1>4 DEF DataStep
<1>6. r0_zero_q' \in BOOLEAN /\ r0_negative_q' \in BOOLEAN
  <2>1. r0_zero_q \in BOOLEAN /\ r0_negative_q \in BOOLEAN
    BY DEF TypeOK
  <2>2. \A v : (v = 0) \in BOOLEAN /\ Negative(v) \in BOOLEAN
    BY DEF Negative
  <2> QED BY <2>1, <2>2, Zenon DEF FlagsStep
<1>7. w_we_q' \in BOOLEAN /\ data_pending_q' \in BOOLEAN
  BY DEF WritebackStep, DataStep, TypeOK, DataAccept, Writes
<1>8. w_dst_q' \in Registers
  BY RegisterFacts, XFields, InstructionFields DEF WritebackStep, TypeOK
<1>9. w_result_q' \in Pc
  BY <1>1 DEF WritebackStep, TypeOK
<1>10. rf' \in [Registers -> Pc]
  BY <1>1 DEF WritebackStep, TypeOK
<1>11. loaded' \in Pc
  BY <1>2, <1>3 DEF DataStep, TypeOK
<1> QED BY <1>4, <1>5, <1>6, <1>7, <1>8, <1>9, <1>10, <1>11

\* Counters stay in two bits.
LEMMA CountNextType == ASSUME TypeOK PROVE CountNext \in Count
<1>1. x.count \in {0, 1, 2, 3}
  BY XFields DEF Count
<1> QED BY <1>1 DEF CountNext, Count

\* The branch target buffer.
LEMMA BtbTypes ==
  ASSUME TypeOK, NEW in, InOk(in), BtbStep(in)
  PROVE  /\ target_mem' \in [Row -> [tag : 0 .. Tag(Size - 1), target : Pc]]
         /\ count_mem' \in [Row -> Count] /\ clearing_q' \in BOOLEAN
         /\ clear_q' \in Row /\ read_index_q' \in Row
         /\ ({target_write, count_write} \subseteq Row \cup {NoRow})'
<1>1. /\ ResolvedTarget \in Pc /\ ImemAddr(in) \in Pc /\ x.pc \in Pc
      /\ CountNext \in Count /\ 0 \in Count
  BY WireTypes, XFields, CountNextType DEF Count
<1>2. /\ Index(ImemAddr(in)) \in Row /\ Index(x.pc) \in Row /\ Tag(x.pc) \in 0 .. Tag(Size - 1)
  BY <1>1, IndexType
<1>3. target_mem' \in [Row -> [tag : 0 .. Tag(Size - 1), target : Pc]]
  <2> DEFINE Entry == [tag : 0 .. Tag(Size - 1), target : Pc]
  <2>1. [tag |-> Tag(x.pc), target |-> ResolvedTarget] \in Entry
    BY <1>1, <1>2
  <2>2. target_mem \in [Row -> Entry]
    BY DEF TypeOK
  <2> HIDE DEF Entry
  <2>3. target_mem' \in [Row -> Entry]
    BY <2>1, <2>2 DEF BtbStep
  <2> QED BY <2>3 DEF Entry
<1>4. count_mem' \in [Row -> Count]
  <2>1. count_mem \in [Row -> Count]
    BY DEF TypeOK
  <2> QED BY <1>1, <2>1 DEF BtbStep
<1>5. clearing_q' \in BOOLEAN
  BY DEF BtbStep, TypeOK
<1>6. clear_q' \in Row
  <2>1. Rows \in Nat \ {0} /\ clear_q \in Nat
    BY PipeAssumption DEF TypeOK, Row
  <2>2. (clear_q + 1) % Rows \in Row /\ 0 \in Row
    BY <2>1, ModRow DEF Row
  <2> QED BY <2>2 DEF BtbStep, TypeOK
<1>7. read_index_q' \in Row
  BY <1>2 DEF BtbStep, TypeOK
<1>8. ({target_write, count_write} \subseteq Row \cup {NoRow})'
  BY <1>2 DEF BtbStep
<1> QED BY <1>3, <1>4, <1>5, <1>6, <1>7, <1>8

\* Every step keeps the types.
LEMMA TypeStep ==
  ASSUME TypeOK, NEW in \in Inputs, Edge(in)
  PROVE  TypeOK'
<1>1. InOk(in)
  BY InputFacts
<1>2. program' \in Programs
  BY DEF Edge, TypeOK
<1>3. /\ f_pc_q' \in Pc /\ reply' \in Instruction
      /\ ({f_advance_q, recover_q, i_pending_q, i_discard_q, d_valid_q} \subseteq BOOLEAN)'
  BY <1>1, FetchTypes DEF Edge
<1>4. /\ state_q' \in {"RUN", "MUL", "MUL_CALC", "IFLUSH"}
      /\ ({x_valid_q, x_load_wait_q} \subseteq BOOLEAN)'
      /\ x' \in [instr : Instruction, pc : Pc, count : Count, hit : BOOLEAN,
                 collision : BOOLEAN, jall_hit : BOOLEAN, forward_a : BOOLEAN,
                 forward_b : BOOLEAN]
      /\ product' \in Pc
      /\ ({interrupt_enable_q, interrupt_request_q} \subseteq BOOLEAN)'
  BY <1>1, ExecuteTypes DEF Edge
<1>5. /\ mem' \in [Cells -> Pc] /\ seen' \subseteq Pc
      /\ ({r0_zero_q, r0_negative_q} \subseteq BOOLEAN)'
      /\ ({w_we_q, data_pending_q} \subseteq BOOLEAN)'
      /\ w_dst_q' \in Registers /\ w_result_q' \in Pc
      /\ rf' \in [Registers -> Pc] /\ loaded' \in Pc
  BY <1>1, DataTypes DEF Edge
<1>6. /\ target_mem' \in [Row -> [tag : 0 .. Tag(Size - 1), target : Pc]]
      /\ count_mem' \in [Row -> Count] /\ clearing_q' \in BOOLEAN
      /\ clear_q' \in Row /\ read_index_q' \in Row
      /\ ({target_write, count_write} \subseteq Row \cup {NoRow})'
  BY <1>1, BtbTypes DEF Edge
<1> QED BY <1>2, <1>3, <1>4, <1>5, <1>6 DEF TypeOK

-----------------------------------------------------------------------------
(* The inductive invariant. *)

\* Decode holds an instruction, or waits for one that it will use.
Holding == d_valid_q \/ (i_pending_q /\ ~i_discard_q)
Flushing == state_q = "IFLUSH"
Multiplying == state_q \in {"MUL", "MUL_CALC"}
\* What is in Execute is on the right path.
Executing == x_valid_q /\ ~recover_q

\* Fetch holds or waits for the instruction at f_pc_q exactly when f_advance_q
\* says so, and it is what that address held since the last IFLUSH.
FetchInv ==
  /\ ~(d_valid_q /\ i_pending_q)
  /\ i_discard_q => i_pending_q
  /\ Holding => f_advance_q
  /\ f_advance_q /\ ~recover_q /\ ~Flushing => Holding /\ read_index_q = Index(f_pc_q)
  /\ Holding /\ ~recover_q => \E v \in seen : reply = Text(program, v, f_pc_q)
  /\ recover_q => state_q = "RUN" /\ f_advance_q /\ ~x_load_wait_q /\ ~data_pending_q

\* The prediction that was followed after the instruction in Execute was the target
\* of a transfer of control in the code since the last IFLUSH.
Led ==
  \E v, w \in seen :
    LET i == Text(program, v, x.pc)
        long == Text(program, w, Plus(x.pc, 1))
    IN  \/ i.op = "BR" /\ f_pc_q = Plus(x.pc, 1 + i.n)
        \/ i.op = "JALL" /\ f_pc_q = long.n
        \/ i.op \in {"JALR", "RET", "RETI"}

\* Execute works on the instruction of its address, Fetch is where the prediction
\* says, and the multi-cycle states belong to their instructions.
ExecuteInv ==
  /\ Executing => \E v \in seen : x.instr = Text(program, v, x.pc)
  /\ Executing /\ ~Flushing => IF PredictedTaken THEN Led ELSE f_pc_q = Plus(x.pc, 1)
  /\ Executing => (x.jall_hit <=> XIs({"JALL"}) /\ PredictedTaken)
  /\ Flushing => /\ x_valid_q /\ XIs({"IFLUSH"}) /\ f_pc_q = x.pc /\ f_advance_q
                 /\ ~Holding /\ ~recover_q
  /\ state_q # "RUN" => Executing /\ ~data_pending_q /\ ~x_load_wait_q
  /\ Multiplying => /\ XIs({"MUL"})
                    /\ product = (Committed[x.instr.a] * Committed[x.instr.b]) % Size

\* The row r gives the target of a transfer of control in the code since the last
\* IFLUSH.
True(r) ==
  \E v, w \in seen :
    LET i == Text(program, v, RowPc(r))
        long == Text(program, w, Plus(RowPc(r), 1))
    IN  \/ i.op = "BR" /\ target_mem[r].target = Plus(RowPc(r), 1 + i.n)
        \/ i.op = "JALL" /\ target_mem[r].target = long.n
        \/ i.op \in {"JALR", "RET", "RETI"}

\* Something still counts on the row r: its counter, a write of the counter that
\* reads as anything, or the counter that the instruction in Execute was given.
Counted(r) ==
  \/ count_mem[r] > 0
  \/ count_write = r
  \/ Executing /\ x.count > 0 /\ r = Index(x.pc)

BtbInv ==
  /\ ~clearing_q /\ ~Flushing => \A r \in Row : Counted(r) => True(r)
  /\ ~clearing_q /\ Flushing => \A r \in Row : count_mem[r] = 0
  /\ clearing_q => /\ \A r \in Row : r < clear_q => count_mem[r] = 0
                   /\ Flushing \/ (~x_valid_q /\ ~f_advance_q /\ ~recover_q)
  /\ Flushing \/ clearing_q => count_write = NoRow
  /\ Executing /\ x.hit => x.count > 0
  /\ mem[PatchCell] \in seen

\* An operand r of the instruction in Execute can be read: from the result before it
\* when that is forwarded, and otherwise from a register that nothing will write.
Ready(r, forward) ==
  IF forward
  THEN w_dst_q = r /\ ~data_pending_q /\ (w_we_q \/ rf[r] = w_result_q)
  ELSE ~(w_we_q /\ w_dst_q = r)
ReadsA(i) ==
  i.op \in {"ADDI", "SLTU", "MUL", "LD", "ST", "JALR", "MTS", "MFS", "RET", "RETI"}
ReadsB(i) == i.op \in {"SLTU", "MUL", "ST"}

DataInv ==
  /\ data_pending_q /\ w_we_q => w_result_q = 0
  /\ x_load_wait_q => /\ Executing /\ state_q = "RUN" /\ data_pending_q /\ w_we_q
                      /\ ~x.forward_a /\ ~x.forward_b
  /\ Executing /\ ~x_load_wait_q =>
       /\ ReadsA(x.instr) => Ready(x.instr.a, x.forward_a)
       /\ ReadsB(x.instr) => Ready(x.instr.b, x.forward_b)
       /\ XIs({"BR"}) => ~(data_pending_q /\ w_we_q /\ w_dst_q = 0)

Inv == TypeOK /\ FetchInv /\ ExecuteInv /\ BtbInv /\ DataInv

-----------------------------------------------------------------------------
(* The wires of a clock. *)

\* The Boolean registers, one by one.
LEMMA Booleans ==
  ASSUME TypeOK
  PROVE  /\ f_advance_q \in BOOLEAN /\ recover_q \in BOOLEAN /\ i_pending_q \in BOOLEAN
         /\ i_discard_q \in BOOLEAN /\ d_valid_q \in BOOLEAN /\ x_valid_q \in BOOLEAN
         /\ x_load_wait_q \in BOOLEAN /\ w_we_q \in BOOLEAN /\ data_pending_q \in BOOLEAN
         /\ clearing_q \in BOOLEAN /\ interrupt_enable_q \in BOOLEAN
         /\ interrupt_request_q \in BOOLEAN
BY DEF TypeOK

\* What leaves Execute was there, on the right path, and frees its place.
LEMMA FinishWire ==
  ASSUME Inv, NEW in, InOk(in)
  PROVE  /\ XFinish(in) => /\ Executing /\ CoreAdvance(in) /\ XSlotAvailable(in) /\ ~TakeIrq
                           /\ ~x_load_wait_q
         /\ x_valid_q /\ XSlotAvailable(in) => XFinish(in)
         /\ XSlotAvailable(in) => CoreAdvance(in)
<1>1. IFlushDone(in) => Flushing
  BY DEF IFlushDone, Flushing
<1>2. XReady(in) => Executing /\ ~TakeIrq /\ ~x_load_wait_q
  BY <1>1, Booleans DEF XReady, RunReady, RunX, TakeIrq, Inv, ExecuteInv, Flushing, Executing
<1> QED BY <1>2 DEF XFinish, XSlotAvailable

\* The transfers of control that Execute decides, and memory accesses, end their
\* instruction in the running state; an interrupt replaces it.
LEMMA RunWires ==
  ASSUME Inv, NEW in, InOk(in)
  PROVE  /\ TakeIrq => /\ Executing /\ state_q = "RUN" /\ CoreAdvance(in) /\ ~data_pending_q
                       /\ ~NormalX(in) /\ ~XFinish(in) /\ ~x_load_wait_q
         /\ NormalX(in) => /\ Executing /\ state_q = "RUN" /\ CoreAdvance(in)
                           /\ ~x_load_wait_q /\ ~recover_q
         /\ DeferredRecovery(in) \/ ResolvedRedirect(in) \/ DataAccept(in)
              => NormalX(in) /\ XFinish(in)
         /\ XFinish(in) /\ XMemory => DataAccept(in)
<1>1. /\ TakeIrq => /\ Executing /\ state_q = "RUN" /\ CoreAdvance(in) /\ ~data_pending_q
                    /\ ~NormalX(in) /\ ~XFinish(in) /\ ~x_load_wait_q
  BY FinishWire DEF TakeIrq, RunX, Executing, NormalX, CoreAdvance
<1>2. NormalX(in) => /\ Executing /\ state_q = "RUN" /\ CoreAdvance(in)
                     /\ ~x_load_wait_q /\ ~recover_q
  BY DEF NormalX, RunX, Executing
<1>3. DeferredRecovery(in) => NormalX(in) /\ XFinish(in)
  BY DEF DeferredRecovery, NormalX, XFinish, XReady, RunReady, XIs, XMemory
<1>4. DataAccept(in) => NormalX(in) /\ XFinish(in)
  BY DEF DataAccept, NormalX, XFinish, XReady, RunReady, XIs, XMemory
<1>5. ResolvedRedirect(in) => NormalX(in) /\ XFinish(in)
  BY DEF ResolvedRedirect, TakenBranchMiss, IndirectMiss, JallPayloadDone, BranchTaken,
         XIndirect, NormalX, XFinish, XReady, RunReady, XIs, XMemory
<1>6. XFinish(in) /\ XMemory => DataAccept(in)
  <2>1. state_q = "MUL" => XIs({"MUL"})
    BY DEF Inv, ExecuteInv, Multiplying
  <2>2. IFlushDone(in) => XIs({"IFLUSH"})
    BY DEF Inv, ExecuteInv, IFlushDone, Flushing
  <2>3. XMemory => ~XIs({"MUL"}) /\ ~XIs({"IFLUSH"})
    BY DEF XMemory, XIs
  <2> QED BY <2>1, <2>2, <2>3 DEF XFinish, XReady, RunReady, DataAccept, NormalX
<1> QED BY <1>1, <1>2, <1>3, <1>4, <1>5, <1>6

\* The start of a flush keeps the instruction in Execute and fetches nothing.
LEMMA FlushStartWire ==
  ASSUME Inv, NEW in, InOk(in), IFlushStart(in)
  PROVE  /\ Executing /\ state_q = "RUN" /\ XIs({"IFLUSH"}) /\ CoreAdvance(in)
         /\ ~XFinish(in) /\ ~XSlotAvailable(in) /\ ~TakeIrq /\ ~FetchReady(in)
         /\ ~DeferredRecovery(in) /\ ~DataAccept(in) /\ Redirect(in)
<1>1. /\ Executing /\ state_q = "RUN" /\ CoreAdvance(in) /\ XIs({"IFLUSH"}) /\ NormalX(in)
  BY RunWires DEF IFlushStart
<1>2. ~XFinish(in)
  BY <1>1 DEF XFinish, XReady, RunReady, IFlushDone, XIs
<1>3. ~XSlotAvailable(in)
  BY <1>1, <1>2, FinishWire DEF Executing
<1> QED BY <1>1, <1>2, <1>3, RunWires DEF FetchReady, Redirect

\* While a flush lasts nothing moves.
LEMMA FlushWire ==
  ASSUME Inv, NEW in, InOk(in), Flushing
  PROVE  /\ ~TakeIrq /\ ~NormalX(in) /\ ~IFlushStart(in) /\ ~ResolvedRedirect(in)
         /\ ~DeferredRecovery(in) /\ ~DataAccept(in) /\ ~DValid(in) /\ ~DIssue(in)
         /\ CoreAdvance(in)
         /\ ~IFlushDone(in) => /\ ~Redirect(in) /\ ~XFinish(in) /\ ~FetchReady(in)
                               /\ ~XSlotAvailable(in)
<1>1. ~TakeIrq /\ ~NormalX(in)
  BY DEF Flushing, TakeIrq, NormalX, RunX
<1>2. ~DValid(in)
  BY DEF Inv, ExecuteInv, DValid, Holding
<1>3. Executing /\ ~data_pending_q /\ ~recover_q /\ x_valid_q
  BY DEF Inv, ExecuteInv, Flushing, Executing
<1>4. CoreAdvance(in)
  BY <1>3 DEF CoreAdvance
<1>5. ~IFlushDone(in) => ~XFinish(in) /\ ~XSlotAvailable(in)
  BY <1>3 DEF XFinish, XSlotAvailable, XReady, RunReady, RunX, Flushing
<1>6. ~ResolvedRedirect(in) /\ ~DeferredRecovery(in) /\ ~DataAccept(in) /\ ~IFlushStart(in)
  BY <1>1, RunWires DEF IFlushStart
<1> QED BY <1>1, <1>2, <1>3, <1>4, <1>5, <1>6 DEF Redirect, DIssue, FetchReady, Flushing

\* What is issued was held, and what was in Execute leaves.
LEMMA IssueWire ==
  ASSUME Inv, NEW in, InOk(in), DIssue(in)
  PROVE  /\ DValid(in) /\ Holding /\ f_advance_q /\ ~recover_q /\ ~Flushing
         /\ CoreAdvance(in) /\ XSlotAvailable(in)
         /\ ~TakeIrq /\ ~IFlushStart(in) /\ ~IFlushDone(in) /\ ~ResolvedRedirect(in)
         /\ x_valid_q <=> XFinish(in)
         /\ read_index_q = Index(f_pc_q)
<1>1. DValid(in) /\ XSlotAvailable(in) /\ ~Redirect(in)
  BY DEF DIssue
<1>2. Holding
  BY <1>1, Booleans DEF DValid, Holding, Inv
<1>3. ~Flushing
  BY FlushWire
<1>4. ~recover_q /\ ~TakeIrq /\ ~IFlushStart(in) /\ ~IFlushDone(in) /\ ~ResolvedRedirect(in)
  BY <1>1 DEF Redirect
<1>5. f_advance_q /\ read_index_q = Index(f_pc_q)
  BY <1>2, <1>3, <1>4 DEF Inv, FetchInv
<1>6. x_valid_q <=> XFinish(in)
  BY <1>1, <1>2, FinishWire, Booleans DEF Executing, Inv
<1> QED BY <1>1, <1>2, <1>3, <1>4, <1>5, <1>6, FinishWire

\* When nothing leaves Execute and nothing replaces it, Fetch stays where it is.
LEMMA StayWire ==
  ASSUME Inv, NEW in, InOk(in), Executing, ~XSlotAvailable(in), ~TakeIrq
  PROVE  /\ ~XFinish(in) /\ ~DIssue(in) /\ ~DeferredRecovery(in) /\ ~ResolvedRedirect(in)
         /\ ~DataAccept(in) /\ ~IFlushDone(in)
         /\ ~IFlushStart(in) => ~Redirect(in)
<1>1. ~XFinish(in) /\ ~DIssue(in)
  BY FinishWire DEF DIssue
<1>2. ~DeferredRecovery(in) /\ ~ResolvedRedirect(in) /\ ~DataAccept(in)
  BY <1>1, RunWires
<1>3. ~IFlushDone(in)
  <2>1. IFlushDone(in) => XFinish(in)
    BY FlushWire DEF XFinish, XReady, IFlushDone, Flushing
  <2> QED BY <1>1, <2>1
<1> QED BY <1>1, <1>2, <1>3 DEF Redirect, Executing

\* Fetch moves with every request that is taken; without a redirect and without an
\* issue it takes one only when it has none.
LEMMA FetchWire ==
  ASSUME Inv, NEW in, InOk(in)
  PROVE  /\ DValid(in) => Holding /\ ~(i_pending_q /\ ~in.imem_ack)
         /\ IAccept(in) => /\ FetchReady(in) /\ ~in.imem_stall /\ ~IFlushStart(in)
                           /\ Redirect(in) \/ DIssue(in) \/ ~DValid(in)
                           /\ ~(i_pending_q /\ ~in.imem_ack)
         /\ ~DValid(in) /\ FetchReady(in) => ~Holding
<1>1. DValid(in) => Holding /\ ~(i_pending_q /\ ~in.imem_ack)
  BY Booleans DEF DValid, Holding, Inv, FetchInv
<1>2. IAccept(in) => /\ FetchReady(in) /\ ~in.imem_stall /\ ~IFlushStart(in)
                     /\ Redirect(in) \/ DIssue(in) \/ ~DValid(in)
                     /\ ~(i_pending_q /\ ~in.imem_ack)
  BY DEF IAccept, FetchStb, FetchReady, Redirect, DIssue
<1>3. ~DValid(in) /\ FetchReady(in) => ~Holding
  BY DEF FetchReady, DValid, Holding
<1> QED BY <1>1, <1>2, <1>3

-----------------------------------------------------------------------------
(* Fetch. *)

\* Where Fetch is after a step.
LEMMA FetchMoves ==
  ASSUME Inv, NEW in, InOk(in), Edge(in)
  PROVE  /\ DeferredRecovery(in) \/ IFlushStart(in) => f_pc_q' = x.pc /\ f_advance_q' = TRUE
         /\ ~DeferredRecovery(in) /\ ~IFlushStart(in) /\ (Redirect(in) \/ DIssue(in))
              => f_pc_q' = ImemAddr(in) /\ f_advance_q' = IAccept(in)
         /\ ~DeferredRecovery(in) /\ ~IFlushStart(in) /\ IAccept(in)
              => f_pc_q' = ImemAddr(in) /\ f_advance_q' = TRUE
         /\ ~DeferredRecovery(in) /\ ~Redirect(in) /\ ~DIssue(in) /\ ~IAccept(in)
              => f_pc_q' = f_pc_q /\ (f_advance_q' => f_advance_q) /\ (Holding => f_advance_q')
         /\ ~DeferredRecovery(in) /\ ~Redirect(in) /\ ~DIssue(in) => f_pc_q' = f_pc_q
<1>1. DeferredRecovery(in) \/ IFlushStart(in) => f_pc_q' = x.pc /\ f_advance_q' = TRUE
  BY DEF Edge, FetchStep
<1>2. ~DeferredRecovery(in) /\ ~IFlushStart(in) /\ (Redirect(in) \/ DIssue(in))
        => f_pc_q' = ImemAddr(in) /\ f_advance_q' = IAccept(in)
  BY DEF Edge, FetchStep
<1>3. ~DeferredRecovery(in) /\ ~IFlushStart(in) /\ IAccept(in)
        => f_pc_q' = ImemAddr(in) /\ f_advance_q' = TRUE
  BY FetchWire DEF Edge, FetchStep
<1>4. IFlushStart(in) => Redirect(in)
  BY DEF Redirect
<1>5. ASSUME ~DeferredRecovery(in), ~Redirect(in), ~DIssue(in)
      PROVE  f_pc_q' = f_pc_q
             /\ (~IAccept(in) => (f_advance_q' => f_advance_q) /\ (Holding => f_advance_q'))
  <2>1. CASE ~DValid(in) /\ FetchReady(in) /\ ~in.imem_stall
    <3>1. ~recover_q /\ ~TakeIrq /\ ~ResolvedRedirect(in)
      BY <1>5 DEF Redirect
    <3>2. ~Holding
      BY <2>1, FetchWire
    <3>3. ~f_advance_q
      <4>1. CASE Flushing
        BY <1>5, <2>1, <4>1, FlushWire DEF Redirect
      <4>2. CASE ~Flushing
        BY <3>1, <3>2, <4>2, Booleans DEF Inv, FetchInv
      <4> QED BY <4>1, <4>2
    <3>4. ImemAddr(in) = f_pc_q
      BY <3>1, <3>3, Booleans DEF ImemAddr, PredictBtb, SequentialFetchPc, Inv
    <3>5. f_pc_q' = ImemAddr(in) /\ f_advance_q' = IAccept(in)
      BY <1>4, <1>5, <2>1 DEF Edge, FetchStep
    <3> QED BY <3>2, <3>4, <3>5
  <2>2. CASE ~(~DValid(in) /\ FetchReady(in) /\ ~in.imem_stall)
    <3>1. f_pc_q' = f_pc_q /\ f_advance_q' = f_advance_q
      BY <1>4, <1>5, <2>2 DEF Edge, FetchStep
    <3>2. Holding => f_advance_q
      BY DEF Inv, FetchInv
    <3> QED BY <3>1, <3>2
  <2> QED BY <2>1, <2>2
<1> QED BY <1>1, <1>2, <1>3, <1>5

\* What Decode holds after a step was requested now, or held before.
LEMMA FetchHolds ==
  ASSUME Inv, NEW in, InOk(in), Edge(in)
  PROVE  /\ Holding' => IAccept(in) \/ (Holding /\ ~Redirect(in) /\ ~DIssue(in) /\ reply' = reply)
         /\ IAccept(in) => Holding'
         /\ Holding /\ ~Redirect(in) /\ ~DIssue(in) => Holding'
         /\ ~(d_valid_q' /\ i_pending_q')
         /\ i_discard_q' => i_pending_q'
<1>1. /\ i_pending_q' = (IAccept(in) \/ (i_pending_q /\ ~in.imem_ack))
      /\ i_discard_q' = (i_pending_q /\ ~in.imem_ack /\ (i_discard_q \/ Redirect(in)))
      /\ d_valid_q' = (~Redirect(in) /\
           (IF DIssue(in) THEN d_valid_q /\ i_pending_q /\ in.imem_ack /\ ~i_discard_q
            ELSE DValid(in)))
      /\ ~IAccept(in) => reply' = reply
  BY DEF Edge, FetchStep
<1>2. ~(d_valid_q /\ i_pending_q) /\ (i_discard_q => i_pending_q)
  BY DEF Inv, FetchInv
<1>3. /\ DIssue(in) => DValid(in)
      /\ DValid(in) => Holding /\ ~(i_pending_q /\ ~in.imem_ack)
      /\ IAccept(in) => /\ Redirect(in) \/ DIssue(in) \/ ~DValid(in)
                        /\ ~(i_pending_q /\ ~in.imem_ack)
  BY FetchWire DEF DIssue
<1>4. i_discard_q' => i_pending_q'
  BY <1>1
<1>5. ~(d_valid_q' /\ i_pending_q')
  BY <1>1, <1>2, <1>3
<1>6. IAccept(in) => Holding'
  BY <1>1, <1>3 DEF Holding
<1>7. Holding /\ ~Redirect(in) /\ ~DIssue(in) => Holding'
  BY <1>1, <1>2, <1>3 DEF Holding, DValid
<1>8. Holding' => IAccept(in) \/ (Holding /\ ~Redirect(in) /\ ~DIssue(in) /\ reply' = reply)
  BY <1>1, <1>2, <1>3 DEF Holding, DValid
<1> QED BY <1>4, <1>5, <1>6, <1>7, <1>8

\* A flush ends with a redirect only.
LEMMA FlushMoves ==
  ASSUME Inv, NEW in, InOk(in), Edge(in)
  PROVE  Flushing' <=> IFlushStart(in) \/ (Flushing /\ ~IFlushDone(in))
<1>1. state_q' = IF CoreAdvance(in) THEN NextState(in) ELSE state_q
  BY DEF Edge, ExecuteStep
<1>2. CASE IFlushStart(in)
  BY <1>1, <1>2, FlushStartWire DEF NextState, Flushing
<1>3. CASE ~IFlushStart(in) /\ Flushing
  <2>1. CoreAdvance(in) /\ ~NormalX(in) /\ (~IFlushDone(in) => ~Redirect(in) /\ ~XFinish(in))
        /\ x_valid_q
    BY <1>3, FlushWire DEF Inv, ExecuteInv
  <2>2. ~MulStart(in) /\ (IFlushDone(in) => Redirect(in))
    BY <2>1 DEF MulStart, Redirect
  <2> QED BY <1>1, <1>3, <2>1, <2>2 DEF NextState, Flushing
<1>4. CASE ~IFlushStart(in) /\ ~Flushing
  BY <1>1, <1>4 DEF NextState, Flushing
<1> QED BY <1>2, <1>3, <1>4

\* The code that may be fetched only grows while no flush ends.
LEMMA SeenGrows ==
  ASSUME Inv, NEW in, Edge(in)
  PROVE  /\ ~IFlushDone(in) => seen \subseteq seen'
         /\ mem'[PatchCell] \in seen'
<1>1. IFlushDone(in) => mem' = mem
  <2>1. IFlushDone(in) => ~DataAccept(in)
    BY DEF IFlushDone, DataAccept, NormalX, RunX
  <2> QED BY <2>1 DEF Edge, DataStep
<1> QED BY <1>1 DEF Edge, DataStep

\* Fetch keeps its invariant.
LEMMA FetchInvStep ==
  ASSUME Inv, NEW in, InOk(in), Edge(in)
  PROVE  FetchInv'
<1>1. ~(d_valid_q' /\ i_pending_q') /\ (i_discard_q' => i_pending_q')
  BY FetchHolds
<1>2. recover_q' = DeferredRecovery(in) /\ program' = program
  BY DEF Edge, FetchStep
<1>3. Holding' => f_advance_q'
  <2>1. CASE DeferredRecovery(in) \/ IFlushStart(in) \/ IAccept(in)
    BY <2>1, FetchMoves
  <2>2. CASE ~(DeferredRecovery(in) \/ IFlushStart(in) \/ IAccept(in))
    BY <2>2, FetchMoves, FetchHolds
  <2> QED BY <2>1, <2>2
<1>4. ASSUME f_advance_q', ~recover_q', ~Flushing'
      PROVE  Holding' /\ read_index_q' = Index(f_pc_q')
  <2>1. ~DeferredRecovery(in) /\ ~IFlushStart(in)
    BY <1>2, <1>4, FlushMoves
  <2>2. CASE IAccept(in)
    BY <2>1, <2>2, FetchHolds, FetchMoves DEF Edge, BtbStep
  <2>3. CASE ~IAccept(in)
    <3>1. ~Redirect(in) /\ ~DIssue(in)
      BY <1>4, <2>1, <2>3, FetchMoves
    <3>2. f_pc_q' = f_pc_q /\ f_advance_q /\ ~recover_q
      BY <1>4, <2>1, <2>3, <3>1, FetchMoves DEF Redirect
    <3>3. ~Flushing
      BY <1>4, <3>1, FlushMoves DEF Redirect
    <3>4. Holding /\ read_index_q = Index(f_pc_q)
      BY <3>2, <3>3 DEF Inv, FetchInv
    <3>5. read_index_q' = read_index_q
      BY <2>3 DEF Edge, BtbStep
    <3> QED BY <3>1, <3>2, <3>4, <3>5, FetchHolds
  <2> QED BY <2>2, <2>3
<1>5. ASSUME Holding', ~recover_q'
      PROVE  \E v \in seen' : reply' = Text(program', v, f_pc_q')
  <2>1. ~DeferredRecovery(in)
    BY <1>2, <1>5
  <2>2. CASE IAccept(in)
    <3>1. f_pc_q' = ImemAddr(in)
      BY <2>1, <2>2, FetchMoves, FetchWire
    <3>2. PICK v \in seen' : reply' = Text(program, v, ImemAddr(in))
      BY <2>2 DEF Edge, FetchStep
    <3> QED BY <1>2, <3>1, <3>2
  <2>3. CASE ~IAccept(in)
    <3>1. Holding /\ ~Redirect(in) /\ ~DIssue(in) /\ reply' = reply
      BY <1>5, <2>3, FetchHolds
    <3>2. f_pc_q' = f_pc_q /\ ~recover_q /\ ~IFlushDone(in)
      BY <2>1, <3>1, FetchMoves DEF Redirect
    <3>3. PICK v \in seen : reply = Text(program, v, f_pc_q)
      BY <3>1, <3>2 DEF Inv, FetchInv
    <3> QED BY <1>2, <3>1, <3>2, <3>3, SeenGrows
  <2> QED BY <2>2, <2>3
<1>6. ASSUME recover_q'
      PROVE  state_q' = "RUN" /\ f_advance_q' /\ ~x_load_wait_q' /\ ~data_pending_q'
  <2>1. DeferredRecovery(in)
    BY <1>2, <1>6
  <2>2. NormalX(in) /\ XFinish(in) /\ CoreAdvance(in) /\ state_q = "RUN" /\ XIs({"BR"})
    BY <2>1, RunWires DEF DeferredRecovery
  <2>3. ~IFlushStart(in) /\ ~MulStart(in) /\ ~DataAccept(in) /\ ~XIs({"LD"})
    BY <2>2 DEF IFlushStart, MulStart, DataAccept, XMemory, XIs
  <2>4. state_q' = "RUN"
    BY <2>2, <2>3 DEF Edge, ExecuteStep, NextState
  <2>5. ~x_load_wait_q'
    BY <2>2, <2>3 DEF Edge, ExecuteStep, LoadUse
  <2>6. ~data_pending_q'
    BY <2>2, <2>3 DEF Edge, DataStep
  <2> QED BY <2>1, <2>4, <2>5, <2>6, FetchMoves
<1> QED BY <1>1, <1>3, <1>4, <1>5, <1>6 DEF FetchInv

-----------------------------------------------------------------------------
(* Execute. *)

\* What is in Execute after a step was issued, or stays.
LEMMA ExecuteMoves ==
  ASSUME Inv, NEW in, InOk(in), Edge(in), x_valid_q'
  PROVE  \/ DIssue(in)
         \/ /\ Executing /\ ~XSlotAvailable(in) /\ ~TakeIrq /\ ~XFinish(in) /\ x' = x
            /\ ~DIssue(in) /\ ~recover_q'
<1>1. ~recover_q
  BY DEF Edge, ExecuteStep
<1>2. recover_q' = DeferredRecovery(in) /\ (~DIssue(in) => x' = x)
  BY DEF Edge, ExecuteStep, FetchStep
<1>3. CASE TakeIrq \/ XSlotAvailable(in)
  BY <1>3 DEF Edge, ExecuteStep
<1>4. CASE ~(TakeIrq \/ XSlotAvailable(in))
  <2>1. Executing
    BY <1>1, <1>4 DEF Edge, ExecuteStep, Executing
  <2> QED BY <1>2, <1>4, <2>1, StayWire
<1> QED BY <1>3, <1>4

\* What is issued.
LEMMA Issued ==
  ASSUME Inv, NEW in, InOk(in), Edge(in), DIssue(in)
  PROVE  /\ x'.instr = reply /\ x'.pc = f_pc_q /\ x'.count = RowCount(in)
         /\ x'.hit = (BtbCount(in) > 0)
         /\ x'.jall_hit = (reply.op = "JALL" /\ BtbCount(in) >= 2)
         /\ x'.forward_a = Forward(reply.a) /\ x'.forward_b = Forward(reply.b)
         /\ \E v \in seen : reply = Text(program, v, f_pc_q)
         /\ seen \subseteq seen' /\ program' = program
         /\ x_valid_q'
<1>1. x' = [instr |-> reply, pc |-> f_pc_q, count |-> RowCount(in),
            hit |-> BtbCount(in) > 0, collision |-> BtbCollision,
            jall_hit |-> reply.op = "JALL" /\ BtbCount(in) >= 2,
            forward_a |-> Forward(reply.a), forward_b |-> Forward(reply.b)]
  BY DEF Edge, ExecuteStep
<1>2. Holding /\ ~recover_q /\ ~IFlushDone(in) /\ XSlotAvailable(in)
  BY IssueWire
<1>3. \E v \in seen : reply = Text(program, v, f_pc_q)
  BY <1>2 DEF Inv, FetchInv
<1>4. seen \subseteq seen' /\ program' = program
  BY <1>2, SeenGrows DEF Edge
<1>5. x_valid_q'
  BY <1>2 DEF Edge, ExecuteStep
<1> QED BY <1>1, <1>3, <1>4, <1>5

\* A count that a hit reports is the count of the row.
LEMMA HitCounts ==
  ASSUME Inv, NEW in, InOk(in)
  PROVE  /\ BtbCount(in) > 0 => /\ BtbCount(in) = RowCount(in) /\ ~clearing_q
                                /\ target_mem[read_index_q].tag = Tag(f_pc_q)
         /\ BtbCount(in) \in Nat /\ RowCount(in) \in Nat
         /\ BtbCount(in) >= 2 <=> (BtbCount(in) > 0 /\ RowCount(in) >= 2)
<1>1. RowCount(in) \in 0 .. 3
  BY WireTypes DEF Inv, Count
<1>2. CASE ~clearing_q /\ ~BtbCollision /\ target_mem[read_index_q].tag = Tag(f_pc_q)
  BY <1>1, <1>2 DEF BtbCount
<1>3. CASE ~(~clearing_q /\ ~BtbCollision /\ target_mem[read_index_q].tag = Tag(f_pc_q))
  BY <1>1, <1>3 DEF BtbCount
<1> QED BY <1>2, <1>3

\* A row that is read with a count is still counted on.
LEMMA ReadCounted ==
  ASSUME Inv, NEW in, InOk(in), RowCount(in) > 0
  PROVE  Counted(read_index_q)
<1>1. CASE count_write = read_index_q
  BY <1>1 DEF Counted
<1>2. CASE count_write # read_index_q
  BY <1>2 DEF Counted, RowCount
<1> QED BY <1>1, <1>2

\* The prediction that is followed with an issue is one of a true row.
LEMMA PredictionLeads ==
  ASSUME Inv, NEW in, InOk(in), Edge(in), DIssue(in), ~DeferredRecovery(in),
         BtbCount(in) >= 2
  PROVE  Led'
<1>1. /\ Holding /\ f_advance_q /\ ~recover_q /\ ~Flushing /\ read_index_q = Index(f_pc_q)
      /\ ~TakeIrq /\ ~IFlushStart(in) /\ ~ResolvedRedirect(in)
  BY IssueWire
<1>2. /\ BtbCount(in) > 0 /\ RowCount(in) > 0 /\ ~clearing_q
      /\ target_mem[read_index_q].tag = Tag(f_pc_q)
  BY HitCounts
<1>3. PredictBtb(in)
  BY <1>1 DEF PredictBtb, Flushing
<1>4. f_pc_q' = target_mem[read_index_q].target
  <2>1. f_pc_q' = ImemAddr(in)
    BY <1>1, FetchMoves
  <2> QED BY <1>1, <1>3, <2>1 DEF ImemAddr
<1>5. True(read_index_q)
  <2>1. read_index_q \in Row
    BY DEF Inv, TypeOK
  <2>2. Counted(read_index_q)
    BY <1>2, ReadCounted
  <2> QED BY <1>1, <1>2, <2>1, <2>2 DEF Inv, BtbInv
<1>6. RowPc(read_index_q) = f_pc_q
  <2>1. f_pc_q \in Nat
    BY InstructionAssumption DEF Inv, TypeOK, Pc
  <2> QED BY <1>1, <1>2, <2>1, RowPcIndex DEF RowPc
<1>7. PICK v \in seen, w \in seen :
        LET i == Text(program, v, f_pc_q)
            long == Text(program, w, Plus(f_pc_q, 1))
        IN  \/ i.op = "BR" /\ f_pc_q' = Plus(f_pc_q, 1 + i.n)
            \/ i.op = "JALL" /\ f_pc_q' = long.n
            \/ i.op \in {"JALR", "RET", "RETI"}
  BY <1>4, <1>5, <1>6 DEF True
<1>8. x'.pc = f_pc_q /\ program' = program /\ seen \subseteq seen'
  BY Issued
<1> QED BY <1>7, <1>8 DEF Led

\* Execute gets the instruction of its address.
LEMMA RightInstruction ==
  ASSUME Inv, NEW in, InOk(in), Edge(in), Executing'
  PROVE  \E v \in seen' : x'.instr = Text(program', v, x'.pc)
<1>1. x_valid_q'
  BY DEF Executing
<1>2. CASE DIssue(in)
  BY <1>2, Issued
<1>3. CASE ~DIssue(in)
  <2>1. Executing /\ ~XSlotAvailable(in) /\ ~TakeIrq /\ x' = x
    BY <1>1, <1>3, ExecuteMoves
  <2>2. PICK v \in seen : x.instr = Text(program, v, x.pc)
    BY <2>1 DEF Inv, ExecuteInv
  <2>3. seen \subseteq seen' /\ program' = program
    BY <2>1, StayWire, SeenGrows DEF Edge
  <2> QED BY <2>1, <2>2, <2>3
<1> QED BY <1>2, <1>3

\* Fetch follows the prediction that Execute remembers.
LEMMA PredictionFollowed ==
  ASSUME Inv, NEW in, InOk(in), Edge(in), Executing', ~Flushing'
  PROVE  IF PredictedTaken' THEN Led' ELSE f_pc_q' = Plus(x'.pc, 1)
<1>1. x_valid_q' /\ ~recover_q' /\ recover_q' = DeferredRecovery(in)
  BY DEF Executing, Edge, FetchStep
<1>2. CASE DIssue(in)
  <2>1. PredictedTaken' <=> BtbCount(in) >= 2
    BY <1>2, Issued, HitCounts, Zenon DEF PredictedTaken
  <2>2. CASE BtbCount(in) >= 2
    BY <1>1, <1>2, <2>1, <2>2, PredictionLeads
  <2>3. CASE ~(BtbCount(in) >= 2)
    <3>1. ~TakeIrq /\ ~IFlushStart(in) /\ ~ResolvedRedirect(in) /\ f_advance_q
      BY <1>2, IssueWire
    <3>2. f_pc_q' = ImemAddr(in)
      BY <1>1, <1>2, <3>1, FetchMoves
    <3>3. ImemAddr(in) = Plus(f_pc_q, 1)
      BY <2>3, <3>1 DEF ImemAddr, PredictBtb, SequentialFetchPc
    <3> QED BY <1>2, <2>1, <2>3, <3>2, <3>3, Issued
  <2> QED BY <2>2, <2>3
<1>3. CASE ~DIssue(in)
  <2>1. Executing /\ ~XSlotAvailable(in) /\ ~TakeIrq /\ x' = x
    BY <1>1, <1>3, ExecuteMoves
  <2>2. ~DeferredRecovery(in) /\ ~IFlushDone(in) /\ ~IFlushStart(in) /\ ~Redirect(in)
    BY <2>1, StayWire, FlushMoves
  <2>3. ~Flushing
    BY <2>2, FlushMoves
  <2>4. f_pc_q' = f_pc_q
    BY <1>3, <2>2, FetchMoves
  <2>5. seen \subseteq seen' /\ program' = program
    BY <2>2, SeenGrows DEF Edge
  <2>6. PredictedTaken' <=> PredictedTaken
    BY <2>1 DEF PredictedTaken
  <2>7. IF PredictedTaken THEN Led ELSE f_pc_q = Plus(x.pc, 1)
    BY <2>1, <2>3 DEF Inv, ExecuteInv
  <2>8. ASSUME Led PROVE Led'
    <3>1. PICK v \in seen, w \in seen :
            LET i == Text(program, v, x.pc)
                long == Text(program, w, Plus(x.pc, 1))
            IN  \/ i.op = "BR" /\ f_pc_q = Plus(x.pc, 1 + i.n)
                \/ i.op = "JALL" /\ f_pc_q = long.n
                \/ i.op \in {"JALR", "RET", "RETI"}
      BY <2>8 DEF Led
    <3> QED BY <2>1, <2>4, <2>5, <3>1 DEF Led
  <2> QED BY <2>1, <2>4, <2>6, <2>7, <2>8
<1> QED BY <1>2, <1>3

\* A JALL knows whether its target was predicted.
LEMMA JallHitRight ==
  ASSUME Inv, NEW in, InOk(in), Edge(in), Executing'
  PROVE  x'.jall_hit <=> XIs({"JALL"})' /\ PredictedTaken'
<1>1. x_valid_q'
  BY DEF Executing
<1>2. CASE DIssue(in)
  <2>1. PredictedTaken' <=> BtbCount(in) >= 2
    BY <1>2, Issued, HitCounts, Zenon DEF PredictedTaken
  <2>2. XIs({"JALL"})' <=> reply.op = "JALL"
    BY <1>2, Issued DEF XIs
  <2>3. x'.jall_hit <=> (reply.op = "JALL" /\ BtbCount(in) >= 2)
    BY <1>2, Issued, Zenon
  <2> QED BY <2>1, <2>2, <2>3
<1>3. CASE ~DIssue(in)
  <2>1. Executing /\ x' = x
    BY <1>1, <1>3, ExecuteMoves
  <2>2. (XIs({"JALL"})' <=> XIs({"JALL"})) /\ (PredictedTaken' <=> PredictedTaken)
    BY <2>1 DEF XIs, PredictedTaken
  <2>3. x.jall_hit <=> XIs({"JALL"}) /\ PredictedTaken
    BY <2>1 DEF Inv, ExecuteInv
  <2> QED BY <2>1, <2>2, <2>3
<1> QED BY <1>2, <1>3

\* A flush holds its instruction, and nothing is fetched before it is done.
LEMMA FlushHolds ==
  ASSUME Inv, NEW in, InOk(in), Edge(in), Flushing'
  PROVE  /\ x_valid_q' /\ XIs({"IFLUSH"})' /\ f_pc_q' = x'.pc /\ f_advance_q'
         /\ ~Holding' /\ ~recover_q'
<1>1. recover_q' = DeferredRecovery(in)
  BY DEF Edge, FetchStep
<1>2. /\ Executing /\ XIs({"IFLUSH"}) /\ ~XSlotAvailable(in) /\ ~TakeIrq /\ ~DIssue(in)
      /\ ~DeferredRecovery(in) /\ ~IAccept(in)
  <2>1. CASE IFlushStart(in)
    BY <2>1, FlushStartWire, FetchWire DEF DIssue
  <2>2. CASE Flushing /\ ~IFlushDone(in)
    BY <2>2, FlushWire, FetchWire DEF Inv, ExecuteInv, Executing
  <2> QED BY <2>1, <2>2, FlushMoves
<1>3. x' = x /\ x_valid_q'
  BY <1>2 DEF Edge, ExecuteStep, Executing
<1>4. XIs({"IFLUSH"})'
  BY <1>2, <1>3 DEF XIs
<1>5. f_pc_q' = x.pc /\ f_advance_q' /\ ~Holding'
  <2>1. CASE IFlushStart(in)
    BY <1>2, <2>1, FetchMoves, FetchHolds, FlushStartWire
  <2>2. CASE ~IFlushStart(in)
    <3>1. Flushing /\ ~IFlushDone(in)
      BY <2>2, FlushMoves
    <3>2. ~Redirect(in) /\ ~FetchReady(in) /\ ~Holding /\ f_pc_q = x.pc /\ f_advance_q
      BY <3>1, FlushWire DEF Inv, ExecuteInv
    <3>3. f_pc_q' = f_pc_q /\ f_advance_q' = f_advance_q
      BY <1>2, <2>2, <3>2 DEF Edge, FetchStep
    <3> QED BY <1>2, <3>2, <3>3, FetchHolds
  <2> QED BY <2>1, <2>2
<1> QED BY <1>1, <1>2, <1>3, <1>4, <1>5

-----------------------------------------------------------------------------
(* Writeback. *)

\* What the completion slot writes when it does not wait for a load.
LEMMA PlainResult ==
  ASSUME TypeOK, ~data_pending_q PROVE RfWdata = w_result_q
<1>1. w_result_q \in Pc /\ w_result_q + 0 = w_result_q
  BY InstructionAssumption DEF TypeOK, Pc
<1> QED BY <1>1, PcMod DEF RfWdata

\* When the slot drains, the register file becomes what it stood for.
LEMMA Drained ==
  ASSUME Inv, NEW in, InOk(in), Edge(in), CoreAdvance(in)
  PROVE  rf' = Committed
<1>1. rf \in [Registers -> Pc] /\ w_dst_q \in Registers
  BY DEF Inv, TypeOK
<1>2. rf' = IF w_we_q THEN [rf EXCEPT ![w_dst_q] = RfWdata] ELSE rf
  BY DEF Edge, WritebackStep, RfWe
<1> QED BY <1>1, <1>2 DEF Committed

\* When nothing is pushed the slot empties, or waits as it is.
LEMMA NoPush ==
  ASSUME Inv, NEW in, InOk(in), Edge(in), ~XFinish(in), ~TakeIrq
  PROVE  /\ w_dst_q' = w_dst_q /\ w_result_q' = w_result_q
         /\ CoreAdvance(in) => ~w_we_q' /\ ~data_pending_q'
         /\ ~CoreAdvance(in) => /\ w_we_q' = w_we_q /\ data_pending_q' = data_pending_q
                                /\ rf' = rf
         /\ loaded' = loaded /\ mem' = mem
<1>1. ~DataAccept(in)
  BY RunWires
<1> QED BY <1>1 DEF Edge, WritebackStep, DataStep, RfWe

\* Without a push the registers stay what they were.
LEMMA CommittedKept ==
  ASSUME Inv, NEW in, InOk(in), Edge(in), ~XFinish(in), ~TakeIrq
  PROVE  Committed' = Committed
<1>1. CASE CoreAdvance(in)
  <2>1. rf' = Committed /\ ~w_we_q'
    BY <1>1, Drained, NoPush
  <2>2. Committed' = [r \in Registers |-> rf'[r]]
    BY <2>1 DEF Committed
  <2>3. Committed = [r \in Registers |-> Committed[r]]
    BY DEF Committed
  <2> QED BY <2>1, <2>2, <2>3
<1>2. CASE ~CoreAdvance(in)
  BY <1>2, NoPush DEF Committed, RfWdata
<1> QED BY <1>1, <1>2

\* A push writes one register, or none.
LEMMA CommittedPushed ==
  ASSUME Inv, NEW in, InOk(in), Edge(in), CoreAdvance(in)
  PROVE  Committed' = IF w_we_q' THEN [Committed EXCEPT ![w_dst_q'] = RfWdata'] ELSE Committed
<1>1. rf' = Committed
  BY Drained
<1>2. Committed' = [r \in Registers |-> IF w_we_q' /\ w_dst_q' = r THEN RfWdata' ELSE rf'[r]]
  BY DEF Committed
<1>3. Committed = [r \in Registers |-> Committed[r]]
  BY DEF Committed
<1> QED BY <1>1, <1>2, <1>3

\* What is pushed.
LEMMA Pushed ==
  ASSUME Inv, NEW in, InOk(in), Edge(in), XFinish(in)
  PROVE  /\ w_we_q' = Writes(x.instr)
         /\ Writes(x.instr) => w_dst_q' = x.instr.d
         /\ w_result_q' = XResult
         /\ data_pending_q' = XMemory
         /\ CoreAdvance(in) /\ ~TakeIrq
<1>1. CoreAdvance(in) /\ ~TakeIrq
  BY FinishWire
<1>2. DataAccept(in) <=> XMemory
  BY RunWires DEF DataAccept
<1>3. data_pending_q' = XMemory
  <2>1. data_pending_q' = DataAccept(in)
    BY <1>1 DEF Edge, DataStep
  <2>2. DataAccept(in) \in BOOLEAN /\ XMemory \in BOOLEAN
    BY DEF DataAccept, XMemory, XIs
  <2> QED BY <1>2, <2>1, <2>2
<1>4. w_we_q' = Writes(x.instr)
  <2>1. w_we_q' = (TRUE /\ (FALSE \/ Writes(x.instr)))
    BY <1>1 DEF Edge, WritebackStep
  <2> QED BY <2>1 DEF Writes
<1> QED BY <1>1, <1>3, <1>4 DEF Edge, WritebackStep

\* What an instruction that stays in Execute finds in its operands.
LEMMA OperandRead ==
  ASSUME Inv, NEW r \in Registers, NEW f \in BOOLEAN, Ready(r, f)
  PROVE  (IF f THEN w_result_q ELSE rf[r]) = Committed[r]
<1>1. CASE f
  <2>1. w_dst_q = r /\ ~data_pending_q /\ (w_we_q \/ rf[r] = w_result_q)
    BY <1>1 DEF Ready
  <2>2. RfWdata = w_result_q
    BY <2>1, PlainResult DEF Inv
  <2> QED BY <1>1, <2>1, <2>2 DEF Committed
<1>2. CASE ~f
  BY <1>2 DEF Ready, Committed
<1> QED BY <1>1, <1>2

\* The operands of an instruction that may run are its registers.
LEMMA OperandsRight ==
  ASSUME Inv, Executing, ~x_load_wait_q
  PROVE  /\ ReadsA(x.instr) => RfA = Committed[x.instr.a]
         /\ ReadsB(x.instr) => RfB = Committed[x.instr.b]
<1>1. /\ x.instr.a \in Registers /\ x.instr.b \in Registers
      /\ x.forward_a \in BOOLEAN /\ x.forward_b \in BOOLEAN
  BY XFields, InstructionFields DEF Inv
<1>2. /\ ReadsA(x.instr) => Ready(x.instr.a, x.forward_a)
      /\ ReadsB(x.instr) => Ready(x.instr.b, x.forward_b)
  BY DEF Inv, DataInv
<1> QED BY <1>1, <1>2, OperandRead DEF RfA, RfB

\* An operand that can be read can be read as long as nothing is pushed.
LEMMA ReadyStays ==
  ASSUME Inv, NEW in, InOk(in), Edge(in), ~XFinish(in), ~TakeIrq,
         NEW r \in Registers, NEW f \in BOOLEAN, Ready(r, f)
  PROVE  Ready(r, f)'
<1>1. /\ w_dst_q' = w_dst_q /\ w_result_q' = w_result_q
      /\ CoreAdvance(in) => ~w_we_q' /\ ~data_pending_q'
      /\ ~CoreAdvance(in) => w_we_q' = w_we_q /\ data_pending_q' = data_pending_q /\ rf' = rf
  BY NoPush
<1>2. CASE ~f
  BY <1>1, <1>2 DEF Ready
<1>3. CASE f
  <2>1. w_dst_q = r /\ ~data_pending_q /\ (w_we_q \/ rf[r] = w_result_q)
    BY <1>3 DEF Ready
  <2>2. CASE CoreAdvance(in)
    <3>1. rf'[r] = w_result_q
      <4>1. rf' = Committed /\ RfWdata = w_result_q
        BY <2>1, <2>2, Drained, PlainResult DEF Inv
      <4> QED BY <2>1, <4>1 DEF Committed
    <3> QED BY <1>1, <1>3, <2>1, <2>2, <3>1 DEF Ready
  <2>3. CASE ~CoreAdvance(in)
    BY <1>1, <1>3, <2>1, <2>3 DEF Ready
  <2> QED BY <2>2, <2>3
<1> QED BY <1>2, <1>3

\* A load leaves zero in the slot that its data is added to.
LEMMA LoadSlot ==
  ASSUME Inv, NEW in, InOk(in), Edge(in), data_pending_q', w_we_q'
  PROVE  w_result_q' = 0
<1>1. CASE XFinish(in)
  <2>1. Writes(x.instr) /\ XMemory
    BY <1>1, Pushed
  <2>2. XIs({"LD"})
    BY <2>1 DEF Writes, Links, XMemory, XIs
  <2>3. w_result_q' = XResult /\ ~TakeIrq
    BY <1>1, Pushed
  <2> QED BY <2>2, <2>3 DEF XResult
<1>2. CASE ~XFinish(in)
  <2>1. ~TakeIrq
    <3>1. TakeIrq => ~DataAccept(in) /\ CoreAdvance(in)
      BY RunWires
    <3> QED BY <3>1 DEF Edge, DataStep
  <2>2. data_pending_q /\ w_we_q /\ w_result_q' = w_result_q
    BY <1>2, <2>1, NoPush
  <2> QED BY <2>2 DEF Inv, DataInv
<1> QED BY <1>1, <1>2

\* What a load-use stall waits for.
LEMMA LoadWaitHolds ==
  ASSUME Inv, NEW in, InOk(in), Edge(in), x_load_wait_q'
  PROVE  /\ Executing' /\ state_q' = "RUN" /\ data_pending_q' /\ w_we_q'
         /\ ~x'.forward_a /\ ~x'.forward_b
<1>1. recover_q' = DeferredRecovery(in)
  BY DEF Edge, FetchStep
<1>2. CASE CoreAdvance(in)
  <2>1. DIssue(in) /\ LoadUse
    BY <1>2 DEF Edge, ExecuteStep
  <2>2. XIs({"LD"}) /\ x_valid_q /\ XFinish(in) /\ ~Flushing
    BY <2>1, IssueWire DEF LoadUse
  <2>3. XMemory /\ Writes(x.instr)
    BY <2>2 DEF XMemory, XIs, Writes
  <2>4. data_pending_q' /\ w_we_q'
    BY <2>2, <2>3, Pushed
  <2>5. ~DeferredRecovery(in) /\ ~MulStart(in) /\ ~IFlushStart(in) /\ state_q = "RUN"
    <3>1. DataAccept(in)
      BY <2>2, <2>3, RunWires
    <3> QED BY <2>2, <3>1, RunWires DEF DeferredRecovery, MulStart, IFlushStart, XIs
  <2>6. state_q' = "RUN"
    BY <1>2, <2>2, <2>5 DEF Edge, ExecuteStep, NextState
  <2>7. x_valid_q' /\ ~x'.forward_a /\ ~x'.forward_b
    BY <2>1, <2>2, Issued DEF Forward
  <2> QED BY <1>1, <2>4, <2>5, <2>6, <2>7 DEF Executing
<1>3. CASE ~CoreAdvance(in)
  <2>1. x_load_wait_q
    BY <1>3 DEF Edge, ExecuteStep
  <2>2. Executing /\ state_q = "RUN" /\ data_pending_q /\ w_we_q /\ ~x.forward_a /\ ~x.forward_b
    BY <2>1 DEF Inv, DataInv
  <2>3. ~XFinish(in) /\ ~TakeIrq /\ ~XSlotAvailable(in) /\ ~DeferredRecovery(in) /\ ~DIssue(in)
    BY <1>3, FinishWire, RunWires DEF DIssue
  <2>4. x' = x /\ x_valid_q' /\ state_q' = state_q /\ data_pending_q' /\ w_we_q'
    BY <1>3, <2>2, <2>3, NoPush DEF Edge, ExecuteStep, Executing
  <2> QED BY <1>1, <2>2, <2>3, <2>4 DEF Executing
<1> QED BY <1>2, <1>3

\* An instruction that is issued finds its operand r: in the slot, if the instruction
\* before it writes it, or in the register file.
LEMMA ReadyIssued ==
  ASSUME Inv, NEW in, InOk(in), Edge(in), DIssue(in), ~x_load_wait_q',
         NEW r \in Registers, r \in Sources(reply) \/ r \in System,
         NEW f \in BOOLEAN, f <=> Forward(r)
  PROVE  Ready(r, f)'
<1>1. CoreAdvance(in) /\ ~TakeIrq /\ (x_valid_q <=> XFinish(in))
  BY IssueWire
<1>2. ~LoadUse
  BY <1>1 DEF Edge, ExecuteStep
<1>3. CASE f
  <2>1. x_valid_q /\ Writes(x.instr) /\ ~XIs({"LD"}) /\ x.instr.d = r
    BY <1>3 DEF Forward
  <2>2. ~XMemory
    BY <2>1 DEF XMemory, XIs, Writes, Links
  <2>3. w_we_q' /\ w_dst_q' = r /\ ~data_pending_q'
    BY <1>1, <2>1, <2>2, Pushed
  <2> QED BY <1>3, <2>3 DEF Ready
<1>4. CASE ~f
  <2>1. ~(w_we_q' /\ w_dst_q' = r)
    <3>1. CASE ~x_valid_q
      BY <1>1, <3>1, NoPush
    <3>2. CASE x_valid_q
      <4>1. w_we_q' = Writes(x.instr) /\ (Writes(x.instr) => w_dst_q' = x.instr.d)
        BY <1>1, <3>2, Pushed
      <4>2. ASSUME Writes(x.instr), x.instr.d = r PROVE FALSE
        <5>1. XIs({"LD"})
          BY <1>4, <3>2, <4>2 DEF Forward
        <5>2. x.instr.d \in General
          BY <5>1, XFields, InstructionFields DEF XIs, Inv
        <5>3. r \notin System
          BY <4>2, <5>2, RegisterFacts
        <5> QED BY <1>2, <3>2, <4>2, <5>1, <5>3 DEF LoadUse
      <4> QED BY <4>1, <4>2
    <3> QED BY <3>1, <3>2
  <2> QED BY <1>4, <2>1 DEF Ready
<1> QED BY <1>3, <1>4

\* What an instruction reads is a source that Decode compares, or a system register,
\* which no load writes.
LEMMA ReadsAreSources ==
  ASSUME NEW i \in Instruction
  PROVE  /\ ReadsA(i) => i.a \in Sources(i) \/ i.a \in System
         /\ ReadsB(i) => i.b \in Sources(i)
         /\ i.op = "BR" => 0 \in Sources(i)
         /\ i.a \in Registers /\ i.b \in Registers
BY InstructionFields, RegisterFacts DEF ReadsA, ReadsB, Sources

\* The operands of what is in Execute after a step.
LEMMA OperandsReady ==
  ASSUME Inv, NEW in, InOk(in), Edge(in), Executing', ~x_load_wait_q'
  PROVE  /\ ReadsA(x'.instr) => Ready(x.instr.a, x.forward_a)'
         /\ ReadsB(x'.instr) => Ready(x.instr.b, x.forward_b)'
         /\ XIs({"BR"})' => ~(data_pending_q' /\ w_we_q' /\ w_dst_q' = 0)
<1>1. x_valid_q'
  BY DEF Executing
<1>2. CASE DIssue(in)
  <2>1. x'.instr = reply /\ x'.forward_a = Forward(reply.a) /\ x'.forward_b = Forward(reply.b)
    BY <1>2, Issued
  <2>2. reply \in Instruction
    BY DEF Inv, TypeOK
  <2>3. ASSUME ReadsA(reply) PROVE Ready(x.instr.a, x.forward_a)'
    <3>1. PICK r \in Registers : r = reply.a
      BY <2>2, ReadsAreSources
    <3>2. PICK f \in BOOLEAN : f = Forward(r)
      BY DEF Forward
    <3>3. Ready(r, f)'
      BY <1>2, <2>2, <2>3, <3>1, <3>2, ReadsAreSources, ReadyIssued
    <3>4. x'.instr.a = r /\ x'.forward_a = f
      BY <2>1, <3>1, <3>2
    <3> QED BY <3>3, <3>4 DEF Ready
  <2>4. ASSUME ReadsB(reply) PROVE Ready(x.instr.b, x.forward_b)'
    <3>1. PICK r \in Registers : r = reply.b
      BY <2>2, ReadsAreSources
    <3>2. PICK f \in BOOLEAN : f = Forward(r)
      BY DEF Forward
    <3>3. Ready(r, f)'
      BY <1>2, <2>2, <2>4, <3>1, <3>2, ReadsAreSources, ReadyIssued
    <3>4. x'.instr.b = r /\ x'.forward_b = f
      BY <2>1, <3>1, <3>2
    <3> QED BY <3>3, <3>4 DEF Ready
  <2>5. ASSUME reply.op = "BR" PROVE ~(data_pending_q' /\ w_we_q' /\ w_dst_q' = 0)
    <3>1. 0 \in Registers /\ 0 \in Sources(reply)
      BY <2>2, <2>5, ReadsAreSources, RegisterFacts
    <3>2. PICK f \in BOOLEAN : f = Forward(0)
      BY DEF Forward
    <3>3. Ready(0, f)'
      BY <1>2, <3>1, <3>2, ReadyIssued
    <3> QED BY <3>3 DEF Ready
  <2>6. XIs({"BR"})' => reply.op = "BR"
    BY <2>1 DEF XIs
  <2> QED BY <2>1, <2>3, <2>4, <2>5, <2>6
<1>3. CASE ~DIssue(in)
  <2>1. Executing /\ ~XFinish(in) /\ ~TakeIrq /\ x' = x
    BY <1>1, <1>3, ExecuteMoves
  <2>2. /\ x.instr.a \in Registers /\ x.instr.b \in Registers
        /\ x.forward_a \in BOOLEAN /\ x.forward_b \in BOOLEAN
    BY XFields, InstructionFields DEF Inv
  <2>3. PICK a \in Registers, b \in Registers, fa \in BOOLEAN, fb \in BOOLEAN :
          a = x.instr.a /\ b = x.instr.b /\ fa = x.forward_a /\ fb = x.forward_b
    BY <2>2
  <2>4. CASE x_load_wait_q
    <3>1. ~x.forward_a /\ ~x.forward_b /\ data_pending_q
      BY <2>4 DEF Inv, DataInv
    <3>2. CoreAdvance(in)
      BY <2>4 DEF Edge, ExecuteStep
    <3>3. ~w_we_q'
      BY <2>1, <3>2, NoPush
    <3> QED BY <2>1, <3>1, <3>3 DEF Ready
  <2>5. CASE ~x_load_wait_q
    <3>1. /\ ReadsA(x.instr) => Ready(x.instr.a, x.forward_a)
          /\ ReadsB(x.instr) => Ready(x.instr.b, x.forward_b)
          /\ XIs({"BR"}) => ~(data_pending_q /\ w_we_q /\ w_dst_q = 0)
      BY <2>1, <2>5 DEF Inv, DataInv
    <3>2. ReadsA(x.instr) => Ready(a, fa)'
      BY <2>1, <2>3, <3>1, ReadyStays
    <3>3. ReadsB(x.instr) => Ready(b, fb)'
      BY <2>1, <2>3, <3>1, ReadyStays
    <3>4. XIs({"BR"}) => ~(data_pending_q' /\ w_we_q' /\ w_dst_q' = 0)
      BY <2>1, <3>1, NoPush
    <3>5. /\ x'.instr.a = a /\ x'.instr.b = b /\ x'.forward_a = fa /\ x'.forward_b = fb
          /\ x'.instr = x.instr /\ (XIs({"BR"})' <=> XIs({"BR"}))
      BY <2>1, <2>3 DEF XIs
    <3> QED BY <3>2, <3>3, <3>4, <3>5 DEF Ready
  <2> QED BY <2>4, <2>5
<1> QED BY <1>2, <1>3

\* The data side keeps its invariant.
LEMMA DataInvStep ==
  ASSUME Inv, NEW in, InOk(in), Edge(in)
  PROVE  DataInv'
<1>1. ReadsA(x.instr)' <=> ReadsA(x'.instr)
  BY DEF ReadsA
<1>2. ReadsB(x.instr)' <=> ReadsB(x'.instr)
  BY DEF ReadsB
<1> QED BY <1>1, <1>2, LoadSlot, LoadWaitHolds, OperandsReady DEF DataInv

-----------------------------------------------------------------------------
(* The multi-cycle states. *)

\* The state after a step is another than running only while an instruction that
\* needs it stays in Execute.
LEMMA StateStays ==
  ASSUME Inv, NEW in, InOk(in), Edge(in), state_q' # "RUN"
  PROVE  /\ Executing' /\ ~data_pending_q' /\ ~x_load_wait_q' /\ x' = x
         /\ CoreAdvance(in) /\ ~XFinish(in) /\ ~TakeIrq
         /\ Multiplying' => MulStart(in) \/ Multiplying
<1>1. recover_q' = DeferredRecovery(in)
  BY DEF Edge, FetchStep
<1>2. state_q # "RUN" => Executing /\ ~data_pending_q
  BY DEF Inv, ExecuteInv
<1>3. state_q' = IF CoreAdvance(in) THEN NextState(in) ELSE state_q
  BY DEF Edge, ExecuteStep
<1>4. CoreAdvance(in)
  BY <1>2, <1>3 DEF CoreAdvance
<1>5. CASE IFlushStart(in)
  <2>1. /\ Executing /\ ~XFinish(in) /\ ~XSlotAvailable(in) /\ ~TakeIrq /\ ~DeferredRecovery(in)
    BY <1>5, FlushStartWire
  <2>2. ~Multiplying'
    BY <1>3, <1>4, <1>5 DEF NextState, Multiplying
  <2> QED BY <1>1, <1>4, <2>1, <2>2, NoPush DEF Edge, ExecuteStep, Executing, DIssue
<1>6. CASE ~IFlushStart(in) /\ MulStart(in)
  <2>1. Executing /\ state_q = "RUN" /\ XIs({"MUL"}) /\ NormalX(in)
    BY <1>6, RunWires DEF MulStart
  <2>2. ~XFinish(in)
    BY <2>1 DEF XFinish, XReady, RunReady, IFlushDone, XIs
  <2>3. ~XSlotAvailable(in) /\ ~TakeIrq /\ ~DeferredRecovery(in)
    BY <2>1, <2>2, FinishWire, RunWires DEF Executing
  <2> QED BY <1>1, <1>4, <1>6, <2>1, <2>2, <2>3, NoPush DEF Edge, ExecuteStep, Executing, DIssue
<1>7. CASE ~IFlushStart(in) /\ ~MulStart(in)
  <2>1. ~Redirect(in) /\ state_q # "RUN"
    BY <1>3, <1>4, <1>7 DEF NextState
  <2>2. Executing /\ ~TakeIrq /\ ~IFlushDone(in) /\ x_valid_q
    BY <1>2, <2>1 DEF Redirect, Executing
  <2>3. ~XFinish(in)
    <3>1. state_q = "MUL" \/ state_q = "MUL_CALC" \/ state_q = "IFLUSH"
      BY <2>1 DEF Inv, TypeOK
    <3>2. CASE state_q = "MUL_CALC" \/ state_q = "IFLUSH"
      BY <2>2, <3>2 DEF XFinish, XReady, RunReady, RunX
    <3>3. CASE state_q = "MUL"
      BY <1>3, <1>4, <1>7, <2>1, <3>3 DEF NextState, XFinish, XReady
    <3> QED BY <3>1, <3>2, <3>3
  <2>4. ~XSlotAvailable(in) /\ ~DeferredRecovery(in)
    BY <2>2, <2>3, FinishWire, RunWires
  <2>5. Multiplying' => Multiplying
    BY <1>3, <1>4, <1>7, <2>1, <2>3 DEF NextState, Multiplying
  <2> QED BY <1>1, <1>4, <2>2, <2>3, <2>4, <2>5, NoPush DEF Edge, ExecuteStep, Executing, DIssue
<1> QED BY <1>5, <1>6, <1>7

\* The product is that of the operands.
LEMMA ProductRight ==
  ASSUME Inv, NEW in, InOk(in), Edge(in), Multiplying'
  PROVE  /\ XIs({"MUL"})'
         /\ product' = (Committed'[x'.instr.a] * Committed'[x'.instr.b]) % Size
<1>1. state_q' # "RUN"
  BY DEF Multiplying
<1>2. x' = x /\ ~XFinish(in) /\ ~TakeIrq /\ (MulStart(in) \/ Multiplying)
  BY <1>1, StateStays
<1>3. Committed' = Committed
  BY <1>2, CommittedKept
<1>4. CASE MulStart(in)
  <2>1. XIs({"MUL"}) /\ Executing /\ ~x_load_wait_q
    BY <1>4, RunWires DEF MulStart
  <2>2. RfA = Committed[x.instr.a] /\ RfB = Committed[x.instr.b]
    BY <2>1, OperandsRight DEF ReadsA, ReadsB, XIs
  <2>3. product' = (RfA * RfB) % Size
    BY <1>4 DEF Edge, ExecuteStep
  <2> QED BY <1>2, <1>3, <2>1, <2>2, <2>3 DEF XIs
<1>5. CASE ~MulStart(in)
  <2>1. XIs({"MUL"}) /\ product = (Committed[x.instr.a] * Committed[x.instr.b]) % Size
    BY <1>2, <1>5 DEF Inv, ExecuteInv
  <2>2. product' = product
    BY <1>5 DEF Edge, ExecuteStep
  <2> QED BY <1>2, <1>3, <2>1, <2>2 DEF XIs
<1> QED BY <1>4, <1>5

\* Execute keeps its invariant.
LEMMA ExecuteInvStep ==
  ASSUME Inv, NEW in, InOk(in), Edge(in)
  PROVE  ExecuteInv'
<1>1. Executing' => \E v \in seen' : x'.instr = Text(program', v, x'.pc)
  BY RightInstruction
<1>2. Executing' /\ ~Flushing' => IF PredictedTaken' THEN Led' ELSE f_pc_q' = Plus(x'.pc, 1)
  BY PredictionFollowed
<1>3. Executing' => (x'.jall_hit <=> XIs({"JALL"})' /\ PredictedTaken')
  BY JallHitRight
<1>4. Flushing' => /\ x_valid_q' /\ XIs({"IFLUSH"})' /\ f_pc_q' = x'.pc /\ f_advance_q'
                   /\ ~Holding' /\ ~recover_q'
  BY FlushHolds
<1>5. state_q' # "RUN" => Executing' /\ ~data_pending_q' /\ ~x_load_wait_q'
  BY StateStays
<1>6. Multiplying' => /\ XIs({"MUL"})'
                      /\ product' = (Committed'[x'.instr.a] * Committed'[x'.instr.b]) % Size
  BY ProductRight
<1> QED BY <1>1, <1>2, <1>3, <1>4, <1>5, <1>6 DEF ExecuteInv

-----------------------------------------------------------------------------
(* The branch target buffer. *)

\* What an update writes, when the table is not being cleared.
LEMMA Learns ==
  ASSUME Inv, NEW in, InOk(in), Edge(in), ~clearing_q, ~IFlushStart(in)
  PROVE  /\ clearing_q' = clearing_q
         /\ target_write' = IF Update(in) /\ ReplaceTarget(in) THEN Index(x.pc) ELSE NoRow
         /\ count_write' = IF Update(in) /\ ~ReplaceTarget(in) THEN Index(x.pc) ELSE NoRow
         /\ target_mem' = IF Update(in) /\ ReplaceTarget(in)
                          THEN [target_mem EXCEPT ![Index(x.pc)] =
                                  [tag |-> Tag(x.pc), target |-> ResolvedTarget]]
                          ELSE target_mem
         /\ count_mem' = IF Update(in) THEN [count_mem EXCEPT ![Index(x.pc)] = CountNext]
                         ELSE count_mem
BY DEF Edge, BtbStep, BtbFlush

\* An update comes from an instruction that leaves Execute.
LEMMA UpdateWire ==
  ASSUME Inv, NEW in, InOk(in), Update(in)
  PROVE  XFinish(in) /\ Executing /\ ~XIs({"IFLUSH"}) /\ ~Flushing
<1>1. XFinish(in) /\ ~XIs({"IFLUSH"})
  BY DEF Update
<1> QED BY <1>1, FinishWire DEF Inv, ExecuteInv

\* A row that nobody writes stays true while the code that may be fetched grows.
LEMMA TrueKept ==
  ASSUME NEW r, True(r), seen \subseteq seen', program' = program,
         target_mem'[r] = target_mem[r]
  PROVE  True(r)'
<1>1. PICK v \in seen, w \in seen :
        LET i == Text(program, v, RowPc(r))
            long == Text(program, w, Plus(RowPc(r), 1))
        IN  \/ i.op = "BR" /\ target_mem[r].target = Plus(RowPc(r), 1 + i.n)
            \/ i.op = "JALL" /\ target_mem[r].target = long.n
            \/ i.op \in {"JALR", "RET", "RETI"}
  BY DEF True
<1>2. RowPc(r)' = RowPc(r)
  BY DEF RowPc
<1> QED BY <1>1, <1>2 DEF True

\* A new row is true: it gives the target that Execute has just computed.
LEMMA TrueLearned ==
  ASSUME Inv, NEW in, InOk(in), Edge(in), Update(in), ReplaceTarget(in),
         ~clearing_q, ~IFlushStart(in), NEW r \in Row, r = Index(x.pc)
  PROVE  True(r)'
<1>1. XFinish(in) /\ Executing /\ ~Flushing /\ XTaken
  BY UpdateWire DEF ReplaceTarget
<1>2. ~IFlushDone(in)
  BY <1>1 DEF IFlushDone, Flushing
<1>3. seen \subseteq seen' /\ program' = program
  BY <1>2, SeenGrows DEF Edge
<1>4. target_mem'[r].tag = Tag(x.pc) /\ target_mem'[r].target = ResolvedTarget
  <2>1. target_mem' = [target_mem EXCEPT ![r] = [tag |-> Tag(x.pc), target |-> ResolvedTarget]]
    BY Learns
  <2>2. target_mem'[r] = [tag |-> Tag(x.pc), target |-> ResolvedTarget]
    BY <2>1 DEF Inv, TypeOK
  <2> QED BY <2>2
<1>5. RowPc(r)' = x.pc
  <2>1. x.pc \in Nat
    BY XFields, InstructionAssumption DEF Inv, Pc
  <2>2. RowPc(r)' = Tag(x.pc) * Rows + ((r + Rows * Tag(x.pc) - Tag(x.pc)) % Rows)
    BY <1>4 DEF RowPc
  <2> QED BY <2>1, <2>2, RowPcIndex
<1>6. PICK v \in seen : x.instr = Text(program, v, x.pc)
  BY <1>1 DEF Inv, ExecuteInv
<1>7. CASE BranchTaken
  <2>1. x.instr.op = "BR" /\ ResolvedTarget = Plus(x.pc, 1 + x.instr.n)
    BY <1>7 DEF BranchTaken, ResolvedTarget, XIs, XIndirect
  <2> QED BY <1>3, <1>4, <1>5, <1>6, <2>1 DEF True
<1>8. CASE XIndirect
  BY <1>3, <1>5, <1>6, <1>8 DEF True, XIndirect, XIs
<1>9. CASE XIs({"JALL"})
  <2>1. x.instr.op = "JALL" /\ ~XIndirect /\ ResolvedTarget = reply.n
    BY <1>9 DEF XIs, XIndirect, ResolvedTarget
  <2>2. ~x.hit
    BY <2>1 DEF ReplaceTarget
  <2>3. ~PredictedTaken /\ f_pc_q = Plus(x.pc, 1) /\ ~x.jall_hit
    BY <1>1, <2>2 DEF Inv, ExecuteInv, PredictedTaken
  <2>4. DValid(in)
    <3>1. state_q # "MUL"
      BY <1>9 DEF Inv, ExecuteInv, Multiplying, XIs
    <3> QED BY <1>1, <1>2, <1>9, <2>3, <3>1 DEF XFinish, XReady, RunReady
  <2>5. Holding /\ ~recover_q
    BY <1>1, <2>4, FetchWire DEF Executing
  <2>6. PICK w \in seen : reply = Text(program, w, f_pc_q)
    BY <2>5 DEF Inv, FetchInv
  <2> QED BY <1>3, <1>4, <1>5, <1>6, <2>1, <2>3, <2>6 DEF True
<1> QED BY <1>1, <1>7, <1>8, <1>9 DEF XTaken

\* What is counted on after a step was written now, or was counted on before.
LEMMA CountedBefore ==
  ASSUME Inv, NEW in, InOk(in), Edge(in), ~clearing_q, ~Flushing, ~IFlushStart(in),
         NEW r \in Row, Counted(r)', ~(Update(in) /\ ReplaceTarget(in) /\ r = Index(x.pc))
  PROVE  Counted(r)
<1>1. count_mem \in [Row -> Count]
  BY DEF Inv, TypeOK
<1>2. ASSUME Update(in), ~ReplaceTarget(in), r = Index(x.pc), CountNext > 0 \/ x.hit
      PROVE  Counted(r)
  <2>1. Executing
    BY <1>2, UpdateWire
  <2>2. x.count \in {0, 1, 2, 3}
    BY XFields DEF Inv, Count
  <2>3. x.count > 0
    <3>1. CASE x.hit
      BY <2>1, <3>1 DEF Inv, BtbInv
    <3>2. CASE ~x.hit
      <4>1. ~(x.count < 2)
        BY <1>2, <3>2 DEF Update, ReplaceTarget
      <4> QED BY <2>2, <4>1
    <3> QED BY <3>1, <3>2
  <2> QED BY <1>2, <2>1, <2>3 DEF Counted
<1>3. CASE count_mem'[r] > 0
  <2>1. CASE Update(in) /\ r = Index(x.pc)
    <3>1. count_mem'[r] = CountNext
      BY <1>1, <2>1, Learns
    <3> QED BY <1>2, <1>3, <2>1, <3>1
  <2>2. CASE ~(Update(in) /\ r = Index(x.pc))
    <3>1. count_mem'[r] = count_mem[r]
      BY <1>1, <2>2, Learns
    <3> QED BY <1>3, <3>1 DEF Counted
  <2> QED BY <2>1, <2>2
<1>4. CASE count_write' = r
  <2>1. r # NoRow
    BY PipeAssumption DEF Row
  <2>2. Update(in) /\ ~ReplaceTarget(in) /\ r = Index(x.pc)
    BY <1>4, <2>1, Learns
  <2>3. x.hit \/ CountNext > 0
    <3>1. CASE ~x.hit
      <4>1. ~(x.count < 2)
        BY <2>2, <3>1 DEF Update, ReplaceTarget
      <4>2. x.count \in {0, 1, 2, 3}
        BY XFields DEF Inv, Count
      <4> QED BY <3>1, <4>1, <4>2 DEF CountNext
    <3> QED BY <3>1
  <2> QED BY <1>2, <2>2, <2>3
<1>5. CASE Executing' /\ x'.count > 0 /\ r = Index(x'.pc)
  <2>1. CASE DIssue(in)
    <3>1. RowCount(in) > 0 /\ r = Index(f_pc_q) /\ read_index_q = Index(f_pc_q)
      BY <1>5, <2>1, Issued, IssueWire
    <3> QED BY <3>1, ReadCounted
  <2>2. CASE ~DIssue(in)
    <3>1. Executing /\ x' = x
      BY <1>5, <2>2, ExecuteMoves DEF Executing
    <3> QED BY <1>5, <3>1 DEF Counted
  <2> QED BY <2>1, <2>2
<1> QED BY <1>3, <1>4, <1>5 DEF Counted

\* Outside of flushes every row that is counted on is true.
LEMMA RowsTrue ==
  ASSUME Inv, NEW in, InOk(in), Edge(in), ~clearing_q', ~Flushing',
         NEW r \in Row, Counted(r)'
  PROVE  True(r)'
<1>1. ~IFlushStart(in) /\ (Flushing => IFlushDone(in))
  BY FlushMoves
<1>2. CASE clearing_q
  <2>1. ~Flushing
    BY <1>1, <1>2 DEF IFlushDone
  <2>2. ~x_valid_q /\ ~f_advance_q /\ ~recover_q /\ \A s \in Row : s < clear_q => count_mem[s] = 0
    BY <1>2, <2>1 DEF Inv, BtbInv
  <2>3. /\ count_mem' = [count_mem EXCEPT ![clear_q] = 0]
        /\ clearing_q' = (clear_q # Rows - 1) /\ count_write' = NoRow
    BY <1>1, <1>2 DEF Edge, BtbStep, BtbFlush
  <2>4. count_mem'[r] = 0
    <3>1. clear_q = Rows - 1
      BY <2>3
    <3>2. r < clear_q \/ r = clear_q
      BY <3>1, PipeAssumption DEF Row
    <3> QED BY <2>2, <2>3, <3>2 DEF Inv, TypeOK
  <2>5. count_write' # r
    BY <2>3, PipeAssumption DEF Row
  <2>6. ~DIssue(in)
    BY <2>2, IssueWire
  <2>7. ~x_valid_q'
    BY <2>2, <2>6, ExecuteMoves DEF Executing
  <2> QED BY <2>4, <2>5, <2>7 DEF Counted, Executing
<1>3. CASE ~clearing_q /\ Flushing
  <2>1. IFlushDone(in) /\ ~Update(in)
    BY <1>1, <1>3, UpdateWire
  <2>2. count_mem'[r] = 0
    BY <1>1, <1>3, <2>1, Learns DEF Inv, BtbInv
  <2>3. count_write' # r
    BY <1>1, <1>3, <2>1, Learns, PipeAssumption DEF Row
  <2>4. ~x_valid_q'
    <3>1. ~DIssue(in) /\ XSlotAvailable(in)
      BY <1>3, <2>1, FlushWire DEF XSlotAvailable, XReady
    <3> QED BY <3>1 DEF Edge, ExecuteStep
  <2> QED BY <2>2, <2>3, <2>4 DEF Counted, Executing
<1>4. CASE ~clearing_q /\ ~Flushing
  <2>1. CASE Update(in) /\ ReplaceTarget(in) /\ r = Index(x.pc)
    BY <1>1, <1>4, <2>1, TrueLearned
  <2>2. CASE ~(Update(in) /\ ReplaceTarget(in) /\ r = Index(x.pc))
    <3>1. Counted(r)
      BY <1>1, <1>4, <2>2, CountedBefore
    <3>2. True(r)
      BY <1>4, <3>1 DEF Inv, BtbInv
    <3>3. seen \subseteq seen' /\ program' = program
      <4>1. ~IFlushDone(in)
        BY <1>4 DEF IFlushDone, Flushing
      <4> QED BY <4>1, SeenGrows DEF Edge
    <3>4. target_mem'[r] = target_mem[r]
      BY <1>1, <1>4, <2>2, Learns DEF Inv, TypeOK
    <3> QED BY <3>2, <3>3, <3>4, TrueKept
  <2> QED BY <2>1, <2>2
<1> QED BY <1>2, <1>3, <1>4

\* Clearing takes the rows one after the other, and nothing is fetched meanwhile.
LEMMA Clears ==
  ASSUME Inv, NEW in, InOk(in), Edge(in), clearing_q'
  PROVE  /\ \A r \in Row : r < clear_q' => count_mem'[r] = 0
         /\ Flushing' \/ (~x_valid_q' /\ ~f_advance_q' /\ ~recover_q')
<1>1. CASE IFlushStart(in)
  <2>1. clear_q' = 0 /\ Flushing'
    BY <1>1, FlushMoves DEF Edge, BtbStep, BtbFlush
  <2> QED BY <2>1 DEF Row
<1>2. CASE ~IFlushStart(in)
  <2>1. clearing_q
    BY <1>2 DEF Edge, BtbStep, BtbFlush
  <2>2. /\ count_mem' = [count_mem EXCEPT ![clear_q] = 0]
        /\ clear_q' = (clear_q + 1) % Rows /\ clear_q # Rows - 1
    BY <1>2, <2>1 DEF Edge, BtbStep, BtbFlush
  <2>3. /\ \A r \in Row : r < clear_q => count_mem[r] = 0
        /\ Flushing \/ (~x_valid_q /\ ~f_advance_q /\ ~recover_q)
    BY <2>1 DEF Inv, BtbInv
  <2>4. clear_q \in Nat /\ Rows \in Nat \ {0} /\ clear_q + 1 \in 0 .. Rows - 1
    <3>1. clear_q \in 0 .. Rows - 1 /\ Rows \in Nat \ {0}
      BY PipeAssumption DEF Inv, TypeOK, Row
    <3>2. clear_q # Rows - 1
      BY <2>2
    <3> QED BY <3>1, <3>2
  <2>5. clear_q' = clear_q + 1
    BY <2>2, <2>4, ModSmall
  <2>6. ASSUME NEW r \in Row, r < clear_q' PROVE count_mem'[r] = 0
    <3>1. r < clear_q \/ r = clear_q
      BY <2>4, <2>5, <2>6 DEF Row
    <3> QED BY <2>2, <2>3, <3>1 DEF Inv, TypeOK
  <2>7. CASE Flushing
    <3>1. ~IFlushDone(in)
      BY <2>1 DEF IFlushDone
    <3> QED BY <2>6, <2>7, <3>1, FlushMoves
  <2>8. CASE ~Flushing
    <3>1. ~x_valid_q /\ ~f_advance_q /\ ~recover_q
      BY <2>3, <2>8
    <3>2. ~DIssue(in) /\ ~FetchReady(in) /\ ~IFlushDone(in)
      BY <2>1, <3>1, IssueWire DEF FetchReady, IFlushDone
    <3>3. ~x_valid_q'
      BY <3>1, <3>2, ExecuteMoves DEF Executing
    <3>4. ~NormalX(in) /\ ~TakeIrq
      BY <3>1 DEF NormalX, TakeIrq, RunX
    <3>5. ~DeferredRecovery(in) /\ ~ResolvedRedirect(in)
      BY <3>4, RunWires
    <3>6. ~Redirect(in) /\ ~IAccept(in)
      BY <1>2, <3>1, <3>2, <3>4, <3>5, FetchWire DEF Redirect
    <3>7. ~f_advance_q' /\ ~recover_q'
      BY <3>1, <3>2, <3>5, <3>6, FetchMoves DEF Edge, FetchStep
    <3> QED BY <2>6, <3>3, <3>7
  <2> QED BY <2>7, <2>8
<1> QED BY <1>1, <1>2

\* The branch target buffer keeps its invariant.
LEMMA BtbInvStep ==
  ASSUME Inv, NEW in, InOk(in), Edge(in)
  PROVE  BtbInv'
<1>1. ~clearing_q' /\ ~Flushing' => \A r \in Row : Counted(r)' => True(r)'
  BY RowsTrue
<1>2. ASSUME ~clearing_q', Flushing', NEW r \in Row PROVE count_mem'[r] = 0
  <2>1. ~IFlushStart(in)
    BY <1>2 DEF Edge, BtbStep, BtbFlush
  <2>2. Flushing /\ ~IFlushDone(in)
    BY <1>2, <2>1, FlushMoves
  <2>3. CASE clearing_q
    <3>1. /\ count_mem' = [count_mem EXCEPT ![clear_q] = 0] /\ clear_q = Rows - 1
      BY <1>2, <2>1, <2>3 DEF Edge, BtbStep, BtbFlush
    <3>2. \A s \in Row : s < clear_q => count_mem[s] = 0
      BY <2>3 DEF Inv, BtbInv
    <3>3. r < clear_q \/ r = clear_q
      BY <3>1, PipeAssumption DEF Row
    <3> QED BY <3>1, <3>2, <3>3 DEF Inv, TypeOK
  <2>4. CASE ~clearing_q
    <3>1. ~Update(in)
      BY <2>2, UpdateWire
    <3> QED BY <2>1, <2>2, <2>4, <3>1, Learns DEF Inv, BtbInv
  <2> QED BY <2>3, <2>4
<1>3. ASSUME Flushing' \/ clearing_q' PROVE count_write' = NoRow
  <2>1. CASE IFlushStart(in) \/ clearing_q
    BY <2>1 DEF Edge, BtbStep, BtbFlush
  <2>2. CASE ~IFlushStart(in) /\ ~clearing_q
    <3>1. Flushing
      BY <1>3, <2>2, Learns, FlushMoves
    <3>2. ~Update(in)
      BY <3>1, UpdateWire
    <3> QED BY <2>2, <3>2, Learns
  <2> QED BY <2>1, <2>2
<1>4. ASSUME Executing', x'.hit PROVE x'.count > 0
  <2>1. x_valid_q'
    BY <1>4 DEF Executing
  <2>2. CASE DIssue(in)
    BY <1>4, <2>2, Issued, HitCounts
  <2>3. CASE ~DIssue(in)
    <3>1. Executing /\ x' = x
      BY <2>1, <2>3, ExecuteMoves
    <3> QED BY <1>4, <3>1 DEF Inv, BtbInv
  <2> QED BY <2>2, <2>3
<1> QED BY <1>1, <1>2, <1>3, <1>4, Clears, SeenGrows DEF BtbInv

-----------------------------------------------------------------------------
(* The invariant holds. *)

\* Reset establishes the invariant: nothing is fetched before the table is clear.
LEMMA InitInv == Init => Inv
<1> SUFFICES ASSUME Init PROVE Inv
  OBVIOUS
<1>1. /\ Size \in Nat /\ Size > 2 /\ Start \in Pc /\ 0 \in Pc /\ Rows \in Nat \ {0}
  BY InstructionAssumption, PipeAssumption DEF Pc
<1>2. program \in Programs /\ reply \in Instruction /\ reply = program.text[Start]
  BY <1>1, InstructionAssumption DEF Init
<1>3. reply.a \in Registers /\ 0 \in Registers
  BY <1>2, InstructionFields, RegisterFacts
<1>4. 0 \in Row /\ 0 \in 0 .. Tag(Size - 1) /\ 0 \in Count
  <2>1. 0 \in Row /\ 0 \in Count
    BY <1>1 DEF Row, Count
  <2>2. Tag(0) \in 0 .. Tag(Size - 1) /\ Tag(Size - 1) \in Nat
    <3>1. Size - 1 \in Nat /\ 0 <= Size - 1 /\ 0 \in Nat
      BY <1>1
    <3> QED BY <1>1, <3>1, IndexType, DivOrder DEF Tag
  <2> QED BY <2>1, <2>2
<1>5. TypeOK
  <2>1. program \in Programs /\ mem \in [Cells -> Pc] /\ seen \subseteq Pc
    BY <1>1, <1>2 DEF Init
  <2>2. f_pc_q \in Pc /\ reply \in Instruction
        /\ {f_advance_q, recover_q, i_pending_q, i_discard_q, d_valid_q} \subseteq BOOLEAN
    BY <1>1, <1>2 DEF Init
  <2>3. state_q \in {"RUN", "MUL", "MUL_CALC", "IFLUSH"}
        /\ {x_valid_q, x_load_wait_q} \subseteq BOOLEAN /\ product \in Pc
    BY <1>1 DEF Init
  <2>4. x \in [instr : Instruction, pc : Pc, count : Count, hit : BOOLEAN, collision : BOOLEAN,
               jall_hit : BOOLEAN, forward_a : BOOLEAN, forward_b : BOOLEAN]
    BY <1>1, <1>2, <1>4 DEF Init
  <2>5. {interrupt_enable_q, interrupt_request_q, r0_zero_q, r0_negative_q} \subseteq BOOLEAN
        /\ {w_we_q, data_pending_q, clearing_q} \subseteq BOOLEAN
    BY DEF Init
  <2>6. w_dst_q \in Registers /\ w_result_q \in Pc
        /\ rf \in [Registers -> Pc] /\ loaded \in Pc
    BY <1>1, <1>3 DEF Init
  <2>7. target_mem \in [Row -> [tag : 0 .. Tag(Size - 1), target : Pc]]
        /\ count_mem \in [Row -> Count]
    BY <1>1, <1>4 DEF Init
  <2>8. clear_q \in Row /\ read_index_q \in Row
        /\ {target_write, count_write} \subseteq Row \cup {NoRow}
    BY <1>4 DEF Init
  <2> QED BY <2>1, <2>2, <2>3, <2>4, <2>5, <2>6, <2>7, <2>8 DEF TypeOK
<1>6. FetchInv
  BY DEF Init, FetchInv, Holding
<1>7. ExecuteInv
  BY DEF Init, ExecuteInv, Executing, Flushing, Multiplying
<1>8. BtbInv
  BY DEF Init, BtbInv, Executing, Flushing, Cells, PatchCell, Row
<1>9. DataInv
  BY DEF Init, DataInv, Executing
<1> QED BY <1>5, <1>6, <1>7, <1>8, <1>9 DEF Inv

\* Every step keeps the invariant.
LEMMA InvNext == Inv /\ Next => Inv'
<1> SUFFICES ASSUME Inv, NEW in \in Inputs, Edge(in) PROVE Inv'
  BY DEF Next
<1>1. InOk(in)
  BY InputFacts DEF Inv
<1>2. TypeOK'
  BY TypeStep DEF Inv
<1> QED BY <1>1, <1>2, FetchInvStep, ExecuteInvStep, BtbInvStep, DataInvStep DEF Inv

\* Stuttering does.
LEMMA InvStutter == Inv /\ UNCHANGED vars => Inv'
<1> SUFFICES ASSUME Inv, UNCHANGED vars PROVE Inv'
  OBVIOUS
<1>1. /\ program' = program /\ f_pc_q' = f_pc_q /\ f_advance_q' = f_advance_q
      /\ recover_q' = recover_q /\ i_pending_q' = i_pending_q /\ i_discard_q' = i_discard_q
      /\ d_valid_q' = d_valid_q /\ reply' = reply /\ state_q' = state_q
      /\ x_valid_q' = x_valid_q /\ x_load_wait_q' = x_load_wait_q /\ x' = x
      /\ product' = product /\ interrupt_enable_q' = interrupt_enable_q
      /\ interrupt_request_q' = interrupt_request_q /\ r0_zero_q' = r0_zero_q
      /\ r0_negative_q' = r0_negative_q /\ w_we_q' = w_we_q /\ w_dst_q' = w_dst_q
      /\ w_result_q' = w_result_q /\ rf' = rf /\ data_pending_q' = data_pending_q
      /\ loaded' = loaded /\ mem' = mem /\ seen' = seen /\ target_mem' = target_mem
      /\ count_mem' = count_mem /\ clearing_q' = clearing_q /\ clear_q' = clear_q
      /\ read_index_q' = read_index_q /\ target_write' = target_write
      /\ count_write' = count_write
  BY DEF vars, fetchVars, executeVars, dataVars, btbVars
<1>2. Holding' = Holding /\ Executing' = Executing /\ Flushing' = Flushing
      /\ Multiplying' = Multiplying /\ PredictedTaken' = PredictedTaken
      /\ Led' = Led /\ Committed' = Committed
  BY <1>1 DEF Holding, Executing, Flushing, Multiplying, PredictedTaken, Led, Committed, RfWdata
<1>3. /\ XIs({"MUL"})' = XIs({"MUL"}) /\ XIs({"IFLUSH"})' = XIs({"IFLUSH"})
      /\ XIs({"JALL"})' = XIs({"JALL"}) /\ XIs({"BR"})' = XIs({"BR"})
  BY <1>1 DEF XIs
<1>4. TypeOK'
  BY <1>1 DEF Inv, TypeOK
<1>5. FetchInv'
  BY <1>1, <1>2 DEF Inv, FetchInv
<1>6. ExecuteInv'
  BY <1>1, <1>2, <1>3 DEF Inv, ExecuteInv
<1>7. BtbInv'
  <2>1. \A r : Counted(r)' = Counted(r) /\ True(r)' = True(r)
    BY <1>1, <1>2 DEF Counted, True, RowPc
  <2> QED BY <1>1, <1>2, <2>1 DEF Inv, BtbInv
<1>8. DataInv'
  BY <1>1, <1>2, <1>3 DEF Inv, DataInv, Ready, ReadsA, ReadsB
<1> QED BY <1>4, <1>5, <1>6, <1>7, <1>8 DEF Inv

\* The invariant of the pipeline.
THEOREM PipeInvariant == Spec => []Inv
<1>1. Inv /\ [Next]_vars => Inv'
  BY InvNext, InvStutter
<1> QED BY <1>1, InitInv, PTL DEF Spec

\* The predictor may be wrong about where code goes, never about what the code is.
THEOREM PredictionsKept == Spec => []PredictionKept
<1>1. Inv => PredictionKept
  <2> SUFFICES ASSUME Inv PROVE TargetsTrue
    BY DEF PredictionKept, Inv
  <2>1. ASSUME NEW r \in Row, count_mem[r] > 0, ~clearing_q PROVE True(r)
    <3>1. ~Flushing
      BY <2>1 DEF Inv, BtbInv
    <3>2. Counted(r)
      BY <2>1 DEF Counted
    <3> QED BY <2>1, <3>1, <3>2 DEF Inv, BtbInv
  <2> QED BY <2>1 DEF TargetsTrue, True
<1> QED BY <1>1, PipeInvariant, PTL

-----------------------------------------------------------------------------
(* The sequential machine. *)

\* The instance reads instructions as the pipeline does.
LEMMA SameOperators ==
  /\ \A p, v, a : Sequential!Text(p, v, a) = Text(p, v, a)
  /\ \A i : Sequential!Writes(i) = Writes(i)
  /\ \A i, a, v, w : Sequential!Compute(i, a, v, w) = Compute(i, a, v, w)
  /\ \A i, z, n : Sequential!Taken(i, z, n) = Taken(i, z, n)
  /\ \A v : Sequential!Negative(v) = Negative(v) /\ Sequential!Cell(v) = Cell(v)
  /\ \A a, n : Sequential!Plus(a, n) = Plus(a, n)
  /\ \A i, e : Sequential!EnableAfter(i, e) = EnableAfter(i, e)
  /\ Sequential!PatchCell = PatchCell /\ Sequential!S0 = S0
  /\ Sequential!IrqVector = IrqVector /\ Sequential!Registers = Registers
  /\ Sequential!Cells = Cells
<1>1. \A a, n : Sequential!Plus(a, n) = Plus(a, n)
  BY DEF Plus, Sequential!Plus
<1>2. \A p, v, a : Sequential!Text(p, v, a) = Text(p, v, a)
  BY DEF Text, Sequential!Text
<1>3. Sequential!S0 = S0 /\ \A i : Sequential!Writes(i) = Writes(i)
  BY DEF Writes, Sequential!Writes, Links, Sequential!Links, S0, Sequential!S0
<1>4. \A i, a, v, w : Sequential!Compute(i, a, v, w) = Compute(i, a, v, w)
  BY <1>1, Zenon DEF Compute, Sequential!Compute
<1>5. \A i, z, n : Sequential!Taken(i, z, n) = Taken(i, z, n)
  BY DEF Taken, Sequential!Taken
<1>6. \A v : Sequential!Negative(v) = Negative(v) /\ Sequential!Cell(v) = Cell(v)
  BY DEF Negative, Sequential!Negative, Cell, Sequential!Cell
<1>7. \A i, e : Sequential!EnableAfter(i, e) = EnableAfter(i, e)
  BY DEF EnableAfter, Sequential!EnableAfter
<1>8. /\ Sequential!PatchCell = PatchCell /\ Sequential!IrqVector = IrqVector
      /\ Sequential!Registers = Registers /\ Sequential!Cells = Cells
  BY DEF PatchCell, Sequential!PatchCell, IrqVector, Sequential!IrqVector, Registers,
         Sequential!Registers, Cells, Sequential!Cells
<1> QED BY <1>1, <1>2, <1>3, <1>4, <1>5, <1>6, <1>7, <1>8

\* A step of the sequential machine, in the words of the pipeline.
LEMMA SequentialStep ==
  ASSUME NEW i, i = NextInstr,
         Committed' = IF Writes(i)
                      THEN [Committed EXCEPT ![i.d] =
                              IF i.op = "LD" THEN mem[Cell(Committed[i.a])]
                              ELSE Compute(i, NextPc, Committed[i.a], Committed[i.b])]
                      ELSE Committed,
         mem' = IF i.op = "ST" THEN [mem EXCEPT ![Cell(Committed[i.a])] = Committed[i.b]] ELSE mem,
         NextPc' = CASE i.op = "BR" /\ Taken(i, Committed[0] = 0, Negative(Committed[0]))
                          -> Plus(NextPc, 1 + i.n)
                     [] i.op \in {"JALR", "RET", "RETI"} -> Committed[i.a]
                     [] i.op = "JALL" -> Text(program, mem[PatchCell], Plus(NextPc, 1)).n
                     [] OTHER -> Plus(NextPc, 1),
         interrupt_enable_q' = EnableAfter(i, interrupt_enable_q),
         program' = program
  PROVE  Sequential!Step
<1>1. Sequential!Fetched(NextPc) = i
  BY SameOperators DEF Sequential!Fetched, NextInstr
<1>2. Sequential!Result(i) = IF i.op = "LD" THEN mem[Cell(Committed[i.a])]
                             ELSE Compute(i, NextPc, Committed[i.a], Committed[i.b])
  BY SameOperators DEF Sequential!Result
<1>3. Sequential!Successor(i)
        = CASE i.op = "BR" /\ Taken(i, Committed[0] = 0, Negative(Committed[0]))
                 -> Plus(NextPc, 1 + i.n)
            [] i.op \in {"JALR", "RET", "RETI"} -> Committed[i.a]
            [] i.op = "JALL" -> Text(program, mem[PatchCell], Plus(NextPc, 1)).n
            [] OTHER -> Plus(NextPc, 1)
  BY SameOperators, Zenon DEF Sequential!Successor, Sequential!Fetched
<1>4. /\ Sequential!Writes(i) = Writes(i) /\ Sequential!Cell(Committed[i.a]) = Cell(Committed[i.a])
      /\ Sequential!EnableAfter(i, interrupt_enable_q) = EnableAfter(i, interrupt_enable_q)
  BY SameOperators
<1> QED BY <1>1, <1>2, <1>3, <1>4, Zenon DEF Sequential!Step

\* Reset is the reset of the sequential machine.
LEMMA RefinedInit == Init => Sequential!Init
<1> SUFFICES ASSUME Init PROVE Sequential!Init
  OBVIOUS
<1>1. NextPc = Start /\ interrupt_enable_q = FALSE /\ program \in Programs
  BY DEF Init, NextPc
<1>2. mem = [c \in Sequential!Cells |-> 0]
  BY SameOperators DEF Init
<1>3. Committed = [r \in Sequential!Registers |-> 0]
  BY SameOperators DEF Init, Committed
<1> QED BY <1>1, <1>2, <1>3 DEF Sequential!Init

\* Without a redirect what follows is what Fetch is at.
LEMMA Follows ==
  ASSUME Inv, NEW in, InOk(in), Edge(in), XSlotAvailable(in), ~Redirect(in),
         ~DeferredRecovery(in)
  PROVE  NextPc' = f_pc_q
<1>1. ~recover_q'
  BY DEF Edge, FetchStep
<1>2. CASE DIssue(in)
  BY <1>1, <1>2, Issued DEF NextPc
<1>3. CASE ~DIssue(in)
  <2>1. ~x_valid_q'
    BY <1>3 DEF Edge, ExecuteStep
  <2> QED BY <1>1, <1>3, <2>1, FetchMoves DEF NextPc
<1> QED BY <1>2, <1>3

\* After a redirect what follows is what the redirect says.
LEMMA Redirected ==
  ASSUME Inv, NEW in, InOk(in), Edge(in), Redirect(in), ~IFlushStart(in), ~DeferredRecovery(in),
         TakeIrq \/ XSlotAvailable(in) \/ ~x_valid_q \/ recover_q
  PROVE  NextPc' = ImemAddr(in)
<1>1. ~recover_q' /\ ~DIssue(in)
  BY DEF Edge, FetchStep, DIssue
<1>2. ~x_valid_q'
  BY <1>1, ExecuteMoves DEF Executing
<1> QED BY <1>1, <1>2, FetchMoves DEF NextPc

\* A step that ends no instruction and takes no interrupt changes nothing that the
\* sequential machine has.
LEMMA RefinedStutter ==
  ASSUME Inv, NEW in, InOk(in), Edge(in), ~XFinish(in), ~TakeIrq
  PROVE  /\ NextPc' = NextPc /\ Committed' = Committed /\ mem' = mem
         /\ interrupt_enable_q' = interrupt_enable_q
<1>1. Committed' = Committed /\ mem' = mem
  BY CommittedKept, NoPush
<1>2. interrupt_enable_q' = interrupt_enable_q
  <2>1. ~(CoreAdvance(in) /\ RunReady(in))
    BY DEF XFinish, XReady
  <2> QED BY <2>1 DEF Edge, ExecuteStep
<1>3. recover_q' = DeferredRecovery(in) /\ ~DeferredRecovery(in) /\ ~ResolvedRedirect(in)
  BY RunWires DEF Edge, FetchStep
<1>4. CASE recover_q
  <2>1. ~IFlushStart(in) /\ Redirect(in) /\ f_advance_q
    BY <1>4, FlushStartWire DEF Redirect, Executing, Inv, FetchInv
  <2>2. ImemAddr(in) = Plus(f_pc_q, 1)
    BY <1>3, <1>4, <2>1 DEF ImemAddr, SequentialFetchPc
  <2> QED BY <1>1, <1>2, <1>3, <1>4, <2>1, <2>2, Redirected DEF NextPc
<1>5. CASE ~recover_q /\ x_valid_q
  <2>1. Executing /\ ~XSlotAvailable(in)
    BY <1>5, FinishWire DEF Executing
  <2>2. ~DIssue(in)
    BY <2>1 DEF DIssue
  <2>3. x_valid_q' /\ x' = x
    BY <1>5, <2>1, <2>2 DEF Edge, ExecuteStep
  <2> QED BY <1>1, <1>2, <1>3, <1>5, <2>3 DEF NextPc
<1>6. CASE ~recover_q /\ ~x_valid_q
  <2>1. ~Flushing
    BY <1>6 DEF Inv, ExecuteInv
  <2>2. ~IFlushStart(in) /\ ~IFlushDone(in)
    BY <1>6, <2>1, FlushStartWire DEF Executing, IFlushDone, Flushing
  <2>3. ~Redirect(in)
    BY <1>3, <1>6, <2>2 DEF Redirect
  <2>4. CASE DIssue(in)
    BY <1>1, <1>2, <1>3, <1>6, <2>4, Issued DEF NextPc
  <2>5. CASE ~DIssue(in)
    <3>1. ~x_valid_q'
      BY <1>6, <2>5 DEF Edge, ExecuteStep
    <3> QED BY <1>1, <1>2, <1>3, <1>6, <2>3, <2>5, <3>1, FetchMoves DEF NextPc
  <2> QED BY <2>4, <2>5
<1> QED BY <1>4, <1>5, <1>6

\* An interrupt falls between two instructions and remembers the second.
LEMMA RefinedInterrupt ==
  ASSUME Inv, NEW in, InOk(in), Edge(in), TakeIrq
  PROVE  Sequential!Interrupt
<1>1. /\ Executing /\ state_q = "RUN" /\ CoreAdvance(in) /\ ~data_pending_q
      /\ ~NormalX(in) /\ ~XFinish(in)
  BY RunWires
<1>2. ~DataAccept(in) /\ ~DeferredRecovery(in) /\ ~ResolvedRedirect(in) /\ ~IFlushStart(in)
  BY <1>1, RunWires DEF IFlushStart
<1>3. interrupt_enable_q /\ interrupt_enable_q' = FALSE
  BY DEF TakeIrq, IrqWaiting, Edge, ExecuteStep
<1>4. mem' = mem /\ program' = program /\ data_pending_q' = FALSE
  BY <1>1, <1>2 DEF Edge, DataStep
<1>5. w_we_q' /\ w_dst_q' = S0 /\ w_result_q' = x.pc
  BY <1>1 DEF Edge, WritebackStep, XResult
<1>6. RfWdata' = x.pc
  <2>1. x.pc \in Pc /\ x.pc + 0 = x.pc
    BY XFields, InstructionAssumption DEF Inv, Pc
  <2> QED BY <1>4, <1>5, <2>1, PcMod DEF RfWdata
<1>7. Committed' = [Committed EXCEPT ![S0] = x.pc]
  BY <1>1, <1>5, <1>6, CommittedPushed
<1>8. NextPc = x.pc
  BY <1>1 DEF NextPc, Executing
<1>9. NextPc' = IrqVector
  <2>1. Redirect(in)
    BY DEF Redirect
  <2> QED BY <1>2, <2>1, Redirected DEF ImemAddr
<1> QED BY <1>3, <1>4, <1>7, <1>8, <1>9, SameOperators DEF Sequential!Interrupt

\* With fresh code Execute works on the instruction that memory holds, and what the
\* prediction was learned from is the code that memory holds.
LEMMA CodeFresh ==
  ASSUME Inv, FreshCode, Executing
  PROVE  /\ NextPc = x.pc /\ x.instr = NextInstr
         /\ \A v \in seen : Text(program, v, x.pc) = x.instr
         /\ XIs({"JALL"}) => \A v \in seen :
              Text(program, v, Plus(x.pc, 1)) = Text(program, mem[PatchCell], Plus(x.pc, 1))
<1>1. NextPc = x.pc
  BY DEF NextPc, Executing
<1>2. PICK v \in seen : x.instr = Text(program, v, x.pc)
  BY DEF Inv, ExecuteInv
<1>3. x.instr = NextInstr
  BY <1>1, <1>2 DEF FreshCode
<1> QED BY <1>1, <1>3 DEF FreshCode, XIs

\* A branch that may run finds flags that agree with r0.
LEMMA FlagsRead ==
  ASSUME Inv, FreshCode, BranchesDefined, Executing, ~x_load_wait_q, XIs({"BR"})
  PROVE  BranchTaken <=> Taken(x.instr, Committed[0] = 0, Negative(Committed[0]))
<1>1. x.instr = NextInstr
  BY CodeFresh
<1>2. CASE x.instr.d = 4
  BY <1>2 DEF BranchTaken, Taken
<1>3. CASE x.instr.d # 4
  <2>1. FlagsAgree
    BY <1>1, <1>3 DEF BranchesDefined, XIs
  <2>2. ~(data_pending_q /\ w_we_q /\ w_dst_q = 0)
    BY DEF Inv, DataInv
  <2>3. (r0_zero_q <=> Committed[0] = 0) /\ (r0_negative_q <=> Negative(Committed[0]))
    BY <2>1, <2>2 DEF FlagsAgree
  <2> QED BY <2>3 DEF BranchTaken, Taken
<1> QED BY <1>2, <1>3

\* What an instruction writes is its result.
LEMMA ResultRight ==
  ASSUME Inv, FreshCode, NEW in, InOk(in), Edge(in), XFinish(in), Writes(x.instr)
  PROVE  RfWdata' = IF x.instr.op = "LD" THEN mem[Cell(Committed[x.instr.a])]
                    ELSE Compute(x.instr, x.pc, Committed[x.instr.a], Committed[x.instr.b])
<1>1. Executing /\ ~x_load_wait_q /\ ~TakeIrq
  BY FinishWire
<1>2. /\ ReadsA(x.instr) => RfA = Committed[x.instr.a]
      /\ ReadsB(x.instr) => RfB = Committed[x.instr.b]
  BY <1>1, OperandsRight
<1>3. /\ w_result_q' = XResult /\ data_pending_q' = XMemory /\ w_result_q' \in Pc /\ loaded' \in Pc
  <2>1. w_result_q' \in Pc /\ loaded' \in Pc
    BY DataTypes DEF Edge, Inv
  <2> QED BY <2>1, Pushed
<1>4. CASE x.instr.op = "LD"
  <2>1. XMemory /\ XResult = 0
    BY <1>1, <1>4 DEF XMemory, XIs, XResult
  <2>2. loaded' = mem[Cell(RfA)]
    BY <1>4, <2>1, RunWires DEF Edge, DataStep, XIs
  <2>3. RfWdata' = loaded' % Size
    <3>1. 0 + loaded' = loaded'
      <4>1. \A n \in Pc : 0 + n = n
        BY InstructionAssumption DEF Pc
      <4> QED BY <1>3, <4>1
    <3> QED BY <1>3, <2>1, <3>1 DEF RfWdata
  <2> QED BY <1>2, <1>3, <1>4, <2>2, <2>3, PcMod DEF ReadsA
<1>5. CASE x.instr.op # "LD"
  <2>1. ~XMemory
    BY <1>5 DEF XMemory, XIs, Writes, Links
  <2>2. RfWdata' = XResult
    <3>1. w_result_q' + 0 = w_result_q'
      BY <1>3, InstructionAssumption DEF Pc
    <3> QED BY <1>3, <2>1, <3>1, PcMod DEF RfWdata
  <2>3. CASE state_q = "MUL"
    <3>1. x.instr.op = "MUL" /\ product = (Committed[x.instr.a] * Committed[x.instr.b]) % Size
      BY <2>3 DEF Inv, ExecuteInv, Multiplying, XIs
    <3>2. Compute(x.instr, x.pc, Committed[x.instr.a], Committed[x.instr.b]) = product
      BY <3>1 DEF Compute
    <3> QED BY <1>1, <1>5, <2>2, <2>3, <3>2 DEF XResult, XIs
  <2>4. CASE state_q # "MUL"
    <3>1. XResult = Compute(x.instr, x.pc, RfA, RfB)
      BY <1>1, <1>5, <2>4 DEF XResult, XIs
    <3>2. x.instr.op # "MUL"
      <4>1. IFlushDone(in) => XIs({"IFLUSH"})
        BY DEF Inv, ExecuteInv, IFlushDone, Flushing
      <4> QED BY <2>4, <4>1 DEF XFinish, XReady, RunReady, XIs
    <3>3. Compute(x.instr, x.pc, RfA, RfB)
            = Compute(x.instr, x.pc, Committed[x.instr.a], Committed[x.instr.b])
      <4>1. CASE x.instr.op = "SLTU"
        BY <1>2, <4>1 DEF ReadsA, ReadsB
      <4>2. CASE x.instr.op \in {"ADDI", "MFS", "MTS"}
        BY <1>2, <4>2 DEF Compute, ReadsA
      <4>3. CASE x.instr.op \in {"LDI", "JALR", "JALL"}
        BY <4>3 DEF Compute
      <4> QED BY <1>5, <3>2, <4>1, <4>2, <4>3 DEF Writes, Links
    <3> QED BY <1>5, <2>2, <3>1, <3>3
  <2> QED BY <2>3, <2>4
<1> QED BY <1>4, <1>5

\* What an instruction does to the registers,
LEMMA RefinedRegisters ==
  ASSUME Inv, FreshCode, NEW in, InOk(in), Edge(in), XFinish(in)
  PROVE  Committed' = IF Writes(x.instr)
           THEN [Committed EXCEPT ![x.instr.d] =
                   IF x.instr.op = "LD" THEN mem[Cell(Committed[x.instr.a])]
                   ELSE Compute(x.instr, x.pc, Committed[x.instr.a], Committed[x.instr.b])]
           ELSE Committed
<1>1. CoreAdvance(in) /\ w_we_q' = Writes(x.instr) /\ (Writes(x.instr) => w_dst_q' = x.instr.d)
  BY Pushed
<1>2. Committed' = IF w_we_q' THEN [Committed EXCEPT ![w_dst_q'] = RfWdata'] ELSE Committed
  BY <1>1, CommittedPushed
<1> QED BY <1>1, <1>2, ResultRight

\* to memory,
LEMMA RefinedMemory ==
  ASSUME Inv, NEW in, InOk(in), Edge(in), XFinish(in)
  PROVE  mem' = IF x.instr.op = "ST"
                THEN [mem EXCEPT ![Cell(Committed[x.instr.a])] = Committed[x.instr.b]] ELSE mem
<1>1. Executing /\ ~x_load_wait_q
  BY FinishWire
<1>2. CASE x.instr.op = "ST"
  <2>1. DataAccept(in) /\ XIs({"ST"})
    BY <1>2, RunWires DEF XMemory, XIs
  <2>2. RfA = Committed[x.instr.a] /\ RfB = Committed[x.instr.b]
    BY <1>1, <1>2, OperandsRight DEF ReadsA, ReadsB
  <2> QED BY <1>2, <2>1, <2>2 DEF Edge, DataStep
<1>3. CASE x.instr.op # "ST"
  BY <1>3 DEF Edge, DataStep, XIs
<1> QED BY <1>2, <1>3

\* to the interrupt enable,
LEMMA RefinedEnable ==
  ASSUME Inv, NEW in, InOk(in), Edge(in), XFinish(in)
  PROVE  interrupt_enable_q' = EnableAfter(x.instr, interrupt_enable_q)
<1>1. CoreAdvance(in) /\ ~TakeIrq
  BY FinishWire
<1>2. CASE RunReady(in)
  BY <1>1, <1>2 DEF Edge, ExecuteStep
<1>3. CASE ~RunReady(in)
  <2>1. x.instr.op \in {"MUL", "IFLUSH"}
    BY <1>3 DEF XFinish, XReady, Inv, ExecuteInv, Multiplying, IFlushDone, Flushing, XIs
  <2>2. interrupt_enable_q' = interrupt_enable_q /\ interrupt_enable_q \in BOOLEAN
    BY <1>1, <1>3, Booleans DEF Edge, ExecuteStep, Inv
  <2>3. EnableAfter(x.instr, interrupt_enable_q) = interrupt_enable_q
    BY <2>1, <2>2 DEF EnableAfter
  <2> QED BY <2>2, <2>3
<1> QED BY <1>2, <1>3

\* and where it goes: a branch,
LEMMA BranchGoes ==
  ASSUME Inv, FreshCode, BranchesDefined, NEW in, InOk(in), Edge(in), XFinish(in), XIs({"BR"})
  PROVE  NextPc' = IF Taken(x.instr, Committed[0] = 0, Negative(Committed[0]))
                   THEN Plus(x.pc, 1 + x.instr.n) ELSE Plus(x.pc, 1)
<1>1. Executing /\ ~x_load_wait_q /\ ~TakeIrq /\ XSlotAvailable(in) /\ CoreAdvance(in)
  BY FinishWire
<1>2. BranchTaken <=> Taken(x.instr, Committed[0] = 0, Negative(Committed[0]))
  BY <1>1, FlagsRead
<1>3. ~Flushing /\ ~IFlushDone(in) /\ ~IFlushStart(in) /\ state_q # "MUL" /\ ~recover_q
  BY <1>1 DEF Inv, ExecuteInv, Flushing, Multiplying, XIs, IFlushDone, IFlushStart, Executing
<1>4. NormalX(in)
  BY <1>1, <1>3 DEF XFinish, XReady, RunReady, NormalX
<1>5. ~IndirectMiss(in) /\ ~JallPayloadDone(in)
  BY DEF IndirectMiss, JallPayloadDone, XIndirect, XIs
<1>6. CASE BranchTaken /\ ~PredictedTaken
  <2>1. ResolvedRedirect(in) /\ Redirect(in) /\ ~DeferredRecovery(in)
    BY <1>4, <1>6 DEF ResolvedRedirect, TakenBranchMiss, Redirect, DeferredRecovery
  <2>2. NextPc' = ResolvedTarget
    BY <1>1, <1>3, <2>1, Redirected DEF ImemAddr
  <2>3. ResolvedTarget = Plus(x.pc, 1 + x.instr.n)
    BY DEF ResolvedTarget, XIs, XIndirect
  <2> QED BY <1>2, <1>6, <2>2, <2>3
<1>7. CASE BranchTaken /\ PredictedTaken
  <2>1. ~Redirect(in) /\ ~DeferredRecovery(in)
    BY <1>1, <1>3, <1>5, <1>7 DEF ResolvedRedirect, TakenBranchMiss, Redirect, DeferredRecovery
  <2>2. NextPc' = f_pc_q
    BY <1>1, <2>1, Follows
  <2>3. f_pc_q = Plus(x.pc, 1 + x.instr.n)
    BY <1>1, <1>3, <1>7, CodeFresh DEF Inv, ExecuteInv, Led, XIs
  <2> QED BY <1>2, <1>7, <2>2, <2>3
<1>8. CASE ~BranchTaken /\ PredictedTaken
  <2>1. DeferredRecovery(in)
    BY <1>4, <1>8 DEF DeferredRecovery
  <2>2. f_pc_q' = x.pc /\ recover_q'
    BY <2>1, FetchMoves DEF Edge, FetchStep
  <2> QED BY <1>2, <1>8, <2>2 DEF NextPc
<1>9. CASE ~BranchTaken /\ ~PredictedTaken
  <2>1. ~Redirect(in) /\ ~DeferredRecovery(in)
    BY <1>1, <1>3, <1>5, <1>9 DEF ResolvedRedirect, TakenBranchMiss, Redirect, DeferredRecovery
  <2>2. NextPc' = f_pc_q /\ f_pc_q = Plus(x.pc, 1)
    BY <1>1, <1>3, <1>9, <2>1, Follows DEF Inv, ExecuteInv
  <2> QED BY <1>2, <1>9, <2>2
<1> QED BY <1>6, <1>7, <1>8, <1>9

\* a long jump,
LEMMA JallGoes ==
  ASSUME Inv, FreshCode, NEW in, InOk(in), Edge(in), XFinish(in), XIs({"JALL"})
  PROVE  NextPc' = Text(program, mem[PatchCell], Plus(x.pc, 1)).n
<1>1. Executing /\ ~x_load_wait_q /\ ~TakeIrq /\ XSlotAvailable(in) /\ CoreAdvance(in)
  BY FinishWire
<1>2. ~Flushing /\ ~IFlushDone(in) /\ ~IFlushStart(in) /\ state_q # "MUL" /\ ~recover_q
  BY <1>1 DEF Inv, ExecuteInv, Flushing, Multiplying, XIs, IFlushDone, IFlushStart, Executing
<1>3. NormalX(in) /\ (x.jall_hit \/ DValid(in))
  BY <1>1, <1>2 DEF XFinish, XReady, RunReady, NormalX
<1>4. ~IndirectMiss(in) /\ ~TakenBranchMiss(in) /\ ~DeferredRecovery(in)
  BY DEF IndirectMiss, TakenBranchMiss, DeferredRecovery, BranchTaken, XIndirect, XIs
<1>5. \A v \in seen : Text(program, v, Plus(x.pc, 1)) = Text(program, mem[PatchCell], Plus(x.pc, 1))
  BY <1>1, CodeFresh
<1>6. x.jall_hit <=> PredictedTaken
  BY <1>1 DEF Inv, ExecuteInv
<1>7. CASE x.jall_hit
  <2>1. ~Redirect(in)
    BY <1>1, <1>2, <1>4, <1>7 DEF ResolvedRedirect, Redirect, JallPayloadDone
  <2>2. NextPc' = f_pc_q
    BY <1>1, <1>4, <2>1, Follows
  <2>3. PICK v \in seen, w \in seen :
          LET i == Text(program, v, x.pc)
              long == Text(program, w, Plus(x.pc, 1))
          IN  \/ i.op = "BR" /\ f_pc_q = Plus(x.pc, 1 + i.n)
              \/ i.op = "JALL" /\ f_pc_q = long.n
              \/ i.op \in {"JALR", "RET", "RETI"}
    BY <1>1, <1>2, <1>6, <1>7 DEF Inv, ExecuteInv, Led
  <2>4. Text(program, v, x.pc).op = "JALL"
    BY <1>1, CodeFresh DEF XIs
  <2> QED BY <1>5, <2>2, <2>3, <2>4
<1>8. CASE ~x.jall_hit
  <2>1. JallPayloadDone(in)
    BY <1>3, <1>8 DEF JallPayloadDone
  <2>2. ResolvedRedirect(in) /\ Redirect(in)
    BY <2>1 DEF ResolvedRedirect, Redirect
  <2>3. NextPc' = reply.n
    BY <1>1, <1>2, <1>4, <2>2, Redirected DEF ImemAddr, ResolvedTarget
  <2>4. f_pc_q = Plus(x.pc, 1)
    BY <1>1, <1>2, <1>6, <1>8 DEF Inv, ExecuteInv
  <2>5. Holding
    BY <1>3, <1>8, FetchWire
  <2>6. PICK v \in seen : reply = Text(program, v, f_pc_q)
    BY <1>2, <2>5 DEF Inv, FetchInv
  <2> QED BY <1>5, <2>3, <2>4, <2>6
<1> QED BY <1>7, <1>8

\* an indirect jump,
LEMMA IndirectGoes ==
  ASSUME Inv, NEW in, InOk(in), Edge(in), XFinish(in), XIndirect
  PROVE  NextPc' = Committed[x.instr.a]
<1>1. Executing /\ ~x_load_wait_q /\ ~TakeIrq /\ XSlotAvailable(in) /\ CoreAdvance(in)
  BY FinishWire
<1>2. ~Flushing /\ ~IFlushDone(in) /\ ~IFlushStart(in) /\ state_q # "MUL" /\ ~recover_q
  BY <1>1 DEF Inv, ExecuteInv, Flushing, Multiplying, XIs, IFlushDone, IFlushStart, Executing,
              XIndirect
<1>3. NormalX(in)
  BY <1>1, <1>2 DEF XFinish, XReady, RunReady, NormalX
<1>4. ~JallPayloadDone(in) /\ ~TakenBranchMiss(in) /\ ~DeferredRecovery(in)
  BY DEF JallPayloadDone, TakenBranchMiss, DeferredRecovery, BranchTaken, XIndirect, XIs
<1>5. RfA = Committed[x.instr.a]
  BY <1>1, OperandsRight DEF XIndirect, XIs, ReadsA
<1>6. CASE IndirectMiss(in)
  <2>1. ResolvedRedirect(in) /\ Redirect(in)
    BY <1>6 DEF ResolvedRedirect, Redirect
  <2>2. ResolvedTarget = RfA
    BY DEF ResolvedTarget, XIndirect, XIs
  <2> QED BY <1>1, <1>2, <1>4, <1>5, <2>1, <2>2, Redirected DEF ImemAddr
<1>7. CASE ~IndirectMiss(in)
  <2>1. ~Redirect(in)
    BY <1>1, <1>2, <1>4, <1>7 DEF ResolvedRedirect, Redirect
  <2>2. RfA = f_pc_q
    BY <1>3, <1>7 DEF IndirectMiss, SuccessorWrong
  <2> QED BY <1>1, <1>4, <1>5, <2>1, <2>2, Follows
<1> QED BY <1>6, <1>7

\* the end of a flush,
LEMMA FlushGoes ==
  ASSUME Inv, NEW in, InOk(in), Edge(in), XFinish(in), XIs({"IFLUSH"})
  PROVE  NextPc' = Plus(x.pc, 1)
<1>1. Executing /\ ~TakeIrq /\ XSlotAvailable(in)
  BY FinishWire
<1>2. IFlushDone(in)
  <2>1. state_q # "MUL"
    BY DEF Inv, ExecuteInv, Multiplying, XIs
  <2> QED BY <2>1 DEF XFinish, XReady, RunReady, XIs
<1>3. Flushing
  BY <1>2 DEF IFlushDone, Flushing
<1>4. ~IFlushStart(in) /\ ~DeferredRecovery(in) /\ ~ResolvedRedirect(in) /\ Redirect(in)
  BY <1>2, <1>3, FlushWire DEF Redirect
<1>5. f_pc_q = x.pc /\ f_advance_q
  BY <1>3 DEF Inv, ExecuteInv
<1>6. ImemAddr(in) = Plus(x.pc, 1)
  BY <1>1, <1>3, <1>4, <1>5 DEF ImemAddr, PredictBtb, SequentialFetchPc, Flushing
<1> QED BY <1>1, <1>4, <1>6, Redirected

\* and any other instruction.
LEMMA OtherGoes ==
  ASSUME Inv, FreshCode, NEW in, InOk(in), Edge(in), XFinish(in),
         ~XIs({"BR"}), ~XIs({"JALL"}), ~XIndirect, ~XIs({"IFLUSH"})
  PROVE  NextPc' = Plus(x.pc, 1)
<1>1. Executing /\ ~x_load_wait_q /\ ~TakeIrq /\ XSlotAvailable(in) /\ CoreAdvance(in)
  BY FinishWire
<1>2. ~Flushing /\ ~IFlushDone(in) /\ ~IFlushStart(in) /\ ~recover_q
  BY <1>1 DEF Inv, ExecuteInv, Flushing, IFlushDone, IFlushStart, Executing
<1>3. ~ResolvedRedirect(in) /\ ~DeferredRecovery(in)
  BY DEF ResolvedRedirect, IndirectMiss, JallPayloadDone, TakenBranchMiss, DeferredRecovery,
         BranchTaken
<1>4. NextPc' = f_pc_q
  BY <1>1, <1>2, <1>3, Follows DEF Redirect
<1>5. ~PredictedTaken
  BY <1>1, <1>2, CodeFresh DEF Inv, ExecuteInv, Led, XIndirect, XIs
<1> QED BY <1>1, <1>2, <1>4, <1>5 DEF Inv, ExecuteInv

\* The end of an instruction is a step of the sequential machine.
LEMMA RefinedStep ==
  ASSUME Inv, FreshCode, BranchesDefined, NEW in, InOk(in), Edge(in), XFinish(in)
  PROVE  Sequential!Step
<1>1. Executing
  BY FinishWire
<1>2. NextPc = x.pc /\ x.instr = NextInstr
  BY <1>1, CodeFresh
<1>3. program' = program
  BY DEF Edge
<1> DEFINE goes == CASE x.instr.op = "BR" /\ Taken(x.instr, Committed[0] = 0, Negative(Committed[0]))
                          -> Plus(x.pc, 1 + x.instr.n)
                     [] x.instr.op \in {"JALR", "RET", "RETI"} -> Committed[x.instr.a]
                     [] x.instr.op = "JALL" -> Text(program, mem[PatchCell], Plus(x.pc, 1)).n
                     [] OTHER -> Plus(x.pc, 1)
<1>4. NextPc' = goes
  <2>1. CASE XIs({"BR"})
    <3>1. x.instr.op = "BR"
      BY <2>1 DEF XIs
    <3> QED BY <2>1, <3>1, BranchGoes
  <2>2. CASE XIs({"JALL"})
    <3>1. x.instr.op = "JALL"
      BY <2>2 DEF XIs
    <3> QED BY <2>2, <3>1, JallGoes
  <2>3. CASE XIndirect
    <3>1. x.instr.op \in {"JALR", "RET", "RETI"}
      BY <2>3 DEF XIndirect, XIs
    <3> QED BY <2>3, <3>1, IndirectGoes
  <2>4. CASE ~XIs({"BR"}) /\ ~XIs({"JALL"}) /\ ~XIndirect
    <3>1. NextPc' = Plus(x.pc, 1)
      BY <2>4, FlushGoes, OtherGoes
    <3>2. x.instr.op \notin {"BR", "JALL", "JALR", "RET", "RETI"}
      BY <2>4 DEF XIndirect, XIs
    <3> QED BY <3>1, <3>2
  <2> QED BY <2>1, <2>2, <2>3, <2>4
<1>5. /\ Committed' = IF Writes(x.instr)
           THEN [Committed EXCEPT ![x.instr.d] =
                   IF x.instr.op = "LD" THEN mem[Cell(Committed[x.instr.a])]
                   ELSE Compute(x.instr, x.pc, Committed[x.instr.a], Committed[x.instr.b])]
           ELSE Committed
      /\ mem' = IF x.instr.op = "ST"
                THEN [mem EXCEPT ![Cell(Committed[x.instr.a])] = Committed[x.instr.b]] ELSE mem
      /\ interrupt_enable_q' = EnableAfter(x.instr, interrupt_enable_q)
  BY RefinedRegisters, RefinedMemory, RefinedEnable
<1> QED BY <1>2, <1>3, <1>4, <1>5, SequentialStep, Zenon

\* Every clock is a step of the sequential machine, or leaves it alone.
LEMMA RefinedEdge ==
  ASSUME Inv, FreshCode, BranchesDefined, Next
  PROVE  Sequential!Next \/ UNCHANGED Sequential!vars
<1>1. PICK in \in Inputs : Edge(in)
  BY DEF Next
<1>2. InOk(in)
  BY InputFacts DEF Inv
<1>3. CASE XFinish(in)
  BY <1>1, <1>2, <1>3, RefinedStep DEF Sequential!Next
<1>4. CASE TakeIrq
  BY <1>1, <1>2, <1>4, RefinedInterrupt DEF Sequential!Next
<1>5. CASE ~XFinish(in) /\ ~TakeIrq
  <2>1. program' = program
    BY <1>1 DEF Edge
  <2> QED BY <1>1, <1>2, <1>5, <2>1, RefinedStutter DEF Sequential!vars
<1> QED BY <1>3, <1>4, <1>5

\* So do stuttering steps.
LEMMA RefinedUnchanged == UNCHANGED vars => UNCHANGED Sequential!vars
<1> SUFFICES ASSUME UNCHANGED vars PROVE UNCHANGED Sequential!vars
  OBVIOUS
<1>1. /\ program' = program /\ mem' = mem /\ f_pc_q' = f_pc_q /\ recover_q' = recover_q
      /\ x_valid_q' = x_valid_q /\ x' = x /\ interrupt_enable_q' = interrupt_enable_q
      /\ w_we_q' = w_we_q /\ w_dst_q' = w_dst_q /\ w_result_q' = w_result_q /\ rf' = rf
      /\ data_pending_q' = data_pending_q /\ loaded' = loaded
  BY DEF vars, fetchVars, executeVars, dataVars
<1>2. NextPc' = NextPc
  BY <1>1 DEF NextPc
<1>3. Committed' = Committed
  BY <1>1 DEF Committed, RfWdata
<1> QED BY <1>1, <1>2, <1>3 DEF Sequential!vars

\* The pipeline implements the sequential machine on every run that executes code
\* which was flushed since it was rewritten and tests r0 once r0 was written.
THEOREM IsaImplemented == Spec /\ []FreshCode /\ []BranchesDefined => ImplementsIsa
<1>1. Inv /\ FreshCode /\ BranchesDefined /\ [Next]_vars
      => Sequential!Next \/ UNCHANGED Sequential!vars
  BY RefinedEdge, RefinedUnchanged
<1> QED BY <1>1, RefinedInit, PipeInvariant, PTL DEF Spec, ImplementsIsa, Sequential!Spec

-----------------------------------------------------------------------------
(* The flags of r0. *)

\* A load that arrives sets the flags to the register that it completes; any other
\* step that does not write r0 keeps both.
LEMMA FlagsArrive ==
  ASSUME Inv, NEW in, InOk(in), Edge(in), CoreAdvance(in), FlagsAgree,
         ~(XFinish(in) /\ Writes(x.instr) /\ ~XMemory /\ x.instr.d = 0)
  PROVE  (r0_zero_q' <=> Committed[0] = 0) /\ (r0_negative_q' <=> Negative(Committed[0]))
<1>1. CASE w_we_q /\ data_pending_q /\ w_dst_q = 0
  <2>1. r0_zero_q' = (loaded = 0) /\ r0_negative_q' = Negative(loaded)
    BY <1>1 DEF Edge, FlagsStep, RfWe
  <2>2. RfWdata = loaded
    <3>1. loaded \in Pc /\ w_result_q = 0
      BY <1>1 DEF Inv, TypeOK, DataInv
    <3>2. 0 + loaded = loaded
      BY <3>1, InstructionAssumption DEF Pc
    <3> QED BY <1>1, <3>1, <3>2, PcMod DEF RfWdata
  <2>3. Committed[0] = loaded
    BY <1>1, <2>2, RegisterFacts DEF Committed
  <2> QED BY <2>1, <2>3, Zenon
<1>2. CASE ~(w_we_q /\ data_pending_q /\ w_dst_q = 0)
  <2>1. r0_zero_q' = r0_zero_q /\ r0_negative_q' = r0_negative_q
    BY <1>2 DEF Edge, FlagsStep, RfWe
  <2> QED BY <1>2, <2>1 DEF FlagsAgree
<1> QED BY <1>1, <1>2

\* An instruction that writes r0 sets the flags, or leaves them to its load.
LEMMA FlagsWritten ==
  ASSUME Inv, NEW in, InOk(in), Edge(in), XFinish(in), Writes(x.instr), x.instr.d = 0
  PROVE  FlagsAgree'
<1>1. w_we_q' /\ w_dst_q' = 0 /\ w_result_q' = XResult /\ data_pending_q' = XMemory
      /\ CoreAdvance(in)
  BY Pushed
<1>2. CASE XMemory
  BY <1>1, <1>2 DEF FlagsAgree
<1>3. CASE ~XMemory
  <2>1. r0_zero_q' = (XResult = 0) /\ r0_negative_q' = Negative(XResult)
    BY <1>3 DEF Edge, FlagsStep
  <2>2. RfWdata' = XResult
    <3>1. XResult \in Pc /\ XResult + 0 = XResult
      BY WireTypes, InstructionAssumption DEF Inv, Pc
    <3>2. RfWdata' = (XResult + 0) % Size
      BY <1>1, <1>3 DEF RfWdata
    <3> QED BY <3>1, <3>2, PcMod
  <2>3. Committed'[0] = XResult
    BY <1>1, <2>2, RegisterFacts DEF Committed
  <2>4. (r0_zero_q' <=> Committed'[0] = 0) /\ (r0_negative_q' <=> Negative(Committed'[0]))
    BY <2>1, <2>3, Zenon
  <2> QED BY <2>4 DEF FlagsAgree, Negative
<1> QED BY <1>2, <1>3

\* A step that does not write r0 leaves its value alone.
LEMMA ZeroKept ==
  ASSUME Inv, NEW in, InOk(in), Edge(in), ~(XFinish(in) /\ Writes(x.instr) /\ x.instr.d = 0)
  PROVE  Committed'[0] = Committed[0]
<1>1. CASE XFinish(in)
  <2>1. /\ CoreAdvance(in) /\ w_we_q' = Writes(x.instr)
        /\ Writes(x.instr) => w_dst_q' = x.instr.d /\ w_dst_q' # 0
    BY <1>1, Pushed
  <2>2. Committed' = IF w_we_q' THEN [Committed EXCEPT ![w_dst_q'] = RfWdata'] ELSE Committed
    BY <2>1, CommittedPushed
  <2> QED BY <2>1, <2>2, RegisterFacts DEF Committed
<1>2. CASE TakeIrq
  <2>1. CoreAdvance(in) /\ w_dst_q' = S0
    BY <1>2, RunWires DEF Edge, WritebackStep
  <2>2. Committed' = IF w_we_q' THEN [Committed EXCEPT ![w_dst_q'] = RfWdata'] ELSE Committed
    BY <2>1, CommittedPushed
  <2> QED BY <2>1, <2>2, RegisterFacts DEF Committed
<1>3. CASE ~XFinish(in) /\ ~TakeIrq
  BY <1>3, CommittedKept
<1> QED BY <1>1, <1>2, <1>3

\* The flags follow r0 through a step.
LEMMA FlagsStays ==
  ASSUME Inv, NEW in, InOk(in), Edge(in),
         FlagsAgree \/ (XFinish(in) /\ Writes(x.instr) /\ x.instr.d = 0)
  PROVE  FlagsAgree'
<1>1. CASE XFinish(in) /\ Writes(x.instr) /\ x.instr.d = 0
  BY <1>1, FlagsWritten
<1>2. CASE ~(XFinish(in) /\ Writes(x.instr) /\ x.instr.d = 0)
  <2>1. Committed'[0] = Committed[0] /\ FlagsAgree
    BY <1>2, ZeroKept
  <2>2. CASE CoreAdvance(in)
    <3>1. (r0_zero_q' <=> Committed[0] = 0) /\ (r0_negative_q' <=> Negative(Committed[0]))
      BY <1>2, <2>1, <2>2, FlagsArrive
    <3>2. (r0_zero_q' <=> Committed'[0] = 0) /\ (r0_negative_q' <=> Negative(Committed'[0]))
      BY <2>1, <3>1, Zenon
    <3> QED BY <3>2 DEF FlagsAgree, Negative
  <2>3. CASE ~CoreAdvance(in)
    <3>1. ~XFinish(in) /\ ~TakeIrq
      BY <2>3, RunWires DEF XFinish
    <3>2. w_we_q' = w_we_q /\ data_pending_q' = data_pending_q /\ w_dst_q' = w_dst_q
      BY <2>3, <3>1, NoPush
    <3>3. r0_zero_q' = r0_zero_q /\ r0_negative_q' = r0_negative_q
      BY <2>3, <3>1 DEF Edge, FlagsStep, RfWe
    <3> QED BY <2>1, <3>2, <3>3 DEF FlagsAgree, Negative
  <2> QED BY <2>2, <2>3
<1> QED BY <1>1, <1>2

\* Stuttering keeps them.
LEMMA FlagsUnchanged == FlagsAgree /\ UNCHANGED vars => FlagsAgree'
<1> SUFFICES ASSUME FlagsAgree, UNCHANGED vars PROVE FlagsAgree'
  OBVIOUS
<1>1. /\ data_pending_q' = data_pending_q /\ w_we_q' = w_we_q /\ w_dst_q' = w_dst_q
      /\ w_result_q' = w_result_q /\ rf' = rf /\ loaded' = loaded
      /\ r0_zero_q' = r0_zero_q /\ r0_negative_q' = r0_negative_q
  BY DEF vars, executeVars, dataVars
<1>2. Committed' = Committed
  BY <1>1 DEF Committed, RfWdata
<1> QED BY <1>1, <1>2 DEF FlagsAgree, Negative

\* Once the flags agree with r0, whether they were lucky at reset or r0 has been
\* written, they always do.
FlagsFollow ==
  [][\A in \in Inputs :
       Edge(in) /\ (FlagsAgree \/ (XFinish(in) /\ Writes(x.instr) /\ x.instr.d = 0))
         => FlagsAgree']_vars

\* The first write of r0 makes the flags agree with it, and nothing parts them after.
THEOREM FlagsSettle == Spec => FlagsFollow
<1>1. Inv /\ [Next]_vars =>
      [\A in \in Inputs :
         Edge(in) /\ (FlagsAgree \/ (XFinish(in) /\ Writes(x.instr) /\ x.instr.d = 0))
           => FlagsAgree']_vars
  <2> SUFFICES ASSUME Inv, NEW in \in Inputs, Edge(in),
                      FlagsAgree \/ (XFinish(in) /\ Writes(x.instr) /\ x.instr.d = 0)
               PROVE  FlagsAgree'
    OBVIOUS
  <2>1. InOk(in)
    BY InputFacts DEF Inv
  <2> QED BY <2>1, FlagsStays
<1> QED BY <1>1, PipeInvariant, PTL DEF Spec, FlagsFollow

\* When the flags happen to agree with r0 at reset, branches are always defined:
\* fresh code is enough for the pipeline to implement the sequential machine.
THEOREM IsaFromReset == Spec /\ FlagsAgree /\ []FreshCode => ImplementsIsa
<1>1. Inv /\ FlagsAgree /\ [Next]_vars => FlagsAgree'
  <2>1. ASSUME Inv, FlagsAgree, NEW in \in Inputs, Edge(in) PROVE FlagsAgree'
    <3>1. InOk(in)
      BY <2>1, InputFacts DEF Inv
    <3> QED BY <2>1, <3>1, FlagsStays
  <2> QED BY <2>1, FlagsUnchanged DEF Next
<1>2. FlagsAgree => BranchesDefined
  BY DEF BranchesDefined
<1> QED BY <1>1, <1>2, PipeInvariant, IsaImplemented, PTL DEF Spec

\* Code that no store changes.
Unpatched == program.patch.instr = program.text[program.patch.pc]

\* Code that no store changes is fresh.
LEMMA UnpatchedFresh == Unpatched => FreshCode
<1>1. ASSUME Unpatched, NEW v, NEW w, NEW a PROVE Text(program, v, a) = Text(program, w, a)
  BY <1>1 DEF Unpatched, Text
<1> QED BY <1>1 DEF FreshCode, NextInstr

\* A program that does not rewrite itself needs no IFLUSH: the caches, the
\* prediction, the interrupts and the memory cannot be told from the sequential
\* machine.
THEOREM IsaOfPlainCode == Spec /\ FlagsAgree /\ Unpatched => ImplementsIsa
<1>1. Unpatched /\ [Next]_vars => Unpatched'
  <2>1. Next \/ UNCHANGED vars => program' = program
    BY DEF Next, Edge, vars
  <2> QED BY <2>1 DEF Unpatched
<1> QED BY <1>1, UnpatchedFresh, IsaFromReset, PTL DEF Spec
=============================================================================
