----------------------------- MODULE CachedPipe -----------------------------
(***************************************************************************)
(* The pipeline of the cached core (riscc_cached_pipe,                     *)
(* rtl/riscc_cached.v): Fetch, Decode, Execute and Writeback, the branch   *)
(* target buffer, interrupts and IFLUSH.  One step is one clock edge.      *)
(*                                                                         *)
(* The memory system is the rest of the step.  It stalls and answers each  *)
(* port when it likes, but a port answers in order and no earlier than the *)
(* clock after it accepted.  A load returns what the cell held when it was *)
(* accepted; a fetch may return anything that the address held since the   *)
(* last IFLUSH (the fetch side of CachedMemory).                           *)
(*                                                                         *)
(* An input in holds the level of every input wire during the clock before *)
(* the edge, and the operators of in are the wires of that clock.          *)
(***************************************************************************)
EXTENDS Instructions

CONSTANTS
  Rows,   \* rows of the branch target buffer, 1 << INDEX_BITS
  NoRow

ASSUME PipeAssumption == Rows \in Nat \ {0} /\ NoRow \notin Nat

VARIABLES
  program, mem,
  seen,                \* what PatchCell held since the last IFLUSH
  \* Fetch and Decode
  f_pc_q, f_advance_q, recover_q, i_pending_q, i_discard_q, d_valid_q,
  reply,               \* imem_rdata of the last request that was accepted
  \* Execute
  state_q, x_valid_q, x_load_wait_q,
  x,                   \* the x_ registers that Decode loads with an instruction
  product,             \* what mul_a_q and mul_b_q multiply to
  interrupt_enable_q, interrupt_request_q,
  r0_zero_q, r0_negative_q,
  \* Writeback and the data port
  w_we_q, w_dst_q, w_result_q, rf, data_pending_q,
  loaded,              \* dmem_rdata of the last load that was accepted
  \* the branch target buffer
  target_mem, count_mem, clearing_q, clear_q, read_index_q,
  target_write,        \* target_write_index_q while target_write_q, or NoRow
  count_write          \* the row whose counter alone was written by the last edge

fetchVars == <<f_pc_q, f_advance_q, recover_q, i_pending_q, i_discard_q, d_valid_q, reply>>
executeVars == <<state_q, x_valid_q, x_load_wait_q, x, product, interrupt_enable_q,
                 interrupt_request_q, r0_zero_q, r0_negative_q>>
dataVars == <<w_we_q, w_dst_q, w_result_q, rf, data_pending_q, loaded, mem, seen>>
btbVars == <<target_mem, count_mem, clearing_q, clear_q, read_index_q, target_write,
             count_write>>
vars == <<program, fetchVars, executeVars, dataVars, btbVars>>

Count == 0 .. 3
Row == 0 .. Rows - 1
Tag(a) == a \div Rows
Index(a) == ((a % Rows) + Tag(a)) % Rows

TypeOK ==
  /\ program \in Programs
  /\ mem \in [Cells -> Pc] /\ seen \subseteq Pc
  /\ f_pc_q \in Pc /\ reply \in Instruction
  /\ {f_advance_q, recover_q, i_pending_q, i_discard_q, d_valid_q} \subseteq BOOLEAN
  /\ state_q \in {"RUN", "MUL", "MUL_CALC", "IFLUSH"}
  /\ {x_valid_q, x_load_wait_q} \subseteq BOOLEAN
  /\ x \in [instr : Instruction, pc : Pc, count : Count, hit : BOOLEAN, collision : BOOLEAN,
            jall_hit : BOOLEAN, forward_a : BOOLEAN, forward_b : BOOLEAN]
  /\ product \in Pc
  /\ {interrupt_enable_q, interrupt_request_q, r0_zero_q, r0_negative_q} \subseteq BOOLEAN
  /\ {w_we_q, data_pending_q, clearing_q} \subseteq BOOLEAN
  /\ w_dst_q \in Registers /\ w_result_q \in Pc
  /\ rf \in [Registers -> Pc] /\ loaded \in Pc
  /\ target_mem \in [Row -> [tag : 0 .. Tag(Size - 1), target : Pc]]
  /\ count_mem \in [Row -> Count]
  /\ clear_q \in Row /\ read_index_q \in Row
  /\ {target_write, count_write} \subseteq Row \cup {NoRow}

-----------------------------------------------------------------------------
(* Execute. *)

XIs(ops) == x.instr.op \in ops
XMemory == XIs({"LD", "ST"})
XIndirect == XIs({"JALR", "RET", "RETI"})

CoreAdvance(in) == ~data_pending_q \/ in.dmem_ack
DValid(in) == d_valid_q \/ (i_pending_q /\ in.imem_ack /\ ~i_discard_q)

IrqWaiting == interrupt_request_q /\ interrupt_enable_q
RunX == state_q = "RUN" /\ x_valid_q /\ ~recover_q /\ ~x_load_wait_q
\* Mutant: no interrupt while a load or store waits for the port.
TakeIrqLate == RunX /\ ~data_pending_q /\ IrqWaiting /\ ~XMemory
TakeIrq == RunX /\ ~data_pending_q /\ IrqWaiting
NormalX(in) == RunX /\ CoreAdvance(in) /\ ~IrqWaiting

RfA == IF x.forward_a THEN w_result_q ELSE rf[x.instr.a]
RfB == IF x.forward_b THEN w_result_q ELSE rf[x.instr.b]

MulStart(in) == NormalX(in) /\ XIs({"MUL"})
IFlushStart(in) == NormalX(in) /\ XIs({"IFLUSH"})
IFlushDone(in) ==
  state_q = "IFLUSH" /\ in.iflush_ack /\ ~clearing_q /\ ~i_pending_q /\ ~data_pending_q

RunReady(in) ==
  /\ RunX /\ ~IrqWaiting /\ ~XIs({"IFLUSH", "MUL"})
  /\ XMemory => ~in.dmem_stall
  /\ XIs({"JALL"}) => x.jall_hit \/ DValid(in)
XReady(in) == RunReady(in) \/ state_q = "MUL" \/ IFlushDone(in)
XFinish(in) == CoreAdvance(in) /\ XReady(in)
XSlotAvailable(in) == CoreAdvance(in) /\ (x_valid_q => XReady(in))

\* The memory system takes a load or a store.
DataAccept(in) == NormalX(in) /\ XMemory /\ ~in.dmem_stall

-----------------------------------------------------------------------------
(* Control transfers. *)

BranchTaken == XIs({"BR"}) /\ Taken(x.instr, r0_zero_q, r0_negative_q)
PredictedTaken == x.hit /\ x.count >= 2
SuccessorWrong == RfA # f_pc_q

\* The second halfword of a JALL that the branch target buffer missed.
JallPayloadDone(in) == NormalX(in) /\ XIs({"JALL"}) /\ ~x.jall_hit /\ DValid(in)
TakenBranchMiss(in) == NormalX(in) /\ BranchTaken /\ ~PredictedTaken
IndirectMiss(in) ==
  NormalX(in) /\ XIndirect /\ ((~d_valid_q /\ ~i_pending_q) \/ SuccessorWrong)
DeferredRecovery(in) == NormalX(in) /\ XIs({"BR"}) /\ ~BranchTaken /\ PredictedTaken
ResolvedRedirect(in) == TakenBranchMiss(in) \/ IndirectMiss(in) \/ JallPayloadDone(in)
Redirect(in) ==
  TakeIrq \/ IFlushStart(in) \/ IFlushDone(in) \/ recover_q \/ ResolvedRedirect(in)

ResolvedTarget ==
  IF XIs({"JALL"}) THEN reply.n ELSE IF XIndirect THEN RfA ELSE Plus(x.pc, 1 + x.instr.n)

\* What Decode holds goes to Execute.
DIssue(in) == DValid(in) /\ XSlotAvailable(in) /\ ~Redirect(in)

-----------------------------------------------------------------------------
(* The branch target buffer.  A row that is being written reads as a miss, *)
(* a counter that is being written reads as anything.                      *)

BtbCollision == target_write = read_index_q
RowCount(in) == IF count_write = read_index_q THEN in.mixed ELSE count_mem[read_index_q]
BtbCount(in) ==
  IF ~clearing_q /\ ~BtbCollision /\ target_mem[read_index_q].tag = Tag(f_pc_q)
  THEN RowCount(in) ELSE 0
PredictBtb(in) == state_q # "IFLUSH" /\ f_advance_q /\ BtbCount(in) >= 2

FetchReady(in) ==
  /\ ~clearing_q /\ ~IFlushStart(in)
  /\ state_q = "IFLUSH" => IFlushDone(in)
  /\ i_pending_q => in.imem_ack
FetchStb(in) ==
  FetchReady(in) /\ (TakeIrq \/ recover_q \/ ~DValid(in) \/ XSlotAvailable(in))
IAccept(in) == FetchStb(in) /\ ~in.imem_stall

SequentialFetchPc == IF f_advance_q THEN Plus(f_pc_q, 1) ELSE f_pc_q
ImemAddr(in) ==
  IF TakeIrq THEN IrqVector
  ELSE IF ResolvedRedirect(in) THEN ResolvedTarget
  ELSE IF PredictBtb(in) /\ ~recover_q THEN target_mem[read_index_q].target
  ELSE SequentialFetchPc

FetchStep(in) ==
  LET accept == IAccept(in)
      redirect == Redirect(in)
      issue == DIssue(in)
      arrived == i_pending_q /\ in.imem_ack /\ ~i_discard_q
  IN
  /\ recover_q' = DeferredRecovery(in)
  /\ i_pending_q' = (accept \/ (i_pending_q /\ ~in.imem_ack))
  /\ i_discard_q' = (i_pending_q /\ ~in.imem_ack /\ (i_discard_q \/ redirect))
  /\ d_valid_q' =
       (~redirect /\ (IF issue THEN d_valid_q /\ arrived ELSE DValid(in)))
  /\ IF DeferredRecovery(in) \/ IFlushStart(in)
     THEN f_pc_q' = x.pc /\ f_advance_q' = TRUE
     ELSE IF redirect \/ issue \/ (~DValid(in) /\ FetchReady(in) /\ ~in.imem_stall)
     THEN f_pc_q' = ImemAddr(in) /\ f_advance_q' = accept
     ELSE UNCHANGED <<f_pc_q, f_advance_q>>
  /\ IF accept
     THEN \E v \in seen' : reply' = Text(program, v, ImemAddr(in))
     ELSE UNCHANGED reply

-----------------------------------------------------------------------------
(* Decode to Execute. *)

\* The registers that instruction i reads.
Sources(i) ==
  {r \in Registers :
     \/ r = i.a /\ i.op \in {"ADDI", "SLTU", "MUL", "LD", "ST", "JALR", "MTS"}
     \/ r = i.b /\ i.op \in {"SLTU", "MUL", "ST"}
     \/ r = 0 /\ i.op = "BR"}
\* Mutant: branches do not wait for a load of r0.
LoadUseOperands ==
  x_valid_q /\ XIs({"LD"}) /\ x.instr.d \in Sources(reply) /\ reply.op # "BR"
LoadUse == x_valid_q /\ XIs({"LD"}) /\ x.instr.d \in Sources(reply)
Forward(r) == x_valid_q /\ Writes(x.instr) /\ ~XIs({"LD"}) /\ x.instr.d = r

\* Mutant: a redirect goes before the start of a flush.
NextStateRedirected(in) ==
  IF Redirect(in) THEN "RUN"
  ELSE IF IFlushStart(in) THEN "IFLUSH"
  ELSE IF MulStart(in) THEN "MUL_CALC"
  ELSE IF state_q = "MUL_CALC" THEN "MUL"
  ELSE IF XFinish(in) \/ ~x_valid_q THEN "RUN" ELSE state_q
NextState(in) ==
  IF IFlushStart(in) THEN "IFLUSH"
  ELSE IF Redirect(in) THEN "RUN"
  ELSE IF MulStart(in) THEN "MUL_CALC"
  ELSE IF state_q = "MUL_CALC" THEN "MUL"
  ELSE IF XFinish(in) \/ ~x_valid_q THEN "RUN" ELSE state_q

\* The x_ registers hold when nothing is issued: they are not used before the
\* next issue.
ExecuteStep(in) ==
  LET issue == DIssue(in) IN
  /\ state_q' = IF CoreAdvance(in) THEN NextState(in) ELSE state_q
  /\ x_valid_q' =
       (~recover_q /\ (IF TakeIrq \/ XSlotAvailable(in) THEN issue ELSE x_valid_q))
  /\ x_load_wait_q' = IF CoreAdvance(in) THEN issue /\ LoadUse ELSE x_load_wait_q
  /\ x' = IF issue
          THEN [instr |-> reply, pc |-> f_pc_q, count |-> RowCount(in),
                hit |-> BtbCount(in) > 0, collision |-> BtbCollision,
                jall_hit |-> reply.op = "JALL" /\ BtbCount(in) >= 2,
                forward_a |-> Forward(reply.a), forward_b |-> Forward(reply.b)]
          ELSE x
  /\ product' = IF MulStart(in) THEN (RfA * RfB) % Size ELSE product
  /\ interrupt_request_q' = in.irq
  /\ interrupt_enable_q' =
       (IF TakeIrq THEN FALSE
        ELSE IF CoreAdvance(in) /\ RunReady(in) THEN EnableAfter(x.instr, interrupt_enable_q)
        ELSE interrupt_enable_q)

-----------------------------------------------------------------------------
(* Writeback and the data port. *)

XResult ==
  IF TakeIrq THEN x.pc
  ELSE IF XIs({"LD"}) THEN 0
  ELSE IF state_q = "MUL" THEN product
  ELSE Compute(x.instr, x.pc, RfA, RfB)

\* A load leaves zero in the completion slot: its data is ORed in.
RfWdata == (w_result_q + (IF data_pending_q THEN loaded ELSE 0)) % Size
RfWe(in) == CoreAdvance(in) /\ w_we_q

\* The destination holds when there is none.
WritebackStep(in) ==
  LET push == XFinish(in) \/ TakeIrq IN
  /\ rf' = IF RfWe(in) THEN [rf EXCEPT ![w_dst_q] = RfWdata] ELSE rf
  /\ w_we_q' = IF CoreAdvance(in) THEN push /\ (TakeIrq \/ Writes(x.instr)) ELSE w_we_q
  /\ w_dst_q' = IF ~push THEN w_dst_q ELSE IF TakeIrq THEN S0
                ELSE IF Writes(x.instr) THEN x.instr.d ELSE w_dst_q
  /\ w_result_q' = IF push THEN XResult ELSE w_result_q

\* The r0 properties that branches test; an Execute result overrides a load.
FlagsStep(in) ==
  LET executed == XFinish(in) /\ Writes(x.instr) /\ ~XMemory /\ x.instr.d = 0
      arrived == RfWe(in) /\ data_pending_q /\ w_dst_q = 0
      value == IF executed THEN XResult ELSE loaded
  IN
  IF executed \/ arrived
  THEN r0_zero_q' = (value = 0) /\ r0_negative_q' = Negative(value)
  ELSE UNCHANGED <<r0_zero_q, r0_negative_q>>

DataStep(in) ==
  LET accept == DataAccept(in)
      cell == Cell(RfA)
  IN
  /\ data_pending_q' = IF CoreAdvance(in) THEN accept ELSE data_pending_q
  /\ mem' = IF accept /\ XIs({"ST"}) THEN [mem EXCEPT ![cell] = RfB] ELSE mem
  /\ loaded' = IF accept /\ XIs({"LD"}) THEN mem[cell] ELSE loaded
  /\ seen' = IF IFlushDone(in) THEN {mem[PatchCell]} ELSE seen \cup {mem'[PatchCell]}

-----------------------------------------------------------------------------
(* What Execute teaches the branch target buffer. *)

XTaken == BranchTaken \/ XIndirect \/ XIs({"JALL"})
Conditional == XIs({"BR"}) /\ x.instr.d # 4
Update(in) ==
  XFinish(in) /\ ~XIs({"IFLUSH"}) /\ ~x.collision /\ (XTaken \/ (x.hit /\ XIs({"BR"})))
ReplaceTarget(in) ==
  /\ Update(in) /\ XTaken
  /\ x.hit \/ x.count < 2
  /\ x.hit => XIndirect /\ SuccessorWrong

\* Mutant: the counter does not saturate.
CountNextWide ==
  IF ~x.hit THEN (IF x.count >= 2 THEN x.count - 1 ELSE 2)
  ELSE IF ~Conditional THEN 3
  ELSE IF XTaken THEN x.count + 1
  ELSE IF x.count = 0 THEN 0 ELSE x.count - 1
\* A miss ages the resident row and takes it over below weakly taken.
CountNext ==
  IF ~x.hit THEN (IF x.count >= 2 THEN x.count - 1 ELSE 2)
  ELSE IF ~Conditional THEN 3
  ELSE IF XTaken THEN (IF x.count = 3 THEN 3 ELSE x.count + 1)
  ELSE IF x.count = 0 THEN 0 ELSE x.count - 1

\* Mutant: IFLUSH keeps the cached targets.
BtbKept(in) == FALSE

BtbFlush(in) == IFlushStart(in)

BtbStep(in) ==
  LET update == Update(in) /\ ~clearing_q /\ ~BtbFlush(in)
      replace == update /\ ReplaceTarget(in)
      row == Index(x.pc)
  IN
  /\ read_index_q' = IF IAccept(in) THEN Index(ImemAddr(in)) ELSE read_index_q
  /\ target_write' = IF replace THEN row ELSE NoRow
  /\ count_write' = IF update /\ ~replace THEN row ELSE NoRow
  /\ target_mem' = IF replace
                   THEN [target_mem EXCEPT ![row] = [tag |-> Tag(x.pc), target |-> ResolvedTarget]]
                   ELSE target_mem
  /\ IF BtbFlush(in)
     THEN clearing_q' = TRUE /\ clear_q' = 0 /\ UNCHANGED count_mem
     ELSE IF clearing_q
     THEN /\ count_mem' = [count_mem EXCEPT ![clear_q] = 0]
          /\ clear_q' = (clear_q + 1) % Rows
          /\ clearing_q' = (clear_q # Rows - 1)
     ELSE /\ count_mem' = IF update THEN [count_mem EXCEPT ![row] = CountNext] ELSE count_mem
          /\ UNCHANGED <<clearing_q, clear_q>>

-----------------------------------------------------------------------------
\* After reset; the register file holds zeros and the r0 flags anything.
Init ==
  /\ program \in Programs
  /\ mem = [c \in Cells |-> 0] /\ seen = {0}
  /\ f_pc_q = Start /\ f_advance_q = FALSE /\ recover_q = FALSE
  /\ i_pending_q = FALSE /\ i_discard_q = FALSE /\ d_valid_q = FALSE
  /\ reply = program.text[Start]
  /\ state_q = "RUN" /\ x_valid_q = FALSE /\ x_load_wait_q = FALSE
  /\ x = [instr |-> reply, pc |-> Start, count |-> 0, hit |-> FALSE, collision |-> FALSE,
          jall_hit |-> FALSE, forward_a |-> FALSE, forward_b |-> FALSE]
  /\ product = 0
  /\ interrupt_enable_q = FALSE /\ interrupt_request_q = FALSE
  /\ r0_zero_q \in BOOLEAN /\ r0_negative_q \in BOOLEAN
  /\ w_we_q = FALSE /\ w_dst_q = 0 /\ w_result_q = 0
  /\ rf = [r \in Registers |-> 0]
  /\ data_pending_q = FALSE /\ loaded = 0
  /\ target_mem = [r \in Row |-> [tag |-> 0, target |-> 0]]
  /\ count_mem = [r \in Row |-> 0]
  /\ clearing_q = TRUE /\ clear_q = 0 /\ read_index_q = 0
  /\ target_write = NoRow /\ count_write = NoRow

Edge(in) ==
  /\ DataStep(in)
  /\ FetchStep(in)
  /\ ExecuteStep(in)
  /\ WritebackStep(in)
  /\ FlagsStep(in)
  /\ BtbStep(in)
  /\ UNCHANGED program

\* What the outside can do: an answer belongs to a request.
Inputs ==
  {[irq |-> irq, imem_stall |-> imem_stall, imem_ack |-> imem_ack, dmem_stall |-> dmem_stall,
    dmem_ack |-> dmem_ack, iflush_ack |-> iflush_ack, mixed |-> mixed] :
     irq \in BOOLEAN, imem_stall \in BOOLEAN, imem_ack \in {FALSE, i_pending_q},
     dmem_stall \in {FALSE, RunX /\ XMemory}, dmem_ack \in {FALSE, data_pending_q},
     iflush_ack \in {FALSE, state_q = "IFLUSH"},
     mixed \in IF count_write = read_index_q THEN Count ELSE {0}}

Next == \E in \in Inputs : Edge(in)
Spec == Init /\ [][Next]_vars

\* The clock runs, without the interrupt request having to change; the memory
\* system takes what is offered for long enough and answers what it took.
FairSpec ==
  /\ Spec
  /\ WF_vars(\E in \in Inputs : in.irq = interrupt_request_q /\ Edge(in))
  /\ WF_vars(\E in \in Inputs : in.imem_ack /\ Edge(in))
  /\ WF_vars(\E in \in Inputs : in.dmem_ack /\ Edge(in))
  /\ WF_vars(\E in \in Inputs : IAccept(in) /\ Edge(in))
  /\ WF_vars(\E in \in Inputs : DataAccept(in) /\ Edge(in))
  /\ WF_vars(\E in \in Inputs : IFlushDone(in) /\ Edge(in))
-----------------------------------------------------------------------------
\* The next instruction that has not taken effect.
NextPc == IF recover_q THEN Plus(f_pc_q, 1) ELSE IF x_valid_q THEN x.pc ELSE f_pc_q
\* The registers, the completion slot included.
Committed == [r \in Registers |-> IF w_we_q /\ w_dst_q = r THEN RfWdata ELSE rf[r]]

Sequential ==
  INSTANCE Isa WITH pc <- NextPc, reg <- Committed, ie <- interrupt_enable_q

\* Whatever the memory delays, the predictor says and the interrupts do, the
\* pipeline executes the program one instruction after the other: a wrong path
\* changes nothing, an operand is the newest value, an interrupt falls between
\* two instructions and an IFLUSH is followed by the code that was stored.
ImplementsIsa == Sequential!Spec

\* Where it does, code that was rewritten is flushed before it is executed, and
\* r0 has been written before a branch tests it: the core fetches what a cell held
\* since the last IFLUSH, and its r0 flags start with anything.
NextInstr == Text(program, mem[PatchCell], NextPc)
FreshCode ==
  \A v \in seen :
    /\ Text(program, v, NextPc) = NextInstr
    /\ NextInstr.op = "JALL" =>
         Text(program, v, Plus(NextPc, 1)) = Text(program, mem[PatchCell], Plus(NextPc, 1))
FlagsAgree ==
  \/ data_pending_q /\ w_we_q /\ w_dst_q = 0
  \/ /\ r0_zero_q <=> Committed[0] = 0
     /\ r0_negative_q <=> Negative(Committed[0])
BranchesDefined == NextInstr.op = "BR" /\ NextInstr.d # 4 => FlagsAgree

-----------------------------------------------------------------------------
RowPc(r) ==
  LET t == target_mem[r].tag IN t * Rows + ((r + Rows * t - t) % Rows)

\* A row of the branch target buffer that can hit belongs to a transfer of
\* control in the code since the last IFLUSH, and gives its target; Execute
\* checks the targets of indirect transfers only.
TargetsTrue ==
  \A r \in Row : count_mem[r] > 0 /\ ~clearing_q =>
    \E v, w \in seen :
      LET i == Text(program, v, RowPc(r))
          long == Text(program, w, Plus(RowPc(r), 1))
      IN  \/ i.op = "BR" /\ target_mem[r].target = Plus(RowPc(r), 1 + i.n)
          \/ i.op = "JALL" /\ target_mem[r].target = long.n
          \/ i.op \in {"JALR", "RET", "RETI"}

\* The predictor may be wrong about where code goes, never about what the code is.
PredictionKept == TypeOK /\ TargetsTrue

\* No instruction is stuck for ever, whatever refetches, refills and flushes it
\* waits for.
InstructionsComplete == []<><<NextPc' # NextPc>>_vars

\* A request that stays is taken whenever interrupts are enabled.
InterruptsTaken == <>[]interrupt_request_q => []<>~interrupt_enable_q
=============================================================================
