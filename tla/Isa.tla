--------------------------------- MODULE Isa ---------------------------------
(***************************************************************************)
(* The instruction set as a sequential machine, as the instruction set     *)
(* simulator runs it (Sim.step, tools/riscc_sim.py): one instruction, or   *)
(* one interrupt entry, per step.  Every instruction is fetched from       *)
(* memory as it is when it is executed.                                    *)
(***************************************************************************)
EXTENDS Instructions

VARIABLES
  program,  \* the text and its patch; they never change
  pc, reg, ie,
  mem       \* the data cells

vars == <<program, pc, reg, ie, mem>>

Init ==
  /\ program \in Programs
  /\ pc = Start
  /\ ie = FALSE
  /\ mem = [c \in Cells |-> 0]
  /\ reg = [r \in Registers |-> 0]

Fetched(a) == Text(program, mem[PatchCell], a)

\* The address after instruction i; the target of JALL is the next halfword.
Successor(i) ==
  CASE i.op = "BR" /\ Taken(i, reg[0] = 0, Negative(reg[0])) -> Plus(pc, 1 + i.n)
    [] i.op \in {"JALR", "RET", "RETI"} -> reg[i.a]
    [] i.op = "JALL" -> Fetched(Plus(pc, 1)).n
    [] OTHER -> Plus(pc, 1)

Result(i) ==
  IF i.op = "LD" THEN mem[Cell(reg[i.a])] ELSE Compute(i, pc, reg[i.a], reg[i.b])

Step ==
  LET i == Fetched(pc) IN
  /\ reg' = IF Writes(i) THEN [reg EXCEPT ![i.d] = Result(i)] ELSE reg
  /\ mem' = IF i.op = "ST" THEN [mem EXCEPT ![Cell(reg[i.a])] = reg[i.b]] ELSE mem
  /\ pc' = Successor(i)
  /\ ie' = EnableAfter(i, ie)
  /\ UNCHANGED program

\* A level-sensitive request is taken between two instructions.
Interrupt ==
  /\ ie
  /\ reg' = [reg EXCEPT ![S0] = pc]
  /\ pc' = IrqVector
  /\ ie' = FALSE
  /\ UNCHANGED <<program, mem>>

Next == Step \/ Interrupt
Spec == Init /\ [][Next]_vars
=============================================================================
