---------------------------- MODULE Instructions ----------------------------
(***************************************************************************)
(* What single instructions mean (Sim.step, tools/riscc_sim.py).           *)
(*                                                                         *)
(* Encodings are left out: an instruction is a record with an operation,   *)
(* the register it writes (or the condition it tests), two source          *)
(* registers and a number.  One operation stands for each way in which     *)
(* instructions move data or control.  Registers hold halfword addresses   *)
(* where the program holds byte addresses.                                 *)
(*                                                                         *)
(* Code is memory: the instruction of the text at patch.pc is replaced by  *)
(* patch.instr while data cell PatchCell is not zero.                      *)
(***************************************************************************)
EXTENDS Naturals

CONSTANTS
  Size,      \* halfword addresses, 0 .. Size - 1
  General,   \* r0, r1, ... as 0, 1, ...
  System,    \* s0, s1, ... as 8, 9, ...
  Start,     \* the reset address
  Programs   \* each a record with a text and a patch

Pc == 0 .. Size - 1
Registers == General \cup System
S0 == 8
IrqVector == 2
Cells == {0, 1}
PatchCell == 1

Ops == {"LDI", "ADDI", "SLTU", "MUL", "LD", "ST", "BR", "JALR", "JALL",
        "RET", "RETI", "CLI", "STI", "MFS", "MTS", "IFLUSH"}

Links(i) == i.op \in {"JALR", "JALL"} /\ i.d # S0
Writes(i) ==
  i.op \in {"LDI", "ADDI", "SLTU", "MUL", "LD", "MFS", "MTS"} \/ Links(i)

\* What an encoding can name: a register that exists is written, loads write
\* general registers, and MFS and the returns read system registers.
Encodable(i) ==
  /\ Writes(i) => i.d \in Registers
  /\ i.op = "LD" => i.d \in General
  /\ i.op \in {"MFS", "RET", "RETI"} => i.a \in System
Instruction ==
  {i \in [op : Ops, d : 0 .. 15, a : Registers, b : Registers, n : Pc] : Encodable(i)}

ASSUME InstructionAssumption ==
  /\ Size \in Nat /\ Size > 2 /\ Start \in Pc
  /\ 0 \in General /\ General \subseteq 0 .. 7
  /\ S0 \in System /\ System \subseteq 8 .. 15
  /\ Programs \subseteq
       [text : [Pc -> Instruction], patch : [pc : Pc, instr : Instruction]]

Plus(a, n) == (a + n) % Size
Cell(v) == v % 2
Text(p, v, a) == IF v # 0 /\ a = p.patch.pc THEN p.patch.instr ELSE p.text[a]

\* Results that do not come from memory: i is at address a, x and y are its
\* source operands.
Compute(i, a, x, y) ==
  CASE i.op = "LDI" -> i.n
    [] i.op = "ADDI" -> Plus(x, i.n)
    [] i.op = "SLTU" -> IF x < y THEN 1 ELSE 0
    [] i.op = "MUL" -> (x * y) % Size
    [] i.op = "JALR" -> Plus(a, 1)
    [] i.op = "JALL" -> Plus(a, 2)
    [] OTHER -> x

\* The branch conditions test r0: zero, not zero, negative, not negative; or always.
Negative(v) == 2 * v >= Size
Taken(i, zero, negative) ==
  \/ i.d = 4
  \/ i.d = 0 /\ zero
  \/ i.d = 1 /\ ~zero
  \/ i.d = 2 /\ negative
  \/ i.d = 3 /\ ~negative

EnableAfter(i, e) == (e \/ i.op \in {"STI", "RETI"}) /\ i.op # "CLI"
=============================================================================
