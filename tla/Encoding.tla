------------------------------- MODULE Encoding -------------------------------
(***************************************************************************)
(* The instruction encodings, from both sides: the assembler packs fields  *)
(* into halfwords (encode_insn, tools/riscc_asm.py) and the simulator      *)
(* takes them apart again (Sim.step, tools/riscc_sim.py).  The two tables  *)
(* are written down separately, as they are in the code.                   *)
(*                                                                         *)
(* An assembly instruction is a record [op, d, a, b]; its expression has   *)
(* the value v.  Registers and system registers are numbers.  Spellings    *)
(* of the same instruction (LDI8, FSL1 with and without alias, ...) and    *)
(* the number and kind of operands are left out.                           *)
(***************************************************************************)
EXTENDS Integers, Sequences

\* ---- the assembler's tables ----
IOp == [LDI |-> 0, LUI |-> 1, ADDI |-> 2, CMPI |-> 3, ANDI |-> 4, ORI |-> 5, XORI |-> 6]
BrCc == [BEQZ |-> 0, BNEZ |-> 1, BLTZ |-> 2, BGEZ |-> 3, JMP8 |-> 4]
RFunc ==
  [ADD |-> 0, SUB |-> 1, SLT |-> 2, SLTU |-> 3, AND |-> 4, OR |-> 5, XOR |-> 6, MUL |-> 7,
   LDX |-> 8, LDB |-> 10, STB |-> 11, SRLI |-> 12, SRAI |-> 13, LDBS |-> 14, SLLI |-> 15,
   DIVU |-> 16, FSL1 |-> 17, FSR1 |-> 17, MULHU |-> 20, SYS |-> 31]
SysSub == [CONTROL |-> 0, JALR |-> 1, MFS |-> 2, MTS |-> 3]
ControlCcc == [RET |-> 0, RETI |-> 5, IFLUSH |-> 3, CLI |-> 2, STI |-> 7]

ThreeRegister == {"ADD", "SUB", "AND", "OR", "XOR", "SLT", "SLTU", "MUL", "DIVU", "MULHU", "LDX"}
Shifts == {"SLLI", "SRLI", "SRAI"}
ByteAccess == {"LDB", "LDBS", "STB"}

\* ---- the assembler's formats ----
EncMem(store, d, a, imm8) == 16384 + d * 2048 + a * 256 + (imm8 - (imm8 % 2)) + store
EncI(d, op, imm8) == 32768 + d * 2048 + op * 256 + imm8
EncR(d, a, func, b) == 49152 + d * 2048 + a * 256 + func * 8 + b
EncLong(d) == d * 2048 + 52
\* Mutant: the displacement is not rotated.
RotatedNot(rel) == rel % 256
\* The displacement is rotated left by one, so that its sign is bit 0.
Rotated(rel) == LET u == rel % 256 IN 2 * (u % 128) + u \div 128
EncBranch(cc, rel) == EncI(cc, 7, Rotated(rel))
EncSys(d, a, sub) == EncR(d, a, RFunc.SYS, SysSub[sub])

InsnSize(op) == IF op \in {"LDI16", "JALL", "JMPL"} THEN 4 ELSE 2

Rel(v, pc) == v \div 2 - (pc \div 2 + 1)
SignedByte == -128 .. 127
CodeAddr(v) == v % 2 = 0 /\ v \in 0 .. 65535

\* Instructions that encode_insn takes; the others end the assembly with an error.
Encodable(i, v, pc, iflush) ==
  /\ i.op \in {"JALL", "JMPL"} => CodeAddr(v)
  /\ i.op \in {"LD", "ST"} => v % 2 = 0 /\ v \in SignedByte
  /\ i.op \in {"ADDI", "CMPI"} => v \in SignedByte
  /\ i.op \in DOMAIN BrCc => v % 2 = 0 /\ Rel(v, pc) \in SignedByte
  /\ i.op \in Shifts => v \in 1 .. 8
  /\ i.op = "IFLUSH" => iflush

Encode(i, v, pc) ==
  CASE i.op = "JALL" -> <<EncLong(i.d), v>>
    [] i.op = "JMPL" -> <<EncLong(0), v>>
    [] i.op = "LDI16" ->
         <<EncI(i.d, IOp.LUI, (v % 65536) \div 256), EncI(i.d, IOp.ORI, v % 256)>>
    [] i.op \in {"LD", "ST"} -> <<EncMem(IF i.op = "ST" THEN 1 ELSE 0, i.d, i.a, v % 256)>>
    [] i.op \in DOMAIN IOp -> <<EncI(i.d, IOp[i.op], v % 256)>>
    [] i.op \in DOMAIN BrCc -> <<EncBranch(BrCc[i.op], Rel(v, pc))>>
    [] i.op = "HALT" -> <<EncBranch(BrCc.JMP8, -1)>>
    [] i.op \in ThreeRegister -> <<EncR(i.d, i.a, RFunc[i.op], i.b)>>
    [] i.op \in Shifts -> <<EncR(i.d, i.a, RFunc[i.op], v - 1)>>
    [] i.op \in ByteAccess -> <<EncR(i.d, i.a, RFunc[i.op], 0)>>
    [] i.op = "FSL1" -> <<EncR(i.d, i.a, RFunc.FSL1, 0)>>
    [] i.op = "FSR1" -> <<EncR(i.d, i.a, RFunc.FSR1, 1)>>
    [] i.op = "MOV" -> <<EncR(i.d, i.a, RFunc.OR, i.a)>>
    [] i.op = "SHL1" -> <<EncR(i.d, i.a, RFunc.ADD, i.a)>>
    [] i.op = "NOP" -> <<EncR(0, 0, RFunc.OR, 0)>>
    [] i.op \in {"RET", "RETI"} -> <<EncSys(ControlCcc[i.op], i.a, "CONTROL")>>
    [] i.op \in {"CLI", "STI", "IFLUSH"} -> <<EncSys(ControlCcc[i.op], 0, "CONTROL")>>
    [] i.op \in {"JALR", "MFS", "MTS"} -> <<EncSys(i.d, i.a, i.op)>>
    [] i.op = "JMP" -> <<EncSys(0, i.a, "JALR")>>
    [] i.op = "MFEPC" -> <<EncSys(i.d, 0, "MFS")>>
    [] i.op = "MTEPC" -> <<EncSys(0, i.a, "MTS")>>

\* ---- the simulator's decoder ----
D(op, d, a, b, n) == [op |-> op, d |-> d, a |-> a, b |-> b, n |-> n]
Undefined == D("UNDEFINED", 0, 0, 0, 0)
Sx8(v) == IF v >= 128 THEN v - 256 ELSE v
Unrotated(imm8) == Sx8(imm8 \div 2 + 128 * (imm8 % 2))

ImmediateNames == <<"LDI", "LUI", "ADDI", "CMPI", "ANDI", "ORI", "XORI">>
AluNames == <<"ADD", "SUB", "SLT", "SLTU", "AND", "OR", "XOR", "MUL">>

DecodedControl(d, a) ==
  CASE d = 0 -> D("RET", 0, a, 0, 0)
    [] d = 5 -> D("RETI", 0, a, 0, 0)
    [] d = 3 /\ a = 0 -> D("IFLUSH", 0, 0, 0, 0)
    [] d = 2 /\ a = 0 -> D("CLI", 0, 0, 0, 0)
    [] d = 7 /\ a = 0 -> D("STI", 0, 0, 0, 0)
    [] OTHER -> Undefined

DecodedRegister(d, a, f, b) ==
  CASE f < 8 -> D(AluNames[f + 1], d, a, b, 0)
    [] f = 8 -> D("LDX", d, a, b, 0)
    [] f = 10 /\ b = 0 -> D("LDB", d, a, 0, 0)
    [] f = 14 /\ b = 0 -> D("LDBS", d, a, 0, 0)
    [] f = 11 /\ b = 0 -> D("STB", d, a, 0, 0)
    [] f = 12 -> D("SRLI", d, a, 0, b + 1)
    [] f = 13 -> D("SRAI", d, a, 0, b + 1)
    [] f = 15 -> D("SLLI", d, a, 0, b + 1)
    [] f = 16 /\ d # a /\ d # b /\ a # b -> D("DIVU", d, a, b, 0)
    [] f = 20 /\ d # a -> D("MULHU", d, a, b, 0)
    [] f = 17 /\ b = 0 -> D("FSL1", d, a, 0, 0)
    [] f = 17 /\ b = 1 -> D("FSR1", d, a, 0, 0)
    [] f = 31 /\ b = 0 -> DecodedControl(d, a)
    [] f = 31 /\ b = 1 -> D("JALR", d, a, 0, 0)
    [] f = 31 /\ b = 2 -> D("MFS", d, a, 0, 0)
    [] f = 31 /\ b = 3 -> D("MTS", d, a, 0, 0)
    [] OTHER -> Undefined

\* What the halfword ir at address pc does; extension is the halfword after it.
\* A branch is given with the address it goes to.
Decoded(ir, extension, pc) ==
  LET opc == ir \div 16384
      d == (ir \div 2048) % 8
      a == (ir \div 256) % 8
      imm8 == ir % 256
  IN CASE opc = 0 /\ ir % 2048 = 52 -> D("JALL", d, 0, 0, extension - (extension % 2))
       [] opc = 1 -> D(IF ir % 2 = 1 THEN "ST" ELSE "LD", d, a, 0, Sx8(imm8 - (imm8 % 2)))
       [] opc = 2 /\ a < 7 ->
            D(ImmediateNames[a + 1], d, 0, 0, IF a \in {2, 3} THEN Sx8(imm8) ELSE imm8)
       [] opc = 2 /\ a = 7 /\ d <= 4 ->
            D("BR", d, 0, 0, (pc + 2 + 2 * Unrotated(imm8)) % 65536)
       [] opc = 2 /\ a = 7 /\ d > 4 -> Undefined
       [] OTHER -> DecodedRegister(d, a, (ir \div 8) % 32, ir % 8)
=============================================================================
