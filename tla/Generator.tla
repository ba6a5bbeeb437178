------------------------------ MODULE Generator ------------------------------
(***************************************************************************)
(* The generators of random programs (Gen and NanoGen,                     *)
(* tools/riscc_fuzz.py).  A line is an assembly instruction                *)
(* [op, d, a, b, n, lab] or a label.  The random numbers of a piece are a  *)
(* draw [k, i, x, y, z, n]: the kind of operation, the choice within it,   *)
(* three registers and a byte.  A piece of the body is [k, w, ops]: its    *)
(* kind, its own draw, and the draws of the operations inside it.  Blocks  *)
(* that are only there to use every instruction once keep those whose      *)
(* order or placement matters.  The code that no run reaches (the fail     *)
(* block, the third vector) and the RC32 generator are left out.           *)
(***************************************************************************)
EXTENDS Encoding, SequencesExt

CONSTANT WinWords   \* words of the data window

Win == 64512
TestIrqAddr == 65530
ResultAddr == 65534
IrqMarker == 32496
NanoScratch == 64256
FailBase == 2816
Pass == 24589

\* ---- what a configuration implements ----
ParseConfig(config) ==
  LET full == config \in {"full", "full-mulh", "full-muldiv"}
      sys == full \/ config = "sys"
      mulhu == config \in {"full-mulh", "full-muldiv"}
  IN [nano |-> config = "nano", sys |-> sys, long |-> sys, full |-> full, mulhu |-> mulhu,
      divu |-> config = "full-muldiv", mdu |-> mulhu, iflush |-> FALSE]

\* ---- lines ----
Line(op, d, a, b, n, lab) == [op |-> op, d |-> d, a |-> a, b |-> b, n |-> n, lab |-> lab]
NoLabel == <<"none", 0>>
R3(op, d, a, b) == Line(op, d, a, b, 0, NoLabel)
R2(op, d, a) == R3(op, d, a, 0)
Im(op, d, n) == Line(op, d, 0, 0, n, NoLabel)
Off(op, d, a, n) == Line(op, d, a, 0, n, NoLabel)
To(op, d, lab) == Line(op, d, 0, 0, 0, lab)
Here(lab) == To("label", 0, lab)

Pick(seq, i) == seq[(i % Len(seq)) + 1]
Conditions == <<"BEQZ", "BNEZ", "BLTZ", "BGEZ">>

\* ---- RC16 operations ----
OpAlu(w) ==
  <<R3(Pick(<<"ADD", "SUB", "SLT", "SLTU", "AND", "OR", "XOR">>, w.i), w.x, w.y, w.z)>>
OpImm(w) ==
  LET op == Pick(<<"LDI", "LUI", "ADDI", "CMPI", "ANDI", "ORI", "XORI">>, w.i)
  IN <<Im(op, w.x, IF op \in {"ADDI", "CMPI"} THEN Sx8(w.n) ELSE w.n)>>
OpShift(cfg, w) ==
  IF cfg.full THEN <<Off(Pick(<<"SRLI", "SRAI", "SLLI">>, w.i), w.x, w.y, (w.n % 8) + 1)>>
  ELSE <<Off(Pick(<<"SRLI", "SRAI">>, w.i), w.x, w.y, 1)>>
OpMul(w) == <<R3("MUL", w.x, w.y, w.z)>>

\* Registers drawn without repetition are neighbours.
Neighbour(r) == (r % 6) + 1
Divide(w) ==
  LET rq == Neighbour(w.x)
      rb == Neighbour(rq)
      divisor == 200 * w.n + 1
  IN <<Im("LDI16", w.x, divisor - 1), Im("LDI16", rq, 257 * w.n), Im("LDI16", rb, divisor),
       R3("DIVU", w.x, rq, rb)>>
Multiply(w) ==
  LET high == Neighbour(w.x)
  IN <<Im("LDI16", high, 257 * w.n)>>
     \o (IF w.z = high THEN <<>> ELSE <<Im("LDI16", w.z, 65535 - w.n)>>)
     \o <<R3("MULHU", w.x, high, w.z)>>
OpMdu(cfg, w) == IF cfg.divu /\ w.i % 2 = 0 THEN Divide(w) ELSE Multiply(w)

WindowByte(n) == <<Im("LDI", 0, n % (2 * WinWords)), R3("ADD", 0, 7, 0)>>
OpMem(w) ==
  <<Im("LDI16", 7, Win)>> \o
  CASE w.i % 4 = 0 -> <<Off("ST", w.x, 7, 2 * (w.n % WinWords))>>
    [] w.i % 4 = 1 -> <<Off("LD", w.x, 7, 2 * (w.n % WinWords))>>
    [] w.i % 4 = 2 -> WindowByte(w.n) \o <<R2(Pick(<<"LDB", "LDBS">>, w.y), w.x, 0)>>
    [] w.i % 4 = 3 -> WindowByte(w.n) \o <<R2("STB", w.x, 0)>>

OpSreg(w) ==
  LET s == (w.n % 3) + 4 IN IF w.i % 2 = 0 THEN <<R2("MTS", s, w.x)>> ELSE <<R2("MFS", w.x, s)>>

RcOperation(cfg, w) ==
  CASE w.k = "alu" -> OpAlu(w)
    [] w.k = "imm" -> OpImm(w)
    [] w.k = "shift" -> OpShift(cfg, w)
    [] w.k = "mdu" /\ cfg.mulhu -> OpMdu(cfg, w)
    [] w.k \in {"mul", "mdu"} /\ cfg.full -> OpMul(w)
    [] OTHER -> OpSreg(w)

\* The registers whose names count when a line is searched for the excluded one.
Named(line) ==
  CASE line.op = "MTS" -> {line.a}
    [] line.op \in DOMAIN IOp \cup {"LDI16", "MFS"} -> {line.d}
    [] line.op \in Shifts \cup ByteAccess \cup {"LD", "ST", "SHL1"} -> {line.d, line.a}
    [] OTHER -> {line.d, line.a, line.b}
Avoids(lines, exclude) == \A n \in DOMAIN lines : exclude \notin Named(lines[n])
\* Operations are drawn until there are enough; one that names the excluded register
\* is dropped and drawn again.
Accepted(candidates, exclude) ==
  FlattenSeq(SelectSeq(candidates, LAMBDA lines : Avoids(lines, exclude)))
SimpleOp(cfg, ops, exclude) == Accepted([n \in DOMAIN ops |-> RcOperation(cfg, ops[n])], exclude)
Anything == 8

OpBranchBlock(cfg, p, k) ==
  <<Im("CMPI", p.w.x, p.w.n % 128), To(Pick(Conditions, p.w.i), 0, <<"fwd", k>>)>>
  \o SimpleOp(cfg, p.ops, Anything) \o <<Here(<<"fwd", k>>)>>
\* Mutant: the body may change the counter.
OpLoopOpen(cfg, p, k) ==
  <<Im("LDI", p.w.x, (p.w.n % 5) + 1), Here(<<"loop", k>>)>>
  \o SimpleOp(cfg, p.ops, Anything)
  \o <<Im("ADDI", p.w.x, -1), R2("MOV", 0, p.w.x), To("BNEZ", 0, <<"loop", k>>)>>
OpLoop(cfg, p, k) ==
  <<Im("LDI", p.w.x, (p.w.n % 5) + 1), Here(<<"loop", k>>)>>
  \o SimpleOp(cfg, p.ops, p.w.x)
  \o <<Im("ADDI", p.w.x, -1), R2("MOV", 0, p.w.x), To("BNEZ", 0, <<"loop", k>>)>>
OpCall(cfg, p, k) ==
  IF cfg.long /\ p.w.i % 2 = 0 THEN <<To("JALL", 7, <<"sub", k>>)>>
  ELSE <<To("LDI16", p.w.x, <<"sub", k>>), R2("JALR", 7, p.w.x)>>
RcSub(cfg, p, k) == <<Here(<<"sub", k>>)>> \o SimpleOp(cfg, p.ops, Anything) \o <<R2("RET", 0, 7)>>
OpIeWindow(cfg, p) ==
  <<R2("CLI", 0, 0)>> \o SimpleOp(cfg, p.ops, Anything) \o <<R2("STI", 0, 0)>>

\* ---- every instruction once ----
CoverBranches ==
  <<Im("LDI", 0, 0), To("BEQZ", 0, <<"cover_beq", 0>>), Here(<<"cover_beq", 0>>),
    To("BNEZ", 0, <<"cover_bne", 0>>), Here(<<"cover_bne", 0>>),
    Im("ADDI", 0, -1), To("BLTZ", 0, <<"cover_blt", 0>>), Here(<<"cover_blt", 0>>),
    To("BGEZ", 0, <<"cover_bge", 0>>), Here(<<"cover_bge", 0>>),
    To("JMP8", 0, <<"cover_after_jmp", 0>>), Im("LDI", 6, 90), Here(<<"cover_after_jmp", 0>>)>>
CoverMemory ==
  <<Im("LDI16", 7, Win), Im("LDI16", 1, 32933), Off("ST", 1, 7, 0), Off("LD", 2, 7, 0),
    Im("LDI", 3, 0), R3("LDX", 2, 7, 3), R2("LDB", 2, 7)>>
CoverValues ==
  <<Im("LDI", 1, 18), Im("LUI", 2, 52), Im("ADDI", 1, -1), Im("ANDI", 2, 127), Im("ORI", 2, 64),
    Im("XORI", 2, 85), R3("ADD", 3, 1, 2), R3("SUB", 3, 3, 1), R3("SLTU", 4, 1, 2),
    R3("AND", 4, 1, 2), R3("OR", 4, 1, 2), R3("XOR", 4, 1, 2), Off("SRLI", 4, 2, 1),
    Off("SRAI", 4, 2, 1)>>
\* Mutant: an interrupt may fall between the write of S0 and its use.
CoverReturnOpen ==
  <<To("LDI16", 3, <<"cover_after_reti", 0>>), R2("MTS", 0, 3), R2("RETI", 0, 0),
    Here(<<"cover_after_reti", 0>>), R2("STI", 0, 0)>>
CoverReturn ==
  <<R2("CLI", 0, 0), To("LDI16", 3, <<"cover_after_reti", 0>>), R2("MTS", 0, 3),
    R2("RETI", 0, 0), Here(<<"cover_after_reti", 0>>), R2("STI", 0, 0)>>
CoverExtension(cfg) ==
  (IF cfg.full THEN <<Off("SLLI", 4, 2, 4), Off("SRLI", 4, 2, 4), Off("SRAI", 4, 2, 4),
                      R3("MUL", 4, 1, 2)>> ELSE <<>>)
  \o (IF cfg.mulhu THEN <<Im("LDI16", 3, 4660), Im("LDI16", 4, 17185), R3("MULHU", 5, 3, 4)>>
      ELSE <<>>)
  \o (IF cfg.divu THEN <<Im("LDI", 3, 1), Im("LDI16", 4, 9029), Im("LDI16", 5, 291),
                         R3("DIVU", 3, 4, 5)>> ELSE <<>>)
CoverSystem(cfg) ==
  IF cfg.sys
  THEN <<To("JALL", 6, <<"cover_long_sub", 0>>), To("JMPL", 0, <<"cover_long_done", 0>>),
         Here(<<"cover_long_sub", 0>>), R2("RET", 0, 6), Here(<<"cover_long_done", 0>>)>>
       \o CoverReturn
  ELSE <<>>
RcSupportedIsaOps(cfg) ==
  CoverMemory \o <<R2("LDBS", 2, 7), R2("STB", 1, 7)>> \o CoverValues
  \o <<Im("CMPI", 1, 17), R3("SLT", 4, 1, 2), R2("FSL1", 4, 1), R2("FSR1", 4, 1)>>
  \o CoverBranches
  \o <<R2("MTS", 5, 1), R2("MFS", 2, 5), To("LDI16", 3, <<"cover_reg_sub", 0>>),
       R2("JALR", 4, 3), To("JMP8", 0, <<"cover_reg_done", 0>>), Here(<<"cover_reg_sub", 0>>),
       R2("RET", 0, 4), Here(<<"cover_reg_done", 0>>)>>
  \o CoverExtension(cfg) \o CoverSystem(cfg)

\* ---- Nano operations ----
NanoAlu(w) == <<R3(Pick(<<"ADD", "SUB", "SLTU", "AND", "OR", "XOR">>, w.i), w.x, w.y, w.z)>>
NanoImm(w) ==
  LET op == Pick(<<"LDI", "LUI", "ADDI", "ANDI", "ORI", "XORI">>, w.i)
  IN <<Im(op, w.x, IF op = "ADDI" THEN Sx8(w.n) ELSE w.n)>>
NanoShift(w) ==
  IF w.i % 4 < 3 THEN <<Off(Pick(<<"SRLI", "SRAI">>, w.i), w.x, w.y, 1)>>
  ELSE <<R2("SHL1", w.x, w.y)>>
NanoMem(w) ==
  <<Im("LDI16", 7, Win)>> \o
  CASE w.i % 4 = 0 -> <<Off("ST", w.x, 7, 2 * (w.n % WinWords))>>
    [] w.i % 4 = 1 -> <<Off("LD", w.x, 7, 2 * (w.n % WinWords))>>
    [] w.i % 4 = 2 -> WindowByte(w.n) \o <<R2("LDB", w.x, 0)>>
    [] w.i % 4 = 3 -> WindowByte(w.n) \o <<R2("STB", w.x, 0)>>
NanoOperation(w, exclude) ==
  CASE w.k = "alu" -> NanoAlu(w)
    [] w.k = "imm" -> NanoImm(w)
    [] w.k = "shift" -> NanoShift(w)
    [] OTHER -> IF exclude = 7 THEN NanoAlu(w) ELSE NanoMem(w)
NanoSimpleOp(ops, exclude) ==
  Accepted([n \in DOMAIN ops |-> NanoOperation(ops[n], exclude)], exclude)

NanoBranchBlock(p, k) ==
  <<Im("LDI", 0, p.w.n % 128), R3("SUB", 0, p.w.x, 0),
    To(Pick(Conditions, p.w.i), 0, <<"fwd", k>>)>>
  \o NanoSimpleOp(p.ops, Anything) \o <<Here(<<"fwd", k>>)>>
NanoLoop(p, k) ==
  <<Im("LDI", p.w.x, (p.w.n % 5) + 1), Here(<<"loop", k>>)>> \o NanoSimpleOp(p.ops, p.w.x)
  \o <<Im("ADDI", p.w.x, -1), R2("MOV", 0, p.w.x), To("BNEZ", 0, <<"loop", k>>)>>
NanoCall(k) == <<To("LDI16", 1, <<"nsub", k>>), R2("JALR", 7, 1)>>
\* A subroutine keeps its link in r7, which the window accesses would overwrite.
NanoSub(p, k) == <<Here(<<"nsub", k>>)>> \o NanoSimpleOp(p.ops, 7) \o <<R2("JMP", 0, 7)>>
NanoSupportedIsaOps ==
  CoverMemory \o <<R2("STB", 1, 7)>> \o CoverValues \o CoverBranches
  \o <<To("LDI16", 1, <<"cover_sub", 0>>), R2("JALR", 7, 1), To("JMP8", 0, <<"cover_done", 0>>),
       Here(<<"cover_sub", 0>>), R2("JMP", 0, 7), Here(<<"cover_done", 0>>)>>

\* ---- bodies ----
RcPiece(cfg, p, k) ==
  CASE p.k = "mem" -> OpMem(p.w)
    [] p.k = "branch" -> OpBranchBlock(cfg, p, k)
    [] p.k = "loop" -> OpLoop(cfg, p, k)
    [] p.k = "call" -> OpCall(cfg, p, k)
    [] p.k = "window" /\ cfg.sys -> OpIeWindow(cfg, p)
    [] OTHER -> SimpleOp(cfg, p.ops, Anything)
NanoPiece(p, k) ==
  CASE p.k = "mem" -> NanoMem(p.w)
    [] p.k = "branch" -> NanoBranchBlock(p, k)
    [] p.k = "loop" -> NanoLoop(p, k)
    [] p.k = "call" -> NanoCall(k)
    [] OTHER -> NanoSimpleOp(p.ops, Anything)

InitialWindow ==
  <<Im("LDI16", 7, Win)>> \o
  FlattenSeq([w \in 1 .. WinWords |-> <<Im("LDI16", 1, 12345 * w), Off("ST", 1, 7, 2 * (w - 1))>>])
Calls(body) == SelectSeq([k \in DOMAIN body |-> k], LAMBDA k : body[k].k = "call")
RcBody(cfg, body) ==
  InitialWindow \o RcSupportedIsaOps(cfg)
  \o FlattenSeq([k \in DOMAIN body |-> RcPiece(cfg, body[k], k)])
RcSubs(cfg, body) ==
  FlattenSeq([n \in DOMAIN Calls(body) |-> RcSub(cfg, body[Calls(body)[n]], Calls(body)[n])])
NanoBody(body) ==
  InitialWindow \o NanoSupportedIsaOps \o FlattenSeq([k \in DOMAIN body |-> NanoPiece(body[k], k)])
NanoSubs(body) ==
  FlattenSeq([n \in DOMAIN Calls(body) |-> NanoSub(body[Calls(body)[n]], Calls(body)[n])])

\* ---- programs; the subroutines stand before the body, so that an address   ----
\* ---- that the body loads is the same in the probe and in the checking build ----
Report(addr, code) ==
  <<Im("LDI16", 7, code), Im("LDI16", addr, ResultAddr), Off("ST", 7, addr, 0), R2("HALT", 0, 0)>>
Trampoline == <<To("LDI16", 0, <<"start", 0>>), R2("JMP", 0, 0)>>
Vectors == <<To("JMPL", 0, <<"reset_tramp", 0>>), To("JMPL", 0, <<"irq_h", 0>>)>>
\* Mutant: the handler keeps the register it uses in a register the body uses.
HandlerSpill4 ==
  <<Here(<<"irq_h", 0>>), R2("MTS", 4, 1), Im("LDI16", 1, TestIrqAddr), Off("LD", 1, 1, 0),
    R2("MFS", 1, 4), R2("RETI", 0, 0)>>
Handler ==
  <<Here(<<"irq_h", 0>>), R2("MTS", 2, 1), Im("LDI16", 1, TestIrqAddr), Off("LD", 1, 1, 0),
    R2("MFS", 1, 2), R2("RETI", 0, 0)>>
RcHead(cfg, body) ==
  (IF cfg.sys THEN Vectors ELSE <<>>) \o <<Here(<<"reset_tramp", 0>>)>> \o Trampoline
  \o (IF cfg.sys THEN Handler ELSE <<>>) \o RcSubs(cfg, body) \o <<Here(<<"start", 0>>)>>
  \o (IF cfg.sys THEN <<R2("STI", 0, 0)>> ELSE <<>>)
Marker(cfg) ==
  IF cfg.sys THEN <<Im("LDI16", 7, IrqMarker), Off("ST", 7, 7, 0)>> ELSE <<>>

\* Mutant: r7 is checked after the checks have used it.
SaveR7Never == <<>>
SaveR7 == <<R2("MTS", 4, 7)>>
CheckReg(reg, want, code) ==
  <<Im("LDI16", 7, want), R3("SUB", 0, reg, 7), To("BEQZ", 0, <<"ok", code>>)>>
  \o Report(6, code) \o <<Here(<<"ok", code>>)>>
\* The items a checking build compares, in the order of their codes.
RcItems(probes) ==
  [r \in 1 .. 6 |-> <<"r", r>>] \o <<<<"r", 7>>, <<"s", 1>>, <<"s", 5>>, <<"s", 6>>>>
  \o [n \in DOMAIN probes |-> <<"mem", probes[n]>>]
RcCheck(item, want, code) ==
  CASE item[1] = "r" /\ item[2] < 7 -> CheckReg(item[2], want, code)
    [] item = <<"r", 7>> -> <<R2("MFS", 6, 4)>> \o CheckReg(6, want, code)
    [] item[1] = "s" -> <<R2("MFS", 6, item[2])>> \o CheckReg(6, want, code)
    [] item[1] = "mem" ->
         <<Im("LDI16", 7, Win + 2 * item[2]), Off("LD", 6, 7, 0)>> \o CheckReg(6, want, code)

NanoSaveRegs ==
  <<Im("LDI16", 0, NanoScratch)>> \o [r \in 1 .. 7 |-> Off("ST", r, 0, 2 * r)]
NanoItems(probes) ==
  [r \in 1 .. 7 |-> <<"r", r>>] \o [n \in DOMAIN probes |-> <<"mem", probes[n]>>]
NanoCheck(item, want, code) ==
  <<Im("LDI16", 5, IF item[1] = "r" THEN NanoScratch ELSE Win + 2 * item[2]),
    Off("LD", 2, 5, IF item[1] = "r" THEN 2 * item[2] ELSE 0),
    Im("LDI16", 3, want), R3("SUB", 0, 2, 3), To("BEQZ", 0, <<"nok", code>>)>>
  \o Report(6, code) \o <<Here(<<"nok", code>>)>>

\* Checks of the items against the wanted values; none in the probe build.
RcChecks(items, wants) ==
  FlattenSeq([n \in DOMAIN wants |-> RcCheck(items[n], wants[n], FailBase + n)])
NanoChecks(items, wants) ==
  FlattenSeq([n \in DOMAIN wants |-> NanoCheck(items[n], wants[n], FailBase + n)])
RcEmit(cfg, body, items, wants) ==
  RcHead(cfg, body) \o RcBody(cfg, body) \o Marker(cfg) \o <<Here(<<"tail", 0>>)>>
  \o SaveR7 \o RcChecks(items, wants) \o Report(IF wants = <<>> THEN 0 ELSE 6, Pass)
NanoEmit(body, items, wants) ==
  <<Here(<<"reset_tramp", 0>>)>> \o Trampoline \o NanoSubs(body) \o <<Here(<<"start", 0>>)>>
  \o NanoBody(body) \o <<Here(<<"tail", 0>>)>> \o NanoSaveRegs
  \o NanoChecks(items, wants) \o Report(6, Pass)
=============================================================================
