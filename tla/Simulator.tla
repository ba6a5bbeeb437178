------------------------------ MODULE Simulator ------------------------------
(***************************************************************************)
(* The instruction-set simulator (Sim, tools/riscc_sim.py) as a function:  *)
(* the machine after one step, and after a run.  A machine is a record     *)
(*   [r, s, pc, ie, line, mem, done, halted, undefined]                    *)
(* of the registers, the word address of the next instruction, the         *)
(* interrupt enable and line, the data words written so far (by byte       *)
(* address; all others are zero) and how the run has ended.  The program   *)
(* is a sequence of halfwords beside it, and no store may reach it.  A     *)
(* profile is a record of what the core implements.  The UART, the trace   *)
(* and the window are left out.                                            *)
(***************************************************************************)
EXTENDS Encoding, FiniteSets, TLC

TestIrq == 65530
Result == 65534

Mod16(v) == v % 65536
Sx16(v) == IF v >= 32768 THEN v - 65536 ELSE v

\* ---- arithmetic; products and dividends exceed TLC's integers ----
ProductLow(a, b) == Mod16((a % 256) * b + (((a \div 256) * b) % 256) * 256)
ProductHigh(a, b) == ((a \div 256) * b + ((a % 256) * b) \div 256) \div 256

\* The remainder and quotient of the double word rem:quo, a byte at a time.
Divided(rem, quo, divisor) ==
  LET high == rem * 256 + (quo \div 256)
      low == (high % divisor) * 256 + (quo % 256)
  IN <<low % divisor, (high \div divisor) * 256 + (low \div divisor)>>

Bit(v, k) == (v \div 2 ^ k) % 2
And(a, b) ==
  LET low[k \in 0 .. 16] ==
        IF k = 0 THEN 0 ELSE low[k - 1] + 2 ^ (k - 1) * Bit(a, k - 1) * Bit(b, k - 1)
  IN low[16]
\* A carry is where both have a bit.
Or(a, b) == a + b - And(a, b)
Xor(a, b) == a + b - 2 * And(a, b)

One(condition) == IF condition THEN 1 ELSE 0
Arithmetic(profile, op, a, b) ==
  CASE op = "ADD" -> Mod16(a + b)
    [] op = "SUB" -> Mod16(a - b)
    [] op = "SLT" -> One(IF profile.nano THEN a < b ELSE Sx16(a) < Sx16(b))
    [] op = "SLTU" -> One(a < b)
    [] op = "AND" -> And(a, b)
    [] op = "OR" -> Or(a, b)
    [] op = "XOR" -> Xor(a, b)
    [] op = "MUL" -> ProductLow(a, b)

Count(profile, n) == IF profile.full THEN n ELSE 1
Shifted(profile, op, v, n) ==
  CASE op = "SRLI" -> v \div 2 ^ Count(profile, n)
    [] op = "SRAI" -> Mod16(Sx16(v) \div 2 ^ Count(profile, n))
    [] op = "SLLI" -> Mod16(v * 2 ^ n)

ImmediateResult(op, v, n) ==
  CASE op = "LDI" -> n
    [] op = "LUI" -> Mod16(n * 256)
    [] op = "ADDI" -> Mod16(v + n)
    [] op = "ANDI" -> And(v, n)
    [] op = "ORI" -> Or(v, n)
    [] op = "XORI" -> Xor(v, n)

\* ---- memory ----
WordOf(addr) == addr - (addr % 2)
Loaded(m, addr) == IF addr \in DOMAIN m.mem THEN m.mem[addr] ELSE 0

LoadWord(m, d, addr) ==
  IF WordOf(addr) = TestIrq THEN [m EXCEPT !.r[d] = m.line, !.line = 0]
  ELSE [m EXCEPT !.r[d] = Loaded(m, WordOf(addr))]
StoreWord(m, addr, val) ==
  [m EXCEPT !.mem = (addr :> val) @@ @, !.line = IF addr = TestIrq THEN 1 ELSE @,
            !.done = @ \/ addr = Result]
\* A byte is read from memory even where a word read has a side effect.
LoadByte(m, d, addr, signed) ==
  LET w == Loaded(m, WordOf(addr))
      b == IF addr % 2 = 1 THEN w \div 256 ELSE w % 256
  IN [m EXCEPT !.r[d] = IF signed /\ b >= 128 THEN b + 65280 ELSE b]
StoreByte(m, addr, val) ==
  LET old == Loaded(m, WordOf(addr))
  IN StoreWord(m, WordOf(addr), IF addr % 2 = 1 THEN (val % 256) * 256 + (old % 256)
                                ELSE (old \div 256) * 256 + (val % 256))

\* ---- instructions that a profile defines, and the operands they take ----
Defined(profile, m, i) ==
  /\ i.op # "UNDEFINED"
  /\ i.op = "JALL" => profile.long
  /\ i.op \in {"MUL", "SLLI"} => profile.full
  /\ i.op \in {"DIVU", "MULHU"} => profile.mdu
  /\ i.op = "DIVU" => m.r[i.b] # 0 /\ m.r[i.d] < m.r[i.b]
  /\ i.op \in {"CMPI", "FSL1", "FSR1", "RET", "MFS", "MTS"} => ~profile.nano
  /\ i.op \in {"RETI", "CLI", "STI"} => profile.sys
  /\ i.op = "IFLUSH" => profile.iflush

Taken(cc, v) == <<v = 0, v # 0, v >= 32768, v < 32768, TRUE>>[cc + 1]

\* ---- control flow ----
Linked(profile, m, d, next) ==
  IF d = 0 THEN m
  ELSE IF profile.nano THEN [m EXCEPT !.r[d] = Mod16(2 * next)]
  ELSE [m EXCEPT !.s[d] = Mod16(2 * next)]
After(m) == (m.pc + 1) % 32768
Branch(m, i) ==
  [m EXCEPT !.pc = IF Taken(i.d, m.r[0]) THEN i.n \div 2 ELSE After(m),
            !.halted = i.d = 4 /\ i.n = 2 * m.pc]
Jump(profile, m, i) ==
  CASE i.op = "BR" -> Branch(m, i)
    [] i.op = "JALL" -> [Linked(profile, m, i.d, m.pc + 2) EXCEPT !.pc = i.n \div 2]
    [] i.op = "JALR" -> [Linked(profile, m, i.d, m.pc + 1) EXCEPT !.pc = m.r[i.a] \div 2]
    [] i.op = "RET" -> [m EXCEPT !.pc = m.s[i.a] \div 2]
    [] i.op = "RETI" -> [m EXCEPT !.pc = m.s[i.a] \div 2, !.ie = 1]

\* ---- everything else ----
Worked(profile, m, i) ==
  LET a == m.r[i.a]
      b == m.r[i.b]
      d == m.r[i.d]
  IN CASE i.op = "LD" -> LoadWord(m, i.d, Mod16(a + i.n))
       [] i.op = "LDX" -> LoadWord(m, i.d, Mod16(a + b))
       [] i.op = "ST" -> StoreWord(m, WordOf(Mod16(a + i.n)), d)
       [] i.op \in {"LDB", "LDBS"} -> LoadByte(m, i.d, a, i.op = "LDBS")
       [] i.op = "STB" -> StoreByte(m, a, d)
       [] i.op = "CMPI" -> [m EXCEPT !.r[0] = Mod16(d - i.n)]
       [] i.op \in DOMAIN IOp \ {"CMPI"} -> [m EXCEPT !.r[i.d] = ImmediateResult(i.op, d, i.n)]
       [] i.op \in Shifts -> [m EXCEPT !.r[i.d] = Shifted(profile, i.op, a, i.n)]
       [] i.op = "FSL1" -> [m EXCEPT !.r[i.d] = Mod16(2 * d) + (a \div 32768)]
       [] i.op = "FSR1" -> [m EXCEPT !.r[i.d] = (d \div 2) + 32768 * (a % 2)]
       [] i.op = "MULHU" -> [m EXCEPT !.r[i.d] = ProductLow(a, b), !.r[i.a] = ProductHigh(a, b)]
       [] i.op = "DIVU" -> LET rq == Divided(d, a, b)
                           IN [m EXCEPT !.r[i.d] = rq[1], !.r[i.a] = rq[2]]
       [] i.op \in {"CLI", "STI"} -> [m EXCEPT !.ie = One(i.op = "STI")]
       [] i.op = "IFLUSH" -> m
       [] i.op = "MFS" -> [m EXCEPT !.r[i.d] = m.s[i.a]]
       [] i.op = "MTS" -> [m EXCEPT !.s[i.d] = a]
       [] OTHER -> [m EXCEPT !.r[i.d] = Arithmetic(profile, i.op, a, b)]

\* ---- a step, and a run ----
Reset ==
  [r |-> [k \in 0 .. 7 |-> 0], s |-> [k \in 0 .. 7 |-> 0], pc |-> 0, ie |-> 0, line |-> 0,
   mem |-> <<>>, done |-> FALSE, halted |-> FALSE, undefined |-> FALSE]

Interrupted(profile, m) == profile.sys /\ m.ie = 1 /\ m.line = 1
Interrupt(m) == [m EXCEPT !.s[0] = Mod16(2 * m.pc), !.ie = 0, !.pc = 2]

Fetched(image, pc) == IF pc < Len(image) THEN image[pc + 1] ELSE 0
Current(image, m) == Decoded(Fetched(image, m.pc), Fetched(image, m.pc + 1), 2 * m.pc)
Step(profile, image, m) ==
  LET i == Current(image, m)
  IN IF Interrupted(profile, m) THEN Interrupt(m)
     ELSE IF ~Defined(profile, m, i) THEN [m EXCEPT !.undefined = TRUE]
     ELSE IF i.op \in {"BR", "JALL", "JALR", "RET", "RETI"} THEN Jump(profile, m, i)
     ELSE [Worked(profile, m, i) EXCEPT !.pc = After(m)]

Stopped(m) == m.done \/ m.halted \/ m.undefined
Steps(profile, image, start, n) ==
  LET after[k \in 0 .. n] ==
        IF k = 0 THEN start
        ELSE LET m == after[k - 1] IN IF Stopped(m) THEN m ELSE Step(profile, image, m)
  IN after[n]
\* A run, in bursts: TLC evaluates no deeper recursion.
Burst == 20
Run(profile, image, insns) ==
  LET after[k \in 0 .. insns \div Burst] ==
        IF k = 0 THEN Reset
        ELSE LET m == after[k - 1] IN IF Stopped(m) THEN m ELSE Steps(profile, image, m, Burst)
  IN after[insns \div Burst]
=============================================================================
