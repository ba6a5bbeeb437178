----------------------------- MODULE MCAssembler -----------------------------
(***************************************************************************)
(* Assembler on all sources of one instruction with operands at the ends   *)
(* of their fields, on short sources of labels, data and sections, and on  *)
(* every nesting of conditionals in six lines.                             *)
(***************************************************************************)
EXTENDS Assembler

CONSTANTS A, B

Num(n) == [sym |-> None, n |-> n]
Sym(s, n) == [sym |-> s, n |-> n]
Line(k, sym, args) == [k |-> k, sym |-> sym, args |-> args, i |-> <<>>]
Insn(op, d, a, b, args) ==
  [k |-> "insn", sym |-> None, args |-> args, i |-> [op |-> op, d |-> d, a |-> a, b |-> b]]
Data(k, args) == Line(k, None, args)
Into(s) == Line("section", s, <<>>)
Label(s) == Line("label", s, <<>>)
SeqsUpTo(S, n) == UNION {[1 .. m -> S] : m \in 0 .. n}

Regs == {0, 5, 7}
Edges == {-129, -128, -2, -1, 0, 1, 2, 126, 127, 128, 255, 256}
Targets == {-256, -254, -2, 0, 1, 2, 254, 256, 258, 65534, 65536}

OneLine ==
  {Insn(op, d, a, b, <<>>) : op \in ThreeRegister, d \in Regs, a \in Regs, b \in Regs}
  \cup {Insn(op, d, a, 0, <<>>) :
          op \in {"MOV", "SHL1", "FSL1", "FSR1", "JALR", "MFS", "MTS"} \cup ByteAccess,
          d \in Regs, a \in Regs}
  \cup {Insn(op, 0, a, 0, <<>>) : op \in {"RET", "RETI", "JMP", "MTEPC"}, a \in Regs}
  \cup {Insn(op, 0, 0, 0, <<>>) : op \in {"NOP", "CLI", "STI", "IFLUSH", "HALT"}}
  \cup {Insn("MFEPC", d, 0, 0, <<>>) : d \in Regs}
  \cup {Insn(op, d, a, 0, <<Num(n)>>) :
          op \in {"LD", "ST", "SLLI", "SRLI", "SRAI"}, d \in Regs, a \in Regs,
          n \in Edges \cup {8, 9}}
  \cup {Insn(op, d, 0, 0, <<Num(n)>>) :
          op \in DOMAIN IOp \cup {"LDI16"}, d \in Regs, n \in Edges \cup {65535}}
  \cup {Insn(op, 0, 0, 0, <<Num(n)>>) : op \in DOMAIN BrCc \cup {"JMPL"}, n \in Targets}
  \cup {Insn("JALL", d, 0, 0, <<Num(n)>>) : d \in Regs, n \in Targets}

Placed ==
  {Label(A), Label(B), Into("rodata"), Into("vectors"), Into("text"),
   Insn("BNEZ", 0, 0, 0, <<Sym(A, 0)>>), Insn("JALL", 7, 0, 0, <<Sym(B, 0)>>),
   Data("byte", <<Sym(A, 1)>>), Data("word", <<Sym(B, 2), Num(-1)>>),
   Data("align", <<Num(4)>>), Data("space", <<Num(3)>>), Data("asciz", <<Num(65)>>)}

Conditional ==
  {Line("ifdef", "RISCC_SYS", <<>>), Line("ifndef", "RISCC_SYS", <<>>),
   Line("else", None, <<>>), Line("endif", None, <<>>), Insn("NOP", 0, 0, 0, <<>>)}

MCSources == {<<i>> : i \in OneLine} \cup SeqsUpTo(Placed, 4) \cup SeqsUpTo(Conditional, 6)
MCDefines == {{"RISCC_SYS"}, {"RISCC_MIN"}}
=============================================================================
