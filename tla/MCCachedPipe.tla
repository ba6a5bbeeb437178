---------------------------- MODULE MCCachedPipe ----------------------------
(***************************************************************************)
(* CachedPipe on small programs.  Reset is at 0, the interrupt handler at 2*)
(***************************************************************************)
EXTENDS CachedPipe, TLC

I(op, d, a, b, n) == [op |-> op, d |-> d, a |-> a, b |-> b, n |-> n]
Ldi(d, n) == I("LDI", d, 0, 0, n)
Addi(d, n) == I("ADDI", d, d, 0, n)
Alu(op, d, a, b) == I(op, d, a, b, 0)
Ld(d, a) == I("LD", d, a, 0, 0)
St(a, b) == I("ST", 0, a, b, 0)
Jalr(s, a) == I("JALR", s, a, 0, 0)
Jall(s) == I("JALL", s, 0, 0, 0)
Half(n) == I("ST", 0, 0, 0, n)   \* the second halfword of a JALL decodes as a store
Ret(s) == I("RET", 0, s, 0, 0)
Reti == I("RETI", 0, S0, 0, 0)
Sys(op) == I(op, 0, 0, 0, 0)
Mfs(d, s) == I("MFS", d, s, 0, 0)
Mts(s, a) == I("MTS", s, a, 0, 0)
\* A branch at address p to address t.
Br(cc, p, t) == I("BR", cc, 0, 0, (t + Size - p - 1) % Size)
Zero == 0
NonZero == 1
Minus == 2
Plain == 3
Always == 4

\* The reset branch, the interrupt handler and filler.
Head == 0 :> Br(Always, 0, 3) @@ 2 :> Reti @@ [a \in Pc |-> Half(1)]
Patched(text, a, i) == [text |-> text @@ Head, patch |-> [pc |-> a, instr |-> i]]
Plainly(text) == Patched(text, 1, Sys("CLI"))

\* A countdown in a loop, a loop around it, and interrupts on and off.
Loops == Plainly(
  3 :> Ldi(0, 2) @@ 4 :> Sys("STI") @@ 5 :> Addi(0, Size - 1) @@ 6 :> Br(NonZero, 6, 5) @@
  7 :> Addi(0, Size - 1) @@ 8 :> Sys("CLI") @@ 9 :> Br(Minus, 9, 3))

\* A function called from two places, so that its return address changes; links
\* and returns use registers that were just written.
Calls == Plainly(
  3 :> Ldi(1, 12) @@ 4 :> Sys("STI") @@ 5 :> Jall(9) @@ 6 :> Half(12) @@ 7 :> Jalr(9, 1) @@
  8 :> Br(Always, 8, 5) @@ 12 :> Mfs(0, 9) @@ 13 :> Mts(9, 0) @@ 14 :> Ret(9))

\* A loaded word is branched on at once, with interrupts on.
Polls == Plainly(
  3 :> Ldi(1, 0) @@ 4 :> Sys("STI") @@ 5 :> Ld(0, 1) @@ 6 :> Br(Zero, 6, 5) @@
  7 :> Br(Always, 7, 7))

\* Loads whose data is branched on, added to and stored at once; interrupts stay off.
Loads == Plainly(
  3 :> Ldi(1, 0) @@ 4 :> Ldi(0, 1) @@ 5 :> Ldi(0, 2) @@ 6 :> St(1, 0) @@ 7 :> Ldi(0, 0) @@
  8 :> Ld(0, 1) @@ 9 :> Br(NonZero, 9, 11) @@ 11 :> Addi(0, Size - 1) @@ 12 :> St(1, 0) @@
  13 :> Br(NonZero, 13, 7) @@ 14 :> Ld(0, 1) @@ 15 :> Br(Zero, 15, 5))

\* Loads into an address and into operands, one overtaken by a younger result;
\* interrupts stay off.
Operands == Plainly(
  3 :> Ldi(1, 0) @@ 4 :> Ldi(0, 1) @@ 5 :> Ldi(0, 5) @@ 6 :> St(1, 0) @@ 7 :> Ldi(0, 3) @@
  8 :> Ld(1, 1) @@ 9 :> Alu("MUL", 0, 0, 1) @@ 10 :> St(1, 0) @@ 11 :> Ld(0, 1) @@
  12 :> Ldi(0, 1) @@ 13 :> Br(Plain, 13, 15) @@ 15 :> Alu("SLTU", 0, 0, 1))

\* A branch that is rewritten, flushed and executed, over and over.
Rewrites == Patched(
  3 :> Ldi(1, 1) @@ 4 :> Sys("STI") @@ 5 :> Ldi(0, 1) @@ 6 :> St(1, 0) @@ 7 :> Sys("IFLUSH") @@
  8 :> Br(Always, 8, 10) @@ 10 :> Alu("MUL", 0, 0, 1) @@ 11 :> Br(Always, 11, 5) @@
  12 :> Ldi(0, 0) @@ 13 :> St(1, 0) @@ 14 :> Sys("IFLUSH") @@ 15 :> Br(Always, 15, 8),
  8, Br(Always, 8, 12))

\* The same with the target of a long call.
Retargets == Patched(
  3 :> Ldi(1, 1) @@ 4 :> Sys("STI") @@ 5 :> Ldi(0, 1) @@ 6 :> St(1, 0) @@ 7 :> Sys("IFLUSH") @@
  8 :> Jall(9) @@ 9 :> Half(5) @@
  12 :> Ldi(0, 0) @@ 13 :> St(1, 0) @@ 14 :> Sys("IFLUSH") @@ 15 :> Br(Always, 15, 8),
  9, Half(12))

MCPrograms == {Loops, Calls, Polls, Loads, Operands, Rewrites, Retargets}
=============================================================================
