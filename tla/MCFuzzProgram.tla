---------------------------- MODULE MCFuzzProgram ----------------------------
(***************************************************************************)
(* Programs with up to three drawn pieces on top of the fixed part.        *)
(***************************************************************************)
EXTENDS FuzzProgram

W(k, i, x, y, z, n) == [k |-> k, i |-> i, x |-> x, y |-> y, z |-> z, n |-> n]
Piece(k, w, ops) == [k |-> k, w |-> w, ops |-> ops]
P(config, body) == [config |-> config, body |-> body]

\* The first candidate names r1, the counter of the loop.
Candidates == <<W("alu", 0, 1, 2, 3, 0), W("imm", 2, 2, 0, 0, 200), W("alu", 1, 3, 2, 4, 0)>>

Loop == Piece("loop", W("", 0, 1, 0, 0, 1), Candidates)
Call(i) == Piece("call", W("", i, 1, 0, 0, 0), <<W("sreg", 1, 2, 0, 0, 1), W("alu", 1, 2, 3, 4, 0)>>)
Skip(i) == Piece("branch", W("", i, 2, 0, 0, 77), <<W("imm", 1, 1, 0, 0, 129)>>)
Mem(i) == Piece("mem", W("", i, 3, 1, 0, 3), <<>>)
Window == Piece("window", W("", 0, 0, 0, 0, 0), <<W("sreg", 0, 3, 0, 0, 2)>>)
Simple(k, i) == Piece("simple", W("", 0, 0, 0, 0, 0), <<W(k, i, 1, 2, 3, 130)>>)

\* r4 goes to the window by way of S4 and r3.
Spill == <<Piece("simple", W("", 0, 0, 0, 0, 0), <<W("sreg", 0, 4, 0, 0, 0)>>),
           Piece("simple", W("", 0, 0, 0, 0, 0), <<W("sreg", 1, 3, 0, 0, 0)>>), Mem(4)>>

MCPrograms ==
  <<P("min", <<Loop, Call(0)>>), P("sys", <<Loop, Call(0)>>), P("nano", <<Loop, Call(0)>>),
    P("sys", <<Window, Call(1)>>), P("sys", Spill), P("full-muldiv", <<Simple("mdu", 0), Simple("mdu", 1)>>),
    P("full", <<Simple("mul", 0), Simple("shift", 2)>>),
    P("min", <<Simple("shift", 1), Mem(1)>>), P("full-mulh", <<Simple("mdu", 1), Mem(3)>>)>>
  \o [i \in 1 .. 4 |-> P("nano", <<Skip(i), Mem(i)>>)]
  \o [i \in 1 .. 4 |-> P("sys", <<Skip(i), Mem(i)>>)]
  \o <<P("nano", <<Simple("alu", 3), Simple("imm", 3)>>),
       P("nano", <<Simple("shift", 3), Simple("mem", 3)>>)>>
=============================================================================
