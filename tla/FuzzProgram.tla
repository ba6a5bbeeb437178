----------------------------- MODULE FuzzProgram -----------------------------
(***************************************************************************)
(* One program of the fuzzer on one core (make_rc16_case, make_nano_case   *)
(* and the runs of compare_trace, tools/riscc_fuzz.py).  The driver runs a *)
(* probe build under the simulator, writes what it left into the checks of *)
(* a second build and runs that under the simulator too.  The core then    *)
(* runs the second build one instruction a step, while an interrupt is     *)
(* raised at any boundary before the end of the body, and a fault may      *)
(* leave any one of the checked items wrong where the body ends.  The      *)
(* fuzzer runs the C++ build of the simulator; the machine is that of      *)
(* riscc_sim.py, module Simulator.                                         *)
(***************************************************************************)
EXTENDS Generator, Simulator

CONSTANTS
  Programs,   \* a sequence of records [config, body]: the draws of each seed
  MaxInsns,   \* the simulator's limit
  None

Size(line) == IF line.op = "label" THEN 0 ELSE InsnSize(line.op)
Offsets(lines) == FoldLeft(LAMBDA at, line : Append(at, Last(at) + Size(line)), <<0>>, lines)
Place(lines, at, lab) ==
  at[SelectInSeq(lines, LAMBDA line : line.op = "label" /\ line.lab = lab)]
Value(lines, at, n) == IF lines[n].lab = NoLabel THEN lines[n].n ELSE Place(lines, at, lines[n].lab)
\* The image of a listing, or none when the assembler refuses a line.
Assembled(lines) ==
  LET at == Offsets(lines)
      code == {n \in DOMAIN lines : lines[n].op # "label"}
  IN IF \A n \in code : Encodable(lines[n], Value(lines, at, n), at[n], FALSE)
     THEN FlattenSeq([n \in DOMAIN lines |->
            IF n \in code THEN Encode(lines[n], Value(lines, at, n), at[n]) ELSE <<>>])
     ELSE <<>>

\* ---- make_case; all words of the window are checked, not four drawn ones ----
Probes == [n \in 1 .. WinWords |-> n - 1]
Profile(p) == ParseConfig(Programs[p].config)
Items(p) == IF Profile(p).nano THEN NanoItems(Probes) ELSE RcItems(Probes)
Listing(p, wants) ==
  IF Profile(p).nano THEN NanoEmit(Programs[p].body, Items(p), wants)
  ELSE RcEmit(Profile(p), Programs[p].body, Items(p), wants)
RunIss(p, image) == Run(Profile(p), image, MaxInsns)

\* The value of an item in a final state; r7 was saved in S4.
RcExpected(m, item) ==
  CASE item = <<"r", 7>> -> m.s[4]
    [] item[1] = "r" /\ item[2] < 7 -> m.r[item[2]]
    [] item[1] = "s" -> m.s[item[2]]
    [] item[1] = "mem" -> Loaded(m, Win + 2 * item[2])
NanoExpected(m, item) ==
  Loaded(m, IF item[1] = "r" THEN NanoScratch + 2 * item[2] ELSE Win + 2 * item[2])
Expected(p, m, item) == IF Profile(p).nano THEN NanoExpected(m, item) ELSE RcExpected(m, item)

MakeCase(p) ==
  LET probe == RunIss(p, Assembled(Listing(p, <<>>)))
      lines == Listing(p, [n \in DOMAIN Items(p) |-> Expected(p, probe, Items(p)[n])])
      image == Assembled(lines)
      end == RunIss(p, image)
  IN [image |-> image, mem |-> end.mem,
      made |-> probe.done /\ end.done /\ Loaded(end, Result) = Pass,
      bodyEnd |-> Place(lines, Offsets(lines), <<"tail", 0>>) \div 2]
\* The cases of all seeds, computed once (@@ makes TLC evaluate the function).
Cases == [p \in DOMAIN Programs |-> MakeCase(p)] @@ <<>>

VARIABLES
  program,   \* the seed and configuration
  core,      \* the core
  raised,    \* the interrupt line was raised from outside
  fault      \* None, or the number of the item that the core got wrong
vars == <<program, core, raised, fault>>

Init == program \in DOMAIN Programs /\ core = Reset /\ raised = FALSE /\ fault = None

Execute ==
  /\ ~Stopped(core)
  /\ core' = Step(Profile(program), Cases[program].image, core)
  /\ UNCHANGED <<program, raised, fault>>

\* --irq-at: a cycle before the end of the body, chosen at random.
RaiseIrq ==
  /\ Profile(program).sys /\ ~raised /\ fault = None
  /\ ~Stopped(core) /\ IrqMarker \notin DOMAIN core.mem
  /\ core' = [core EXCEPT !.line = 1] /\ raised' = TRUE
  /\ UNCHANGED <<program, fault>>

Wrong(v) == {Mod16(v + 1), Mod16(v + 32768)}
Fault ==
  /\ core.pc = Cases[program].bodyEnd /\ fault = None /\ ~raised
  /\ \E n \in DOMAIN Items(program) :
       LET item == Items(program)[n]
           addr == Win + 2 * item[2]
       IN /\ fault' = n
          /\ CASE item[1] = "r" -> \E v \in Wrong(core.r[item[2]]) : core' = [core EXCEPT !.r[item[2]] = v]
               [] item[1] = "s" -> \E v \in Wrong(core.s[item[2]]) : core' = [core EXCEPT !.s[item[2]] = v]
               [] item[1] = "mem" -> \E v \in Wrong(core.mem[addr]) : core' = [core EXCEPT !.mem[addr] = v]
  /\ UNCHANGED <<program, raised>>

Finished == Stopped(core) /\ UNCHANGED vars
Next == Execute \/ RaiseIrq \/ Fault \/ Finished
Spec == Init /\ [][Next]_vars /\ WF_vars(Execute)

(***************************************************************************)
(* Properties.                                                             *)
(***************************************************************************)

\* Every program that the generator draws becomes a case: it assembles, its
\* probe ends within the limit, and its own checks accept what the probe left.
CaseMade == Cases[program].made

\* The checks are exact: a core that ends the body with the predicted values
\* reports a pass, and one with a single wrong register, spill or window word
\* reports the code of that item, although the checks use the same registers.
SelfCheckExact ==
  core.done => Loaded(core, Result) = IF fault = None THEN Pass ELSE FailBase + fault

\* An interrupt at any boundary of the body leaves no trace in memory: the run
\* that compare_trace repeats with --irq-at writes what the first run wrote.
InterruptTransparent == core.done /\ fault = None => core.mem = Cases[program].mem

\* No run of a generated program is undefined in its profile, halts without a
\* result or goes on for ever, wherever the interrupt falls.
Reports == <>core.done
=============================================================================
