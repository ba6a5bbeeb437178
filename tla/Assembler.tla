------------------------------ MODULE Assembler ------------------------------
(***************************************************************************)
(* The two-pass assembler (tools/riscc_asm.py), one loop iteration a step: *)
(* conditional assembly, the pass that gives items and labels their place  *)
(* in a section, layout, the pass that emits the items, and the link.      *)
(*                                                                         *)
(* A source line is a record [k, sym, args, i]: what it is, the name it    *)
(* defines or tests, its expressions and its instruction.  An expression   *)
(* is a name plus a number.  The text of a line is left out, and so are    *)
(* the operators of expressions other than the sum.                        *)
(***************************************************************************)
EXTENDS Encoding, SequencesExt

CONSTANTS
  Sources,     \* sequences of lines
  DefineSets,  \* sets of symbols given on the command line
  None         \* no name

ASSUME SourcesAssumption == \A s \in Sources : s \in Seq({s[n] : n \in DOMAIN s})

SectionOrder == <<"vectors", "text", "rodata", "data", "bss">>
Sections == ToSet(SectionOrder)

Blank == [k |-> "blank", sym |-> None, args |-> <<>>, i |-> <<>>]
Conditionals == {"ifdef", "ifndef", "else", "endif"}

VARIABLES
  source, defines, iflush,  \* the command line
  phase,                    \* preprocess, parse, layout, emit, done, error
  at,                       \* the lines or items done in this phase
  stack, active, out,       \* preprocess_source
  section, offsets,         \* parse_source
  labels, items,
  bases, blobs, image       \* layout_sections, assemble

commandLine == <<source, defines, iflush>>
parsed == <<section, offsets, labels, items>>
linked == <<bases, blobs, image>>
vars == <<commandLine, phase, at, stack, active, out, parsed, linked>>

Init ==
  /\ source \in Sources /\ defines \in DefineSets /\ iflush \in BOOLEAN
  /\ iflush => defines \cap {"RISCC_SYS", "RISCC_FULL"} # {}
  /\ phase = "preprocess" /\ at = 0
  /\ stack = <<>> /\ active = TRUE /\ out = <<>>
  /\ section = "text" /\ offsets = [s \in Sections |-> 0]
  /\ labels = <<>> /\ items = <<>>
  /\ bases = [s \in Sections |-> 0] /\ blobs = [s \in Sections |-> <<>>] /\ image = <<>>

Fail == phase' = "error" /\ UNCHANGED <<at, stack, active, out, parsed, linked>>

\* ---- conditional assembly: dropped lines and directives become blank ----
Condition(line) == (line.sym \in defines) = (line.k = "ifdef")

\* Mutant: the branch after .else forgets the conditionals around it.
ElseActiveAlone(top) == ~top.cond
ElseActive(top) == top.parent /\ ~top.cond

Preprocessed(line) ==
  /\ at' = at + 1
  /\ out' = Append(out, IF active /\ line.k \notin Conditionals THEN line ELSE Blank)
  /\ UNCHANGED <<phase, parsed, linked>>

PreprocessLine ==
  /\ phase = "preprocess" /\ at < Len(source)
  /\ LET line == source[at + 1]
         top == Last(stack)
     IN \/ /\ line.k \in {"ifdef", "ifndef"}
           /\ stack' = Append(stack, [parent |-> active, cond |-> Condition(line),
                                      seenElse |-> FALSE])
           /\ active' = (active /\ Condition(line))
           /\ Preprocessed(line)
        \/ /\ line.k = "else"
           /\ IF stack = <<>> \/ top.seenElse THEN Fail
              ELSE /\ stack' = Append(Front(stack), [parent |-> top.parent, cond |-> top.cond,
                                                     seenElse |-> TRUE])
                   /\ active' = ElseActive(top)
                   /\ Preprocessed(line)
        \/ /\ line.k = "endif"
           /\ IF stack = <<>> THEN Fail
              ELSE stack' = Front(stack) /\ active' = top.parent /\ Preprocessed(line)
        \/ /\ line.k \notin Conditionals
           /\ Preprocessed(line) /\ UNCHANGED <<stack, active>>
  /\ UNCHANGED commandLine

PreprocessEnd ==
  /\ phase = "preprocess" /\ at = Len(source)
  /\ IF stack # <<>> THEN Fail
     ELSE phase' = "parse" /\ at' = 0 /\ UNCHANGED <<stack, active, out, parsed, linked>>
  /\ UNCHANGED commandLine

\* ---- the first pass ----
Known(e, names) == e.sym \in {None} \cup DOMAIN names
Eval(e, names) == IF e.sym = None THEN e.n ELSE names[e.sym] + e.n

\* The bytes that a line takes at an offset of its section.  .align aligns the
\* offset; its operand is a power of two.
Padding(offset, n) == ((offset + n - 1) \div n) * n - offset
ItemSize(line, offset) ==
  CASE line.k = "byte" -> Len(line.args)
    [] line.k = "word" -> 2 * Len(line.args)
    [] line.k = "ascii" -> Len(line.args)
    [] line.k = "asciz" -> Len(line.args) + 1
    [] line.k = "space" -> line.args[1].n
    [] line.k = "align" -> Padding(offset, line.args[1].n)
    [] line.k = "insn" -> InsnSize(line.i.op)

ParseItem(line) ==
  LET size == ItemSize(line, offsets[section])
  IN /\ items' = Append(items, [section |-> section, offset |-> offsets[section],
                                size |-> size, line |-> line])
     /\ offsets' = [offsets EXCEPT ![section] = @ + size]
     /\ UNCHANGED <<section, labels>>

ParseLabel(line) ==
  /\ labels' = labels @@ (line.sym :> [section |-> section, offset |-> offsets[section]])
  /\ UNCHANGED <<section, offsets, items>>

ParseLine ==
  /\ phase = "parse" /\ at < Len(out)
  /\ LET line == out[at + 1]
         wrong == \/ line.k = "label" /\ line.sym \in DOMAIN labels
                  \/ line.k = "space" /\ (line.args[1].sym # None \/ line.args[1].n < 0)
     IN IF wrong THEN Fail
        ELSE /\ CASE line.k = "label" -> ParseLabel(line)
                  [] line.k = "section" -> section' = line.sym /\ UNCHANGED <<offsets, labels, items>>
                  [] line.k = "blank" -> UNCHANGED parsed
                  [] OTHER -> ParseItem(line)
             /\ at' = at + 1
             /\ UNCHANGED <<phase, stack, active, out, linked>>
  /\ UNCHANGED commandLine

ParseEnd ==
  /\ phase = "parse" /\ at = Len(out)
  /\ phase' = "layout" /\ at' = 0
  /\ UNCHANGED <<commandLine, stack, active, out, parsed, linked>>

\* ---- layout ----
Even(n) == n + (n % 2)
SectionSize(s) ==
  FoldLeft(LAMBDA size, item : IF item.section # s \/ item.offset + item.size < size THEN size
                               ELSE item.offset + item.size, 0, items)
SectionsBefore(s) == SubSeq(SectionOrder, 1, SelectInSeq(SectionOrder, LAMBDA t : t = s) - 1)
Base(s) == Even(FoldLeft(LAMBDA cursor, t : Even(cursor) + SectionSize(t), 0, SectionsBefore(s)))
Zeros(n) == [b \in 1 .. n |-> 0]

Layout ==
  /\ phase = "layout"
  /\ bases' = [s \in Sections |-> Base(s)]
  /\ blobs' = [s \in Sections |-> Zeros(SectionSize(s))]
  /\ phase' = "emit"
  /\ UNCHANGED <<commandLine, at, stack, active, out, parsed, image>>

\* ---- the second pass ----
FinalLabels == [name \in DOMAIN labels |-> bases[labels[name].section] + labels[name].offset]
WordBytes(w) == <<w % 256, w \div 256>>
Bytes(words) == FlattenSeq([n \in DOMAIN words |-> WordBytes(words[n])])

Values(item) == [n \in DOMAIN item.line.args |-> Eval(item.line.args[n], FinalLabels)]
Operand(item) == IF item.line.args = <<>> THEN 0 ELSE Values(item)[1]
Pc(item) == bases[item.section] + item.offset

Resolved(item) ==
  item.line.k \in {"byte", "word", "insn"} =>
    \A n \in DOMAIN item.line.args : Known(item.line.args[n], labels)
\* Mutant: instructions may start at an odd address.
EmittableAnywhere(item) ==
  Resolved(item) /\
    (item.line.k = "insn" => Encodable(item.line.i, Operand(item), Pc(item), iflush))
Emittable(item) ==
  /\ Resolved(item)
  /\ item.line.k = "insn" =>
       Pc(item) % 2 = 0 /\ Encodable(item.line.i, Operand(item), Pc(item), iflush)

Emitted(item) ==
  CASE item.line.k = "insn" -> Bytes(Encode(item.line.i, Operand(item), Pc(item)))
    [] item.line.k = "byte" -> [n \in DOMAIN Values(item) |-> Values(item)[n] % 256]
    [] item.line.k = "word" -> Bytes([n \in DOMAIN Values(item) |-> Values(item)[n] % 65536])
    [] item.line.k = "ascii" -> Values(item)
    [] item.line.k = "asciz" -> Append(Values(item), 0)
    [] OTHER -> Zeros(item.size)

EmitItem ==
  /\ phase = "emit" /\ at < Len(items)
  /\ LET item == items[at + 1]
     IN IF ~Emittable(item) \/ Len(Emitted(item)) # item.size THEN Fail
        ELSE /\ blobs' = [blobs EXCEPT ![item.section] =
                  [b \in DOMAIN @ |-> IF b - item.offset \in 1 .. item.size
                                      THEN Emitted(item)[b - item.offset] ELSE @[b]]]
             /\ at' = at + 1
             /\ UNCHANGED <<phase, stack, active, out, parsed, bases, image>>
  /\ UNCHANGED commandLine

Link ==
  /\ phase = "emit" /\ at = Len(items)
  /\ image' = FoldLeft(LAMBDA bytes, s : bytes \o Zeros(Len(bytes) % 2) \o blobs[s],
                       <<>>, SectionOrder)
  /\ phase' = "done"
  /\ UNCHANGED <<commandLine, at, stack, active, out, parsed, bases, blobs>>

Finished == phase \in {"done", "error"} /\ UNCHANGED vars
Next ==
  \/ PreprocessLine \/ PreprocessEnd \/ ParseLine \/ ParseEnd \/ Layout \/ EmitItem \/ Link
  \/ Finished
Spec == Init /\ [][Next]_vars

(***************************************************************************)
(* What the source says, line by line and without the assembler's state.   *)
(***************************************************************************)
Lines == 1 .. Len(source)
IsOpener(k) == source[k].k \in {"ifdef", "ifndef"}
Depth(k) ==
  Cardinality({j \in 1 .. k - 1 : IsOpener(j)}) -
  Cardinality({j \in 1 .. k - 1 : source[j].k = "endif"})
Encloses(j, k) == j < k /\ IsOpener(j) /\ \A m \in j + 1 .. k : Depth(m) > Depth(j)
ElseOf(j, k) == j < k /\ source[k].k = "else" /\ Encloses(j, k) /\ Depth(k) = Depth(j) + 1
Holds(j, k) == Condition(source[j]) # (\E m \in j + 1 .. k - 1 : ElseOf(j, m))
Kept(k) == source[k].k \notin Conditionals /\ \A j \in Lines : Encloses(j, k) => Holds(j, k)

Balanced ==
  /\ \A k \in Lines : source[k].k \in {"else", "endif"} => Depth(k) > 0
  /\ Depth(Len(source) + 1) = 0
  /\ \A j, k, m \in Lines : ElseOf(j, k) /\ ElseOf(j, m) => k = m

SectionOf(k) ==
  LET switches == {j \in 1 .. k - 1 : Kept(j) /\ source[j].k = "section"}
  IN IF switches = {} THEN "text" ELSE source[Max(switches)].sym
HasBytes(k) == Kept(k) /\ source[k].k \notin {"label", "section", "blank"}
\* The bytes of section s in the lines before line k.
BytesBefore(s, k) ==
  FoldLeft(LAMBDA offset, j : IF HasBytes(j) /\ SectionOf(j) = s
                              THEN offset + ItemSize(source[j], offset) ELSE offset,
           0, [j \in 1 .. k - 1 |-> j])
AddressOf(k) ==
  BytesBefore(SectionOf(k), k) +
  Even(FoldLeft(LAMBDA cursor, s : Even(cursor) + BytesBefore(s, Len(source) + 1), 0,
                SectionsBefore(SectionOf(k))))
LabelLines == {k \in Lines : Kept(k) /\ source[k].k = "label"}
Labels == {source[k].sym : k \in LabelLines}
Addresses == [name \in Labels |-> AddressOf(CHOOSE k \in LabelLines : source[k].sym = name)]
ValueAt(k, n) == Eval(source[k].args[n], Addresses)
OperandAt(k) == IF source[k].args = <<>> THEN 0 ELSE ValueAt(k, 1)

\* What the assembly language says that an instruction at pc does.
Meaning(i, v, pc) ==
  CASE i.op = "JALL" -> <<D("JALL", i.d, 0, 0, v)>>
    [] i.op = "JMPL" -> <<D("JALL", 0, 0, 0, v)>>
    [] i.op = "LDI16" -> <<D("LUI", i.d, 0, 0, (v % 65536) \div 256), D("ORI", i.d, 0, 0, v % 256)>>
    [] i.op \in {"LD", "ST"} -> <<D(i.op, i.d, i.a, 0, v)>>
    [] i.op \in {"ADDI", "CMPI"} -> <<D(i.op, i.d, 0, 0, v)>>
    [] i.op \in {"LDI", "LUI", "ANDI", "ORI", "XORI"} -> <<D(i.op, i.d, 0, 0, v % 256)>>
    [] i.op = "BEQZ" -> <<D("BR", 0, 0, 0, v % 65536)>>
    [] i.op = "BNEZ" -> <<D("BR", 1, 0, 0, v % 65536)>>
    [] i.op = "BLTZ" -> <<D("BR", 2, 0, 0, v % 65536)>>
    [] i.op = "BGEZ" -> <<D("BR", 3, 0, 0, v % 65536)>>
    [] i.op = "JMP8" -> <<D("BR", 4, 0, 0, v % 65536)>>
    [] i.op = "HALT" -> <<D("BR", 4, 0, 0, pc)>>
    [] i.op = "MOV" -> <<D("OR", i.d, i.a, i.a, 0)>>
    [] i.op = "SHL1" -> <<D("ADD", i.d, i.a, i.a, 0)>>
    [] i.op = "NOP" -> <<D("OR", 0, 0, 0, 0)>>
    [] i.op \in ThreeRegister -> <<D(i.op, i.d, i.a, i.b, 0)>>
    [] i.op \in Shifts -> <<D(i.op, i.d, i.a, 0, v)>>
    [] i.op \in {"RET", "RETI"} -> <<D(i.op, 0, i.a, 0, 0)>>
    [] i.op \in {"CLI", "STI", "IFLUSH"} -> <<D(i.op, 0, 0, 0, 0)>>
    [] i.op = "JMP" -> <<D("JALR", 0, i.a, 0, 0)>>
    [] i.op = "MFEPC" -> <<D("MFS", i.d, 0, 0, 0)>>
    [] i.op = "MTEPC" -> <<D("MTS", 0, i.a, 0, 0)>>
    [] OTHER -> <<D(i.op, i.d, i.a, 0, 0)>>

\* The simulator refuses these where the assembler does not.
SharedRegisters(i) ==
  \/ i.op = "MULHU" /\ i.d = i.a
  \/ i.op = "DIVU" /\ Cardinality({i.d, i.a, i.b}) < 3

\* A byte or a halfword of the image; the simulator's memory is zero after it.
ByteAt(addr) == IF addr < Len(image) THEN image[addr + 1] ELSE 0
WordAt(addr) == ByteAt(addr) + 256 * ByteAt(addr + 1)
DecodedAt(addr) == Decoded(WordAt(addr), WordAt(addr + 2), addr)

Executes(k) ==
  LET i == source[k].i
      pc == AddressOf(k)
      meaning == Meaning(i, OperandAt(k), pc)
  IN IF SharedRegisters(i) THEN DecodedAt(pc) = Undefined
     ELSE \A n \in DOMAIN meaning : DecodedAt(pc + 2 * (n - 1)) = meaning[n]

Holding(k) ==
  CASE source[k].k = "insn" -> Executes(k)
    [] source[k].k = "word" ->
         \A n \in DOMAIN source[k].args : WordAt(AddressOf(k) + 2 * (n - 1)) = ValueAt(k, n) % 65536
    [] source[k].k \in {"space", "align"} ->
         \A n \in 0 .. ItemSize(source[k], BytesBefore(SectionOf(k), k)) - 1 :
           ByteAt(AddressOf(k) + n) = 0
    [] OTHER ->
         \A n \in DOMAIN source[k].args : ByteAt(AddressOf(k) + n - 1) = ValueAt(k, n) % 256

Good ==
  /\ Balanced
  /\ \A j, k \in LabelLines : source[j].sym = source[k].sym => j = k
  /\ \A k \in Lines : HasBytes(k) =>
       /\ source[k].k = "space" => source[k].args[1].sym = None /\ source[k].args[1].n >= 0
       /\ \A n \in DOMAIN source[k].args : Known(source[k].args[n], Addresses)
       /\ source[k].k = "insn" =>
            AddressOf(k) % 2 = 0 /\ Encodable(source[k].i, OperandAt(k), AddressOf(k), iflush)

(***************************************************************************)
(* Properties.                                                             *)
(***************************************************************************)

\* A line survives conditional assembly exactly when every conditional around
\* it holds, whatever is nested in the branch that is skipped (the stack of
\* preprocess_source against the nesting of the source).
ConditionsNest ==
  phase \notin {"preprocess", "error"} =>
    Balanced /\ \A k \in Lines : out[k] = IF Kept(k) THEN source[k] ELSE Blank

\* A source is refused exactly when it is wrong: conditionals that do not nest,
\* a name with two places or none, an instruction at an odd address or with an
\* operand that its field cannot hold.
VerdictRight == (phase = "done" => Good) /\ (phase = "error" => ~Good)

\* The image means what the source says: the simulator decodes every
\* instruction, found at the address counted from the source, to the operation
\* that was written, and branches and calls go to the address of their label.
ImageExecutes == phase = "done" => \A k \in Lines : HasBytes(k) => Holding(k)
=============================================================================
