-------------------------- MODULE AssemblerProofs --------------------------
(***************************************************************************)
(* Proofs about the assembler, for every source.                           *)
(*                                                                         *)
(*   BranchesArrive, AccessesReadBack                                      *)
(*                      what the simulator decodes is what the assembler   *)
(*                      encoded, where the two do arithmetic               *)
(*   ConditionalsNest   a line survives conditional assembly exactly when  *)
(*                      every conditional around it holds                  *)
(*                                                                         *)
(* ConditionalsNest compares the stack of preprocess_source with the       *)
(* nesting of the source, which Depth counts without a stack.  The         *)
(* invariant NestInv says that before each line the stack holds, outermost *)
(* first, one entry for each conditional around the line: whether the      *)
(* lines around that conditional are active, whether its condition holds   *)
(* and whether its .else has been seen.  The lemmas before it are about    *)
(* the nesting alone: of two conditionals around a line one lies in the    *)
(* other (EnclosersNest), and a conditional's truth does not change while  *)
(* one inside it is open (HoldsWithin), which is why the parent flag saved *)
(* at an .ifdef may be used at its .else and its .endif.                   *)
(***************************************************************************)
EXTENDS Assembler, FiniteSetTheorems, TLAPS

-----------------------------------------------------------------------------
(* The two tables. *)

\* The rotated displacement is undone: the sign that the assembler moves to bit 0
\* and the seven bits above it come back as the signed byte.
THEOREM DisplacementRoundTrip ==
  ASSUME NEW rel \in SignedByte
  PROVE  Rotated(rel) \in 0 .. 255 /\ Unrotated(Rotated(rel)) = rel
<1>1. CASE rel >= 0
  <2>1. rel % 256 = rel
    BY <1>1, SMT DEF SignedByte
  <2>2. Rotated(rel) = 2 * rel
    BY <1>1, <2>1, SMT DEF SignedByte, Rotated
  <2>. QED  BY <1>1, <2>2, SMT DEF SignedByte, Unrotated, Sx8
<1>2. CASE rel < 0
  <2>1. rel % 256 = rel + 256
    BY <1>2, SMT DEF SignedByte
  <2>2. Rotated(rel) = 2 * (rel + 128) + 1
    BY <1>2, <2>1, SMT DEF SignedByte, Rotated
  <2>. QED  BY <1>2, <2>2, SMT DEF SignedByte, Unrotated, Sx8
<1>. QED  BY <1>1, <1>2 DEF SignedByte

\* The decoder's branch arm, given the fields.
LEMMA BranchArm ==
  ASSUME NEW ir, NEW extension, NEW pc, NEW cc \in 0 .. 4,
         NEW opc, NEW a, opc = ir \div 16384, a = (ir \div 256) % 8, cc = (ir \div 2048) % 8,
         opc = 2, a = 7
  PROVE  Decoded(ir, extension, pc)
           = D("BR", cc, 0, 0, (pc + 2 + 2 * Unrotated(ir % 256)) % 65536)
BY SMT DEF Decoded

\* A branch goes where it was told to, from every even address of the program and
\* in both directions, also when the displacement is at an end of its range.
THEOREM BranchesArrive ==
  ASSUME NEW op \in {"BEQZ", "BNEZ", "BLTZ", "BGEZ", "JMP8"},
         NEW v \in Int, NEW pc \in Nat, NEW extension,
         pc % 2 = 0, v % 2 = 0, Rel(v, pc) \in SignedByte
  PROVE  Decoded(EncBranch(BrCc[op], Rel(v, pc)), extension, pc)
           = D("BR", BrCc[op], 0, 0, v % 65536)
<1>1. BrCc[op] \in 0 .. 4
  BY SMT DEF BrCc
<1>2. PICK cc \in 0 .. 4 : cc = BrCc[op]
  BY <1>1, SMT
<1>3. PICK rel \in SignedByte : rel = Rel(v, pc)
  BY SMT
<1>4. pc + 2 + 2 * rel = v
  BY <1>3, SMT DEF Rel
<1>5. Rotated(rel) \in 0 .. 255 /\ Unrotated(Rotated(rel)) = rel
  BY DisplacementRoundTrip, SMT
<1>6. PICK ir : ir = EncI(cc, 7, Rotated(rel))
  BY SMT
<1>7. /\ ir \div 16384 = 2 /\ (ir \div 2048) % 8 = cc /\ (ir \div 256) % 8 = 7
      /\ ir % 256 = Rotated(rel)
  <2>1. PICK imm \in 0 .. 255 : imm = Rotated(rel)
    BY <1>5, SMT
  <2>2. ir = 32768 + cc * 2048 + 7 * 256 + imm
    BY <1>6, <2>1, SMT DEF EncI
  <2>3. ir \div 16384 = 2 /\ ir \div 2048 = 16 + cc /\ ir \div 256 = 128 + 8 * cc + 7 /\ ir % 256 = imm
    BY <2>2, SMT
  <2>. QED  BY <2>1, <2>3, SMT
<1>8. Decoded(ir, extension, pc)
        = D("BR", cc, 0, 0, (pc + 2 + 2 * Unrotated(ir % 256)) % 65536)
  BY <1>7, BranchArm, SMT
<1>. QED  BY <1>2, <1>3, <1>4, <1>5, <1>6, <1>7, <1>8, SMT DEF EncBranch

\* A load and a store keep their displacement, whose lowest bit the encoding takes
\* to tell the two apart, and their registers.
THEOREM AccessesReadBack ==
  ASSUME NEW store \in {0, 1}, NEW d \in 0 .. 7, NEW a \in 0 .. 7,
         NEW v \in SignedByte, v % 2 = 0, NEW extension, NEW pc
  PROVE  Decoded(EncMem(store, d, a, v % 256), extension, pc)
           = D(IF store = 1 THEN "ST" ELSE "LD", d, a, 0, v)
<1>1. PICK u \in 0 .. 255 : u = v % 256 /\ u % 2 = 0 /\ Sx8(u) = v
  <2>1. CASE v >= 0
    BY <2>1, SMT DEF SignedByte, Sx8
  <2>2. CASE v < 0
    <3>1. v % 256 = v + 256
      BY <2>2, SMT DEF SignedByte
    <3>. QED  BY <2>2, <3>1, SMT DEF SignedByte, Sx8
  <2>. QED  BY <2>1, <2>2, SMT DEF SignedByte
<1>2. PICK ir : ir = EncMem(store, d, a, v % 256)
  BY SMT
<1>3. ir = 16384 + d * 2048 + a * 256 + u + store
  BY <1>1, <1>2, SMT DEF EncMem
<1>4. PICK h \in 0 .. 127 : u = 2 * h
  BY <1>1, SMT
<1>5. /\ ir \div 16384 = 1 /\ (ir \div 2048) % 8 = d /\ (ir \div 256) % 8 = a
      /\ ir % 2 = store /\ (ir % 256) - ((ir % 256) % 2) = u
  <2>1. ir = 16384 + d * 2048 + a * 256 + 2 * h + store
    BY <1>3, <1>4, SMT
  <2>2. store \in 0 .. 1
    BY SMT
  <2>3. ir \div 16384 = 1
    BY <2>1, <2>2, SMT
  <2>4. ir \div 2048 = 8 + d
    BY <2>1, <2>2, SMT
  <2>5. ir \div 256 = 64 + 8 * d + a
    BY <2>1, <2>2, SMT
  <2>6. ir % 256 = 2 * h + store
    BY <2>1, <2>2, SMT
  <2>7. ir % 2 = store /\ (2 * h + store) % 2 = store
    BY <2>1, <2>2, SMT
  <2>8. (8 + d) % 8 = d /\ (64 + 8 * d + a) % 8 = a
    BY SMT
  <2>. QED  BY <1>4, <2>3, <2>4, <2>5, <2>6, <2>7, <2>8, SMT
<1>6. ASSUME NEW opc, NEW x, NEW y, NEW lane, opc = ir \div 16384, x = (ir \div 2048) % 8,
             y = (ir \div 256) % 8, lane = ir % 2, opc = 1
      PROVE  Decoded(ir, extension, pc)
               = D(IF lane = 1 THEN "ST" ELSE "LD", x, y, 0, Sx8((ir % 256) - ((ir % 256) % 2)))
  BY <1>6, SMT DEF Decoded
<1>7. Decoded(ir, extension, pc) = D(IF store = 1 THEN "ST" ELSE "LD", d, a, 0, Sx8(u))
  BY <1>5, <1>6, SMT
<1>. QED  BY <1>1, <1>2, <1>7, SMT

-----------------------------------------------------------------------------
(* The nesting of the source. *)

\* A source has finitely many lines.
LEMMA SourceLines == ASSUME source \in Sources PROVE Len(source) \in Nat /\ Lines = 1 .. Len(source)
BY SourcesAssumption DEF Lines

\* One more number is counted when it belongs to the set.
LEMMA CountNext ==
  ASSUME NEW S, NEW k \in Nat
  PROVE  /\ Cardinality({j \in 1 .. k : j \in S}) \in Nat
         /\ Cardinality({j \in 1 .. k + 1 : j \in S})
              = Cardinality({j \in 1 .. k : j \in S}) + IF k + 1 \in S THEN 1 ELSE 0
<1> DEFINE A == {j \in 1 .. k : j \in S}
<1>1. IsFiniteSet(A) /\ k + 1 \notin A
  <2>1. IsFiniteSet(1 .. k)
    BY FS_Interval
  <2>2. A \in SUBSET (1 .. k)
    OBVIOUS
  <2>3. k + 1 \notin A
    OBVIOUS
  <2> HIDE DEF A
  <2> QED BY <2>1, <2>2, <2>3, FS_Subset
<1>2. {j \in 1 .. k + 1 : j \in S} = IF k + 1 \in S THEN A \cup {k + 1} ELSE A
  <2>1. 1 .. k + 1 = (1 .. k) \cup {k + 1}
    OBVIOUS
  <2> QED BY <2>1
<1> HIDE DEF A
<1>3. Cardinality(A) \in Nat /\ Cardinality(A \cup {k + 1}) = Cardinality(A) + 1
  BY <1>1, FS_AddElement, FS_CardinalityType
<1> QED BY <1>2, <1>3 DEF A

\* How deep the next line lies.
LEMMA DepthNext ==
  ASSUME NEW k \in Nat \ {0}
  PROVE  /\ Depth(k) \in Int
         /\ Depth(k + 1) = Depth(k) + (IF IsOpener(k) THEN 1 ELSE 0)
                                    - (IF source[k].k = "endif" THEN 1 ELSE 0)
<1> DEFINE up == {j \in Nat : IsOpener(j)}  down == {j \in Nat : source[j].k = "endif"}
           ups(n) == Cardinality({j \in 1 .. n : j \in up})
           downs(n) == Cardinality({j \in 1 .. n : j \in down})
<1>1. k - 1 \in Nat /\ (k - 1) + 1 = k /\ (k + 1) - 1 = k
  OBVIOUS
<1>2. \A n \in Nat : /\ {j \in 1 .. n : IsOpener(j)} = {j \in 1 .. n : j \in up}
                     /\ {j \in 1 .. n : source[j].k = "endif"} = {j \in 1 .. n : j \in down}
  OBVIOUS
<1>3. Depth(k) = ups(k - 1) - downs(k - 1) /\ Depth(k + 1) = ups(k) - downs(k)
  BY <1>1, <1>2 DEF Depth
<1>4. /\ k \in up <=> IsOpener(k)
      /\ k \in down <=> source[k].k = "endif"
  OBVIOUS
<1> HIDE DEF up, down
<1>5. ups(k - 1) \in Nat /\ ups(k) = ups(k - 1) + IF k \in up THEN 1 ELSE 0
  <2>1. ups(k - 1) \in Nat /\ ups((k - 1) + 1) = ups(k - 1) + IF (k - 1) + 1 \in up THEN 1 ELSE 0
    BY <1>1, CountNext
  <2> QED BY <1>1, <2>1
<1>6. downs(k - 1) \in Nat /\ downs(k) = downs(k - 1) + IF k \in down THEN 1 ELSE 0
  <2>1. downs(k - 1) \in Nat /\ downs((k - 1) + 1) = downs(k - 1) + IF (k - 1) + 1 \in down THEN 1 ELSE 0
    BY <1>1, CountNext
  <2> QED BY <1>1, <2>1
<1> HIDE DEF ups, downs
<1> QED BY <1>3, <1>4, <1>5, <1>6

\* An opener is no other directive and takes the next line one deeper; an .else
\* leaves the depth as it is.
LEMMA DepthSteps ==
  ASSUME NEW k \in Nat \ {0}
  PROVE  /\ Depth(k) \in Int
         /\ IsOpener(k) => source[k].k # "else" /\ Depth(k + 1) = Depth(k) + 1
         /\ source[k].k = "else" => Depth(k + 1) = Depth(k)
         /\ source[k].k = "endif" => Depth(k + 1) = Depth(k) - 1
<1>1. /\ IsOpener(k) => source[k].k # "else" /\ source[k].k # "endif"
      /\ source[k].k \in {"else", "endif"} => ~IsOpener(k)
  BY DEF IsOpener
<1> QED BY <1>1, DepthNext

\* The source begins outside all conditionals.
LEMMA DepthFirst == Depth(1) = 0
<1>1. {j \in 1 .. 1 - 1 : IsOpener(j)} = {} /\ {j \in 1 .. 1 - 1 : source[j].k = "endif"} = {}
  OBVIOUS
<1> QED BY <1>1, FS_EmptySet DEF Depth

\* What encloses the next line.
LEMMA EnclosesNext ==
  ASSUME NEW j \in Nat \ {0}, NEW k \in Nat \ {0}
  PROVE  Encloses(j, k + 1) <=> \/ j = k /\ IsOpener(k)
                                \/ Encloses(j, k) /\ Depth(k + 1) > Depth(j)
<1>1. CASE j < k
  <2>1. j + 1 .. k + 1 = (j + 1 .. k) \cup {k + 1}
    BY <1>1
  <2> QED BY <1>1, <2>1 DEF Encloses
<1>2. CASE j = k
  <2>1. j + 1 .. k + 1 = {k + 1} /\ ~(j < k) /\ j < k + 1
    BY <1>2
  <2>2. IsOpener(k) => Depth(k + 1) > Depth(k)
    <3>1. IsOpener(k) => source[k].k # "endif"
      BY DEF IsOpener
    <3> QED BY <3>1, DepthNext
  <2> QED BY <1>2, <2>1, <2>2 DEF Encloses
<1>3. CASE j > k
  <2>1. ~(j < k) /\ ~(j < k + 1) /\ j # k
    BY <1>3
  <2> QED BY <2>1 DEF Encloses
<1> QED BY <1>1, <1>2, <1>3

\* Of two conditionals around a line the deeper one lies in the other.
LEMMA EnclosersNest ==
  ASSUME NEW i \in Nat \ {0}, NEW j \in Nat \ {0}, NEW k \in Nat \ {0},
         Encloses(i, k), Encloses(j, k)
  PROVE  /\ Depth(i) = Depth(j) => i = j
         /\ Depth(i) < Depth(j) => Encloses(i, j)
<1>1. Depth(i) \in Int /\ Depth(j) \in Int
  BY DepthNext
<1>2. i < j => Encloses(i, j) /\ Depth(i) < Depth(j)
  BY DEF Encloses
<1>3. j < i => Depth(j) < Depth(i)
  BY DEF Encloses
<1> QED BY <1>1, <1>2, <1>3

\* What encloses a conditional encloses all that the conditional does.
LEMMA EnclosesThrough ==
  ASSUME NEW i \in Nat \ {0}, NEW j \in Nat \ {0}, NEW k \in Nat \ {0},
         Encloses(i, j), Encloses(j, k)
  PROVE  Encloses(i, k) /\ Depth(i) < Depth(j)
<1>1. i < j /\ j < k /\ IsOpener(i) /\ Depth(i) < Depth(j)
  BY DEF Encloses
<1>2. ASSUME NEW m \in i + 1 .. k PROVE Depth(m) > Depth(i)
  <2>1. m \in i + 1 .. j \/ m \in j + 1 .. k
    BY <1>1
  <2>2. m \in Nat \ {0}
    OBVIOUS
  <2>3. Depth(m) \in Int /\ Depth(i) \in Int /\ Depth(j) \in Int
    BY <2>2, DepthNext
  <2>4. CASE m \in i + 1 .. j
    BY <2>4 DEF Encloses
  <2>5. CASE m \in j + 1 .. k
    <3>1. Depth(m) > Depth(j)
      BY <2>5 DEF Encloses
    <3> QED BY <1>1, <2>3, <3>1
  <2> QED BY <2>1, <2>4, <2>5
<1> QED BY <1>1, <1>2 DEF Encloses

\* A conditional's truth changes only at an .else of its own,
LEMMA HoldsNext ==
  ASSUME NEW j \in Nat \ {0}, NEW k \in Nat \ {0}, j < k, ~ElseOf(j, k)
  PROVE  Holds(j, k + 1) = Holds(j, k)
<1>1. j + 1 .. (k + 1) - 1 = (j + 1 .. k - 1) \cup {k}
  OBVIOUS
<1>2. (\E m \in j + 1 .. (k + 1) - 1 : ElseOf(j, m)) <=> \E m \in j + 1 .. k - 1 : ElseOf(j, m)
  BY <1>1
<1> QED BY <1>2, Zenon DEF Holds

\* and so it stays as it is while a conditional inside it is open.
LEMMA HoldsWithin ==
  ASSUME NEW i \in Nat \ {0}, NEW j \in Nat \ {0}, NEW k \in Nat \ {0},
         Encloses(i, j), Encloses(j, k)
  PROVE  Holds(i, k) = Holds(i, j)
<1>1. i < j /\ j < k /\ IsOpener(j)
  BY DEF Encloses
<1>2. ASSUME NEW m \in i + 1 .. k - 1, ElseOf(i, m) PROVE m \in i + 1 .. j - 1
  <2>1. m \in Nat \ {0}
    OBVIOUS
  <2>2. Depth(m) = Depth(i) + 1 /\ source[m].k = "else"
    BY <1>2 DEF ElseOf
  <2>3. m # j
    BY <1>1, <2>2 DEF IsOpener
  <2>4. ~(m > j)
    <3>1. SUFFICES ASSUME m > j PROVE FALSE
      OBVIOUS
    <3>2. Depth(m) > Depth(j)
      BY <1>1, <3>1 DEF Encloses
    <3>3. Depth(j) > Depth(i)
      BY EnclosesThrough
    <3>4. Depth(m) \in Int /\ Depth(i) \in Int /\ Depth(j) \in Int
      BY <2>1, DepthNext
    <3> QED BY <2>2, <3>2, <3>3, <3>4
  <2> QED BY <1>1, <2>3, <2>4
<1>3. (\E m \in i + 1 .. k - 1 : ElseOf(i, m)) <=> \E m \in i + 1 .. j - 1 : ElseOf(i, m)
  <2>1. \A m \in i + 1 .. j - 1 : m \in i + 1 .. k - 1
    BY <1>1
  <2> QED BY <1>2, <2>1
<1> QED BY <1>3, Zenon DEF Holds

\* All conditionals around line k hold.
Active(k) == \A j \in Lines : Encloses(j, k) => Holds(j, k)

\* A line is one of the source, or the end of it.
Place(k) == source \in Sources /\ k \in 1 .. Len(source) + 1

\* What encloses a place is a line.
LEMMA EncloserLine ==
  ASSUME NEW k, Place(k), NEW j \in Nat \ {0}, Encloses(j, k) PROVE j \in Lines
BY SourceLines DEF Place, Encloses

\* A line right inside a conditional is active when the conditional was, and holds.
LEMMA ActiveWithin ==
  ASSUME NEW k, Place(k), NEW j \in Lines, Encloses(j, k), Depth(k) = Depth(j) + 1
  PROVE  Active(k) <=> Active(j) /\ Holds(j, k)
<1>1. /\ k \in Nat \ {0} /\ Lines \subseteq Nat \ {0} /\ j \in Nat \ {0}
  BY SourceLines DEF Place
<1>2. ASSUME NEW i \in Lines, Encloses(i, j) PROVE Encloses(i, k) /\ Holds(i, k) = Holds(i, j)
  BY <1>1, <1>2, EnclosesThrough, HoldsWithin
<1>3. ASSUME NEW i \in Lines, Encloses(i, k) PROVE i = j \/ Encloses(i, j)
  <2>1. i \in Nat \ {0} /\ Depth(i) \in Int /\ Depth(j) \in Int /\ Depth(k) \in Int
    BY <1>1, DepthNext
  <2>2. Depth(i) < Depth(k)
    BY <1>1, <1>3 DEF Encloses
  <2> QED BY <1>1, <1>3, <2>1, <2>2, EnclosersNest
<1> QED BY <1>2, <1>3 DEF Active

\* After its .endif only what was around it counts.
LEMMA ActiveOutside ==
  ASSUME NEW k, Place(k), NEW j \in Lines, Encloses(j, k), Depth(k) = Depth(j) + 1,
         source[k].k = "endif"
  PROVE  Active(k + 1) <=> Active(j)
<1>1. /\ k \in Nat \ {0} /\ Lines \subseteq Nat \ {0} /\ j \in Nat \ {0} /\ ~IsOpener(k)
  BY SourceLines DEF Place, IsOpener
<1>2. Depth(k + 1) = Depth(j) /\ Depth(j) \in Int
  BY <1>1, DepthNext
<1>3. ASSUME NEW i \in Lines PROVE Encloses(i, k + 1) <=> Encloses(i, j)
  <2>1. i \in Nat \ {0} /\ Depth(i) \in Int
    BY <1>1, DepthNext
  <2>2. Encloses(i, k + 1) <=> Encloses(i, k) /\ Depth(i) < Depth(j)
    BY <1>1, <1>2, <2>1, EnclosesNext
  <2>3. Encloses(i, k) /\ Depth(i) < Depth(j) => Encloses(i, j)
    BY <1>1, <2>1, EnclosersNest
  <2>4. Encloses(i, j) => Encloses(i, k) /\ Depth(i) < Depth(j)
    BY <1>1, <2>1, EnclosesThrough
  <2> QED BY <2>2, <2>3, <2>4
<1>4. ASSUME NEW i \in Lines, Encloses(i, j) PROVE Holds(i, k + 1) = Holds(i, j)
  <2>1. i \in Nat \ {0} /\ Encloses(i, k) /\ i < k /\ ~ElseOf(i, k)
    BY <1>1, <1>4, EnclosesThrough DEF Encloses, ElseOf
  <2> QED BY <1>1, <1>4, <2>1, HoldsNext, HoldsWithin
<1> QED BY <1>3, <1>4 DEF Active

\* A line that is no conditional changes nothing.
LEMMA ActiveSame ==
  ASSUME NEW k, Place(k), source[k].k \notin Conditionals
  PROVE  /\ Depth(k + 1) = Depth(k) /\ (Active(k + 1) <=> Active(k))
         /\ \A j \in Lines : Encloses(j, k + 1) <=> Encloses(j, k)
<1>1. /\ k \in Nat \ {0} /\ Lines \subseteq Nat \ {0} /\ ~IsOpener(k) /\ source[k].k # "endif"
      /\ \A j : ~ElseOf(j, k)
  BY SourceLines DEF Place, IsOpener, Conditionals, ElseOf
<1>2. Depth(k + 1) = Depth(k) /\ Depth(k) \in Int
  BY <1>1, DepthNext
<1>3. ASSUME NEW j \in Lines
      PROVE  /\ Encloses(j, k + 1) <=> Encloses(j, k)
             /\ Encloses(j, k) => Holds(j, k + 1) = Holds(j, k)
  <2>1. j \in Nat \ {0}
    BY <1>1
  <2>2. Encloses(j, k) => j < k /\ Depth(k) > Depth(j)
    BY <1>1, <2>1 DEF Encloses
  <2> QED BY <1>1, <1>2, <2>1, <2>2, EnclosesNext, HoldsNext
<1> QED BY <1>2, <1>3 DEF Active

-----------------------------------------------------------------------------
(* The stack of preprocess_source. *)

\* What the stack should say of the conditional of line j before line k,
EntryOf(j, k) ==
  [parent |-> Active(j), cond |-> Condition(source[j]),
   seenElse |-> \E m \in j + 1 .. k - 1 : ElseOf(j, m)]

\* and what it should be before line k: the conditionals around k, outermost first.
Entry == [parent : BOOLEAN, cond : BOOLEAN, seenElse : BOOLEAN]
StackRight(s, k) ==
  /\ s \in Seq(Entry) /\ Len(s) = Depth(k)
  /\ \A l \in 1 .. Len(s) : \E j \in Lines :
       Encloses(j, k) /\ Depth(j) = l - 1 /\ s[l] = EntryOf(j, k)

\* What an entry says is true or false.
LEMMA EntryTyped == ASSUME NEW j, NEW k PROVE EntryOf(j, k) \in Entry
<1>1. Active(j) \in BOOLEAN /\ Condition(source[j]) \in BOOLEAN
  BY DEF Active, Condition
<1> QED BY <1>1 DEF Entry, EntryOf

\* Before any line the stack is empty.
LEMMA StackEmpty == StackRight(<<>>, 1)
BY DepthFirst DEF StackRight

\* The top of the stack is the conditional that the line lies right inside.
LEMMA TopRight ==
  ASSUME NEW s, NEW k, StackRight(s, k), s # <<>>
  PROVE  \E j \in Lines : Encloses(j, k) /\ Depth(k) = Depth(j) + 1 /\ Last(s) = EntryOf(j, k)
<1>1. s \in Seq(Entry) /\ Len(s) = Depth(k) /\ Len(s) \in 1 .. Len(s)
  BY DEF StackRight
<1>2. PICK j \in Lines : Encloses(j, k) /\ Depth(j) = Len(s) - 1 /\ s[Len(s)] = EntryOf(j, k)
  BY <1>1 DEF StackRight
<1> QED BY <1>1, <1>2 DEF Last

\* An entry stays true until an .else of its own.
LEMMA EntryKept ==
  ASSUME NEW j \in Nat \ {0}, NEW k \in Nat \ {0}, j < k, ~ElseOf(j, k)
  PROVE  EntryOf(j, k + 1) = EntryOf(j, k)
<1>1. j + 1 .. (k + 1) - 1 = (j + 1 .. k - 1) \cup {k}
  OBVIOUS
<1>2. (\E m \in j + 1 .. (k + 1) - 1 : ElseOf(j, m)) <=> \E m \in j + 1 .. k - 1 : ElseOf(j, m)
  BY <1>1
<1> QED BY <1>2, Zenon DEF EntryOf

\* A conditional opens.
LEMMA PushRight ==
  ASSUME NEW s, NEW k \in Lines, source \in Sources, StackRight(s, k), IsOpener(k)
  PROVE  StackRight(Append(s, [parent |-> Active(k), cond |-> Condition(source[k]),
                               seenElse |-> FALSE]), k + 1)
<1> DEFINE e == [parent |-> Active(k), cond |-> Condition(source[k]), seenElse |-> FALSE]
<1>1. k \in Nat \ {0} /\ Lines \subseteq Nat \ {0} /\ s \in Seq(Entry) /\ Len(s) = Depth(k)
  BY SourceLines DEF StackRight
<1>2. e = EntryOf(k, k + 1)
  <2>1. k + 1 .. (k + 1) - 1 = {}
    BY <1>1
  <2>2. (\E m \in k + 1 .. (k + 1) - 1 : ElseOf(k, m)) = FALSE
    BY <2>1
  <2> QED BY <2>2, Zenon DEF EntryOf
<1>3. e \in Entry
  BY <1>2, EntryTyped
<1> HIDE DEF e
<1>4. Append(s, e) \in Seq(Entry) /\ Len(Append(s, e)) = Len(s) + 1 /\ Len(s) \in Nat
      /\ Append(s, e)[Len(s) + 1] = e /\ \A l \in 1 .. Len(s) : Append(s, e)[l] = s[l]
  BY <1>1, <1>3
<1>5. Depth(k + 1) = Depth(k) + 1 /\ Depth(k) \in Int /\ source[k].k # "else"
  BY <1>1, DepthSteps
<1>6. ASSUME NEW l \in 1 .. Len(s)
      PROVE  \E j \in Lines : Encloses(j, k + 1) /\ Depth(j) = l - 1 /\ s[l] = EntryOf(j, k + 1)
  <2>1. PICK j \in Lines : Encloses(j, k) /\ Depth(j) = l - 1 /\ s[l] = EntryOf(j, k)
    BY <1>6 DEF StackRight
  <2>2. j \in Nat \ {0} /\ j < k /\ ~ElseOf(j, k) /\ Depth(k + 1) > Depth(j)
    BY <1>1, <1>4, <1>5, <2>1 DEF Encloses, ElseOf
  <2> QED BY <1>1, <2>1, <2>2, EnclosesNext, EntryKept
<1>7. Encloses(k, k + 1)
  BY <1>1, EnclosesNext
<1>8. ASSUME NEW l \in 1 .. Len(s) + 1
      PROVE  \E j \in Lines :
               Encloses(j, k + 1) /\ Depth(j) = l - 1 /\ Append(s, e)[l] = EntryOf(j, k + 1)
  <2>1. CASE l \in 1 .. Len(s)
    BY <2>1, <1>4, <1>6
  <2>2. CASE l = Len(s) + 1
    BY <2>2, <1>1, <1>2, <1>4, <1>5, <1>7
  <2> QED BY <2>1, <2>2, <1>4
<1>9. StackRight(Append(s, e), k + 1)
  BY <1>1, <1>4, <1>5, <1>8 DEF StackRight
<1> QED BY <1>9 DEF e

\* Its other branch begins.
LEMMA ElseRight ==
  ASSUME NEW s, NEW k \in Lines, source \in Sources, StackRight(s, k), s # <<>>,
         source[k].k = "else"
  PROVE  StackRight(Append(Front(s), [parent |-> Last(s).parent, cond |-> Last(s).cond,
                                      seenElse |-> TRUE]), k + 1)
<1> DEFINE e == [parent |-> Last(s).parent, cond |-> Last(s).cond, seenElse |-> TRUE]
           t == Append(Front(s), e)
<1>1. k \in Nat \ {0} /\ Lines \subseteq Nat \ {0} /\ s \in Seq(Entry) /\ Len(s) = Depth(k)
      /\ Len(s) \in Nat \ {0}
  BY SourceLines DEF StackRight
<1>2. PICK j \in Lines : Encloses(j, k) /\ Depth(k) = Depth(j) + 1 /\ Last(s) = EntryOf(j, k)
  BY TopRight
<1>3. Depth(k + 1) = Depth(k) /\ Depth(k) \in Int /\ Depth(j) \in Int
  BY <1>1, DepthSteps
<1>4. ElseOf(j, k) /\ j < k /\ j \in Nat \ {0}
  BY <1>1, <1>2 DEF ElseOf, Encloses
<1>5. e = EntryOf(j, k + 1)
  <2>1. k \in j + 1 .. (k + 1) - 1
    BY <1>1, <1>4
  <2>2. (\E m \in j + 1 .. (k + 1) - 1 : ElseOf(j, m)) = TRUE
    BY <1>4, <2>1
  <2>3. Last(s).parent = Active(j) /\ Last(s).cond = Condition(source[j])
    BY <1>2 DEF EntryOf
  <2> QED BY <2>2, <2>3, Zenon DEF EntryOf
<1>6. e \in Entry
  BY <1>5, EntryTyped
<1> HIDE DEF e
<1>7. /\ t \in Seq(Entry) /\ Len(t) = Len(s) /\ t[Len(s)] = e
      /\ \A l \in 1 .. Len(s) - 1 : t[l] = s[l]
  BY <1>1, <1>6 DEF Front
<1> HIDE DEF t
<1>8. ASSUME NEW l \in 1 .. Len(s)
      PROVE  \E i \in Lines : Encloses(i, k + 1) /\ Depth(i) = l - 1 /\ t[l] = EntryOf(i, k + 1)
  <2>1. CASE l = Len(s)
    <3>1. Encloses(j, k + 1)
      <4>1. j \in Nat \ {0} /\ Depth(k + 1) > Depth(j)
        BY <1>1, <1>2, <1>3
      <4> QED BY <1>1, <1>2, <4>1, EnclosesNext
    <3> QED BY <2>1, <3>1, <1>1, <1>2, <1>3, <1>5, <1>7
  <2>2. CASE l \in 1 .. Len(s) - 1
    <3>1. PICK i \in Lines : Encloses(i, k) /\ Depth(i) = l - 1 /\ s[l] = EntryOf(i, k)
      BY <1>8 DEF StackRight
    <3>2. i \in Nat \ {0} /\ i < k /\ Depth(k + 1) > Depth(i) /\ Depth(k) # Depth(i) + 1
      BY <1>1, <1>3, <2>2, <3>1 DEF Encloses
    <3>3. ~ElseOf(i, k)
      BY <3>2 DEF ElseOf
    <3> QED BY <1>1, <1>7, <2>2, <3>1, <3>2, <3>3, EnclosesNext, EntryKept
  <2> QED BY <2>1, <2>2, <1>1
<1>9. StackRight(t, k + 1)
  BY <1>1, <1>3, <1>7, <1>8 DEF StackRight
<1> QED BY <1>9 DEF t, e

\* It closes.
LEMMA PopRight ==
  ASSUME NEW s, NEW k \in Lines, source \in Sources, StackRight(s, k), s # <<>>,
         source[k].k = "endif"
  PROVE  StackRight(Front(s), k + 1)
<1>1. k \in Nat \ {0} /\ Lines \subseteq Nat \ {0} /\ s \in Seq(Entry) /\ Len(s) = Depth(k)
      /\ Len(s) \in Nat \ {0}
  BY SourceLines DEF StackRight
<1>2. Depth(k + 1) = Depth(k) - 1 /\ ~\E j : ElseOf(j, k)
  BY <1>1, DepthSteps DEF ElseOf
<1>3. /\ Front(s) \in Seq(Entry) /\ Len(Front(s)) = Len(s) - 1
      /\ \A l \in 1 .. Len(s) - 1 : Front(s)[l] = s[l]
  BY <1>1 DEF Front
<1>4. ASSUME NEW l \in 1 .. Len(s) - 1
      PROVE  \E j \in Lines : Encloses(j, k + 1) /\ Depth(j) = l - 1 /\ s[l] = EntryOf(j, k + 1)
  <2>1. PICK j \in Lines : Encloses(j, k) /\ Depth(j) = l - 1 /\ s[l] = EntryOf(j, k)
    BY <1>1, <1>4 DEF StackRight
  <2>2. j \in Nat \ {0} /\ j < k /\ ~ElseOf(j, k) /\ Depth(k + 1) > Depth(j)
    BY <1>1, <1>2, <2>1 DEF Encloses
  <2> QED BY <1>1, <2>1, <2>2, EnclosesNext, EntryKept
<1> QED BY <1>1, <1>2, <1>3, <1>4 DEF StackRight

\* Any other line leaves the stack as it is.
LEMMA LineRight ==
  ASSUME NEW s, NEW k \in Lines, source \in Sources, StackRight(s, k),
         source[k].k \notin Conditionals
  PROVE  StackRight(s, k + 1)
<1>1. k \in Nat \ {0} /\ Lines \subseteq Nat \ {0} /\ Place(k)
  BY SourceLines DEF Place
<1>2. /\ Depth(k + 1) = Depth(k) /\ ~\E j : ElseOf(j, k)
      /\ \A j \in Lines : Encloses(j, k + 1) <=> Encloses(j, k)
  BY <1>1, ActiveSame DEF ElseOf, Conditionals
<1>3. ASSUME NEW j \in Lines, Encloses(j, k)
      PROVE  Encloses(j, k + 1) /\ EntryOf(j, k + 1) = EntryOf(j, k)
  <2>1. j \in Nat \ {0} /\ j < k /\ ~ElseOf(j, k)
    BY <1>1, <1>2, <1>3 DEF Encloses
  <2> QED BY <1>1, <1>2, <1>3, <2>1, EntryKept
<1> QED BY <1>2, <1>3 DEF StackRight

-----------------------------------------------------------------------------
(* The invariant of preprocess_source. *)

\* Each .else and .endif before line k has its conditional, and no conditional has
\* two of the former.
BalancedTo(k) ==
  /\ \A m \in 1 .. k - 1 : source[m].k \in {"else", "endif"} => Depth(m) > 0
  /\ \A j \in Lines : \A m, n \in 1 .. k - 1 : ElseOf(j, m) /\ ElseOf(j, n) => m = n

\* The lines before line k are in the output when they should be.
OutRight(o, k) ==
  /\ o \in Seq({source[n] : n \in Lines} \cup {Blank}) /\ Len(o) = k - 1
  /\ \A n \in 1 .. k - 1 : o[n] = IF Kept(n) THEN source[n] ELSE Blank

NestInv ==
  /\ source \in Sources
  /\ phase = "preprocess" =>
       /\ at \in 0 .. Len(source)
       /\ StackRight(stack, at + 1) /\ active \in BOOLEAN /\ (active <=> Active(at + 1))
       /\ BalancedTo(at + 1) /\ OutRight(out, at + 1)
  /\ ConditionsNest

\* One more line is balanced.
LEMMA BalancedNext ==
  ASSUME NEW k \in Lines, source \in Sources, BalancedTo(k),
         source[k].k \in {"else", "endif"} => Depth(k) > 0,
         \A j \in Lines : ElseOf(j, k) => \A m \in j + 1 .. k - 1 : ~ElseOf(j, m)
  PROVE  BalancedTo(k + 1)
<1>1. k \in Nat \ {0} /\ 1 .. (k + 1) - 1 = (1 .. k - 1) \cup {k} /\ Lines \subseteq Nat \ {0}
  BY SourceLines
<1>2. \A m \in 1 .. (k + 1) - 1 : source[m].k \in {"else", "endif"} => Depth(m) > 0
  BY <1>1 DEF BalancedTo
<1>3. ASSUME NEW j \in Lines, NEW m \in 1 .. k - 1, ElseOf(j, m), ElseOf(j, k) PROVE FALSE
  <2>1. j < m
    BY <1>3 DEF ElseOf
  <2>2. m \in j + 1 .. k - 1
    <3>1. j \in Nat \ {0}
      BY <1>1
    <3> QED BY <1>1, <1>3, <2>1, <3>1
  <2> QED BY <1>3, <2>2
<1>4. \A j \in Lines : \A m, n \in 1 .. (k + 1) - 1 : ElseOf(j, m) /\ ElseOf(j, n) => m = n
  BY <1>1, <1>3 DEF BalancedTo
<1> QED BY <1>2, <1>4 DEF BalancedTo

\* One more line is in the output, or blank.
LEMMA OutNext ==
  ASSUME NEW o, NEW k \in Lines, source \in Sources, OutRight(o, k), NEW b \in BOOLEAN, b <=> Active(k)
  PROVE  OutRight(Append(o, IF b /\ source[k].k \notin Conditionals THEN source[k] ELSE Blank), k + 1)
<1> DEFINE L == {source[n] : n \in Lines} \cup {Blank}
           e == IF b /\ source[k].k \notin Conditionals THEN source[k] ELSE Blank
<1>1. k \in Nat \ {0} /\ o \in Seq(L) /\ Len(o) = k - 1 /\ e \in L
      /\ \A n \in 1 .. k - 1 : o[n] = IF Kept(n) THEN source[n] ELSE Blank
  BY SourceLines DEF OutRight
<1>2. e = IF Kept(k) THEN source[k] ELSE Blank
  BY Zenon DEF Kept, Active
<1> HIDE DEF e, L
<1>3. /\ Append(o, e) \in Seq(L) /\ Len(Append(o, e)) = (k + 1) - 1 /\ Append(o, e)[k] = e
      /\ \A n \in 1 .. k - 1 : Append(o, e)[n] = o[n]
  BY <1>1
<1>4. ASSUME NEW n \in 1 .. (k + 1) - 1
      PROVE  Append(o, e)[n] = IF Kept(n) THEN source[n] ELSE Blank
  <2>1. CASE n = k
    BY <1>2, <1>3, <2>1
  <2>2. CASE n \in 1 .. k - 1
    BY <1>1, <1>3, <2>2
  <2> QED BY <1>1, <2>1, <2>2
<1>5. OutRight(Append(o, e), k + 1)
  BY <1>3, <1>4 DEF OutRight, L
<1> QED BY <1>5 DEF e

\* What the source says stays.
LEMMA SourceKept ==
  ASSUME UNCHANGED <<source, defines>>
  PROVE  /\ Lines' = Lines /\ Balanced' = Balanced /\ \A k : Kept(k)' = Kept(k) /\ Active(k)' = Active(k)
         /\ \A s, k : StackRight(s, k)' = StackRight(s, k)
         /\ \A k : BalancedTo(k)' = BalancedTo(k)
         /\ \A o, k : OutRight(o, k)' = OutRight(o, k)
<1>1. Lines' = Lines /\ \A k : Depth(k)' = Depth(k) /\ IsOpener(k)' = IsOpener(k)
  BY DEF Lines, Depth, IsOpener
<1>2. \A j, k : Encloses(j, k)' = Encloses(j, k)
  BY <1>1 DEF Encloses
<1>3. \A j, k : ElseOf(j, k)' = ElseOf(j, k)
  BY <1>1, <1>2 DEF ElseOf
<1>4. \A j, k : Holds(j, k)' = Holds(j, k)
  BY <1>3 DEF Holds, Condition
<1>5. \A k : Active(k)' = Active(k)
  BY <1>1, <1>2, <1>4 DEF Active
<1>6. \A k : Kept(k)' = Kept(k)
  BY <1>1, <1>2, <1>4 DEF Kept
<1>7. Balanced' = Balanced
  BY <1>1, <1>3 DEF Balanced
<1>8. \A j, k : EntryOf(j, k)' = EntryOf(j, k)
  BY <1>3, <1>5 DEF EntryOf, Condition
<1>9. \A s, k : StackRight(s, k)' = StackRight(s, k)
  BY <1>1, <1>2, <1>8 DEF StackRight
<1>10. \A k : BalancedTo(k)' = BalancedTo(k)
  BY <1>1, <1>3 DEF BalancedTo
<1>11. \A o, k : OutRight(o, k)' = OutRight(o, k)
  BY <1>1, <1>6 DEF OutRight
<1> QED BY <1>1, <1>5, <1>6, <1>7, <1>9, <1>10, <1>11

\* A line that does not fail leads to the next one.
LEMMA LineKept ==
  ASSUME NestInv, phase = "preprocess", at < Len(source), UNCHANGED commandLine,
         Preprocessed(source[at + 1]),
         StackRight(stack', at + 2), active' \in BOOLEAN, active' <=> Active(at + 2),
         source[at + 1].k \in {"else", "endif"} => Depth(at + 1) > 0,
         \A j \in Lines : ElseOf(j, at + 1) => \A m \in j + 1 .. at : ~ElseOf(j, m)
  PROVE  NestInv'
<1> DEFINE k == at + 1
<1>1. /\ k \in Lines /\ source \in Sources /\ at \in Nat /\ Len(source) \in Nat
      /\ (at + 1) + 1 = at + 2 /\ (at + 1) - 1 = at
      /\ BalancedTo(k) /\ OutRight(out, k) /\ active \in BOOLEAN /\ (active <=> Active(k))
  BY SourceLines DEF NestInv
<1>2. /\ at' = at + 1 /\ phase' = "preprocess" /\ source' = source /\ defines' = defines
      /\ out' = Append(out, IF active /\ source[k].k \notin Conditionals THEN source[k] ELSE Blank)
  BY DEF Preprocessed, commandLine
<1> HIDE DEF k
<1>3. BalancedTo(k + 1)
  <2>1. \A j \in Lines : ElseOf(j, k) => \A m \in j + 1 .. k - 1 : ~ElseOf(j, m)
    BY <1>1 DEF k
  <2>2. source[k].k \in {"else", "endif"} => Depth(k) > 0
    BY DEF k
  <2> QED BY <1>1, <2>1, <2>2, BalancedNext
<1>4. OutRight(out', k + 1)
  <2>1. OutRight(Append(out, IF active /\ source[k].k \notin Conditionals THEN source[k] ELSE Blank), k + 1)
    BY <1>1, OutNext
  <2> QED BY <1>2, <2>1
<1>5. at' + 1 = k + 1 /\ at + 2 = k + 1 /\ at' \in 0 .. Len(source)
  BY <1>1, <1>2 DEF k
<1>6. StackRight(stack', k + 1) /\ (active' <=> Active(k + 1))
  BY <1>5
<1>7. /\ \A s, n : StackRight(s, n)' = StackRight(s, n)
      /\ \A n : BalancedTo(n)' = BalancedTo(n) /\ Active(n)' = Active(n)
      /\ \A o, n : OutRight(o, n)' = OutRight(o, n)
  BY <1>2, SourceKept
<1>8. StackRight(stack, at + 1)' /\ (active <=> Active(at + 1))'
  BY <1>5, <1>6, <1>7
<1>9. BalancedTo(at + 1)' /\ OutRight(out, at + 1)'
  BY <1>3, <1>4, <1>5, <1>7
<1>10. ConditionsNest'
  BY <1>2 DEF ConditionsNest
<1> QED BY <1>1, <1>2, <1>5, <1>8, <1>9, <1>10 DEF NestInv

\* A failure ends the claim.
LEMMA FailKept == ASSUME NestInv, Fail, UNCHANGED commandLine PROVE NestInv'
BY DEF NestInv, Fail, ConditionsNest, commandLine

\* What the invariant says of the next line.
LEMMA NextLine ==
  ASSUME NestInv, phase = "preprocess", at < Len(source)
  PROVE  /\ at + 1 \in Lines /\ at + 1 \in Nat \ {0} /\ (at + 1) + 1 = at + 2 /\ (at + 1) - 1 = at
         /\ Place(at + 1) /\ Place(at + 2) /\ source \in Sources /\ Lines \subseteq Nat \ {0}
         /\ StackRight(stack, at + 1) /\ active \in BOOLEAN /\ (active <=> Active(at + 1))
BY SourceLines DEF NestInv, Place

\* .ifdef and .ifndef.
LEMMA OpenKept ==
  ASSUME NestInv, PreprocessLine, source[at + 1].k \in {"ifdef", "ifndef"}
  PROVE  NestInv'
<1> DEFINE line == source[at + 1]
<1>1. /\ phase = "preprocess" /\ at < Len(source) /\ UNCHANGED commandLine /\ Preprocessed(line)
      /\ stack' = Append(stack, [parent |-> active, cond |-> Condition(line), seenElse |-> FALSE])
      /\ active' = (active /\ Condition(line))
  BY DEF PreprocessLine, Conditionals
<1>2. /\ at + 1 \in Lines /\ at + 1 \in Nat \ {0} /\ (at + 1) + 1 = at + 2
      /\ Place(at + 2) /\ source \in Sources /\ IsOpener(at + 1)
      /\ StackRight(stack, at + 1) /\ active \in BOOLEAN /\ (active <=> Active(at + 1))
  BY <1>1, NextLine DEF IsOpener
<1>3. StackRight(stack', at + 2)
  <2>1. StackRight(Append(stack, [parent |-> Active(at + 1), cond |-> Condition(line),
                                  seenElse |-> FALSE]), at + 2)
    BY <1>2, PushRight
  <2>2. active = Active(at + 1)
    BY <1>2 DEF Active
  <2> QED BY <1>1, <2>1, <2>2
<1>4. /\ Depth(at + 2) = Depth(at + 1) + 1 /\ Encloses(at + 1, at + 2)
      /\ line.k \notin {"else", "endif"}
  BY <1>2, DepthSteps, EnclosesNext DEF IsOpener
<1>5. Active(at + 2) <=> Active(at + 1) /\ Condition(line)
  <2>1. Active(at + 2) <=> Active(at + 1) /\ Holds(at + 1, at + 2)
    BY <1>2, <1>4, ActiveWithin
  <2>2. Holds(at + 1, at + 2) <=> Condition(line)
    <3>1. (at + 1) + 1 .. (at + 2) - 1 = {}
      BY <1>2
    <3>2. (\E m \in (at + 1) + 1 .. (at + 2) - 1 : ElseOf(at + 1, m)) = FALSE
      BY <3>1
    <3>3. Condition(line) \in BOOLEAN
      BY DEF Condition
    <3> QED BY <3>2, <3>3, Zenon DEF Holds
  <2> QED BY <2>1, <2>2
<1>6. active' \in BOOLEAN /\ (active' <=> Active(at + 2))
  <2>1. Condition(line) \in BOOLEAN
    BY DEF Condition
  <2> HIDE DEF line
  <2>2. active' <=> active /\ Condition(line)
    BY <1>1, Zenon
  <2>3. active' \in BOOLEAN
    BY <1>1, <1>2, <2>1
  <2> QED BY <1>2, <1>5, <2>2, <2>3
<1>7. \A j : ~ElseOf(j, at + 1)
  BY <1>4 DEF ElseOf
<1> QED BY <1>1, <1>3, <1>4, <1>6, <1>7, LineKept

\* .else.
LEMMA ElseKept ==
  ASSUME NestInv, PreprocessLine, source[at + 1].k = "else"
  PROVE  NestInv'
<1> DEFINE line == source[at + 1]  top == Last(stack)
<1>1. phase = "preprocess" /\ at < Len(source) /\ UNCHANGED commandLine
  BY DEF PreprocessLine
<1>2. CASE stack = <<>> \/ top.seenElse
  <2>1. Fail
    BY <1>2 DEF PreprocessLine, Conditionals
  <2> QED BY <1>1, <2>1, FailKept
<1>3. CASE ~(stack = <<>> \/ top.seenElse)
  <2>1. /\ stack' = Append(Front(stack), [parent |-> top.parent, cond |-> top.cond, seenElse |-> TRUE])
        /\ active' = ElseActive(top) /\ Preprocessed(line)
    BY <1>3 DEF PreprocessLine, Conditionals
  <2>2. /\ at + 1 \in Lines /\ at + 1 \in Nat \ {0} /\ (at + 1) + 1 = at + 2 /\ (at + 1) - 1 = at
        /\ Place(at + 2) /\ source \in Sources /\ Lines \subseteq Nat \ {0}
        /\ StackRight(stack, at + 1)
    BY <1>1, NextLine
  <2>3. StackRight(stack', at + 2)
    BY <1>3, <2>1, <2>2, ElseRight
  <2>4. PICK j \in Lines : Encloses(j, at + 1) /\ Depth(at + 1) = Depth(j) + 1 /\ top = EntryOf(j, at + 1)
    BY <1>3, <2>2, TopRight
  <2>5. /\ top.parent = Active(j) /\ top.cond = Condition(source[j])
        /\ \A m \in j + 1 .. at : ~ElseOf(j, m)
    <3>1. top.seenElse = \E m \in j + 1 .. (at + 1) - 1 : ElseOf(j, m)
      BY <2>4 DEF EntryOf
    <3>2. \A m \in j + 1 .. (at + 1) - 1 : ~ElseOf(j, m)
      BY <1>3, <3>1
    <3> QED BY <2>2, <2>4, <3>2 DEF EntryOf
  <2>6. /\ j \in Nat \ {0} /\ Depth(at + 2) = Depth(at + 1) /\ Depth(j) \in Int /\ j < at + 1
        /\ Depth(at + 2) > Depth(j)
    <3>1. j \in Nat \ {0} /\ j < at + 1
      BY <2>2, <2>4 DEF Encloses
    <3>2. Depth(at + 2) = Depth(at + 1) /\ Depth(j) \in Int
      BY <2>2, <3>1, DepthSteps
    <3> QED BY <2>4, <3>1, <3>2
  <2>7. Encloses(j, at + 2) /\ ElseOf(j, at + 1)
    <3>1. Encloses(j, (at + 1) + 1)
      BY <2>2, <2>4, <2>6, EnclosesNext
    <3> QED BY <2>2, <2>4, <2>6, <3>1 DEF ElseOf
  <2>8. Active(at + 2) <=> Active(j) /\ ~Condition(source[j])
    <3>1. Active(at + 2) <=> Active(j) /\ Holds(j, at + 2)
      BY <2>2, <2>4, <2>6, <2>7, ActiveWithin
    <3>2. (\E m \in j + 1 .. (at + 2) - 1 : ElseOf(j, m)) = TRUE
      <4>1. at + 1 \in j + 1 .. (at + 2) - 1
        BY <2>2, <2>6
      <4> QED BY <2>7, <4>1
    <3>3. Condition(source[j]) \in BOOLEAN
      BY DEF Condition
    <3>4. Holds(j, at + 2) <=> ~Condition(source[j])
      BY <3>2, <3>3, Zenon DEF Holds
    <3> QED BY <3>1, <3>4
  <2>9. active' \in BOOLEAN /\ (active' <=> Active(at + 2))
    <3>1. Condition(source[j]) \in BOOLEAN /\ Active(j) \in BOOLEAN
      BY DEF Condition, Active
    <3>2. active' = (Active(j) /\ ~Condition(source[j]))
      BY <2>1, <2>5, Zenon DEF ElseActive
    <3>3. active' <=> Active(j) /\ ~Condition(source[j])
      BY <3>2, Zenon
    <3> QED BY <2>8, <3>1, <3>2, <3>3
  <2>10. Depth(at + 1) > 0
    <3>1. Len(stack) = Depth(at + 1) /\ stack \in Seq(Entry)
      BY <2>2 DEF StackRight
    <3> QED BY <1>3, <3>1
  <2>11. \A i \in Lines : ElseOf(i, at + 1) => i = j
    <3>1. \A i \in Lines : ElseOf(i, at + 1) => Encloses(i, at + 1) /\ Depth(at + 1) = Depth(i) + 1 /\ i \in Nat \ {0}
      BY <2>2 DEF ElseOf
    <3>2. \A i \in Lines : Depth(i) \in Int
      BY <2>2, DepthNext
    <3>3. \A i \in Lines : ElseOf(i, at + 1) => Depth(i) = Depth(j)
      BY <2>4, <2>6, <3>1, <3>2
    <3> QED BY <2>2, <2>4, <2>6, <3>1, <3>3, EnclosersNest
  <2> QED BY <1>1, <2>1, <2>3, <2>5, <2>9, <2>10, <2>11, LineKept
<1> QED BY <1>2, <1>3

\* .endif.
LEMMA EndifKept ==
  ASSUME NestInv, PreprocessLine, source[at + 1].k = "endif"
  PROVE  NestInv'
<1> DEFINE line == source[at + 1]  top == Last(stack)
<1>1. phase = "preprocess" /\ at < Len(source) /\ UNCHANGED commandLine
  BY DEF PreprocessLine
<1>2. CASE stack = <<>>
  <2>1. Fail
    BY <1>2 DEF PreprocessLine, Conditionals
  <2> QED BY <1>1, <2>1, FailKept
<1>3. CASE stack # <<>>
  <2>1. stack' = Front(stack) /\ active' = top.parent /\ Preprocessed(line)
    BY <1>3 DEF PreprocessLine, Conditionals
  <2>2. /\ at + 1 \in Lines /\ at + 1 \in Nat \ {0} /\ (at + 1) + 1 = at + 2
        /\ Place(at + 1) /\ source \in Sources /\ StackRight(stack, at + 1)
    BY <1>1, NextLine
  <2>3. StackRight(stack', at + 2)
    BY <1>3, <2>1, <2>2, PopRight
  <2>4. PICK j \in Lines : Encloses(j, at + 1) /\ Depth(at + 1) = Depth(j) + 1 /\ top = EntryOf(j, at + 1)
    BY <1>3, <2>2, TopRight
  <2>5. Active(at + 2) <=> Active(j)
    BY <2>2, <2>4, ActiveOutside
  <2>6. active' \in BOOLEAN /\ (active' <=> Active(at + 2))
    <3>1. active' = Active(j)
      BY <2>1, <2>4 DEF EntryOf
    <3>2. Active(j) \in BOOLEAN
      BY DEF Active
    <3> QED BY <2>5, <3>1, <3>2
  <2>7. Depth(at + 1) > 0
    <3>1. Len(stack) = Depth(at + 1) /\ stack \in Seq(Entry)
      BY <2>2 DEF StackRight
    <3> QED BY <1>3, <3>1
  <2>8. \A i : ~ElseOf(i, at + 1)
    BY DEF ElseOf
  <2> QED BY <1>1, <2>1, <2>3, <2>6, <2>7, <2>8, LineKept
<1> QED BY <1>2, <1>3

\* Any other line.
LEMMA PlainKept ==
  ASSUME NestInv, PreprocessLine, source[at + 1].k \notin Conditionals
  PROVE  NestInv'
<1>1. /\ phase = "preprocess" /\ at < Len(source) /\ UNCHANGED commandLine
      /\ Preprocessed(source[at + 1]) /\ UNCHANGED <<stack, active>>
  BY DEF PreprocessLine, Conditionals
<1>2. /\ at + 1 \in Lines /\ at + 1 \in Nat \ {0} /\ (at + 1) + 1 = at + 2
      /\ Place(at + 1) /\ source \in Sources
      /\ StackRight(stack, at + 1) /\ active \in BOOLEAN /\ (active <=> Active(at + 1))
  BY <1>1, NextLine
<1>3. StackRight(stack', at + 2)
  BY <1>1, <1>2, LineRight
<1>4. active' \in BOOLEAN /\ (active' <=> Active(at + 2))
  BY <1>1, <1>2, ActiveSame
<1>5. /\ \A i : ~ElseOf(i, at + 1)
      /\ source[at + 1].k \notin {"else", "endif"}
  BY DEF ElseOf, Conditionals
<1> QED BY <1>1, <1>3, <1>4, <1>5, LineKept

\* The end of the source.
LEMMA EndKept == ASSUME NestInv, PreprocessEnd PROVE NestInv'
<1>1. phase = "preprocess" /\ at = Len(source) /\ UNCHANGED commandLine
  BY DEF PreprocessEnd
<1>2. CASE stack # <<>>
  <2>1. Fail
    BY <1>2 DEF PreprocessEnd
  <2> QED BY <1>1, <2>1, FailKept
<1>3. CASE stack = <<>>
  <2>1. phase' = "parse" /\ UNCHANGED <<source, defines, stack, active, out>>
    BY <1>1, <1>3 DEF PreprocessEnd, commandLine
  <2>2. /\ Lines = 1 .. Len(source) /\ (Len(source) + 1) - 1 = Len(source) /\ source \in Sources
        /\ StackRight(stack, Len(source) + 1) /\ BalancedTo(Len(source) + 1)
        /\ OutRight(out, Len(source) + 1)
    BY <1>1, SourceLines DEF NestInv
  <2>3. Depth(Len(source) + 1) = 0
    <3>1. Len(<<>>) = 0
      OBVIOUS
    <3> QED BY <1>3, <2>2, <3>1 DEF StackRight
  <2>4. Balanced
    BY <2>2, <2>3 DEF Balanced, BalancedTo
  <2>5. \A k \in Lines : out[k] = IF Kept(k) THEN source[k] ELSE Blank
    BY <2>2 DEF OutRight
  <2>6. Balanced' /\ (\A k \in Lines : out[k] = IF Kept(k) THEN source[k] ELSE Blank)'
    BY <2>1, <2>4, <2>5, SourceKept
  <2>7. ConditionsNest'
    BY <2>6 DEF ConditionsNest
  <2> QED BY <2>1, <2>2, <2>7 DEF NestInv
<1> QED BY <1>2, <1>3

\* Afterwards the source and what is left of it stay.
LEMMA LaterKept ==
  ASSUME NestInv, phase # "preprocess", phase' # "preprocess", UNCHANGED <<source, defines, out>>,
         phase = "error" => phase' = "error"
  PROVE  NestInv'
<1>1. Lines' = Lines /\ Balanced' = Balanced /\ \A k : Kept(k)' = Kept(k)
  BY SourceKept
<1>2. ConditionsNest'
  BY <1>1 DEF NestInv, ConditionsNest
<1> QED BY <1>2 DEF NestInv

\* Every step keeps the stack and the output in agreement with the source.
LEMMA NestKept == ASSUME NestInv, [Next]_vars PROVE NestInv'
<1>1. CASE PreprocessLine
  <2>1. \/ source[at + 1].k \in {"ifdef", "ifndef"} \/ source[at + 1].k = "else"
        \/ source[at + 1].k = "endif" \/ source[at + 1].k \notin Conditionals
    BY DEF Conditionals
  <2> QED BY <1>1, <2>1, OpenKept, ElseKept, EndifKept, PlainKept
<1>2. CASE PreprocessEnd
  BY <1>2, EndKept
<1>3. CASE ParseLine \/ ParseEnd \/ Layout \/ EmitItem \/ Link
  <2>1. /\ phase \notin {"preprocess", "error"} /\ phase' # "preprocess"
        /\ UNCHANGED <<source, defines, out>>
    BY <1>3 DEF ParseLine, ParseEnd, Layout, EmitItem, Link, Fail, commandLine
  <2> QED BY <2>1, LaterKept
<1>4. CASE Finished \/ UNCHANGED vars
  <2>1. UNCHANGED <<source, defines, iflush, phase, at, stack, active, out>>
    BY <1>4 DEF Finished, vars, commandLine
  <2>2. CASE phase = "preprocess"
    <3>1. /\ \A s, k : StackRight(s, k)' = StackRight(s, k)
          /\ \A k : BalancedTo(k)' = BalancedTo(k) /\ Active(k)' = Active(k)
          /\ \A o, k : OutRight(o, k)' = OutRight(o, k)
      BY <2>1, SourceKept
    <3> QED BY <2>1, <2>2, <3>1 DEF NestInv, ConditionsNest
  <2>3. CASE phase # "preprocess"
    BY <2>1, <2>3, LaterKept
  <2> QED BY <2>2, <2>3
<1> QED BY <1>1, <1>2, <1>3, <1>4 DEF Next

\* While it preprocesses, the assembler's stack is the nesting of the source: NestInv.
THEOREM NestInvariant == Spec => []NestInv
<1>1. Init => NestInv
  <2>1. SUFFICES ASSUME Init PROVE NestInv
    OBVIOUS
  <2>2. /\ source \in Sources /\ phase = "preprocess" /\ at = 0 /\ stack = <<>> /\ active = TRUE
        /\ out = <<>> /\ Len(source) \in Nat /\ Lines = 1 .. Len(source)
    BY <2>1, SourceLines DEF Init
  <2>3. StackRight(<<>>, 1)
    BY StackEmpty
  <2>4. Active(1)
    <3>1. \A j \in Lines : ~Encloses(j, 1)
      BY <2>2 DEF Encloses
    <3> QED BY <3>1 DEF Active
  <2>5. BalancedTo(1) /\ OutRight(<<>>, 1)
    BY DEF BalancedTo, OutRight
  <2> QED BY <2>2, <2>3, <2>4, <2>5 DEF NestInv, ConditionsNest
<1>2. NestInv /\ [Next]_vars => NestInv'
  BY NestKept
<1> QED BY <1>1, <1>2, PTL DEF Spec

\* Conditional assembly keeps a line exactly when every conditional around it holds,
\* for every source and every set of symbols: ConditionsNest.
THEOREM ConditionalsNest == Spec => []ConditionsNest
<1>1. NestInv => ConditionsNest
  BY DEF NestInv
<1> QED BY <1>1, NestInvariant, PTL
=============================================================================
