-------------------------- MODULE SequentialProofs --------------------------
(***************************************************************************)
(* Theorems about the five parts of SequentialCode, each for every value   *)
(* of its constants.  The 8-bit processor of Scpu runs every program as    *)
(* the emulator of Semu does; the heap of Klib hands out blocks that share *)
(* no byte; the debugger of SdbExpr answers an expression as the grammar   *)
(* of C has it; the datapath of the core changes registers, memory and     *)
(* CSRs as NEMU's interpreter does; and the calls of Klib leave the memory *)
(* and the result C promises.                                              *)
(***************************************************************************)
EXTENDS SequentialCode, ListLemmas, FiniteSetTheorems

Byte8 == 0 .. 255

\* The processor's registers and wires keep their widths.
ScpuInv ==
  /\ rom \in [0 .. 15 -> Byte8] /\ pc \in 0 .. 15 /\ q \in [0 .. 3 -> Byte8]
  /\ wrapped \in BOOLEAN

\* The fields of an instruction are the ones the emulator takes it apart into.
LEMMA Fields ==
  ASSUME NEW x \in Byte8
  PROVE  /\ (x \div 2 ^ 6) % 2 ^ 2 \in 0 .. 3 /\ (x \div 2 ^ 4) % 2 ^ 2 \in 0 .. 3
         /\ (x \div 2 ^ 2) % 2 ^ 2 \in 0 .. 3 /\ (x \div 2 ^ 0) % 2 ^ 2 \in 0 .. 3
         /\ (x \div 2 ^ 0) % 2 ^ 4 \in 0 .. 15 /\ (x \div 2 ^ 2) % 2 ^ 4 \in 0 .. 15
<1>1. 2 ^ 0 = 1 /\ 2 ^ 2 = 4 /\ 2 ^ 4 = 16 /\ 2 ^ 6 = 64
  OBVIOUS
<1> QED BY <1>1 DEF Byte8

\* Until the program has run off the end, the emulator takes an instruction
\* apart as decoder.v does; that the register an out shows comes through the
\* first port is Raddr1.
LEMMA SameFields ==
  ASSUME ScpuInv, ~wrapped
  PROVE  /\ Op \in 0 .. 3 /\ RdField \in 0 .. 3 /\ Raddr1 \in 0 .. 3 /\ Bits(1, 0) \in 0 .. 3
         /\ Op = Emulator!Opcode /\ RdField = Emulator!Rd
         /\ Bits(3, 2) = Emulator!Rs1 /\ Bits(1, 0) = Emulator!Rs2
         /\ Bits(3, 0) = Emulator!Field(rom[pc], 0, 4) /\ Bits(3, 0) \in 0 .. 15
         /\ Bits(5, 2) = Emulator!Field(rom[pc], 2, 4) /\ Bits(5, 2) \in 0 .. 15
<1>1. rom[pc] \in Byte8
  BY DEF ScpuInv
<1>2. /\ 7 - 6 + 1 = 2 /\ 5 - 4 + 1 = 2 /\ 3 - 2 + 1 = 2 /\ 1 - 0 + 1 = 2
      /\ 3 - 0 + 1 = 4 /\ 5 - 2 + 1 = 4
  OBVIOUS
<1>3. /\ Bits(7, 6) = (rom[pc] \div 2 ^ 6) % 2 ^ 2 /\ Bits(5, 4) = (rom[pc] \div 2 ^ 4) % 2 ^ 2
      /\ Bits(3, 2) = (rom[pc] \div 2 ^ 2) % 2 ^ 2 /\ Bits(1, 0) = (rom[pc] \div 2 ^ 0) % 2 ^ 2
      /\ Bits(3, 0) = (rom[pc] \div 2 ^ 0) % 2 ^ 4 /\ Bits(5, 2) = (rom[pc] \div 2 ^ 2) % 2 ^ 4
  BY <1>2 DEF Bits
<1> QED
  BY <1>1, <1>3, Fields
  DEF Op, RdField, Raddr1, Emulator!Opcode, Emulator!Rd, Emulator!Rs1, Emulator!Rs2, Emulator!Field

\* The registers after the reset are the emulator's.
ScpuReset ==
  /\ rom \in [0 .. 15 -> 0 .. 255] /\ pc = 0 /\ q = [r \in 0 .. 3 |-> 0]
  /\ shown = <<>> /\ wrapped = FALSE

LEMMA ScpuStarts ==
  /\ ScpuInit => ScpuReset
  /\ ScpuReset => ScpuInv /\ Emulator!Init
<1>1. ScpuInit => ScpuReset
  BY ScpuAssumption DEF ScpuInit, ScpuReset
<1>2. ScpuReset => ScpuInv
  <2> SUFFICES ASSUME ScpuReset PROVE ScpuInv
    OBVIOUS
  <2>1. rom \in [0 .. 15 -> Byte8] /\ pc \in 0 .. 15
    BY DEF ScpuReset, Byte8
  <2>2. q \in [0 .. 3 -> Byte8]
    BY DEF ScpuReset, Byte8
  <2>3. wrapped \in BOOLEAN
    BY DEF ScpuReset
  <2> QED BY <2>1, <2>2, <2>3 DEF ScpuInv
<1>3. ScpuReset => Emulator!Init
  BY DEF ScpuReset, Emulator!Init
<1> QED BY <1>1, <1>2, <1>3

\* No clock edge makes them wider.
LEMMA ScpuInvStep ==
  ASSUME ScpuInv, [PosEdge]_scpuVars
  PROVE  ScpuInv'
<1>1. CASE PosEdge
  <2>1. rom[pc] \in Byte8
    BY DEF ScpuInv
  <2>2. /\ Bits(5, 2) \in 0 .. 15 /\ Bits(3, 0) \in 0 .. 15
        /\ Bits(3, 2) \in 0 .. 3 /\ Bits(1, 0) \in 0 .. 3 /\ RdField \in 0 .. 3
    <3>1. /\ 5 - 4 + 1 = 2 /\ 3 - 2 + 1 = 2 /\ 1 - 0 + 1 = 2 /\ 3 - 0 + 1 = 4 /\ 5 - 2 + 1 = 4
      OBVIOUS
    <3> QED BY <2>1, <3>1, Fields DEF Bits, RdField
  <2>3. Wdata \in Byte8
    <3>1. Raddr1 \in 0 .. 3
      BY <2>2 DEF Raddr1
    <3>2. Rs1Val \in Byte8 /\ Rs2Val \in Byte8
      BY <2>2, <3>1 DEF ScpuInv, Rs1Val, Rs2Val
    <3> QED BY <2>2, <3>2 DEF Wdata, Byte8
  <2>4. pc' \in 0 .. 15
    BY <1>1, <2>2 DEF PosEdge, NextPc, ScpuInv
  <2>5. q' \in [0 .. 3 -> Byte8]
    BY <1>1, <2>2, <2>3 DEF PosEdge, ScpuInv
  <2>6. rom' \in [0 .. 15 -> Byte8]
    BY <1>1 DEF PosEdge, ScpuInv
  <2>7. wrapped' \in BOOLEAN
    BY <1>1 DEF PosEdge
  <2> QED BY <2>4, <2>5, <2>6, <2>7 DEF ScpuInv
<1>2. CASE UNCHANGED scpuVars
  BY <1>2 DEF scpuVars, ScpuInv
<1> QED BY <1>1, <1>2

\* One clock edge is one inst_cycle.
LEMMA EdgeIsInstCycle ==
  ASSUME ScpuInv, PosEdge
  PROVE  Emulator!InstCycle \/ wrapped
<1> SUFFICES ASSUME ~wrapped PROVE Emulator!InstCycle
  OBVIOUS
<1>1. rom' = rom /\ pc \in 0 .. 15 /\ q \in [0 .. 3 -> Byte8]
  BY DEF PosEdge, ScpuInv
<1>2. ASSUME ~BranchTaken PROVE Emulator!StepOn
  <2>1. pc' = (pc + 1) % 16 /\ (wrapped' <=> pc = 15) /\ wrapped' \in BOOLEAN
    BY <1>2 DEF PosEdge, NextPc
  <2>2. CASE pc = 15
    BY <2>1, <2>2 DEF Emulator!StepOn
  <2>3. CASE pc # 15
    BY <1>1, <2>1, <2>3 DEF Emulator!StepOn
  <2> QED BY <2>2, <2>3
<1>3. CASE Op = 0
  <2>1. ~BranchTaken /\ Wen /\ Raddr1 = Bits(3, 2) /\ Wdata = (Rs1Val + Rs2Val) % 256
    BY <1>3 DEF BranchTaken, Wen, Raddr1, Wdata
  <2>2. shown' = <<>> /\ q' = [q EXCEPT ![RdField] = (q[Bits(3, 2)] + q[Bits(1, 0)]) % 256]
    BY <1>3, <2>1 DEF PosEdge, Rs1Val, Rs2Val
  <2>3. Emulator!Add
    BY <1>2, <1>3, <2>1, <2>2, SameFields DEF Emulator!Add
  <2> QED BY <1>1, <2>3 DEF Emulator!InstCycle
<1>4. CASE Op = 1
  <2>1. ~BranchTaken /\ ~Wen /\ Raddr1 = RdField
    BY <1>4 DEF BranchTaken, Wen, Raddr1
  <2>2. q' = q /\ shown' = <<q[Emulator!Rd]>>
    BY <1>4, <2>1, SameFields DEF PosEdge, Rs1Val
  <2>3. Emulator!Out
    BY <1>2, <1>4, <2>1, <2>2, SameFields DEF Emulator!Out
  <2> QED BY <1>1, <2>3 DEF Emulator!InstCycle
<1>5. CASE Op = 2
  <2>1. ~BranchTaken /\ Wen /\ Wdata = Bits(3, 0)
    BY <1>5 DEF BranchTaken, Wen, Wdata
  <2>2. shown' = <<>> /\ q' = [q EXCEPT ![RdField] = Bits(3, 0)]
    BY <1>5, <2>1 DEF PosEdge
  <2>3. Emulator!Li
    BY <1>2, <1>5, <2>1, <2>2, SameFields DEF Emulator!Li
  <2> QED BY <1>1, <2>3 DEF Emulator!InstCycle
<1>6. CASE Op = 3
  <2>1. ~Wen /\ q' = q /\ shown' = <<>>
    BY <1>6 DEF Wen, PosEdge
  <2>2. BranchTaken <=> q[0] # q[Emulator!Rs2]
    BY <1>6, SameFields DEF BranchTaken, Rs2Val
  <2>3. BranchTaken => pc' = Emulator!Field(rom[pc], 2, 4) /\ wrapped' = FALSE
    BY SameFields DEF PosEdge, NextPc
  <2>4. Emulator!Bner0
    BY <1>2, <1>6, <2>1, <2>2, <2>3, SameFields DEF Emulator!Bner0
  <2> QED BY <1>1, <2>4 DEF Emulator!InstCycle
<1>7. Op \in {0, 1, 2, 3}
  BY SameFields
<1> QED BY <1>3, <1>4, <1>5, <1>6, <1>7

\* So every step is one of the emulator's, or one of which it says nothing.
LEMMA ScpuSteps ==
  ASSUME ScpuInv, [PosEdge]_scpuVars
  PROVE  [Emulator!InstCycle \/ wrapped]_Emulator!semuVars
<1>1. CASE PosEdge
  BY <1>1, EdgeIsInstCycle
<1>2. CASE UNCHANGED scpuVars
  BY <1>2 DEF scpuVars, Emulator!semuVars
<1> QED BY <1>1, <1>2

\* For every program, register for register and output for output, the
\* processor runs as the emulator does (scpu.v:16: one read port, two fields).
THEOREM ScpuImplementsSemu == ScpuSpec => ImplementsSemu
<1>1. ScpuInit => ScpuInv /\ Emulator!Init
  BY ScpuStarts
<1> QED BY <1>1, ScpuInvStep, ScpuSteps, PTL DEF ScpuSpec, ImplementsSemu, Emulator!Spec

-----------------------------------------------------------------------------
(* The heap.                                                               *)
Block == [at : Nat, size : Nat]

\* f sums up what the first n blocks of bs take: the function Needed defines.
IsSum(f, bs, n) ==
  f = [k \in 0 .. n |-> IF k = 0 THEN 0 ELSE f[k - 1] + bs[k].size + (AlignTo - 1)]

\* The sum in Needed is well defined.
LEMMA SumExists ==
  ASSUME NEW bs, NEW n \in Nat PROVE \E f : IsSum(f, bs, n)
<1> DEFINE S == {m \in Nat : \E f : IsSum(f, bs, m)}
<1>1. 0 \in S
  <2>1. IsSum([k \in 0 .. 0 |-> 0], bs, 0)
    BY DEF IsSum
  <2> QED BY <2>1
<1>2. ASSUME NEW m \in 1 .. n, m - 1 \in S PROVE m \in S
  <2>1. PICK g : IsSum(g, bs, m - 1)
    BY <1>2
  <2> DEFINE f == [k \in 0 .. m |-> IF k = m THEN g[m - 1] + bs[m].size + (AlignTo - 1) ELSE g[k]]
  <2>2. \A k \in 0 .. m - 1 :
          g[k] = IF k = 0 THEN 0 ELSE g[k - 1] + bs[k].size + (AlignTo - 1)
    BY <2>1 DEF IsSum
  <2>3. \A k \in 0 .. m - 1 : f[k] = g[k]
    OBVIOUS
  <2>4. f[m] = f[m - 1] + bs[m].size + (AlignTo - 1)
    BY <2>3
  <2>5. ASSUME NEW k \in 0 .. m
        PROVE  f[k] = IF k = 0 THEN 0 ELSE f[k - 1] + bs[k].size + (AlignTo - 1)
    <3>1. CASE k = m
      BY <2>4, <3>1
    <3>2. CASE k # m /\ k # 0
      <4>1. k \in 0 .. m - 1 /\ k - 1 \in 0 .. m - 1
        BY <3>2
      <4> QED BY <2>2, <2>3, <3>2, <4>1
    <3>3. CASE k = 0
      BY <2>2, <2>3, <3>3
    <3> QED BY <3>1, <3>2, <3>3
  <2>6. f = [k \in 0 .. m |-> f[k]] /\ m \in Nat
    OBVIOUS
  <2> HIDE DEF f
  <2>7. IsSum(f, bs, m)
    BY <2>5, <2>6, Zenon DEF IsSum
  <2> QED BY <2>6, <2>7
<1> HIDE DEF S
<1>3. 0 .. n \subseteq S
  <2>1. S \in SUBSET Nat
    BY DEF S
  <2> QED BY <1>1, <1>2, <2>1, ByCounting
<1>4. n \in S
  BY <1>3
<1> QED BY <1>4 DEF S

\* So Needed is that sum.
LEMMA NeededSum ==
  ASSUME NEW bs \in Seq(Block)
  PROVE  \E f : IsSum(f, bs, Len(bs)) /\ Needed(bs) = f[Len(bs)]
<1> DEFINE n == Len(bs)
           f == CHOOSE g : IsSum(g, bs, n)
<1>1. n \in Nat
  OBVIOUS
<1> HIDE DEF n
<1>2. IsSum(f, bs, n)
  BY <1>1, SumExists, Zenon
<1>3. Needed(bs) = f[n]
  BY Zenon DEF Needed, IsSum, n
<1> QED BY <1>2, <1>3 DEF n

\* Each block adds its size and at most AlignTo - 1 bytes.
LEMMA NeededGrows ==
  ASSUME NEW bs \in Seq(Block), NEW b \in Block
  PROVE  /\ Needed(<<>>) = 0 /\ Needed(bs) \in Nat
         /\ Needed(Append(bs, b)) = Needed(bs) + b.size + (AlignTo - 1)
<1> DEFINE n == Len(bs)
           cs == Append(bs, b)
<1>1. /\ n \in Nat /\ cs \in Seq(Block) /\ Len(cs) = n + 1 /\ cs[n + 1] = b
      /\ \A k \in 1 .. n : cs[k] = bs[k] /\ bs[k].size \in Nat
  <2>1. n \in Nat /\ cs \in Seq(Block) /\ Len(cs) = n + 1 /\ cs[n + 1] = b
    OBVIOUS
  <2>2. \A k \in 1 .. n : cs[k] = bs[k] /\ bs[k] \in Block
    OBVIOUS
  <2> QED BY <2>1, <2>2 DEF Block
<1>2. AlignTo - 1 \in Nat
  BY KlibAssumption
<1> HIDE DEF n, cs
<1>3. Needed(<<>>) = 0
  <2>1. <<>> \in Seq(Block) /\ Len(<<>>) = 0
    OBVIOUS
  <2>2. PICK f : IsSum(f, <<>>, 0) /\ Needed(<<>>) = f[0]
    BY <2>1, NeededSum
  <2> QED BY <2>2 DEF IsSum
<1>4. PICK f : IsSum(f, bs, n) /\ Needed(bs) = f[n]
  BY NeededSum DEF n
<1>5. PICK g : IsSum(g, cs, n + 1) /\ Needed(cs) = g[n + 1]
  BY <1>1, NeededSum
<1> DEFINE S == {k \in 0 .. n : f[k] = g[k] /\ f[k] \in Nat}
<1>6. f[0] = 0 /\ \A k \in 1 .. n : f[k] = f[k - 1] + bs[k].size + (AlignTo - 1)
  <2>1. \A k \in 0 .. n : f[k] = IF k = 0 THEN 0 ELSE f[k - 1] + bs[k].size + (AlignTo - 1)
    BY <1>4 DEF IsSum
  <2>2. 0 \in 0 .. n /\ \A k \in 1 .. n : k \in 0 .. n /\ k # 0
    BY <1>1
  <2> QED BY <2>1, <2>2
<1>7. g[0] = 0 /\ \A k \in 1 .. n + 1 : g[k] = g[k - 1] + cs[k].size + (AlignTo - 1)
  <2>1. \A k \in 0 .. n + 1 : g[k] = IF k = 0 THEN 0 ELSE g[k - 1] + cs[k].size + (AlignTo - 1)
    BY <1>5 DEF IsSum
  <2> QED BY <1>1, <2>1
<1>8. 0 .. n \subseteq S
  <2>1. S \in SUBSET Nat /\ 0 \in S
    BY <1>1, <1>6, <1>7
  <2>2. ASSUME NEW k \in 1 .. n, k - 1 \in S PROVE k \in S
    <3>1. k \in 1 .. n + 1 /\ cs[k] = bs[k] /\ bs[k].size \in Nat
      BY <1>1
    <3>2. f[k] = g[k] /\ f[k] \in Nat
      BY <1>2, <1>6, <1>7, <2>2, <3>1
    <3> QED BY <1>1, <3>2
  <2> HIDE DEF S
  <2> QED BY <1>1, <2>1, <2>2, ByCounting
<1>9. f[n] = g[n] /\ f[n] \in Nat
  BY <1>1, <1>8
<1>10. g[n + 1] = g[n] + b.size + (AlignTo - 1)
  BY <1>1, <1>7
<1> QED BY <1>3, <1>4, <1>5, <1>9, <1>10 DEF cs

\* Where the next block goes, and where the ones before it end.
Packed ==
  /\ Top % AlignTo = 0 /\ Top \in HeapStart .. HeapStart + Needed(blocks)
  /\ \A i \in DOMAIN blocks :
       /\ blocks[i].at % AlignTo = 0 /\ HeapStart <= blocks[i].at
       /\ blocks[i].at + blocks[i].size <= Top
  /\ \A i, j \in DOMAIN blocks : i < j => blocks[i].at + blocks[i].size <= blocks[j].at

HeapInv ==
  /\ blocks \in Seq(Block) /\ addr \in 0 .. AddrSpace - 1
  /\ Needed(blocks) <= HeapSize => Packed

\* Rounding up reaches the next multiple, unless it wraps.
LEMMA RoundedUp ==
  ASSUME NEW size \in Nat, size + (AlignTo - 1) < AddrSpace
  PROVE  /\ Rounded(size) \in size .. size + (AlignTo - 1)
         /\ \E k \in Nat : Rounded(size) = k * AlignTo
<1> DEFINE t == size + AlignTo - 1
           k == t \div AlignTo
<1>1. AlignTo \in Nat \ {0} /\ AddrSpace \in Nat /\ t \in Nat /\ t = size + (AlignTo - 1)
  BY KlibAssumption
<1> HIDE DEF t
<1>2. t % AlignTo \in 0 .. AlignTo - 1 /\ k \in Nat /\ t = k * AlignTo + (t % AlignTo)
  BY <1>1, DivMod
<1> HIDE DEF k
<1>3. k * AlignTo \in Nat
  BY <1>1, <1>2
<1> DEFINE r == k * AlignTo
<1>4. r \in size .. size + (AlignTo - 1) /\ r < AddrSpace
  <2> HIDE DEF r
  <2>1. r \in Nat /\ t = r + (t % AlignTo)
    BY <1>2, <1>3 DEF r
  <2> QED BY <1>1, <1>2, <2>1
<1>5. r % AddrSpace = r
  <2> HIDE DEF r
  <2> QED BY <1>1, <1>4
<1>6. Rounded(size) = r
  BY <1>5 DEF Rounded, t, k
<1> QED BY <1>2, <1>4, <1>6

\* A multiple of AlignTo above an aligned address is aligned.
LEMMA StaysAligned ==
  ASSUME NEW a \in Nat, a % AlignTo = 0, NEW k \in Nat
  PROVE  (a + k * AlignTo) % AlignTo = 0
<1>1. AlignTo \in Nat \ {0}
  BY KlibAssumption
<1>2. a \div AlignTo \in Nat /\ a = (a \div AlignTo) * AlignTo
  BY <1>1, DivMod
<1>3. a + k * AlignTo = ((a \div AlignTo) + k) * AlignTo
  BY <1>1, <1>2
<1>4. \A p \in Nat : (p * AlignTo) % AlignTo = 0
  BY <1>1
<1> QED BY <1>2, <1>3, <1>4

\* One malloc: the new block starts where the last one ended, rounded up.
LEMMA MallocStep ==
  ASSUME HeapInv, Malloc PROVE HeapInv'
<1>1. PICK size \in 0 .. AddrSpace - 1 :
        /\ blocks' = Append(blocks, [at |-> Top, size |-> size])
        /\ addr' = (Top + Rounded(size)) % AddrSpace
  BY DEF Malloc
<1> DEFINE b == [at |-> Top, size |-> size]
<1>2. /\ HeapStart \in Nat \ {0} /\ AlignTo \in Nat \ {0} /\ AddrSpace \in Nat \ {0}
      /\ HeapSize \in Nat /\ HeapStart + HeapSize < AddrSpace
  BY KlibAssumption
<1>3. Top \in Nat /\ size \in Nat /\ b \in Block
  BY <1>2 DEF HeapInv, Top, Block
<1>4. blocks \in Seq(Block) /\ blocks' \in Seq(Block)
  BY <1>1, <1>3 DEF HeapInv
<1>5. addr' \in 0 .. AddrSpace - 1
  <2>1. Rounded(size) \in Nat
    <3> DEFINE t == size + AlignTo - 1
    <3>1. t \div AlignTo \in Nat
      <4>1. t \in Nat
        BY <1>2, <1>3
      <4> HIDE DEF t
      <4> QED BY <1>2, <4>1, DivMod
    <3>2. ((size + AlignTo - 1) \div AlignTo) * AlignTo \in Nat
      BY <1>2, <3>1
    <3> QED BY <1>2, <3>2 DEF Rounded
  <2> QED BY <1>1, <1>2, <1>3, <2>1
<1>6. /\ Needed(blocks) \in Nat
      /\ Needed(blocks') = Needed(blocks) + size + (AlignTo - 1)
  BY <1>1, <1>3, <1>4, NeededGrows
<1>7. ASSUME Needed(blocks') <= HeapSize PROVE Packed'
  <2>1. Packed /\ size + (AlignTo - 1) < AddrSpace
    BY <1>2, <1>3, <1>6, <1>7 DEF HeapInv
  <2>2. PICK k \in Nat : Rounded(size) = k * AlignTo
    BY <1>3, <2>1, RoundedUp
  <2>3. Rounded(size) \in size .. size + (AlignTo - 1)
    BY <1>3, <2>1, RoundedUp
  <2>4. Top \in HeapStart .. HeapStart + Needed(blocks)
    BY <2>1 DEF Packed
  <2>5. addr' = Top + Rounded(size) /\ addr' # 0
    <3> DEFINE sum == Top + Rounded(size)
    <3>1. sum \in 1 .. AddrSpace - 1
      BY <1>2, <1>3, <1>6, <1>7, <2>3, <2>4
    <3>2. addr' = sum % AddrSpace
      BY <1>1
    <3> HIDE DEF sum
    <3>3. addr' = sum /\ addr' # 0
      BY <1>2, <3>1, <3>2
    <3> QED BY <3>3 DEF sum
  <2>6. Top' = Top + Rounded(size)
    BY <2>5 DEF Top
  <2>7. Top' % AlignTo = 0
    BY <1>3, <2>1, <2>2, <2>6, StaysAligned DEF Packed
  <2>8. Top' \in HeapStart .. HeapStart + Needed(blocks')
    BY <1>2, <1>3, <1>6, <2>3, <2>4, <2>6
  <2>9. Len(blocks) \in Nat /\ DOMAIN blocks = 1 .. Len(blocks)
        /\ DOMAIN blocks' = 1 .. Len(blocks) + 1
        /\ blocks'[Len(blocks) + 1] = b
        /\ \A i \in DOMAIN blocks : blocks'[i] = blocks[i] /\ blocks[i] \in Block
    BY <1>1, <1>3, <1>4
  <2>10. ASSUME NEW i \in DOMAIN blocks'
         PROVE  /\ blocks'[i].at % AlignTo = 0 /\ HeapStart <= blocks'[i].at
                /\ blocks'[i].at + blocks'[i].size <= Top'
    <3>1. CASE i \in DOMAIN blocks
      <4>1. blocks[i].at \in Nat /\ blocks[i].size \in Nat
        BY <2>9, <3>1 DEF Block
      <4>2. /\ blocks[i].at % AlignTo = 0 /\ HeapStart <= blocks[i].at
            /\ blocks[i].at + blocks[i].size <= Top
        BY <2>1, <3>1 DEF Packed
      <4> QED BY <1>3, <2>3, <2>6, <2>9, <3>1, <4>1, <4>2
    <3>2. CASE i = Len(blocks) + 1
      <4>1. blocks'[i].at = Top /\ blocks'[i].size = size
        BY <2>9, <3>2
      <4> QED BY <1>2, <1>3, <2>1, <2>3, <2>4, <2>6, <4>1 DEF Packed
    <3> QED BY <2>9, <3>1, <3>2
  <2>11. ASSUME NEW i \in DOMAIN blocks', NEW j \in DOMAIN blocks', i < j
         PROVE  blocks'[i].at + blocks'[i].size <= blocks'[j].at
    <3>1. i \in DOMAIN blocks
      BY <2>9, <2>11
    <3>2. CASE j \in DOMAIN blocks
      BY <2>1, <2>9, <2>11, <3>1, <3>2 DEF Packed
    <3>3. CASE j = Len(blocks) + 1
      <4>1. blocks'[j].at = Top
        BY <2>9, <3>3
      <4> QED BY <2>1, <2>9, <3>1, <4>1 DEF Packed
    <3> QED BY <2>9, <3>2, <3>3
  <2> QED BY <2>7, <2>8, <2>10, <2>11 DEF Packed
<1> QED BY <1>4, <1>5, <1>7 DEF HeapInv

\* However many blocks a program asks for and of whatever sizes, as long as
\* they fit the heap malloc gives out aligned blocks inside it that share no
\* byte (stdlib.c:32).
THEOREM HeapBlocksApart == HeapSpec => []BlocksApart
<1>1. HeapInit => HeapInv
  <2> SUFFICES ASSUME HeapInit PROVE HeapInv
    OBVIOUS
  <2>1. blocks = <<>> /\ addr = 0 /\ HeapStart \in Nat \ {0} /\ AddrSpace \in Nat \ {0}
        /\ HeapStart % AlignTo = 0
    BY KlibAssumption DEF HeapInit
  <2>2. Needed(blocks) = 0
    <3>1. [at |-> 0, size |-> 0] \in Block /\ <<>> \in Seq(Block)
      BY DEF Block
    <3> QED BY <2>1, <3>1, NeededGrows
  <2>3. Top = HeapStart /\ DOMAIN blocks = {} /\ blocks \in Seq(Block)
    BY <2>1 DEF Top
  <2> QED BY <2>1, <2>2, <2>3 DEF HeapInv, Packed
<1>2. ASSUME HeapInv, [Malloc]_heapVars PROVE HeapInv'
  <2>1. CASE Malloc
    BY <1>2, <2>1, MallocStep
  <2>2. CASE UNCHANGED heapVars
    BY <1>2, <2>2 DEF heapVars, HeapInv, Packed, Top
  <2> QED BY <1>2, <2>1, <2>2
<1>3. HeapInv => BlocksApart
  <2> SUFFICES ASSUME HeapInv, Needed(blocks) <= HeapSize PROVE BlocksApart
    BY DEF BlocksApart
  <2>1. Packed /\ blocks \in Seq(Block)
    BY DEF HeapInv
  <2>2. \A i \in DOMAIN blocks : blocks[i].at \in Nat /\ blocks[i].size \in Nat
    <3>1. \A i \in DOMAIN blocks : blocks[i] \in Block
      BY <2>1
    <3> QED BY <3>1 DEF Block
  <2>3. ASSUME NEW c \in Range(blocks)
        PROVE  /\ c.at % AlignTo = 0
               /\ HeapStart <= c.at /\ c.at + c.size <= HeapStart + HeapSize
    <3>1. PICK i \in DOMAIN blocks : c = blocks[i]
      BY DEF Range
    <3>2. Needed(blocks) \in Nat
      <4>1. [at |-> 0, size |-> 0] \in Block
        BY DEF Block
      <4> QED BY <2>1, <4>1, NeededGrows
    <3>3. {HeapStart, HeapSize} \subseteq Nat
      BY KlibAssumption
    <3> QED BY <2>1, <2>2, <3>1, <3>2, <3>3 DEF Packed
  <2>4. \A i, j \in DOMAIN blocks :
          i < j => Apart(blocks[i].at, blocks[i].size, blocks[j].at, blocks[j].size)
    BY <2>1 DEF Packed, Apart
  <2> QED BY <2>3, <2>4 DEF BlocksApart
<1> QED BY <1>1, <1>2, <1>3, PTL DEF HeapSpec

-----------------------------------------------------------------------------
(***************************************************************************)
(* The expressions.  Eval and Meanings are functions on the parts of a     *)
(* line, each defined by an equation; by induction both exist, so that     *)
(* what is chosen satisfies its equation (EvalIs, MeaningIs).  A part with *)
(* a meaning at level l has matching parentheses and, outside them, no     *)
(* operator of a lower level (MeaningIsGood).  Hence the rightmost of the  *)
(* lowest operators outside parentheses, where eval splits, is the only    *)
(* place where the grammar can (OnlyThatSplit), and it can there if both   *)
(* sides mean something (ThatSplit).  So, by induction on its length, a    *)
(* part's answer is its one meaning (EvalAgrees).                          *)
(***************************************************************************)
\* How many numbers of a set an interval holds, by its two parts.
LEMMA CardSplit ==
  ASSUME NEW p \in Nat, NEW k \in Int, NEW r \in Int, p <= k + 1, k <= r, NEW S
  PROVE  /\ Cardinality({i \in p .. r : i \in S}) \in Nat
         /\ Cardinality({i \in p .. r : i \in S})
            = Cardinality({i \in p .. k : i \in S}) + Cardinality({i \in k + 1 .. r : i \in S})
<1> DEFINE A == {i \in p .. k : i \in S}
           B == {i \in k + 1 .. r : i \in S}
           C == {i \in p .. r : i \in S}
<1>1. IsFiniteSet(A) /\ IsFiniteSet(B) /\ IsFiniteSet(C)
  <2>1. IsFiniteSet(p .. k) /\ IsFiniteSet(k + 1 .. r) /\ IsFiniteSet(p .. r)
    BY FS_Interval
  <2>2. A \in SUBSET (p .. k) /\ B \in SUBSET (k + 1 .. r) /\ C \in SUBSET (p .. r)
    OBVIOUS
  <2> HIDE DEF A, B, C
  <2> QED BY <2>1, <2>2, FS_Subset
<1>2. C = A \cup B /\ A \cap B = {}
  OBVIOUS
<1> HIDE DEF A, B, C
<1>3. Cardinality(C) = Cardinality(A) + Cardinality(B) - Cardinality({})
  BY <1>1, <1>2, FS_Union
<1>4. Cardinality(A) \in Nat /\ Cardinality(B) \in Nat /\ Cardinality(C) \in Nat /\ Cardinality({}) = 0
  BY <1>1, FS_CardinalityType, FS_EmptySet
<1> QED BY <1>3, <1>4 DEF A, B, C

\* Depth adds up along a line.
LEMMA DepthSplit ==
  ASSUME NEW toks, NEW p \in Nat, NEW k \in Int, NEW j \in Int, p <= k + 1, k <= j
  PROVE  /\ Depth(toks, p, j) \in Int
         /\ Depth(toks, p, j) = Depth(toks, p, k) + Depth(toks, k + 1, j)
<1> DEFINE O == {i \in Int : toks[i] = "("}
           C == {i \in Int : toks[i] = ")"}
           card(S, x, y) == Cardinality({i \in x .. y : i \in S})
<1>1. \A x, y \in Int : Depth(toks, x, y) = card(O, x, y) - card(C, x, y)
  <2> SUFFICES ASSUME NEW x \in Int, NEW y \in Int
               PROVE  Depth(toks, x, y) = card(O, x, y) - card(C, x, y)
    OBVIOUS
  <2>1. /\ {i \in x .. y : toks[i] = "("} = {i \in x .. y : i \in O}
        /\ {i \in x .. y : toks[i] = ")"} = {i \in x .. y : i \in C}
    OBVIOUS
  <2> HIDE DEF O, C
  <2> QED BY <2>1 DEF Depth
<1> HIDE DEF O, C
<1>2. \A S : card(S, p, j) \in Nat /\ card(S, p, j) = card(S, p, k) + card(S, k + 1, j)
  BY CardSplit
<1>3. \A S : card(S, p, k) \in Nat
  <2>1. k <= k
    OBVIOUS
  <2> QED BY <2>1, CardSplit
<1>4. \A S : card(S, k + 1, j) \in Nat
  <2> DEFINE lo == k + 1
  <2>1. lo \in Nat /\ lo <= j + 1 /\ j <= j
    OBVIOUS
  <2> HIDE DEF lo
  <2>2. \A S : card(S, lo, j) \in Nat
    BY <2>1, CardSplit
  <2> QED BY <2>2 DEF lo
<1>5. /\ Depth(toks, p, j) = card(O, p, j) - card(C, p, j)
      /\ Depth(toks, p, k) = card(O, p, k) - card(C, p, k)
      /\ Depth(toks, k + 1, j) = card(O, k + 1, j) - card(C, k + 1, j)
  BY <1>1
<1> HIDE DEF card
<1>6. /\ card(O, p, j) \in Nat /\ card(C, p, j) \in Nat
      /\ card(O, p, k) \in Nat /\ card(C, p, k) \in Nat
      /\ card(O, k + 1, j) \in Nat /\ card(C, k + 1, j) \in Nat
      /\ card(O, p, j) = card(O, p, k) + card(O, k + 1, j)
      /\ card(C, p, j) = card(C, p, k) + card(C, k + 1, j)
  BY <1>2, <1>3, <1>4
<1> QED BY <1>5, <1>6

\* What one token, or none, adds to it.
LEMMA DepthOne ==
  ASSUME NEW toks, NEW p \in Int
  PROVE  /\ Depth(toks, p, p) = IF toks[p] = "(" THEN 1 ELSE IF toks[p] = ")" THEN -1 ELSE 0
         /\ \A j \in Int : j < p => Depth(toks, p, j) = 0
<1>1. Cardinality({}) = 0 /\ Cardinality({p}) = 1
  BY FS_EmptySet, FS_Singleton
<1>2. ASSUME NEW j \in Int, j < p PROVE Depth(toks, p, j) = 0
  <2>1. {i \in p .. j : toks[i] = "("} = {} /\ {i \in p .. j : toks[i] = ")"} = {}
    BY <1>2
  <2> QED BY <1>1, <2>1 DEF Depth
<1>3. /\ {i \in p .. p : toks[i] = "("} = IF toks[p] = "(" THEN {p} ELSE {}
      /\ {i \in p .. p : toks[i] = ")"} = IF toks[p] = ")" THEN {p} ELSE {}
  OBVIOUS
<1>4. Depth(toks, p, p) = IF toks[p] = "(" THEN 1 ELSE IF toks[p] = ")" THEN -1 ELSE 0
  BY <1>1, <1>3 DEF Depth
<1> QED BY <1>2, <1>4

\* eval and the grammar's meaning, as equations for the function they define.
EvalOf(toks, f, p, r) ==
  IF p > r THEN Refused
  ELSE IF p = r THEN Operand(toks[p])
  ELSE IF CheckParentheses(toks, p, r) THEN f[<<p + 1, r - 1>>]
  ELSE IF Candidates(toks, p, r) = {} THEN Refused
  ELSE Combine(toks[SplitAt(toks, p, r)], f[<<p, SplitAt(toks, p, r) - 1>>], f[<<SplitAt(toks, p, r) + 1, r>>])
IsEval(f, toks) == f = [pq \in Parts(toks) |-> EvalOf(toks, f, pq[1], pq[2])]

Ops == {"&&", "==", "!=", "+", "-", "*", "/"}

\* The operators are the tokens with a precedence.
LEMMA PrecOfOp ==
  ASSUME NEW t
  PROVE  /\ Prec(t) \in -1 .. 3
         /\ Prec(t) # -1 <=> t \in Ops
BY DEF Prec, Ops

\* The rightmost operator of the lowest precedence.
LEMMA SplitIs ==
  ASSUME NEW toks, NEW p \in Nat, NEW r \in Nat, Candidates(toks, p, r) # {}
  PROVE  /\ SplitAt(toks, p, r) \in Candidates(toks, p, r) /\ SplitAt(toks, p, r) \in p .. r
         /\ \A j \in Candidates(toks, p, r) :
              /\ Prec(toks[SplitAt(toks, p, r)]) <= Prec(toks[j])
              /\ Prec(toks[SplitAt(toks, p, r)]) = Prec(toks[j]) => SplitAt(toks, p, r) >= j
<1> DEFINE C == Candidates(toks, p, r)
           P == {Prec(toks[i]) : i \in C}
<1>1. \A i \in C : i \in p .. r /\ i \in Nat /\ i <= r /\ Prec(toks[i]) \in Nat
  <2>1. \A i \in C : i \in p .. r /\ Prec(toks[i]) # -1
    BY DEF Candidates
  <2>2. \A i : Prec(toks[i]) \in -1 .. 3
    BY PrecOfOp
  <2> HIDE DEF C
  <2> QED BY <2>1, <2>2
<1> HIDE DEF C
<1>2. P \in SUBSET Nat /\ P # {}
  BY <1>1 DEF C
<1>3. PICK l \in P : \A m \in P : l <= m
  BY <1>2, LeastOf
<1> DEFINE D == {i \in C : Prec(toks[i]) = l}
           E == {r - i : i \in D}
<1>4. E \in SUBSET Nat /\ E # {}
  BY <1>1, <1>3
<1>5. PICK e \in E : \A m \in E : e <= m
  <2> HIDE DEF E
  <2> QED BY <1>4, LeastOf
<1>6. PICK i \in D : e = r - i
  BY <1>5
<1>7. ASSUME NEW j \in C
      PROVE  Prec(toks[i]) <= Prec(toks[j]) /\ (Prec(toks[i]) = Prec(toks[j]) => i >= j)
  <2>1. Prec(toks[i]) = l /\ i \in C
    BY <1>6
  <2>2. Prec(toks[j]) \in P
    OBVIOUS
  <2>3. l <= Prec(toks[j])
    BY <1>3, <2>2
  <2>4. ASSUME Prec(toks[j]) = l PROVE i >= j
    <3>1. r - j \in E
      BY <2>4
    <3>2. r - i <= r - j
      BY <1>5, <1>6, <3>1
    <3> QED BY <1>1, <2>1, <3>2
  <2> QED BY <2>1, <2>3, <2>4
<1>8. i \in C
  BY <1>6
<1>9. \E k \in C : \A j \in C : Prec(toks[k]) <= Prec(toks[j]) /\ (Prec(toks[k]) = Prec(toks[j]) => k >= j)
  BY <1>7, <1>8
<1>10. SplitAt(toks, p, r) =
         CHOOSE k \in C : \A j \in C : Prec(toks[k]) <= Prec(toks[j]) /\ (Prec(toks[k]) = Prec(toks[j]) => k >= j)
  BY DEF SplitAt, C
<1> HIDE DEF P, D, E
<1>11. /\ SplitAt(toks, p, r) \in C
       /\ \A j \in C : /\ Prec(toks[SplitAt(toks, p, r)]) <= Prec(toks[j])
                       /\ Prec(toks[SplitAt(toks, p, r)]) = Prec(toks[j]) => SplitAt(toks, p, r) >= j
  BY <1>9, <1>10, Zenon
<1>12. SplitAt(toks, p, r) \in p .. r
  BY <1>1, <1>11
<1> QED BY <1>11, <1>12 DEF C

\* f and g agree on the parts shorter than p .. r.
AgreeBelow(f, g, n, p, r) ==
  \A a \in 1 .. n + 1, b \in 0 .. n : b - a < r - p => f[<<a, b>>] = g[<<a, b>>]

\* eval looks at shorter parts only.
LEMMA EvalIsLocal ==
  ASSUME NEW toks, NEW n \in Nat, NEW p \in 1 .. n + 1, NEW r \in 0 .. n, NEW f, NEW g,
         AgreeBelow(f, g, n, p, r)
  PROVE  EvalOf(toks, f, p, r) = EvalOf(toks, g, p, r)
<1> DEFINE k == SplitAt(toks, p, r)
<1>1. CASE p > r
  BY <1>1 DEF EvalOf
<1>2. CASE p = r
  BY <1>2 DEF EvalOf
<1>3. CASE p < r /\ CheckParentheses(toks, p, r)
  <2>1. p + 1 \in 1 .. n + 1 /\ r - 1 \in 0 .. n /\ (r - 1) - (p + 1) < r - p
    BY <1>3
  <2>2. f[<<p + 1, r - 1>>] = g[<<p + 1, r - 1>>]
    BY <2>1 DEF AgreeBelow
  <2>3. ~(p > r) /\ ~(p = r)
    BY <1>3
  <2> QED BY <1>3, <2>2, <2>3 DEF EvalOf
<1>4. CASE p < r /\ ~CheckParentheses(toks, p, r) /\ Candidates(toks, p, r) = {}
  <2>3. ~(p > r) /\ ~(p = r)
    BY <1>4
  <2> QED BY <1>4, <2>3 DEF EvalOf
<1>5. CASE p < r /\ ~CheckParentheses(toks, p, r) /\ Candidates(toks, p, r) # {}
  <2>1. k \in p .. r
    <3>1. p \in Nat /\ r \in Nat
      OBVIOUS
    <3> QED BY <1>5, <3>1, SplitIs
  <2>2. /\ k - 1 \in 0 .. n /\ (k - 1) - p < r - p
        /\ k + 1 \in 1 .. n + 1 /\ r - (k + 1) < r - p
    <3> HIDE DEF k
    <3> QED BY <2>1
  <2>3. f[<<p, k - 1>>] = g[<<p, k - 1>>] /\ f[<<k + 1, r>>] = g[<<k + 1, r>>]
    <3> HIDE DEF k
    <3> QED BY <2>2 DEF AgreeBelow
  <2>4. ~(p > r) /\ ~(p = r)
    BY <1>5
  <2>5. \A h : EvalOf(toks, h, p, r) = Combine(toks[k], h[<<p, k - 1>>], h[<<k + 1, r>>])
    BY <1>5, <2>4 DEF EvalOf
  <2> HIDE DEF k
  <2> QED BY <2>3, <2>5
<1> QED BY <1>1, <1>2, <1>3, <1>4, <1>5

\* So there is a function that satisfies the equation.
LEMMA EvalExists ==
  ASSUME NEW toks, Len(toks) \in Nat PROVE \E f : IsEval(f, toks)
<1> DEFINE n == Len(toks)
           Upto(g, m) == /\ g = [pq \in Parts(toks) |-> g[pq]]
                         /\ \A p \in 1 .. n + 1, r \in 0 .. n :
                              r < p + m => g[<<p, r>>] = EvalOf(toks, g, p, r)
           S == {m \in Nat : \E g : Upto(g, m)}
<1>1. n \in Nat /\ Parts(toks) = (1 .. n + 1) \X (0 .. n)
  BY DEF Parts
<1>2. 0 \in S
  <2> DEFINE g == [pq \in Parts(toks) |-> Refused]
  <2>1. ASSUME NEW p \in 1 .. n + 1, NEW r \in 0 .. n, r < p + 0
        PROVE  g[<<p, r>>] = EvalOf(toks, g, p, r)
    <3>1. <<p, r>> \in Parts(toks)
      BY <1>1
    <3>2. p > r
      BY <1>1, <2>1
    <3> QED BY <3>1, <3>2 DEF EvalOf
  <2>2. g = [pq \in Parts(toks) |-> g[pq]]
    OBVIOUS
  <2>3. Upto(g, 0)
    <3> HIDE DEF g
    <3> QED BY <2>1, <2>2
  <2> QED BY <2>3
<1>3. ASSUME NEW m \in 1 .. n + 1, m - 1 \in S PROVE m \in S
  <2>1. PICK g : Upto(g, m - 1)
    BY <1>3
  <2> DEFINE h == [pq \in Parts(toks) |-> IF pq[2] < pq[1] + (m - 1) THEN g[pq] ELSE EvalOf(toks, g, pq[1], pq[2])]
  <2>2. \A a \in 1 .. n + 1, b \in 0 .. n :
          h[<<a, b>>] = IF b < a + (m - 1) THEN g[<<a, b>>] ELSE EvalOf(toks, g, a, b)
    BY <1>1
  <2>3. ASSUME NEW p \in 1 .. n + 1, NEW r \in 0 .. n, r < p + m
        PROVE  h[<<p, r>>] = EvalOf(toks, h, p, r)
    <3>1. AgreeBelow(h, g, n, p, r)
      <4> HIDE DEF h
      <4>1. \A a \in 1 .. n + 1, b \in 0 .. n : b - a < r - p => b < a + (m - 1)
        BY <1>1, <2>3
      <4> QED BY <2>2, <4>1 DEF AgreeBelow
    <3>2. EvalOf(toks, h, p, r) = EvalOf(toks, g, p, r)
      <4> HIDE DEF h, n
      <4>1. n \in Nat
        BY <1>1
      <4>2. \A f1, f2 : AgreeBelow(f1, f2, n, p, r) => EvalOf(toks, f1, p, r) = EvalOf(toks, f2, p, r)
        BY <4>1, EvalIsLocal
      <4> QED BY <3>1, <4>2
    <3>3. h[<<p, r>>] = EvalOf(toks, g, p, r)
      <4> HIDE DEF h
      <4>1. r < p + (m - 1) => g[<<p, r>>] = EvalOf(toks, g, p, r)
        BY <2>1
      <4> QED BY <2>2, <4>1
    <3> QED BY <3>2, <3>3
  <2>4. h = [pq \in Parts(toks) |-> h[pq]]
    OBVIOUS
  <2>5. Upto(h, m)
    <3> HIDE DEF h
    <3> QED BY <2>3, <2>4
  <2>6. m \in Nat
    BY <1>1
  <2> QED BY <2>5, <2>6
<1>4. n + 1 \in S
  <2>1. n + 1 \in Nat /\ S \in SUBSET Nat
    BY <1>1
  <2> HIDE DEF S, n
  <2>2. 0 .. n + 1 \subseteq S
    BY <1>2, <1>3, <2>1, ByCounting
  <2> QED BY <1>1, <2>2
<1>5. PICK f : Upto(f, n + 1)
  BY <1>4
<1>6. \A p \in 1 .. n + 1, r \in 0 .. n : f[<<p, r>>] = EvalOf(toks, f, p, r)
  <2>1. \A p \in 1 .. n + 1, r \in 0 .. n : r < p + (n + 1)
    BY <1>1
  <2> QED BY <1>5, <2>1
<1>7. \A pq \in Parts(toks) : f[pq] = EvalOf(toks, f, pq[1], pq[2])
  BY <1>1, <1>6
<1>8. f = [pq \in Parts(toks) |-> f[pq]]
  BY <1>5
<1>9. f = [pq \in Parts(toks) |-> EvalOf(toks, f, pq[1], pq[2])]
  BY <1>7, <1>8
<1> QED BY <1>9 DEF IsEval

\* Eval(toks) is what such a function gives the whole line.
LEMMA EvalIs ==
  ASSUME NEW toks, Len(toks) \in Nat
  PROVE  \E e : /\ Eval(toks) = e[<<1, Len(toks)>>]
                /\ \A p \in 1 .. Len(toks) + 1, r \in 0 .. Len(toks) : e[<<p, r>>] = EvalOf(toks, e, p, r)
<1> DEFINE e == CHOOSE f : IsEval(f, toks)
<1>1. IsEval(e, toks)
  BY EvalExists, Zenon
<1>2. Eval(toks) = e[<<1, Len(toks)>>]
  BY Zenon DEF Eval, IsEval, EvalOf
<1> HIDE DEF e
<1>3. \A p \in 1 .. Len(toks) + 1, r \in 0 .. Len(toks) : e[<<p, r>>] = EvalOf(toks, e, p, r)
  <2> SUFFICES ASSUME NEW p \in 1 .. Len(toks) + 1, NEW r \in 0 .. Len(toks)
               PROVE  e[<<p, r>>] = EvalOf(toks, e, p, r)
    OBVIOUS
  <2>1. <<p, r>> \in Parts(toks) /\ <<p, r>>[1] = p /\ <<p, r>>[2] = r
    BY DEF Parts
  <2>2. \A pq \in Parts(toks) : e[pq] = EvalOf(toks, e, pq[1], pq[2])
    BY <1>1 DEF IsEval
  <2> QED BY <2>1, <2>2, Zenon
<1> QED BY <1>2, <1>3

\* What a split of a part at k means, and all of a part's meanings.
SplitOf(toks, f, l, p, r, k) ==
  CombineAll(toks[k], f[<<l, <<p, k - 1>>>>], f[<<l + 1, <<k + 1, r>>>>])
MeaningOf(toks, f, l, p, r) ==
  IF l = 4
  THEN {Operand(toks[i]) : i \in {j \in {p} : p = r /\ toks[j] \notin {"(", ")"} /\ Prec(toks[j]) = -1}}
       \cup (IF r > p + 1 /\ toks[p] = "(" /\ toks[r] = ")" THEN f[<<0, <<p + 1, r - 1>>>>] ELSE {})
  ELSE f[<<l + 1, <<p, r>>>>] \cup
       UNION {SplitOf(toks, f, l, p, r, k) : k \in {i \in p + 1 .. r - 1 : Prec(toks[i]) = l}}
IsMeaning(f, toks) ==
  f = [lpq \in (0 .. 4) \X Parts(toks) |-> MeaningOf(toks, f, lpq[1], lpq[2][1], lpq[2][2])]

\* It looks at shorter parts, and at the same part one level further in.
Size(n, l, p, r) == 5 * (r - p + n + 1) + 4 - l

\* Which of two parts and levels comes first does not depend on n.
LEMMA SizeLess ==
  ASSUME NEW n \in Int, NEW j \in Int, NEW a \in Int, NEW b \in Int,
         NEW l \in Int, NEW p \in Int, NEW r \in Int,
         5 * (b - a) - j < 5 * (r - p) - l
  PROVE  Size(n, j, a, b) < Size(n, l, p, r)
<1>1. Size(n, j, a, b) = (5 * (b - a) - j) + (5 * n + 9)
  BY DEF Size
<1>2. Size(n, l, p, r) = (5 * (r - p) - l) + (5 * n + 9)
  BY DEF Size
<1> QED BY <1>1, <1>2

\* f and g agree on what comes before s.
AgreeBelowSize(f, g, n, s) ==
  \A j \in 0 .. 4, a \in 1 .. n + 1, b \in 0 .. n : Size(n, j, a, b) < s => f[<<j, <<a, b>>>>] = g[<<j, <<a, b>>>>]

\* The equation uses those only.
LEMMA MeaningIsLocal ==
  ASSUME NEW toks, NEW n \in Nat, NEW l \in 0 .. 4, NEW p \in 1 .. n + 1, NEW r \in 0 .. n, NEW f, NEW g,
         AgreeBelowSize(f, g, n, Size(n, l, p, r))
  PROVE  MeaningOf(toks, f, l, p, r) = MeaningOf(toks, g, l, p, r)
<1>1. \A j \in 0 .. 4, a \in 1 .. n + 1, b \in 0 .. n :
        5 * (b - a) - j < 5 * (r - p) - l => f[<<j, <<a, b>>>>] = g[<<j, <<a, b>>>>]
  <2> SUFFICES ASSUME NEW j \in 0 .. 4, NEW a \in 1 .. n + 1, NEW b \in 0 .. n,
                      5 * (b - a) - j < 5 * (r - p) - l
               PROVE  f[<<j, <<a, b>>>>] = g[<<j, <<a, b>>>>]
    OBVIOUS
  <2>0. {n, j, a, b, l, p, r} \subseteq Int
    OBVIOUS
  <2>1. Size(n, j, a, b) < Size(n, l, p, r)
    BY <2>0, SizeLess
  <2> QED BY <2>1 DEF AgreeBelowSize
<1>2. CASE l = 4 /\ r > p + 1
  <2>1. p + 1 \in 1 .. n + 1 /\ r - 1 \in 0 .. n /\ 0 \in 0 .. 4 /\ 5 * ((r - 1) - (p + 1)) - 0 < 5 * (r - p) - l
    BY <1>2
  <2>2. f[<<0, <<p + 1, r - 1>>>>] = g[<<0, <<p + 1, r - 1>>>>]
    BY <1>1, <2>1
  <2> QED BY <1>2, <2>2 DEF MeaningOf
<1>3. CASE l = 4 /\ ~(r > p + 1)
  BY <1>3 DEF MeaningOf
<1>4. CASE l # 4
  <2>1. l + 1 \in 0 .. 4 /\ 5 * (r - p) - (l + 1) < 5 * (r - p) - l
    BY <1>4
  <2>2. f[<<l + 1, <<p, r>>>>] = g[<<l + 1, <<p, r>>>>]
    BY <1>1, <2>1
  <2>3. ASSUME NEW k \in p + 1 .. r - 1
        PROVE  SplitOf(toks, f, l, p, r, k) = SplitOf(toks, g, l, p, r, k)
    <3>1. /\ k - 1 \in 0 .. n /\ 5 * ((k - 1) - p) - l < 5 * (r - p) - l
          /\ k + 1 \in 1 .. n + 1 /\ 5 * (r - (k + 1)) - (l + 1) < 5 * (r - p) - l
      OBVIOUS
    <3>2. f[<<l, <<p, k - 1>>>>] = g[<<l, <<p, k - 1>>>>]
      BY <1>1, <3>1
    <3>3. f[<<l + 1, <<k + 1, r>>>>] = g[<<l + 1, <<k + 1, r>>>>]
      BY <1>1, <2>1, <3>1
    <3> QED BY <3>2, <3>3 DEF SplitOf
  <2> DEFINE K == {i \in p + 1 .. r - 1 : Prec(toks[i]) = l}
  <2>4. {SplitOf(toks, f, l, p, r, k) : k \in K} = {SplitOf(toks, g, l, p, r, k) : k \in K}
    BY <2>3
  <2>5. \A h : MeaningOf(toks, h, l, p, r) = h[<<l + 1, <<p, r>>>>] \cup UNION {SplitOf(toks, h, l, p, r, k) : k \in K}
    BY <1>4 DEF MeaningOf
  <2> HIDE DEF K
  <2> QED BY <2>2, <2>4, <2>5
<1> QED BY <1>2, <1>3, <1>4

\* So there is such a function, too.
LEMMA MeaningExists ==
  ASSUME NEW toks, Len(toks) \in Nat PROVE \E f : IsMeaning(f, toks)
<1> DEFINE n == Len(toks)
           D == (0 .. 4) \X Parts(toks)
           Upto(g, m) == /\ g = [x \in D |-> g[x]]
                         /\ \A l \in 0 .. 4, p \in 1 .. n + 1, r \in 0 .. n :
                              Size(n, l, p, r) < m => g[<<l, <<p, r>>>>] = MeaningOf(toks, g, l, p, r)
           S == {m \in Nat : \E g : Upto(g, m)}
<1>1. n \in Nat /\ Parts(toks) = (1 .. n + 1) \X (0 .. n)
  BY DEF Parts
<1>2. \A l \in 0 .. 4, p \in 1 .. n + 1, r \in 0 .. n :
        Size(n, l, p, r) \in 0 .. 10 * n + 4 /\ Size(n, l, p, r) \in Nat
  BY <1>1 DEF Size
<1>3. 0 \in S
  <2> DEFINE g == [x \in D |-> {}]
  <2>1. g = [x \in D |-> g[x]]
    OBVIOUS
  <2>2. Upto(g, 0)
    <3> HIDE DEF g
    <3> QED BY <1>2, <2>1
  <2> QED BY <2>2
<1>4. ASSUME NEW m \in 1 .. 10 * n + 5, m - 1 \in S PROVE m \in S
  <2>1. PICK g : Upto(g, m - 1)
    BY <1>4
  <2> DEFINE h == [x \in D |-> IF Size(n, x[1], x[2][1], x[2][2]) < m - 1 THEN g[x]
                               ELSE MeaningOf(toks, g, x[1], x[2][1], x[2][2])]
  <2>2. \A l \in 0 .. 4, a \in 1 .. n + 1, b \in 0 .. n :
          h[<<l, <<a, b>>>>] = IF Size(n, l, a, b) < m - 1 THEN g[<<l, <<a, b>>>>] ELSE MeaningOf(toks, g, l, a, b)
    <3> SUFFICES ASSUME NEW l \in 0 .. 4, NEW a \in 1 .. n + 1, NEW b \in 0 .. n
                 PROVE  h[<<l, <<a, b>>>>] = IF Size(n, l, a, b) < m - 1 THEN g[<<l, <<a, b>>>>]
                                             ELSE MeaningOf(toks, g, l, a, b)
      OBVIOUS
    <3> DEFINE x == <<l, <<a, b>>>>
    <3>1. x \in D /\ x[1] = l /\ x[2][1] = a /\ x[2][2] = b
      BY <1>1
    <3> HIDE DEF x
    <3>2. h[x] = IF Size(n, l, a, b) < m - 1 THEN g[x] ELSE MeaningOf(toks, g, l, a, b)
      BY <3>1, Zenon
    <3> QED BY <3>2 DEF x
  <2>3. ASSUME NEW l \in 0 .. 4, NEW p \in 1 .. n + 1, NEW r \in 0 .. n, Size(n, l, p, r) < m
        PROVE  h[<<l, <<p, r>>>>] = MeaningOf(toks, h, l, p, r)
    <3>1. AgreeBelowSize(h, g, n, Size(n, l, p, r))
      <4> HIDE DEF h
      <4>1. ASSUME NEW j \in 0 .. 4, NEW a \in 1 .. n + 1, NEW b \in 0 .. n, Size(n, j, a, b) < Size(n, l, p, r)
            PROVE  Size(n, j, a, b) < m - 1
        <5>1. Size(n, j, a, b) \in Nat /\ Size(n, l, p, r) \in Nat
          BY <1>2
        <5>2. m \in Nat
          BY <1>1
        <5> QED BY <2>3, <4>1, <5>1, <5>2
      <4> QED BY <2>2, <4>1 DEF AgreeBelowSize
    <3>2. MeaningOf(toks, h, l, p, r) = MeaningOf(toks, g, l, p, r)
      <4> HIDE DEF h, n
      <4>1. n \in Nat
        BY <1>1
      <4>2. \A f1, f2 : AgreeBelowSize(f1, f2, n, Size(n, l, p, r)) =>
                           MeaningOf(toks, f1, l, p, r) = MeaningOf(toks, f2, l, p, r)
        BY <4>1, MeaningIsLocal
      <4> QED BY <3>1, <4>2
    <3>3. h[<<l, <<p, r>>>>] = MeaningOf(toks, g, l, p, r)
      <4> HIDE DEF h
      <4>1. Size(n, l, p, r) < m - 1 => g[<<l, <<p, r>>>>] = MeaningOf(toks, g, l, p, r)
        BY <2>1
      <4> QED BY <2>2, <4>1
    <3> QED BY <3>2, <3>3
  <2>4. h = [x \in D |-> h[x]]
    OBVIOUS
  <2>5. Upto(h, m)
    <3> HIDE DEF h
    <3> QED BY <2>3, <2>4
  <2>6. m \in Nat
    BY <1>1
  <2> QED BY <2>5, <2>6
<1>5. 10 * n + 5 \in S
  <2> DEFINE N == 10 * n + 5
  <2>1. N \in Nat /\ S \in SUBSET Nat
    BY <1>1
  <2> HIDE DEF S
  <2>2. \A m \in 1 .. N : m - 1 \in S => m \in S
    BY <1>4
  <2> HIDE DEF N
  <2>3. 0 .. N \subseteq S
    BY <1>3, <2>1, <2>2, ByCounting
  <2>4. N \in S
    BY <2>1, <2>3
  <2> QED BY <2>4 DEF N
<1>6. PICK f : Upto(f, 10 * n + 5)
  BY <1>5
<1>7. \A l \in 0 .. 4, p \in 1 .. n + 1, r \in 0 .. n : f[<<l, <<p, r>>>>] = MeaningOf(toks, f, l, p, r)
  <2>1. \A l \in 0 .. 4, p \in 1 .. n + 1, r \in 0 .. n : Size(n, l, p, r) < 10 * n + 5
    <3>1. \A s \in 0 .. 10 * n + 4 : s < 10 * n + 5
      BY <1>1
    <3> QED BY <1>2, <3>1
  <2> QED BY <1>6, <2>1
<1>8. \A x \in D : f[x] = MeaningOf(toks, f, x[1], x[2][1], x[2][2])
  <2> SUFFICES ASSUME NEW x \in D PROVE f[x] = MeaningOf(toks, f, x[1], x[2][1], x[2][2])
    OBVIOUS
  <2>1. PICK l \in 0 .. 4, pq \in Parts(toks) : x = <<l, pq>>
    OBVIOUS
  <2>2. PICK p \in 1 .. n + 1, r \in 0 .. n : pq = <<p, r>>
    BY <1>1
  <2>3. x[1] = l /\ x[2][1] = p /\ x[2][2] = r /\ x = <<l, <<p, r>>>>
    BY <2>1, <2>2
  <2>4. f[<<l, <<p, r>>>>] = MeaningOf(toks, f, l, p, r)
    BY <1>7
  <2> QED BY <2>3, <2>4
<1>9. f = [x \in D |-> f[x]]
  BY <1>6
<1>10. f = [x \in D |-> MeaningOf(toks, f, x[1], x[2][1], x[2][2])]
  BY <1>8, <1>9
<1> QED BY <1>10 DEF IsMeaning

\* Meanings(toks) is what it gives the whole line.
LEMMA MeaningIs ==
  ASSUME NEW toks, Len(toks) \in Nat
  PROVE  \E e : /\ Meanings(toks) = e[<<0, <<1, Len(toks)>>>>]
                /\ \A l \in 0 .. 4, p \in 1 .. Len(toks) + 1, r \in 0 .. Len(toks) :
                     e[<<l, <<p, r>>>>] = MeaningOf(toks, e, l, p, r)
<1> DEFINE e == CHOOSE f : IsMeaning(f, toks)
<1>1. IsMeaning(e, toks)
  BY MeaningExists, Zenon
<1>2. Meanings(toks) = e[<<0, <<1, Len(toks)>>>>]
  BY Zenon DEF Meanings, IsMeaning, MeaningOf, SplitOf
<1> HIDE DEF e
<1>3. \A l \in 0 .. 4, p \in 1 .. Len(toks) + 1, r \in 0 .. Len(toks) :
        e[<<l, <<p, r>>>>] = MeaningOf(toks, e, l, p, r)
  <2> SUFFICES ASSUME NEW l \in 0 .. 4, NEW p \in 1 .. Len(toks) + 1, NEW r \in 0 .. Len(toks)
               PROVE  e[<<l, <<p, r>>>>] = MeaningOf(toks, e, l, p, r)
    OBVIOUS
  <2> DEFINE x == <<l, <<p, r>>>>
  <2>1. x \in (0 .. 4) \X Parts(toks) /\ x[1] = l /\ x[2][1] = p /\ x[2][2] = r
    BY DEF Parts
  <2>2. \A y \in (0 .. 4) \X Parts(toks) : e[y] = MeaningOf(toks, e, y[1], y[2][1], y[2][2])
    BY <1>1 DEF IsMeaning
  <2> HIDE DEF x
  <2>3. e[x] = MeaningOf(toks, e, l, p, r)
    BY <2>1, <2>2, Zenon
  <2> QED BY <2>3 DEF x
<1> QED BY <1>2, <1>3

\* What may have a meaning at level l: parentheses that match, and outside
\* them no operator of a lower level.
GoodPart(toks, l, p, r) ==
  /\ p <= r
  /\ \A i \in p .. r : Depth(toks, p, i) >= 0
  /\ Depth(toks, p, r) = 0
  /\ \A i \in p .. r : Prec(toks[i]) # -1 /\ Depth(toks, p, i) = 0 => Prec(toks[i]) >= l

\* Parentheses are no operators.
LEMMA PrecOfParenthesis == Prec("(") = -1 /\ Prec(")") = -1
BY DEF Prec

\* The last token of a part adds what it adds alone.
LEMMA DepthStep ==
  ASSUME NEW toks, NEW p \in Nat, NEW j \in Int, p <= j
  PROVE  Depth(toks, p, j) = Depth(toks, p, j - 1) + Depth(toks, j, j)
<1> DEFINE k == j - 1
<1>1. k \in Int /\ p <= k + 1 /\ k <= j /\ k + 1 = j
  OBVIOUS
<1> HIDE DEF k
<1>2. Depth(toks, p, j) = Depth(toks, p, k) + Depth(toks, k + 1, j)
  BY <1>1, DepthSplit
<1>3. Depth(toks, p, j) = Depth(toks, p, k) + Depth(toks, j, j)
  BY <1>1, <1>2
<1> QED BY <1>3 DEF k

\* Depths are numbers.
LEMMA DepthInt ==
  ASSUME NEW toks, NEW p \in Nat, NEW j \in Int, p <= j + 1
  PROVE  Depth(toks, p, j) \in Int
BY DepthSplit, j <= j

\* An operand is good at the innermost level.
LEMMA GoodOperand ==
  ASSUME NEW toks, NEW p \in Nat, toks[p] \notin {"(", ")"}, Prec(toks[p]) = -1
  PROVE  GoodPart(toks, 4, p, p)
<1>1. Depth(toks, p, p) = 0
  BY DepthOne
<1>2. \A i \in p .. p : i = p
  OBVIOUS
<1> QED BY <1>1, <1>2 DEF GoodPart

\* So is a good part in parentheses, and check_parentheses sees that it is one.
LEMMA GoodParentheses ==
  ASSUME NEW toks, NEW p \in Nat, NEW r \in Nat, r > p + 1, toks[p] = "(", toks[r] = ")",
         GoodPart(toks, 0, p + 1, r - 1)
  PROVE  GoodPart(toks, 4, p, r) /\ CheckParentheses(toks, p, r)
<1>1. Depth(toks, p, p) = 1 /\ Depth(toks, r, r) = -1
  BY DepthOne
<1>2. ASSUME NEW i \in p .. r - 1 PROVE Depth(toks, p, i) \in Int /\ Depth(toks, p, i) > 0
  <2>1. CASE i = p
    BY <1>1, <2>1
  <2>2. CASE i # p
    <3>1. i \in p + 1 .. r - 1
      BY <2>2
    <3>2. /\ Depth(toks, p, i) \in Int
          /\ Depth(toks, p, i) = Depth(toks, p, p) + Depth(toks, p + 1, i)
      BY DepthSplit
    <3>3. Depth(toks, p + 1, i) >= 0
      BY <3>1 DEF GoodPart
    <3>4. Depth(toks, p + 1, i) \in Int
      BY <3>1, DepthInt
    <3> QED BY <1>1, <3>2, <3>3, <3>4
  <2> QED BY <2>1, <2>2
<1>3. Depth(toks, p, r) = 0
  <2>1. r \in Int /\ p <= r
    OBVIOUS
  <2>2. Depth(toks, p, r) = Depth(toks, p, r - 1) + Depth(toks, r, r)
    BY <2>1, DepthStep
  <2>3. Depth(toks, p, r - 1) = Depth(toks, p, p) + Depth(toks, p + 1, r - 1)
    <3>1. p <= p + 1 /\ p <= r - 1 /\ r - 1 \in Int
      OBVIOUS
    <3> QED BY <3>1, DepthSplit
  <2>4. Depth(toks, p + 1, r - 1) = 0
    BY DEF GoodPart
  <2> QED BY <1>1, <2>2, <2>3, <2>4
<1>4. \A i \in p .. r : i \in p .. r - 1 \/ i = r
  OBVIOUS
<1>5. GoodPart(toks, 4, p, r)
  <2>1. \A i \in p .. r : Depth(toks, p, i) >= 0
    BY <1>2, <1>3, <1>4
  <2>2. \A i \in p .. r : Depth(toks, p, i) = 0 => i = r
    BY <1>2, <1>4
  <2>3. \A i \in p .. r : Prec(toks[i]) # -1 /\ Depth(toks, p, i) = 0 => Prec(toks[i]) >= 4
    BY <2>2, PrecOfParenthesis
  <2> QED BY <1>3, <2>1, <2>3 DEF GoodPart
<1>6. CheckParentheses(toks, p, r)
  <2>1. \A i \in p .. r - 1 : Depth(toks, p, i) # 0
    BY <1>2
  <2> QED BY <1>3, <2>1 DEF CheckParentheses
<1> QED BY <1>5, <1>6

\* Depth at an operator whose left side is good, and right of it.
LEMMA DepthAfter ==
  ASSUME NEW toks, NEW p \in Nat, NEW k \in Nat, p <= k, Depth(toks, p, k - 1) = 0, Prec(toks[k]) # -1
  PROVE  /\ Depth(toks, p, k) = 0
         /\ \A i \in Int : i > k => /\ Depth(toks, p, i) \in Int
                                    /\ Depth(toks, p, i) = Depth(toks, k + 1, i)
<1>1. Depth(toks, k, k) = 0
  <2>1. toks[k] \notin {"(", ")"}
    BY PrecOfParenthesis
  <2> QED BY <2>1, DepthOne
<1>2. Depth(toks, p, k) = 0
  <2>1. Depth(toks, p, k) = Depth(toks, p, k - 1) + Depth(toks, k, k)
    BY DepthStep
  <2> QED BY <1>1, <2>1
<1>3. ASSUME NEW i \in Int, i > k
      PROVE  Depth(toks, p, i) \in Int /\ Depth(toks, p, i) = Depth(toks, k + 1, i)
  <2>1. k \in Int /\ p <= k + 1 /\ k <= i /\ k + 1 \in Nat /\ k + 1 <= i + 1 /\ i <= i
    BY <1>3
  <2>2. Depth(toks, p, i) \in Int /\ Depth(toks, p, i) = Depth(toks, p, k) + Depth(toks, k + 1, i)
    BY <2>1, DepthSplit
  <2>3. Depth(toks, k + 1, i) \in Int
    BY <2>1, DepthSplit
  <2> QED BY <1>2, <2>2, <2>3
<1> QED BY <1>2, <1>3

\* An operator of level l between parts that are good makes a good part.
LEMMA GoodSplit ==
  ASSUME NEW toks, NEW l \in 0 .. 3, NEW p \in Nat, NEW r \in Nat, NEW k \in p + 1 .. r - 1,
         Prec(toks[k]) = l, GoodPart(toks, l, p, k - 1), GoodPart(toks, l + 1, k + 1, r)
  PROVE  GoodPart(toks, l, p, r)
<1>1. Depth(toks, p, k - 1) = 0 /\ Prec(toks[k]) # -1 /\ k \in Nat /\ p <= k
  BY DEF GoodPart
<1>2. /\ Depth(toks, p, k) = 0
      /\ \A i \in Int : i > k => Depth(toks, p, i) = Depth(toks, k + 1, i)
  BY <1>1, DepthAfter
<1>3. \A i \in p .. r : i \in p .. k - 1 \/ i = k \/ (i \in k + 1 .. r /\ i > k /\ i \in Int)
  OBVIOUS
<1>4. /\ \A i \in p .. k - 1 : Depth(toks, p, i) >= 0
      /\ \A i \in p .. k - 1 : Prec(toks[i]) # -1 /\ Depth(toks, p, i) = 0 => Prec(toks[i]) >= l
  BY DEF GoodPart
<1>5. /\ Depth(toks, k + 1, r) = 0
      /\ \A i \in k + 1 .. r : Depth(toks, k + 1, i) >= 0
      /\ \A i \in k + 1 .. r : Prec(toks[i]) # -1 /\ Depth(toks, k + 1, i) = 0 => Prec(toks[i]) >= l
  <2>1. \A i : Prec(toks[i]) \in Int
    BY PrecOfOp
  <2> QED BY <2>1 DEF GoodPart
<1>6. \A i \in p .. r : Depth(toks, p, i) >= 0
  BY <1>2, <1>3, <1>4, <1>5
<1>7. \A i \in p .. r : Prec(toks[i]) # -1 /\ Depth(toks, p, i) = 0 => Prec(toks[i]) >= l
  <2> SUFFICES ASSUME NEW i \in p .. r, Prec(toks[i]) # -1, Depth(toks, p, i) = 0
               PROVE  Prec(toks[i]) >= l
    OBVIOUS
  <2>1. CASE i = k
    BY <2>1
  <2>2. CASE i \in p .. k - 1
    BY <1>4, <2>2
  <2>3. CASE i \in k + 1 .. r /\ i > k /\ i \in Int
    BY <1>2, <1>5, <2>3
  <2> QED BY <1>3, <2>1, <2>2, <2>3
<1>8. Depth(toks, p, r) = 0 /\ p <= r
  <2>1. r \in Int /\ r > k /\ p <= r
    OBVIOUS
  <2> QED BY <1>2, <1>5, <2>1
<1> QED BY <1>6, <1>7, <1>8 DEF GoodPart

\* m gives each part of the line the meanings the grammar gives it.
Means(m, toks) ==
  \A l \in 0 .. 4, p \in 1 .. Len(toks) + 1, r \in 0 .. Len(toks) :
    m[<<l, <<p, r>>>>] = MeaningOf(toks, m, l, p, r)
Splits(toks, l, p, r) == {i \in p + 1 .. r - 1 : Prec(toks[i]) = l}
GoodBelow(m, toks, s) ==
  \A l \in 0 .. 4, p \in 1 .. Len(toks) + 1, r \in 0 .. Len(toks) :
    Size(Len(toks), l, p, r) < s /\ m[<<l, <<p, r>>>>] # {} => GoodPart(toks, l, p, r)

\* The meanings at the innermost level: an operand or parentheses.
LEMMA MeaningAtTop ==
  ASSUME NEW toks, Len(toks) \in Nat, NEW m, Means(m, toks),
         NEW p \in 1 .. Len(toks) + 1, NEW r \in 0 .. Len(toks)
  PROVE  /\ p = r => m[<<4, <<p, r>>>>] = IF toks[p] \notin {"(", ")"} /\ Prec(toks[p]) = -1
                                          THEN {Operand(toks[p])} ELSE {}
         /\ p # r => m[<<4, <<p, r>>>>] = IF r > p + 1 /\ toks[p] = "(" /\ toks[r] = ")"
                                          THEN m[<<0, <<p + 1, r - 1>>>>] ELSE {}
<1>1. m[<<4, <<p, r>>>>] = MeaningOf(toks, m, 4, p, r)
  BY DEF Means
<1>2. MeaningOf(toks, m, 4, p, r) =
        {Operand(toks[i]) : i \in {j \in {p} : p = r /\ toks[j] \notin {"(", ")"} /\ Prec(toks[j]) = -1}}
        \cup (IF r > p + 1 /\ toks[p] = "(" /\ toks[r] = ")" THEN m[<<0, <<p + 1, r - 1>>>>] ELSE {})
  BY DEF MeaningOf
<1>3. CASE p = r
  <2>1. ~ (r > p + 1)
    BY <1>3
  <2>2. {Operand(toks[i]) : i \in {j \in {p} : p = r /\ toks[j] \notin {"(", ")"} /\ Prec(toks[j]) = -1}}
        = IF toks[p] \notin {"(", ")"} /\ Prec(toks[p]) = -1 THEN {Operand(toks[p])} ELSE {}
    BY <1>3
  <2> QED BY <1>1, <1>2, <1>3, <2>1, <2>2
<1>4. CASE p # r
  <2>1. {j \in {p} : p = r /\ toks[j] \notin {"(", ")"} /\ Prec(toks[j]) = -1} = {}
    BY <1>4
  <2> QED BY <1>1, <1>2, <1>4, <2>1
<1> QED BY <1>3, <1>4

\* The meanings at another: those one level further in, and those of the splits.
LEMMA MeaningBelow ==
  ASSUME NEW toks, Len(toks) \in Nat, NEW m, Means(m, toks), NEW l \in 0 .. 3,
         NEW p \in 1 .. Len(toks) + 1, NEW r \in 0 .. Len(toks)
  PROVE  /\ m[<<l + 1, <<p, r>>>>] \subseteq m[<<l, <<p, r>>>>]
         /\ \A k \in Splits(toks, l, p, r) : SplitOf(toks, m, l, p, r, k) \subseteq m[<<l, <<p, r>>>>]
         /\ \A x \in m[<<l, <<p, r>>>>] :
              x \in m[<<l + 1, <<p, r>>>>] \/ \E k \in Splits(toks, l, p, r) : x \in SplitOf(toks, m, l, p, r, k)
<1>1. l # 4 /\ l \in 0 .. 4
  OBVIOUS
<1>2. m[<<l, <<p, r>>>>] = MeaningOf(toks, m, l, p, r)
  BY <1>1 DEF Means
<1>3. MeaningOf(toks, m, l, p, r) =
        m[<<l + 1, <<p, r>>>>] \cup UNION {SplitOf(toks, m, l, p, r, k) : k \in Splits(toks, l, p, r)}
  BY <1>1 DEF MeaningOf, Splits
<1> QED BY <1>2, <1>3

\* A split has a meaning only if both of its sides have one.
LEMMA SplitIsIn ==
  ASSUME NEW toks, NEW m, NEW l, NEW p, NEW r, NEW k, SplitOf(toks, m, l, p, r, k) # {}
  PROVE  m[<<l, <<p, k - 1>>>>] # {} /\ m[<<l + 1, <<k + 1, r>>>>] # {}
BY DEF SplitOf, CombineAll

\* What has a meaning is good.
LEMMA GoodStep ==
  ASSUME NEW toks, NEW n \in Nat, n = Len(toks), NEW m, Means(m, toks), NEW l \in 0 .. 4,
         NEW p \in 1 .. n + 1, NEW r \in 0 .. n,
         GoodBelow(m, toks, Size(n, l, p, r)), m[<<l, <<p, r>>>>] # {}
  PROVE  GoodPart(toks, l, p, r)
<1>1. ASSUME NEW j \in 0 .. 4, NEW a \in 1 .. n + 1, NEW b \in 0 .. n,
             5 * (b - a) - j < 5 * (r - p) - l, m[<<j, <<a, b>>>>] # {}
      PROVE  GoodPart(toks, j, a, b)
  <2>0. {n, j, a, b, l, p, r} \subseteq Int
    OBVIOUS
  <2>1. Size(n, j, a, b) < Size(n, l, p, r)
    BY <1>1, <2>0, SizeLess
  <2> QED BY <1>1, <2>1 DEF GoodBelow
<1>2. CASE l = 4 /\ p = r
  <2>1. toks[p] \notin {"(", ")"} /\ Prec(toks[p]) = -1
    BY <1>2, MeaningAtTop
  <2> QED BY <1>2, <2>1, GoodOperand
<1>3. CASE l = 4 /\ p # r
  <2>1. r > p + 1 /\ toks[p] = "(" /\ toks[r] = ")" /\ m[<<0, <<p + 1, r - 1>>>>] # {}
    BY <1>3, MeaningAtTop
  <2>2. p + 1 \in 1 .. n + 1 /\ r - 1 \in 0 .. n /\ 0 \in 0 .. 4
        /\ 5 * ((r - 1) - (p + 1)) - 0 < 5 * (r - p) - l
    BY <1>3, <2>1
  <2>3. GoodPart(toks, 0, p + 1, r - 1)
    BY <1>1, <2>1, <2>2
  <2>4. p \in Nat /\ r \in Nat
    OBVIOUS
  <2> QED BY <1>3, <2>1, <2>3, <2>4, GoodParentheses
<1>4. CASE l # 4
  <2>1. l \in 0 .. 3 /\ l + 1 \in 0 .. 4
    BY <1>4
  <2>2. \A x \in m[<<l, <<p, r>>>>] :
           x \in m[<<l + 1, <<p, r>>>>] \/ \E k \in Splits(toks, l, p, r) : x \in SplitOf(toks, m, l, p, r, k)
    BY <2>1, MeaningBelow
  <2>3. CASE m[<<l + 1, <<p, r>>>>] # {}
    <3>1. 5 * (r - p) - (l + 1) < 5 * (r - p) - l
      OBVIOUS
    <3>2. GoodPart(toks, l + 1, p, r)
      BY <1>1, <2>1, <2>3, <3>1
    <3>3. \A i : Prec(toks[i]) \in Int /\ (Prec(toks[i]) >= l + 1 => Prec(toks[i]) >= l)
      <4>1. \A i : Prec(toks[i]) \in Int
        BY PrecOfOp
      <4>2. \A x \in Int : x >= l + 1 => x >= l
        OBVIOUS
      <4> QED BY <4>1, <4>2
    <3> QED BY <3>2, <3>3 DEF GoodPart
  <2>4. CASE m[<<l + 1, <<p, r>>>>] = {}
    <3>1. PICK k \in Splits(toks, l, p, r) : SplitOf(toks, m, l, p, r, k) # {}
      BY <2>2, <2>4
    <3>2. k \in p + 1 .. r - 1 /\ Prec(toks[k]) = l
      BY DEF Splits
    <3>3. /\ k - 1 \in 0 .. n /\ 5 * ((k - 1) - p) - l < 5 * (r - p) - l
          /\ k + 1 \in 1 .. n + 1 /\ 5 * (r - (k + 1)) - (l + 1) < 5 * (r - p) - l
      BY <3>2
    <3>4. m[<<l, <<p, k - 1>>>>] # {} /\ m[<<l + 1, <<k + 1, r>>>>] # {}
      BY <3>1, SplitIsIn
    <3>5. GoodPart(toks, l, p, k - 1)
      BY <1>1, <3>3, <3>4
    <3>6. GoodPart(toks, l + 1, k + 1, r)
      BY <1>1, <2>1, <3>3, <3>4
    <3>7. p \in Nat /\ r \in Nat
      OBVIOUS
    <3> QED BY <2>1, <3>2, <3>5, <3>6, <3>7, GoodSplit
  <2> QED BY <2>3, <2>4
<1> QED BY <1>2, <1>3, <1>4

\* By induction on Size.
LEMMA MeaningIsGood ==
  ASSUME NEW toks, Len(toks) \in Nat, NEW m, Means(m, toks), NEW l \in 0 .. 4,
         NEW p \in 1 .. Len(toks) + 1, NEW r \in 0 .. Len(toks), m[<<l, <<p, r>>>>] # {}
  PROVE  GoodPart(toks, l, p, r)
<1> DEFINE n == Len(toks)
           S == {s \in Nat : GoodBelow(m, toks, s)}
<1>1. n \in Nat /\ S \in SUBSET Nat
  OBVIOUS
<1>2. \A j \in 0 .. 4, a \in 1 .. n + 1, b \in 0 .. n :
        Size(n, j, a, b) \in 0 .. 10 * n + 4 /\ Size(n, j, a, b) \in Nat
  BY <1>1 DEF Size
<1>3. 0 \in S
  <2>1. \A j \in 0 .. 4, a \in 1 .. n + 1, b \in 0 .. n : ~ (Size(n, j, a, b) < 0)
    <3>1. \A s \in Nat : ~ (s < 0)
      OBVIOUS
    <3> QED BY <1>2, <3>1
  <2>2. GoodBelow(m, toks, 0)
    BY <2>1 DEF GoodBelow
  <2> QED BY <2>2
<1>4. ASSUME NEW s \in Nat, s - 1 \in S PROVE s \in S
  <2>1. GoodBelow(m, toks, s - 1)
    BY <1>4
  <2> SUFFICES ASSUME NEW j \in 0 .. 4, NEW a \in 1 .. n + 1, NEW b \in 0 .. n,
                      Size(n, j, a, b) < s, m[<<j, <<a, b>>>>] # {}
               PROVE  GoodPart(toks, j, a, b)
    BY DEF GoodBelow
  <2>2. GoodBelow(m, toks, Size(n, j, a, b))
    <3>1. Size(n, j, a, b) \in Nat
      BY <1>2
    <3>2. \A t \in Nat : t < Size(n, j, a, b) => t < s - 1
      BY <3>1
    <3>3. ASSUME NEW h \in 0 .. 4, NEW x \in 1 .. Len(toks) + 1, NEW y \in 0 .. Len(toks),
                 Size(Len(toks), h, x, y) < Size(n, j, a, b), m[<<h, <<x, y>>>>] # {}
          PROVE  GoodPart(toks, h, x, y)
      <4>1. Size(Len(toks), h, x, y) < s - 1
        BY <1>2, <3>2, <3>3
      <4> QED BY <2>1, <3>3, <4>1 DEF GoodBelow
    <3> QED BY <3>3 DEF GoodBelow
  <2> QED BY <1>1, <2>2, GoodStep
<1>5. 10 * n + 5 \in S
  <2> DEFINE N == 10 * n + 5
  <2>1. N \in Nat
    BY <1>1
  <2> HIDE DEF S
  <2>2. \A s \in 1 .. N : s - 1 \in S => s \in S
    BY <1>4
  <2> HIDE DEF N
  <2>3. 0 .. N \subseteq S
    BY <1>1, <1>3, <2>1, <2>2, ByCounting
  <2>4. N \in S
    BY <2>1, <2>3
  <2> QED BY <2>4 DEF N
<1>6. Size(n, l, p, r) < 10 * n + 5
  <2>1. \A s \in 0 .. 10 * n + 4 : s < 10 * n + 5
    BY <1>1
  <2> QED BY <1>2, <2>1
<1>7. GoodBelow(m, toks, 10 * n + 5)
  BY <1>5
<1> QED BY <1>6, <1>7 DEF GoodBelow

\* Where every operator outside parentheses is of level l or more, the levels
\* below l add nothing.
NoneBelow(toks, l, p, r) ==
  \A i \in p .. r : Prec(toks[i]) # -1 /\ Depth(toks, p, i) = 0 => Prec(toks[i]) >= l

\* One level adds nothing.
LEMMA LevelAddsNothing ==
  ASSUME NEW toks, Len(toks) \in Nat, NEW m, Means(m, toks), NEW l \in 0 .. 3,
         NEW p \in 1 .. Len(toks) + 1, NEW r \in 0 .. Len(toks), NoneBelow(toks, l + 1, p, r)
  PROVE  m[<<l, <<p, r>>>>] \subseteq m[<<l + 1, <<p, r>>>>]
<1>1. ASSUME NEW k \in Splits(toks, l, p, r) PROVE SplitOf(toks, m, l, p, r, k) = {}
  <2> SUFFICES ASSUME SplitOf(toks, m, l, p, r, k) # {} PROVE FALSE
    OBVIOUS
  <2>1. k \in p + 1 .. r - 1 /\ Prec(toks[k]) = l
    BY DEF Splits
  <2>2. m[<<l, <<p, k - 1>>>>] # {}
    BY SplitIsIn
  <2>3. k - 1 \in 0 .. Len(toks) /\ l \in 0 .. 4 /\ k \in Nat /\ p \in Nat /\ p <= k /\ k \in p .. r
    BY <2>1
  <2>4. GoodPart(toks, l, p, k - 1)
    BY <2>2, <2>3, MeaningIsGood
  <2>5. Depth(toks, p, k - 1) = 0 /\ Prec(toks[k]) # -1
    BY <2>1, <2>4 DEF GoodPart
  <2>6. Depth(toks, p, k) = 0
    BY <2>3, <2>5, DepthAfter
  <2>7. Prec(toks[k]) >= l + 1
    BY <2>3, <2>5, <2>6 DEF NoneBelow
  <2> QED BY <2>1, <2>7
<1>2. /\ m[<<l + 1, <<p, r>>>>] \subseteq m[<<l, <<p, r>>>>]
      /\ \A x \in m[<<l, <<p, r>>>>] :
           x \in m[<<l + 1, <<p, r>>>>] \/ \E k \in Splits(toks, l, p, r) : x \in SplitOf(toks, m, l, p, r, k)
  BY MeaningBelow
<1> QED BY <1>1, <1>2

\* Nor do several levels.
LEMMA LowLevelsAddNothing ==
  ASSUME NEW toks, Len(toks) \in Nat, NEW m, Means(m, toks), NEW l \in 0 .. 4,
         NEW p \in 1 .. Len(toks) + 1, NEW r \in 0 .. Len(toks), NoneBelow(toks, l, p, r)
  PROVE  m[<<0, <<p, r>>>>] \subseteq m[<<l, <<p, r>>>>]
<1>1. \A j \in 0 .. 3 : j < l => m[<<j, <<p, r>>>>] \subseteq m[<<j + 1, <<p, r>>>>]
  <2> SUFFICES ASSUME NEW j \in 0 .. 3, j < l PROVE m[<<j, <<p, r>>>>] \subseteq m[<<j + 1, <<p, r>>>>]
    OBVIOUS
  <2>1. NoneBelow(toks, j + 1, p, r)
    <3>1. \A i : Prec(toks[i]) >= l => Prec(toks[i]) >= j + 1
      <4>1. \A i : Prec(toks[i]) \in Int
        BY PrecOfOp
      <4>2. \A x \in Int : x >= l => x >= j + 1
        OBVIOUS
      <4> QED BY <4>1, <4>2
    <3> QED BY <3>1 DEF NoneBelow
  <2> QED BY <2>1, LevelAddsNothing
<1> DEFINE at(j) == m[<<j, <<p, r>>>>]
<1>2. \A j \in 0 .. 3 : j < l => at(j) \subseteq at(j + 1)
  BY <1>1
<1> HIDE DEF at
<1>3. at(0) \subseteq at(l)
  <2>1. /\ 0 < l => at(0) \subseteq at(1)
        /\ 1 < l => at(1) \subseteq at(2)
        /\ 2 < l => at(2) \subseteq at(3)
        /\ 3 < l => at(3) \subseteq at(4)
    BY <1>2
  <2>2. l = 0 \/ l = 1 \/ l = 2 \/ l = 3 \/ l = 4
    OBVIOUS
  <2> QED BY <2>1, <2>2
<1> QED BY <1>3 DEF at

\* Meanings at a level are meanings.
LEMMA LevelsContain ==
  ASSUME NEW toks, Len(toks) \in Nat, NEW m, Means(m, toks), NEW l \in 0 .. 4,
         NEW p \in 1 .. Len(toks) + 1, NEW r \in 0 .. Len(toks)
  PROVE  m[<<l, <<p, r>>>>] \subseteq m[<<0, <<p, r>>>>]
<1> DEFINE at(j) == m[<<j, <<p, r>>>>]
<1>1. \A j \in 0 .. 3 : at(j + 1) \subseteq at(j)
  <2> SUFFICES ASSUME NEW j \in 0 .. 3 PROVE at(j + 1) \subseteq at(j)
    OBVIOUS
  <2>1. m[<<j + 1, <<p, r>>>>] \subseteq m[<<j, <<p, r>>>>]
    BY MeaningBelow
  <2> QED BY <2>1
<1> HIDE DEF at
<1>2. at(l) \subseteq at(0)
  <2>1. /\ at(1) \subseteq at(0)
        /\ at(2) \subseteq at(1)
        /\ at(3) \subseteq at(2)
        /\ at(4) \subseteq at(3)
    BY <1>1
  <2>2. l = 0 \/ l = 1 \/ l = 2 \/ l = 3 \/ l = 4
    OBVIOUS
  <2> QED BY <2>1, <2>2
<1> QED BY <1>2 DEF at

Evaluates(e, toks) ==
  \A p \in 1 .. Len(toks) + 1, r \in 0 .. Len(toks) : e[<<p, r>>] = EvalOf(toks, e, p, r)

\* eval's answer for a part is the one meaning of it.
Agrees(m, e, p, r) ==
  /\ e[<<p, r>>] \in {Refused, Trap} \/ e[<<p, r>>].kind = "value"
  /\ m[<<0, <<p, r>>>>] = {} => e[<<p, r>>] \in {Refused, Trap}
  /\ m[<<0, <<p, r>>>>] # {} => m[<<0, <<p, r>>>>] = {e[<<p, r>>]}
AgreesBelow(m, e, n, d) ==
  \A p \in 1 .. n + 1, r \in 0 .. n : r - p < d => Agrees(m, e, p, r)

\* Refusals and traps are not values.
LEMMA KindsDiffer == Refused.kind # "value" /\ Trap.kind # "value"
BY DEF Refused, Trap

\* An operator applied to two values yields a value, a refusal or a trap.
LEMMA ApplyKind ==
  ASSUME NEW op \in Ops, NEW a, NEW b
  PROVE  Apply(op, a, b) \in {Refused, Trap} \/ Apply(op, a, b).kind = "value"
<1>1. \A x : ValueOf(x).kind = "value"
  BY DEF ValueOf
<1>2. CASE op = "/"
  <2>1. \/ Apply(op, a, b) = Refused
        \/ Apply(op, a, b) = Trap
        \/ Apply(op, a, b) = ValueOf(QuotientOf(a, b))
    BY <1>2 DEF Apply
  <2> QED BY <1>1, <2>1
<1>3. CASE op \in {"+", "-", "*"}
  <2>1. \/ Apply(op, a, b) = ValueOf(ToInt(a + b))
        \/ Apply(op, a, b) = ValueOf(ToInt(a - b))
        \/ Apply(op, a, b) = ValueOf(ToInt(a * b))
    BY <1>3 DEF Apply
  <2> QED BY <1>1, <2>1
<1>4. CASE op \in {"==", "!=", "&&"}
  <2>1. \/ Apply(op, a, b) = ValueOf(Flag(a = b))
        \/ Apply(op, a, b) = ValueOf(Flag(a # b))
        \/ Apply(op, a, b) = ValueOf(Flag(a # 0 /\ b # 0))
    BY <1>4 DEF Apply
  <2> QED BY <1>1, <2>1
<1> QED BY <1>2, <1>3, <1>4 DEF Ops

\* So do two answers combined; for neither to stop eval, both are values.
LEMMA CombineKind ==
  ASSUME NEW op \in Ops, NEW x, NEW y,
         x \in {Refused, Trap} \/ x.kind = "value", y \in {Refused, Trap} \/ y.kind = "value"
  PROVE  /\ Combine(op, x, y) \in {Refused, Trap} \/ Combine(op, x, y).kind = "value"
         /\ Combine(op, x, y) \notin {Refused, Trap} => x \notin {Refused, Trap} /\ y \notin {Refused, Trap}
<1>1. CASE x.kind # "value"
  <2>1. Combine(op, x, y) = x
    BY <1>1 DEF Combine
  <2> QED BY <1>1, <2>1
<1>2. CASE x.kind = "value" /\ y.kind # "value"
  <2>1. Combine(op, x, y) = y
    BY <1>2 DEF Combine
  <2> QED BY <1>2, <2>1
<1>3. CASE x.kind = "value" /\ y.kind = "value"
  <2>1. Combine(op, x, y) = Apply(op, x.val, y.val)
    BY <1>3 DEF Combine
  <2>2. Apply(op, x.val, y.val) \in {Refused, Trap} \/ Apply(op, x.val, y.val).kind = "value"
    BY ApplyKind
  <2>3. x \notin {Refused, Trap} /\ y \notin {Refused, Trap}
    BY <1>3, KindsDiffer
  <2> QED BY <2>1, <2>2, <2>3
<1> QED BY <1>1, <1>2, <1>3

\* The context of a part.
Context(toks, m, e, p, r) ==
  /\ Len(toks) \in Nat /\ Means(m, toks) /\ Evaluates(e, toks)
  /\ p \in 1 .. Len(toks) + 1 /\ r \in 0 .. Len(toks)
  /\ AgreesBelow(m, e, Len(toks), r - p)

\* Nothing between p and r: refused, and without a meaning.
LEMMA AgreesOnNothing ==
  ASSUME NEW toks, NEW m, NEW e, NEW p, NEW r, Context(toks, m, e, p, r), p > r
  PROVE  Agrees(m, e, p, r)
<1>1. e[<<p, r>>] = Refused
  BY DEF Context, Evaluates, EvalOf
<1>2. m[<<0, <<p, r>>>>] = {}
  <2> SUFFICES ASSUME m[<<0, <<p, r>>>>] # {} PROVE FALSE
    OBVIOUS
  <2>1. GoodPart(toks, 0, p, r)
    <3>1. /\ Len(toks) \in Nat /\ Means(m, toks) /\ 0 \in 0 .. 4
          /\ p \in 1 .. Len(toks) + 1 /\ r \in 0 .. Len(toks)
      BY DEF Context
    <3> QED BY <3>1, MeaningIsGood
  <2>2. p \in Int /\ r \in Int
    BY DEF Context
  <2> QED BY <2>1, <2>2 DEF GoodPart
<1> QED BY <1>1, <1>2 DEF Agrees

\* With no split, a part means what its operand or its parentheses mean.
LEMMA OnlyTheTop ==
  ASSUME NEW toks, Len(toks) \in Nat, NEW m, Means(m, toks),
         NEW p \in 1 .. Len(toks) + 1, NEW r \in 0 .. Len(toks),
         \A l \in 0 .. 3 : \A k \in Splits(toks, l, p, r) : SplitOf(toks, m, l, p, r, k) = {}
  PROVE  m[<<0, <<p, r>>>>] = m[<<4, <<p, r>>>>]
<1> DEFINE at(l) == m[<<l, <<p, r>>>>]
<1>1. ASSUME NEW l \in 0 .. 3 PROVE at(l) \subseteq at(l + 1)
  <2>1. \A x \in m[<<l, <<p, r>>>>] :
          x \in m[<<l + 1, <<p, r>>>>] \/ \E k \in Splits(toks, l, p, r) : x \in SplitOf(toks, m, l, p, r, k)
    BY MeaningBelow
  <2> QED BY <2>1
<1>2. at(4) \subseteq at(0)
  <2>1. 4 \in 0 .. 4
    OBVIOUS
  <2> QED BY <2>1, LevelsContain
<1> HIDE DEF at
<1>3. at(0) \subseteq at(1) /\ at(1) \subseteq at(2) /\ at(2) \subseteq at(3) /\ at(3) \subseteq at(4)
  BY <1>1
<1>4. at(0) = at(4)
  BY <1>2, <1>3
<1> QED BY <1>4 DEF at

\* One token: an operand has its value, anything else is refused.
LEMMA AgreesOnOperand ==
  ASSUME NEW toks, NEW m, NEW e, NEW p, NEW r, Context(toks, m, e, p, r), p = r
  PROVE  Agrees(m, e, p, r)
<1>1. e[<<p, r>>] = Operand(toks[p])
  <2>1. ~ (p > r)
    BY DEF Context
  <2> QED BY <2>1 DEF Context, Evaluates, EvalOf
<1>2. Operand(toks[p]) \in {Refused, Trap} \/ Operand(toks[p]).kind = "value"
  BY DEF Operand, ValueOf
<1>3. /\ Len(toks) \in Nat /\ Means(m, toks)
      /\ p \in 1 .. Len(toks) + 1 /\ r \in 0 .. Len(toks)
  BY DEF Context
<1>4. m[<<4, <<p, r>>>>] = IF toks[p] \notin {"(", ")"} /\ Prec(toks[p]) = -1 THEN {Operand(toks[p])} ELSE {}
  BY <1>3, MeaningAtTop
<1>5. m[<<0, <<p, r>>>>] = m[<<4, <<p, r>>>>]
  <2>1. \A l \in 0 .. 3 : Splits(toks, l, p, r) = {}
    BY <1>3 DEF Splits
  <2> QED BY <1>3, <2>1, OnlyTheTop
<1>6. CASE toks[p] \notin {"(", ")"} /\ Prec(toks[p]) = -1
  BY <1>1, <1>2, <1>4, <1>5, <1>6 DEF Agrees
<1>7. CASE ~ (toks[p] \notin {"(", ")"} /\ Prec(toks[p]) = -1)
  <2>1. Operand(toks[p]) = Refused
    BY <1>7, LexerAssumption DEF Operand
  <2> QED BY <1>1, <1>4, <1>5, <1>7, <2>1 DEF Agrees
<1> QED BY <1>6, <1>7

\* Matching parentheses around the part: no operator in it is outside them.
LEMMA AgreesOnParentheses ==
  ASSUME NEW toks, NEW m, NEW e, NEW p, NEW r, Context(toks, m, e, p, r), p < r,
         CheckParentheses(toks, p, r)
  PROVE  Agrees(m, e, p, r)
<1>1. /\ Len(toks) \in Nat /\ Means(m, toks)
      /\ p \in 1 .. Len(toks) + 1 /\ r \in 0 .. Len(toks)
  BY DEF Context
<1>2. p + 1 \in 1 .. Len(toks) + 1 /\ r - 1 \in 0 .. Len(toks) /\ (r - 1) - (p + 1) < r - p
  BY <1>1
<1>3. Agrees(m, e, p + 1, r - 1)
  BY <1>2 DEF Context, AgreesBelow
<1>4. e[<<p, r>>] = e[<<p + 1, r - 1>>]
  <2>1. ~ (p > r) /\ p # r
    BY <1>1
  <2>2. e[<<p, r>>] = EvalOf(toks, e, p, r)
    BY DEF Context, Evaluates
  <2> QED BY <2>1, <2>2 DEF EvalOf
<1>5. m[<<0, <<p, r>>>>] = m[<<4, <<p, r>>>>]
  <2>1. ASSUME NEW l \in 0 .. 3, NEW k \in Splits(toks, l, p, r)
        PROVE  SplitOf(toks, m, l, p, r, k) = {}
    <3> SUFFICES ASSUME SplitOf(toks, m, l, p, r, k) # {} PROVE FALSE
      OBVIOUS
    <3>1. m[<<l, <<p, k - 1>>>>] # {}
      BY SplitIsIn
    <3>2. k - 1 \in 0 .. Len(toks) /\ k - 1 \in p .. r - 1 /\ l \in 0 .. 4
      BY <1>1 DEF Splits
    <3>3. GoodPart(toks, l, p, k - 1)
      BY <1>1, <3>1, <3>2, MeaningIsGood
    <3> QED BY <3>2, <3>3 DEF GoodPart, CheckParentheses
  <2> QED BY <1>1, <2>1, OnlyTheTop
<1>6. m[<<4, <<p, r>>>>] = IF r > p + 1 THEN m[<<0, <<p + 1, r - 1>>>>] ELSE {}
  <2>1. p # r
    BY <1>1
  <2>2. m[<<4, <<p, r>>>>] = IF r > p + 1 /\ toks[p] = "(" /\ toks[r] = ")" THEN m[<<0, <<p + 1, r - 1>>>>] ELSE {}
    BY <1>1, <2>1, MeaningAtTop
  <2> QED BY <2>2 DEF CheckParentheses
<1>7. CASE r > p + 1
  BY <1>3, <1>4, <1>5, <1>6, <1>7 DEF Agrees
<1>8. CASE ~ (r > p + 1)
  <2>1. e[<<p + 1, r - 1>>] = Refused
    <3>1. p + 1 > r - 1
      BY <1>1, <1>8
    <3>2. e[<<p + 1, r - 1>>] = EvalOf(toks, e, p + 1, r - 1)
      BY <1>2 DEF Context, Evaluates
    <3> QED BY <3>1, <3>2 DEF EvalOf
  <2> QED BY <1>4, <1>5, <1>6, <1>8, <2>1 DEF Agrees
<1> QED BY <1>7, <1>8

\* No operator outside parentheses, nor parentheses around it: no meaning.
LEMMA AgreesWithoutOperator ==
  ASSUME NEW toks, NEW m, NEW e, NEW p, NEW r, Context(toks, m, e, p, r), p < r,
         ~ CheckParentheses(toks, p, r), Candidates(toks, p, r) = {}
  PROVE  Agrees(m, e, p, r)
<1>1. /\ Len(toks) \in Nat /\ Means(m, toks)
      /\ p \in 1 .. Len(toks) + 1 /\ r \in 0 .. Len(toks)
  BY DEF Context
<1>2. e[<<p, r>>] = Refused
  <2>1. ~ (p > r) /\ p # r
    BY <1>1
  <2>2. e[<<p, r>>] = EvalOf(toks, e, p, r)
    BY DEF Context, Evaluates
  <2> QED BY <2>1, <2>2 DEF EvalOf
<1>3. NoneBelow(toks, 4, p, r)
  <2>1. \A i \in p .. r : Prec(toks[i]) # -1 => ~ (Depth(toks, p, i) <= 0)
    BY DEF Candidates
  <2> QED BY <2>1 DEF NoneBelow
<1>4. m[<<0, <<p, r>>>>] \subseteq m[<<4, <<p, r>>>>]
  <2>1. 4 \in 0 .. 4
    OBVIOUS
  <2> QED BY <1>1, <1>3, <2>1, LowLevelsAddNothing
<1>5. m[<<4, <<p, r>>>>] = {}
  <2> SUFFICES ASSUME m[<<4, <<p, r>>>>] # {} PROVE FALSE
    OBVIOUS
  <2>1. p # r
    BY <1>1
  <2>2. r > p + 1 /\ toks[p] = "(" /\ toks[r] = ")" /\ m[<<0, <<p + 1, r - 1>>>>] # {}
    BY <1>1, <2>1, MeaningAtTop
  <2>3. p + 1 \in 1 .. Len(toks) + 1 /\ r - 1 \in 0 .. Len(toks) /\ 0 \in 0 .. 4 /\ p \in Nat /\ r \in Nat
    BY <1>1, <2>2
  <2>4. GoodPart(toks, 0, p + 1, r - 1)
    BY <1>1, <2>2, <2>3, MeaningIsGood
  <2> QED BY <2>2, <2>3, <2>4, GoodParentheses
<1> QED BY <1>2, <1>4, <1>5 DEF Agrees

\* The operator eval splits a part at.
LastLowest(toks, p, r, k) ==
  /\ k \in p .. r /\ Prec(toks[k]) \in 0 .. 3 /\ toks[k] \in Ops /\ Depth(toks, p, k) <= 0
  /\ \A j \in p .. r : Prec(toks[j]) # -1 /\ Depth(toks, p, j) <= 0 =>
       Prec(toks[k]) <= Prec(toks[j]) /\ (Prec(toks[k]) = Prec(toks[j]) => k >= j)

\* It is the one the loop of eval ends with.
LEMMA SplitAtLastLowest ==
  ASSUME NEW toks, NEW p \in Nat, NEW r \in Nat, Candidates(toks, p, r) # {}
  PROVE  LastLowest(toks, p, r, SplitAt(toks, p, r))
<1> DEFINE k == SplitAt(toks, p, r)
<1>1. k \in Candidates(toks, p, r) /\ k \in p .. r
  BY SplitIs
<1>2. \A j \in Candidates(toks, p, r) :
        Prec(toks[k]) <= Prec(toks[j]) /\ (Prec(toks[k]) = Prec(toks[j]) => k >= j)
  BY SplitIs
<1> HIDE DEF k
<1>3. Prec(toks[k]) # -1 /\ Depth(toks, p, k) <= 0
  BY <1>1 DEF Candidates
<1>4. Prec(toks[k]) \in 0 .. 3 /\ toks[k] \in Ops
  <2>1. Prec(toks[k]) \in -1 .. 3 /\ toks[k] \in Ops
    BY <1>3, PrecOfOp
  <2> QED BY <1>3, <2>1
<1>5. LastLowest(toks, p, r, k)
  BY <1>1, <1>2, <1>3, <1>4 DEF LastLowest, Candidates
<1> QED BY <1>5 DEF k

\* Where a part has a meaning, only the split at k gives it one.
LEMMA OnlyThatSplit ==
  ASSUME NEW toks, Len(toks) \in Nat, NEW m, Means(m, toks),
         NEW p \in 1 .. Len(toks) + 1, NEW r \in 0 .. Len(toks),
         NEW k, LastLowest(toks, p, r, k), NEW l \in 0 .. 3, l = Prec(toks[k]),
         m[<<0, <<p, r>>>>] # {}
  PROVE  /\ k \in Splits(toks, l, p, r)
         /\ m[<<0, <<p, r>>>>] = SplitOf(toks, m, l, p, r, k)
<1>1. k \in p .. r /\ k \in Nat /\ p \in Nat /\ Prec(toks[k]) # -1 /\ l \in 0 .. 4 /\ l + 1 \in 0 .. 4
  BY DEF LastLowest
<1>2. GoodPart(toks, 0, p, r)
  <2>1. 0 \in 0 .. 4
    OBVIOUS
  <2> QED BY <2>1, MeaningIsGood
<1>3. NoneBelow(toks, l, p, r)
  <2> SUFFICES ASSUME NEW i \in p .. r, Prec(toks[i]) # -1, Depth(toks, p, i) = 0
               PROVE  Prec(toks[i]) >= l
    BY DEF NoneBelow
  <2>1. Prec(toks[k]) <= Prec(toks[i])
    BY DEF LastLowest
  <2>2. Prec(toks[i]) \in Int
    BY PrecOfOp
  <2> QED BY <2>1, <2>2
<1>4. m[<<0, <<p, r>>>>] = m[<<l, <<p, r>>>>]
  <2>1. m[<<0, <<p, r>>>>] \subseteq m[<<l, <<p, r>>>>]
    BY <1>1, <1>3, LowLevelsAddNothing
  <2>2. m[<<l, <<p, r>>>>] \subseteq m[<<0, <<p, r>>>>]
    BY <1>1, LevelsContain
  <2> QED BY <2>1, <2>2
<1>5. Depth(toks, p, k) = 0
  <2>1. Depth(toks, p, k) >= 0 /\ Depth(toks, p, k) <= 0
    BY <1>1, <1>2 DEF GoodPart, LastLowest
  <2>2. Depth(toks, p, k) \in Int
    <3>1. k \in Int /\ p <= k + 1
      BY <1>1
    <3> QED BY <1>1, <3>1, DepthInt
  <2> QED BY <2>1, <2>2
<1>6. m[<<l + 1, <<p, r>>>>] = {}
  <2> SUFFICES ASSUME m[<<l + 1, <<p, r>>>>] # {} PROVE FALSE
    OBVIOUS
  <2>1. GoodPart(toks, l + 1, p, r)
    BY <1>1, MeaningIsGood
  <2>2. Prec(toks[k]) >= l + 1
    BY <1>1, <1>5, <2>1 DEF GoodPart
  <2> QED BY <2>2
<1>7. ASSUME NEW j \in Splits(toks, l, p, r), SplitOf(toks, m, l, p, r, j) # {}
      PROVE  j = k
  <2>1. j \in p + 1 .. r - 1 /\ Prec(toks[j]) = l
    BY DEF Splits
  <2>2. m[<<l, <<p, j - 1>>>>] # {} /\ m[<<l + 1, <<j + 1, r>>>>] # {}
    BY <1>7, SplitIsIn
  <2>3. /\ j - 1 \in 0 .. Len(toks) /\ j + 1 \in 1 .. Len(toks) + 1
        /\ j \in p .. r /\ j \in Nat /\ p <= j /\ Prec(toks[j]) # -1
    BY <2>1
  <2>4. GoodPart(toks, l, p, j - 1)
    BY <1>1, <2>2, <2>3, MeaningIsGood
  <2>5. GoodPart(toks, l + 1, j + 1, r)
    BY <1>1, <2>2, <2>3, MeaningIsGood
  <2>6. Depth(toks, p, j - 1) = 0
    BY <2>4 DEF GoodPart
  <2>7. /\ Depth(toks, p, j) = 0
        /\ \A i \in Int : i > j => Depth(toks, p, i) = Depth(toks, j + 1, i)
    BY <1>1, <2>3, <2>6, DepthAfter
  <2>8. k >= j
    BY <2>1, <2>3, <2>7 DEF LastLowest
  <2>9. CASE k > j
    <3>1. k \in j + 1 .. r /\ Depth(toks, j + 1, k) = 0
      BY <1>1, <1>5, <2>3, <2>7, <2>9
    <3>2. Prec(toks[k]) >= l + 1
      BY <1>1, <2>5, <3>1 DEF GoodPart
    <3> QED BY <3>2
  <2> QED BY <1>1, <2>3, <2>8, <2>9
<1>8. PICK x : x \in m[<<l, <<p, r>>>>]
  BY <1>4
<1>9. /\ \A y \in m[<<l, <<p, r>>>>] :
           y \in m[<<l + 1, <<p, r>>>>] \/ \E j \in Splits(toks, l, p, r) : y \in SplitOf(toks, m, l, p, r, j)
      /\ \A j \in Splits(toks, l, p, r) : SplitOf(toks, m, l, p, r, j) \subseteq m[<<l, <<p, r>>>>]
  BY MeaningBelow
<1>10. k \in Splits(toks, l, p, r)
  BY <1>6, <1>7, <1>8, <1>9
<1>11. m[<<l, <<p, r>>>>] \subseteq SplitOf(toks, m, l, p, r, k)
  BY <1>6, <1>7, <1>9
<1>12. SplitOf(toks, m, l, p, r, k) \subseteq m[<<l, <<p, r>>>>]
  BY <1>9, <1>10
<1> QED BY <1>4, <1>10, <1>11, <1>12

\* Where both sides of it have one, so has the part.
LEMMA ThatSplit ==
  ASSUME NEW toks, Len(toks) \in Nat, NEW m, Means(m, toks),
         NEW p \in 1 .. Len(toks) + 1, NEW r \in 0 .. Len(toks),
         NEW k, LastLowest(toks, p, r, k), p <= k - 1, k + 1 <= r,
         m[<<0, <<p, k - 1>>>>] # {}, m[<<0, <<k + 1, r>>>>] # {}
  PROVE  m[<<0, <<p, r>>>>] # {}
<1> DEFINE l == Prec(toks[k])
<1>1. /\ k \in p .. r /\ k \in Nat /\ p \in Nat /\ p <= k /\ l # -1
      /\ l \in 0 .. 3 /\ l \in 0 .. 4 /\ l + 1 \in 0 .. 4 /\ 0 \in 0 .. 4
      /\ k - 1 \in 0 .. Len(toks) /\ k + 1 \in 1 .. Len(toks) + 1
  BY DEF LastLowest
<1>2. k \in Splits(toks, l, p, r)
  BY <1>1 DEF Splits
<1>3. Depth(toks, p, k - 1) = 0
  <2>1. GoodPart(toks, 0, p, k - 1)
    BY <1>1, MeaningIsGood
  <2> QED BY <2>1 DEF GoodPart
<1>4. \A i \in Int : i > k => Depth(toks, p, i) = Depth(toks, k + 1, i)
  BY <1>1, <1>3, DepthAfter
<1>5. \A i : Prec(toks[i]) \in Int
  BY PrecOfOp
<1>6. NoneBelow(toks, l, p, k - 1)
  <2> SUFFICES ASSUME NEW i \in p .. k - 1, Prec(toks[i]) # -1, Depth(toks, p, i) = 0
               PROVE  Prec(toks[i]) >= l
    BY DEF NoneBelow
  <2>1. i \in p .. r
    BY <1>1
  <2>2. l <= Prec(toks[i])
    BY <2>1 DEF LastLowest
  <2> QED BY <1>1, <1>5, <2>2
<1>7. NoneBelow(toks, l + 1, k + 1, r)
  <2> SUFFICES ASSUME NEW i \in k + 1 .. r, Prec(toks[i]) # -1, Depth(toks, k + 1, i) = 0
               PROVE  Prec(toks[i]) >= l + 1
    BY DEF NoneBelow
  <2>1. i \in p .. r /\ i \in Int /\ i > k
    BY <1>1
  <2>2. Depth(toks, p, i) = 0
    BY <1>4, <2>1
  <2>3. l <= Prec(toks[i]) /\ l # Prec(toks[i])
    BY <1>1, <2>1, <2>2 DEF LastLowest
  <2> QED BY <1>1, <1>5, <2>3
<1> HIDE DEF l
<1>8. m[<<l, <<p, k - 1>>>>] # {}
  <2>1. m[<<0, <<p, k - 1>>>>] \subseteq m[<<l, <<p, k - 1>>>>]
    BY <1>1, <1>6, LowLevelsAddNothing
  <2> QED BY <2>1
<1>9. m[<<l + 1, <<k + 1, r>>>>] # {}
  <2>1. m[<<0, <<k + 1, r>>>>] \subseteq m[<<l + 1, <<k + 1, r>>>>]
    BY <1>1, <1>7, LowLevelsAddNothing
  <2> QED BY <2>1
<1>10. SplitOf(toks, m, l, p, r, k) # {}
  <2>1. \A X, Y : X # {} /\ Y # {} => CombineAll(toks[k], X, Y) # {}
    <3> SUFFICES ASSUME NEW X, NEW Y, X # {}, Y # {} PROVE CombineAll(toks[k], X, Y) # {}
      OBVIOUS
    <3>1. PICK x \in X, y \in Y : TRUE
      OBVIOUS
    <3>2. Combine(toks[k], x, y) \in CombineAll(toks[k], X, Y)
      BY DEF CombineAll
    <3> QED BY <3>2
  <2> QED BY <1>8, <1>9, <2>1 DEF SplitOf
<1>11. SplitOf(toks, m, l, p, r, k) \subseteq m[<<l, <<p, r>>>>]
  BY <1>1, <1>2, MeaningBelow
<1>12. m[<<l, <<p, r>>>>] \subseteq m[<<0, <<p, r>>>>]
  BY <1>1, LevelsContain
<1> QED BY <1>10, <1>11, <1>12

\* An operator: the one meaning combines the answers for its sides.
LEMMA AgreesOnSplit ==
  ASSUME NEW toks, NEW m, NEW e, NEW p, NEW r, Context(toks, m, e, p, r), p < r,
         ~ CheckParentheses(toks, p, r), Candidates(toks, p, r) # {}
  PROVE  Agrees(m, e, p, r)
<1> DEFINE k == SplitAt(toks, p, r)
           l == Prec(toks[k])
           x == e[<<p, k - 1>>]
           y == e[<<k + 1, r>>]
<1>1. /\ Len(toks) \in Nat /\ Means(m, toks)
      /\ p \in 1 .. Len(toks) + 1 /\ r \in 0 .. Len(toks) /\ p \in Nat /\ r \in Nat
  BY DEF Context
<1>2. e[<<p, r>>] = Combine(toks[k], x, y)
  <2>1. ~ (p > r) /\ p # r
    BY <1>1
  <2>2. e[<<p, r>>] = EvalOf(toks, e, p, r)
    BY DEF Context, Evaluates
  <2> QED BY <2>1, <2>2 DEF EvalOf
<1>3. LastLowest(toks, p, r, k)
  BY <1>1, SplitAtLastLowest
<1> HIDE DEF k
<1>4. k \in p .. r /\ l \in 0 .. 3 /\ toks[k] \in Ops /\ l \in 0 .. 4 /\ l + 1 \in 0 .. 4 /\ 0 \in 0 .. 4
  BY <1>3 DEF LastLowest
<1>5. /\ k - 1 \in 0 .. Len(toks) /\ (k - 1) - p < r - p
      /\ k + 1 \in 1 .. Len(toks) + 1 /\ r - (k + 1) < r - p
  BY <1>1, <1>4
<1>6. Agrees(m, e, p, k - 1) /\ Agrees(m, e, k + 1, r)
  BY <1>1, <1>5 DEF Context, AgreesBelow
<1>7. /\ x \in {Refused, Trap} \/ x.kind = "value"
      /\ y \in {Refused, Trap} \/ y.kind = "value"
      /\ m[<<0, <<p, k - 1>>>>] = {} => x \in {Refused, Trap}
      /\ m[<<0, <<k + 1, r>>>>] = {} => y \in {Refused, Trap}
  BY <1>6 DEF Agrees
<1>8. /\ Combine(toks[k], x, y) \in {Refused, Trap} \/ Combine(toks[k], x, y).kind = "value"
      /\ Combine(toks[k], x, y) \notin {Refused, Trap} => x \notin {Refused, Trap} /\ y \notin {Refused, Trap}
  <2> HIDE DEF x, y
  <2> QED BY <1>4, <1>7, CombineKind
<1>9. ASSUME m[<<0, <<p, r>>>>] = {} PROVE Combine(toks[k], x, y) \in {Refused, Trap}
  <2> SUFFICES ASSUME Combine(toks[k], x, y) \notin {Refused, Trap} PROVE FALSE
    OBVIOUS
  <2>1. m[<<0, <<p, k - 1>>>>] # {} /\ m[<<0, <<k + 1, r>>>>] # {}
    BY <1>7, <1>8
  <2>2. p <= k - 1 /\ k + 1 <= r
    <3>1. GoodPart(toks, 0, p, k - 1)
      BY <1>1, <1>4, <1>5, <2>1, MeaningIsGood
    <3>2. GoodPart(toks, 0, k + 1, r)
      BY <1>1, <1>4, <1>5, <2>1, MeaningIsGood
    <3> QED BY <3>1, <3>2 DEF GoodPart
  <2>3. m[<<0, <<p, r>>>>] # {}
    BY <1>1, <1>3, <2>1, <2>2, ThatSplit
  <2> QED BY <1>9, <2>3
<1>10. ASSUME m[<<0, <<p, r>>>>] # {} PROVE m[<<0, <<p, r>>>>] = {Combine(toks[k], x, y)}
  <2>1. m[<<0, <<p, r>>>>] = SplitOf(toks, m, l, p, r, k)
    BY <1>1, <1>3, <1>4, <1>10, OnlyThatSplit
  <2>2. m[<<l, <<p, k - 1>>>>] # {} /\ m[<<l + 1, <<k + 1, r>>>>] # {}
    BY <1>10, <2>1, SplitIsIn
  <2>3. m[<<l, <<p, k - 1>>>>] \subseteq m[<<0, <<p, k - 1>>>>]
    BY <1>1, <1>4, <1>5, LevelsContain
  <2>4. m[<<l + 1, <<k + 1, r>>>>] \subseteq m[<<0, <<k + 1, r>>>>]
    BY <1>1, <1>4, <1>5, LevelsContain
  <2>5. m[<<0, <<p, k - 1>>>>] = {x} /\ m[<<0, <<k + 1, r>>>>] = {y}
    BY <1>6, <2>2, <2>3, <2>4 DEF Agrees
  <2>6. m[<<l, <<p, k - 1>>>>] = {x} /\ m[<<l + 1, <<k + 1, r>>>>] = {y}
    BY <2>2, <2>3, <2>4, <2>5
  <2>7. SplitOf(toks, m, l, p, r, k) = {Combine(toks[k], x, y)}
    <3> DEFINE X == m[<<l, <<p, k - 1>>>>]
               Y == m[<<l + 1, <<k + 1, r>>>>]
    <3>1. SplitOf(toks, m, l, p, r, k) = CombineAll(toks[k], X, Y)
      BY DEF SplitOf
    <3>2. X = {x} /\ Y = {y}
      BY <2>6
    <3> HIDE DEF X, Y, x, y
    <3>3. CombineAll(toks[k], X, Y) = {Combine(toks[k], x, y)}
      BY <3>2 DEF CombineAll
    <3> QED BY <3>1, <3>3
  <2> QED BY <2>1, <2>7
<1> HIDE DEF x, y
<1> QED BY <1>2, <1>8, <1>9, <1>10 DEF Agrees

\* The branches of eval together.
LEMMA AgreesStep ==
  ASSUME NEW toks, NEW m, NEW e, NEW p, NEW r, Context(toks, m, e, p, r)
  PROVE  Agrees(m, e, p, r)
<1>1. p \in Int /\ r \in Int
  BY DEF Context
<1>2. CASE p > r
  BY <1>2, AgreesOnNothing
<1>3. CASE p = r
  BY <1>3, AgreesOnOperand
<1>4. CASE p < r
  BY <1>4, AgreesOnParentheses, AgreesWithoutOperator, AgreesOnSplit
<1> QED BY <1>1, <1>2, <1>3, <1>4

\* By induction on the length of the part.
LEMMA EvalAgrees ==
  ASSUME NEW toks, Len(toks) \in Nat, NEW m, Means(m, toks), NEW e, Evaluates(e, toks)
  PROVE  Agrees(m, e, 1, Len(toks))
<1> DEFINE n == Len(toks)
           S == {d \in Nat : AgreesBelow(m, e, n, d - n - 1)}
<1>1. n \in Nat /\ S \in SUBSET Nat
  OBVIOUS
<1>2. 0 \in S
  <2>1. \A p \in 1 .. n + 1, r \in 0 .. n : ~ (r - p < 0 - n - 1)
    BY <1>1
  <2> QED BY <2>1 DEF AgreesBelow
<1>3. ASSUME NEW d \in Nat, d - 1 \in S PROVE d \in S
  <2>1. AgreesBelow(m, e, n, (d - 1) - n - 1)
    BY <1>3
  <2>2. ASSUME NEW p \in 1 .. n + 1, NEW r \in 0 .. n, r - p < d - n - 1
        PROVE  Agrees(m, e, p, r)
    <3>1. \A a \in 1 .. n + 1, b \in 0 .. n : b - a < r - p => b - a < (d - 1) - n - 1
      BY <1>1, <2>2
    <3>2. AgreesBelow(m, e, n, r - p)
      BY <2>1, <3>1 DEF AgreesBelow
    <3>3. Context(toks, m, e, p, r)
      BY <3>2 DEF Context
    <3> QED BY <3>3, AgreesStep
  <2> QED BY <2>2 DEF AgreesBelow
<1>4. 2 * n + 2 \in S
  <2> DEFINE N == 2 * n + 2
  <2>1. N \in Nat
    BY <1>1
  <2> HIDE DEF S
  <2>2. \A d \in 1 .. N : d - 1 \in S => d \in S
    BY <1>3
  <2> HIDE DEF N
  <2>3. 0 .. N \subseteq S
    BY <1>1, <1>2, <2>1, <2>2, ByCounting
  <2>4. N \in S
    BY <2>1, <2>3
  <2> QED BY <2>4 DEF N
<1>5. AgreesBelow(m, e, n, (2 * n + 2) - n - 1)
  BY <1>4
<1>6. 1 \in 1 .. n + 1 /\ n \in 0 .. n /\ n - 1 < (2 * n + 2) - n - 1
  BY <1>1
<1> QED BY <1>5, <1>6 DEF AgreesBelow

\* What eval answers for a line.
LEMMA EvalIsAsC ==
  ASSUME NEW toks, Len(toks) \in Nat
  PROVE  IF Meanings(toks) = {} THEN Eval(toks) \in {Refused, Trap} ELSE Meanings(toks) = {Eval(toks)}
<1>1. PICK m : Meanings(toks) = m[<<0, <<1, Len(toks)>>>>] /\ Means(m, toks)
  BY MeaningIs DEF Means
<1>2. PICK e : Eval(toks) = e[<<1, Len(toks)>>] /\ Evaluates(e, toks)
  BY EvalIs DEF Evaluates
<1>3. Agrees(m, e, 1, Len(toks))
  BY <1>1, <1>2, EvalAgrees
<1> QED BY <1>1, <1>2, <1>3 DEF Agrees

\* The answer is to the line that is there.
SdbInv == tokens \in Seq(keyboard[1]) /\ answer \in {NoAnswer, Expr(tokens)}

\* Then it is the answer C gives.
LEMMA SdbInvAnswers == SdbInv => AnswersAsC
<1> SUFFICES ASSUME SdbInv, answer # NoAnswer
             PROVE  IF Len(tokens) > NrToken THEN answer = Refused
                    ELSE IF Meanings(tokens) = {} THEN answer \in {Refused, Trap}
                    ELSE Meanings(tokens) = {answer}
  BY DEF AnswersAsC
<1>1. Len(tokens) \in Nat /\ answer = Expr(tokens)
  BY DEF SdbInv
<1>2. CASE Len(tokens) > NrToken
  BY <1>1, <1>2 DEF Expr
<1>3. CASE ~ (Len(tokens) > NrToken)
  <2>1. answer = Eval(tokens)
    BY <1>1, <1>3 DEF Expr
  <2>2. IF Meanings(tokens) = {} THEN Eval(tokens) \in {Refused, Trap} ELSE Meanings(tokens) = {Eval(tokens)}
    BY <1>1, EvalIsAsC
  <2> QED BY <1>3, <2>1, <2>2
<1> QED BY <1>2, <1>3

\* Every command keeps it.
LEMMA SdbInvStep == SdbInv /\ [SdbNext]_sdbVars => SdbInv'
<1> SUFFICES ASSUME SdbInv, [SdbNext]_sdbVars PROVE SdbInv'
  OBVIOUS
<1>1. CASE TypeToken
  <2>1. PICK t \in keyboard[1] : tokens' = Append(tokens, t)
    BY <1>1 DEF TypeToken
  <2>2. tokens' \in Seq(keyboard[1])
    BY <2>1 DEF SdbInv
  <2> QED BY <1>1, <2>2 DEF TypeToken, SdbInv
<1>2. CASE CmdP
  BY <1>2 DEF CmdP, SdbInv
<1>3. CASE NextPrompt
  BY <1>3 DEF NextPrompt, SdbInv
<1>4. CASE UNCHANGED sdbVars
  BY <1>4 DEF sdbVars, SdbInv
<1> QED BY <1>1, <1>2, <1>3, <1>4 DEF SdbNext

\* Command p answers as the C compiler would, for any numerals and registers,
\* ints of any width, and lines of any length.
THEOREM ExpressionsAreC == SdbSpec => []AnswersAsC
<1>1. SdbInit => SdbInv
  BY DEF SdbInit, SdbInv
<1> QED BY <1>1, SdbInvStep, SdbInvAnswers, PTL DEF SdbSpec

-----------------------------------------------------------------------------
(***************************************************************************)
(* The datapath.  Lane by lane, the core's word-wide loads and stores are  *)
(* NEMU's byte-wise ones; bit by bit, its immediates are; and each class   *)
(* of instructions takes the core and the interpreter to the same outcome. *)
(* Division is held to what C says of a quotient and a remainder.          *)
(***************************************************************************)
\* f doubles from 1 on: the function Base2 defines, up to n.
Doubles(f, n) == f = [k \in 0 .. n |-> IF k = 0 THEN 1 ELSE 2 * f[k - 1]]

\* The powers of two are well defined.
LEMMA DoublesExists ==
  ASSUME NEW n \in Nat PROVE \E f : Doubles(f, n)
<1> DEFINE S == {m \in Nat : \E f : Doubles(f, m)}
<1>1. 0 \in S
  <2>1. Doubles([k \in 0 .. 0 |-> 1], 0)
    BY DEF Doubles
  <2> QED BY <2>1
<1>2. ASSUME NEW m \in 1 .. n, m - 1 \in S PROVE m \in S
  <2>1. PICK g : Doubles(g, m - 1)
    BY <1>2
  <2> DEFINE f == [k \in 0 .. m |-> IF k = m THEN 2 * g[m - 1] ELSE g[k]]
  <2>2. \A k \in 0 .. m - 1 : g[k] = IF k = 0 THEN 1 ELSE 2 * g[k - 1]
    BY <2>1 DEF Doubles
  <2>3. \A k \in 0 .. m - 1 : f[k] = g[k]
    OBVIOUS
  <2>4. f[m] = 2 * f[m - 1]
    BY <2>3
  <2>5. ASSUME NEW k \in 0 .. m
        PROVE  f[k] = IF k = 0 THEN 1 ELSE 2 * f[k - 1]
    <3>1. CASE k = m
      BY <2>4, <3>1
    <3>2. CASE k # m /\ k # 0
      <4>1. k \in 0 .. m - 1 /\ k - 1 \in 0 .. m - 1
        BY <3>2
      <4> QED BY <2>2, <2>3, <3>2, <4>1
    <3>3. CASE k = 0
      BY <2>2, <2>3, <3>3
    <3> QED BY <3>1, <3>2, <3>3
  <2>6. f = [k \in 0 .. m |-> f[k]] /\ m \in Nat
    OBVIOUS
  <2> HIDE DEF f
  <2>7. Doubles(f, m)
    BY <2>5, <2>6, Zenon DEF Doubles
  <2> QED BY <2>6, <2>7
<1> HIDE DEF S
<1>3. 0 .. n \subseteq S
  <2>1. S \in SUBSET Nat
    BY DEF S
  <2> QED BY <1>1, <1>2, <2>1, ByCounting
<1>4. n \in S
  BY <1>3
<1> QED BY <1>4 DEF S

\* What Base2 is: each bit doubles it.
LEMMA Base2Steps ==
  /\ Base2[0] = 1
  /\ \A k \in 1 .. WordBits : Base2[k] = 2 * Base2[k - 1]
<1>1. WordBits \in Nat
  BY RvAssumption
<1> DEFINE f == CHOOSE g : Doubles(g, WordBits)
<1>2. Doubles(f, WordBits)
  BY <1>1, DoublesExists, Zenon
<1>3. Base2 = f
  BY Zenon DEF Base2, Doubles
<1> HIDE DEF f
<1>4. \A k \in 0 .. WordBits : Base2[k] = IF k = 0 THEN 1 ELSE 2 * Base2[k - 1]
  BY <1>2, <1>3 DEF Doubles
<1> QED BY <1>1, <1>4

LEMMA Base2Nat == \A k \in 0 .. WordBits : Base2[k] \in Nat \ {0}
<1> DEFINE S == {k \in 0 .. WordBits : Base2[k] \in Nat \ {0}}
<1>1. WordBits \in Nat /\ S \in SUBSET Nat
  BY RvAssumption
<1>2. 0 \in S
  BY <1>1, Base2Steps
<1>3. ASSUME NEW k \in 1 .. WordBits, k - 1 \in S PROVE k \in S
  BY <1>3, Base2Steps
<1> HIDE DEF S
<1>4. 0 .. WordBits \subseteq S
  BY <1>1, <1>2, <1>3, ByCounting
<1> QED BY <1>4 DEF S

\* Shifts add up.
LEMMA Base2Adds ==
  ASSUME NEW m \in 0 .. WordBits, NEW n \in 0 .. WordBits, m + n <= WordBits
  PROVE  Base2[m + n] = Base2[m] * Base2[n]
<1> DEFINE S == {k \in 0 .. n : Base2[m + k] = Base2[m] * Base2[k]}
<1>1. WordBits \in Nat /\ S \in SUBSET Nat
  BY RvAssumption
<1>2. 0 \in S
  <2>1. m + 0 = m /\ Base2[m] \in Nat
    BY Base2Nat
  <2> QED BY <1>1, <2>1, Base2Steps
<1>3. ASSUME NEW k \in 1 .. n, k - 1 \in S PROVE k \in S
  <2>1. Base2[m + k] = 2 * Base2[m + k - 1] /\ Base2[k] = 2 * Base2[k - 1]
    <3>1. m + k \in 1 .. WordBits /\ k \in 1 .. WordBits /\ (m + k) - 1 = m + k - 1
      BY <1>1
    <3> QED BY <3>1, Base2Steps
  <2>2. Base2[m + k - 1] = Base2[m] * Base2[k - 1]
    <3>1. m + k - 1 = m + (k - 1)
      BY <1>1
    <3> QED BY <1>3, <3>1
  <2>3. Base2[m] \in Nat /\ Base2[k - 1] \in Nat
    BY <1>1, Base2Nat
  <2>4. \A x, y \in Nat : 2 * (x * y) = x * (2 * y)
    OBVIOUS
  <2> QED BY <2>1, <2>2, <2>3, <2>4
<1> HIDE DEF S
<1>4. 0 .. n \subseteq S
  BY <1>1, <1>2, <1>3, ByCounting
<1>5. n \in S
  BY <1>1, <1>4
<1> QED BY <1>5 DEF S

\* A word is four bytes.
LEMMA WordIsBytes ==
  LET B == Base2[ByteBits] IN
  /\ ByteBits \in Nat \ {0} /\ WordBits = 4 * ByteBits /\ B \in Nat /\ B >= 2
  /\ Base2[0 * ByteBits] = 1 /\ Base2[1 * ByteBits] = B
  /\ Base2[2 * ByteBits] = B * B /\ Base2[3 * ByteBits] = B * B * B
  /\ Base2[WordBits] = B * B * (B * B) /\ Base2[WordBits] = B * (B * B * B)
<1> DEFINE B == Base2[ByteBits]
<1>1. ByteBits \in Nat \ {0} /\ WordBits = 4 * ByteBits
  BY RvAssumption DEF ByteBits
<1>2. B \in Nat /\ B >= 2
  <2>1. ByteBits \in 1 .. WordBits /\ ByteBits - 1 \in 0 .. WordBits
    BY <1>1
  <2>2. B = 2 * Base2[ByteBits - 1] /\ Base2[ByteBits - 1] \in Nat \ {0}
    BY <2>1, Base2Steps, Base2Nat
  <2> QED BY <2>2
<1> HIDE DEF B
<1>3. 0 * ByteBits = 0 /\ 1 * ByteBits = ByteBits /\ 2 * ByteBits = ByteBits + ByteBits
      /\ 3 * ByteBits = 2 * ByteBits + ByteBits /\ WordBits = 2 * ByteBits + 2 * ByteBits
      /\ WordBits = ByteBits + 3 * ByteBits
      /\ \A k \in 0 .. 4 : k * ByteBits \in 0 .. WordBits
  BY <1>1
<1>4. Base2[0 * ByteBits] = 1 /\ Base2[1 * ByteBits] = B
  BY <1>3, Base2Steps DEF B
<1>5. Base2[2 * ByteBits] = B * B
  <2>1. ByteBits \in 0 .. WordBits /\ ByteBits + ByteBits <= WordBits
    BY <1>1
  <2> QED BY <1>3, <2>1, Base2Adds DEF B
<1>6. Base2[3 * ByteBits] = B * B * B
  <2>1. ByteBits \in 0 .. WordBits /\ 2 * ByteBits \in 0 .. WordBits /\ 2 * ByteBits + ByteBits <= WordBits
    BY <1>1
  <2> QED BY <1>3, <1>5, <2>1, Base2Adds DEF B
<1>7. Base2[WordBits] = B * B * (B * B) /\ Base2[WordBits] = B * (B * B * B)
  <2>1. /\ ByteBits \in 0 .. WordBits /\ 2 * ByteBits \in 0 .. WordBits /\ 3 * ByteBits \in 0 .. WordBits
        /\ 2 * ByteBits + 2 * ByteBits <= WordBits /\ ByteBits + 3 * ByteBits <= WordBits
    BY <1>1
  <2>2. Base2[2 * ByteBits + 2 * ByteBits] = B * B * (B * B)
    BY <1>5, <2>1, Base2Adds
  <2>3. Base2[ByteBits + 3 * ByteBits] = B * (B * B * B)
    BY <1>6, <2>1, Base2Adds DEF B
  <2> QED BY <1>3, <2>2, <2>3
<1> QED BY <1>1, <1>2, <1>4, <1>5, <1>6, <1>7 DEF B

\* The quotient and the remainder are the only numbers that are.
LEMMA DivUnique ==
  ASSUME NEW H \in Nat \ {0}, NEW p \in Nat, NEW r \in 0 .. H - 1
  PROVE  (p * H + r) \div H = p /\ (p * H + r) % H = r
<1> DEFINE t == p * H + r
           d == t \div H
           e == t % H
<1>1. t \in Nat
  BY Z3
<1>2. e \in 0 .. H - 1 /\ d \in Nat /\ t = d * H + e
  <2> HIDE DEF t
  <2> QED BY <1>1, DivMod
<1>3. d = p
  <2> HIDE DEF d, e
  <2>1. d * H + e = p * H + r
    BY <1>2
  <2>2. CASE d < p
    <3>1. d * H + H <= p * H
      BY <1>2, <2>2, MulMono
    <3>2. d * H \in Nat /\ p * H \in Nat
      BY <1>2
    <3> DEFINE x == d * H
               y == p * H
    <3>3. x + e = y + r /\ x + H <= y /\ x \in Nat /\ y \in Nat
      BY <2>1, <3>1, <3>2
    <3> HIDE DEF x, y
    <3> QED BY <1>2, <3>3
  <2>3. CASE p < d
    <3>1. p * H + H <= d * H
      BY <1>2, <2>3, MulMono
    <3>2. d * H \in Nat /\ p * H \in Nat
      BY <1>2
    <3> DEFINE x == d * H
               y == p * H
    <3>3. x + e = y + r /\ y + H <= x /\ x \in Nat /\ y \in Nat
      BY <2>1, <3>1, <3>2
    <3> HIDE DEF x, y
    <3> QED BY <1>2, <3>3
  <2> QED BY <1>2, <2>2, <2>3
<1>4. e = r
  <2> DEFINE x == p * H
  <2>1. x \in Nat /\ x + r = x + e
    BY <1>2, <1>3
  <2> HIDE DEF x, e
  <2> QED BY <1>2, <2>1
<1> QED BY <1>3, <1>4

\* w has the bytes c0 .. c3, of B values each.
IsWord(w, B, c0, c1, c2, c3) == w = c0 + c1 * B + c2 * (B * B) + c3 * (B * B * B)

\* Bytes of a word, and halves of it.
LEMMA Lanes ==
  ASSUME NEW B \in Nat \ {0}, NEW c0 \in 0 .. B - 1, NEW c1 \in 0 .. B - 1,
         NEW c2 \in 0 .. B - 1, NEW c3 \in 0 .. B - 1,
         NEW w, IsWord(w, B, c0, c1, c2, c3)
  PROVE  /\ (w \div 1) % B = c0 /\ (w \div B) % B = c1
         /\ (w \div (B * B)) % B = c2 /\ (w \div (B * B * B)) % B = c3
         /\ (w \div 1) % (B * B) = c0 + c1 * B /\ (w \div (B * B)) % (B * B) = c2 + c3 * B
<1> DEFINE H2 == B * B
           H3 == B * B * B
           lo == c1 * B + c0
           hi == c3 * B + c2
           u3 == c3 * B + c2
           u2 == u3 * B + c1
           lo3 == c2 * H2 + lo
<1>1. H2 \in Nat \ {0} /\ H3 \in Nat \ {0} /\ H3 = H2 * B
  OBVIOUS
<1>2. lo \in 0 .. H2 - 1 /\ hi \in 0 .. H2 - 1
  <2>1. \A c \in 0 .. B - 1 : c * B + B <= B * B /\ c * B \in Nat
    BY MulMono
  <2>2. c1 * B + B <= H2 /\ c3 * B + B <= H2 /\ c1 * B \in Nat /\ c3 * B \in Nat
    BY <2>1
  <2> DEFINE x == c1 * B
             y == c3 * B
  <2>3. lo = x + c0 /\ hi = y + c2 /\ x + B <= H2 /\ y + B <= H2 /\ x \in Nat /\ y \in Nat
    BY <2>2
  <2> HIDE DEF x, y, H2, lo, hi
  <2> QED BY <1>1, <2>3
<1>3. lo3 \in 0 .. H3 - 1
  <2>1. c2 * H2 + H2 <= B * H2 /\ c2 * H2 \in Nat
    <3> HIDE DEF H2
    <3>1. c2 * H2 + H2 <= B * H2
      BY <1>1, MulMono
    <3>2. c2 * H2 \in Nat
      BY <1>1
    <3> QED BY <3>1, <3>2
  <2>2. B * H2 = H3
    BY <1>1
  <2> DEFINE x == c2 * H2
  <2>3. x \in Nat /\ x + H2 <= H3 /\ lo3 = x + lo
    BY <2>1, <2>2
  <2> HIDE DEF x, H2, H3, lo, lo3
  <2> QED BY <1>1, <1>2, <2>3
<1>4. /\ w = u2 * B + c0 /\ w = hi * H2 + lo /\ w = c3 * H3 + lo3
      /\ u2 \in Nat /\ u3 \in Nat
  <2>1. w = u2 * B + c0
    BY Z3 DEF IsWord
  <2>2. w = hi * H2 + lo
    BY Z3 DEF IsWord
  <2>3. w = c3 * H3 + lo3
    BY Z3 DEF IsWord
  <2>4. u3 \in Nat
    BY Z3
  <2>5. u2 \in Nat
    BY <2>4, Z3
  <2> QED BY <2>1, <2>2, <2>3, <2>4, <2>5
<1>5. w \in Nat /\ w \div 1 = w
  BY <1>4, Z3 DEF IsWord
<1>6. w \div B = u2 /\ w % B = c0
  <2> HIDE DEF u2
  <2>1. (u2 * B + c0) \div B = u2 /\ (u2 * B + c0) % B = c0
    BY <1>4, DivUnique
  <2> QED BY <1>4, <2>1
<1>7. u2 % B = c1
  <2> HIDE DEF u3
  <2> QED BY <1>4, DivUnique
<1>8. w \div H2 = hi /\ w % H2 = lo
  <2>1. hi \in Nat
    BY <1>2
  <2> HIDE DEF H2, hi, lo
  <2>2. (hi * H2 + lo) \div H2 = hi /\ (hi * H2 + lo) % H2 = lo
    BY <1>1, <1>2, <2>1, DivUnique
  <2> QED BY <1>4, <2>2
<1>9. hi % B = c2 /\ hi % H2 = hi
  <2>1. hi % B = c2
    BY DivUnique
  <2>2. hi % H2 = hi
    <3> HIDE DEF H2, hi
    <3> QED BY <1>1, <1>2
  <2> QED BY <2>1, <2>2
<1>10. w \div H3 = c3
  <2> HIDE DEF H3, lo3
  <2>1. H3 \in Nat \ {0} /\ c3 \in Nat /\ lo3 \in 0 .. H3 - 1
    BY <1>1, <1>3
  <2>2. \A p \in Nat : (p * H3 + lo3) \div H3 = p
    BY <2>1, DivUnique
  <2> QED BY <1>4, <2>1, <2>2
<1>11. c3 % B = c3
  OBVIOUS
<1>12. lo = c0 + c1 * B /\ hi = c2 + c3 * B
  OBVIOUS
<1> HIDE DEF lo, hi, u2
<1> QED BY <1>5, <1>6, <1>7, <1>8, <1>9, <1>10, <1>11, <1>12

\* A value moved up P and cut to P * Q is what is left of it below Q, moved up.
LEMMA Cut ==
  ASSUME NEW P \in Nat \ {0}, NEW Q \in Nat \ {0}, NEW x \in Nat
  PROVE  (x * P) % (P * Q) = (x % Q) * P
<1> DEFINE d == x \div Q
           e == x % Q
<1>1. d \in Nat /\ e \in 0 .. Q - 1 /\ x = d * Q + e
  BY DivMod
<1> HIDE DEF d, e
<1> DEFINE z == P * Q
           y == e * P
<1>2. x * P = d * z + y
  BY <1>1, Z3
<1>3. z \in Nat \ {0} /\ y \in Nat /\ Q * P = z
  BY <1>1
<1>4. y + P <= z
  BY <1>1, <1>3, MulMono
<1> HIDE DEF z, y
<1>5. y \in 0 .. z - 1
  BY <1>3, <1>4
<1>6. (d * z + y) % z = y
  BY <1>1, <1>3, <1>5, DivUnique
<1> QED BY <1>2, <1>6 DEF z, y, e

\* A byte of what is left below a multiple of it is the byte.
LEMMA CutByte ==
  ASSUME NEW B \in Nat \ {0}, NEW R \in Nat \ {0}, NEW x \in Nat
  PROVE  (x % (B * R)) % B = x % B
<1> DEFINE Q == B * R
           d == x \div Q
           e == x % Q
           f == e \div B
           g == e % B
<1>1. Q \in Nat \ {0}
  OBVIOUS
<1>2. d \in Nat /\ e \in 0 .. Q - 1 /\ x = d * Q + e
  <2> HIDE DEF Q
  <2> QED BY <1>1, DivMod
<1>3. f \in Nat /\ g \in 0 .. B - 1 /\ e = f * B + g
  <2>1. e \in Nat
    <3> HIDE DEF e, Q
    <3> QED BY <1>1, <1>2
  <2> HIDE DEF e
  <2> QED BY <2>1, DivMod
<1> HIDE DEF d, e, f, g
<1> DEFINE h == d * R + f
<1>4. h \in Nat
  BY <1>2, <1>3
<1>5. x = h * B + g
  BY <1>2, <1>3, Z3
<1> HIDE DEF h
<1>6. x % B = g
  BY <1>3, <1>4, <1>5, DivUnique
<1> QED BY <1>6 DEF g, e

\* The lowest byte of such a value is found P further up, the next P * B up.
LEMMA Shifted ==
  ASSUME NEW B \in Nat \ {0}, NEW P \in Nat \ {0}, NEW R \in Nat \ {0}, NEW x \in Nat
  PROVE  /\ (((x * P) % (P * (B * R))) \div P) % B = x % B
         /\ (((x * P) % (P * (B * (B * R)))) \div (P * B)) % B = (x \div B) % B
<1>1. ASSUME NEW Q \in Nat \ {0} PROVE x % Q \in Nat /\ ((x % Q) * P) \div P = x % Q
  <2> DEFINE e == x % Q
  <2>1. e \in Nat
    BY DivMod
  <2> HIDE DEF e
  <2>2. 0 \in 0 .. P - 1 /\ e * P = e * P + 0
    BY <2>1
  <2>3. (e * P + 0) \div P = e
    BY <2>1, <2>2, DivUnique
  <2> QED BY <2>1, <2>2, <2>3 DEF e
<1>2. (((x * P) % (P * (B * R))) \div P) % B = x % B
  <2> DEFINE Q == B * R
  <2>1. Q \in Nat \ {0}
    OBVIOUS
  <2>2. (x % Q) % B = x % B
    BY CutByte
  <2> HIDE DEF Q
  <2>3. (((x * P) % (P * Q)) \div P) = x % Q
    BY <1>1, <2>1, Cut
  <2> QED BY <2>2, <2>3 DEF Q
<1>3. (((x * P) % (P * (B * (B * R)))) \div (P * B)) % B = (x \div B) % B
  <2> DEFINE Q == B * R
             BQ == B * Q
             p == x \div B
             r == x % B
  <2>1. Q \in Nat \ {0} /\ BQ \in Nat \ {0} /\ P * B \in Nat \ {0}
    <3>1. Q \in Nat \ {0}
      OBVIOUS
    <3> HIDE DEF Q
    <3> QED BY <3>1
  <2>2. p \in Nat /\ r \in 0 .. B - 1 /\ x = p * B + r
    BY DivMod
  <2>3. p % Q \in Nat /\ (p % Q) % B = p % B
    <3> HIDE DEF p
    <3>1. (p % Q) % B = p % B
      BY <2>2, CutByte
    <3> HIDE DEF Q
    <3>2. p % Q \in Nat
      BY <2>1, <2>2, DivMod
    <3> QED BY <3>1, <3>2
\* x below B * Q is p below Q and the lowest byte.
  <2>4. x % BQ = (p % Q) * B + r
    <3> DEFINE d == p \div Q
               e == p % Q
    <3> HIDE DEF p, r, Q
    <3>1. d \in Nat /\ e \in 0 .. Q - 1 /\ p = d * Q + e
      BY <2>1, <2>2, DivMod
    <3> HIDE DEF d, e
    <3>2. x = d * BQ + (e * B + r)
      BY <2>1, <2>2, <3>1, Z3
    <3>3. e * B + B <= Q * B
      BY <2>1, <3>1, MulMono
    <3>4. Q * B = BQ /\ e * B \in Nat
      BY <2>1, <3>1
    <3> DEFINE y == e * B
    <3> HIDE DEF y, BQ
    <3>5. y + r \in 0 .. BQ - 1
      BY <2>1, <2>2, <3>3, <3>4 DEF y
    <3>6. (d * BQ + (y + r)) % BQ = y + r
      BY <2>1, <3>1, <3>5, DivUnique
    <3> QED BY <3>2, <3>6 DEF y, e
  <2> DEFINE s == p % Q
  <2> HIDE DEF s, p, r, Q
  <2>5. (x * P) % (P * BQ) = (s * B + r) * P
    <3> HIDE DEF BQ
    <3> QED BY <2>1, <2>4, Cut DEF s
  <2>6. ((s * B + r) * P) \div (P * B) = s
    <3>1. s \in Nat
      BY <2>3 DEF s
    <3> DEFINE z == P * B
               y == r * P
    <3>2. (s * B + r) * P = s * z + y
      BY <2>2, <3>1, Z3
    <3>3. r * P + P <= B * P
      BY <2>2, MulMono
    <3>4. y \in Nat /\ B * P = z /\ z \in Nat \ {0}
      BY <2>2
    <3> HIDE DEF z, y
    <3>5. y \in 0 .. z - 1
      BY <3>3, <3>4 DEF y
    <3>6. (s * z + y) \div z = s
      BY <3>1, <3>4, <3>5, DivUnique
    <3> QED BY <3>2, <3>6 DEF z
  <2>7. s % B = p % B
    BY <2>3 DEF s
  <2> QED BY <2>5, <2>6, <2>7 DEF Q, p
<1> QED BY <1>2, <1>3

\* f sums up the bytes from a on, each in its place: the function HostRead defines.
IsRead(f, m, a, len) ==
  f = [n \in 0 .. len |->
         IF n = 0 THEN 0 ELSE f[n - 1] + m[a + n - 1] * Base2[ByteBits * (n - 1)]]

\* What host_read joins, byte after byte.
LEMMA HostReadSteps ==
  ASSUME NEW m, NEW a, NEW len \in {1, 2, 4}
  PROVE  \E f : IsRead(f, m, a, len) /\ HostRead(m, a, len) = f[len]
<1> DEFINE term(n) == m[a + n - 1] * Base2[ByteBits * (n - 1)]
           g == [n \in 0 .. len |->
                   IF n = 0 THEN 0 ELSE IF n = 1 THEN 0 + term(1)
                   ELSE IF n = 2 THEN (0 + term(1)) + term(2)
                   ELSE IF n = 3 THEN ((0 + term(1)) + term(2)) + term(3)
                   ELSE (((0 + term(1)) + term(2)) + term(3)) + term(4)]
           f == CHOOSE h : IsRead(h, m, a, len)
<1>1. IsRead(g, m, a, len)
  <2>1. ASSUME NEW n \in 0 .. len
        PROVE  g[n] = IF n = 0 THEN 0 ELSE g[n - 1] + term(n)
    <3> HIDE DEF term
    <3>1. n \in {0, 1, 2, 3, 4}
      OBVIOUS
    <3>2. CASE n = 0
      BY <3>2
    <3>3. CASE n = 1
      <4>1. 1 - 1 = 0 /\ 1 \in 0 .. len /\ 0 \in 0 .. len
        OBVIOUS
      <4> QED BY <3>3, <4>1
    <3>4. CASE n = 2
      <4>1. 2 - 1 = 1 /\ 2 \in 0 .. len /\ 1 \in 0 .. len
        BY <3>4
      <4> QED BY <3>4, <4>1
    <3>5. CASE n = 3
      <4>1. 3 - 1 = 2 /\ 3 \in 0 .. len /\ 2 \in 0 .. len
        BY <3>5
      <4> QED BY <3>5, <4>1
    <3>6. CASE n = 4
      <4>1. 4 - 1 = 3 /\ 4 \in 0 .. len /\ 3 \in 0 .. len
        BY <3>6
      <4> QED BY <3>6, <4>1
    <3> QED BY <3>1, <3>2, <3>3, <3>4, <3>5, <3>6
  <2>2. g = [n \in 0 .. len |-> g[n]]
    OBVIOUS
  <2> HIDE DEF g
  <2> QED BY <2>1, <2>2, Zenon DEF IsRead, term
<1>2. IsRead(f, m, a, len)
  BY <1>1, Zenon
<1>3. HostRead(m, a, len) = f[len]
  BY Zenon DEF HostRead, IsRead
<1> HIDE DEF f
<1> QED BY <1>2, <1>3

\* The value it reads, for each of its three lengths.
LEMMA HostReadBytes ==
  ASSUME NEW m, NEW a \in Nat, \A k \in 0 .. 3 : m[a + k] \in Nat
  PROVE  LET B == Base2[ByteBits] IN
         /\ HostRead(m, a, 1) = m[a]
         /\ HostRead(m, a, 2) = m[a] + m[a + 1] * B
         /\ HostRead(m, a, 4) = m[a] + m[a + 1] * B + m[a + 2] * (B * B) + m[a + 3] * (B * B * B)
<1> DEFINE B == Base2[ByteBits]
<1>1. ByteBits \in Nat /\ B \in Nat
  BY WordIsBytes
<1>2. /\ ByteBits * (1 - 1) = 0 * ByteBits /\ ByteBits * (2 - 1) = 1 * ByteBits
      /\ ByteBits * (3 - 1) = 2 * ByteBits /\ ByteBits * (4 - 1) = 3 * ByteBits
  BY <1>1
<1>3. /\ Base2[ByteBits * (1 - 1)] = 1 /\ Base2[ByteBits * (2 - 1)] = B
      /\ Base2[ByteBits * (3 - 1)] = B * B /\ Base2[ByteBits * (4 - 1)] = B * B * B
  BY <1>2, WordIsBytes
<1>4. a + 1 - 1 = a /\ a + 2 - 1 = a + 1 /\ a + 3 - 1 = a + 2 /\ a + 4 - 1 = a + 3 /\ a + 0 = a
  OBVIOUS
<1>5. m[a] \in Nat /\ m[a + 1] \in Nat /\ m[a + 2] \in Nat /\ m[a + 3] \in Nat
  BY <1>4
<1>6. ASSUME NEW f, NEW len \in {1, 2, 4}, IsRead(f, m, a, len)
      PROVE  /\ f[0] = 0 /\ \A n \in 1 .. len : f[n] = f[n - 1] + m[a + n - 1] * Base2[ByteBits * (n - 1)]
  <2>1. \A n \in 0 .. len :
          f[n] = IF n = 0 THEN 0 ELSE f[n - 1] + m[a + n - 1] * Base2[ByteBits * (n - 1)]
    BY <1>6 DEF IsRead
  <2> QED BY <2>1
<1>7. ASSUME NEW f, NEW len \in {1, 2, 4}, IsRead(f, m, a, len) PROVE f[1] = m[a]
  <2>1. 1 \in 1 .. len /\ 1 - 1 = 0
    OBVIOUS
  <2>2. f[1] = f[1 - 1] + m[a + 1 - 1] * Base2[ByteBits * (1 - 1)] /\ f[0] = 0
    BY <1>6, <1>7, <2>1
  <2>3. f[1] = 0 + m[a] * 1
    BY <1>3, <1>4, <2>1, <2>2
  <2> QED BY <1>5, <2>3
<1>8. ASSUME NEW f, NEW len \in {2, 4}, IsRead(f, m, a, len) PROVE f[2] = m[a] + m[a + 1] * B
  <2>1. 2 \in 1 .. len /\ 2 - 1 = 1 /\ len \in {1, 2, 4}
    OBVIOUS
  <2>2. f[2] = f[2 - 1] + m[a + 2 - 1] * Base2[ByteBits * (2 - 1)]
    BY <1>6, <1>8, <2>1
  <2>3. f[2] = f[1] + m[a + 1] * B
    BY <1>3, <1>4, <2>1, <2>2
  <2> QED BY <1>7, <1>8, <2>1, <2>3
<1>9. PICK f1 : IsRead(f1, m, a, 1) /\ HostRead(m, a, 1) = f1[1]
  BY HostReadSteps
<1>10. PICK f2 : IsRead(f2, m, a, 2) /\ HostRead(m, a, 2) = f2[2]
  BY HostReadSteps
<1>11. PICK f4 : IsRead(f4, m, a, 4) /\ HostRead(m, a, 4) = f4[4]
  BY HostReadSteps
<1>12. f4[4] = m[a] + m[a + 1] * B + m[a + 2] * (B * B) + m[a + 3] * (B * B * B)
  <2>1. 3 \in 1 .. 4 /\ 4 \in 1 .. 4 /\ 3 - 1 = 2 /\ 4 - 1 = 3
    OBVIOUS
  <2>2. /\ f4[3] = f4[3 - 1] + m[a + 3 - 1] * Base2[ByteBits * (3 - 1)]
        /\ f4[4] = f4[4 - 1] + m[a + 4 - 1] * Base2[ByteBits * (4 - 1)]
    BY <1>6, <1>11, <2>1
  <2>3. f4[3] = f4[2] + m[a + 2] * (B * B) /\ f4[4] = f4[3] + m[a + 3] * (B * B * B)
    BY <1>3, <1>4, <2>1, <2>2
  <2> QED BY <1>8, <1>11, <2>3
<1>13. f1[1] = m[a] /\ f2[2] = m[a] + m[a + 1] * B
  BY <1>7, <1>8, <1>9, <1>10
<1> QED BY <1>9, <1>10, <1>11, <1>12, <1>13

\* The word that holds an address.
LEMMA WordAround ==
  ASSUME NEW place \in Word
  PROVE  /\ Offset(place) \in 0 .. 3 /\ WordAt(place) \in Nat
         /\ place = WordAt(place) + Offset(place)
         /\ WordAt(place) + 3 <= Base2[WordBits] - 1
<1> DEFINE M == Base2[WordBits]
           d == place \div 4
<1>1. M \in Nat /\ M >= 2 /\ M % 4 = 0
  <2>1. WordBits \in 1 .. WordBits /\ WordBits - 1 \in 1 .. WordBits /\ WordBits - 2 \in 0 .. WordBits
    BY RvAssumption
  <2>2. M = 2 * Base2[WordBits - 1] /\ Base2[WordBits - 1] = 2 * Base2[WordBits - 1 - 1]
    BY <2>1, Base2Steps
  <2>3. Base2[WordBits - 2] \in Nat \ {0} /\ WordBits - 1 - 1 = WordBits - 2
    BY <2>1, Base2Nat
  <2> HIDE DEF M
  <2>4. M = 4 * Base2[WordBits - 2]
    BY <2>2, <2>3
  <2> QED BY <2>3, <2>4
<1> HIDE DEF M
<1>2. place \in 0 .. M - 1
  BY DEF Word, M
<1> QED BY <1>1, <1>2 DEF Offset, WordAt, M

\* The values of a byte are B.
BytePowers(B) ==
  /\ Base2[0 * ByteBits] = 1 /\ Base2[1 * ByteBits] = B
  /\ Base2[2 * ByteBits] = B * B /\ Base2[3 * ByteBits] = B * B * B

\* The lanes of a word of four bytes.
LEMMA WordLanes ==
  ASSUME NEW B \in Nat \ {0}, BytePowers(B), NEW c0 \in 0 .. B - 1, NEW c1 \in 0 .. B - 1,
         NEW c2 \in 0 .. B - 1, NEW c3 \in 0 .. B - 1,
         NEW w, IsWord(w, B, c0, c1, c2, c3)
  PROVE  /\ Lane(w, 0, 1) = c0 /\ Lane(w, 1, 1) = c1 /\ Lane(w, 2, 1) = c2 /\ Lane(w, 3, 1) = c3
         /\ Lane(w, 0, 2) = c0 + c1 * B /\ Lane(w, 2, 2) = c2 + c3 * B
<1>2. /\ (w \div 1) % B = c0 /\ (w \div B) % B = c1
      /\ (w \div (B * B)) % B = c2 /\ (w \div (B * B * B)) % B = c3
      /\ (w \div 1) % (B * B) = c0 + c1 * B
      /\ (w \div (B * B)) % (B * B) = c2 + c3 * B
  <2>1. (w \div 1) % B = c0
    BY Lanes
  <2>2. (w \div B) % B = c1
    BY Lanes
  <2>3. (w \div (B * B)) % B = c2
    BY Lanes
  <2>4. (w \div (B * B * B)) % B = c3
    BY Lanes
  <2>5. (w \div 1) % (B * B) = c0 + c1 * B
    BY Lanes
  <2>6. (w \div (B * B)) % (B * B) = c2 + c3 * B
    BY Lanes
  <2> QED BY <2>1, <2>2, <2>3, <2>4, <2>5, <2>6
<1> QED BY <1>2 DEF Lane, BytePowers

\* A byte of x, moved up to its place in the word.
LEMMA ByteMoved ==
  ASSUME NEW k \in 0 .. 3, NEW x \in Nat
  PROVE  /\ Lane(Wrap(x * Base2[k * ByteBits]), k, 1) = x % Base2[ByteBits]
         /\ k \in {0, 2} => Lane(Wrap(x * Base2[k * ByteBits]), k + 1, 1) = (x \div Base2[ByteBits]) % Base2[ByteBits]
<1> DEFINE B == Base2[ByteBits]
           M == Base2[WordBits]
           P == Base2[k * ByteBits]
<1>1. B \in Nat \ {0} /\ M = B * B * (B * B)
  BY WordIsBytes
<1>2. /\ Base2[0 * ByteBits] = 1 /\ Base2[1 * ByteBits] = B
      /\ Base2[2 * ByteBits] = B * B /\ Base2[3 * ByteBits] = B * B * B
  BY WordIsBytes
<1> HIDE DEF B, M
<1>3. \E R \in Nat \ {0} : P \in Nat \ {0} /\ M = P * (B * R)
  <2>1. CASE k = 0
    <3>1. P = 1 /\ B * B * B \in Nat \ {0} /\ M = 1 * (B * (B * B * B))
      BY <1>1, <1>2, <2>1
    <3> HIDE DEF P
    <3> QED BY <3>1
  <2>2. CASE k = 1
    <3>1. P = B /\ B * B \in Nat \ {0} /\ M = B * (B * (B * B))
      BY <1>1, <1>2, <2>2
    <3> HIDE DEF P
    <3> QED BY <1>1, <3>1
  <2>3. CASE k = 2
    <3>1. P = B * B /\ M = B * B * (B * B) /\ B * B \in Nat \ {0}
      BY <1>1, <1>2, <2>3
    <3> HIDE DEF P
    <3> QED BY <1>1, <3>1
  <2>4. CASE k = 3
    <3>1. P = B * B * B /\ M = B * B * B * (B * 1) /\ B * B * B \in Nat \ {0}
      BY <1>1, <1>2, <2>4
    <3> HIDE DEF P
    <3> QED BY <3>1
  <2> QED BY <2>1, <2>2, <2>3, <2>4
<1>4. k \in {0, 2} => \E R \in Nat \ {0} : M = P * (B * (B * R)) /\ Base2[(k + 1) * ByteBits] = P * B
  <2>1. CASE k = 0
    <3>1. P = 1 /\ B * B \in Nat \ {0} /\ M = 1 * (B * (B * (B * B))) /\ 1 * B = B /\ k + 1 = 1
      BY <1>1, <1>2, <2>1
    <3> HIDE DEF P
    <3> QED BY <1>2, <3>1
  <2>2. CASE k = 2
    <3>1. P = B * B /\ M = B * B * (B * (B * 1)) /\ k + 1 = 3
      BY <1>1, <1>2, <2>2
    <3> HIDE DEF P
    <3> QED BY <1>2, <3>1
  <2> QED BY <2>1, <2>2
<1>5. Lane(Wrap(x * P), k, 1) = x % B
  <2>1. Lane(Wrap(x * P), k, 1) = (((x * P) % M) \div P) % B
    BY <1>2 DEF Lane, Wrap, M
  <2> HIDE DEF P
  <2>2. PICK R \in Nat \ {0} : P \in Nat \ {0} /\ M = P * (B * R)
    BY <1>3
  <2>3. (((x * P) % (P * (B * R))) \div P) % B = x % B
    BY <1>1, <2>2, Shifted
  <2> QED BY <2>1, <2>2, <2>3
<1>6. ASSUME k \in {0, 2} PROVE Lane(Wrap(x * P), k + 1, 1) = (x \div B) % B
  <2> HIDE DEF P
  <2>1. P \in Nat \ {0}
    BY <1>3
  <2>2. PICK R \in Nat \ {0} : M = P * (B * (B * R)) /\ Base2[(k + 1) * ByteBits] = P * B
    BY <1>4, <1>6
  <2>3. Lane(Wrap(x * P), k + 1, 1) = (((x * P) % M) \div (P * B)) % B
    BY <1>2, <2>2 DEF Lane, Wrap, M
  <2>4. (((x * P) % (P * (B * (B * R)))) \div (P * B)) % B = (x \div B) % B
    BY <1>1, <2>1, Shifted
  <2> QED BY <2>2, <2>3, <2>4
<1> QED BY <1>5, <1>6 DEF B

\* What lsu.v picks out of the word on the bus is what the host reads.
LEMMA LoadsAgree ==
  ASSUME NEW place \in Word, NEW f3 \in {0, 1, 2, 4, 5}, place % LenOf(f3) = 0
  PROVE  RData(f3, place, HostRead(Memory, WordAt(place), 4)) =
           IF f3 \in {0, 1} THEN Sext(HostRead(Memory, place, LenOf(f3)), ByteBits * LenOf(f3))
           ELSE HostRead(Memory, place, LenOf(f3))
<1> DEFINE B == Base2[ByteBits]
           o == Offset(place)
           at == WordAt(place)
           w == HostRead(Memory, at, 4)
           c(k) == Memory[at + k]
<1>1. /\ o \in 0 .. 3 /\ at \in Nat /\ place = at + o /\ place \in Nat
      /\ at + 3 <= Base2[WordBits] - 1 /\ Base2[WordBits] \in Nat
  <2>1. WordBits \in Nat
    BY RvAssumption
  <2> QED BY <2>1, WordAround, Base2Nat DEF Word
<1>2. B \in Nat \ {0} /\ ByteBits \in Nat
  BY WordIsBytes
<1>3. \A k \in 0 .. 3 : c(k) \in 0 .. B - 1
  <2>1. \A k \in 0 .. 3 : at + k \in 0 .. Base2[WordBits] + 2
    BY <1>1
  <2> QED BY <2>1, DatapathAssumption
<1>4. \A k \in 0 .. 3 : Memory[place + k] \in Nat
  <2>1. \A k \in 0 .. 3 : place + k \in 0 .. Base2[WordBits] + 2
    BY <1>1 DEF Word
  <2>2. \A k \in 0 .. 3 : Memory[place + k] \in 0 .. B - 1
    BY <2>1, DatapathAssumption
  <2>3. B \in Nat
    BY <1>2
  <2> HIDE DEF B
  <2>4. 0 .. B - 1 \subseteq Nat
    BY <2>3
  <2> QED BY <2>2, <2>4
<1>5. w = c(0) + c(1) * B + c(2) * (B * B) + c(3) * (B * B * B)
  <2>1. at + 0 = at /\ \A k \in 0 .. 3 : Memory[at + k] \in Nat
    BY <1>1, <1>2, <1>3
  <2> HIDE DEF at
  <2>2. at \in Nat
    BY <1>1
  <2> QED BY <2>1, <2>2, HostReadBytes
<1>6. /\ HostRead(Memory, place, 1) = Memory[place]
      /\ HostRead(Memory, place, 2) = Memory[place] + Memory[place + 1] * B
  BY <1>1, <1>4, HostReadBytes
<1>7. c(0) \in 0 .. B - 1 /\ c(1) \in 0 .. B - 1 /\ c(2) \in 0 .. B - 1 /\ c(3) \in 0 .. B - 1
  BY <1>3
<1> HIDE DEF w
<1>8. /\ Lane(w, 0, 1) = c(0) /\ Lane(w, 1, 1) = c(1) /\ Lane(w, 2, 1) = c(2) /\ Lane(w, 3, 1) = c(3)
      /\ Lane(w, 0, 2) = c(0) + c(1) * B /\ Lane(w, 2, 2) = c(2) + c(3) * B
  <2>1. B \in Nat \ {0} /\ BytePowers(B)
    BY <1>2, WordIsBytes DEF BytePowers
  <2>2. IsWord(w, B, c(0), c(1), c(2), c(3))
    BY <1>5 DEF IsWord
  <2> HIDE DEF c, B
  <2> QED BY <1>7, <2>1, <2>2, WordLanes
<1> HIDE DEF B
<1>9. \A k \in 0 .. 3 : Lane(w, k, 1) = c(k)
  <2> HIDE DEF c
  <2> QED BY <1>8
<1>10. Lane(w, 0, 2) = c(0) + c(1) * B /\ Lane(w, 2, 2) = c(2) + c(3) * B
  BY <1>8
<1>11. ByteBits * 1 = ByteBits /\ ByteBits * 2 = 2 * ByteBits
  BY <1>2
<1>12. Lane(w, o, 1) = HostRead(Memory, place, 1)
  BY <1>1, <1>6, <1>9
<1>13. CASE f3 \in {0, 4}
  <2>1. LenOf(f3) = 1
    BY <1>13 DEF LenOf
  <2> QED BY <1>11, <1>12, <1>13, <2>1 DEF RData, w, o, at
<1>14. CASE f3 \in {1, 5}
  <2>1. LenOf(f3) = 2
    BY <1>14 DEF LenOf
  <2>2. o \in {0, 2} /\ Half(place) = o
    BY <1>1, <2>1 DEF Half, Offset
  <2>3. Lane(w, Half(place), 2) = HostRead(Memory, place, 2)
    <3>1. CASE o = 0
      <4>1. place = at /\ at + 0 = at
        BY <1>1, <3>1
      <4> QED BY <1>6, <1>10, <2>2, <3>1, <4>1
    <3>2. CASE o = 2
      <4>1. place = at + 2 /\ place + 1 = at + 3
        BY <1>1, <3>2
      <4> QED BY <1>6, <1>10, <2>2, <3>2, <4>1
    <3> QED BY <2>2, <3>1, <3>2
  <2> QED BY <1>11, <1>14, <2>1, <2>3 DEF RData, w, at
<1>15. CASE f3 = 2
  <2>1. LenOf(f3) = 4
    BY <1>15 DEF LenOf
  <2>2. place = at
    BY <1>1, <2>1 DEF Offset, WordAt
  <2> QED BY <1>15, <2>1, <2>2 DEF RData, w
<1> QED BY <1>13, <1>14, <1>15

\* What lsu.v puts on the bus and pmem_write picks from it is what the host
\* writes.
LEMMA StoresAgree ==
  ASSUME NEW place \in Word, NEW f3 \in {0, 1, 2}, place % LenOf(f3) = 0, NEW data \in Word
  PROVE  <<PmemWrite(place, MWData(f3, place, data), WStrb(f3, place))>> = HostWrite(place, LenOf(f3), data)
<1> DEFINE B == Base2[ByteBits]
           M == Base2[WordBits]
           o == Offset(place)
           at == WordAt(place)
           bytes == {<<place + k, (data \div Base2[ByteBits * k]) % Base2[ByteBits]>> : k \in 0 .. LenOf(f3) - 1}
           put == PmemWrite(place, MWData(f3, place, data), WStrb(f3, place))
<1>1. o \in 0 .. 3 /\ at \in Nat /\ place = at + o
  BY WordAround
<1>2. /\ B \in Nat \ {0} /\ ByteBits \in Nat /\ M \in Nat \ {0} /\ data \in 0 .. M - 1
      /\ M = B * B * (B * B) /\ M = B * (B * B * B)
  <2>1. WordBits \in Nat
    BY RvAssumption
  <2> QED BY <2>1, WordIsBytes, Base2Nat DEF Word
<1>3. /\ Base2[0 * ByteBits] = 1 /\ Base2[1 * ByteBits] = B
      /\ Base2[2 * ByteBits] = B * B /\ Base2[3 * ByteBits] = B * B * B
  BY WordIsBytes
<1>4. \A k \in 0 .. 3 : ByteBits * k = k * ByteBits
  BY <1>2
<1>5. Lane(data, 0, 1) = data % B /\ data \in Nat
  <2>1. data \in Nat /\ data \div 1 = data
    BY <1>2, Z3
  <2> QED BY <1>3, <2>1 DEF Lane
<1>6. \A k \in 0 .. 3 :
        /\ Lane(Wrap(data * Base2[ByteBits * k]), k, 1) = data % B
        /\ k \in {0, 2} => Lane(Wrap(data * Base2[ByteBits * k]), k + 1, 1) = (data \div B) % B
  BY <1>4, <1>5, ByteMoved
<1>7. (data \div Base2[ByteBits * 0]) % Base2[ByteBits] = data % B
  BY <1>3, <1>4, <1>5 DEF Lane
<1>8. put = bytes
  <2>1. CASE f3 = 0
    <3>1. LenOf(f3) = 1 /\ 0 .. 1 - 1 = {0}
      BY <2>1 DEF LenOf
    <3>2. bytes = {<<place + 0, data % B>>}
      BY <1>7, <3>1
    <3>3. put = {<<at + o, Lane(Wrap(data * Base2[ByteBits * o]), o, 1)>>}
      BY <2>1 DEF PmemWrite, MWData, WStrb
    <3>4. place + 0 = at + o
      BY <1>1
    <3> QED BY <1>1, <1>6, <3>2, <3>3, <3>4
  <2>2. CASE f3 = 1
    <3>1. LenOf(f3) = 2 /\ 0 .. 2 - 1 = {0, 1}
      BY <2>2 DEF LenOf
    <3>2. o \in {0, 2} /\ Half(place) = o
      BY <1>1, <3>1 DEF Half, Offset
    <3>3. bytes = {<<place + 0, data % B>>, <<place + 1, (data \div B) % B>>}
      <4>1. (data \div Base2[ByteBits * 1]) % Base2[ByteBits] = (data \div B) % B
        <5>1. ByteBits * 1 = 1 * ByteBits
          BY <1>4
        <5> QED BY <1>3, <5>1
      <4>2. bytes = {<<place + k, (data \div Base2[ByteBits * k]) % Base2[ByteBits]>> : k \in {0, 1}}
        BY <3>1
      <4> QED BY <1>7, <4>1, <4>2
    <3>4. put = {<<at + k, Lane(Wrap(data * Base2[ByteBits * o]), k, 1)>> : k \in {o, o + 1}}
      BY <2>2, <3>2 DEF PmemWrite, MWData, WStrb
    <3>5. Lane(Wrap(data * Base2[ByteBits * o]), o, 1) = data % B
      BY <1>6, <3>2
    <3>6. Lane(Wrap(data * Base2[ByteBits * o]), o + 1, 1) = (data \div B) % B
      BY <1>1, <1>6, <3>2
    <3>7. place + 0 = at + o /\ place + 1 = at + (o + 1)
      BY <1>1
    <3> QED BY <3>3, <3>4, <3>5, <3>6, <3>7
  <2>3. CASE f3 = 2
    <3>1. LenOf(f3) = 4 /\ 4 - 1 = 3
      BY <2>3 DEF LenOf
    <3>2. place = at
      BY <1>1, <3>1 DEF Offset, WordAt
    <3>3. Wrap(data * Base2[ByteBits * 0]) = data
      <4>1. data * 1 = data /\ data % M = data
        BY <1>2
      <4> QED BY <1>3, <1>4, <4>1 DEF Wrap
    <3>4. put = {<<at + k, Lane(data, k, 1)>> : k \in 0 .. 3}
      BY <2>3, <3>3 DEF PmemWrite, MWData, WStrb
    <3>5. \A k \in 0 .. 3 : Lane(data, k, 1) = (data \div Base2[ByteBits * k]) % Base2[ByteBits]
      BY <1>3, <1>4 DEF Lane
    <3> QED BY <3>1, <3>2, <3>4, <3>5
  <2> QED BY <2>1, <2>2, <2>3
<1> QED BY <1>8 DEF HostWrite

\* c is the m wires of s and then those of t, mn in all.
Joins(c, mn, s, m, t) ==
  c \in [1 .. mn -> Int] /\ \A i \in 1 .. mn : c[i] = IF i <= m THEN s[i] ELSE t[i - m]

\* Where the elements of two joined sequences lie.
LEMMA Joined ==
  ASSUME NEW m \in Nat, NEW n \in Nat, NEW s \in [1 .. m -> Int], NEW t \in [1 .. n -> Int],
         NEW mn, mn = m + n
  PROVE  Joins(s \o t, mn, s, m, t)
<1>1. s \in Seq(Int) /\ t \in Seq(Int) /\ Len(s) = m /\ Len(t) = n
  OBVIOUS
<1>2. /\ s \o t \in Seq(Int) /\ Len(s \o t) = mn
      /\ \A i \in 1 .. mn : (s \o t)[i] = IF i <= m THEN s[i] ELSE t[i - m]
  BY <1>1
<1>3. s \o t \in [1 .. Len(s \o t) -> Int]
  BY <1>2, LenProperties
<1> QED BY <1>2, <1>3 DEF Joins

\* Bit k of an immediate of n bits, sign-extended, is its bit BitOf(k, n), in
\* one of its parts or in none.
BitOf(k, n) == IF k < n THEN k ELSE n - 1
Holds(p, j) == p[3] <= j /\ j <= p[3] + p[1] - p[2]

\* A bit that one field holds comes from that field.
LEMMA PlacedAt ==
  ASSUME NEW parts, NEW n, NEW k \in 0 .. 31, NEW p \in parts, Holds(p, BitOf(k, n)),
         \A r \in parts : Holds(r, BitOf(k, n)) => r = p
  PROVE  Placed(parts, n)[k] = p[2] + BitOf(k, n) - p[3]
<1> DEFINE j == BitOf(k, n)
           here == {r \in parts : r[3] <= j /\ j <= r[3] + r[1] - r[2]}
<1>1. here = {p}
  BY DEF Holds
<1>2. (CHOOSE r \in here : TRUE) = p
  BY <1>1
<1>3. Placed(parts, n)[k] = IF here = {} THEN None ELSE LET r == CHOOSE r \in here : TRUE IN r[2] + j - r[3]
  BY DEF Placed, BitOf
<1> HIDE DEF here
<1> QED BY <1>1, <1>2, <1>3

\* A bit that no field holds is empty.
LEMMA PlacedNone ==
  ASSUME NEW parts, NEW n, NEW k \in 0 .. 31, \A r \in parts : ~ Holds(r, BitOf(k, n))
  PROVE  Placed(parts, n)[k] = None
BY DEF Placed, Holds, BitOf

\* The five immediate formats, bit by bit: decoder.v's wires against inst.c's macros.
LEMMA ImmIAgrees == \A k \in 0 .. 31 : CoreImm.I[32 - k] = Imm.I[k]
<1> TAKE k \in 0 .. 31
<1> DEFINE a == <<31, 20, 0>>
           parts == {a}
           j == BitOf(k, 12)
           s == Times(20, 31)
           t == Run(31, 20)
           c == s \o t
<1>1. j \in 0 .. 11 /\ (k < 12 => j = k) /\ (k >= 12 => j = 11)
  BY DEF BitOf
<1>2. Imm.I[k] = Placed(parts, 12)[k]
  BY DEF Imm
<1>3. a[1] = 31 /\ a[2] = 20 /\ a[3] = 0
  OBVIOUS
<1>4. CoreImm.I = c
  BY DEF CoreImm
<1>5. s \in [1 .. 20 -> Int] /\ \A i \in 1 .. 20 : s[i] = 31
  BY DEF Times
<1>6. t \in [1 .. 12 -> Int] /\ \A i \in 1 .. 12 : t[i] = 32 - i
  BY DEF Run
<1>7. 20 \in Nat /\ 12 \in Nat /\ 32 = 20 + 12
  OBVIOUS
<1> HIDE DEF a, s, t, j
<1>8. Holds(a, j)
  BY <1>1, <1>3 DEF Holds
<1>9. Placed(parts, 12)[k] = 20 + j
  <2>1. Placed(parts, 12)[k] = a[2] + j - a[3]
    BY <1>8, PlacedAt DEF j
  <2> QED BY <1>1, <1>3, <2>1
<1>10. Joins(c, 32, s, 20, t)
  BY <1>5, <1>6, <1>7, Joined, Zenon
<1> HIDE DEF c
<1>11. c[32 - k] = 20 + j
  BY <1>1, <1>5, <1>6, <1>10 DEF Joins
<1> QED BY <1>2, <1>4, <1>9, <1>11

LEMMA ImmUAgrees == \A k \in 0 .. 31 : CoreImm.U[32 - k] = Imm.U[k]
<1> TAKE k \in 0 .. 31
<1> DEFINE a == <<31, 12, 12>>
           parts == {a}
           j == BitOf(k, 32)
           s == Run(31, 12)
           t == Times(12, None)
           c == s \o t
<1>1. j = k
  BY DEF BitOf
<1>2. Imm.U[k] = Placed(parts, 32)[k]
  BY DEF Imm
<1>3. a[1] = 31 /\ a[2] = 12 /\ a[3] = 12
  OBVIOUS
<1>4. CoreImm.U = c
  BY DEF CoreImm
<1>5. s \in [1 .. 20 -> Int] /\ \A i \in 1 .. 20 : s[i] = 32 - i
  BY DEF Run
<1>6. t \in [1 .. 12 -> Int] /\ \A i \in 1 .. 12 : t[i] = None
  BY DEF Times, None
<1>7. 20 \in Nat /\ 12 \in Nat /\ 32 = 20 + 12
  OBVIOUS
<1> HIDE DEF a, s, t, j
<1>8. Holds(a, j) <=> k >= 12
  BY <1>1, <1>3 DEF Holds
<1>9. Placed(parts, 32)[k] = IF k >= 12 THEN j ELSE None
  <2>1. CASE k >= 12
    <3>1. Placed(parts, 32)[k] = a[2] + j - a[3]
      BY <1>8, <2>1, PlacedAt DEF j
    <3> QED BY <1>1, <1>3, <2>1, <3>1
  <2>2. CASE ~ (k >= 12)
    BY <1>8, <2>2, PlacedNone DEF j
  <2> QED BY <2>1, <2>2
<1>10. Joins(c, 32, s, 20, t)
  BY <1>5, <1>6, <1>7, Joined, Zenon
<1> HIDE DEF c
<1>11. c[32 - k] = IF k >= 12 THEN j ELSE None
  BY <1>1, <1>5, <1>6, <1>10 DEF Joins
<1> QED BY <1>2, <1>4, <1>9, <1>11

LEMMA ImmSAgrees == \A k \in 0 .. 31 : CoreImm.S[32 - k] = Imm.S[k]
<1> TAKE k \in 0 .. 31
<1> DEFINE a == <<31, 25, 5>>
           b == <<11, 7, 0>>
           parts == {a, b}
           j == BitOf(k, 12)
           s == Times(20, 31)
           t == Run(31, 25)
           u == Run(11, 7)
           st == s \o t
           c == st \o u
<1>1. j \in 0 .. 11 /\ (k < 12 => j = k) /\ (k >= 12 => j = 11)
  BY DEF BitOf
<1>2. Imm.S[k] = Placed(parts, 12)[k]
  BY DEF Imm
<1>3. a[1] = 31 /\ a[2] = 25 /\ a[3] = 5 /\ b[1] = 11 /\ b[2] = 7 /\ b[3] = 0
  OBVIOUS
<1>4. CoreImm.S = c
  BY DEF CoreImm
<1>5. s \in [1 .. 20 -> Int] /\ \A i \in 1 .. 20 : s[i] = 31
  BY DEF Times
<1>6. /\ t \in [1 .. 7 -> Int] /\ \A i \in 1 .. 7 : t[i] = 32 - i
      /\ u \in [1 .. 5 -> Int] /\ \A i \in 1 .. 5 : u[i] = 12 - i
  BY DEF Run
<1>7. 20 \in Nat /\ 7 \in Nat /\ 27 = 20 + 7 /\ 27 \in Nat /\ 5 \in Nat /\ 32 = 27 + 5
  OBVIOUS
<1> HIDE DEF a, b, s, t, u, j
<1>8. (Holds(a, j) <=> j >= 5) /\ (Holds(b, j) <=> j < 5)
  BY <1>1, <1>3 DEF Holds
<1>9. Placed(parts, 12)[k] = IF j >= 5 THEN j + 20 ELSE j + 7
  <2>1. CASE j >= 5
    <3>1. Placed(parts, 12)[k] = a[2] + j - a[3]
      BY <1>1, <1>8, <2>1, PlacedAt DEF j
    <3> QED BY <1>1, <1>3, <2>1, <3>1
  <2>2. CASE j < 5
    <3>1. Placed(parts, 12)[k] = b[2] + j - b[3]
      BY <1>1, <1>8, <2>2, PlacedAt DEF j
    <3> QED BY <1>1, <1>3, <2>2, <3>1
  <2> QED BY <1>1, <2>1, <2>2
<1>10. Joins(st, 27, s, 20, t) /\ st \in [1 .. 27 -> Int]
  <2>1. Joins(st, 27, s, 20, t)
    BY <1>5, <1>6, <1>7, Joined, Zenon
  <2> QED BY <2>1 DEF Joins
<1> HIDE DEF st
<1>11. Joins(c, 32, st, 27, u)
  BY <1>6, <1>7, <1>10, Joined, Zenon
<1> HIDE DEF c
<1>12. c[32 - k] = IF j >= 5 THEN j + 20 ELSE j + 7
  BY <1>1, <1>5, <1>6, <1>10, <1>11 DEF Joins
<1> QED BY <1>2, <1>4, <1>9, <1>12

LEMMA ImmBAgrees == \A k \in 0 .. 31 : CoreImm.B[32 - k] = Imm.B[k]
<1> TAKE k \in 0 .. 31
<1> DEFINE a == <<31, 31, 12>>
           b == <<7, 7, 11>>
           d == <<30, 25, 5>>
           e == <<11, 8, 1>>
           parts == {a, b, d, e}
           j == BitOf(k, 13)
           s == Times(19, 31)
           t == <<31, 7>>
           u == Run(30, 25)
           v == Run(11, 8)
           w == <<None>>
           c1 == s \o t
           c2 == c1 \o u
           c3 == c2 \o v
           c == c3 \o w
<1>1. j \in 0 .. 12 /\ (k < 13 => j = k) /\ (k >= 13 => j = 12)
  BY DEF BitOf
<1>2. Imm.B[k] = Placed(parts, 13)[k]
  BY DEF Imm
<1>3. /\ a[1] = 31 /\ a[2] = 31 /\ a[3] = 12
      /\ b[1] = 7 /\ b[2] = 7 /\ b[3] = 11
      /\ d[1] = 30 /\ d[2] = 25 /\ d[3] = 5
      /\ e[1] = 11 /\ e[2] = 8 /\ e[3] = 1
  OBVIOUS
<1>4. CoreImm.B = c
  BY DEF CoreImm
<1>5. /\ s \in [1 .. 19 -> Int] /\ \A i \in 1 .. 19 : s[i] = 31
      /\ t \in [1 .. 2 -> Int] /\ \A i \in 1 .. 2 : t[i] = IF i = 1 THEN 31 ELSE 7
      /\ u \in [1 .. 6 -> Int] /\ \A i \in 1 .. 6 : u[i] = 31 - i
      /\ v \in [1 .. 4 -> Int] /\ \A i \in 1 .. 4 : v[i] = 12 - i
      /\ w \in [1 .. 1 -> Int] /\ \A i \in 1 .. 1 : w[i] = None
  <2>1. s \in [1 .. 19 -> Int] /\ \A i \in 1 .. 19 : s[i] = 31
    BY DEF Times
  <2>2. t \in [1 .. 2 -> Int] /\ \A i \in 1 .. 2 : t[i] = IF i = 1 THEN 31 ELSE 7
    OBVIOUS
  <2>3. u \in [1 .. 6 -> Int] /\ \A i \in 1 .. 6 : u[i] = 31 - i
    BY DEF Run
  <2>4. v \in [1 .. 4 -> Int] /\ \A i \in 1 .. 4 : v[i] = 12 - i
    BY DEF Run
  <2>5. w \in [1 .. 1 -> Int] /\ \A i \in 1 .. 1 : w[i] = None
    BY DEF None
  <2> QED BY <2>1, <2>2, <2>3, <2>4, <2>5
<1>6. /\ 19 \in Nat /\ 2 \in Nat /\ 21 = 19 + 2
      /\ 21 \in Nat /\ 6 \in Nat /\ 27 = 21 + 6
      /\ 27 \in Nat /\ 4 \in Nat /\ 31 = 27 + 4
      /\ 31 \in Nat /\ 1 \in Nat /\ 32 = 31 + 1
  OBVIOUS
<1> HIDE DEF j, a, b, d, e, s, t, u, v, w
<1>7. /\ Holds(a, j) <=> j \in 12 .. 12
      /\ Holds(b, j) <=> j \in 11 .. 11
      /\ Holds(d, j) <=> j \in 5 .. 10
      /\ Holds(e, j) <=> j \in 1 .. 4
  BY <1>1, <1>3 DEF Holds
<1>8. /\ j \in 12 .. 12 => Placed(parts, 13)[k] = 31
      /\ j \in 11 .. 11 => Placed(parts, 13)[k] = 7
      /\ j \in 5 .. 10 => Placed(parts, 13)[k] = j + 20
      /\ j \in 1 .. 4 => Placed(parts, 13)[k] = j + 7
      /\ j = 0 => Placed(parts, 13)[k] = None
  <2>1. ASSUME j \in 12 .. 12 PROVE Placed(parts, 13)[k] = 31
    <3>1. a \in parts /\ Holds(a, j) /\ \A r \in parts : Holds(r, j) => r = a
      BY <1>7, <2>1
    <3> HIDE DEF parts
    <3>2. Placed(parts, 13)[k] = a[2] + j - a[3]
      BY <3>1, PlacedAt DEF j
    <3> QED BY <1>1, <1>3, <2>1, <3>2
  <2>2. ASSUME j \in 11 .. 11 PROVE Placed(parts, 13)[k] = 7
    <3>1. b \in parts /\ Holds(b, j) /\ \A r \in parts : Holds(r, j) => r = b
      BY <1>7, <2>2
    <3> HIDE DEF parts
    <3>2. Placed(parts, 13)[k] = b[2] + j - b[3]
      BY <3>1, PlacedAt DEF j
    <3> QED BY <1>1, <1>3, <2>2, <3>2
  <2>3. ASSUME j \in 5 .. 10 PROVE Placed(parts, 13)[k] = j + 20
    <3>1. d \in parts /\ Holds(d, j) /\ \A r \in parts : Holds(r, j) => r = d
      BY <1>7, <2>3
    <3> HIDE DEF parts
    <3>2. Placed(parts, 13)[k] = d[2] + j - d[3]
      BY <3>1, PlacedAt DEF j
    <3> QED BY <1>1, <1>3, <2>3, <3>2
  <2>4. ASSUME j \in 1 .. 4 PROVE Placed(parts, 13)[k] = j + 7
    <3>1. e \in parts /\ Holds(e, j) /\ \A r \in parts : Holds(r, j) => r = e
      BY <1>7, <2>4
    <3> HIDE DEF parts
    <3>2. Placed(parts, 13)[k] = e[2] + j - e[3]
      BY <3>1, PlacedAt DEF j
    <3> QED BY <1>1, <1>3, <2>4, <3>2
  <2>5. ASSUME j = 0 PROVE Placed(parts, 13)[k] = None
    BY <1>7, <2>5, PlacedNone DEF j
  <2> QED BY <2>1, <2>2, <2>3, <2>4, <2>5
<1> HIDE DEF parts
<1>9. Joins(c1, 21, s, 19, t) /\ c1 \in [1 .. 21 -> Int]
  <2>1. Joins(c1, 21, s, 19, t)
    BY <1>5, <1>6, Joined, Zenon
  <2> QED BY <2>1 DEF Joins
<1> HIDE DEF c1
<1>10. Joins(c2, 27, c1, 21, u) /\ c2 \in [1 .. 27 -> Int]
  <2>1. Joins(c2, 27, c1, 21, u)
    BY <1>5, <1>6, <1>9, Joined, Zenon
  <2> QED BY <2>1 DEF Joins
<1> HIDE DEF c2
<1>11. Joins(c3, 31, c2, 27, v) /\ c3 \in [1 .. 31 -> Int]
  <2>1. Joins(c3, 31, c2, 27, v)
    BY <1>5, <1>6, <1>10, Joined, Zenon
  <2> QED BY <2>1 DEF Joins
<1> HIDE DEF c3
<1>12. Joins(c, 32, c3, 31, w) /\ c \in [1 .. 32 -> Int]
  <2>1. Joins(c, 32, c3, 31, w)
    BY <1>5, <1>6, <1>11, Joined, Zenon
  <2> QED BY <2>1 DEF Joins
<1> HIDE DEF c
<1>13. /\ j \in 12 .. 12 => c[32 - k] = 31
       /\ j \in 11 .. 11 => c[32 - k] = 7
       /\ j \in 5 .. 10 => c[32 - k] = j + 20
       /\ j \in 1 .. 4 => c[32 - k] = j + 7
       /\ j = 0 => c[32 - k] = None
  BY <1>1, <1>5, <1>9, <1>10, <1>11, <1>12 DEF Joins, None
<1> QED
  <2>1. j \in 12 .. 12 \/ j \in 11 .. 11 \/ j \in 5 .. 10 \/ j \in 1 .. 4 \/ j = 0
    BY <1>1
  <2> QED BY <1>2, <1>4, <1>8, <1>13, <2>1

LEMMA ImmJAgrees == \A k \in 0 .. 31 : CoreImm.J[32 - k] = Imm.J[k]
<1> TAKE k \in 0 .. 31
<1> DEFINE a == <<31, 31, 20>>
           b == <<19, 12, 12>>
           d == <<20, 20, 11>>
           e == <<30, 21, 1>>
           parts == {a, b, d, e}
           j == BitOf(k, 21)
           s == Times(11, 31)
           t == <<31>>
           u == Run(19, 12)
           v == <<20>>
           w == Run(30, 21)
           x == <<None>>
           c1 == s \o t
           c2 == c1 \o u
           c3 == c2 \o v
           c4 == c3 \o w
           c == c4 \o x
<1>1. j \in 0 .. 20 /\ (k < 21 => j = k) /\ (k >= 21 => j = 20)
  BY DEF BitOf
<1>2. Imm.J[k] = Placed(parts, 21)[k]
  BY DEF Imm
<1>3. /\ a[1] = 31 /\ a[2] = 31 /\ a[3] = 20
      /\ b[1] = 19 /\ b[2] = 12 /\ b[3] = 12
      /\ d[1] = 20 /\ d[2] = 20 /\ d[3] = 11
      /\ e[1] = 30 /\ e[2] = 21 /\ e[3] = 1
  OBVIOUS
<1>4. CoreImm.J = c
  BY DEF CoreImm, ImmJ
<1>5. /\ s \in [1 .. 11 -> Int] /\ \A i \in 1 .. 11 : s[i] = 31
      /\ t \in [1 .. 1 -> Int] /\ \A i \in 1 .. 1 : t[i] = 31
      /\ u \in [1 .. 8 -> Int] /\ \A i \in 1 .. 8 : u[i] = 20 - i
      /\ v \in [1 .. 1 -> Int] /\ \A i \in 1 .. 1 : v[i] = 20
      /\ w \in [1 .. 10 -> Int] /\ \A i \in 1 .. 10 : w[i] = 31 - i
      /\ x \in [1 .. 1 -> Int] /\ \A i \in 1 .. 1 : x[i] = None
  <2>1. s \in [1 .. 11 -> Int] /\ \A i \in 1 .. 11 : s[i] = 31
    BY DEF Times
  <2>2. t \in [1 .. 1 -> Int] /\ \A i \in 1 .. 1 : t[i] = 31
    OBVIOUS
  <2>3. u \in [1 .. 8 -> Int] /\ \A i \in 1 .. 8 : u[i] = 20 - i
    BY DEF Run
  <2>4. v \in [1 .. 1 -> Int] /\ \A i \in 1 .. 1 : v[i] = 20
    OBVIOUS
  <2>5. w \in [1 .. 10 -> Int] /\ \A i \in 1 .. 10 : w[i] = 31 - i
    BY DEF Run
  <2>6. x \in [1 .. 1 -> Int] /\ \A i \in 1 .. 1 : x[i] = None
    BY DEF None
  <2> QED BY <2>1, <2>2, <2>3, <2>4, <2>5, <2>6
<1>6. /\ 11 \in Nat /\ 1 \in Nat /\ 12 = 11 + 1
      /\ 12 \in Nat /\ 8 \in Nat /\ 20 = 12 + 8
      /\ 20 \in Nat /\ 1 \in Nat /\ 21 = 20 + 1
      /\ 21 \in Nat /\ 10 \in Nat /\ 31 = 21 + 10
      /\ 31 \in Nat /\ 1 \in Nat /\ 32 = 31 + 1
  OBVIOUS
<1> HIDE DEF j, a, b, d, e, s, t, u, v, w, x
<1>7. /\ Holds(a, j) <=> j \in 20 .. 20
      /\ Holds(b, j) <=> j \in 12 .. 19
      /\ Holds(d, j) <=> j \in 11 .. 11
      /\ Holds(e, j) <=> j \in 1 .. 10
  BY <1>1, <1>3 DEF Holds
<1>8. /\ j \in 20 .. 20 => Placed(parts, 21)[k] = 31
      /\ j \in 12 .. 19 => Placed(parts, 21)[k] = j + 0
      /\ j \in 11 .. 11 => Placed(parts, 21)[k] = 20
      /\ j \in 1 .. 10 => Placed(parts, 21)[k] = j + 20
      /\ j = 0 => Placed(parts, 21)[k] = None
  <2>1. ASSUME j \in 20 .. 20 PROVE Placed(parts, 21)[k] = 31
    <3>1. a \in parts /\ Holds(a, j) /\ \A r \in parts : Holds(r, j) => r = a
      BY <1>7, <2>1
    <3> HIDE DEF parts
    <3>2. Placed(parts, 21)[k] = a[2] + j - a[3]
      BY <3>1, PlacedAt DEF j
    <3> QED BY <1>1, <1>3, <2>1, <3>2
  <2>2. ASSUME j \in 12 .. 19 PROVE Placed(parts, 21)[k] = j + 0
    <3>1. b \in parts /\ Holds(b, j) /\ \A r \in parts : Holds(r, j) => r = b
      BY <1>7, <2>2
    <3> HIDE DEF parts
    <3>2. Placed(parts, 21)[k] = b[2] + j - b[3]
      BY <3>1, PlacedAt DEF j
    <3> QED BY <1>1, <1>3, <2>2, <3>2
  <2>3. ASSUME j \in 11 .. 11 PROVE Placed(parts, 21)[k] = 20
    <3>1. d \in parts /\ Holds(d, j) /\ \A r \in parts : Holds(r, j) => r = d
      BY <1>7, <2>3
    <3> HIDE DEF parts
    <3>2. Placed(parts, 21)[k] = d[2] + j - d[3]
      BY <3>1, PlacedAt DEF j
    <3> QED BY <1>1, <1>3, <2>3, <3>2
  <2>4. ASSUME j \in 1 .. 10 PROVE Placed(parts, 21)[k] = j + 20
    <3>1. e \in parts /\ Holds(e, j) /\ \A r \in parts : Holds(r, j) => r = e
      BY <1>7, <2>4
    <3> HIDE DEF parts
    <3>2. Placed(parts, 21)[k] = e[2] + j - e[3]
      BY <3>1, PlacedAt DEF j
    <3> QED BY <1>1, <1>3, <2>4, <3>2
  <2>5. ASSUME j = 0 PROVE Placed(parts, 21)[k] = None
    BY <1>7, <2>5, PlacedNone DEF j
  <2> QED BY <2>1, <2>2, <2>3, <2>4, <2>5
<1> HIDE DEF parts
<1>9. Joins(c1, 12, s, 11, t) /\ c1 \in [1 .. 12 -> Int]
  <2>1. Joins(c1, 12, s, 11, t)
    BY <1>5, <1>6, Joined, Zenon
  <2> QED BY <2>1 DEF Joins
<1> HIDE DEF c1
<1>10. Joins(c2, 20, c1, 12, u) /\ c2 \in [1 .. 20 -> Int]
  <2>1. Joins(c2, 20, c1, 12, u)
    BY <1>5, <1>6, <1>9, Joined, Zenon
  <2> QED BY <2>1 DEF Joins
<1> HIDE DEF c2
<1>11. Joins(c3, 21, c2, 20, v) /\ c3 \in [1 .. 21 -> Int]
  <2>1. Joins(c3, 21, c2, 20, v)
    BY <1>5, <1>6, <1>10, Joined, Zenon
  <2> QED BY <2>1 DEF Joins
<1> HIDE DEF c3
<1>12. Joins(c4, 31, c3, 21, w) /\ c4 \in [1 .. 31 -> Int]
  <2>1. Joins(c4, 31, c3, 21, w)
    BY <1>5, <1>6, <1>11, Joined, Zenon
  <2> QED BY <2>1 DEF Joins
<1> HIDE DEF c4
<1>13. Joins(c, 32, c4, 31, x) /\ c \in [1 .. 32 -> Int]
  <2>1. Joins(c, 32, c4, 31, x)
    BY <1>5, <1>6, <1>12, Joined, Zenon
  <2> QED BY <2>1 DEF Joins
<1> HIDE DEF c
<1>14. /\ j \in 20 .. 20 => c[32 - k] = 31
       /\ j \in 12 .. 19 => c[32 - k] = j + 0
       /\ j \in 11 .. 11 => c[32 - k] = 20
       /\ j \in 1 .. 10 => c[32 - k] = j + 20
       /\ j = 0 => c[32 - k] = None
  BY <1>1, <1>5, <1>9, <1>10, <1>11, <1>12, <1>13 DEF Joins, None
<1> QED
  <2>1. j \in 20 .. 20 \/ j \in 12 .. 19 \/ j \in 11 .. 11 \/ j \in 1 .. 10 \/ j = 0
    BY <1>1
  <2> QED BY <1>2, <1>4, <1>8, <1>14, <2>1

\* What an instruction finds.
State == [src1 : Word, src2 : Word, pc : Word, mem : {Memory}, csrs : {Csrs}]

\* The core does what NEMU does, where NEMU knows the instruction; and nothing
\* where it does not, decoded in full.
AsNemu(i, s) ==
  /\ DecodeExec(i, s).end \notin {"inv", "panic"} /\ Aligned(i, s) =>
       Retired(i, s) = DecodeExec(i, s) \/ (i.op = "OP" /\ i.f7 = 1)
  /\ DecodeExec(i, s).end = "inv" /\ ~LooselyDecoded(i) => Retired(i, s) = Nothing(s)

LEMMA WrapWord ==
  /\ \A x \in Int : Wrap(x) \in Word
  /\ \A x \in Word : Wrap(x) = x /\ x \in Nat
<1>1. Base2[WordBits] \in Nat \ {0}
  BY RvAssumption, Base2Nat
<1> QED BY <1>1 DEF Wrap, Word

\* Instructions that are not the ALU's own have it add the immediate.
LEMMA AluAdds ==
  ASSUME NEW i, NEW s, ~IsRTypeAlu(i), ~IsITypeAlu(i)
  PROVE  AluOut(i, s) = Wrap(AluA(i, s) + i.imm)
<1>1. AluOp(i) = 0 /\ AluB(i, s) = i.imm
  BY DEF AluOp, AluB
<1>2. \A a, b : Alu(0, a, b) = Wrap(a + b)
  BY DEF Alu
<1> QED BY <1>1, <1>2 DEF AluOut

\* Class by class, an instruction leaves in the core what it leaves in NEMU.
LEMMA UpperAgrees ==
  ASSUME NEW i, i.f3 \in 0 .. 7, i.imm \in Word, NEW s \in State, i.op \in {"LUI", "AUIPC", "JAL"}
  PROVE  AsNemu(i, s)
<1>1. s.pc \in Word /\ 0 + i.imm = i.imm /\ Wrap(i.imm) = i.imm
  BY WrapWord DEF State
<1>2. ~IsRTypeAlu(i) /\ ~IsITypeAlu(i) /\ ~IsLoadAny(i) /\ ~IsStoreAny(i) /\ ~IsCsr(i) /\ ~TakesBranch(i, s)
  BY DEF IsRTypeAlu, IsITypeAlu, IsLoadAny, IsStoreAny, IsCsr, TakesBranch
<1>3. AluOut(i, s) = IF i.op = "LUI" THEN i.imm ELSE IF i.op = "AUIPC" THEN Wrap(s.pc + i.imm) ELSE Wrap(s.src1 + i.imm)
  <2>1. AluOut(i, s) = Wrap(AluA(i, s) + i.imm)
    BY <1>2, AluAdds
  <2>2. AluA(i, s) = IF i.op = "LUI" THEN 0 ELSE IF i.op = "AUIPC" THEN s.pc ELSE s.src1
    BY DEF AluA
  <2> QED BY <1>1, <2>1, <2>2
<1>4. WriteBack(i, s) = IF i.op = "JAL" THEN Wrap(s.pc + 4) ELSE AluOut(i, s)
  BY <1>2 DEF WriteBack
<1>5. NextPcWire(i, s) = IF i.op = "JAL" THEN Wrap(s.pc + i.imm) ELSE Wrap(s.pc + 4)
  BY <1>2 DEF NextPcWire
<1>6. CsrsNext(i, s) = s.csrs
  BY <1>2 DEF CsrsNext
<1>7. Retired(i, s) = [rd |-> <<WriteBack(i, s)>>, pc |-> NextPcWire(i, s), stored |-> <<>>, csrs |-> s.csrs, end |-> "none"]
  BY <1>2, <1>6 DEF Retired, RegWen
<1>8. DecodeExec(i, s) = [rd |-> <<WriteBack(i, s)>>, pc |-> NextPcWire(i, s), stored |-> <<>>, csrs |-> s.csrs, end |-> "none"]
  BY <1>3, <1>4, <1>5 DEF DecodeExec, Nothing
<1> QED BY <1>7, <1>8 DEF AsNemu

LEMMA JalrAgrees ==
  ASSUME NEW i, i.f3 \in 0 .. 7, NEW s \in State, i.op = "JALR"
  PROVE  AsNemu(i, s)
<1>1. ~IsRTypeAlu(i) /\ ~IsITypeAlu(i) /\ ~IsLoadAny(i) /\ ~IsStoreAny(i) /\ ~IsCsr(i) /\ ~TakesBranch(i, s)
  BY DEF IsRTypeAlu, IsITypeAlu, IsLoadAny, IsStoreAny, IsCsr, TakesBranch
<1> DEFINE t == Wrap(s.src1 + i.imm) - (Wrap(s.src1 + i.imm) % 2)
           r == [rd |-> <<Wrap(s.pc + 4)>>, pc |-> t, stored |-> <<>>, csrs |-> s.csrs, end |-> "none"]
<1>2. WriteBack(i, s) = Wrap(s.pc + 4) /\ NextPcWire(i, s) = t /\ CsrsNext(i, s) = s.csrs
  <2>1. WriteBack(i, s) = Wrap(s.pc + 4)
    BY <1>1 DEF WriteBack
  <2>2. NextPcWire(i, s) = t
    BY <1>1 DEF NextPcWire
  <2>3. CsrsNext(i, s) = s.csrs
    BY <1>1 DEF CsrsNext
  <2> QED BY <2>1, <2>2, <2>3
<1>3. Retired(i, s) = r
  BY <1>1, <1>2 DEF Retired, RegWen
<1>4. i.f3 = 0 => DecodeExec(i, s) = r
  BY DEF DecodeExec, Nothing
<1>5. i.f3 # 0 => LooselyDecoded(i) /\ DecodeExec(i, s).end = "inv"
  BY DEF LooselyDecoded, DecodeExec, Invalid, Nothing
<1>6. r.end = "none"
  OBVIOUS
<1> HIDE DEF r
<1> QED BY <1>3, <1>4, <1>5, <1>6 DEF AsNemu

LEMMA BranchAgrees ==
  ASSUME NEW i, i.f3 \in 0 .. 7, NEW s \in State, i.op = "BRANCH"
  PROVE  AsNemu(i, s)
<1>1. ~RegWen(i) /\ ~IsStoreAny(i) /\ ~IsCsr(i)
  BY DEF RegWen, IsRTypeAlu, IsITypeAlu, IsLoadAny, IsStoreAny, IsCsr
<1>2. TakesBranch(i, s) <=> i.f3 \notin {2, 3} /\ Taken(i.f3, s.src1, s.src2)
  <2>1. CASE i.f3 = 0
    BY <2>1 DEF TakesBranch, Taken
  <2>2. CASE i.f3 = 1
    BY <2>2 DEF TakesBranch, Taken
  <2>3. CASE i.f3 \in {2, 3}
    BY <2>3 DEF TakesBranch
  <2>4. CASE i.f3 = 4
    BY <2>4 DEF TakesBranch, Taken
  <2>5. CASE i.f3 = 5
    BY <2>5 DEF TakesBranch, Taken
  <2>6. CASE i.f3 = 6
    BY <2>6 DEF TakesBranch, Taken
  <2>7. CASE i.f3 = 7
    BY <2>7 DEF TakesBranch, Taken
  <2> QED BY <2>1, <2>2, <2>3, <2>4, <2>5, <2>6, <2>7
<1>3. NextPcWire(i, s) = IF TakesBranch(i, s) THEN Wrap(s.pc + i.imm) ELSE Wrap(s.pc + 4)
  BY DEF NextPcWire
<1>4. Retired(i, s) = [Nothing(s) EXCEPT !.pc = NextPcWire(i, s)]
  BY <1>1 DEF Retired, CsrsNext, Nothing
<1>5. i.f3 \notin {2, 3} => DecodeExec(i, s) = [Nothing(s) EXCEPT !.pc = NextPcWire(i, s)]
  BY <1>2, <1>3 DEF DecodeExec, Nothing
<1>6. i.f3 \in {2, 3} => DecodeExec(i, s) = Invalid(s) /\ [Nothing(s) EXCEPT !.pc = NextPcWire(i, s)] = Nothing(s)
  BY <1>2, <1>3 DEF DecodeExec, Nothing
<1>7. Invalid(s).end = "inv" /\ [Nothing(s) EXCEPT !.pc = NextPcWire(i, s)].end = "none"
  BY DEF Invalid, Nothing
<1> QED BY <1>4, <1>5, <1>6, <1>7 DEF AsNemu

LEMMA OtherAgrees ==
  ASSUME NEW i, i.f3 \in 0 .. 7, NEW s \in State,
         i.op \notin {"OP", "OP-IMM", "LUI", "AUIPC", "JAL", "JALR", "BRANCH", "LOAD", "STORE", "CSR"}
  PROVE  AsNemu(i, s)
<1>1. ~RegWen(i) /\ ~IsStoreAny(i) /\ ~IsCsr(i) /\ ~TakesBranch(i, s)
  BY DEF RegWen, IsRTypeAlu, IsITypeAlu, IsLoadAny, IsStoreAny, IsCsr, TakesBranch
<1>2. CASE i.op = "ECALL"
  <2>1. Retired(i, s) = RaiseIntr(s, 11)
    <3>1. NextPcWire(i, s) = s.csrs["mtvec"]
      BY <1>1, <1>2 DEF NextPcWire
    <3>2. CsrsNext(i, s) = [s.csrs EXCEPT !["mepc"] = s.pc, !["mcause"] = 11]
      BY <1>1, <1>2 DEF CsrsNext
    <3>3. Retired(i, s) = [rd |-> <<>>, pc |-> NextPcWire(i, s), stored |-> <<>>, csrs |-> CsrsNext(i, s), end |-> "none"]
      BY <1>1, <1>2 DEF Retired
    <3> DEFINE c == [s.csrs EXCEPT !["mepc"] = s.pc, !["mcause"] = 11]
    <3>4. RaiseIntr(s, 11) = [Nothing(s) EXCEPT !.csrs = c, !.pc = s.csrs["mtvec"]]
      BY DEF RaiseIntr
    <3> HIDE DEF c
    <3>5. RaiseIntr(s, 11) = [rd |-> <<>>, pc |-> s.csrs["mtvec"], stored |-> <<>>, csrs |-> c, end |-> "none"]
      BY <3>4 DEF Nothing
    <3>6. CsrsNext(i, s) = c
      BY <3>2 DEF c
    <3> QED BY <3>1, <3>3, <3>5, <3>6
  <2>2. DecodeExec(i, s) = RaiseIntr(s, 11) /\ RaiseIntr(s, 11).end = "none"
    BY <1>2 DEF DecodeExec, RaiseIntr, Nothing
  <2> QED BY <2>1, <2>2 DEF AsNemu
<1>3. CASE i.op = "MRET"
  <2>1. Retired(i, s) = [Nothing(s) EXCEPT !.pc = s.csrs["mepc"]]
    BY <1>1, <1>3 DEF Retired, CsrsNext, NextPcWire, Nothing
  <2>2. DecodeExec(i, s) = [Nothing(s) EXCEPT !.pc = s.csrs["mepc"]] /\ DecodeExec(i, s).end = "none"
    BY <1>3 DEF DecodeExec, Nothing
  <2> QED BY <2>1, <2>2 DEF AsNemu
<1>4. CASE i.op = "EBREAK"
  <2>1. Retired(i, s) = [Nothing(s) EXCEPT !.end = "trap"]
    BY <1>1, <1>4 DEF Retired, CsrsNext, NextPcWire, Nothing
  <2>2. DecodeExec(i, s) = [Nothing(s) EXCEPT !.end = "trap"] /\ DecodeExec(i, s).end = "trap"
    BY <1>4 DEF DecodeExec, Nothing
  <2> QED BY <2>1, <2>2 DEF AsNemu
<1>5. CASE i.op \notin {"ECALL", "MRET", "EBREAK"}
  <2>1. Retired(i, s) = Nothing(s)
    BY <1>1, <1>5 DEF Retired, CsrsNext, NextPcWire, Nothing
  <2>2. DecodeExec(i, s).end = "inv"
    BY <1>5 DEF DecodeExec, Invalid, Nothing
  <2> QED BY <2>1, <2>2 DEF AsNemu
<1> QED BY <1>2, <1>3, <1>4, <1>5

LEMMA CsrAgrees ==
  ASSUME NEW i, i.f3 \in 0 .. 7, NEW s \in State, i.op = "CSR"
  PROVE  AsNemu(i, s)
<1>1. ~IsRTypeAlu(i) /\ ~IsITypeAlu(i) /\ ~IsLoadAny(i) /\ ~IsStoreAny(i) /\ ~TakesBranch(i, s)
  BY DEF IsRTypeAlu, IsITypeAlu, IsLoadAny, IsStoreAny, TakesBranch
<1>2. NextPcWire(i, s) = Wrap(s.pc + 4)
  BY <1>1 DEF NextPcWire
<1>3. CASE i.f3 \in {1, 2} /\ i.csr \in DOMAIN s.csrs
  <2> DEFINE w == IF i.f3 = 1 THEN s.src1 ELSE BitOr(s.csrs[i.csr], s.src1)
             r == [rd |-> <<s.csrs[i.csr]>>, pc |-> Wrap(s.pc + 4), stored |-> <<>>,
                   csrs |-> [s.csrs EXCEPT ![i.csr] = w], end |-> "none"]
  <2>1. IsCsr(i) /\ RegWen(i)
    BY <1>3 DEF IsCsr, RegWen
  <2>2. CsrRData(i, s) = s.csrs[i.csr] /\ CsrWData(i, s) = w
    BY <1>3 DEF CsrRData, CsrWData
  <2>3. WriteBack(i, s) = s.csrs[i.csr] /\ CsrsNext(i, s) = [s.csrs EXCEPT ![i.csr] = w]
    BY <1>1, <1>3, <2>1, <2>2 DEF WriteBack, CsrsNext
  <2>4. Retired(i, s) = r
    BY <1>1, <1>2, <2>1, <2>3 DEF Retired
  <2>5. DecodeExec(i, s) = r
    BY <1>3 DEF DecodeExec, Nothing
  <2> QED BY <2>4, <2>5 DEF AsNemu
<1>4. CASE i.f3 \in {1, 2} /\ i.csr \notin DOMAIN s.csrs
  <2>1. DecodeExec(i, s).end = "panic"
    BY <1>4 DEF DecodeExec, Nothing
  <2> QED BY <2>1 DEF AsNemu
<1>5. CASE i.f3 \notin {1, 2}
  <2>1. ~IsCsr(i) /\ ~RegWen(i)
    BY <1>1, <1>5 DEF IsCsr, RegWen
  <2>2. Retired(i, s) = Nothing(s)
    BY <1>1, <1>2, <2>1 DEF Retired, CsrsNext, Nothing
  <2>3. DecodeExec(i, s).end = "inv"
    BY <1>5 DEF DecodeExec, Invalid, Nothing
  <2> QED BY <2>2, <2>3 DEF AsNemu
<1> QED BY <1>3, <1>4, <1>5

\* The ALU has an operation for each funct3.
AluOpOf(f3) == CASE f3 = 0 -> 0 [] f3 = 1 -> 5 [] f3 = 2 -> 8 [] f3 = 3 -> 9
                 [] f3 = 4 -> 4 [] f3 = 5 -> 6 [] f3 = 6 -> 3 [] f3 = 7 -> 2

LEMMA AluIsBasic ==
  ASSUME NEW f3 \in 0 .. 7, NEW a, NEW b
  PROVE  Alu(AluOpOf(f3), a, b) = Basic(f3, a, b)
<1>1. CASE f3 = 0
  BY <1>1 DEF Alu, AluOpOf, Basic
<1>2. CASE f3 = 1
  BY <1>2 DEF Alu, AluOpOf, Basic, Shamt
<1>3. CASE f3 = 2
  BY <1>3 DEF Alu, AluOpOf, Basic
<1>4. CASE f3 = 3
  BY <1>4 DEF Alu, AluOpOf, Basic
<1>5. CASE f3 = 4
  BY <1>5 DEF Alu, AluOpOf, Basic
<1>6. CASE f3 = 5
  BY <1>6 DEF Alu, AluOpOf, Basic, Shamt
<1>7. CASE f3 = 6
  BY <1>7 DEF Alu, AluOpOf, Basic
<1>8. CASE f3 = 7
  BY <1>8 DEF Alu, AluOpOf, Basic
<1> QED BY <1>1, <1>2, <1>3, <1>4, <1>5, <1>6, <1>7, <1>8

LEMMA AluOthers ==
  ASSUME NEW a, NEW b
  PROVE  Alu(1, a, b) = Wrap(a - b) /\ Alu(7, a, b) = Sra(a, b)
BY DEF Alu, SraResult, Sra, Shamt

\* What an ALU instruction leaves in the core.
LEMMA AluRetires ==
  ASSUME NEW i, NEW s, IsRTypeAlu(i) \/ IsITypeAlu(i)
  PROVE  /\ Retired(i, s) = [rd |-> <<AluOut(i, s)>>, pc |-> Wrap(s.pc + 4), stored |-> <<>>,
                             csrs |-> s.csrs, end |-> "none"]
         /\ Retired(i, s) = [Nothing(s) EXCEPT !.rd = <<AluOut(i, s)>>]
<1>1. i.op \in {"OP", "OP-IMM"}
  BY DEF IsRTypeAlu, IsITypeAlu
<1>2. ~IsLoadAny(i) /\ ~IsStoreAny(i) /\ ~IsCsr(i) /\ ~TakesBranch(i, s) /\ RegWen(i)
  BY <1>1 DEF IsLoadAny, IsStoreAny, IsCsr, TakesBranch, RegWen
<1>3. WriteBack(i, s) = AluOut(i, s)
  BY <1>1, <1>2 DEF WriteBack
<1>4. NextPcWire(i, s) = Wrap(s.pc + 4)
  BY <1>1, <1>2 DEF NextPcWire
<1>5. CsrsNext(i, s) = s.csrs
  BY <1>1, <1>2 DEF CsrsNext
<1>6. Retired(i, s) = [rd |-> <<AluOut(i, s)>>, pc |-> Wrap(s.pc + 4), stored |-> <<>>,
                       csrs |-> s.csrs, end |-> "none"]
  BY <1>1, <1>2, <1>3, <1>4, <1>5 DEF Retired
<1>7. [Nothing(s) EXCEPT !.rd = <<AluOut(i, s)>>]
      = [rd |-> <<AluOut(i, s)>>, pc |-> Wrap(s.pc + 4), stored |-> <<>>, csrs |-> s.csrs, end |-> "none"]
  BY DEF Nothing
<1> QED BY <1>6, <1>7

\* What the core leaves of an instruction it has no wire for.
LEMMA NotAnAluOp ==
  ASSUME NEW i, NEW s, i.op \in {"OP", "OP-IMM"}, ~IsRTypeAlu(i), ~IsITypeAlu(i)
  PROVE  Retired(i, s) = Nothing(s)
<1>1. ~IsLoadAny(i) /\ ~IsStoreAny(i) /\ ~IsCsr(i) /\ ~TakesBranch(i, s)
  BY DEF IsLoadAny, IsStoreAny, IsCsr, TakesBranch
<1>2. ~RegWen(i)
  BY <1>1 DEF RegWen
<1>3. NextPcWire(i, s) = Wrap(s.pc + 4)
  BY <1>1 DEF NextPcWire
<1>4. CsrsNext(i, s) = s.csrs
  BY <1>1 DEF CsrsNext
<1> QED BY <1>1, <1>2, <1>3, <1>4 DEF Retired, Nothing

LEMMA EndOfNothing == \A s, v : [Nothing(s) EXCEPT !.rd = v].end = "none" /\ Invalid(s).end = "inv"
BY DEF Nothing, Invalid

LEMMA OpAgrees ==
  ASSUME NEW i, i.f3 \in 0 .. 7, NEW s \in State, i.op = "OP"
  PROVE  AsNemu(i, s)
<1> DEFINE out(v) == [Nothing(s) EXCEPT !.rd = <<v>>]
<1>1. ~IsITypeAlu(i) /\ AluA(i, s) = s.src1 /\ (IsRTypeAlu(i) => AluB(i, s) = s.src2)
  BY DEF IsITypeAlu, AluA, AluB
<1>2. IsRTypeAlu(i) => Retired(i, s) = out(Alu(AluOp(i), s.src1, s.src2))
  BY <1>1, AluRetires DEF AluOut
<1>3. CASE i.f7 = 0
  <2>1. IsRTypeAlu(i)
    BY <1>3 DEF IsRTypeAlu
  <2>2. AluOp(i) = AluOpOf(i.f3)
    BY <1>3, <2>1 DEF AluOp, AluOpOf
  <2>3. Alu(AluOp(i), s.src1, s.src2) = Basic(i.f3, s.src1, s.src2)
    BY <2>2, AluIsBasic
  <2>4. DecodeExec(i, s) = out(Basic(i.f3, s.src1, s.src2))
    BY <1>3 DEF DecodeExec
  <2>5. DecodeExec(i, s).end = "none"
    BY <2>4, EndOfNothing
  <2> QED BY <1>2, <2>1, <2>3, <2>4, <2>5 DEF AsNemu
<1>4. CASE i.f7 = 32 /\ i.f3 \in {0, 5}
  <2>1. IsRTypeAlu(i)
    BY <1>4 DEF IsRTypeAlu
  <2>2. AluOp(i) = IF i.f3 = 0 THEN 1 ELSE 7
    BY <1>4, <2>1 DEF AluOp
  <2>3. Alu(AluOp(i), s.src1, s.src2) = IF i.f3 = 0 THEN Wrap(s.src1 - s.src2) ELSE Sra(s.src1, s.src2)
    BY <2>2, AluOthers
  <2>4. DecodeExec(i, s) = out(Alu(AluOp(i), s.src1, s.src2))
    <3>1. CASE i.f3 = 0
      BY <1>4, <2>3, <3>1 DEF DecodeExec
    <3>2. CASE i.f3 = 5
      BY <1>4, <2>3, <3>2 DEF DecodeExec
    <3> QED BY <1>4, <3>1, <3>2
  <2>5. DecodeExec(i, s).end = "none"
    BY <2>4, EndOfNothing
  <2> QED BY <1>2, <2>1, <2>4, <2>5 DEF AsNemu
<1>5. CASE i.f7 = 1
  <2>1. i.f3 # 2 => DecodeExec(i, s) = out(MulDiv(i.f3, s.src1, s.src2))
    BY <1>5 DEF DecodeExec
  <2>2. i.f3 # 2 => DecodeExec(i, s).end = "none"
    BY <2>1, EndOfNothing
  <2>3. i.f3 = 2 => LooselyDecoded(i)
    BY <1>5 DEF LooselyDecoded
  <2> QED BY <1>5, <2>2, <2>3 DEF AsNemu
<1>6. CASE i.f7 \notin {0, 1} /\ ~(i.f7 = 32 /\ i.f3 \in {0, 5})
  <2>1. DecodeExec(i, s) = Invalid(s)
    BY <1>6 DEF DecodeExec
  <2>2. DecodeExec(i, s).end = "inv"
    BY <2>1, EndOfNothing
  <2>3. LooselyDecoded(i) \/ ~IsRTypeAlu(i)
    BY <1>6 DEF LooselyDecoded, IsRTypeAlu
  <2> QED BY <1>1, <2>2, <2>3, NotAnAluOp DEF AsNemu
<1> QED BY <1>3, <1>4, <1>5, <1>6

LEMMA OpImmAgrees ==
  ASSUME NEW i, i.f3 \in 0 .. 7, NEW s \in State, i.op = "OP-IMM"
  PROVE  AsNemu(i, s)
<1> DEFINE out(v) == [Nothing(s) EXCEPT !.rd = <<v>>]
<1>1. ~IsRTypeAlu(i) /\ AluA(i, s) = s.src1 /\ AluB(i, s) = i.imm
  BY DEF IsRTypeAlu, AluA, AluB
<1>2. IsITypeAlu(i) => Retired(i, s) = out(Alu(AluOp(i), s.src1, i.imm))
  BY <1>1, AluRetires DEF AluOut
<1>3. CASE i.f3 \in {1, 5} => i.f7 = 0
  <2>1. IsITypeAlu(i)
    BY <1>3 DEF IsITypeAlu
  <2>2. AluOp(i) = AluOpOf(i.f3)
    BY <1>3, <2>1 DEF AluOp, AluOpOf
  <2>3. Alu(AluOp(i), s.src1, i.imm) = Basic(i.f3, s.src1, i.imm)
    BY <2>2, AluIsBasic
  <2>4. DecodeExec(i, s) = out(Basic(i.f3, s.src1, i.imm))
    BY <1>3 DEF DecodeExec
  <2>5. DecodeExec(i, s).end = "none"
    BY <2>4, EndOfNothing
  <2> QED BY <1>2, <2>1, <2>3, <2>4, <2>5 DEF AsNemu
<1>4. CASE i.f3 = 5 /\ i.f7 = 32
  <2>1. IsITypeAlu(i)
    BY <1>4 DEF IsITypeAlu
  <2>2. AluOp(i) = 7
    BY <1>4, <2>1 DEF AluOp
  <2>3. Alu(AluOp(i), s.src1, i.imm) = Sra(s.src1, i.imm)
    BY <2>2, AluOthers
  <2>4. DecodeExec(i, s) = out(Sra(s.src1, i.imm))
    BY <1>4 DEF DecodeExec
  <2>5. DecodeExec(i, s).end = "none"
    BY <2>4, EndOfNothing
  <2> QED BY <1>2, <2>1, <2>3, <2>4, <2>5 DEF AsNemu
<1>5. CASE i.f3 \in {1, 5} /\ i.f7 # 0 /\ ~(i.f3 = 5 /\ i.f7 = 32)
  <2>1. DecodeExec(i, s) = Invalid(s)
    BY <1>5 DEF DecodeExec
  <2>2. DecodeExec(i, s).end = "inv"
    BY <2>1, EndOfNothing
  <2>3. LooselyDecoded(i) \/ ~IsITypeAlu(i)
    BY <1>5 DEF LooselyDecoded, IsITypeAlu
  <2> QED BY <1>1, <2>2, <2>3, NotAnAluOp DEF AsNemu
<1> QED BY <1>3, <1>4, <1>5

LEMMA AddressWord ==
  ASSUME NEW i, i.imm \in Word, NEW s \in State
  PROVE  Wrap(s.src1 + i.imm) \in Word
<1>1. s.src1 \in Word
  BY DEF State
<1>2. s.src1 \in Int /\ i.imm \in Int
  BY <1>1, WrapWord
<1> QED BY <1>2, WrapWord

LEMMA LoadAgrees ==
  ASSUME NEW i, i.f3 \in 0 .. 7, i.imm \in Word, NEW s \in State, i.op = "LOAD"
  PROVE  AsNemu(i, s)
<1> DEFINE place == Wrap(s.src1 + i.imm)
           out(v) == [Nothing(s) EXCEPT !.rd = <<v>>]
<1>1. ~IsRTypeAlu(i) /\ ~IsITypeAlu(i) /\ ~IsStoreAny(i) /\ ~IsCsr(i) /\ ~TakesBranch(i, s)
  BY DEF IsRTypeAlu, IsITypeAlu, IsStoreAny, IsCsr, TakesBranch
<1>2. NextPcWire(i, s) = Wrap(s.pc + 4)
  BY <1>1 DEF NextPcWire
<1>3. CsrsNext(i, s) = s.csrs
  BY <1>1 DEF CsrsNext
<1>4. CASE i.f3 \in {0, 1, 2, 4, 5}
  <2>1. IsLoadAny(i) /\ RegWen(i)
    BY <1>4 DEF IsLoadAny, RegWen
  <2>2. AluOut(i, s) = place
    BY <1>1, AluAdds DEF AluA
  <2>3. WriteBack(i, s) = RData(i.f3, place, HostRead(Memory, WordAt(place), 4))
    <3>1. s.mem = Memory
      BY DEF State
    <3> QED BY <1>1, <2>1, <2>2, <3>1 DEF WriteBack
  <2>4. Retired(i, s) = out(WriteBack(i, s))
    <3>1. Retired(i, s) = [rd |-> <<WriteBack(i, s)>>, pc |-> Wrap(s.pc + 4), stored |-> <<>>,
                           csrs |-> s.csrs, end |-> "none"]
      BY <1>1, <1>2, <1>3, <2>1 DEF Retired
    <3> QED BY <3>1 DEF Nothing
  <2> DEFINE read == IF i.f3 \in {0, 1} THEN Sext(HostRead(Memory, place, LenOf(i.f3)), ByteBits * LenOf(i.f3))
                     ELSE HostRead(Memory, place, LenOf(i.f3))
  <2>5. Aligned(i, s) => WriteBack(i, s) = read
    <3>1. Aligned(i, s) => place % LenOf(i.f3) = 0
      BY DEF Aligned
    <3>2. place \in Word
      BY AddressWord
    <3> HIDE DEF place
    <3> QED BY <1>4, <2>3, <3>1, <3>2, LoadsAgree
  <2>6. DecodeExec(i, s) = out(read)
    <3>1. s.mem = Memory
      BY DEF State
    <3>2. CASE i.f3 \in {0, 1}
      BY <3>1, <3>2 DEF DecodeExec
    <3>3. CASE i.f3 \in {2, 4, 5}
      BY <3>1, <3>3 DEF DecodeExec
    <3> QED BY <1>4, <3>2, <3>3
  <2>7. DecodeExec(i, s).end = "none"
    BY <2>6, EndOfNothing
  <2> HIDE DEF read
  <2> QED BY <2>4, <2>5, <2>6, <2>7 DEF AsNemu
<1>5. CASE i.f3 \notin {0, 1, 2, 4, 5}
  <2>1. ~IsLoadAny(i) /\ ~RegWen(i)
    BY <1>1, <1>5 DEF IsLoadAny, RegWen
  <2>2. Retired(i, s) = Nothing(s)
    BY <1>1, <1>2, <1>3, <2>1 DEF Retired, Nothing
  <2>3. DecodeExec(i, s) = Invalid(s)
    BY <1>5 DEF DecodeExec
  <2>4. DecodeExec(i, s).end = "inv"
    BY <2>3, EndOfNothing
  <2> QED BY <2>2, <2>4 DEF AsNemu
<1> QED BY <1>4, <1>5

LEMMA StoreAgrees ==
  ASSUME NEW i, i.f3 \in 0 .. 7, i.imm \in Word, NEW s \in State, i.op = "STORE"
  PROVE  AsNemu(i, s)
<1> DEFINE place == Wrap(s.src1 + i.imm)
           out(v) == [Nothing(s) EXCEPT !.stored = v]
<1>1. ~IsRTypeAlu(i) /\ ~IsITypeAlu(i) /\ ~IsLoadAny(i) /\ ~IsCsr(i) /\ ~TakesBranch(i, s) /\ ~RegWen(i)
  BY DEF IsRTypeAlu, IsITypeAlu, IsLoadAny, IsCsr, TakesBranch, RegWen
<1>2. NextPcWire(i, s) = Wrap(s.pc + 4)
  BY <1>1 DEF NextPcWire
<1>3. CsrsNext(i, s) = s.csrs
  BY <1>1 DEF CsrsNext
<1>4. CASE i.f3 \in {0, 1, 2}
  <2>1. IsStoreAny(i)
    BY <1>4 DEF IsStoreAny
  <2>2. AluOut(i, s) = place
    BY <1>1, AluAdds DEF AluA
  <2> DEFINE put == <<PmemWrite(place, MWData(i.f3, place, s.src2), WStrb(i.f3, place))>>
  <2>3. Retired(i, s) = out(put)
    <3>1. Retired(i, s) = [rd |-> <<>>, pc |-> Wrap(s.pc + 4), stored |-> put,
                           csrs |-> s.csrs, end |-> "none"]
      BY <1>1, <1>2, <1>3, <2>1, <2>2 DEF Retired
    <3> HIDE DEF put
    <3> QED BY <3>1 DEF Nothing
  <2>4. Aligned(i, s) => put = HostWrite(place, LenOf(i.f3), s.src2)
    <3>1. Aligned(i, s) => place % LenOf(i.f3) = 0
      BY DEF Aligned
    <3>2. place \in Word /\ s.src2 \in Word
      BY AddressWord DEF State
    <3> HIDE DEF place
    <3> QED BY <1>4, <3>1, <3>2, StoresAgree
  <2>5. DecodeExec(i, s) = out(HostWrite(place, LenOf(i.f3), s.src2))
    BY <1>4 DEF DecodeExec
  <2>6. DecodeExec(i, s).end = "none"
    BY <2>5 DEF Nothing
  <2> HIDE DEF put
  <2> QED BY <2>3, <2>4, <2>5, <2>6 DEF AsNemu
<1>5. CASE i.f3 \notin {0, 1, 2}
  <2>1. ~IsStoreAny(i)
    BY <1>5 DEF IsStoreAny
  <2>2. Retired(i, s) = Nothing(s)
    BY <1>1, <1>2, <1>3, <2>1 DEF Retired, Nothing
  <2>3. DecodeExec(i, s) = Invalid(s)
    BY <1>5 DEF DecodeExec
  <2>4. DecodeExec(i, s).end = "inv"
    BY <2>3, EndOfNothing
  <2> QED BY <2>2, <2>4 DEF AsNemu
<1> QED BY <1>4, <1>5

\* The classes together.
LEMMA CoreAgrees ==
  ASSUME NEW i, i.f3 \in 0 .. 7, i.imm \in Word, NEW s \in State
  PROVE  AsNemu(i, s)
BY UpperAgrees, JalrAgrees, BranchAgrees, OtherAgrees, CsrAgrees, OpAgrees, OpImmAgrees, LoadAgrees, StoreAgrees

\* The emulator of the subset does what NEMU does.
LEMMA EmulatorAgrees ==
  ASSUME NEW i, i.imm \in Word, NEW s \in State, IsMinirv(i),
         i.op = "JALR" => InstCycle(i, s).pc % 2 = 0
  PROVE  InstCycle(i, s) = DecodeExec(i, s)
<1> DEFINE place == Wrap(s.src1 + i.imm)
           out(v) == [Nothing(s) EXCEPT !.rd = <<v>>]
<1>1. CASE i.op = "OP" /\ i.f3 = 0 /\ i.f7 = 0
  BY <1>1 DEF InstCycle, DecodeExec, Basic
<1>2. CASE i.op = "OP-IMM" /\ i.f3 = 0
  BY <1>2 DEF InstCycle, DecodeExec, Basic
<1>3. CASE i.op = "LUI"
  BY <1>3 DEF InstCycle, DecodeExec
<1>4. CASE i.op = "JALR" /\ i.f3 = 0
  <2>1. InstCycle(i, s) = [out(Wrap(s.pc + 4)) EXCEPT !.pc = place]
    BY <1>4 DEF InstCycle
  <2>2. InstCycle(i, s).pc = place
    BY <2>1 DEF Nothing
  <2>3. place - (place % 2) = place
    <3>1. place \in Word
      BY AddressWord
    <3>2. place % 2 = 0
      BY <1>4, <2>2
    <3> HIDE DEF place
    <3>3. place \in Nat
      BY <3>1, WrapWord
    <3> QED BY <3>2, <3>3
  <2>4. DecodeExec(i, s) = [out(Wrap(s.pc + 4)) EXCEPT !.pc = place - (place % 2)]
    BY <1>4 DEF DecodeExec
  <2> HIDE DEF place
  <2> QED BY <2>1, <2>3, <2>4
<1>5. CASE i.op = "LOAD" /\ i.f3 = 2
  <2>1. LenOf(i.f3) = 4
    BY <1>5 DEF LenOf
  <2> QED BY <1>5, <2>1 DEF InstCycle, DecodeExec
<1>6. CASE i.op = "LOAD" /\ i.f3 = 4
  <2>1. LenOf(i.f3) = 1
    BY <1>6 DEF LenOf
  <2> QED BY <1>6, <2>1 DEF InstCycle, DecodeExec
<1>7. CASE i.op = "STORE" /\ i.f3 = 2
  <2>1. LenOf(i.f3) = 4
    BY <1>7 DEF LenOf
  <2> QED BY <1>7, <2>1 DEF InstCycle, DecodeExec
<1>8. CASE i.op = "STORE" /\ i.f3 = 0
  <2>1. LenOf(i.f3) = 1
    BY <1>8 DEF LenOf
  <2> QED BY <1>8, <2>1 DEF InstCycle, DecodeExec
<1> QED BY <1>1, <1>2, <1>3, <1>4, <1>5, <1>6, <1>7, <1>8 DEF IsMinirv

\* The same for any whole number.
LEMMA IntDivMod ==
  ASSUME NEW H \in Nat \ {0}, NEW t \in Int
  PROVE  t % H \in 0 .. H - 1 /\ t \div H \in Int /\ t = (t \div H) * H + (t % H)
<1>1. t % H \in 0 .. H - 1
  OBVIOUS
<1>2. t = (t \div H) * H + (t % H)
  OBVIOUS
<1>3. t \div H \in Int
  OBVIOUS
<1> QED BY <1>1, <1>2, <1>3

LEMMA IntMulMono ==
  ASSUME NEW H \in Nat \ {0}, NEW p \in Int, NEW quo \in Int, p < quo
  PROVE  p * H + H <= quo * H
  OBVIOUS

\* Adding whole moduli does not change what a number is reduced to.
LEMMA ModAdds ==
  ASSUME NEW M \in Nat \ {0}, NEW a \in 0 .. M - 1, NEW k \in Int
  PROVE  (a + k * M) % M = a
<1> DEFINE t == a + k * M
           d == t \div M
           e == t % M
<1>1. k * M \in Int
  OBVIOUS
<1>2. t \in Int
  BY <1>1
<1>3. e \in 0 .. M - 1 /\ d \in Int /\ t = d * M + e
  <2> HIDE DEF t
  <2> QED BY <1>2, IntDivMod
<1> DEFINE x == d * M
           y == k * M
<1>4. x \in Int /\ y \in Int /\ x + e = a + y
  BY <1>1, <1>3
<1>5. d < k => x + M <= y
  BY <1>3, IntMulMono
<1>6. k < d => y + M <= x
  BY <1>3, IntMulMono
<1>7. d = k => x = y
  OBVIOUS
<1> HIDE DEF x, y, d, e
<1> QED BY <1>3, <1>4, <1>5, <1>6, <1>7 DEF e

\* Division that truncates towards zero, and its remainder, which has the sign
\* of the dividend.
LEMMA Truncates ==
  ASSUME NEW x \in Int, NEW y \in Int, y # 0
  PROVE  /\ Quotient(x, y) \in Int
         /\ x - Quotient(x, y) * y = IF x < 0 THEN -(Magnitude(x) % Magnitude(y)) ELSE Magnitude(x) % Magnitude(y)
         /\ Magnitude(x) % Magnitude(y) \in 0 .. Magnitude(y) - 1
<1> DEFINE m == Magnitude(x)
           n == Magnitude(y)
           d == m \div n
           e == m % n
<1>1. m \in Nat /\ n \in Nat \ {0}
  BY DEF Magnitude
<1>2. d \in Nat /\ e \in 0 .. n - 1 /\ m = d * n + e
  <2> HIDE DEF m, n
  <2> QED BY <1>1, DivMod
<1>3. Quotient(x, y) = IF (x < 0) = (y < 0) THEN d ELSE -d
  BY DEF Quotient
<1>4. m = (IF x < 0 THEN -x ELSE x) /\ n = (IF y < 0 THEN -y ELSE y)
  BY DEF Magnitude
<1>5. Quotient(x, y) * y = IF x < 0 THEN -(d * n) ELSE d * n
  <2> HIDE DEF d
  <2>1. CASE x < 0 /\ y < 0
    <3>1. Quotient(x, y) = d /\ n = -y
      BY <1>3, <1>4, <2>1
    <3>2. d * y = -(d * (-y))
      BY <1>2
    <3> QED BY <2>1, <3>1, <3>2
  <2>2. CASE x >= 0 /\ y >= 0
    BY <1>3, <1>4, <2>2
  <2>3. CASE x < 0 /\ y >= 0
    <3>1. Quotient(x, y) = -d /\ n = y
      BY <1>3, <1>4, <2>3
    <3>2. (-d) * y = -(d * y)
      BY <1>2
    <3> QED BY <2>3, <3>1, <3>2
  <2>4. CASE x >= 0 /\ y < 0
    <3>1. Quotient(x, y) = -d /\ n = -y
      BY <1>3, <1>4, <2>4
    <3>2. (-d) * y = d * (-y)
      BY <1>2
    <3> QED BY <2>4, <3>1, <3>2
  <2> QED BY <2>1, <2>2, <2>3, <2>4
<1>6. x - Quotient(x, y) * y = IF x < 0 THEN -e ELSE e
  <2> DEFINE z == d * n
  <2>1. z \in Int /\ m = z + e
    BY <1>1, <1>2
  <2>2. Quotient(x, y) * y = IF x < 0 THEN -z ELSE z
    BY <1>5
  <2>3. m = IF x < 0 THEN -x ELSE x
    BY <1>4
  <2> HIDE DEF z, m, e, d
  <2> QED BY <1>2, <2>1, <2>2, <2>3
<1>7. Quotient(x, y) \in Int
  BY <1>2, <1>3
<1> QED BY <1>2, <1>6, <1>7

\* The lowest int is half of all words.
LEMMA HalfOfAll ==
  /\ Lowest \in Nat \ {0} /\ Base2[WordBits] = 2 * Lowest /\ Base2[WordBits] \in Nat \ {0}
<1>1. WordBits \in 1 .. WordBits /\ WordBits - 1 \in 0 .. WordBits /\ WordBits \in 0 .. WordBits
  BY RvAssumption
<1> QED BY <1>1, Base2Steps, Base2Nat DEF Lowest

\* Which word is which number.
LEMMA SignedWord ==
  ASSUME NEW a \in Word
  PROVE  /\ Signed(a) \in (-Lowest) .. Lowest - 1
         /\ \E k \in Int : Signed(a) = a + k * Base2[WordBits]
         /\ a # 0 => Signed(a) # 0
         /\ Wrap(Signed(a)) = a
<1> DEFINE M == Base2[WordBits]
<1>1. /\ Lowest \in Nat \ {0} /\ M = 2 * Lowest /\ a \in 0 .. M - 1
      /\ Signed(a) = IF a < Lowest THEN a ELSE a - M
  BY HalfOfAll DEF Word, Signed, Lowest
<1> HIDE DEF M
<1>2. Signed(a) \in (-Lowest) .. Lowest - 1 /\ (a # 0 => Signed(a) # 0)
  BY <1>1
<1>3. PICK k \in {0, -1} : Signed(a) = a + k * M
  <2>1. Signed(a) = a + 0 * M \/ Signed(a) = a + (-1) * M
    BY <1>1
  <2> QED BY <2>1
<1>4. (a + k * M) % M = a
  <2>1. k \in Int /\ M \in Nat \ {0}
    BY <1>1
  <2> QED BY <1>1, <2>1, ModAdds
<1> QED BY <1>2, <1>3, <1>4 DEF Wrap, M

\* A word made of an int that fits is that int.
LEMMA SignedWrap ==
  ASSUME NEW z \in Int, -Lowest < z, z < Lowest
  PROVE  Signed(Wrap(z)) = z /\ (z = 0 => Wrap(z) = 0)
<1> DEFINE M == Base2[WordBits]
<1>1. Lowest \in Nat \ {0} /\ M = 2 * Lowest /\ M \in Nat \ {0}
  BY HalfOfAll
<1> HIDE DEF M
<1>2. Wrap(z) = z % M
  BY DEF Wrap, M
<1>3. \A w : Signed(w) = IF w < Lowest THEN w ELSE w - M
  BY DEF Signed, Lowest, M
<1>4. CASE z >= 0
  <2>1. z \in 0 .. M - 1
    BY <1>1, <1>4
  <2>2. z % M = z
    BY <1>1, <2>1, ModSmall
  <2> QED BY <1>2, <1>3, <2>2
<1>5. CASE z < 0
  <2> DEFINE w == z + M
  <2>1. w \in 0 .. M - 1 /\ w >= Lowest /\ w - M = z
    BY <1>1, <1>5
  <2>2. (w + (-1) * M) % M = w
    <3> HIDE DEF w
    <3> QED BY <1>1, <2>1, ModAdds
  <2>3. w + (-1) * M = z
    BY <1>1
  <2>4. z % M = w
    BY <2>2, <2>3
  <2>5. Wrap(z) = w /\ Signed(w) = IF w < Lowest THEN w ELSE w - M
    BY <1>2, <1>3, <2>4
  <2> HIDE DEF w
  <2> QED BY <1>1, <1>5, <2>1, <2>5
<1> QED BY <1>4, <1>5

\* The remainder that is left over, reduced like everything else.
LEMMA Recombines ==
  ASSUME NEW a \in Word, NEW b \in Word, NEW quo \in Int, NEW r \in Int,
         Signed(a) = quo * Signed(b) + r
  PROVE  Wrap(Wrap(quo) * b + Wrap(r)) = a
<1> DEFINE M == Base2[WordBits]
           q1 == Wrap(quo)
           r1 == Wrap(r)
           x == Signed(a)
           y == Signed(b)
<1>1. M \in Nat \ {0}
  BY HalfOfAll
<1>2. /\ q1 \in Int /\ r1 \in Int
      /\ \E k \in Int : quo = q1 + k * M
      /\ \E k \in Int : r = r1 + k * M
  <2>1. \A t \in Int : t % M \in Int /\ t \div M \in Int /\ t = (t \div M) * M + (t % M)
    <3> HIDE DEF M
    <3> QED BY <1>1, IntDivMod
  <2>2. \A t \in Int : Wrap(t) \in Int /\ \E k \in Int : t = Wrap(t) + k * M
    <3> HIDE DEF M
    <3>1. \A t : Wrap(t) = t % M
      BY DEF Wrap, M
    <3> SUFFICES ASSUME NEW t \in Int PROVE Wrap(t) \in Int /\ \E k \in Int : t = Wrap(t) + k * M
      OBVIOUS
    <3> DEFINE d == t \div M
               e == t % M
    <3>2. d \in Int /\ e \in Int /\ t = d * M + e /\ Wrap(t) = e
      BY <2>1, <3>1
    <3> HIDE DEF d, e
    <3>3. t = e + d * M
      BY <1>1, <3>2
    <3> QED BY <3>2, <3>3
  <2> QED BY <2>2
<1>3. PICK k1 \in Int : quo = q1 + k1 * M
  BY <1>2
<1>4. PICK k2 \in Int : r = r1 + k2 * M
  BY <1>2
<1>5. PICK k3 \in Int : x = a + k3 * M
  BY SignedWord
<1>6. PICK k4 \in Int : y = b + k4 * M
  BY SignedWord
<1>7. a \in Int /\ b \in Int /\ a \in 0 .. M - 1
  BY HalfOfAll DEF Word
<1> DEFINE K == k3 - q1 * k4 - k1 * b - k1 * k4 * M - k2
<1>8. q1 * b + r1 = a + K * M /\ K \in Int
  <2>1. a + k3 * M = (q1 + k1 * M) * (b + k4 * M) + (r1 + k2 * M)
    BY <1>3, <1>4, <1>5, <1>6
  <2> HIDE DEF M, q1, r1, x, y
  <2>2. K \in Int
    BY <1>1, <1>2, <1>7
  <2>3. (q1 + k1 * M) * (b + k4 * M) + (r1 + k2 * M) = q1 * b + r1 + (q1 * k4 + k1 * b + k1 * k4 * M + k2) * M
    BY <1>1, <1>2, <1>7
  <2>4. K * M = k3 * M - (q1 * k4 + k1 * b + k1 * k4 * M + k2) * M
    BY <1>1, <1>2, <1>7
  <2> DEFINE u == (q1 * k4 + k1 * b + k1 * k4 * M + k2) * M
             v == q1 * b
             w == k3 * M
  <2>5. u \in Int /\ v \in Int /\ w \in Int
    BY <1>1, <1>2, <1>7
  <2>6. a + w = v + r1 + u /\ K * M = w - u
    BY <2>1, <2>3, <2>4
  <2> HIDE DEF u, w, K
  <2>7. v + r1 = a + K * M
    <3> DEFINE km == K * M
    <3>1. a + w = v + r1 + u /\ km = w - u
      BY <2>6
    <3> HIDE DEF v, km
    <3>2. v + r1 = a + km
      BY <1>2, <1>7, <2>5, <3>1
    <3> QED BY <3>2 DEF km
  <2> QED BY <2>2, <2>7
<1>9. (a + K * M) % M = a
  <2> HIDE DEF K, M
  <2> QED BY <1>1, <1>7, <1>8, ModAdds
<1>10. Wrap(q1 * b + r1) = (q1 * b + r1) % M
  BY DEF Wrap
<1> HIDE DEF K, M, q1, r1
<1>11. Wrap(q1 * b + r1) = a
  BY <1>8, <1>9, <1>10
<1> QED BY <1>11 DEF q1, r1

\* What NEMU's divisions are to be: quo and r, of a by b, signed or not.
Divides(signed, a, b, quo, r) ==
  /\ Wrap(quo * b + r) = a
  /\ ~signed /\ b # 0 => r < b
  /\ signed /\ b # 0 =>
       /\ Magnitude(Signed(r)) < Magnitude(Signed(b))
       /\ r # 0 => (Signed(r) < 0) = (Signed(a) < 0)

\* Division by zero, unsigned division and signed division, as the ISA defines them.
LEMMA ByZero ==
  ASSUME NEW signed \in BOOLEAN, NEW a \in Word
  PROVE  Divides(signed, a, 0, Wrap(-1), a)
<1>1. Wrap(-1) \in Int
  BY WrapWord
<1>2. Wrap(-1) * 0 + a = a
  BY <1>1 DEF Word
<1>3. Wrap(a) = a
  BY WrapWord
<1> QED BY <1>2, <1>3 DEF Divides

LEMMA Unsigned ==
  ASSUME NEW a \in Word, NEW b \in Word, b # 0
  PROVE  Divides(FALSE, a, b, a \div b, a % b)
<1>1. a \in Nat /\ b \in Nat \ {0} /\ Wrap(a) = a
  BY WrapWord
<1>2. a % b \in 0 .. b - 1 /\ a = (a \div b) * b + (a % b)
  BY <1>1, DivMod
<1> DEFINE quo == a \div b
           r == a % b
<1>3. Wrap(quo * b + r) = a /\ r < b
  BY <1>1, <1>2
<1> HIDE DEF quo, r
<1> QED BY <1>3 DEF Divides, quo, r

\* The lowest by minus one: the quotient overflows into the dividend.
LEMMA Overflows == Divides(TRUE, Lowest, Wrap(-1), Lowest, 0)
<1> DEFINE M == Base2[WordBits]
           b == Wrap(-1)
<1>1. Lowest \in Nat \ {0} /\ M = 2 * Lowest /\ M \in Nat \ {0}
  BY HalfOfAll
<1>2. -1 = M - 1 + (-1) * M
  BY <1>1
<1>3. (M - 1 + (-1) * M) % M = M - 1
  <2>1. M - 1 \in 0 .. M - 1 /\ -1 \in Int
    BY <1>1
  <2> HIDE DEF M
  <2> QED BY <1>1, <2>1, ModAdds
<1>4. b = M - 1
  BY <1>2, <1>3 DEF Wrap
<1>5. Signed(b) = -1 /\ Signed(0) = 0
  <2> HIDE DEF M, b
  <2>1. M - 1 >= Lowest /\ 0 < Lowest
    BY <1>1
  <2>2. \A w : Signed(w) = IF w < Lowest THEN w ELSE w - M
    BY DEF Signed, Lowest, M
  <2> QED BY <1>1, <1>4, <2>1, <2>2
<1>6. Lowest * b + 0 = Lowest + (Lowest - 1) * M
  <2> HIDE DEF M, b
  <2>1. Lowest * (2 * Lowest - 1) = Lowest + (Lowest - 1) * (2 * Lowest)
    BY <1>1
  <2> QED BY <1>1, <1>4, <2>1
<1>7. (Lowest + (Lowest - 1) * M) % M = Lowest
  <2> HIDE DEF M
  <2>1. Lowest \in 0 .. M - 1 /\ Lowest - 1 \in Int
    BY <1>1
  <2> QED BY <1>1, <2>1, ModAdds
<1>8. Wrap(Lowest * b + 0) = Lowest
  BY <1>6, <1>7 DEF Wrap
<1>9. Magnitude(0) = 0 /\ Magnitude(-1) = 1
  <2>1. \A x \in Int : Magnitude(x) = IF x < 0 THEN -x ELSE x
    BY DEF Magnitude
  <2> QED BY <2>1
<1>10. Divides(TRUE, Lowest, b, Lowest, 0)
  <2> HIDE DEF b
  <2>1. Magnitude(Signed(0)) < Magnitude(Signed(b))
    BY <1>5, <1>9
  <2> QED BY <1>8, <2>1 DEF Divides
<1> QED BY <1>10

LEMMA SignedDivides ==
  ASSUME NEW a \in Word, NEW b \in Word, b # 0
  PROVE  Divides(TRUE, a, b, Wrap(Quotient(Signed(a), Signed(b))),
                             Wrap(Signed(a) - Quotient(Signed(a), Signed(b)) * Signed(b)))
<1> DEFINE x == Signed(a)
           y == Signed(b)
           quo == Quotient(x, y)
           r == x - quo * y
<1>1. Lowest \in Nat \ {0} /\ x \in (-Lowest) .. Lowest - 1 /\ y \in (-Lowest) .. Lowest - 1 /\ y # 0
  BY HalfOfAll, SignedWord
<1>2. x \in Int /\ y \in Int
  BY <1>1
<1>3. /\ quo \in Int /\ r = (IF x < 0 THEN -(Magnitude(x) % Magnitude(y)) ELSE Magnitude(x) % Magnitude(y))
      /\ Magnitude(x) % Magnitude(y) \in 0 .. Magnitude(y) - 1
  <2> HIDE DEF x, y
  <2> QED BY <1>1, <1>2, Truncates
<1>4. r \in Int /\ x = quo * y + r
  <2> HIDE DEF x, y, quo
  <2> QED BY <1>2, <1>3
<1>5. Wrap(Wrap(quo) * b + Wrap(r)) = a
  <2>1. Signed(a) = quo * Signed(b) + r
    BY <1>4
  <2> HIDE DEF quo, r
  <2> QED BY <1>3, <1>4, <2>1, Recombines
<1>6. -Lowest < r /\ r < Lowest /\ Magnitude(r) < Magnitude(y) /\ (r # 0 => (r < 0) = (x < 0))
  <2>1. Magnitude(y) = (IF y < 0 THEN -y ELSE y) /\ Magnitude(r) = IF r < 0 THEN -r ELSE r
    BY DEF Magnitude
  <2> DEFINE e == Magnitude(x) % Magnitude(y)
             n == Magnitude(y)
  <2>2. /\ r = IF x < 0 THEN -e ELSE e
        /\ e \in 0 .. n - 1
    BY <1>3
  <2>3. n = (IF y < 0 THEN -y ELSE y) /\ n \in Nat /\ n <= Lowest
    BY <1>1, <2>1
  <2> HIDE DEF e, n, r, x, y
  <2>4. Magnitude(r) < n
    BY <2>1, <2>2, <2>3, <1>2
  <2> QED BY <1>1, <2>1, <2>2, <2>3, <2>4 DEF n
<1>7. Signed(Wrap(r)) = r /\ (r = 0 => Wrap(r) = 0)
  <2> HIDE DEF r
  <2> QED BY <1>4, <1>6, SignedWrap
<1>8. Divides(TRUE, a, b, Wrap(quo), Wrap(r))
  <2> HIDE DEF quo, r
  <2> QED BY <1>5, <1>6, <1>7 DEF Divides
<1> QED BY <1>8

\* The four instructions of inst.c.
LEMMA NemuDivides ==
  ASSUME NEW a \in Word, NEW b \in Word
  PROVE  /\ Divides(TRUE, a, b, MulDiv(4, a, b), MulDiv(6, a, b))
         /\ Divides(FALSE, a, b, MulDiv(5, a, b), MulDiv(7, a, b))
<1>1. Divides(FALSE, a, b, MulDiv(5, a, b), MulDiv(7, a, b))
  <2>1. /\ MulDiv(5, a, b) = (IF b = 0 THEN Wrap(-1) ELSE a \div b)
        /\ MulDiv(7, a, b) = IF b = 0 THEN a ELSE a % b
    BY DEF MulDiv
  <2>2. CASE b = 0
    BY <2>1, <2>2, ByZero
  <2>3. CASE b # 0
    <3>1. MulDiv(5, a, b) = a \div b /\ MulDiv(7, a, b) = a % b
      BY <2>1, <2>3
    <3> QED BY <2>3, <3>1, Unsigned
  <2> QED BY <2>2, <2>3
<1>2. Divides(TRUE, a, b, MulDiv(4, a, b), MulDiv(6, a, b))
  <2> DEFINE quo == Quotient(Signed(a), Signed(b))
             r == Signed(a) - Quotient(Signed(a), Signed(b)) * Signed(b)
  <2>1. /\ MulDiv(4, a, b) = (IF b = 0 THEN Wrap(-1)
                              ELSE IF a = Lowest /\ b = Wrap(-1) THEN a ELSE Wrap(quo))
        /\ MulDiv(6, a, b) = IF b = 0 THEN a
                             ELSE IF a = Lowest /\ b = Wrap(-1) THEN 0 ELSE Wrap(r)
    BY DEF MulDiv
  <2>2. CASE b = 0
    BY <2>1, <2>2, ByZero
  <2>3. CASE b # 0 /\ a = Lowest /\ b = Wrap(-1)
    BY <2>1, <2>3, Overflows
  <2>4. CASE b # 0 /\ ~(a = Lowest /\ b = Wrap(-1))
    <3>1. MulDiv(4, a, b) = Wrap(quo) /\ MulDiv(6, a, b) = Wrap(r)
      BY <2>1, <2>4
    <3>2. Divides(TRUE, a, b, Wrap(quo), Wrap(r))
      BY <2>4, SignedDivides
    <3> QED BY <3>1, <3>2
  <2> QED BY <2>2, <2>3, <2>4
<1> QED BY <1>1, <1>2

\* Every machine has executed the same instruction on the same state.
DatapathInv ==
  \/ executed = NoCode
  \/ /\ executed \in Code /\ before \in State
     /\ core = Retired(executed, before)
     /\ nemu = DecodeExec(executed, before)
     /\ emu = InstCycle(executed, before)

\* The formats together.
LEMMA ImmediatesAgree == \A t \in DOMAIN Imm : \A k \in 0 .. 31 : CoreImm[t][32 - k] = Imm[t][k]
<1>1. DOMAIN Imm = {"I", "U", "S", "B", "J"}
  BY DEF Imm
<1>2. \A t \in {"I", "U", "S", "B", "J"} : \A k \in 0 .. 31 : CoreImm[t][32 - k] = Imm[t][k]
  BY ImmIAgrees, ImmUAgrees, ImmSAgrees, ImmBAgrees, ImmJAgrees
<1> QED BY <1>1, <1>2

\* What the invariant says after an execution is the property.
LEMMA AgreeAfterExecute ==
  ASSUME DatapathInv PROVE InstructionsAgree
<1> SUFFICES ASSUME executed # NoCode
             PROVE  /\ \A t \in DOMAIN Imm : \A k \in 0 .. 31 : CoreImm[t][32 - k] = Imm[t][k]
                    /\ nemu.end \notin {"inv", "panic"} /\ Aligned(executed, before) =>
                         \/ core = nemu
                         \/ executed.op = "OP" /\ executed.f7 = 1
                    /\ nemu.end = "inv" /\ ~LooselyDecoded(executed) => core = Nothing(before)
                    /\ IsMinirv(executed) /\ (executed.op = "JALR" => emu.pc % 2 = 0) => emu = nemu
                    /\ executed.op = "OP" /\ executed.f7 = 1 /\ executed.f3 \in {4, 5} =>
                         LET r == MulDiv(executed.f3 + 2, before.src1, before.src2)
                         IN /\ Wrap(nemu.rd[1] * before.src2 + r) = before.src1
                            /\ executed.f3 = 5 /\ before.src2 # 0 => r < before.src2
                            /\ executed.f3 = 4 /\ before.src2 # 0 =>
                                 /\ Magnitude(Signed(r)) < Magnitude(Signed(before.src2))
                                 /\ r # 0 => (Signed(r) < 0) = (Signed(before.src1) < 0)
  BY DEF InstructionsAgree
<1>1. /\ executed \in Code /\ before \in State
      /\ core = Retired(executed, before)
      /\ nemu = DecodeExec(executed, before)
      /\ emu = InstCycle(executed, before)
  BY DEF DatapathInv
<1>2. executed.f3 \in 0 .. 7 /\ executed.imm \in Word
  BY <1>1, DatapathAssumption
<1>3. AsNemu(executed, before)
  BY <1>1, <1>2, CoreAgrees
<1>4. nemu.end \notin {"inv", "panic"} /\ Aligned(executed, before) =>
        core = nemu \/ (executed.op = "OP" /\ executed.f7 = 1)
  BY <1>1, <1>3 DEF AsNemu
<1>5. nemu.end = "inv" /\ ~LooselyDecoded(executed) => core = Nothing(before)
  BY <1>1, <1>3 DEF AsNemu
<1>6. IsMinirv(executed) /\ (executed.op = "JALR" => emu.pc % 2 = 0) => emu = nemu
  BY <1>1, <1>2, EmulatorAgrees
<1>7. ASSUME executed.op = "OP" /\ executed.f7 = 1 /\ executed.f3 \in {4, 5}
      PROVE  LET r == MulDiv(executed.f3 + 2, before.src1, before.src2)
             IN /\ Wrap(nemu.rd[1] * before.src2 + r) = before.src1
                /\ executed.f3 = 5 /\ before.src2 # 0 => r < before.src2
                /\ executed.f3 = 4 /\ before.src2 # 0 =>
                     /\ Magnitude(Signed(r)) < Magnitude(Signed(before.src2))
                     /\ r # 0 => (Signed(r) < 0) = (Signed(before.src1) < 0)
  <2> DEFINE a == before.src1
             b == before.src2
  <2>1. a \in Word /\ b \in Word
    BY <1>1 DEF State
  <2>2. nemu = [Nothing(before) EXCEPT !.rd = <<MulDiv(executed.f3, a, b)>>]
    BY <1>1, <1>7 DEF DecodeExec
  <2>3. nemu.rd[1] = MulDiv(executed.f3, a, b)
    BY <2>2 DEF Nothing
  <2>4. /\ Divides(TRUE, a, b, MulDiv(4, a, b), MulDiv(6, a, b))
        /\ Divides(FALSE, a, b, MulDiv(5, a, b), MulDiv(7, a, b))
    <3> HIDE DEF a, b
    <3> QED BY <2>1, NemuDivides
  <2>5. CASE executed.f3 = 4
    <3>1. nemu.rd[1] = MulDiv(4, a, b) /\ executed.f3 + 2 = 6
      BY <2>3, <2>5
    <3>2. /\ Wrap(MulDiv(4, a, b) * b + MulDiv(6, a, b)) = a
          /\ b # 0 =>
               /\ Magnitude(Signed(MulDiv(6, a, b))) < Magnitude(Signed(b))
               /\ MulDiv(6, a, b) # 0 => (Signed(MulDiv(6, a, b)) < 0) = (Signed(a) < 0)
      BY <2>4 DEF Divides
    <3> QED BY <2>5, <3>1, <3>2
  <2>6. CASE executed.f3 = 5
    <3>1. nemu.rd[1] = MulDiv(5, a, b) /\ executed.f3 + 2 = 7
      BY <2>3, <2>6
    <3>2. /\ Wrap(MulDiv(5, a, b) * b + MulDiv(7, a, b)) = a
          /\ b # 0 => MulDiv(7, a, b) < b
      BY <2>4 DEF Divides
    <3> QED BY <2>6, <3>1, <3>2
  <2> QED BY <1>7, <2>5, <2>6
<1> QED BY ImmediatesAgree, <1>4, <1>5, <1>6, <1>7

\* For words of any width.
THEOREM CoreComputesAsNemu == DatapathSpec => []InstructionsAgree
<1>1. DatapathInit => DatapathInv
  BY DEF DatapathInit, DatapathInv
<1>2. ASSUME DatapathInv, [Execute]_datapathVars PROVE DatapathInv'
  <2>1. CASE Execute
    <3>1. executed' \in Code
      BY <2>1 DEF Execute
    <3>2. PICK a \in Operands, b \in Operands, p \in {0, Wrap(-4)} :
            before' = [src1 |-> a, src2 |-> b, pc |-> p, mem |-> Memory, csrs |-> Csrs]
      BY <2>1 DEF Execute
    <3>3. a \in Word /\ b \in Word /\ p \in Word
      <4>1. Operands \subseteq Word /\ 0 \in Word
        BY DatapathAssumption, HalfOfAll DEF Word
      <4>2. Wrap(-4) \in Word
        BY WrapWord
      <4> QED BY <4>1, <4>2
    <3>4. before' \in State
      BY <3>2, <3>3 DEF State
    <3>5. /\ core' = Retired(executed', before')
          /\ nemu' = DecodeExec(executed', before')
          /\ emu' = InstCycle(executed', before')
      BY <2>1 DEF Execute
    <3> QED BY <3>1, <3>4, <3>5 DEF DatapathInv
  <2>2. CASE UNCHANGED datapathVars
    BY <1>2, <2>2 DEF datapathVars, DatapathInv
  <2> QED BY <1>2, <2>1, <2>2
<1>3. DatapathInv => InstructionsAgree
  BY AgreeAfterExecute
<1> QED BY <1>1, <1>2, <1>3, PTL DEF DatapathSpec

-----------------------------------------------------------------------------
(***************************************************************************)
(* The calls of klib.  A loop over memory is a function on the number of   *)
(* its steps (Runs); that of memmove copies because it never overwrites    *)
(* what it has yet to read (CopiesUp, CopiesDown), and what is written in  *)
(* pieces is the sequence put together (PutConcat).  A loop that compares  *)
(* returns what it has at its first stop (ScanStops), which is where the   *)
(* two sequences part, and that is what orders them (PartAt, CompareIs).   *)
(* atoi's value times the power still to come is the sum by position so    *)
(* far (ValueIsDenoted); and the digits found from the last one are those  *)
(* by position, since dividing twice divides by the product (NumeralStep). *)
(***************************************************************************)
Memories == [Addr -> Byte]

\* One element after the other.
IsCopyUp(f, m, d, s, n) ==
  f = [i \in 0 .. n |-> IF i = 0 THEN m ELSE [f[i - 1] EXCEPT ![d + i - 1] = f[i - 1][s + i - 1]]]
IsCopyDown(f, m, d, s, n) ==
  f = [i \in 0 .. n |-> IF i = 0 THEN m ELSE [f[i - 1] EXCEPT ![d + n - i] = f[i - 1][s + n - i]]]

\* The sequences of C's promises, place by place.
LEMMA BytesLen ==
  ASSUME NEW m, NEW a \in Int, NEW n \in Nat
  PROVE  /\ Len(Bytes(m, a, n)) = n
         /\ \A i \in 1 .. n : Bytes(m, a, n)[i] = m[a + i - 1]
BY DEF Bytes

LEMMA TakeLen ==
  ASSUME NEW S, NEW s \in Seq(S), NEW n \in Nat
  PROVE  /\ Take(s, n) \in Seq(S)
         /\ Len(Take(s, n)) = IF n < Len(s) THEN n ELSE Len(s)
         /\ \A i \in 1 .. Len(s) : i <= n => Take(s, n)[i] = s[i]
BY DEF Take

\* What memory holds after a sequence was put into it.
LEMMA PutAt ==
  ASSUME NEW m, NEW d, NEW s, NEW x \in Addr
  PROVE  Put(m, d, s)[x] = IF x \in d .. d + Len(s) - 1 THEN s[x - d + 1] ELSE m[x]
BY DEF Put

\* A memory that is the old one except for a sequence is the result of a Put.
LEMMA PutIs ==
  ASSUME NEW m, NEW d, NEW s, NEW r, r = [x \in Addr |-> r[x]],
         \A x \in Addr : r[x] = IF x \in d .. d + Len(s) - 1 THEN s[x - d + 1] ELSE m[x]
  PROVE  r = Put(m, d, s)
BY DEF Put

\* Neighbouring ranges join.
LEMMA ConcatBytes ==
  ASSUME NEW m, NEW a \in Int, NEW n \in Nat, NEW k \in Nat
  PROVE  Bytes(m, a, n) \o Bytes(m, a + n, k) = Bytes(m, a, n + k)
BY DEF Bytes

LEMMA BytesAppend ==
  ASSUME NEW m, NEW a \in Int, NEW n \in Nat
  PROVE  Append(Bytes(m, a, n), m[a + n]) = Bytes(m, a, n + 1)
BY DEF Bytes

\* f holds what n steps of g make of b.
Runs(f, n, S, b, g) == f \in [0 .. n -> S] /\ f[0] = b /\ \A i \in 1 .. n : f[i] = g[<<i, f[i - 1]>>]

\* A function defined step by step exists: induction by ByCounting on how far it is defined.
LEMMA Recursion ==
  ASSUME NEW n \in Nat, NEW S, NEW b \in S, NEW g \in [(1 .. n) \X S -> S]
  PROVE  \E f : Runs(f, n, S, b, g)
<1> DEFINE Upto(f, k) == f \in [0 .. k -> S] /\ f[0] = b /\ \A i \in 1 .. k : f[i] = g[<<i, f[i - 1]>>]
           T == {k \in Nat : k <= n /\ \E f : Upto(f, k)}
<1>1. 0 \in T
  <2> DEFINE f == [i \in 0 .. 0 |-> b]
  <2>1. f \in [0 .. 0 -> S] /\ f[0] = b /\ \A i \in 1 .. 0 : f[i] = g[<<i, f[i - 1]>>]
    OBVIOUS
  <2> HIDE DEF f
  <2>2. Upto(f, 0)
    BY <2>1
  <2>3. 0 \in Nat /\ 0 <= n
    OBVIOUS
  <2> HIDE DEF Upto
  <2> QED BY <2>2, <2>3
<1>2. ASSUME NEW k \in 1 .. n, k - 1 \in T PROVE k \in T
  <2>1. PICK f : Upto(f, k - 1)
    BY <1>2
  <2>2. k - 1 \in 0 .. k - 1 /\ f[k - 1] \in S
    BY <2>1
  <2> DEFINE h == [i \in 0 .. k |-> IF i = k THEN g[<<k, f[k - 1]>>] ELSE f[i]]
  <2>3. h \in [0 .. k -> S]
    BY <2>1, <2>2
  <2>4. h[0] = b
    BY <2>1
  <2>5. ASSUME NEW i \in 1 .. k PROVE h[i] = g[<<i, h[i - 1]>>]
    <3>1. CASE i = k
      <4>1. h[i] = g[<<k, f[k - 1]>>] /\ h[i - 1] = f[k - 1]
        BY <3>1
      <4> QED BY <3>1, <4>1
    <3>2. CASE i # k
      <4>1. i \in 1 .. k - 1 /\ i \in 0 .. k /\ i - 1 \in 0 .. k /\ i - 1 # k
        BY <3>2
      <4>2. h[i] = f[i] /\ h[i - 1] = f[i - 1]
        BY <3>2, <4>1
      <4>3. f[i] = g[<<i, f[i - 1]>>]
        BY <2>1, <4>1
      <4> QED BY <4>2, <4>3
    <3> QED BY <3>1, <3>2
  <2> HIDE DEF h
  <2>6. Upto(h, k)
    BY <2>3, <2>4, <2>5
  <2> QED BY <2>6
<1>3. T \in SUBSET Nat
  OBVIOUS
<1> HIDE DEF T
<1>4. n \in T
  <2>1. 0 .. n \subseteq T
    BY <1>1, <1>2, <1>3, ByCounting
  <2> QED BY <2>1
<1> QED BY <1>4 DEF T, Runs

\* The loop upwards copies a range, unless it overwrites what it has yet to read.
LEMMA CopiesUp ==
  ASSUME NEW m \in Memories, NEW d \in Nat, NEW s \in Nat, NEW n \in Nat,
         Within(d, n), Within(s, n), d <= s \/ Apart(d, n, s, n)
  PROVE  CopyUp(m, d, s, n) = Put(m, d, Bytes(m, s, n))
<1> DEFINE g == [x \in (1 .. n) \X Memories |-> [x[2] EXCEPT ![d + x[1] - 1] = x[2][s + x[1] - 1]]]
<1>1. g \in [(1 .. n) \X Memories -> Memories]
  <2> SUFFICES ASSUME NEW i \in 1 .. n, NEW c \in Memories
               PROVE  [c EXCEPT ![d + i - 1] = c[s + i - 1]] \in Memories
    OBVIOUS
  <2>1. s + i - 1 \in Addr
    BY KlibAssumption DEF Within, Addr
  <2>2. c[s + i - 1] \in Byte
    BY <2>1 DEF Memories
  <2> QED BY <2>2 DEF Memories
<1>2. PICK f \in [0 .. n -> Memories] : f[0] = m /\ \A i \in 1 .. n : f[i] = g[<<i, f[i - 1]>>]
  <2> HIDE DEF g
  <2>1. \E f : Runs(f, n, Memories, m, g)
    BY <1>1, Recursion
  <2> QED BY <2>1 DEF Runs
<1>3. IsCopyUp(f, m, d, s, n)
  <2>1. ASSUME NEW i \in 1 .. n PROVE f[i] = [f[i - 1] EXCEPT ![d + i - 1] = f[i - 1][s + i - 1]]
    <3>1. f[i - 1] \in Memories
      BY <1>2
    <3> QED BY <1>2, <3>1
  <2>2. \A i \in 0 .. n : i # 0 => i \in 1 .. n
    OBVIOUS
  <2> HIDE DEF g
  <2>3. f = [i \in 0 .. n |-> IF i = 0 THEN m ELSE [f[i - 1] EXCEPT ![d + i - 1] = f[i - 1][s + i - 1]]]
    BY <1>2, <2>1, <2>2
  <2> QED BY <2>3 DEF IsCopyUp
<1> DEFINE c == CHOOSE h : IsCopyUp(h, m, d, s, n)
<1>4. IsCopyUp(c, m, d, s, n)
  BY <1>3, Zenon
<1>5. CopyUp(m, d, s, n) = c[n]
  BY Zenon DEF CopyUp, IsCopyUp
<1> HIDE DEF c, g
<1>6. c[0] = m /\ \A i \in 1 .. n : c[i] = [c[i - 1] EXCEPT ![d + i - 1] = c[i - 1][s + i - 1]]
  <2>1. 0 \in 0 .. n /\ \A i \in 1 .. n : i \in 0 .. n /\ i # 0
    OBVIOUS
  <2>2. \A i \in 0 .. n : c[i] = IF i = 0 THEN m ELSE [c[i - 1] EXCEPT ![d + i - 1] = c[i - 1][s + i - 1]]
    BY <1>4, Zenon DEF IsCopyUp
  <2> QED BY <2>1, <2>2, Zenon
<1> DEFINE Done(i) == /\ c[i] \in Memories
                      /\ \A x \in Addr : c[i][x] = IF x \in d .. d + i - 1 THEN m[x - d + s] ELSE m[x]
           T == {i \in Nat : Done(i)}
<1>7. 0 \in T
  BY <1>6
<1>8. ASSUME NEW i \in 1 .. n, i - 1 \in T PROVE i \in T
  <2>1. Done(i - 1)
    BY <1>8
  <2>2. s + i - 1 \in Addr /\ d + i - 1 \in Addr /\ i - 1 \in Nat
    BY KlibAssumption DEF Within, Addr
  <2>3. c[i] = [c[i - 1] EXCEPT ![d + i - 1] = c[i - 1][s + i - 1]]
    BY <1>6
  <2>4. c[i - 1][s + i - 1] = m[s + i - 1]
    <3>1. s + i - 1 \notin d .. d + (i - 1) - 1
      BY DEF Apart
    <3> QED BY <2>1, <2>2, <3>1
  <2>5. c[i] \in Memories
    <3>1. c[i - 1] \in Memories /\ m[s + i - 1] \in Byte
      BY <2>1, <2>2 DEF Memories
    <3> QED BY <2>3, <2>4, <3>1 DEF Memories
  <2>6. ASSUME NEW x \in Addr
        PROVE  c[i][x] = IF x \in d .. d + i - 1 THEN m[x - d + s] ELSE m[x]
    <3>1. c[i - 1] \in Memories
      BY <2>1
    <3>2. c[i][x] = IF x = d + i - 1 THEN m[s + i - 1] ELSE c[i - 1][x]
      BY <2>3, <2>4, <3>1 DEF Memories
    <3>3. c[i - 1][x] = IF x \in d .. d + (i - 1) - 1 THEN m[x - d + s] ELSE m[x]
      BY <2>1
    <3>4. x \in Int
      BY DEF Addr
    <3>5. CASE x = d + i - 1
      <4>1. x \in d .. d + i - 1 /\ x - d + s = s + i - 1
        BY <3>4, <3>5
      <4> QED BY <3>2, <3>5, <4>1
    <3>6. CASE x # d + i - 1
      <4>1. x \in d .. d + (i - 1) - 1 <=> x \in d .. d + i - 1
        BY <3>4, <3>6
      <4> QED BY <3>2, <3>3, <3>6, <4>1
    <3> QED BY <3>5, <3>6
  <2> HIDE DEF c
  <2> QED BY <2>2, <2>5, <2>6
<1>9. Done(n)
  <2>1. T \in SUBSET Nat
    OBVIOUS
  <2> HIDE DEF T
  <2>2. 0 .. n \subseteq T
    BY <1>7, <1>8, <2>1, ByCounting
  <2>3. n \in T
    BY <2>2
  <2> QED BY <2>3 DEF T
<1>10. \A x \in Addr : c[n][x] = IF x \in d .. d + Len(Bytes(m, s, n)) - 1 THEN Bytes(m, s, n)[x - d + 1] ELSE m[x]
  <2> SUFFICES ASSUME NEW x \in Addr
               PROVE  c[n][x] = IF x \in d .. d + Len(Bytes(m, s, n)) - 1 THEN Bytes(m, s, n)[x - d + 1] ELSE m[x]
    OBVIOUS
  <2>1. x \in Int /\ Len(Bytes(m, s, n)) = n
    BY BytesLen DEF Addr
  <2>2. CASE x \in d .. d + n - 1
    <3>1. x - d + 1 \in 1 .. n /\ s + (x - d + 1) - 1 = x - d + s
      BY <2>1, <2>2
    <3>2. \A i \in 1 .. n : Bytes(m, s, n)[i] = m[s + i - 1]
      <4>1. s \in Int
        OBVIOUS
      <4> QED BY <4>1, BytesLen, Zenon
    <3>3. Bytes(m, s, n)[x - d + 1] = m[s + (x - d + 1) - 1]
      BY <3>1, <3>2, Zenon
    <3> QED BY <1>9, <2>1, <2>2, <3>1, <3>3
  <2>3. CASE x \notin d .. d + n - 1
    BY <1>9, <2>1, <2>3
  <2> QED BY <2>2, <2>3
<1>11. c[n] = [x \in Addr |-> c[n][x]]
  BY <1>9 DEF Memories
<1>12. c[n] = Put(m, d, Bytes(m, s, n))
  BY <1>10, <1>11, PutIs
<1> QED BY <1>5, <1>12
\* So does the loop downwards unless it overwrites what it has yet to read.
LEMMA CopiesDown ==
  ASSUME NEW m \in Memories, NEW d \in Nat, NEW s \in Nat, NEW n \in Nat,
         Within(d, n), Within(s, n), s <= d \/ Apart(d, n, s, n)
  PROVE  CopyDown(m, d, s, n) = Put(m, d, Bytes(m, s, n))
<1> DEFINE g == [x \in (1 .. n) \X Memories |-> [x[2] EXCEPT ![d + n - x[1]] = x[2][s + n - x[1]]]]
<1>1. g \in [(1 .. n) \X Memories -> Memories]
  <2> SUFFICES ASSUME NEW i \in 1 .. n, NEW c \in Memories
               PROVE  [c EXCEPT ![d + n - i] = c[s + n - i]] \in Memories
    OBVIOUS
  <2>1. s + n - i \in Addr
    BY KlibAssumption DEF Within, Addr
  <2>2. c[s + n - i] \in Byte
    BY <2>1 DEF Memories
  <2> QED BY <2>2 DEF Memories
<1>2. PICK f \in [0 .. n -> Memories] : f[0] = m /\ \A i \in 1 .. n : f[i] = g[<<i, f[i - 1]>>]
  <2> HIDE DEF g
  <2>1. \E f : Runs(f, n, Memories, m, g)
    BY <1>1, Recursion
  <2> QED BY <2>1 DEF Runs
<1>3. IsCopyDown(f, m, d, s, n)
  <2>1. ASSUME NEW i \in 1 .. n PROVE f[i] = [f[i - 1] EXCEPT ![d + n - i] = f[i - 1][s + n - i]]
    <3>1. f[i - 1] \in Memories
      BY <1>2
    <3> QED BY <1>2, <3>1
  <2>2. \A i \in 0 .. n : i # 0 => i \in 1 .. n
    OBVIOUS
  <2> HIDE DEF g
  <2>3. f = [i \in 0 .. n |-> IF i = 0 THEN m ELSE [f[i - 1] EXCEPT ![d + n - i] = f[i - 1][s + n - i]]]
    BY <1>2, <2>1, <2>2
  <2> QED BY <2>3 DEF IsCopyDown
<1> DEFINE c == CHOOSE h : IsCopyDown(h, m, d, s, n)
<1>4. IsCopyDown(c, m, d, s, n)
  BY <1>3, Zenon
<1>5. CopyDown(m, d, s, n) = c[n]
  BY Zenon DEF CopyDown, IsCopyDown
<1> HIDE DEF c, g
<1>6. c[0] = m /\ \A i \in 1 .. n : c[i] = [c[i - 1] EXCEPT ![d + n - i] = c[i - 1][s + n - i]]
  <2>1. 0 \in 0 .. n /\ \A i \in 1 .. n : i \in 0 .. n /\ i # 0
    OBVIOUS
  <2>2. \A i \in 0 .. n : c[i] = IF i = 0 THEN m ELSE [c[i - 1] EXCEPT ![d + n - i] = c[i - 1][s + n - i]]
    BY <1>4, Zenon DEF IsCopyDown
  <2> QED BY <2>1, <2>2, Zenon
<1> DEFINE Done(i) == /\ c[i] \in Memories
                      /\ \A x \in Addr : c[i][x] = IF x \in d + n - i .. d + n - 1 THEN m[x - d + s] ELSE m[x]
           T == {i \in Nat : Done(i)}
<1>7. 0 \in T
  BY <1>6
<1>8. ASSUME NEW i \in 1 .. n, i - 1 \in T PROVE i \in T
  <2>1. Done(i - 1)
    BY <1>8
  <2>2. s + n - i \in Addr /\ d + n - i \in Addr /\ i - 1 \in Nat
    BY KlibAssumption DEF Within, Addr
  <2>3. c[i] = [c[i - 1] EXCEPT ![d + n - i] = c[i - 1][s + n - i]]
    BY <1>6
  <2>4. c[i - 1][s + n - i] = m[s + n - i]
    <3>1. s + n - i \notin d + n - (i - 1) .. d + n - 1
      BY DEF Apart
    <3> QED BY <2>1, <2>2, <3>1
  <2>5. c[i] \in Memories
    <3>1. c[i - 1] \in Memories /\ m[s + n - i] \in Byte
      BY <2>1, <2>2 DEF Memories
    <3> QED BY <2>3, <2>4, <3>1 DEF Memories
  <2>6. ASSUME NEW x \in Addr
        PROVE  c[i][x] = IF x \in d + n - i .. d + n - 1 THEN m[x - d + s] ELSE m[x]
    <3>1. c[i - 1] \in Memories
      BY <2>1
    <3>2. c[i][x] = IF x = d + n - i THEN m[s + n - i] ELSE c[i - 1][x]
      BY <2>3, <2>4, <3>1 DEF Memories
    <3>3. c[i - 1][x] = IF x \in d + n - (i - 1) .. d + n - 1 THEN m[x - d + s] ELSE m[x]
      BY <2>1
    <3>4. x \in Int
      BY DEF Addr
    <3>5. CASE x = d + n - i
      <4>1. x \in d + n - i .. d + n - 1 /\ x - d + s = s + n - i
        BY <3>4, <3>5
      <4> QED BY <3>2, <3>5, <4>1
    <3>6. CASE x # d + n - i
      <4>1. x \in d + n - (i - 1) .. d + n - 1 <=> x \in d + n - i .. d + n - 1
        BY <3>4, <3>6
      <4> QED BY <3>2, <3>3, <3>6, <4>1
    <3> QED BY <3>5, <3>6
  <2> HIDE DEF c
  <2> QED BY <2>2, <2>5, <2>6
<1>9. Done(n)
  <2>1. T \in SUBSET Nat
    OBVIOUS
  <2> HIDE DEF T
  <2>2. 0 .. n \subseteq T
    BY <1>7, <1>8, <2>1, ByCounting
  <2>3. n \in T
    BY <2>2
  <2> QED BY <2>3 DEF T
<1>10. \A x \in Addr : c[n][x] = IF x \in d .. d + Len(Bytes(m, s, n)) - 1 THEN Bytes(m, s, n)[x - d + 1] ELSE m[x]
  <2> SUFFICES ASSUME NEW x \in Addr
               PROVE  c[n][x] = IF x \in d .. d + Len(Bytes(m, s, n)) - 1 THEN Bytes(m, s, n)[x - d + 1] ELSE m[x]
    OBVIOUS
  <2>1. x \in Int /\ Len(Bytes(m, s, n)) = n
    BY BytesLen DEF Addr
  <2>2. CASE x \in d .. d + n - 1
    <3>1. x - d + 1 \in 1 .. n /\ s + (x - d + 1) - 1 = x - d + s
      BY <2>1, <2>2
    <3>2. \A i \in 1 .. n : Bytes(m, s, n)[i] = m[s + i - 1]
      <4>1. s \in Int
        OBVIOUS
      <4> QED BY <4>1, BytesLen, Zenon
    <3>3. Bytes(m, s, n)[x - d + 1] = m[s + (x - d + 1) - 1]
      BY <3>1, <3>2, Zenon
    <3> QED BY <1>9, <2>1, <2>2, <3>1, <3>3
  <2>3. CASE x \notin d .. d + n - 1
    BY <1>9, <2>1, <2>3
  <2> QED BY <2>2, <2>3
<1>11. c[n] = [x \in Addr |-> c[n][x]]
  BY <1>9 DEF Memories
<1>12. c[n] = Put(m, d, Bytes(m, s, n))
  BY <1>10, <1>11, PutIs
<1> QED BY <1>5, <1>12

\* Of a string: its length is that of its bytes before the first 0.
LEMMA StringLength ==
  ASSUME NEW m, NEW a \in Nat, IsString(m, a)
  PROVE  /\ StrLen(m, a) \in 0 .. MemSize - 1 - a /\ StrLen(m, a) \in Nat
         /\ m[a + StrLen(m, a)] = 0
         /\ \A k \in 0 .. StrLen(m, a) - 1 : m[a + k] # 0
<1>1. Ends(m, a) \in SUBSET Nat
  BY KlibAssumption DEF Ends
<1>2. PICK n \in Ends(m, a) : \A k \in Ends(m, a) : n <= k
  BY <1>1, LeastOf DEF IsString
<1>3. StrLen(m, a) \in Ends(m, a) /\ \A k \in Ends(m, a) : StrLen(m, a) <= k
  BY <1>2 DEF StrLen
<1>4. StrLen(m, a) \in 0 .. MemSize - 1 - a /\ StrLen(m, a) \in Nat /\ m[a + StrLen(m, a)] = 0
  BY <1>3, KlibAssumption DEF Ends
<1>5. ASSUME NEW k \in 0 .. StrLen(m, a) - 1 PROVE m[a + k] # 0
  <2>1. k \in 0 .. MemSize - 1 - a /\ ~(StrLen(m, a) <= k)
    BY <1>4, KlibAssumption
  <2>2. k \notin Ends(m, a)
    BY <1>3, <2>1
  <2> QED BY <2>1, <2>2 DEF Ends
<1> QED BY <1>4, <1>5

LEMMA StrBytes ==
  ASSUME NEW m, NEW a \in Nat, IsString(m, a)
  PROVE  /\ Str(m, a) = Bytes(m, a, StrLen(m, a)) /\ Len(Str(m, a)) = StrLen(m, a)
         /\ \A i \in 1 .. StrLen(m, a) : Str(m, a)[i] = m[a + i - 1]
<1>1. StrLen(m, a) \in Nat /\ a \in Int
  BY StringLength
<1> QED BY <1>1, BytesLen DEF Str

\* Putting one sequence behind another puts their concatenation.
LEMMA PutConcat ==
  ASSUME NEW m, NEW d \in Nat, NEW S, NEW s \in Seq(S), NEW t \in Seq(S)
  PROVE  Put(m, d, s \o t) = Put(Put(m, d, s), d + Len(s), t)
<1> DEFINE p == Put(m, d, s)
           r == Put(p, d + Len(s), t)
<1>1. r = [x \in Addr |-> r[x]]
  BY DEF Put
<1>2. /\ Len(s) \in Nat /\ Len(t) \in Nat /\ Len(s \o t) = Len(s) + Len(t)
      /\ \A i \in 1 .. Len(s) + Len(t) : (s \o t)[i] = IF i <= Len(s) THEN s[i] ELSE t[i - Len(s)]
  OBVIOUS
<1>3. ASSUME NEW x \in Addr
      PROVE  r[x] = IF x \in d .. d + Len(s \o t) - 1 THEN (s \o t)[x - d + 1] ELSE m[x]
  <2>1. x \in Int
    BY DEF Addr
  <2>2. r[x] = IF x \in d + Len(s) .. d + Len(s) + Len(t) - 1 THEN t[x - (d + Len(s)) + 1] ELSE p[x]
    BY PutAt
  <2>3. p[x] = IF x \in d .. d + Len(s) - 1 THEN s[x - d + 1] ELSE m[x]
    BY PutAt
  <2> HIDE DEF p, r
  <2>4. CASE x \in d .. d + Len(s) - 1
    <3>1. x - d + 1 \in 1 .. Len(s) + Len(t) /\ x - d + 1 <= Len(s) /\ x \in d .. d + Len(s \o t) - 1
          /\ x \notin d + Len(s) .. d + Len(s) + Len(t) - 1
      BY <1>2, <2>1, <2>4
    <3>2. (s \o t)[x - d + 1] = s[x - d + 1]
      BY <1>2, <3>1, Zenon
    <3> QED BY <2>2, <2>3, <2>4, <3>1, <3>2, Zenon
  <2>5. CASE x \in d + Len(s) .. d + Len(s) + Len(t) - 1
    <3>1. x - d + 1 \in 1 .. Len(s) + Len(t) /\ ~(x - d + 1 <= Len(s)) /\ x \in d .. d + Len(s \o t) - 1
          /\ x - d + 1 - Len(s) = x - (d + Len(s)) + 1
      BY <1>2, <2>1, <2>5
    <3>2. (s \o t)[x - d + 1] = t[x - d + 1 - Len(s)]
      BY <1>2, <3>1
    <3> QED BY <2>2, <2>5, <3>1, <3>2, Zenon
  <2>6. CASE x \notin d .. d + Len(s) - 1 /\ x \notin d + Len(s) .. d + Len(s) + Len(t) - 1
    <3>1. x \notin d .. d + Len(s \o t) - 1
      BY <1>2, <2>1, <2>6
    <3> QED BY <2>2, <2>3, <2>6, <3>1, Zenon
  <2> QED BY <2>4, <2>5, <2>6
<1> DEFINE w == s \o t
<1> HIDE DEF p, r
<1>4. \A x \in Addr : r[x] = IF x \in d .. d + Len(w) - 1 THEN w[x - d + 1] ELSE m[x]
  BY <1>3, Zenon
<1> HIDE DEF w
<1>5. r = Put(m, d, w)
  BY <1>1, <1>4, PutIs
<1> QED BY <1>5 DEF r, p, w

\* Putting back what was there changes nothing.
LEMMA PutSame ==
  ASSUME NEW m \in Memories, NEW d \in Nat, NEW n \in Nat
  PROVE  m = Put(m, d, Bytes(m, d, n))
<1>1. m = [x \in Addr |-> m[x]]
  BY DEF Memories
<1>2. Len(Bytes(m, d, n)) = n /\ \A i \in 1 .. n : Bytes(m, d, n)[i] = m[d + i - 1]
  BY BytesLen, d \in Int
<1>3. ASSUME NEW x \in Addr
      PROVE  m[x] = IF x \in d .. d + Len(Bytes(m, d, n)) - 1 THEN Bytes(m, d, n)[x - d + 1] ELSE m[x]
  <2>1. CASE x \in d .. d + n - 1
    <3>1. x - d + 1 \in 1 .. n /\ d + (x - d + 1) - 1 = x
      BY <2>1 DEF Addr
    <3>2. Bytes(m, d, n)[x - d + 1] = m[d + (x - d + 1) - 1]
      BY <1>2, <3>1, Zenon
    <3> QED BY <1>2, <2>1, <3>1, <3>2
  <2>2. CASE x \notin d .. d + n - 1
    BY <1>2, <2>2
  <2> QED BY <2>1, <2>2
<1> QED BY <1>1, <1>3, PutIs

\* Memories and strings have bytes.
LEMMA PutKeeps ==
  ASSUME NEW m \in Memories, NEW d \in Nat, NEW s \in Seq(Byte)
  PROVE  Put(m, d, s) \in Memories
<1> SUFFICES ASSUME NEW x \in Addr, x \in d .. d + Len(s) - 1 PROVE s[x - d + 1] \in Byte
  BY DEF Put, Memories
<1>1. x - d + 1 \in 1 .. Len(s)
  BY DEF Addr
<1> QED BY <1>1

\* Filling a range puts one byte over and over.
LEMMA FillIs ==
  ASSUME NEW m, NEW d \in Nat, NEW b, NEW n \in Nat
  PROVE  Fill(m, d, b, n) = Put(m, d, [i \in 1 .. n |-> b])
<1> DEFINE s == [i \in 1 .. n |-> b]
           r == Fill(m, d, b, n)
<1>1. Len(s) = n
  OBVIOUS
<1>2. r = [x \in Addr |-> r[x]]
  BY DEF Fill
<1>3. ASSUME NEW x \in Addr PROVE r[x] = IF x \in d .. d + Len(s) - 1 THEN s[x - d + 1] ELSE m[x]
  <2>1. r[x] = IF x \in d .. d + n - 1 THEN b ELSE m[x]
    BY DEF Fill
  <2>2. x \in d .. d + n - 1 => x - d + 1 \in 1 .. n
    BY DEF Addr
  <2>3. x \in d .. d + n - 1 => s[x - d + 1] = b
    BY <2>2
  <2> QED BY <1>1, <2>1, <2>3
<1> HIDE DEF r, s
<1>4. r = Put(m, d, s)
  BY <1>2, <1>3, PutIs
<1> QED BY <1>4 DEF r, s

LEMMA BytesInSeq ==
  ASSUME NEW m \in Memories, NEW a \in Nat, NEW n \in Nat, Within(a, n)
  PROVE  Bytes(m, a, n) \in Seq(Byte)
<1>1. ASSUME NEW i \in 1 .. n PROVE m[a + i - 1] \in Byte
  <2>1. a + i - 1 \in Addr
    BY KlibAssumption DEF Within, Addr
  <2> QED BY <2>1 DEF Memories
<1> QED BY <1>1 DEF Bytes

LEMMA StrInSeq ==
  ASSUME NEW m \in Memories, NEW a \in Nat, IsString(m, a)
  PROVE  Str(m, a) \in Seq(Byte)
<1>1. StrLen(m, a) \in Nat /\ Within(a, StrLen(m, a))
  BY StringLength, KlibAssumption DEF Within
<1> QED BY <1>1, BytesInSeq DEF Str

\* A string with its terminator.
LEMMA Terminated ==
  ASSUME NEW m, NEW a \in Nat, IsString(m, a)
  PROVE  Append(Str(m, a), 0) = Bytes(m, a, StrLen(m, a) + 1)
<1>1. StrLen(m, a) \in Nat /\ m[a + StrLen(m, a)] = 0 /\ a \in Int
  BY StringLength
<1>2. Append(Bytes(m, a, StrLen(m, a)), m[a + StrLen(m, a)]) = Bytes(m, a, StrLen(m, a) + 1)
  BY <1>1, BytesAppend
<1> QED BY <1>1, <1>2 DEF Str

\* Either direction of memmove writes the bytes the source had.
LEMMA MemmoveIs ==
  ASSUME NEW m \in Memories, NEW d \in Nat, NEW s \in Nat, NEW n \in Nat, Within(d, n), Within(s, n)
  PROVE  Memmove(m, d, s, n) = Put(m, d, Bytes(m, s, n))
<1>1. CASE d < s
  BY <1>1, CopiesUp DEF Memmove
<1>2. CASE d > s
  BY <1>2, CopiesDown DEF Memmove
<1>3. CASE d = s
  BY <1>3, PutSame DEF Memmove
<1> QED BY <1>1, <1>2, <1>3

\* Text and terminator, to a place apart.
LEMMA StrcpyIs ==
  ASSUME NEW m \in Memories, NEW d \in Nat, NEW s \in Nat, IsString(m, s),
         Within(d, StrLen(m, s) + 1), Apart(d, StrLen(m, s) + 1, s, StrLen(m, s) + 1)
  PROVE  Strcpy(m, d, s) = Put(m, d, Append(Str(m, s), 0))
<1> DEFINE n == StrLen(m, s) + 1
<1>1. n \in Nat /\ Within(s, n)
  BY StringLength, KlibAssumption DEF Within
<1>2. Append(Str(m, s), 0) = Bytes(m, s, n) /\ Strcpy(m, d, s) = CopyUp(m, d, s, n)
  BY Terminated DEF Strcpy
<1>3. Within(d, n) /\ Apart(d, n, s, n)
  OBVIOUS
<1> HIDE DEF n
<1>4. CopyUp(m, d, s, n) = Put(m, d, Bytes(m, s, n))
  BY <1>1, <1>3, CopiesUp
<1> QED BY <1>2, <1>4

\* The text is copied behind the other one.
LEMMA StrcatIs ==
  ASSUME NEW m \in Memories, NEW d \in Nat, NEW s \in Nat, IsString(m, d), IsString(m, s),
         Within(d, StrLen(m, d) + StrLen(m, s) + 1),
         Apart(d, StrLen(m, d) + StrLen(m, s) + 1, s, StrLen(m, s) + 1)
  PROVE  Strcat(m, d, s) = Put(m, d, Str(m, d) \o Append(Str(m, s), 0))
<1> DEFINE n == StrLen(m, s) + 1
           l == StrLen(m, d)
           t == Append(Str(m, s), 0)
           u == Str(m, d)
<1>1. n \in Nat /\ l \in Nat /\ StrLen(m, s) \in Nat /\ Within(s, n) /\ d + l \in Nat
  BY StringLength, KlibAssumption DEF Within
<1>2. t = Bytes(m, s, n) /\ Strcat(m, d, s) = CopyUp(m, d + l, s, n)
  BY Terminated DEF Strcat
<1>3. Within(d + l, n) /\ Apart(d + l, n, s, n)
  <2>1. StrLen(m, d) + StrLen(m, s) + 1 = l + n
    BY <1>1
  <2>2. Within(d, l + n) /\ Apart(d, l + n, s, n)
    BY <2>1
  <2>3. MemSize \in Nat
    BY KlibAssumption
  <2> HIDE DEF l, n
  <2>4. Within(d + l, n)
    BY <1>1, <2>2, <2>3 DEF Within
  <2>5. Apart(d + l, n, s, n)
    BY <1>1, <2>2 DEF Apart
  <2> QED BY <2>4, <2>5
<1>4. u \in Seq(Byte) /\ t \in Seq(Byte) /\ Len(u) = l
  <2>1. 0 \in Byte
    BY KlibAssumption
  <2>2. Str(m, d) \in Seq(Byte) /\ Str(m, s) \in Seq(Byte)
    BY StrInSeq
  <2>3. Len(Str(m, d)) = StrLen(m, d)
    BY StrBytes
  <2>4. Append(Str(m, s), 0) \in Seq(Byte)
    BY <2>1, <2>2
  <2> QED BY <2>2, <2>3, <2>4
<1>5. u = Bytes(m, d, l)
  BY DEF Str
<1> HIDE DEF n, l, t, u
<1>6. Strcat(m, d, s) = Put(m, d + l, t)
  BY <1>1, <1>2, <1>3, CopiesUp
<1>7. m = Put(m, d, u)
  BY <1>1, <1>5, PutSame
<1>8. Put(m, d, u \o t) = Put(Put(m, d, u), d + Len(u), t)
  BY <1>4, PutConcat
<1>9. Put(m, d, u \o t) = Put(m, d + l, t)
  BY <1>4, <1>7, <1>8
<1> QED BY <1>6, <1>9 DEF t, u

\* A series of n bytes that are all the same.
LEMMA ZerosInSeq ==
  ASSUME NEW k \in Nat
  PROVE  [i \in 1 .. k |-> 0] \in Seq(Byte)
BY KlibAssumption

\* The first bytes of a range.
LEMMA TakeBytes ==
  ASSUME NEW m, NEW a \in Nat, NEW k \in Nat, NEW n \in Nat, n <= k
  PROVE  Take(Bytes(m, a, k), n) = Bytes(m, a, n)
BY DEF Take, Bytes

\* The text or as much of it as fits, then zeros.
LEMMA StrncpyIs ==
  ASSUME NEW m \in Memories, NEW d \in Nat, NEW s \in Nat, NEW n \in Nat,
         Within(d, n), IsString(m, s) \/ Within(s, n),
         Apart(d, n, s, IF IsString(m, s) THEN StrLen(m, s) + 1 ELSE n)
  PROVE  Strncpy(m, d, s, n) = Put(m, d, UpTo(m, s, n) \o [i \in 1 .. n - Len(UpTo(m, s, n)) |-> 0])
<1> DEFINE k == IF IsString(m, s) /\ StrLen(m, s) < n THEN StrLen(m, s) ELSE n
           u == UpTo(m, s, n)
           z == [i \in 1 .. n - k |-> 0]
<1>1. IsString(m, s) => StrLen(m, s) \in Nat /\ s + StrLen(m, s) + 1 <= MemSize
  BY StringLength, KlibAssumption
<1>2. k \in 0 .. n /\ k \in Nat /\ n - k \in Nat
  BY <1>1
<1>3. Within(d, k) /\ Within(s, k)
  BY <1>1, KlibAssumption DEF Within
<1>4. Apart(d, k, s, k)
  <2>1. CASE IsString(m, s)
    <3>1. d + n <= s \/ s + (StrLen(m, s) + 1) <= d
      <4>1. Apart(d, n, s, StrLen(m, s) + 1)
        BY <2>1
      <4> QED BY <4>1 DEF Apart
    <3>2. k <= n /\ k <= StrLen(m, s)
      BY <1>1, <2>1
    <3> HIDE DEF k
    <3> QED BY <1>1, <1>2, <2>1, <3>1, <3>2 DEF Apart
  <2>2. CASE ~IsString(m, s)
    BY <1>2, <2>2 DEF Apart
  <2> QED BY <2>1, <2>2
<1>5. u = Bytes(m, s, k)
  <2>1. CASE IsString(m, s) /\ StrLen(m, s) < n
    <3>1. u = Take(Str(m, s), n) /\ Len(Str(m, s)) = StrLen(m, s) /\ k = StrLen(m, s)
      BY <2>1, StrBytes DEF UpTo
    <3>2. Str(m, s) \in Seq(Byte)
      BY <2>1, StrInSeq
    <3>3. u = SubSeq(Str(m, s), 1, StrLen(m, s))
      BY <1>1, <2>1, <3>1 DEF Take
    <3>4. u = Str(m, s)
      BY <3>1, <3>2, <3>3
    <3> QED BY <3>1, <3>4 DEF Str
  <2>2. CASE IsString(m, s) /\ ~(StrLen(m, s) < n)
    <3>1. n <= StrLen(m, s) /\ StrLen(m, s) \in Nat /\ k = n
      BY <1>1, <2>2
    <3>2. Take(Bytes(m, s, StrLen(m, s)), n) = Bytes(m, s, n)
      BY <3>1, TakeBytes
    <3> QED BY <2>2, <3>1, <3>2 DEF UpTo, Str
  <2>3. CASE ~IsString(m, s)
    BY <2>3 DEF UpTo
  <2> QED BY <2>1, <2>2, <2>3
<1>6. Strncpy(m, d, s, n) = Fill(CopyUp(m, d, s, k), d + k, 0, n - k)
  BY DEF Strncpy
<1> HIDE DEF k, u
<1>7. CopyUp(m, d, s, k) = Put(m, d, u)
  BY <1>2, <1>3, <1>4, <1>5, CopiesUp
<1>8. Len(u) = k /\ u \in Seq(Byte)
  BY <1>2, <1>3, <1>5, BytesLen, BytesInSeq
<1>9. Fill(Put(m, d, u), d + k, 0, n - k) = Put(Put(m, d, u), d + k, z)
  <2>1. d + k \in Nat
    BY <1>2
  <2> QED BY <1>2, <2>1, FillIs
<1>10. z \in Seq(Byte)
  BY <1>2, ZerosInSeq
<1> HIDE DEF z
<1>11. Put(m, d, u \o z) = Put(Put(m, d, u), d + Len(u), z)
  BY <1>8, <1>10, PutConcat
<1>12. Strncpy(m, d, s, n) = Put(m, d, u \o z)
  BY <1>6, <1>7, <1>8, <1>9, <1>11
<1>13. z = [i \in 1 .. n - Len(u) |-> 0]
  BY <1>8 DEF z
<1> QED BY <1>12, <1>13 DEF u

\* snprintf of a text, cut short or not.
LEMMA VsnprintfIs ==
  ASSUME NEW m \in Memories, NEW d \in Nat, NEW n \in Nat, NEW S, 0 \in S, NEW s \in Seq(S)
  PROVE  Vsnprintf(m, d, n, s) = Put(m, d, IF n = 0 THEN <<>> ELSE Append(Take(s, n - 1), 0))
<1> DEFINE k == IF Len(s) + 1 < n THEN Len(s) ELSE n - 1
           r == Vsnprintf(m, d, n, s)
<1>1. r = [x \in Addr |-> r[x]]
  BY DEF Vsnprintf
<1>2. \A x \in Addr : r[x] = IF n # 0 /\ x = d + k THEN 0
                             ELSE IF x \in d .. d + k - 1 THEN s[x - d + 1] ELSE m[x]
  BY DEF Vsnprintf
<1>3. CASE n = 0
  <2>1. \A x \in Addr : r[x] = m[x]
    <3>1. Len(s) \in Nat
      OBVIOUS
    <3>2. k = -1
      BY <1>3, <3>1
    <3>3. \A x \in Addr : x \notin d .. d + k - 1
      BY <3>2
    <3> HIDE DEF k, r
    <3> QED BY <1>2, <1>3, <3>3
  <2> DEFINE w == <<>>
  <2>2. \A x \in Addr : x \notin d .. d + Len(w) - 1
    OBVIOUS
  <2>3. \A x \in Addr : r[x] = IF x \in d .. d + Len(w) - 1 THEN w[x - d + 1] ELSE m[x]
    BY <2>1, <2>2, Zenon
  <2> HIDE DEF w, r
  <2>4. r = Put(m, d, w)
    BY <1>1, <2>3, PutIs
  <2> QED BY <1>3, <2>4 DEF w, r
<1>4. CASE n # 0
  <2> DEFINE t == Take(s, n - 1)
             w == Append(t, 0)
             l == n - 1
  <2>1. l \in Nat /\ Len(s) \in Nat
    BY <1>4
  <2>2. k = IF l < Len(s) THEN l ELSE Len(s)
    BY <2>1
  <2> HIDE DEF k
  <2>3. t \in Seq(S) /\ Len(t) = k /\ \A i \in 1 .. Len(s) : i <= l => t[i] = s[i]
    <3> HIDE DEF l
    <3>1. t = Take(s, l)
      BY DEF l
    <3> HIDE DEF t
    <3> QED BY <2>1, <2>2, <3>1, TakeLen
  <2>4. k \in Nat /\ k <= Len(s) /\ k <= l
    BY <2>1, <2>2
  <2> HIDE DEF l, t, r
  <2>5. Len(w) = k + 1 /\ w[k + 1] = 0 /\ \A i \in 1 .. k : w[i] = s[i]
    <3>1. w \in Seq(S) /\ Len(w) = k + 1 /\ w[k + 1] = 0 /\ \A i \in 1 .. k : w[i] = t[i]
      BY <2>3, <2>4
    <3>2. \A i \in 1 .. k : i \in 1 .. Len(s) /\ i <= l
      BY <2>1, <2>4
    <3> QED BY <2>3, <3>1, <3>2
  <2> HIDE DEF w
  <2>6. ASSUME NEW x \in Addr
        PROVE  r[x] = IF x \in d .. d + Len(w) - 1 THEN w[x - d + 1] ELSE m[x]
    <3>1. x \in Int
      BY DEF Addr
    <3>2. CASE x = d + k
      <4>1. x \in d .. d + Len(w) - 1 /\ x - d + 1 = k + 1
        BY <2>4, <2>5, <3>2
      <4> QED BY <1>2, <1>4, <2>5, <3>2, <4>1
    <3>3. CASE x \in d .. d + k - 1
      <4>1. x \in d .. d + Len(w) - 1 /\ x - d + 1 \in 1 .. k /\ x # d + k
        BY <2>4, <2>5, <3>1, <3>3
      <4> QED BY <1>2, <2>5, <3>3, <4>1
    <3>4. CASE x # d + k /\ x \notin d .. d + k - 1
      <4>1. x \notin d .. d + Len(w) - 1
        BY <2>4, <2>5, <3>1, <3>4
      <4> QED BY <1>2, <3>4, <4>1
    <3> QED BY <3>2, <3>3, <3>4
  <2>7. r = Put(m, d, w)
    BY <1>1, <2>6, PutIs
  <2> QED BY <1>4, <2>7 DEF w, r, t
<1> QED BY <1>3, <1>4

\* s comes before t when, behind what they have in common, s ends first or has
\* the smaller byte.
LEMMA BeforeIs ==
  ASSUME NEW s, NEW t, NEW k \in Nat, Len(s) \in Nat, Len(t) \in Nat, k <= Len(s), k <= Len(t),
         \A i \in 1 .. Len(s) : s[i] \in Nat, \A i \in 1 .. Len(t) : t[i] \in Nat,
         \A i \in 1 .. k : s[i] = t[i], k = Len(s) \/ k = Len(t) \/ s[k + 1] # t[k + 1]
  PROVE  Before(s, t) <=> k < Len(t) /\ (k < Len(s) => s[k + 1] < t[k + 1])
<1>1. ASSUME k < Len(t), k < Len(s) => s[k + 1] < t[k + 1] PROVE Before(s, t)
  <2>1. k + 1 \in 1 .. Len(t) /\ (k + 1 <= Len(s) => s[k + 1] < t[k + 1])
    BY <1>1
  <2>2. \A i \in 1 .. k + 1 - 1 : i <= Len(s) /\ s[i] = t[i]
    OBVIOUS
  <2> QED BY <2>1, <2>2 DEF Before
<1>2. ASSUME Before(s, t) PROVE k < Len(t) /\ (k < Len(s) => s[k + 1] < t[k + 1])
  <2>1. PICK j \in 1 .. Len(t) : /\ \A i \in 1 .. j - 1 : i <= Len(s) /\ s[i] = t[i]
                                 /\ j <= Len(s) => s[j] < t[j]
    BY <1>2 DEF Before
  <2>2. ~(j <= k)
    <3> SUFFICES ASSUME j <= k PROVE FALSE
      OBVIOUS
    <3>1. j \in 1 .. k /\ j <= Len(s) /\ j \in 1 .. Len(t)
      OBVIOUS
    <3>2. s[j] = t[j] /\ s[j] < t[j] /\ t[j] \in Nat
      BY <2>1, <3>1
    <3> QED BY <3>2
  <2>3. ~(j > k + 1)
    <3> SUFFICES ASSUME j > k + 1 PROVE FALSE
      OBVIOUS
    <3>1. k + 1 \in 1 .. j - 1 /\ k # Len(t)
      OBVIOUS
    <3>2. k + 1 <= Len(s) /\ s[k + 1] = t[k + 1]
      BY <2>1, <3>1
    <3> QED BY <3>1, <3>2
  <2>4. j = k + 1
    BY <2>2, <2>3
  <2> QED BY <2>1, <2>4
<1> QED BY <1>1, <1>2

\* s and t have the first k elements in common, and then, at the latest where
\* one of them ends, x and y.
PartAt(s, t, k, x, y) ==
  /\ Len(s) \in Nat /\ Len(t) \in Nat /\ k \in Nat /\ x \in Nat /\ y \in Nat
  /\ k <= Len(s) /\ k <= Len(t) /\ \A i \in 1 .. k : s[i] = t[i]
  /\ \A i \in 1 .. Len(s) : s[i] \in Nat
  /\ \A i \in 1 .. Len(t) : t[i] \in Nat
  /\ k < Len(s) => x = s[k + 1]
  /\ k < Len(t) => y = t[k + 1]
  /\ k = Len(s) /\ k < Len(t) => x < y
  /\ k < Len(s) /\ k = Len(t) => y < x
  /\ k < Len(s) /\ k < Len(t) => x # y
  /\ k = Len(s) /\ k = Len(t) => x = y

\* Then x and y compare as s and t do.
LEMMA CompareIs ==
  ASSUME NEW s, NEW t, NEW k, NEW x, NEW y, PartAt(s, t, k, x, y)
  PROVE  Sign(x - y) = Compare(s, t)
<1> USE DEF PartAt
<1>1. k = Len(s) \/ k = Len(t) \/ s[k + 1] # t[k + 1]
  OBVIOUS
<1>2. Before(s, t) <=> k < Len(t) /\ (k < Len(s) => s[k + 1] < t[k + 1])
  BY <1>1, BeforeIs
<1>3. Before(t, s) <=> k < Len(s) /\ (k < Len(t) => t[k + 1] < s[k + 1])
  BY <1>1, BeforeIs
<1>4. (Before(s, t) <=> x < y) /\ (Before(t, s) <=> y < x)
  BY <1>2, <1>3
<1>5. Sign(x - y) = IF x < y THEN -1 ELSE IF y < x THEN 1 ELSE 0
  BY DEF Sign
<1> QED BY <1>4, <1>5 DEF Compare

\* A loop that goes on to the next index until it stops: f[i] is what it returns
\* from i on.
IsScan(f, S, v) == f = [i \in Nat |-> IF i \in S THEN v[i] ELSE f[i + 1]]

\* A loop that returns v at its first place in S is a function of where it starts.
LEMMA ScanExists ==
  ASSUME NEW S \in SUBSET Nat, NEW v
  PROVE  \E f : IsScan(f, S, v)
<1> DEFINE From(i) == {j \in S : i <= j}
           Least(i) == CHOOSE j \in From(i) : \A l \in From(i) : j <= l
           f == [i \in Nat |-> IF From(i) = {} THEN 0 ELSE v[Least(i)]]
<1>1. ASSUME NEW i \in Nat PROVE f[i] = IF i \in S THEN v[i] ELSE f[i + 1]
  <2>1. CASE i \in S
    <3>1. i \in From(i) /\ \A l \in From(i) : i <= l
      BY <2>1
    <3>2. \A j \in From(i) : (\A l \in From(i) : j <= l) => j = i
      BY <3>1
    <3>3. Least(i) \in From(i) /\ \A l \in From(i) : Least(i) <= l
      BY <3>1
    <3>4. Least(i) = i
      BY <3>2, <3>3
    <3>5. From(i) # {}
      BY <3>1
    <3> HIDE DEF From, Least
    <3> QED BY <2>1, <3>4, <3>5
  <2>2. CASE i \notin S
    <3>1. From(i) = From(i + 1)
      <4>1. \A j \in S : i <= j <=> i + 1 <= j
        BY <2>2
      <4> QED BY <4>1
    <3>2. i + 1 \in Nat
      OBVIOUS
    <3>3. Least(i) = Least(i + 1)
      BY <3>1
    <3> HIDE DEF From, Least
    <3> QED BY <2>2, <3>1, <3>2, <3>3
  <2> QED BY <2>1, <2>2
<1>2. f = [i \in Nat |-> f[i]]
  OBVIOUS
<1> HIDE DEF f
<1>3. f = [i \in Nat |-> IF i \in S THEN v[i] ELSE f[i + 1]]
  BY <1>1, <1>2
<1>4. IsScan(f, S, v)
  BY <1>3 DEF IsScan
<1> QED BY <1>4

\* It returns what it has at its first stop.
LEMMA ScanStops ==
  ASSUME NEW f, NEW S \in SUBSET Nat, NEW v, IsScan(f, S, v),
         NEW k \in S, \A j \in 0 .. k - 1 : j \notin S
  PROVE  f[0] = v[k]
<1>1. \A i \in Nat : f[i] = IF i \in S THEN v[i] ELSE f[i + 1]
  BY Zenon DEF IsScan
<1> DEFINE T == {j \in Nat : j <= k => f[k - j] = v[k]}
<1>2. 0 \in T
  BY <1>1
<1>3. ASSUME NEW j \in 1 .. k, j - 1 \in T PROVE j \in T
  <2>1. k - j \in Nat /\ k - j \in 0 .. k - 1 /\ k - j + 1 = k - (j - 1) /\ j - 1 <= k
    OBVIOUS
  <2>2. f[k - j] = f[k - j + 1]
    BY <1>1, <2>1
  <2>3. f[k - (j - 1)] = v[k]
    BY <1>3, <2>1
  <2> QED BY <2>1, <2>2, <2>3
<1>4. T \in SUBSET Nat
  OBVIOUS
<1> HIDE DEF T
<1>5. 0 .. k \subseteq T
  BY <1>2, <1>3, <1>4, ByCounting
<1>6. k \in T
  BY <1>5
<1>7. f[k - k] = v[k]
  BY <1>6 DEF T
<1> QED BY <1>7

IsMemcmp(f, m, a, b, n) ==
  f = [i \in Nat |-> IF i = n THEN 0
                     ELSE IF m[a + i] # m[b + i] THEN m[a + i] - m[b + i] ELSE f[i + 1]]
IsStrcmp(f, m, a, b) ==
  f = [i \in Nat |->
         IF m[a + i] = 0 \/ m[b + i] = 0 \/ m[a + i] # m[b + i] THEN m[a + i] - m[b + i]
         ELSE f[i + 1]]
IsStrncmp(f, m, a, b, n) ==
  f = [i \in Nat |-> IF i = n THEN 0
                     ELSE IF m[a + i] # m[b + i] THEN m[a + i] - m[b + i]
                     ELSE IF m[a + i] = 0 THEN 0 ELSE f[i + 1]]

\* A set of natural numbers that is not empty is entered somewhere.
LEMMA FirstIn ==
  ASSUME NEW S \in SUBSET Nat, NEW e \in S
  PROVE  \E k \in S : k <= e /\ \A j \in 0 .. k - 1 : j \notin S
<1>1. PICK k \in S : \A j \in S : k <= j
  BY LeastOf
<1>2. \A j \in 0 .. k - 1 : ~(k <= j)
  OBVIOUS
<1> QED BY <1>1, <1>2

\* memcmp stops where the ranges differ, or at n.
LEMMA MemcmpCompares ==
  ASSUME NEW m \in Memories, NEW a \in Nat, NEW b \in Nat, NEW n \in Nat, Within(a, n), Within(b, n)
  PROVE  Sign(Memcmp(m, a, b, n)) = Compare(Bytes(m, a, n), Bytes(m, b, n))
<1> DEFINE S == {i \in Nat : i = n \/ m[a + i] # m[b + i]}
           v == [i \in Nat |-> IF i = n THEN 0 ELSE m[a + i] - m[b + i]]
           c == CHOOSE f : IsMemcmp(f, m, a, b, n)
           s == Bytes(m, a, n)
           t == Bytes(m, b, n)
<1>1. \A f : IsScan(f, S, v) <=> IsMemcmp(f, m, a, b, n)
  <2> SUFFICES ASSUME NEW f, NEW i \in Nat
               PROVE  (IF i \in S THEN v[i] ELSE f[i + 1])
                      = IF i = n THEN 0
                        ELSE IF m[a + i] # m[b + i] THEN m[a + i] - m[b + i] ELSE f[i + 1]
    BY DEF IsScan, IsMemcmp
  <2> QED OBVIOUS
<1>2. S \in SUBSET Nat /\ n \in S
  OBVIOUS
<1>3. IsMemcmp(c, m, a, b, n)
  <2>1. \E f : IsScan(f, S, v)
    BY <1>2, ScanExists
  <2> HIDE DEF S, v
  <2> QED BY <1>1, <2>1
<1>4. Memcmp(m, a, b, n) = c[0]
  BY Zenon DEF Memcmp, IsMemcmp
<1>5. PICK k \in S : k <= n /\ \A j \in 0 .. k - 1 : j \notin S
  BY <1>2, FirstIn
<1>6. c[0] = v[k]
  <2> HIDE DEF S, v, c
  <2> QED BY <1>1, <1>2, <1>3, <1>5, ScanStops
<1>7. /\ Len(s) = n /\ Len(t) = n
      /\ \A i \in 1 .. n : s[i] = m[a + i - 1] /\ t[i] = m[b + i - 1]
  BY BytesLen, a \in Int, b \in Int
<1>8. s \in Seq(Byte) /\ t \in Seq(Byte)
  BY BytesInSeq
<1> DEFINE x == IF k = n THEN 0 ELSE m[a + k]
           y == IF k = n THEN 0 ELSE m[b + k]
<1>9. k < n => k + 1 \in 1 .. n /\ a + (k + 1) - 1 = a + k /\ b + (k + 1) - 1 = b + k
  BY <1>5
<1>10. k < n => x = s[k + 1] /\ y = t[k + 1]
  <2> HIDE DEF s, t, S
  <2> QED BY <1>5, <1>7, <1>9
<1>11. \A i \in 1 .. n : s[i] \in Nat /\ t[i] \in Nat
  <2> HIDE DEF s, t
  <2>1. \A i \in 1 .. n : s[i] \in Byte /\ t[i] \in Byte
    BY <1>7, <1>8
  <2> QED BY <2>1, KlibAssumption
<1>12. x \in Nat /\ y \in Nat
  <2>1. CASE k = n
    BY <2>1
  <2>2. CASE k # n
    <3>1. k < n
      BY <1>5, <2>2
    <3> HIDE DEF s, t, S, x, y
    <3>2. k + 1 \in 1 .. n /\ x = s[k + 1] /\ y = t[k + 1]
      BY <1>9, <1>10, <3>1
    <3> QED BY <1>11, <3>2
  <2> QED BY <2>1, <2>2
<1>13. \A i \in 1 .. k : s[i] = t[i]
  <2> SUFFICES ASSUME NEW i \in 1 .. k PROVE s[i] = t[i]
    OBVIOUS
  <2>1. i - 1 \in 0 .. k - 1 /\ i \in 1 .. n /\ a + (i - 1) = a + i - 1 /\ b + (i - 1) = b + i - 1
    BY <1>5
  <2>2. i - 1 \notin S
    BY <1>5, <2>1
  <2>3. m[a + (i - 1)] = m[b + (i - 1)]
    BY <2>1, <2>2
  <2> HIDE DEF s, t
  <2> QED BY <1>7, <2>1, <2>3
<1>14. k < n => x # y
  BY <1>5
<1>15. v[k] = x - y
  OBVIOUS
<1>16. k \in Nat /\ (k = n => x = y)
  OBVIOUS
<1> HIDE DEF s, t, S, v, x, y
<1>17. /\ Len(s) \in Nat /\ Len(t) \in Nat /\ k <= Len(s) /\ k <= Len(t)
       /\ \A i \in 1 .. Len(s) : s[i] \in Nat
       /\ \A i \in 1 .. Len(t) : t[i] \in Nat
  BY <1>5, <1>7, <1>11
<1>18. /\ k < Len(s) => x = s[k + 1]
       /\ k < Len(t) => y = t[k + 1]
       /\ k = Len(s) /\ k < Len(t) => x < y
       /\ k < Len(s) /\ k = Len(t) => y < x
       /\ k < Len(s) /\ k < Len(t) => x # y
       /\ k = Len(s) /\ k = Len(t) => x = y
  BY <1>7, <1>10, <1>14, <1>16
<1>19. PartAt(s, t, k, x, y)
  BY <1>12, <1>13, <1>16, <1>17, <1>18 DEF PartAt
<1>20. Sign(x - y) = Compare(s, t)
  BY <1>19, CompareIs
<1> QED BY <1>4, <1>6, <1>15, <1>20 DEF s, t

\* t is what m holds from a on, and has no terminator.
IsText(m, a, t) ==
  Len(t) \in Nat /\ \A i \in 1 .. Len(t) : t[i] = m[a + i - 1] /\ t[i] \in Nat /\ t[i] # 0

\* A text has no terminator before its end.
LEMMA StrText ==
  ASSUME NEW m \in Memories, NEW a \in Nat, IsString(m, a)
  PROVE  IsText(m, a, Str(m, a)) /\ Len(Str(m, a)) = StrLen(m, a)
<1> DEFINE t == Str(m, a)
           l == StrLen(m, a)
<1>1. Len(t) = l /\ l \in Nat /\ \A i \in 1 .. l : t[i] = m[a + i - 1]
  BY StrBytes, StringLength
<1>2. \A k \in 0 .. l - 1 : m[a + k] # 0
  BY StringLength
<1>3. t \in Seq(Byte)
  BY StrInSeq
<1> HIDE DEF t, l
<1>4. ASSUME NEW i \in 1 .. l PROVE t[i] = m[a + i - 1] /\ t[i] \in Nat /\ t[i] # 0
  <2>1. t[i] = m[a + i - 1]
    BY <1>1
  <2>2. t[i] \in Byte
    BY <1>1, <1>3
  <2>3. i - 1 \in 0 .. l - 1 /\ a + (i - 1) = a + i - 1
    BY <1>1
  <2>4. m[a + (i - 1)] # 0
    BY <1>2, <2>3
  <2> QED BY <2>1, <2>2, <2>3, <2>4, KlibAssumption
<1> QED BY <1>1, <1>4 DEF IsText, t, l

\* Of a string, or of n bytes that need have no terminator: the first n.
LEMMA UpToText ==
  ASSUME NEW m \in Memories, NEW a \in Nat, NEW n \in Nat, IsString(m, a) \/ Within(a, n)
  PROVE  /\ IsText(m, a, UpTo(m, a, n)) /\ Len(UpTo(m, a, n)) <= n
         /\ Len(UpTo(m, a, n)) < n => m[a + Len(UpTo(m, a, n))] = 0
<1> DEFINE t == UpTo(m, a, n)
<1>1. CASE IsString(m, a)
  <2> DEFINE s == Str(m, a)
  <2>1. IsText(m, a, s) /\ Len(s) = StrLen(m, a) /\ s \in Seq(Byte) /\ t = Take(s, n)
    BY <1>1, StrText, StrInSeq DEF UpTo
  <2>2. m[a + StrLen(m, a)] = 0
    BY <1>1, StringLength
  <2> HIDE DEF s, t
  <2>3. /\ Len(t) = IF n < Len(s) THEN n ELSE Len(s)
        /\ \A i \in 1 .. Len(s) : i <= n => t[i] = s[i]
    BY <2>1, TakeLen
  <2>4. Len(s) \in Nat /\ \A i \in 1 .. Len(s) : s[i] = m[a + i - 1] /\ s[i] \in Nat /\ s[i] # 0
    BY <2>1 DEF IsText
  <2>5. Len(t) \in Nat /\ Len(t) <= n /\ \A i \in 1 .. Len(t) : i \in 1 .. Len(s) /\ i <= n
    BY <2>3, <2>4
  <2>6. \A i \in 1 .. Len(t) : t[i] = m[a + i - 1] /\ t[i] \in Nat /\ t[i] # 0
    BY <2>3, <2>4, <2>5
  <2>7. Len(t) < n => Len(t) = StrLen(m, a)
    BY <2>1, <2>3, <2>4
  <2> QED BY <2>2, <2>5, <2>6, <2>7 DEF IsText, t
<1>2. CASE ~IsString(m, a)
  <2>1. Within(a, n) /\ t = Bytes(m, a, n) /\ a \in Int
    BY <1>2 DEF UpTo
  <2>2. t \in Seq(Byte)
    BY <2>1, BytesInSeq
  <2>3. Len(t) = n /\ \A i \in 1 .. n : t[i] = m[a + i - 1]
    BY <2>1, BytesLen
  <2>4. \A k \in 0 .. MemSize - 1 - a : m[a + k] # 0
    BY <1>2 DEF IsString, Ends
  <2> HIDE DEF t
  <2>5. ASSUME NEW i \in 1 .. n PROVE t[i] \in Nat /\ t[i] # 0
    <3>1. t[i] \in Byte
      BY <2>2, <2>3
    <3>2. i - 1 \in 0 .. MemSize - 1 - a /\ a + (i - 1) = a + i - 1
      BY <2>1, KlibAssumption DEF Within
    <3>3. m[a + (i - 1)] # 0
      BY <2>4, <3>2
    <3> QED BY <2>3, <3>1, <3>2, <3>3, KlibAssumption
  <2> QED BY <2>3, <2>5 DEF IsText, t
<1> QED BY <1>1, <1>2

\* Two texts that agree up to k, the end of one or a difference.
LEMMA TextsPartAt ==
  ASSUME NEW m, NEW a \in Nat, NEW b \in Nat, NEW s, NEW t, IsText(m, a, s), IsText(m, b, t),
         NEW k \in Nat, k <= Len(s), k <= Len(t), \A j \in 0 .. k - 1 : m[a + j] = m[b + j],
         NEW x, NEW y,
         IF k < Len(s) \/ k < Len(t) THEN x = m[a + k] /\ y = m[b + k] /\ x # y ELSE x = 0 /\ y = 0,
         k = Len(s) => x = 0, k = Len(t) => y = 0
  PROVE  PartAt(s, t, k, x, y)
<1>1. /\ Len(s) \in Nat /\ \A i \in 1 .. Len(s) : s[i] = m[a + i - 1] /\ s[i] \in Nat /\ s[i] # 0
      /\ Len(t) \in Nat /\ \A i \in 1 .. Len(t) : t[i] = m[b + i - 1] /\ t[i] \in Nat /\ t[i] # 0
  BY DEF IsText
<1>2. ASSUME NEW i \in 1 .. k PROVE s[i] = t[i]
  <2>1. i \in 1 .. Len(s) /\ i \in 1 .. Len(t) /\ i - 1 \in 0 .. k - 1
        /\ a + (i - 1) = a + i - 1 /\ b + (i - 1) = b + i - 1
    BY <1>1
  <2>2. m[a + (i - 1)] = m[b + (i - 1)]
    BY <2>1
  <2> QED BY <1>1, <2>1, <2>2
<1>3. a + (k + 1) - 1 = a + k /\ b + (k + 1) - 1 = b + k
  OBVIOUS
<1>4. k < Len(s) => x = s[k + 1] /\ x \in Nat /\ x # 0
  <2> SUFFICES ASSUME k < Len(s) PROVE x = s[k + 1] /\ x \in Nat /\ x # 0
    OBVIOUS
  <2>1. k + 1 \in 1 .. Len(s) /\ x = m[a + k]
    BY <1>1
  <2>2. s[k + 1] = m[a + (k + 1) - 1] /\ s[k + 1] \in Nat /\ s[k + 1] # 0
    BY <1>1, <2>1
  <2> QED BY <1>3, <2>1, <2>2
<1>5. k < Len(t) => y = t[k + 1] /\ y \in Nat /\ y # 0
  <2> SUFFICES ASSUME k < Len(t) PROVE y = t[k + 1] /\ y \in Nat /\ y # 0
    OBVIOUS
  <2>1. k + 1 \in 1 .. Len(t) /\ y = m[b + k]
    BY <1>1
  <2>2. t[k + 1] = m[b + (k + 1) - 1] /\ t[k + 1] \in Nat /\ t[k + 1] # 0
    BY <1>1, <2>1
  <2> QED BY <1>3, <2>1, <2>2
<1>6. x \in Nat /\ y \in Nat
  BY <1>1, <1>4, <1>5
<1> QED BY <1>1, <1>2, <1>4, <1>5, <1>6 DEF PartAt

\* strcmp stops at a difference, or at both terminators.
LEMMA StrcmpCompares ==
  ASSUME NEW m \in Memories, NEW a \in Nat, NEW b \in Nat, IsString(m, a), IsString(m, b)
  PROVE  Sign(Strcmp(m, a, b)) = Compare(Str(m, a), Str(m, b))
<1> DEFINE S == {i \in Nat : m[a + i] = 0 \/ m[b + i] = 0 \/ m[a + i] # m[b + i]}
           v == [i \in Nat |-> m[a + i] - m[b + i]]
           c == CHOOSE f : IsStrcmp(f, m, a, b)
           s == Str(m, a)
           t == Str(m, b)
<1>1. \A f : IsScan(f, S, v) <=> IsStrcmp(f, m, a, b)
  <2> SUFFICES ASSUME NEW f, NEW i \in Nat
               PROVE  (IF i \in S THEN v[i] ELSE f[i + 1])
                      = IF m[a + i] = 0 \/ m[b + i] = 0 \/ m[a + i] # m[b + i]
                        THEN m[a + i] - m[b + i] ELSE f[i + 1]
    BY DEF IsScan, IsStrcmp
  <2> QED OBVIOUS
<1>2. /\ IsText(m, a, s) /\ Len(s) = StrLen(m, a) /\ StrLen(m, a) \in Nat /\ m[a + StrLen(m, a)] = 0
      /\ IsText(m, b, t) /\ Len(t) = StrLen(m, b) /\ StrLen(m, b) \in Nat /\ m[b + StrLen(m, b)] = 0
  BY StrText, StringLength
<1>3. S \in SUBSET Nat /\ StrLen(m, a) \in S /\ StrLen(m, b) \in S
  BY <1>2
<1>4. IsStrcmp(c, m, a, b)
  <2>1. \E f : IsScan(f, S, v)
    BY <1>3, ScanExists
  <2> HIDE DEF S, v
  <2> QED BY <1>1, <2>1
<1>5. Strcmp(m, a, b) = c[0]
  BY Zenon DEF Strcmp, IsStrcmp
<1>6. PICK k \in S : k <= StrLen(m, a) /\ \A j \in 0 .. k - 1 : j \notin S
  <2> HIDE DEF S
  <2> QED BY <1>3, FirstIn
<1>7. c[0] = v[k]
  <2> HIDE DEF S, v, c
  <2> QED BY <1>1, <1>3, <1>4, <1>6, ScanStops
<1>8. k \in Nat /\ k <= Len(s) /\ k <= Len(t)
  <2>1. k \in Nat
    BY <1>6
  <2>2. StrLen(m, b) \notin 0 .. k - 1
    <3> HIDE DEF S
    <3> QED BY <1>3, <1>6
  <2> HIDE DEF s, t, S
  <2> QED BY <1>2, <1>6, <2>1, <2>2
<1>9. \A j \in 0 .. k - 1 : m[a + j] = m[b + j]
  BY <1>6
<1> DEFINE x == IF k < Len(s) \/ k < Len(t) THEN m[a + k] ELSE 0
           y == IF k < Len(s) \/ k < Len(t) THEN m[b + k] ELSE 0
<1>10. /\ k = Len(s) => m[a + k] = 0 /\ x = 0
       /\ k = Len(t) => m[b + k] = 0 /\ y = 0
  <2> HIDE DEF s, t, S
  <2> QED BY <1>2
<1>11. /\ k < Len(s) => m[a + k] # 0
       /\ k < Len(t) => m[b + k] # 0
  <2> HIDE DEF s, t, S
  <2>1. a + (k + 1) - 1 = a + k /\ b + (k + 1) - 1 = b + k
    BY <1>8
  <2>2. (k < Len(s) => k + 1 \in 1 .. Len(s)) /\ (k < Len(t) => k + 1 \in 1 .. Len(t))
    BY <1>2, <1>8
  <2> QED BY <1>2, <2>1, <2>2 DEF IsText
<1>12. IF k < Len(s) \/ k < Len(t) THEN x = m[a + k] /\ y = m[b + k] /\ x # y ELSE x = 0 /\ y = 0
  <2>1. m[a + k] = 0 \/ m[b + k] = 0 \/ m[a + k] # m[b + k]
    BY <1>6
  <2> HIDE DEF S
  <2>2. k < Len(s) \/ k < Len(t) => m[a + k] # m[b + k]
    <3> HIDE DEF s, t
    <3> QED BY <1>2, <1>8, <1>10, <1>11, <2>1
  <2> QED BY <2>2
<1>13. v[k] = m[a + k] - m[b + k] /\ m[a + k] - m[b + k] = x - y
  <2>1. k = Len(s) /\ k = Len(t) => m[a + k] = 0 /\ m[b + k] = 0
    BY <1>10
  <2> HIDE DEF s, t
  <2>2. k < Len(s) \/ k < Len(t) \/ (k = Len(s) /\ k = Len(t))
    BY <1>2, <1>8
  <2> QED BY <1>8, <2>1, <2>2
<1> HIDE DEF x, y, s, t, S, v
<1>14. PartAt(s, t, k, x, y)
  BY <1>2, <1>8, <1>9, <1>10, <1>12, TextsPartAt
<1>15. Sign(x - y) = Compare(s, t)
  BY <1>14, CompareIs
<1> QED BY <1>5, <1>7, <1>13, <1>15 DEF s, t

\* strncmp stops at a difference, at both terminators or at n.
LEMMA StrncmpCompares ==
  ASSUME NEW m \in Memories, NEW a \in Nat, NEW b \in Nat, NEW n \in Nat,
         IsString(m, a) \/ Within(a, n), IsString(m, b) \/ Within(b, n)
  PROVE  Sign(Strncmp(m, a, b, n)) = Compare(UpTo(m, a, n), UpTo(m, b, n))
<1> DEFINE S == {i \in Nat : i = n \/ m[a + i] # m[b + i] \/ m[a + i] = 0}
           v == [i \in Nat |-> IF i = n THEN 0
                               ELSE IF m[a + i] # m[b + i] THEN m[a + i] - m[b + i] ELSE 0]
           c == CHOOSE f : IsStrncmp(f, m, a, b, n)
           s == UpTo(m, a, n)
           t == UpTo(m, b, n)
<1>1. \A f : IsScan(f, S, v) <=> IsStrncmp(f, m, a, b, n)
  <2> SUFFICES ASSUME NEW f, NEW i \in Nat
               PROVE  (IF i \in S THEN v[i] ELSE f[i + 1])
                      = IF i = n THEN 0
                        ELSE IF m[a + i] # m[b + i] THEN m[a + i] - m[b + i]
                        ELSE IF m[a + i] = 0 THEN 0 ELSE f[i + 1]
    BY DEF IsScan, IsStrncmp
  <2> QED OBVIOUS
<1>2. /\ IsText(m, a, s) /\ Len(s) <= n /\ (Len(s) < n => m[a + Len(s)] = 0)
      /\ IsText(m, b, t) /\ Len(t) <= n /\ (Len(t) < n => m[b + Len(t)] = 0)
      /\ Len(s) \in Nat /\ Len(t) \in Nat
  BY UpToText DEF IsText
<1>3. S \in SUBSET Nat /\ n \in S
  OBVIOUS
<1>4. IsStrncmp(c, m, a, b, n)
  <2>1. \E f : IsScan(f, S, v)
    BY <1>3, ScanExists
  <2> HIDE DEF S, v
  <2> QED BY <1>1, <2>1
<1>5. Strncmp(m, a, b, n) = c[0]
  BY Zenon DEF Strncmp, IsStrncmp
<1>6. PICK k \in S : k <= n /\ \A j \in 0 .. k - 1 : j \notin S
  <2> HIDE DEF S
  <2> QED BY <1>3, FirstIn
<1>7. c[0] = v[k]
  <2> HIDE DEF S, v, c
  <2> QED BY <1>1, <1>3, <1>4, <1>6, ScanStops
<1>8. k \in Nat /\ \A j \in 0 .. k - 1 : m[a + j] = m[b + j] /\ m[a + j] # 0
  BY <1>6
<1>9. k <= Len(s) /\ k <= Len(t)
  <2> HIDE DEF s, t, S
  <2>1. ~(Len(s) \in 0 .. k - 1)
    <3> SUFFICES ASSUME Len(s) \in 0 .. k - 1 PROVE FALSE
      OBVIOUS
    <3>1. Len(s) < n
      BY <1>2, <1>6, <1>8
    <3> QED BY <1>2, <1>8, <3>1
  <2>2. ~(Len(t) \in 0 .. k - 1)
    <3> SUFFICES ASSUME Len(t) \in 0 .. k - 1 PROVE FALSE
      OBVIOUS
    <3>1. Len(t) < n
      BY <1>2, <1>6, <1>8
    <3> QED BY <1>2, <1>8, <3>1
  <2> QED BY <1>2, <1>8, <2>1, <2>2
<1> DEFINE x == IF k < Len(s) \/ k < Len(t) THEN m[a + k] ELSE 0
           y == IF k < Len(s) \/ k < Len(t) THEN m[b + k] ELSE 0
<1>10. /\ k < Len(s) => m[a + k] # 0 /\ k # n
       /\ k < Len(t) => m[b + k] # 0 /\ k # n
  <2> HIDE DEF s, t, S
  <2>1. a + (k + 1) - 1 = a + k /\ b + (k + 1) - 1 = b + k
    BY <1>8
  <2>2. (k < Len(s) => k + 1 \in 1 .. Len(s)) /\ (k < Len(t) => k + 1 \in 1 .. Len(t))
    BY <1>2, <1>8
  <2>3. k < Len(s) => m[a + (k + 1) - 1] # 0
    BY <1>2, <2>2 DEF IsText
  <2>4. k < Len(t) => m[b + (k + 1) - 1] # 0
    BY <1>2, <2>2 DEF IsText
  <2>5. (k < Len(s) => k # n) /\ (k < Len(t) => k # n)
    BY <1>2, <1>8
  <2> QED BY <2>1, <2>3, <2>4, <2>5
<1>11. /\ k = Len(s) => k = n \/ m[a + k] = 0
       /\ k = Len(t) => k = n \/ m[b + k] = 0
  <2> HIDE DEF s, t, S
  <2> QED BY <1>2
<1>12. k = n \/ m[a + k] # m[b + k] \/ m[a + k] = 0
  BY <1>6
<1>13. k < Len(s) \/ k < Len(t) => k # n /\ m[a + k] # m[b + k]
  <2> HIDE DEF s, t, S
  <2>1. k < Len(s) \/ k < Len(t) => k # n
    BY <1>10
  <2>2. k < Len(s) \/ k = Len(s)
    BY <1>2, <1>8, <1>9
  <2>3. k < Len(t) \/ k = Len(t)
    BY <1>2, <1>8, <1>9
  <2> QED BY <1>10, <1>11, <1>12, <2>1, <2>2, <2>3
<1>14. IF k < Len(s) \/ k < Len(t) THEN x = m[a + k] /\ y = m[b + k] /\ x # y ELSE x = 0 /\ y = 0
  <2> HIDE DEF s, t, S
  <2> QED BY <1>13
<1>15. (k = Len(s) => x = 0) /\ (k = Len(t) => y = 0)
  <2> HIDE DEF s, t, S
  <2> QED BY <1>11, <1>13
<1>16. v[k] = x - y
  <2>1. v[k] = IF k = n THEN 0 ELSE IF m[a + k] # m[b + k] THEN m[a + k] - m[b + k] ELSE 0
    BY <1>8
  <2> HIDE DEF s, t, S, v
  <2>2. CASE k < Len(s) \/ k < Len(t)
    BY <1>13, <2>1, <2>2
  <2>3. CASE ~(k < Len(s) \/ k < Len(t))
    <3>1. k = Len(s) /\ k = Len(t)
      BY <1>2, <1>8, <1>9, <2>3
    <3>2. k = n \/ (m[a + k] = 0 /\ m[b + k] = 0)
      BY <1>11, <3>1
    <3> QED BY <2>1, <2>3, <3>2
  <2> QED BY <2>2, <2>3
<1> HIDE DEF x, y, s, t, S, v
<1>17. \A j \in 0 .. k - 1 : m[a + j] = m[b + j]
  BY <1>8
<1>18. PartAt(s, t, k, x, y)
  BY <1>2, <1>8, <1>9, <1>14, <1>15, <1>17, TextsPartAt
<1>19. Sign(x - y) = Compare(s, t)
  BY <1>18, CompareIs
<1> QED BY <1>5, <1>7, <1>16, <1>19 DEF s, t

IsPower(f, base, k) == f = [i \in 0 .. k |-> IF i = 0 THEN 1 ELSE base * f[i - 1]]

\* Powers as a function on the exponent.
LEMMA PowerSteps ==
  ASSUME NEW base \in Nat, NEW k \in Nat, NEW f, IsPower(f, base, k)
  PROVE  f[0] = 1 /\ \A i \in 1 .. k : f[i] = base * f[i - 1]
<1>1. 0 \in 0 .. k /\ \A i \in 1 .. k : i \in 0 .. k /\ i # 0
  OBVIOUS
<1>2. \A i \in 0 .. k : f[i] = IF i = 0 THEN 1 ELSE base * f[i - 1]
  BY Zenon DEF IsPower
<1> QED BY <1>1, <1>2, Zenon

LEMMA PowerExists ==
  ASSUME NEW base \in Nat, NEW k \in Nat
  PROVE  \E f : IsPower(f, base, k)
<1> DEFINE g == [x \in (1 .. k) \X Nat |-> base * x[2]]
<1>1. g \in [(1 .. k) \X Nat -> Nat]
  <2>1. \A y \in Nat : base * y \in Nat
    OBVIOUS
  <2> QED BY <2>1
<1>2. PICK f : Runs(f, k, Nat, 1, g)
  <2> HIDE DEF g
  <2> QED BY <1>1, Recursion
<1>3. f \in [0 .. k -> Nat] /\ f[0] = 1 /\ \A i \in 1 .. k : f[i] = g[<<i, f[i - 1]>>]
  BY <1>2 DEF Runs
<1>4. ASSUME NEW i \in 0 .. k PROVE f[i] = IF i = 0 THEN 1 ELSE base * f[i - 1]
  <2>1. CASE i = 0
    BY <1>3, <2>1
  <2>2. CASE i # 0
    <3>1. i \in 1 .. k /\ i - 1 \in 0 .. k
      BY <2>2
    <3>2. f[i - 1] \in Nat
      BY <1>3, <3>1
    <3>3. g[<<i, f[i - 1]>>] = base * f[i - 1]
      BY <3>1, <3>2
    <3> HIDE DEF g
    <3> QED BY <1>3, <2>2, <3>1, <3>3
  <2> QED BY <2>1, <2>2
<1>5. f = [i \in 0 .. k |-> f[i]]
  BY <1>3
<1> HIDE DEF g
<1>6. f = [i \in 0 .. k |-> IF i = 0 THEN 1 ELSE base * f[i - 1]]
  BY <1>4, <1>5
<1> QED BY <1>6 DEF IsPower

LEMMA PowerChosen ==
  ASSUME NEW base \in Nat, NEW k \in Nat
  PROVE  \E f : IsPower(f, base, k) /\ Power(base, k) = f[k]
<1> DEFINE c == CHOOSE f : IsPower(f, base, k)
<1>1. IsPower(c, base, k)
  BY PowerExists, Zenon
<1>2. Power(base, k) = c[k]
  BY Zenon DEF Power, IsPower
<1> HIDE DEF c
<1> QED BY <1>1, <1>2

\* Two such functions agree as far as both go.
LEMMA PowersAgree ==
  ASSUME NEW base \in Nat, NEW k \in Nat, NEW l \in Nat, NEW f, NEW h,
         IsPower(f, base, k), IsPower(h, base, l), NEW n \in Nat, n <= k, n <= l
  PROVE  f[n] = h[n]
<1>1. f[0] = 1 /\ \A i \in 1 .. k : f[i] = base * f[i - 1]
  BY PowerSteps
<1>2. h[0] = 1 /\ \A i \in 1 .. l : h[i] = base * h[i - 1]
  BY PowerSteps
<1> DEFINE T == {i \in Nat : f[i] = h[i]}
<1>3. 0 \in T /\ T \in SUBSET Nat
  BY <1>1, <1>2
<1>4. ASSUME NEW i \in 1 .. n, i - 1 \in T PROVE i \in T
  <2>1. i \in 1 .. k /\ i \in 1 .. l /\ i \in Nat /\ f[i - 1] = h[i - 1]
    BY <1>4
  <2>2. f[i] = h[i]
    BY <1>1, <1>2, <2>1, Zenon
  <2> QED BY <2>1, <2>2
<1> HIDE DEF T
<1>5. 0 .. n \subseteq T
  BY <1>3, <1>4, ByCounting
<1>6. n \in T
  BY <1>5
<1> QED BY <1>6 DEF T

\* The powers of a base.
LEMMA PowerIs ==
  ASSUME NEW base \in Nat
  PROVE  /\ Power(base, 0) = 1
         /\ \A k \in Nat : Power(base, k) \in Nat /\ Power(base, k + 1) = base * Power(base, k)
<1>1. Power(base, 0) = 1
  <2>1. PICK f : IsPower(f, base, 0) /\ Power(base, 0) = f[0]
    BY PowerChosen, 0 \in Nat
  <2> QED BY <2>1, PowerSteps, 0 \in Nat
<1>2. ASSUME NEW k \in Nat PROVE Power(base, k + 1) = base * Power(base, k)
  <2> DEFINE l == k + 1
  <2>1. l \in Nat /\ l \in 1 .. l /\ l - 1 = k /\ k <= l /\ k <= k
    OBVIOUS
  <2> HIDE DEF l
  <2>2. PICK f : IsPower(f, base, l) /\ Power(base, l) = f[l]
    BY <2>1, PowerChosen
  <2>3. PICK h : IsPower(h, base, k) /\ Power(base, k) = h[k]
    BY PowerChosen
  <2>4. f[k] = h[k]
    BY <2>1, <2>2, <2>3, PowersAgree
  <2>5. f[l] = base * f[k]
    BY <2>1, <2>2, PowerSteps
  <2> QED BY <2>2, <2>3, <2>4, <2>5 DEF l
<1> DEFINE T == {k \in Nat : Power(base, k) \in Nat}
<1>3. T \in SUBSET Nat /\ 0 \in T
  BY <1>1
<1>4. ASSUME NEW n \in Nat PROVE Power(base, n) \in Nat
  <2>1. ASSUME NEW k \in 1 .. n, k - 1 \in T PROVE k \in T
    <3>1. k - 1 \in Nat /\ k - 1 + 1 = k /\ Power(base, k - 1) \in Nat /\ k \in Nat
      BY <2>1
    <3>2. Power(base, k - 1 + 1) = base * Power(base, k - 1)
      BY <1>2, <3>1, Zenon
    <3>3. Power(base, k) \in Nat
      BY <3>1, <3>2
    <3> QED BY <3>1, <3>3
  <2> HIDE DEF T
  <2>2. 0 .. n \subseteq T
    BY <1>3, <2>1, ByCounting
  <2>3. n \in T
    BY <2>2
  <2> QED BY <2>3 DEF T
<1> QED BY <1>1, <1>2, <1>4

IsDigitSum(f, s) ==
  f = [i \in 0 .. Len(s) |->
         IF i = 0 THEN 0 ELSE f[i - 1] + DigitValue(s[i]) * Power(10, Len(s) - i)]
IsValue(f, m, first, last) ==
  f = [a \in first .. last |-> IF a = first THEN 0 ELSE f[a - 1] * 10 + DigitValue(m[a - 1])]

LEMMA PowersOfTen ==
  \A k \in Nat : Power(10, k + 1) = 10 * Power(10, k) /\ Power(10, k) \in Int
<1>1. 10 \in Nat
  OBVIOUS
<1>2. \A k \in Nat : Power(10, k) \in Nat /\ Power(10, k + 1) = 10 * Power(10, k)
  BY <1>1, PowerIs, Zenon
<1> QED BY <1>2

\* A byte has a digit's value when it is one.
LEMMA DigitValueIs ==
  ASSUME NEW c
  PROVE  /\ DigitValue(c) \in Int
         /\ c \in {Digit[v] : v \in 0 .. 9} <=> DigitValue(c) # -1
<1>1. CASE \E v \in 0 .. 9 : Digit[v] = c
  <2>1. DigitValue(c) \in 0 .. 9
    BY <1>1 DEF DigitValue
  <2> QED BY <1>1, <2>1
<1>2. CASE ~\E v \in 0 .. 9 : Digit[v] = c
  BY <1>2 DEF DigitValue
<1> QED BY <1>1, <1>2

\* The sum by position and the loop of atoi are well defined.
LEMMA DigitSumExists ==
  ASSUME NEW s, Len(s) \in Nat
  PROVE  \E f : IsDigitSum(f, s) /\ f \in [0 .. Len(s) -> Int]
<1> DEFINE n == Len(s)
           g == [x \in (1 .. n) \X Int |-> x[2] + DigitValue(s[x[1]]) * Power(10, n - x[1])]
<1>1. ASSUME NEW i \in 1 .. n PROVE DigitValue(s[i]) * Power(10, n - i) \in Int
  <2>1. DigitValue(s[i]) \in Int
    BY DigitValueIs
  <2>2. n - i \in Nat
    OBVIOUS
  <2>3. Power(10, n - i) \in Int
    BY <2>2, PowerIs, 10 \in Nat
  <2> QED BY <2>1, <2>3
<1>2. g \in [(1 .. n) \X Int -> Int]
  <2> SUFFICES ASSUME NEW i \in 1 .. n, NEW y \in Int
               PROVE  y + DigitValue(s[i]) * Power(10, n - i) \in Int
    OBVIOUS
  <2> QED BY <1>1
<1>3. PICK f : Runs(f, n, Int, 0, g)
  <2>1. n \in Nat
    OBVIOUS
  <2> HIDE DEF g, n
  <2> QED BY <1>2, <2>1, 0 \in Int, Recursion
<1>4. f \in [0 .. n -> Int] /\ f[0] = 0 /\ \A i \in 1 .. n : f[i] = g[<<i, f[i - 1]>>]
  BY <1>3 DEF Runs
<1>5. ASSUME NEW i \in 0 .. n
      PROVE  f[i] = IF i = 0 THEN 0 ELSE f[i - 1] + DigitValue(s[i]) * Power(10, n - i)
  <2>1. CASE i = 0
    BY <1>4, <2>1
  <2>2. CASE i # 0
    <3>1. i \in 1 .. n /\ i - 1 \in 0 .. n
      BY <2>2
    <3>2. f[i - 1] \in Int
      BY <1>4, <3>1
    <3>3. g[<<i, f[i - 1]>>] = f[i - 1] + DigitValue(s[i]) * Power(10, n - i)
      BY <3>1, <3>2
    <3> HIDE DEF g
    <3> QED BY <1>4, <2>2, <3>1, <3>3
  <2> QED BY <2>1, <2>2
<1>6. f = [i \in 0 .. n |-> f[i]]
  BY <1>4
<1> HIDE DEF g
<1>7. f = [i \in 0 .. n |-> IF i = 0 THEN 0 ELSE f[i - 1] + DigitValue(s[i]) * Power(10, n - i)]
  BY <1>5, <1>6
<1> QED BY <1>4, <1>7 DEF IsDigitSum

LEMMA ValueExists ==
  ASSUME NEW m, NEW first \in Nat, NEW last \in Nat, first <= last
  PROVE  \E f : IsValue(f, m, first, last)
<1> DEFINE n == last - first
           g == [x \in (1 .. n) \X Int |-> x[2] * 10 + DigitValue(m[first + x[1] - 1])]
<1>1. n \in Nat
  OBVIOUS
<1>2. g \in [(1 .. n) \X Int -> Int]
  <2> SUFFICES ASSUME NEW i \in 1 .. n, NEW y \in Int
               PROVE  y * 10 + DigitValue(m[first + i - 1]) \in Int
    OBVIOUS
  <2> QED BY DigitValueIs
<1>3. PICK h : Runs(h, n, Int, 0, g)
  <2> HIDE DEF g, n
  <2> QED BY <1>1, <1>2, Recursion
<1>4. h \in [0 .. n -> Int] /\ h[0] = 0 /\ \A i \in 1 .. n : h[i] = g[<<i, h[i - 1]>>]
  BY <1>3 DEF Runs
<1>5. ASSUME NEW i \in 1 .. n PROVE h[i] = h[i - 1] * 10 + DigitValue(m[first + i - 1])
  <2>1. h[i - 1] \in Int
    BY <1>4
  <2>2. g[<<i, h[i - 1]>>] = h[i - 1] * 10 + DigitValue(m[first + i - 1])
    BY <2>1
  <2> HIDE DEF g
  <2> QED BY <1>4, <2>2
<1> DEFINE f == [a \in first .. last |-> h[a - first]]
<1>6. ASSUME NEW a \in first .. last
      PROVE  f[a] = IF a = first THEN 0 ELSE f[a - 1] * 10 + DigitValue(m[a - 1])
  <2>1. CASE a = first
    BY <1>4, <2>1
  <2>2. CASE a # first
    <3>1. a - first \in 1 .. n /\ a - 1 \in first .. last /\ first + (a - first) - 1 = a - 1
          /\ a - first - 1 = a - 1 - first
      BY <2>2
    <3>2. f[a] = h[a - first] /\ f[a - 1] = h[a - first - 1]
      BY <3>1
    <3> DEFINE i == a - first
    <3>3. i \in 1 .. n /\ first + i - 1 = a - 1
      BY <3>1
    <3>4. f[a] = h[i] /\ f[a - 1] = h[i - 1]
      BY <3>2
    <3> HIDE DEF i, f, n
    <3> QED BY <1>5, <2>2, <3>3, <3>4
  <2> QED BY <2>1, <2>2
<1>7. f = [a \in first .. last |-> f[a]]
  OBVIOUS
<1> HIDE DEF f
<1>8. f = [a \in first .. last |-> IF a = first THEN 0 ELSE f[a - 1] * 10 + DigitValue(m[a - 1])]
  BY <1>6, <1>7
<1> QED BY <1>8 DEF IsValue

\* One more digit: what was read counts ten times as much.
LEMMA OneMoreDigit ==
  ASSUME NEW h \in Int, NEW v \in Int, NEW p \in Int
  PROVE  (h * 10 + v) * p = h * (10 * p) + v * p
OBVIOUS

\* The loop of atoi finds what the digits it reads denote.
LEMMA ValueIsDenoted ==
  ASSUME NEW m, NEW first \in Nat, NEW last \in Nat, first <= last,
         NEW c, IsValue(c, m, first, last)
  PROVE  c[last] = Denoted(Bytes(m, first, last - first))
<1> DEFINE n == last - first
           s == Bytes(m, first, n)
           f == CHOOSE h : IsDigitSum(h, s)
           v(i) == DigitValue(m[first + i - 1])
<1>1. n \in Nat
  OBVIOUS
<1>2. Len(s) = n /\ \A i \in 1 .. n : s[i] = m[first + i - 1]
  <2> HIDE DEF n
  <2> QED BY <1>1, BytesLen, first \in Int
<1>3. IsDigitSum(f, s)
  <2> HIDE DEF s
  <2> QED BY <1>1, <1>2, DigitSumExists
<1>4. Denoted(s) = f[n]
  <2>1. Denoted(s) = f[Len(s)]
    BY Zenon DEF Denoted, IsDigitSum
  <2> QED BY <1>2, <2>1
<1> HIDE DEF s, f
<1>5. \A i \in 0 .. n : f[i] = IF i = 0 THEN 0 ELSE f[i - 1] + DigitValue(s[i]) * Power(10, n - i)
  <2>1. \A i \in 0 .. Len(s) :
          f[i] = IF i = 0 THEN 0 ELSE f[i - 1] + DigitValue(s[i]) * Power(10, Len(s) - i)
    BY <1>3, Zenon DEF IsDigitSum
  <2> QED BY <1>2, <2>1
<1>6. f[0] = 0 /\ \A i \in 1 .. n : f[i] = f[i - 1] + v(i) * Power(10, n - i)
  <2>1. f[0] = 0
    BY <1>1, <1>5
  <2>2. ASSUME NEW i \in 1 .. n PROVE f[i] = f[i - 1] + v(i) * Power(10, n - i)
    <3>1. i \in 0 .. n /\ i # 0
      OBVIOUS
    <3>2. s[i] = m[first + i - 1]
      BY <1>2
    <3> QED BY <1>5, <3>1, <3>2, Zenon
  <2> QED BY <2>1, <2>2
<1>7. \A a \in first .. last : c[a] = IF a = first THEN 0 ELSE c[a - 1] * 10 + DigitValue(m[a - 1])
  BY Zenon DEF IsValue
<1> DEFINE T == {i \in Nat : /\ c[first + i] \in Int
                             /\ c[first + i] * Power(10, n - i) = f[i]}
<1>8. \A i \in 0 .. n : n - i \in Nat /\ Power(10, n - i) \in Int
  <2>1. \A i \in 0 .. n : n - i \in Nat
    OBVIOUS
  <2> QED BY <2>1, PowerIs, 10 \in Nat
<1>9. 0 \in T
  <2>1. c[first + 0] = 0
    BY <1>7
  <2>2. n - 0 \in Nat /\ Power(10, n - 0) \in Int
    BY <1>1, <1>8
  <2> QED BY <1>6, <2>1, <2>2
<1>10. ASSUME NEW i \in 1 .. n, i - 1 \in T PROVE i \in T
  <2> DEFINE p == Power(10, n - i)
             h == c[first + (i - 1)]
             e == v(i)
  <2>1. h \in Int /\ h * Power(10, n - (i - 1)) = f[i - 1]
    BY <1>10
  <2>2. Power(10, n - (i - 1)) = 10 * p /\ p \in Int
    <3>1. n - i \in Nat /\ n - i + 1 = n - (i - 1)
      OBVIOUS
    <3>2. \A k \in Nat : Power(10, k + 1) = 10 * Power(10, k) /\ Power(10, k) \in Int
      BY PowersOfTen
    <3>3. Power(10, n - i + 1) = 10 * p /\ p \in Int
      <4> HIDE DEF n
      <4> QED BY <3>1, <3>2
    <3> HIDE DEF n, p
    <3> QED BY <3>1, <3>3
  <2>3. e \in Int
    BY DigitValueIs
  <2>4. c[first + i] = h * 10 + e
    <3> DEFINE a == first + i
    <3>1. a \in first .. last /\ a # first /\ a - 1 = first + (i - 1) /\ a - 1 = first + i - 1
      OBVIOUS
    <3> HIDE DEF a
    <3>2. c[a] = c[a - 1] * 10 + DigitValue(m[a - 1])
      BY <1>7, <3>1, Zenon
    <3>3. c[a] = h * 10 + e
      BY <3>1, <3>2
    <3> QED BY <3>3 DEF a
  <2>5. f[i] = f[i - 1] + e * p
    BY <1>6
  <2> HIDE DEF h, e, p
  <2>6. (h * 10 + e) * p = h * (10 * p) + e * p
    BY <2>1, <2>2, <2>3, OneMoreDigit
  <2>7. c[first + i] * p = f[i] /\ c[first + i] \in Int
    BY <2>1, <2>2, <2>3, <2>4, <2>5, <2>6
  <2> QED BY <2>7 DEF p
<1>11. n \in T
  <2>1. T \in SUBSET Nat
    OBVIOUS
  <2> HIDE DEF T, n
  <2>2. 0 .. n \subseteq T
    BY <1>1, <1>9, <1>10, <2>1, ByCounting
  <2> QED BY <1>1, <2>2
<1>12. Power(10, n - n) = 1
  <2>1. n - n = 0
    OBVIOUS
  <2> QED BY <2>1, PowerIs, 10 \in Nat
<1>13. c[first + n] \in Int /\ c[first + n] * Power(10, n - n) = f[n]
  BY <1>11
<1>14. first + n = last
  OBVIOUS
<1> QED BY <1>4, <1>12, <1>13, <1>14 DEF s

\* The loop stops at or before any byte outside the set.
LEMMA SkipOverIs ==
  ASSUME NEW m, NEW a \in Nat, NEW bytes, NEW e \in a .. MemSize - 1, m[e] \notin bytes
  PROVE  /\ SkipOver(m, a, bytes) \in a .. e
         /\ m[SkipOver(m, a, bytes)] \notin bytes
         /\ \A x \in a .. SkipOver(m, a, bytes) - 1 : m[x] \in bytes
<1> DEFINE T == {b \in a .. MemSize - 1 : m[b] \notin bytes}
           Stops(b) == m[b] \notin bytes /\ \A x \in a .. b - 1 : m[x] \in bytes
<1>1. T \in SUBSET Nat /\ e \in T
  BY KlibAssumption
<1>2. PICK b \in T : \A x \in T : b <= x
  <2> HIDE DEF T
  <2> QED BY <1>1, LeastOf
<1>3. \A x \in a .. b - 1 : x \notin T /\ x \in a .. MemSize - 1
  <2>1. b \in a .. MemSize - 1
    BY <1>2
  <2> HIDE DEF T
  <2> QED BY <1>2, <2>1, KlibAssumption
<1>4. b \in a .. MemSize - 1 /\ Stops(b)
  BY <1>2, <1>3
<1>5. SkipOver(m, a, bytes) \in a .. MemSize - 1 /\ Stops(SkipOver(m, a, bytes))
  BY <1>4 DEF SkipOver
<1>6. SkipOver(m, a, bytes) <= e
  <2>1. e \notin a .. SkipOver(m, a, bytes) - 1
    BY <1>5
  <2> QED BY <1>5, <2>1, KlibAssumption
<1> QED BY <1>5, <1>6, KlibAssumption

\* atoi as the last value of its loop.
LEMMA AtoiChosen ==
  ASSUME NEW m, NEW s
  PROVE  Atoi(m, s) =
           (CHOOSE f : IsValue(f, m, SkipOver(m, s, {Space}),
                               SkipOver(m, SkipOver(m, s, {Space}), {Digit[v] : v \in 0 .. 9})))
             [SkipOver(m, SkipOver(m, s, {Space}), {Digit[v] : v \in 0 .. 9})]
BY Zenon DEF Atoi, IsValue

\* Spaces, digits and the number they denote.
LEMMA AtoiIs ==
  ASSUME NEW m \in Memories, NEW s \in Nat, IsString(m, s)
  PROVE  \E k, l \in 0 .. Len(Str(m, s)) :
           /\ k <= l
           /\ \A i \in 1 .. k : Str(m, s)[i] = Space
           /\ k < Len(Str(m, s)) => Str(m, s)[k + 1] # Space
           /\ \A i \in k + 1 .. l : DigitValue(Str(m, s)[i]) # -1
           /\ l < Len(Str(m, s)) => DigitValue(Str(m, s)[l + 1]) = -1
           /\ Atoi(m, s) = Denoted(Bytes(m, s + k, l - k))
<1> DEFINE t == Str(m, s)
           n == StrLen(m, s)
           digits == {Digit[v] : v \in 0 .. 9}
           first == SkipOver(m, s, {Space})
           last == SkipOver(m, first, digits)
           c == CHOOSE f : IsValue(f, m, first, last)
           k == first - s
           l == last - s
<1>1. n \in Nat /\ s + n \in s .. MemSize - 1 /\ m[s + n] = 0
  BY StringLength, KlibAssumption
<1>2. Len(t) = n /\ \A i \in 1 .. n : t[i] = m[s + i - 1]
  BY StrBytes
<1>3. 0 \notin {Space} /\ 0 \notin digits
  BY KlibAssumption
<1>4. first \in s .. s + n /\ m[first] # Space /\ \A x \in s .. first - 1 : m[x] = Space
  <2> DEFINE e == s + n
  <2>1. e \in s .. MemSize - 1 /\ m[e] \notin {Space}
    BY <1>1, <1>3
  <2> HIDE DEF e
  <2>2. first \in s .. e /\ m[first] \notin {Space} /\ \A x \in s .. first - 1 : m[x] \in {Space}
    BY <2>1, SkipOverIs
  <2> HIDE DEF first
  <2> QED BY <2>2 DEF e
<1>5. last \in first .. s + n /\ m[last] \notin digits /\ \A x \in first .. last - 1 : m[x] \in digits
  <2> DEFINE e == s + n
  <2>1. first \in Nat /\ e \in first .. MemSize - 1 /\ m[e] \notin digits
    BY <1>1, <1>3, <1>4
  <2> HIDE DEF e, first, digits
  <2>2. last \in first .. e /\ m[last] \notin digits /\ \A x \in first .. last - 1 : m[x] \in digits
    BY <2>1, SkipOverIs
  <2> HIDE DEF last
  <2> QED BY <2>2 DEF e
<1>6. Atoi(m, s) = c[last]
  BY AtoiChosen
<1>7. \A i \in 1 .. n : DigitValue(m[s + i - 1]) # -1 <=> m[s + i - 1] \in digits
  BY DigitValueIs
<1> HIDE DEF first, last, digits, t, n, c
<1>8. first \in Nat /\ last \in Nat /\ first <= last /\ s + k = first /\ last - first = l - k
  BY <1>1, <1>4, <1>5
<1>9. IsValue(c, m, first, last)
  <2>1. \E f : IsValue(f, m, first, last)
    BY <1>8, ValueExists
  <2> QED BY <2>1 DEF c
<1>10. c[last] = Denoted(Bytes(m, first, last - first))
  BY <1>8, <1>9, ValueIsDenoted
<1>11. Atoi(m, s) = Denoted(Bytes(m, s + k, l - k))
  <2> HIDE DEF k, l
  <2> QED BY <1>6, <1>8, <1>10
<1>12. k \in 0 .. n /\ l \in 0 .. n /\ k <= l
  BY <1>1, <1>4, <1>5
<1>13. ASSUME NEW i \in 1 .. k PROVE t[i] = Space
  <2>1. i \in 1 .. n /\ s + i - 1 \in s .. first - 1
    BY <1>1, <1>4
  <2> QED BY <1>2, <1>4, <2>1
<1>14. ASSUME k < n PROVE t[k + 1] # Space
  <2>1. k + 1 \in 1 .. n /\ s + (k + 1) - 1 = first
    BY <1>1, <1>4, <1>14
  <2> HIDE DEF k
  <2>2. t[k + 1] = m[s + (k + 1) - 1]
    BY <1>2, <2>1
  <2> QED BY <1>4, <2>1, <2>2
<1>15. ASSUME NEW i \in k + 1 .. l PROVE DigitValue(t[i]) # -1
  <2>1. i \in 1 .. n /\ s + i - 1 \in first .. last - 1
    BY <1>1, <1>4, <1>5
  <2> HIDE DEF k, l
  <2>2. t[i] = m[s + i - 1] /\ m[s + i - 1] \in digits
    BY <1>2, <1>5, <2>1
  <2> QED BY <1>7, <2>1, <2>2
<1>16. ASSUME l < n PROVE DigitValue(t[l + 1]) = -1
  <2>1. l + 1 \in 1 .. n /\ s + (l + 1) - 1 = last
    BY <1>1, <1>4, <1>5, <1>16
  <2> HIDE DEF l
  <2>2. t[l + 1] = m[s + (l + 1) - 1]
    BY <1>2, <2>1
  <2>3. m[s + (l + 1) - 1] \notin digits
    BY <1>5, <2>1
  <2>4. ~(DigitValue(m[s + (l + 1) - 1]) # -1)
    BY <1>7, <2>1, <2>3
  <2> QED BY <2>2, <2>4
<1> HIDE DEF k, l
<1> QED BY <1>2, <1>11, <1>12, <1>13, <1>14, <1>15, <1>16 DEF t

\* Powers grow without bound.
LEMMA PowerFacts ==
  ASSUME NEW base \in Nat, base >= 2
  PROVE  /\ \A k \in Nat : Power(base, k) \in Nat \ {0} /\ Power(base, k + 1) = base * Power(base, k)
         /\ \A k \in Nat : Power(base, k) > k
         /\ Power(base, 0) = 1
<1>1. Power(base, 0) = 1
  BY PowerIs
<1>2. \A k \in Nat : Power(base, k) \in Nat /\ Power(base, k + 1) = base * Power(base, k)
  BY PowerIs, Zenon
<1> DEFINE T == {k \in Nat : Power(base, k) > k}
<1>3. T \in SUBSET Nat /\ 0 \in T
  BY <1>1
<1>4. ASSUME NEW n \in Nat PROVE Power(base, n) > n
  <2>1. ASSUME NEW k \in 1 .. n, k - 1 \in T PROVE k \in T
    <3> DEFINE j == k - 1
    <3>1. j \in Nat /\ j + 1 = k /\ Power(base, j) > j /\ k \in Nat
      BY <2>1
    <3> HIDE DEF j
    <3>2. Power(base, j) \in Nat /\ Power(base, j + 1) = base * Power(base, j)
      BY <1>2, <3>1
    <3> DEFINE p == Power(base, j)
    <3>3. p \in Nat /\ p > j
      BY <3>1, <3>2
    <3> HIDE DEF p
    <3>4. base * p >= 2 * p
      BY <3>3
    <3>5. base * p > j + 1
      BY <3>1, <3>3, <3>4
    <3>6. Power(base, k) > k
      BY <3>1, <3>2, <3>5 DEF p
    <3> QED BY <3>1, <3>6
  <2> HIDE DEF T
  <2>2. 0 .. n \subseteq T
    BY <1>3, <2>1, ByCounting
  <2>3. n \in T
    BY <2>2
  <2> QED BY <2>3 DEF T
<1>5. ASSUME NEW k \in Nat PROVE Power(base, k) \in Nat \ {0}
  <2>1. Power(base, k) > k /\ Power(base, k) \in Nat
    BY <1>2, <1>4
  <2> QED BY <2>1
<1> QED BY <1>1, <1>2, <1>4, <1>5

LEMMA PowerGrows ==
  ASSUME NEW base \in Nat, base >= 2, NEW k \in Nat, NEW l \in Nat, k <= l
  PROVE  Power(base, k) <= Power(base, l)
<1>1. \A j \in Nat : Power(base, j) \in Nat \ {0} /\ Power(base, j + 1) = base * Power(base, j)
  BY PowerFacts
<1> DEFINE T == {i \in Nat : Power(base, k) <= Power(base, k + i)}
<1>2. T \in SUBSET Nat /\ 0 \in T
  BY <1>1
<1>3. ASSUME NEW i \in 1 .. l - k, i - 1 \in T PROVE i \in T
  <2> DEFINE j == k + (i - 1)
             p == Power(base, j)
             z == Power(base, k)
  <2>1. j \in Nat /\ j + 1 = k + i /\ i \in Nat /\ z <= p
    BY <1>3
  <2>2. p \in Nat \ {0} /\ Power(base, j + 1) = base * p /\ z \in Nat
    <3> HIDE DEF j
    <3> QED BY <1>1, <2>1
  <2> HIDE DEF j, p, z
  <2>3. base * p >= p
    BY <2>2
  <2>4. z <= Power(base, k + i)
    BY <2>1, <2>2, <2>3
  <2> QED BY <2>1, <2>4 DEF z
<1>4. l - k \in Nat /\ k + (l - k) = l
  OBVIOUS
<1> HIDE DEF T
<1>5. 0 .. l - k \subseteq T
  BY <1>2, <1>3, <1>4, ByCounting
<1>6. l - k \in T
  BY <1>4, <1>5
<1>7. Power(base, k) <= Power(base, k + (l - k))
  BY <1>6 DEF T
<1> QED BY <1>4, <1>7

\* l digits are what n needs in the base.
Digits(n, base, l) == n < Power(base, l) /\ (l = 1 \/ n >= Power(base, l - 1))

\* A number has one number of digits.
LEMMA DigitsExist ==
  ASSUME NEW base \in Nat, base >= 2, NEW n \in Nat
  PROVE  \E l \in 1 .. n + 1 : Digits(n, base, l)
<1>1. \A k \in Nat : Power(base, k) \in Nat /\ Power(base, k) > k
  BY PowerFacts
<1> DEFINE S == {l \in Nat : l >= 1 /\ n < Power(base, l)}
<1>2. S \in SUBSET Nat /\ n + 1 \in S
  <2>1. n + 1 \in Nat
    OBVIOUS
  <2>2. Power(base, n + 1) > n + 1 /\ Power(base, n + 1) \in Nat
    BY <1>1, <2>1
  <2> QED BY <2>1, <2>2
<1>3. PICK l \in S : \A k \in S : l <= k
  <2> HIDE DEF S
  <2> QED BY <1>2, LeastOf
<1>4. l \in 1 .. n + 1
  <2>1. l <= n + 1
    BY <1>2, <1>3
  <2> QED BY <1>3, <2>1
<1>5. l = 1 \/ n >= Power(base, l - 1)
  <2> SUFFICES ASSUME l # 1 PROVE n >= Power(base, l - 1)
    OBVIOUS
  <2>1. l - 1 \in Nat /\ l - 1 >= 1 /\ ~(l <= l - 1)
    BY <1>4
  <2>2. l - 1 \notin S
    BY <1>3, <2>1
  <2>3. Power(base, l - 1) \in Nat
    BY <1>1, <2>1
  <2> QED BY <2>1, <2>2, <2>3
<1> QED BY <1>3, <1>4, <1>5 DEF Digits

LEMMA DigitsUnique ==
  ASSUME NEW base \in Nat, base >= 2, NEW n \in Nat, NEW l \in Nat \ {0}, NEW k \in Nat \ {0},
         Digits(n, base, l), Digits(n, base, k)
  PROVE  l = k
<1>1. ASSUME NEW i \in Nat \ {0}, NEW j \in Nat \ {0}, Digits(n, base, i), Digits(n, base, j), i < j
      PROVE  FALSE
  <2> DEFINE h == j - 1
  <2>1. h \in Nat /\ i <= h /\ j # 1
    BY <1>1
  <2>2. n < Power(base, i) /\ n >= Power(base, h)
    BY <1>1, <2>1 DEF Digits
  <2> HIDE DEF h
  <2>3. Power(base, i) <= Power(base, h)
    BY <2>1, PowerGrows
  <2>4. Power(base, i) \in Nat /\ Power(base, h) \in Nat
    BY <2>1, PowerFacts
  <2> QED BY <2>2, <2>3, <2>4
<1>2. l < k \/ k < l \/ l = k
  OBVIOUS
<1> QED BY <1>1, <1>2

LEMMA NumeralChosen ==
  ASSUME NEW n, NEW base
  PROVE  NumeralOf(n, base) =
           [i \in 1 .. (CHOOSE l \in 1 .. n + 1 : Digits(n, base, l)) |->
              Digit[(n \div Power(base, (CHOOSE l \in 1 .. n + 1 : Digits(n, base, l)) - i)) % base]]
BY Zenon DEF NumeralOf, Digits

\* The numeral of a number that needs l digits.
LEMMA NumeralIs ==
  ASSUME NEW base \in Nat, base >= 2, NEW n \in Nat, NEW l \in Nat \ {0}, Digits(n, base, l)
  PROVE  NumeralOf(n, base) = [i \in 1 .. l |-> Digit[(n \div Power(base, l - i)) % base]]
<1> DEFINE k == CHOOSE j \in 1 .. n + 1 : Digits(n, base, j)
<1>1. k \in 1 .. n + 1 /\ Digits(n, base, k)
  BY DigitsExist
<1>2. NumeralOf(n, base) = [i \in 1 .. k |-> Digit[(n \div Power(base, k - i)) % base]]
  BY NumeralChosen
<1> HIDE DEF k
<1>3. k = l
  BY <1>1, DigitsUnique
<1> QED BY <1>2, <1>3

\* Dividing twice divides by the product.
LEMMA DivTwice ==
  ASSUME NEW b \in Nat \ {0}, NEW p \in Nat \ {0}, NEW n \in Nat
  PROVE  n \div (b * p) = (n \div b) \div p
<1> DEFINE z == n \div b
           r == n % b
           u == z \div p
           v == z % p
           B == b * p
           w == v * b + r
<1>1. r \in 0 .. b - 1 /\ z \in Nat /\ n = z * b + r
  BY DivMod
<1>2. v \in 0 .. p - 1 /\ u \in Nat /\ z = u * p + v
  <2> HIDE DEF z
  <2> QED BY <1>1, DivMod
<1> HIDE DEF z, r, u, v
<1>3. B \in Nat \ {0}
  BY Z3
<1>4. w \in 0 .. B - 1
  <2>1. v * b + b <= p * b
    BY <1>2, MulMono
  <2>2. v * b \in Nat /\ p * b = b * p
    BY <1>2
  <2> DEFINE x == v * b
             y == p * b
  <2>3. x \in Nat /\ x + b <= y /\ y = B /\ w = x + r
    BY <2>1, <2>2
  <2> HIDE DEF x, y, B, w
  <2> QED BY <1>1, <1>3, <2>3
<1>5. n = u * B + w
  <2>1. (u * p + v) * b + r = u * (b * p) + (v * b + r)
    BY <1>1, <1>2
  <2> QED BY <1>1, <1>2, <2>1
<1> HIDE DEF B, w
<1>6. (u * B + w) \div B = u
  BY <1>2, <1>3, <1>4, DivUnique
<1>7. n \div B = u
  BY <1>5, <1>6
<1> QED BY <1>7 DEF B, u, z

\* Of the powers: n lies between two of them when n / base lies between the ones before.
LEMMA DivBelow ==
  ASSUME NEW b \in Nat \ {0}, NEW p \in Nat \ {0}, NEW n \in Nat
  PROVE  (n \div b < p <=> n < b * p) /\ n \div b \in Nat
<1> DEFINE z == n \div b
           r == n % b
<1>1. r \in 0 .. b - 1 /\ z \in Nat /\ n = z * b + r
  BY DivMod
<1> HIDE DEF z, r
<1>2. ASSUME z < p PROVE n < b * p
  <2>1. z * b + b <= p * b
    BY <1>1, <1>2, MulMono
  <2>2. z * b \in Nat /\ p * b = b * p /\ b * p \in Nat
    BY <1>1
  <2> DEFINE x == z * b
             y == p * b
  <2>3. x \in Nat /\ x + b <= y /\ y = b * p /\ n = x + r /\ y \in Nat
    BY <1>1, <2>1, <2>2
  <2> HIDE DEF x, y
  <2>4. n < y
    BY <1>1, <2>3
  <2> QED BY <2>3, <2>4
<1>3. ASSUME ~(z < p) PROVE ~(n < b * p)
  <2>1. z * b >= p * b
    BY <1>1, <1>3
  <2>2. z * b \in Nat /\ p * b = b * p /\ b * p \in Nat
    BY <1>1
  <2> DEFINE x == z * b
             y == p * b
  <2>3. x \in Nat /\ x >= y /\ y = b * p /\ n = x + r /\ y \in Nat
    BY <1>1, <2>1, <2>2
  <2> HIDE DEF x, y
  <2>4. ~(n < y)
    BY <1>1, <2>3
  <2> QED BY <2>3, <2>4
<1> QED BY <1>1, <1>2, <1>3 DEF z

LEMMA DivByOne ==
  ASSUME NEW n \in Nat
  PROVE  n \div 1 = n
<1>1. (n * 1 + 0) \div 1 = n
  BY DivUnique, 1 \in Nat \ {0}, 0 \in 0 .. 1 - 1
<1>2. n * 1 + 0 = n
  OBVIOUS
<1> QED BY <1>1, <1>2

\* The numeral of a single digit.
LEMMA NumeralSmall ==
  ASSUME NEW base \in Nat, base >= 2, NEW n \in Nat, n < base
  PROVE  NumeralOf(n, base) = <<Digit[n % base]>>
<1> DEFINE one == 1
<1>1. Power(base, 0) = 1 /\ Power(base, 1) = base
  <2>1. Power(base, 0) = 1 /\ Power(base, 0 + 1) = base * Power(base, 0)
    BY PowerFacts, 0 \in Nat
  <2> QED BY <2>1
<1>2. Digits(n, base, one)
  BY <1>1 DEF Digits
<1>3. one \in Nat \ {0}
  OBVIOUS
<1>4. NumeralOf(n, base) = [i \in 1 .. one |-> Digit[(n \div Power(base, one - i)) % base]]
  <2> HIDE DEF one
  <2> QED BY <1>2, <1>3, NumeralIs
<1>5. (n \div Power(base, one - 1)) % base = n % base
  <2>1. one - 1 = 0
    OBVIOUS
  <2> QED BY <1>1, <2>1, DivByOne
<1>6. [i \in 1 .. one |-> Digit[(n \div Power(base, one - i)) % base]] = <<Digit[n % base]>>
  BY <1>5
<1> QED BY <1>4, <1>6

\* The last digit is what remains, the others are the numeral of n / base.
LEMMA NumeralStep ==
  ASSUME NEW base \in Nat, base >= 2, NEW n \in Nat, n >= base
  PROVE  NumeralOf(n, base) = Append(NumeralOf(n \div base, base), Digit[n % base])
<1> DEFINE z == n \div base
<1>1. PICK l \in 1 .. n + 1 : Digits(n, base, l)
  BY DigitsExist
<1>2. n < Power(base, l) /\ (l = 1 \/ n >= Power(base, l - 1))
  BY <1>1 DEF Digits
<1>3. base \in Nat \ {0} /\ \A k \in Nat : Power(base, k) \in Nat \ {0} /\ Power(base, k + 1) = base * Power(base, k)
  BY PowerFacts
<1>4. Power(base, 0) = 1
  BY PowerFacts
<1>5. l # 1
  <2>1. Power(base, 0 + 1) = base * Power(base, 0)
    BY <1>3, 0 \in Nat
  <2>2. Power(base, 1) = base
    BY <1>4, <2>1
  <2> QED BY <1>2, <2>2
<1> DEFINE k == l - 1
<1>6. k \in Nat \ {0} /\ k - 1 \in Nat /\ k + 1 = l /\ l \in Nat \ {0} /\ (k - 1) + 1 = k
  BY <1>5
<1>7. n < Power(base, l) /\ n >= Power(base, k)
  BY <1>2, <1>5
<1> HIDE DEF k, z
<1>8. z \in Nat
  BY <1>3, DivMod DEF z
<1>9. Power(base, l) = base * Power(base, k) /\ Power(base, k) \in Nat \ {0}
  <2>1. Power(base, k + 1) = base * Power(base, k)
    BY <1>3, <1>6
  <2> QED BY <1>3, <1>6, <2>1
<1>10. z < Power(base, k)
  <2> DEFINE p == Power(base, k)
  <2>1. p \in Nat \ {0} /\ n < base * p
    BY <1>7, <1>9
  <2> HIDE DEF p
  <2>2. n \div base < p
    BY <1>3, <2>1, DivBelow
  <2> QED BY <2>2 DEF p, z
<1>11. k = 1 \/ z >= Power(base, k - 1)
  <2> DEFINE j == k - 1
             p == Power(base, j)
  <2>1. j \in Nat /\ j + 1 = k
    BY <1>6
  <2> HIDE DEF j
  <2>2. p \in Nat \ {0} /\ Power(base, k) = base * p
    BY <1>3, <2>1
  <2> HIDE DEF p
  <2>3. ~(n < base * p)
    BY <1>7, <1>9, <2>2
  <2>4. ~(n \div base < p)
    BY <1>3, <2>2, <2>3, DivBelow
  <2>5. z >= p
    BY <1>8, <2>2, <2>4 DEF z
  <2> QED BY <2>5 DEF p, j
<1>12. Digits(z, base, k)
  BY <1>10, <1>11 DEF Digits
<1>13. NumeralOf(z, base) = [i \in 1 .. k |-> Digit[(z \div Power(base, k - i)) % base]]
  BY <1>6, <1>8, <1>12, NumeralIs
<1>14. NumeralOf(n, base) = [i \in 1 .. l |-> Digit[(n \div Power(base, l - i)) % base]]
  BY <1>1, <1>6, NumeralIs
<1>15. ASSUME NEW i \in 1 .. k PROVE n \div Power(base, l - i) = z \div Power(base, k - i)
  <2> DEFINE j == k - i
             p == Power(base, j)
  <2>1. j \in Nat /\ j + 1 = l - i
    BY <1>6
  <2> HIDE DEF j
  <2>2. p \in Nat \ {0} /\ Power(base, l - i) = base * p
    <3>1. Power(base, j + 1) = base * Power(base, j)
      BY <1>3, <2>1
    <3> QED BY <1>3, <2>1, <3>1
  <2> HIDE DEF p
  <2>3. n \div (base * p) = (n \div base) \div p
    BY <1>3, <2>2, DivTwice
  <2> QED BY <2>2, <2>3 DEF z, p, j
<1>16. n \div Power(base, l - l) = n
  <2>1. l - l = 0
    BY <1>6
  <2> QED BY <1>4, <2>1, DivByOne
<1> DEFINE s == NumeralOf(z, base)
           t == NumeralOf(n, base)
           e == Digit[n % base]
<1>17. Len(s) = k /\ s = [i \in 1 .. k |-> s[i]] /\ \A i \in 1 .. k : s[i] = Digit[(z \div Power(base, k - i)) % base]
  BY <1>6, <1>13
<1>18. t = [i \in 1 .. l |-> t[i]] /\ \A i \in 1 .. l : t[i] = Digit[(n \div Power(base, l - i)) % base]
  BY <1>14
<1> HIDE DEF s, t, e
<1>19. \A i \in 1 .. k : i \in 1 .. l /\ t[i] = s[i]
  <2> SUFFICES ASSUME NEW i \in 1 .. k PROVE i \in 1 .. l /\ t[i] = s[i]
    OBVIOUS
  <2>1. i \in 1 .. l
    BY <1>6
  <2>2. t[i] = Digit[(n \div Power(base, l - i)) % base]
    BY <1>18, <2>1, Zenon
  <2>3. s[i] = Digit[(z \div Power(base, k - i)) % base]
    BY <1>17, Zenon
  <2> QED BY <1>15, <2>1, <2>2, <2>3, Zenon
<1>20. t[l] = e
  <2>1. l \in 1 .. l
    BY <1>6
  <2> QED BY <1>16, <1>18, <2>1 DEF e
<1>21. t = [i \in 1 .. k + 1 |-> IF i = k + 1 THEN e ELSE s[i]]
  <2>1. \A i \in 1 .. l : t[i] = IF i = k + 1 THEN e ELSE s[i]
    <3>1. \A i \in 1 .. l : i = k + 1 \/ i \in 1 .. k
      BY <1>6
    <3> QED BY <1>6, <1>19, <1>20, <3>1
  <2> QED BY <1>6, <1>18, <2>1
<1>22. Append(s, e) = [i \in 1 .. k + 1 |-> IF i = k + 1 THEN e ELSE s[i]]
  BY <1>6, <1>17
<1> QED BY <1>21, <1>22 DEF s, t, e, z

IsDigits(f, n, base) ==
  f = [k \in 0 .. n |-> IF k = 0 THEN <<>> ELSE Append(f[k \div base], Digit[k % base])]

\* A table of numerals.
Numerals(n, base) == [k \in 0 .. n |-> IF k = 0 THEN <<>> ELSE NumeralOf(k, base)]

\* The numerals satisfy the equation of the loop that finds digits from the last one.
LEMMA NumeralsStep ==
  ASSUME NEW base \in Nat, base >= 2, NEW n \in Nat, NEW k \in 1 .. n
  PROVE  /\ k \div base \in 0 .. k - 1
         /\ Numerals(n, base)[k] = Append(Numerals(n, base)[k \div base], Digit[k % base])
<1> DEFINE z == k \div base
           f == Numerals(n, base)
<1>1. base \in Nat \ {0} /\ k \in Nat /\ k \in 0 .. n /\ k # 0
  OBVIOUS
<1>2. z \in Nat /\ (z < 1 <=> k < base * 1) /\ (z < k <=> k < base * k)
  <2>1. 1 \in Nat \ {0} /\ k \in Nat \ {0}
    OBVIOUS
  <2> QED BY <1>1, <2>1, DivBelow
<1>3. k < base * k
  <2>1. base * k >= 2 * k
    OBVIOUS
  <2> QED BY <2>1
<1> HIDE DEF z
<1>4. z \in 0 .. k - 1 /\ z \in 0 .. n
  BY <1>1, <1>2, <1>3
<1>5. f[k] = NumeralOf(k, base) /\ f[z] = IF z = 0 THEN <<>> ELSE NumeralOf(z, base)
  BY <1>1, <1>4 DEF Numerals
<1> HIDE DEF f
<1>6. CASE k < base
  <2>1. z = 0
    BY <1>2, <1>6
  <2>2. NumeralOf(k, base) = <<Digit[k % base]>>
    BY <1>1, <1>6, NumeralSmall
  <2>3. Append(<<>>, Digit[k % base]) = <<Digit[k % base]>>
    OBVIOUS
  <2>4. f[k] = Append(f[z], Digit[k % base])
    BY <1>5, <2>1, <2>2, <2>3
  <2> QED BY <1>4, <2>4 DEF f, z
<1>7. CASE k >= base
  <2>1. z # 0
    BY <1>2, <1>7
  <2>2. NumeralOf(k, base) = Append(NumeralOf(z, base), Digit[k % base])
    BY <1>1, <1>7, NumeralStep DEF z
  <2>3. f[k] = Append(f[z], Digit[k % base])
    BY <1>5, <2>1, <2>2
  <2> QED BY <1>4, <2>3 DEF f, z
<1> QED BY <1>6, <1>7

\* That loop, as the choice of a function.
LEMMA DigitsChosen ==
  ASSUME NEW n, NEW base
  PROVE  DigitsOf(n, base) = IF n = 0 THEN <<Digit[0]>>
                             ELSE (CHOOSE f : IsDigits(f, n, base))[n]
BY Zenon DEF DigitsOf, IsDigits

\* The digits found from the last one are those by position.
LEMMA DigitsAreNumeral ==
  ASSUME NEW base \in Nat, base >= 2, NEW n \in Nat
  PROVE  DigitsOf(n, base) = NumeralOf(n, base)
<1>1. CASE n = 0
  <2>1. 0 % base = 0
    BY DivMod, ModSmall
  <2>2. NumeralOf(n, base) = <<Digit[n % base]>>
    BY <1>1, NumeralSmall
  <2> QED BY <1>1, <2>1, <2>2, DigitsChosen
<1>2. CASE n # 0
  <2> DEFINE c == CHOOSE f : IsDigits(f, n, base)
             h == Numerals(n, base)
  <2>1. IsDigits(c, n, base)
    <3>1. \A k \in 0 .. n : h[k] = IF k = 0 THEN <<>> ELSE Append(h[k \div base], Digit[k % base])
      <4>1. h[0] = <<>>
        BY DEF Numerals
      <4>2. ASSUME NEW k \in 0 .. n, k # 0 PROVE h[k] = Append(h[k \div base], Digit[k % base])
        <5>1. k \in 1 .. n
          BY <4>2
        <5> HIDE DEF h
        <5> QED BY <5>1, NumeralsStep DEF h
      <4> QED BY <4>1, <4>2
    <3>2. h = [k \in 0 .. n |-> h[k]]
      BY DEF Numerals
    <3> HIDE DEF h
    <3>3. h = [k \in 0 .. n |-> IF k = 0 THEN <<>> ELSE Append(h[k \div base], Digit[k % base])]
      BY <3>1, <3>2
    <3>4. IsDigits(h, n, base)
      BY <3>3 DEF IsDigits
    <3> QED BY <3>4
  <2> HIDE DEF c
  <2>2. \A k \in 0 .. n : c[k] = IF k = 0 THEN <<>> ELSE Append(c[k \div base], Digit[k % base])
    BY <2>1, Zenon DEF IsDigits
  <2> DEFINE T == {k \in Nat : \A j \in 0 .. k : c[j] = h[j]}
  <2>3. c[0] = h[0]
    BY <2>2 DEF Numerals
  <2>4. 0 \in T /\ T \in SUBSET Nat
    BY <2>3
  <2>5. ASSUME NEW k \in 1 .. n, k - 1 \in T PROVE k \in T
    <3>1. \A j \in 0 .. k - 1 : c[j] = h[j]
      BY <2>5
    <3> DEFINE z == k \div base
               e == Digit[k % base]
    <3>2. z \in 0 .. k - 1 /\ h[k] = Append(h[z], e)
      BY NumeralsStep
    <3>3. k \in 0 .. n /\ k # 0 /\ k \in Nat
      OBVIOUS
    <3>4. c[k] = Append(c[z], e)
      <4> HIDE DEF h
      <4> QED BY <2>2, <3>3
    <3> HIDE DEF z, e, h
    <3>5. c[z] = h[z]
      BY <3>1, <3>2
    <3>6. c[k] = h[k]
      BY <3>2, <3>4, <3>5
    <3>7. \A j \in 0 .. k : j = k \/ j \in 0 .. k - 1
      OBVIOUS
    <3>8. \A j \in 0 .. k : c[j] = h[j]
      BY <3>1, <3>6, <3>7
    <3> QED BY <3>3, <3>8
  <2> HIDE DEF T
  <2>6. 0 .. n \subseteq T
    BY <2>4, <2>5, ByCounting
  <2>7. n \in T
    BY <2>6
  <2>8. c[n] = h[n]
    BY <2>7 DEF T
  <2>9. h[n] = NumeralOf(n, base)
    BY <1>2 DEF Numerals
  <2>10. DigitsOf(n, base) = c[n]
    BY <1>2, DigitsChosen DEF c
  <2> QED BY <2>8, <2>9, <2>10
<1> QED BY <1>1, <1>2

\* The characters of a numeral.
Characters == {0, Minus, LetterX} \cup {Digit[v] : v \in Nat}

\* A numeral is a text.
LEMMA NumeralInSeq ==
  ASSUME NEW base \in Nat, base >= 2, NEW n \in Nat
  PROVE  NumeralOf(n, base) \in Seq(Characters)
<1>1. PICK l \in 1 .. n + 1 : Digits(n, base, l)
  BY DigitsExist
<1>2. l \in Nat \ {0} /\ l \in Nat
  OBVIOUS
<1>3. NumeralOf(n, base) = [i \in 1 .. l |-> Digit[(n \div Power(base, l - i)) % base]]
  BY <1>1, <1>2, NumeralIs
<1>4. ASSUME NEW i \in 1 .. l PROVE Digit[(n \div Power(base, l - i)) % base] \in Characters
  <2> DEFINE p == Power(base, l - i)
             z == n \div p
  <2>1. l - i \in Nat
    OBVIOUS
  <2>2. p \in Nat \ {0}
    BY <2>1, PowerFacts
  <2> HIDE DEF p
  <2>3. z \in Nat
    BY <2>2, DivMod
  <2> HIDE DEF z
  <2>4. z % base \in Nat
    BY <2>3, DivMod
  <2> QED BY <2>4 DEF Characters, z, p
<1> QED BY <1>2, <1>3, <1>4

Prints == {"%d", "%p", "%s"}

\* The call one arm of Effect, Written, IsResult and Defined is about.
LEMMA MemsetCall ==
  ASSUME NEW m \in Memories, NEW c \in Calls, Defined(m, c), c.fn = "memset"
  PROVE  /\ Effect(m, c)[1] = Put(m, c.d, Written(m, c))
         /\ IsResult(m, c, Effect(m, c)[2])
<1>1. c.d \in Nat /\ c.n \in Nat
  BY KlibAssumption DEF Calls, Addr
<1>2. Effect(m, c) = <<Fill(m, c.d, c.s, c.n), c.d>>
  BY DEF Effect
<1>3. Written(m, c) = [i \in 1 .. c.n |-> c.s]
  BY DEF Written
<1>4. Fill(m, c.d, c.s, c.n) = Put(m, c.d, [i \in 1 .. c.n |-> c.s])
  BY <1>1, FillIs
<1>5. IsResult(m, c, c.d)
  BY DEF IsResult
<1> QED BY <1>2, <1>3, <1>4, <1>5

\* What is printed as a number is an int.
LEMMA PrintedIsInt ==
  ASSUME NEW c \in Calls, c.fn = "%d" \/ c.fn = "%p"  PROVE c.s \in Int
<1>1. c.s \in Ints
  <2>1. \A e \in Calls : e.fn \in {"%d", "%p"} => e.s \in Ints
    BY DEF Calls
  <2> QED BY <2>1
<1>2. IntMax \in Nat
  BY KlibAssumption
<1>3. Ints \subseteq -IntMax - 1 .. IntMax
  BY KlibAssumption
<1>4. c.s \in -IntMax - 1 .. IntMax
  BY <1>1, <1>3
<1> QED BY <1>2, <1>4

\* vsprintf writes the text C promises.
LEMMA PrintedText ==
  ASSUME NEW m \in Memories, NEW c \in Calls, Defined(m, c), c.fn \in Prints
  PROVE  /\ Vsprintf(m, c.fn, c.s) = Text(m, c)
         /\ \E S : 0 \in S /\ Text(m, c) \in Seq(S)
<1>0. 10 \in Nat /\ 16 \in Nat /\ 10 >= 2 /\ 16 >= 2 /\ 0 \in Characters
  BY DEF Characters
<1>1. CASE c.fn = "%d"
  <2> DEFINE v == c.s
  <2>1. v \in Int
    BY <1>1, PrintedIsInt
  <2>2. Vsprintf(m, c.fn, v) = IF v < 0 THEN <<Minus>> \o DigitsOf(-v, 10) ELSE DigitsOf(v, 10)
    BY <1>1 DEF Vsprintf
  <2>3. Text(m, c) = IF v < 0 THEN <<Minus>> \o NumeralOf(-v, 10) ELSE NumeralOf(v, 10)
    BY <1>1 DEF Text, Printed
  <2> HIDE DEF v
  <2>4. CASE v < 0
    <3> DEFINE w == -v
    <3>1. w \in Nat
      BY <2>1, <2>4
    <3> HIDE DEF w
    <3>2. DigitsOf(w, 10) = NumeralOf(w, 10)
      BY <1>0, <3>1, DigitsAreNumeral
    <3>3. NumeralOf(w, 10) \in Seq(Characters)
      BY <1>0, <3>1, NumeralInSeq
    <3>4. <<Minus>> \in Seq(Characters)
      BY DEF Characters
    <3>5. <<Minus>> \o NumeralOf(w, 10) \in Seq(Characters)
      BY <3>3, <3>4
    <3> QED BY <1>0, <2>2, <2>3, <2>4, <3>2, <3>5 DEF w, v
  <2>5. CASE ~(v < 0)
    <3>1. v \in Nat
      BY <2>1, <2>5
    <3>2. DigitsOf(v, 10) = NumeralOf(v, 10)
      BY <1>0, <3>1, DigitsAreNumeral
    <3>3. NumeralOf(v, 10) \in Seq(Characters)
      BY <1>0, <3>1, NumeralInSeq
    <3> QED BY <1>0, <2>2, <2>3, <2>5, <3>2, <3>3 DEF v
  <2> QED BY <2>4, <2>5
<1>2. CASE c.fn = "%p"
  <2> DEFINE v == c.s
             p == <<Digit[0], LetterX>>
  <2>1. v \in Nat
    <3>1. v \in Int
      BY <1>2, PrintedIsInt
    <3>2. v >= 0
      BY <1>2 DEF Defined
    <3> QED BY <3>1, <3>2
  <2>2. Vsprintf(m, c.fn, v) = p \o DigitsOf(v, 16)
    BY <1>2 DEF Vsprintf
  <2>3. Text(m, c) = p \o NumeralOf(v, 16)
    BY <1>2 DEF Text, PrintedPtr
  <2> HIDE DEF v
  <2>4. DigitsOf(v, 16) = NumeralOf(v, 16)
    BY <1>0, <2>1, DigitsAreNumeral
  <2>5. NumeralOf(v, 16) \in Seq(Characters)
    BY <1>0, <2>1, NumeralInSeq
  <2>6. p \in Seq(Characters)
    <3>1. Digit[0] \in Characters /\ LetterX \in Characters
      BY 0 \in Nat DEF Characters
    <3> QED BY <3>1
  <2> HIDE DEF p
  <2>7. p \o NumeralOf(v, 16) \in Seq(Characters)
    BY <2>5, <2>6
  <2> QED BY <1>0, <2>2, <2>3, <2>4, <2>7 DEF v
<1>3. CASE c.fn = "%s"
  <2>1. Vsprintf(m, c.fn, c.s) = Str(m, c.s) /\ Text(m, c) = Str(m, c.s)
    BY <1>3 DEF Vsprintf, Text
  <2>2. c.s \in Addr /\ IsString(m, c.s)
    BY <1>3 DEF Defined
  <2>3. c.s \in Nat
    BY <2>2, KlibAssumption DEF Addr
  <2>4. Str(m, c.s) \in Seq(Byte)
    BY <2>2, <2>3, StrInSeq
  <2> QED BY <2>1, <2>4, KlibAssumption
<1> QED BY <1>1, <1>2, <1>3 DEF Prints

\* snprintf, the copying calls and the string calls, each with its result.
LEMMA PrintCall ==
  ASSUME NEW m \in Memories, NEW c \in Calls, Defined(m, c), c.fn \in Prints
  PROVE  /\ Effect(m, c)[1] = Put(m, c.d, Written(m, c))
         /\ IsResult(m, c, Effect(m, c)[2])
<1> DEFINE t == Text(m, c)
<1>1. c.d \in Nat /\ c.n \in Nat
  BY KlibAssumption DEF Calls, Addr
<1>2. Vsprintf(m, c.fn, c.s) = t /\ \E S : 0 \in S /\ t \in Seq(S)
  BY PrintedText
<1>3. Effect(m, c) = <<Vsnprintf(m, c.d, c.n, t), Len(t)>>
  <2>1. Effect(m, c) = <<Vsnprintf(m, c.d, c.n, Vsprintf(m, c.fn, c.s)), Len(Vsprintf(m, c.fn, c.s))>>
    BY DEF Effect, Prints
  <2> HIDE DEF t
  <2> QED BY <1>2, <2>1
<1>4. Written(m, c) = IF c.n = 0 THEN <<>> ELSE Append(Take(t, c.n - 1), 0)
  BY DEF Written, Prints
<1>5. IsResult(m, c, Len(t))
  BY DEF IsResult, Prints
<1> HIDE DEF t
<1>6. Vsnprintf(m, c.d, c.n, t) = Put(m, c.d, IF c.n = 0 THEN <<>> ELSE Append(Take(t, c.n - 1), 0))
  BY <1>1, <1>2, VsnprintfIs
<1> QED BY <1>3, <1>4, <1>5, <1>6

LEMMA MemoryCall ==
  ASSUME NEW m \in Memories, NEW c \in Calls, Defined(m, c), c.fn \in {"memmove", "memcpy"}
  PROVE  /\ Effect(m, c)[1] = Put(m, c.d, Written(m, c))
         /\ IsResult(m, c, Effect(m, c)[2])
<1> DEFINE d == c.d
           s == c.s
           n == c.n
<1>1. d \in Nat /\ s \in Nat /\ n \in Nat
  BY KlibAssumption DEF Calls, Addr
<1>2. Written(m, c) = Bytes(m, s, n) /\ IsResult(m, c, d)
  BY DEF Written, IsResult
<1>3. CASE c.fn = "memmove"
  <2>1. Effect(m, c) = <<Memmove(m, d, s, n), d>>
    BY <1>3 DEF Effect
  <2>2. Within(d, n) /\ Within(s, n)
    BY <1>3 DEF Defined
  <2> HIDE DEF d, s, n
  <2>3. Memmove(m, d, s, n) = Put(m, d, Bytes(m, s, n))
    BY <1>1, <2>2, MemmoveIs
  <2> QED BY <1>2, <2>1, <2>3 DEF d
<1>4. CASE c.fn = "memcpy"
  <2>1. Effect(m, c) = <<CopyUp(m, d, s, n), d>>
    BY <1>4 DEF Effect
  <2>2. Within(d, n) /\ Within(s, n) /\ Apart(d, n, s, n)
    BY <1>4 DEF Defined
  <2> HIDE DEF d, s, n
  <2>3. CopyUp(m, d, s, n) = Put(m, d, Bytes(m, s, n))
    BY <1>1, <2>2, CopiesUp
  <2> QED BY <1>2, <2>1, <2>3 DEF d
<1> QED BY <1>3, <1>4

LEMMA StringCall ==
  ASSUME NEW m \in Memories, NEW c \in Calls, Defined(m, c), c.fn \in {"strcpy", "strncpy", "strcat"}
  PROVE  /\ Effect(m, c)[1] = Put(m, c.d, Written(m, c))
         /\ IsResult(m, c, Effect(m, c)[2])
<1> DEFINE d == c.d
           s == c.s
           n == c.n
<1>1. d \in Nat /\ s \in Nat /\ n \in Nat
  BY KlibAssumption DEF Calls, Addr
<1>2. IsResult(m, c, d)
  BY DEF IsResult
<1>3. CASE c.fn = "strcpy"
  <2>1. Effect(m, c) = <<Strcpy(m, d, s), d>>
    BY <1>3 DEF Effect
  <2>2. Written(m, c) = Append(Str(m, s), 0)
    BY <1>3 DEF Written
  <2>3. IsString(m, s) /\ Within(d, StrLen(m, s) + 1) /\ Apart(d, StrLen(m, s) + 1, s, StrLen(m, s) + 1)
    BY <1>3 DEF Defined
  <2> HIDE DEF d, s, n
  <2>4. Strcpy(m, d, s) = Put(m, d, Append(Str(m, s), 0))
    BY <1>1, <2>3, StrcpyIs
  <2> QED BY <1>2, <2>1, <2>2, <2>4 DEF d
<1>4. CASE c.fn = "strncpy"
  <2>1. Effect(m, c) = <<Strncpy(m, d, s, n), d>>
    BY <1>4 DEF Effect
  <2>2. Written(m, c) = UpTo(m, s, n) \o [i \in 1 .. n - Len(UpTo(m, s, n)) |-> 0]
    BY <1>4 DEF Written
  <2>3. /\ Within(d, n) /\ (IsString(m, s) \/ Within(s, n))
        /\ Apart(d, n, s, IF IsString(m, s) THEN StrLen(m, s) + 1 ELSE n)
    BY <1>4 DEF Defined
  <2> HIDE DEF d, s, n
  <2>4. Strncpy(m, d, s, n) = Put(m, d, UpTo(m, s, n) \o [i \in 1 .. n - Len(UpTo(m, s, n)) |-> 0])
    BY <1>1, <2>3, StrncpyIs
  <2> QED BY <1>2, <2>1, <2>2, <2>4 DEF d
<1>5. CASE c.fn = "strcat"
  <2>1. Effect(m, c) = <<Strcat(m, d, s), d>>
    BY <1>5 DEF Effect
  <2>2. Written(m, c) = Str(m, d) \o Append(Str(m, s), 0)
    BY <1>5 DEF Written
  <2>3. /\ IsString(m, d) /\ IsString(m, s)
        /\ Within(d, StrLen(m, d) + StrLen(m, s) + 1)
        /\ Apart(d, StrLen(m, d) + StrLen(m, s) + 1, s, StrLen(m, s) + 1)
    BY <1>5 DEF Defined
  <2> HIDE DEF d, s, n
  <2>4. Strcat(m, d, s) = Put(m, d, Str(m, d) \o Append(Str(m, s), 0))
    BY <1>1, <2>3, StrcatIs
  <2> QED BY <1>2, <2>1, <2>2, <2>4 DEF d
<1> QED BY <1>3, <1>4, <1>5

\* The functions that only read.
LEMMA ReadingCall ==
  ASSUME NEW m \in Memories, NEW c \in Calls, Defined(m, c),
         c.fn \in {"strlen", "memcmp", "strcmp", "strncmp", "atoi"}
  PROVE  /\ Effect(m, c)[1] = Put(m, c.d, Written(m, c))
         /\ IsResult(m, c, Effect(m, c)[2])
<1> DEFINE d == c.d
           s == c.s
           n == c.n
<1>1. d \in Nat /\ s \in Nat /\ n \in Nat
  BY KlibAssumption DEF Calls, Addr
<1>2. m = Put(m, c.d, Written(m, c))
  <2> DEFINE w == <<>>
  <2>1. Written(m, c) = w
    BY DEF Written
  <2>2. \A x \in Addr : x \notin d .. d + Len(w) - 1
    BY <1>1
  <2>3. m = [x \in Addr |-> m[x]]
    BY DEF Memories
  <2> HIDE DEF w, d
  <2>4. \A x \in Addr : m[x] = IF x \in d .. d + Len(w) - 1 THEN w[x - d + 1] ELSE m[x]
    BY <2>2
  <2>5. m = Put(m, d, w)
    BY <2>3, <2>4, PutIs
  <2> QED BY <2>1, <2>5 DEF d
<1>3. CASE c.fn = "strlen"
  <2>1. Effect(m, c) = <<m, StrLen(m, s)>> /\ IsString(m, s)
    BY <1>3 DEF Effect, Defined
  <2>2. Len(Str(m, s)) = StrLen(m, s)
    <3> HIDE DEF s
    <3> QED BY <1>1, <2>1, StrBytes
  <2>3. IsResult(m, c, StrLen(m, s))
    BY <1>3, <2>2 DEF IsResult
  <2> QED BY <1>2, <2>1, <2>3
<1>4. CASE c.fn = "memcmp"
  <2>1. Effect(m, c) = <<m, Memcmp(m, d, s, n)>> /\ Within(d, n) /\ Within(s, n)
    BY <1>4 DEF Effect, Defined
  <2>2. Sign(Memcmp(m, d, s, n)) = Compare(Bytes(m, d, n), Bytes(m, s, n))
    <3> HIDE DEF d, s, n
    <3> QED BY <1>1, <2>1, MemcmpCompares
  <2>3. IsResult(m, c, Memcmp(m, d, s, n))
    BY <1>4, <2>2 DEF IsResult
  <2> QED BY <1>2, <2>1, <2>3
<1>5. CASE c.fn = "strcmp"
  <2>1. Effect(m, c) = <<m, Strcmp(m, d, s)>> /\ IsString(m, d) /\ IsString(m, s)
    BY <1>5 DEF Effect, Defined
  <2>2. Sign(Strcmp(m, d, s)) = Compare(Str(m, d), Str(m, s))
    <3> HIDE DEF d, s, n
    <3> QED BY <1>1, <2>1, StrcmpCompares
  <2>3. IsResult(m, c, Strcmp(m, d, s))
    BY <1>5, <2>2 DEF IsResult
  <2> QED BY <1>2, <2>1, <2>3
<1>6. CASE c.fn = "strncmp"
  <2>1. /\ Effect(m, c) = <<m, Strncmp(m, d, s, n)>>
        /\ (IsString(m, d) \/ Within(d, n)) /\ (IsString(m, s) \/ Within(s, n))
    BY <1>6 DEF Effect, Defined
  <2>2. Sign(Strncmp(m, d, s, n)) = Compare(UpTo(m, d, n), UpTo(m, s, n))
    <3> HIDE DEF d, s, n
    <3> QED BY <1>1, <2>1, StrncmpCompares
  <2>3. IsResult(m, c, Strncmp(m, d, s, n))
    BY <1>6, <2>2 DEF IsResult
  <2> QED BY <1>2, <2>1, <2>3
<1>7. CASE c.fn = "atoi"
  <2>1. Effect(m, c) = <<m, Atoi(m, s)>> /\ IsString(m, s)
    BY <1>7 DEF Effect, Defined
  <2>2. \E k, l \in 0 .. Len(Str(m, s)) :
           /\ k <= l
           /\ \A i \in 1 .. k : Str(m, s)[i] = Space
           /\ k < Len(Str(m, s)) => Str(m, s)[k + 1] # Space
           /\ \A i \in k + 1 .. l : DigitValue(Str(m, s)[i]) # -1
           /\ l < Len(Str(m, s)) => DigitValue(Str(m, s)[l + 1]) = -1
           /\ Atoi(m, s) = Denoted(Bytes(m, s + k, l - k))
    <3> HIDE DEF s
    <3> QED BY <1>1, <2>1, AtoiIs
  <2>3. IsResult(m, c, Atoi(m, s))
    BY <1>7, <2>2 DEF IsResult
  <2> QED BY <1>2, <2>1, <2>3
<1> QED BY <1>3, <1>4, <1>5, <1>6, <1>7

\* Whatever C defines, the code does.
LEMMA CallIsC ==
  ASSUME NEW m \in Memories, NEW c \in Calls, Defined(m, c)
  PROVE  /\ Effect(m, c)[1] = Put(m, c.d, Written(m, c))
         /\ IsResult(m, c, Effect(m, c)[2])
<1>1. \/ c.fn = "memset" \/ c.fn \in {"memmove", "memcpy"} \/ c.fn \in {"strcpy", "strncpy", "strcat"}
      \/ c.fn \in {"strlen", "memcmp", "strcmp", "strncmp", "atoi"} \/ c.fn \in Prints
  BY DEF Calls, Fns, Prints
<1> QED BY <1>1, MemsetCall, MemoryCall, StringCall, ReadingCall, PrintCall

CallSpec == CallInit /\ [][Call]_stringVars

\* A call not yet made is one C defines, on the memory that is there.
CallInv ==
  call # NoCall /\ ret = <<>> => mem \in Memories /\ call \in Calls /\ Defined(mem, call)

\* A call is made once, on a memory for which it is defined.
LEMMA CallInvStep == CallInv /\ [Call]_stringVars => CallInv'
<1> SUFFICES ASSUME CallInv, [Call]_stringVars PROVE CallInv'
  OBVIOUS
<1>1. CASE Call
  BY <1>1 DEF Call, CallInv
<1>2. CASE UNCHANGED stringVars
  BY <1>2 DEF stringVars, CallInv
<1> QED BY <1>1, <1>2

\* So each call does what C says.
LEMMA CallInvCalls ==
  CallInv => [Call => /\ mem' = Put(mem, call.d, Written(mem, call))
                      /\ IsResult(mem, call, ret'[1])]_klibVars
<1> SUFFICES ASSUME CallInv, Call
             PROVE  /\ mem' = Put(mem, call.d, Written(mem, call))
                    /\ IsResult(mem, call, ret'[1])
  OBVIOUS
<1>1. mem \in Memories /\ call \in Calls /\ Defined(mem, call)
  BY DEF Call, CallInv
<1>2. mem' = Effect(mem, call)[1] /\ ret'[1] = Effect(mem, call)[2]
  BY DEF Call
<1> QED BY <1>1, <1>2, CallIsC

\* Every call for which C is defined leaves the memory and the result C promises.
THEOREM CallsAreC == CallSpec => CallsDoWhatCSays
<1>1. CallInit => CallInv
  BY DEF CallInit, CallInv, Memories
<1> QED BY <1>1, CallInvStep, CallInvCalls, PTL DEF CallSpec, CallsDoWhatCSays

-----------------------------------------------------------------------------
\* What the theorems say of each part they say of the run of all the parts: every
\* step of it is a step of one of them and leaves the others alone.
THEOREM PartsOfTheRun ==
  Spec => /\ [](BlocksApart /\ AnswersAsC /\ InstructionsAgree)
          /\ CallsDoWhatCSays
          /\ ImplementsSemu
<1>1. Init => HeapInit /\ DatapathInit
  BY DEF Init
<1>2. Init => SdbInv
  <2>1. Init => tokens = <<>> /\ answer = NoAnswer
    BY Zenon DEF Init, SdbInit
  <2>2. tokens = <<>> /\ answer = NoAnswer => SdbInv
    BY DEF SdbInv
  <2> QED BY <2>1, <2>2
<1>3. Init => CallInv
  <2>1. Init => CallInit \/ call = NoCall
    BY Zenon DEF Init
  <2>2. CallInit => CallInv
    BY DEF CallInit, CallInv, Memories
  <2>3. call = NoCall => CallInv
    BY DEF CallInv
  <2> QED BY <2>1, <2>2, <2>3
<1>4. Init => ScpuInv /\ Emulator!Init
  <2> DEFINE idle == [a \in 0 .. 15 |-> 0]
  <2>1. Init => \/ ScpuInit
                \/ /\ rom = idle /\ pc = 0 /\ q = [r \in 0 .. 3 |-> 0]
                   /\ shown = <<>> /\ wrapped = FALSE
    BY Zenon DEF Init
  <2>2. idle \in [0 .. 15 -> 0 .. 255]
    OBVIOUS
  <2> HIDE DEF idle
  <2>3. Init => ScpuReset
    BY <2>1, <2>2, ScpuStarts DEF ScpuReset
  <2> QED BY <2>3, ScpuStarts
<1>5. [Next]_seqVars => [Malloc]_heapVars
  BY DEF Next, Call, seqVars, klibVars, heapVars
<1>6. [Next]_seqVars => [SdbNext]_sdbVars
  BY DEF Next, seqVars, sdbVars
<1>7. [Next]_seqVars => [Execute]_datapathVars
  BY DEF Next, seqVars, datapathVars
<1>8. [Next]_seqVars => [Call]_stringVars
  BY DEF Next, seqVars, klibVars, stringVars
<1>9. [Next]_seqVars => [PosEdge]_scpuVars
  BY DEF Next, seqVars, scpuVars
<1>10. Spec => []BlocksApart
  <2>1. Spec => HeapSpec
    BY <1>1, <1>5, PTL DEF Spec, HeapSpec
  <2> QED BY <2>1, HeapBlocksApart, PTL
<1>11. Spec => []AnswersAsC
  BY <1>2, <1>6, SdbInvStep, SdbInvAnswers, PTL DEF Spec
<1>12. Spec => []InstructionsAgree
  <2>1. Spec => DatapathSpec
    BY <1>1, <1>7, PTL DEF Spec, DatapathSpec
  <2> QED BY <2>1, CoreComputesAsNemu, PTL
<1>13. Spec => CallsDoWhatCSays
  BY <1>3, <1>8, CallInvStep, CallInvCalls, PTL DEF Spec, CallsDoWhatCSays
<1>14. Spec => ImplementsSemu
  BY <1>4, <1>9, ScpuInvStep, ScpuSteps, PTL DEF Spec, ImplementsSemu, Emulator!Spec
<1> QED BY <1>10, <1>11, <1>12, <1>13, <1>14, PTL
=============================================================================
