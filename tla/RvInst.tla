------------------------------- MODULE RvInst -------------------------------
(***************************************************************************)
(* NEMU's riscv32 interpreter (nemu/src/isa/riscv32/inst.c): what one      *)
(* instruction does to a register, to memory, to the CSRs and to the pc.   *)
(* An instruction is its fields; a word has WordBits bits and four bytes,  *)
(* whatever their width.                                                   *)
(***************************************************************************)
EXTENDS Integers, Sequences

CONSTANTS
  WordBits,                          \* 32, or less: a multiple of 4 and a power of 2
  BitAnd(_, _), BitOr(_, _), BitXor(_, _)     \* of two words, bit by bit

ASSUME RvAssumption == WordBits \in Nat \ {0} /\ WordBits % 4 = 0

ByteBits == WordBits \div 4
Base2[n \in 0 .. WordBits] == IF n = 0 THEN 1 ELSE 2 * Base2[n - 1]
Word == 0 .. Base2[WordBits] - 1
Wrap(x) == x % Base2[WordBits]
Signed(x) == IF x < Base2[WordBits - 1] THEN x ELSE x - Base2[WordBits]
Sext(x, bits) == IF x < Base2[bits - 1] THEN x ELSE Wrap(x - Base2[bits])
Truth(p) == IF p THEN 1 ELSE 0

\* C's signed division truncates towards zero.
Magnitude(x) == IF x < 0 THEN -x ELSE x
Quotient(x, y) ==
  LET q == Magnitude(x) \div Magnitude(y) IN IF (x < 0) = (y < 0) THEN q ELSE -q

-----------------------------------------------------------------------------
\* Immediates: which bit of the instruction each bit is, or None for a 0.
\* <<hi, lo, at>> stands for BITS(i, hi, lo) << at, and n for SEXT's width.
None == -1
Placed(parts, n) ==
  [k \in 0 .. 31 |->
     LET j == IF k < n THEN k ELSE n - 1
         here == {p \in parts : p[3] <= j /\ j <= p[3] + p[1] - p[2]}
     IN IF here = {} THEN None ELSE LET p == CHOOSE p \in here : TRUE IN p[2] + j - p[3]]

Imm == [I |-> Placed({<<31, 20, 0>>}, 12),
        U |-> Placed({<<31, 12, 12>>}, 32),
        S |-> Placed({<<31, 25, 5>>, <<11, 7, 0>>}, 12),
        B |-> Placed({<<31, 31, 12>>, <<7, 7, 11>>, <<30, 25, 5>>, <<11, 8, 1>>}, 13),
        J |-> Placed({<<31, 31, 20>>, <<19, 12, 12>>, <<20, 20, 11>>, <<30, 21, 1>>}, 21)]

-----------------------------------------------------------------------------
\* What an instruction leaves: the value for rd, if any; the next pc; the
\* bytes it stores; the CSRs; and whether NEMU goes on.
Nothing(s) == [rd |-> <<>>, pc |-> Wrap(s.pc + 4), stored |-> <<>>, csrs |-> s.csrs, end |-> "none"]
Invalid(s) == [Nothing(s) EXCEPT !.end = "inv"]

Shamt(b) == b % WordBits
Sra(a, b) == Wrap(Signed(a) \div Base2[Shamt(b)])

\* add sll slt sltu xor srl or and, by funct3
Basic(f3, a, b) ==
  CASE f3 = 0 -> Wrap(a + b)
    [] f3 = 1 -> Wrap(a * Base2[Shamt(b)])
    [] f3 = 2 -> Truth(Signed(a) < Signed(b))
    [] f3 = 3 -> Truth(a < b)
    [] f3 = 4 -> BitXor(a, b)
    [] f3 = 5 -> a \div Base2[Shamt(b)]
    [] f3 = 6 -> BitOr(a, b)
    [] f3 = 7 -> BitAnd(a, b)

\* mul mulh mulhu div divu rem remu, by funct3; there is no mulhsu.
Lowest == Base2[WordBits - 1]
MulDiv(f3, a, b) ==
  CASE f3 = 0 -> Wrap(a * b)
    [] f3 = 1 -> Wrap((Signed(a) * Signed(b)) \div Base2[WordBits])
    [] f3 = 3 -> (a * b) \div Base2[WordBits]
    [] f3 = 4 -> IF b = 0 THEN Wrap(-1)
                 ELSE IF a = Lowest /\ b = Wrap(-1) THEN a
                 ELSE Wrap(Quotient(Signed(a), Signed(b)))
    [] f3 = 5 -> IF b = 0 THEN Wrap(-1) ELSE a \div b
    [] f3 = 6 -> IF b = 0 THEN a
                 ELSE IF a = Lowest /\ b = Wrap(-1) THEN 0
                 ELSE Wrap(Signed(a) - Quotient(Signed(a), Signed(b)) * Signed(b))
    [] f3 = 7 -> IF b = 0 THEN a ELSE a % b

Taken(f3, a, b) ==
  CASE f3 = 0 -> a = b
    [] f3 = 1 -> a # b
    [] f3 = 4 -> Signed(a) < Signed(b)
    [] f3 = 5 -> Signed(a) >= Signed(b)
    [] f3 = 6 -> a < b
    [] f3 = 7 -> a >= b

\* host_read and host_write: len bytes from addr on, the lowest first.
HostRead(mem, addr, len) ==
  LET upto[n \in 0 .. len] ==
        IF n = 0 THEN 0 ELSE upto[n - 1] + mem[addr + n - 1] * Base2[ByteBits * (n - 1)]
  IN upto[len]
HostWrite(addr, len, data) ==
  <<{<<addr + k, (data \div Base2[ByteBits * k]) % Base2[ByteBits]>> : k \in 0 .. len - 1}>>

LenOf(f3) == CASE f3 % 4 = 0 -> 1 [] f3 % 4 = 1 -> 2 [] OTHER -> 4

\* isa_raise_intr
RaiseIntr(s, no) ==
  [Nothing(s) EXCEPT !.csrs = [s.csrs EXCEPT !["mepc"] = s.pc, !["mcause"] = no],
                     !.pc = s.csrs["mtvec"]]

\* decode_exec, the instruction's fields and both source registers at hand.
DecodeExec(i, s) ==
  LET rd(v) == [Nothing(s) EXCEPT !.rd = <<v>>]
      jump(target) == [rd(Wrap(s.pc + 4)) EXCEPT !.pc = target]
      addr == Wrap(s.src1 + i.imm)
      shift == i.f3 \in {1, 5}
  IN
  CASE i.op = "OP" /\ i.f7 = 0 -> rd(Basic(i.f3, s.src1, s.src2))
    [] i.op = "OP" /\ i.f7 = 32 /\ i.f3 = 0 -> rd(Wrap(s.src1 - s.src2))
    [] i.op = "OP" /\ i.f7 = 32 /\ i.f3 = 5 -> rd(Sra(s.src1, s.src2))
    [] i.op = "OP" /\ i.f7 = 1 /\ i.f3 # 2 -> rd(MulDiv(i.f3, s.src1, s.src2))
    [] i.op = "OP-IMM" /\ (shift => i.f7 = 0) -> rd(Basic(i.f3, s.src1, i.imm))
    [] i.op = "OP-IMM" /\ i.f3 = 5 /\ i.f7 = 32 -> rd(Sra(s.src1, i.imm))
    [] i.op = "LUI" -> rd(i.imm)
    [] i.op = "AUIPC" -> rd(Wrap(s.pc + i.imm))
    [] i.op = "JAL" -> jump(Wrap(s.pc + i.imm))
    [] i.op = "JALR" /\ i.f3 = 0 -> jump(addr - (addr % 2))
    [] i.op = "BRANCH" /\ i.f3 \notin {2, 3} ->
         IF Taken(i.f3, s.src1, s.src2) THEN [Nothing(s) EXCEPT !.pc = Wrap(s.pc + i.imm)] ELSE Nothing(s)
    [] i.op = "LOAD" /\ i.f3 \in {0, 1} -> rd(Sext(HostRead(s.mem, addr, LenOf(i.f3)), ByteBits * LenOf(i.f3)))
    [] i.op = "LOAD" /\ i.f3 \in {2, 4, 5} -> rd(HostRead(s.mem, addr, LenOf(i.f3)))
    [] i.op = "STORE" /\ i.f3 \in {0, 1, 2} -> [Nothing(s) EXCEPT !.stored = HostWrite(addr, LenOf(i.f3), s.src2)]
    [] i.op = "ECALL" -> RaiseIntr(s, 11)
    [] i.op = "MRET" -> [Nothing(s) EXCEPT !.pc = s.csrs["mepc"]]
    [] i.op = "EBREAK" -> [Nothing(s) EXCEPT !.end = "trap"]
    [] i.op = "CSR" /\ i.f3 \in {1, 2} ->
         IF i.csr \notin DOMAIN s.csrs THEN [Nothing(s) EXCEPT !.end = "panic"]
         ELSE [rd(s.csrs[i.csr]) EXCEPT
                 !.csrs[i.csr] = IF i.f3 = 1 THEN s.src1 ELSE BitOr(s.csrs[i.csr], s.src1)]
    [] OTHER -> Invalid(s)
=============================================================================
