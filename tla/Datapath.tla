------------------------------ MODULE Datapath ------------------------------
(***************************************************************************)
(* The wires of the RV32E core between register file, decoder, ALU and     *)
(* load/store unit (npc/riscv32ecustom: minirv.v, alu.v, decoder.v,        *)
(* lsu.v), that is, the functions MiniRv leaves open; and the two          *)
(* interpreters beside them: NEMU's, as DiffTest runs it, and the one of   *)
(* the small subset.                                                       *)
(***************************************************************************)
EXTENDS MinirvEmu

CONSTANTS
  Code,              \* bound: instructions, as records of their fields
  Operands,           \* bound: the words in registers
  Memory,            \* bound: what memory holds, address |-> byte
  Csrs               \* bound: what the CSRs hold

ASSUME DatapathAssumption ==
  /\ \A i \in Code : i.f3 \in 0 .. 7 /\ i.imm \in Word
  /\ Operands \subseteq Word
  /\ \A a \in 0 .. Base2[WordBits] + 2 : Memory[a] \in 0 .. Base2[ByteBits] - 1

VARIABLES
  executed,          \* the instruction, or NoCode
  before,            \* auxiliary: the registers, memory and pc it finds
  core, nemu, emu    \* what it leaves, in each machine

datapathVars == <<executed, before, core, nemu, emu>>

NoCode == [op |-> "none"]

-----------------------------------------------------------------------------
\* decoder.v: immediates as concatenations, the highest bit first.
Run(hi, lo) == [j \in 1 .. hi - lo + 1 |-> hi - j + 1]
Times(n, bit) == [j \in 1 .. n |-> bit]
ImmJ == Times(11, 31) \o <<31>> \o Run(19, 12) \o <<20>> \o Run(30, 21) \o <<None>>
CoreImm == [I |-> Times(20, 31) \o Run(31, 20),
            U |-> Run(31, 12) \o Times(12, None),
            S |-> Times(20, 31) \o Run(31, 25) \o Run(11, 7),
            B |-> Times(19, 31) \o <<31, 7>> \o Run(30, 25) \o Run(11, 8) \o <<None>>,
            J |-> ImmJ]

\* minirv.v: which instruction it is.  funct7 is looked at only where two
\* instructions share a funct3.
IsRTypeAlu(i) == i.op = "OP" /\ (i.f3 \in {0, 5} => i.f7 \in {0, 32})
IsITypeAlu(i) == i.op = "OP-IMM" /\ (i.f3 = 5 => i.f7 \in {0, 32})
IsLoadAny(i) == i.op = "LOAD" /\ i.f3 \in {0, 1, 2, 4, 5}
IsStoreAny(i) == i.op = "STORE" /\ i.f3 \in {0, 1, 2}
IsCsr(i) == i.op = "CSR" /\ i.f3 \in {1, 2}

RegWen(i) ==
  \/ IsRTypeAlu(i) \/ IsITypeAlu(i) \/ IsLoadAny(i) \/ IsCsr(i)
  \/ i.op \in {"LUI", "AUIPC", "JALR", "JAL"}

AluA(i, s) == IF i.op = "LUI" THEN 0 ELSE IF i.op = "AUIPC" THEN s.pc ELSE s.src1
AluB(i, s) == IF IsRTypeAlu(i) THEN s.src2 ELSE i.imm

AluOp(i) ==
  IF ~(IsRTypeAlu(i) \/ IsITypeAlu(i)) THEN 0
  ELSE CASE i.f3 = 0 -> IF i.op = "OP" /\ i.f7 = 32 THEN 1 ELSE 0
         [] i.f3 = 1 -> 5
         [] i.f3 = 2 -> 8
         [] i.f3 = 3 -> 9
         [] i.f3 = 4 -> 4
         [] i.f3 = 5 -> IF i.f7 = 32 THEN 7 ELSE 6
         [] i.f3 = 6 -> 3
         [] i.f3 = 7 -> 2

\* alu.v
SraResultInline(a, b) == a \div Base2[b % WordBits]   \* (bug: $signed() lost among unsigned branches)
SraResult(a, b) == Wrap(Signed(a) \div Base2[b % WordBits])
Alu(op, a, b) ==
  CASE op = 0 -> Wrap(a + b)
    [] op = 1 -> Wrap(a - b)
    [] op = 2 -> BitAnd(a, b)
    [] op = 3 -> BitOr(a, b)
    [] op = 4 -> BitXor(a, b)
    [] op = 5 -> Wrap(a * Base2[b % WordBits])
    [] op = 6 -> a \div Base2[b % WordBits]
    [] op = 7 -> SraResult(a, b)
    [] op = 8 -> Truth(Signed(a) < Signed(b))
    [] op = 9 -> Truth(a < b)
AluOut(i, s) == Alu(AluOp(i), AluA(i, s), AluB(i, s))

TakesBranch(i, s) ==
  i.op = "BRANCH" /\ CASE i.f3 = 0 -> s.src1 = s.src2
                       [] i.f3 = 1 -> s.src1 # s.src2
                       [] i.f3 = 4 -> Signed(s.src1) < Signed(s.src2)
                       [] i.f3 = 5 -> Signed(s.src1) >= Signed(s.src2)
                       [] i.f3 = 6 -> s.src1 < s.src2
                       [] i.f3 = 7 -> s.src1 >= s.src2
                       [] OTHER -> FALSE

\* lsu.v: the bus carries whole words; the byte lanes are chosen here.
Offset(addr) == addr % 4
Half(addr) == 2 * (Offset(addr) \div 2)
Lane(word, k, n) == (word \div Base2[k * ByteBits]) % Base2[n * ByteBits]
RData(f3, addr, word) ==
  CASE f3 = 0 -> Sext(Lane(word, Offset(addr), 1), ByteBits)
    [] f3 = 4 -> Lane(word, Offset(addr), 1)
    [] f3 = 1 -> Sext(Lane(word, Half(addr), 2), 2 * ByteBits)
    [] f3 = 5 -> Lane(word, Half(addr), 2)
    [] OTHER -> word
MWData(f3, addr, data) ==
  Wrap(data * Base2[ByteBits * (CASE f3 = 0 -> Offset(addr) [] f3 = 1 -> Half(addr) [] OTHER -> 0)])
WStrb(f3, addr) ==
  CASE f3 = 0 -> {Offset(addr)} [] f3 = 1 -> {Half(addr), Half(addr) + 1} [] OTHER -> 0 .. 3

\* main.cpp: pmem_read and pmem_write, on the word that holds the address.
WordAt(addr) == addr - Offset(addr)
PmemWrite(addr, data, strb) == {<<WordAt(addr) + k, Lane(data, k, 1)>> : k \in strb}

CsrRData(i, s) == IF i.csr \in DOMAIN s.csrs THEN s.csrs[i.csr] ELSE 0
CsrWData(i, s) == IF i.f3 = 1 THEN s.src1 ELSE BitOr(CsrRData(i, s), s.src1)

\* wdata, next_pc, and what else changes on the edge the instruction retires.
WriteBack(i, s) ==
  CASE i.op \in {"JALR", "JAL"} -> Wrap(s.pc + 4)
    [] IsLoadAny(i) -> RData(i.f3, AluOut(i, s), HostRead(s.mem, WordAt(AluOut(i, s)), 4))
    [] IsCsr(i) -> CsrRData(i, s)
    [] OTHER -> AluOut(i, s)

NextPcWire(i, s) ==
  CASE i.op = "ECALL" -> s.csrs["mtvec"]
    [] i.op = "MRET" -> s.csrs["mepc"]
    [] i.op = "JALR" -> LET t == Wrap(s.src1 + i.imm) IN t - (t % 2)
    [] i.op = "JAL" \/ TakesBranch(i, s) -> Wrap(s.pc + i.imm)
    [] OTHER -> Wrap(s.pc + 4)

CsrsNext(i, s) ==
  CASE i.op = "ECALL" -> [s.csrs EXCEPT !["mepc"] = s.pc, !["mcause"] = 11]
    [] IsCsr(i) /\ i.csr \in DOMAIN s.csrs -> [s.csrs EXCEPT ![i.csr] = CsrWData(i, s)]
    [] OTHER -> s.csrs

Retired(i, s) ==
  [rd |-> IF RegWen(i) THEN <<WriteBack(i, s)>> ELSE <<>>,
   pc |-> NextPcWire(i, s),
   stored |-> IF IsStoreAny(i)
              THEN <<PmemWrite(AluOut(i, s), MWData(i.f3, AluOut(i, s), s.src2), WStrb(i.f3, AluOut(i, s)))>>
              ELSE <<>>,
   csrs |-> CsrsNext(i, s),
   end |-> IF i.op = "EBREAK" THEN "trap" ELSE "none"]

-----------------------------------------------------------------------------
DatapathInit == executed = NoCode /\ before = <<>> /\ core = <<>> /\ nemu = <<>> /\ emu = <<>>

Execute ==
  /\ executed = NoCode /\ executed' \in Code
  /\ \E a, b \in Operands, p \in {0, Wrap(-4)} :
       before' = [src1 |-> a, src2 |-> b, pc |-> p, mem |-> Memory, csrs |-> Csrs]
  /\ core' = Retired(executed', before')
  /\ nemu' = DecodeExec(executed', before')
  /\ emu' = InstCycle(executed', before')

DatapathSpec == DatapathInit /\ [][Execute]_datapathVars

-----------------------------------------------------------------------------
\* Where the core does not look at funct7 or funct3: the multiplications and
\* divisions NEMU has execute as shifts, comparisons and logic.
LooselyDecoded(i) ==
  \/ i.op = "OP" /\ i.f3 \notin {0, 5} /\ i.f7 # 0
  \/ i.op = "OP-IMM" /\ i.f3 = 1 /\ i.f7 # 0
  \/ i.op = "JALR" /\ i.f3 # 0

Aligned(i, s) ==
  i.op \in {"LOAD", "STORE"} => Wrap(s.src1 + i.imm) % LenOf(i.f3) = 0

\* The core computes what NEMU computes, for every instruction of RV32E and
\* every address the compiler produces (-mstrict-align): registers, pc, CSRs
\* and bytes of memory; both take each immediate from the same bits.  What
\* NEMU does not know is a no-op in the core (minirv.v: "allow-list, not
\* deny-list"), where it is decoded in full.  The emulator of the subset agrees
\* as well, but for a jump to an odd address, whose bit it does not clear.  And
\* NEMU's divisions are whole, by zero and at the lowest integer too.
InstructionsAgree ==
  executed # NoCode =>
    /\ \A t \in DOMAIN Imm : \A k \in 0 .. 31 : CoreImm[t][32 - k] = Imm[t][k]
    /\ nemu.end \notin {"inv", "panic"} /\ Aligned(executed, before) =>
         \/ core = nemu
         \/ executed.op = "OP" /\ executed.f7 = 1
    /\ nemu.end = "inv" /\ ~LooselyDecoded(executed) => core = Nothing(before)
    /\ IsMinirv(executed) /\ (executed.op = "JALR" => emu.pc % 2 = 0) => emu = nemu
    /\ executed.op = "OP" /\ executed.f7 = 1 /\ executed.f3 \in {4, 5} =>
         LET r == MulDiv(executed.f3 + 2, before.src1, before.src2)
         IN /\ Wrap(nemu.rd[1] * before.src2 + r) = before.src1
            /\ executed.f3 = 5 /\ before.src2 # 0 => r < before.src2
            /\ executed.f3 = 4 /\ before.src2 # 0 =>
                 /\ Magnitude(Signed(r)) < Magnitude(Signed(before.src2))
                 /\ r # 0 => (Signed(r) < 0) = (Signed(before.src1) < 0)
=============================================================================
