------------------------------ MODULE MCMiniRv -----------------------------
(***************************************************************************)
(* A five-bit machine for TLC: 32 words, word addressed, two registers     *)
(* besides x0.  Words 1..22 are the instructions of the table below; any   *)
(* other word decodes to "other".  Addresses 16..22 are pmem, 27..31 the   *)
(* devices.                                                                *)
(***************************************************************************)
EXTENDS MiniRv

MCWord == 0 .. 31
MCReg == {"x0", "x1", "x2"}
MCRam == 16 .. 22
MCKey == {0, 22}
\* <<op, rd, rs1, rs2, csr, immediate>>
MCTable == <<
  <<"alu",    "x0", "x0", "x0", "none",   0>>,   \*  1  nop
  <<"alu",    "x1", "x0", "x0", "none",  29>>,   \*  2  li  x1, RTC
  <<"alu",    "x1", "x0", "x0", "none",  28>>,   \*  3  li  x1, UART
  <<"alu",    "x1", "x0", "x0", "none",  22>>,   \*  4  li  x1, DATA
  <<"alu",    "x1", "x0", "x0", "none",  31>>,   \*  5  li  x1, KBD
  <<"load",   "x1", "x1", "x0", "none",   0>>,   \*  6  lw  x1, 0(x1)
  <<"load",   "x2", "x1", "x0", "none",   0>>,   \*  7  lw  x2, 0(x1)
  <<"store",  "x0", "x1", "x2", "none",   0>>,   \*  8  sw  x2, 0(x1)
  <<"jump",   "x2", "x0", "x0", "none",  16>>,   \*  9  jal x2, RESET
  <<"branch", "x0", "x1", "x2", "none",  18>>,   \* 10  beq x1, x2, RESET+2
  <<"csrrw",  "x2", "x1", "x0", "mtvec",  0>>,   \* 11  csrrw x2, mtvec, x1
  <<"csrrs",  "x2", "x0", "x0", "mepc",   0>>,   \* 12  csrr  x2, mepc
  <<"csrrw",  "x0", "x2", "x0", "mepc",   0>>,   \* 13  csrw  mepc, x2
  <<"ecall",  "x0", "x0", "x0", "none",   0>>,   \* 14
  <<"mret",   "x0", "x0", "x0", "none",   0>>,   \* 15
  <<"ebreak", "x0", "x0", "x0", "none",   0>>,   \* 16
  <<"alu",    "x2", "x2", "x0", "none",   1>>,   \* 17  addi x2, x2, 1
  <<"alu",    "x1", "x0", "x0", "none",  19>>,   \* 18  li  x1, RESET+3
  <<"load",   "x0", "x1", "x0", "none",   0>>,   \* 19  lw  x0, 0(x1)
  <<"load",   "x1", "x1", "x0", "none",   1>>,   \* 20  lw  x1, 1(x1)
  <<"load",   "x2", "x1", "x0", "none",   1>>,   \* 21  lw  x2, 1(x1)
  <<"store",  "x0", "x0", "x2", "none",  27>> >> \* 22  sw  x2, SYNC

Row(w) == IF w \in DOMAIN MCTable THEN MCTable[w]
          ELSE <<"other", "x0", "x0", "x0", "none", 0>>

MCDecode(w) == LET r == Row(w) IN
  [op |-> r[1], rd |-> r[2], rs1 |-> r[3], rs2 |-> r[4], csr |-> r[5]]
MCAlu(w, p, a, b) == (a + Row(w)[6]) % 32
MCTarget(w, p, a, b) ==
  IF Row(w)[1] = "branch" /\ a # b THEN (p + 1) % 32 ELSE Row(w)[6]
MCPlus4(p) == (p + 1) % 32
MCCsrOr(a, b) == IF b = 0 THEN a ELSE 31
MCAlign(a) == a
MCLoadExt(w, a, v) == v
MCStoreMerge(w, a, old, d) == d
MCTimeWord(a, t) == IF a = 29 THEN t % 2 ELSE t \div 2

Program(code) == [a \in MCRam |-> IF a - 15 \in DOMAIN code THEN code[a - 15] ELSE 0]

\* Programs that never leave RTC or RTCHI on the ALU when an instruction
\* retires: loads and stores, printing, self-modifying code, traps, and timer
\* reads whose destination overwrites the base register.
MCImages == {
  Program(<<4, 7, 17, 8, 6, 16>>),       \* load, add, store back, load again
  Program(<<3, 8, 17, 8, 9>>),           \* print in a loop
  Program(<<18, 11, 14, 13, 16>>),       \* set mtvec, trap to RESET+3
  Program(<<18, 11, 14, 12, 15>>),       \* trap, handler returns to the ecall
  Program(<<18, 7, 17, 8, 10, 9>>),      \* rewrite the instruction at RESET+3
  Program(<<3, 20, 17, 3, 20, 9>>),      \* read the timer over and over
  Program(<<5, 6, 17, 8, 16>>) }         \* read a key, store at that address

\* Every pair of instructions after a choice of x1, followed by ebreak.
MCShortImages == MCImages \cup
  {Program(<<i, j, k, 16>>) : i \in {1, 3, 4, 5, 18}, j, k \in 1 .. 21}

\* `lw x2, RTC`: the destination is not the base register.
MCTimerImages == {Program(<<3, 21, 17, 16>>)}
MCLiveImages == MCImages \cup MCTimerImages
=============================================================================
