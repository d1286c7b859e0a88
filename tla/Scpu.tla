-------------------------------- MODULE Scpu --------------------------------
(***************************************************************************)
(* The single-cycle processor of the 8-bit teaching ISA (npc/scpu-rtl):    *)
(* registers and the wires between them, one clock edge after the reset at *)
(* a time.  Its program counter has four bits and wraps.                   *)
(***************************************************************************)
EXTENDS Naturals

CONSTANT Program     \* bound: the contents of the instruction memory

ASSUME ScpuAssumption == Program \subseteq [0 .. 15 -> 0 .. 255]

VARIABLES
  pc, q, rom,        \* pc_reg, regfile's r0 .. r3, imem
  shown,             \* <<out_val>> in the last cycle, <<>> without out_valid
  wrapped            \* auxiliary: pc has gone from 15 to 0 without a branch

scpuVars == <<pc, q, rom, shown, wrapped>>

ScpuInit ==
  /\ rom \in Program /\ pc = 0 /\ q = [r \in 0 .. 3 |-> 0]
  /\ shown = <<>> /\ wrapped = FALSE

\* decoder.v: inst[hi:lo]
Bits(hi, lo) == (rom[pc] \div 2 ^ lo) % 2 ^ (hi - lo + 1)
Op == Bits(7, 6)
RdField == Bits(5, 4)

\* scpu.v
Raddr1Always == Bits(3, 2)                            \* (bug: no second use of the port)
Raddr1 == IF Op = 1 THEN RdField ELSE Bits(3, 2)
Rs1Val == q[Raddr1]
Rs2Val == q[Bits(1, 0)]
BranchTaken == Op = 3 /\ q[0] # Rs2Val
NextPc == IF BranchTaken THEN Bits(5, 2) ELSE (pc + 1) % 16
Wen == Op \in {0, 2}
Wdata == IF Op = 2 THEN Bits(3, 0) ELSE (Rs1Val + Rs2Val) % 256

\* The rising edge, in every cycle after the reset.
PosEdge ==
  /\ pc' = NextPc
  /\ q' = IF Wen THEN [q EXCEPT ![RdField] = Wdata] ELSE q
  /\ shown' = IF Op = 1 THEN <<Rs1Val>> ELSE <<>>
  /\ wrapped' = (wrapped \/ (pc = 15 /\ ~BranchTaken))
  /\ UNCHANGED rom

ScpuSpec == ScpuInit /\ [][PosEdge]_scpuVars

-----------------------------------------------------------------------------
\* The processor runs every program as the emulator does, register for
\* register and output for output, as long as the program stays in its memory
\* (scpu.v:16, one read port serving two fields).  Behind that the emulator is
\* undefined, and nothing is said.
Emulator == INSTANCE Semu WITH
  PC <- IF wrapped THEN 15 ELSE pc, R <- q, M <- rom, printed <- shown, undefined <- wrapped
ImplementsSemu == Emulator!Spec
=============================================================================
