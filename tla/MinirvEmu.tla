----------------------------- MODULE MinirvEmu -----------------------------
(***************************************************************************)
(* The emulator of the eight-instruction subset (e4/minirv/minirvemu.c).   *)
(* An instruction it does not know leaves the pc where it is, so that the  *)
(* program spins on it until the cycles are used up.                       *)
(***************************************************************************)
EXTENDS RvInst

\* inst_cycle
InstCycle(i, s) ==
  LET addr == Wrap(s.src1 + i.imm)
      rd(v) == [Nothing(s) EXCEPT !.rd = <<v>>]
  IN
  CASE i.op = "OP" /\ i.f3 = 0 -> rd(Wrap(s.src1 + s.src2))
    [] i.op = "OP-IMM" /\ i.f3 = 0 -> rd(addr)
    [] i.op = "LUI" -> rd(i.imm)
    [] i.op = "JALR" /\ i.f3 = 0 -> [rd(Wrap(s.pc + 4)) EXCEPT !.pc = addr]
    [] i.op = "LOAD" /\ i.f3 = 2 -> rd(HostRead(s.mem, addr, 4))
    [] i.op = "LOAD" /\ i.f3 = 4 -> rd(HostRead(s.mem, addr, 1))
    [] i.op = "STORE" /\ i.f3 = 2 -> [Nothing(s) EXCEPT !.stored = HostWrite(addr, 4, s.src2)]
    [] i.op = "STORE" /\ i.f3 = 0 -> [Nothing(s) EXCEPT !.stored = HostWrite(addr, 1, s.src2)]
    [] i.op = "EBREAK" -> [Nothing(s) EXCEPT !.end = "trap", !.pc = s.pc]
    [] OTHER -> [Nothing(s) EXCEPT !.pc = s.pc]

\* The instructions of the subset.
IsMinirv(i) ==
  \/ i.op = "OP" /\ i.f3 = 0 /\ i.f7 = 0
  \/ i.op = "OP-IMM" /\ i.f3 = 0
  \/ i.op = "LUI"
  \/ i.op = "JALR" /\ i.f3 = 0
  \/ i.op = "LOAD" /\ i.f3 \in {2, 4}
  \/ i.op = "STORE" /\ i.f3 \in {0, 2}
=============================================================================
