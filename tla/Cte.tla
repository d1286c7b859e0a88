-------------------------------- MODULE Cte --------------------------------
(***************************************************************************)
(* The context extension of abstract-machine: what an ecall does, the      *)
(* assembly of am/src/riscv/{nemu,npc}/trap.S around __am_irq_handle, and  *)
(* the first frame of a thread.  One word stands for XLEN bytes, one       *)
(* instruction for one pc.  Nothing interrupts the handler: mie is never   *)
(* set, and iset() is empty.                                               *)
(***************************************************************************)
EXTENDS Naturals, Sequences

CONSTANTS
  Word,          \* the values of a register or memory word
  Addr,          \* the words of memory
  MinusOne,
  Junk,          \* what dead words and registers hold
  NrRegs,        \* NR_REGS: registers 1 .. NrRegs - 1, and x0
  A0, NumberReg, \* a0; a5 (RV32E) or a7: the register yield() loads
  TrapEntry,     \* __am_asm_trap
  YieldCause,    \* mcause of an ecall: 11
  MStatusMpp,    \* 0x1800: mstatus at reset and of a new context
  WithMprv(_)    \* mstatus | (1 << 17)

Null == 0
Zero == 0
SP == 2
Reg == 1 .. NrRegs - 1

VARIABLES
  platform,      \* which AM port the kernel is built for
  mem, regs, pc,
  csrs,          \* mtvec, mepc, mcause, mstatus
  phase          \* "user", or how far the trap code is

machineVars == <<mem, regs, pc, csrs, phase>>

ASSUME CteAssumption ==
  /\ NrRegs \in Nat /\ A0 \in Reg /\ NumberReg \in Reg \ {A0} /\ SP \notin {A0, NumberReg}
  /\ SP \in Reg
  /\ Word \subseteq Nat /\ Addr \subseteq Word \ {Null}
  /\ {Null, Zero, MinusOne, Junk, TrapEntry, YieldCause, MStatusMpp} \subseteq Word
  /\ \A w \in Word : WithMprv(w) \in Word

\* struct Context has one word, pdir, that the frame of nemu's trap.S lacks.
ContextWords == NrRegs + 4
FrameWords == IF platform = "nemu" THEN NrRegs + 3 ELSE NrRegs + 4
CauseAt(c)  == c + NrRegs
StatusAt(c) == c + NrRegs + 1
EpcAt(c)    == c + NrRegs + 2
PdirAt(c)   == c + NrRegs + 3

Pushed == Reg \ {SP}

\* A frame at c in m: the registers r and the CSRs s.
WithFrame(m, c, r, s) ==
  [a \in Addr |->
     CASE a >= c /\ a - c \in Pushed -> r[a - c]
       [] a = CauseAt(c)  -> s.mcause
       [] a = StatusAt(c) -> s.mstatus
       [] a = EpcAt(c)    -> s.mepc
       [] OTHER -> m[a]]

FrameRegs(m, c) == [r \in Pushed |-> m[c + r]]

\* kcontext and (nemu's) ucontext: only these words are written.
KContext(m, top, entry, arg) ==
  LET c == top - ContextWords IN
  [m EXCEPT ![EpcAt(c)] = entry, ![StatusAt(c)] = MStatusMpp,
            ![c + A0] = arg, ![PdirAt(c)] = Null]
UContext(m, top, entry) ==
  LET c == top - ContextWords IN
  [m EXCEPT ![EpcAt(c)] = entry, ![StatusAt(c)] = MStatusMpp, ![PdirAt(c)] = Null]

-----------------------------------------------------------------------------
\* yield(): load the event number, ecall (isa_raise_intr, minirv.v).
Ecall ==
  /\ phase = "user"
  /\ regs' = [regs EXCEPT ![NumberReg] = MinusOne]
  /\ csrs' = [csrs EXCEPT !.mepc = pc, !.mcause = YieldCause]
  /\ pc' = csrs.mtvec
  /\ phase' = "entry"
  /\ UNCHANGED mem

\* (bug: mstatus is saved after MPRV was set in it)
TrapSaveMprv ==
  /\ phase = "entry" /\ pc = TrapEntry
  /\ LET c == regs[SP] - FrameWords IN
     /\ mem' = WithFrame(mem, c, regs, [csrs EXCEPT !.mstatus = WithMprv(@)])
     /\ regs' = [r \in Reg |-> IF r \in {SP, A0} THEN c ELSE Junk]
  /\ csrs' = [csrs EXCEPT !.mstatus = IF platform = "nemu" THEN WithMprv(@) ELSE @]
  /\ phase' = "handler"
  /\ UNCHANGED pc
\* trap.S up to the call: a frame below sp, and the frame's address in a0.
TrapSave ==
  /\ phase = "entry" /\ pc = TrapEntry
  /\ LET c == regs[SP] - FrameWords IN
     /\ mem' = WithFrame(mem, c, regs, csrs)
     /\ regs' = [r \in Reg |-> IF r \in {SP, A0} THEN c ELSE Junk]
  /\ csrs' = [csrs EXCEPT !.mstatus = IF platform = "nemu" THEN WithMprv(@) ELSE @]
  /\ phase' = "handler"
  /\ UNCHANGED pc

\* (bug: the frame is popped as if it were a struct Context)
TrapRestoreContext ==
  /\ phase = "exit"
  /\ LET c == regs[A0] IN
     /\ csrs' = [csrs EXCEPT !.mstatus = mem[StatusAt(c)], !.mepc = mem[EpcAt(c)]]
     /\ regs' = [r \in Reg |-> IF r = SP THEN c + ContextWords ELSE mem[c + r]]
     /\ pc' = mem[EpcAt(c)]
  /\ phase' = "user"
  /\ UNCHANGED mem
\* trap.S after the call: the context a0 names is the one that resumes.
TrapRestore ==
  /\ phase = "exit"
  /\ LET c == regs[A0] IN
     /\ csrs' = [csrs EXCEPT !.mstatus = mem[StatusAt(c)], !.mepc = mem[EpcAt(c)]]
     /\ regs' = [r \in Reg |-> IF r = SP THEN c + FrameWords ELSE mem[c + r]]
     /\ pc' = mem[EpcAt(c)]
  /\ phase' = "user"
  /\ UNCHANGED mem
=============================================================================
