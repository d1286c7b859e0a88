------------------------------ MODULE NpcIsa -------------------------------
(***************************************************************************)
(* What the core promises its software: instructions are executed one at a *)
(* time, each to completion, in program order.  This is the machine the    *)
(* programs of abstract-machine are written for and the one DiffTest       *)
(* compares the core with; it has no clock, no buses and no latencies.     *)
(***************************************************************************)
EXTENDS NpcArch

CONSTANT Images

VARIABLES pc, regs, csrs, mem, uartOut, halted

isaVars == <<pc, regs, csrs, mem, uartOut, halted>>

Init ==
  /\ pc = ResetPc
  /\ regs = [r \in Reg |-> Zero]
  /\ csrs = [c \in Csr |-> IF c = "mstatus" THEN MStatusReset ELSE Zero]
  /\ mem \in Images
  /\ uartOut = <<>>
  /\ halted = FALSE

\* The words a read of address a may return now: a device answers with any
\* of its words, memory with the one it holds.
Read(a) ==
  IF a = KBD THEN Key
  ELSE IF a \in {RTC, RTCHI} THEN {TimeWord(a, t) : t \in Time}
  ELSE {IF Align(a) \in Ram THEN mem[Align(a)] ELSE Zero}

SetReg(r, v) == regs' = IF r = X0 THEN regs ELSE [regs EXCEPT ![r] = v]

CsrVal(c) == IF c = "none" THEN Zero ELSE csrs[c]

SetCsr(c, v) == csrs' = IF c = "none" THEN csrs ELSE [csrs EXCEPT ![c] = v]

\* An instruction that computes and writes at most one register.
Compute(w, a, b) ==
  LET d == Decode(w) IN
  /\ d.op \in {"alu", "jump", "branch", "other", "ebreak"}
  /\ CASE d.op = "alu"  -> SetReg(d.rd, Alu(w, pc, a, b))
       [] d.op = "jump" -> SetReg(d.rd, Plus4(pc))
       [] OTHER         -> UNCHANGED regs
  /\ pc' = IF d.op \in {"jump", "branch"} THEN Target(w, pc, a, b) ELSE Plus4(pc)
  /\ halted' = (halted \/ d.op = "ebreak")
  /\ UNCHANGED <<csrs, mem, uartOut>>

Load(w, a, b) ==
  LET addr == Alu(w, pc, a, b) IN
  /\ Decode(w).op = "load"
  /\ \E v \in Read(addr) : SetReg(Decode(w).rd, LoadExt(w, addr, v))
  /\ pc' = Plus4(pc)
  /\ UNCHANGED <<csrs, mem, uartOut, halted>>

Store(w, a, b) ==
  LET addr == Alu(w, pc, a, b) IN
  /\ Decode(w).op = "store"
  /\ IF addr = UART
     THEN uartOut' = Append(uartOut, b) /\ UNCHANGED mem
     ELSE /\ UNCHANGED uartOut
          /\ mem' = IF Align(addr) \in Ram
                    THEN [mem EXCEPT ![Align(addr)] = StoreMerge(w, addr, @, b)]
                    ELSE mem
  /\ pc' = Plus4(pc)
  /\ UNCHANGED <<regs, csrs, halted>>

System(w, a) ==
  LET d == Decode(w) IN
  /\ \/ /\ d.op = "ecall"
        /\ csrs' = [csrs EXCEPT !["mepc"] = pc, !["mcause"] = EcallCause]
        /\ pc' = csrs["mtvec"]
        /\ UNCHANGED regs
     \/ /\ d.op = "mret"
        /\ pc' = csrs["mepc"]
        /\ UNCHANGED <<regs, csrs>>
     \/ /\ d.op \in {"csrrw", "csrrs"}
        /\ SetReg(d.rd, CsrVal(d.csr))
        /\ SetCsr(d.csr, IF d.op = "csrrw" THEN a ELSE CsrOr(CsrVal(d.csr), a))
        /\ pc' = Plus4(pc)
  /\ UNCHANGED <<mem, uartOut, halted>>

\* Fetch, decode and execute one instruction.
Step ==
  /\ ~halted
  /\ \E w \in Read(pc) :
       LET d == Decode(w)
           a == IF d.rs1 = X0 THEN Zero ELSE regs[d.rs1]
           b == IF d.rs2 = X0 THEN Zero ELSE regs[d.rs2]
       IN  Compute(w, a, b) \/ Load(w, a, b) \/ Store(w, a, b) \/ System(w, a)

Spec == Init /\ [][Step]_isaVars
=============================================================================
