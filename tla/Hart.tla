------------------------------- MODULE Hart --------------------------------
(***************************************************************************)
(* The architectural state the core keeps besides pc, and the wires        *)
(* minirv.v derives from the instruction in ifu.v: the operands, the ALU   *)
(* result, the next pc and the value written back.                         *)
(***************************************************************************)
EXTENDS Ifu

VARIABLES regs, csrs, halted   \* halted: npc_trap() has been called

hartVars == <<regs, csrs, halted>>

HartType ==
  /\ regs \in [Reg -> Word] /\ csrs \in [Csr -> Word] /\ halted \in BOOLEAN

HartInit ==
  /\ regs = [r \in Reg |-> Zero]
  /\ csrs = [c \in Csr |-> IF c = "mstatus" THEN MStatusReset ELSE Zero]
  /\ halted = FALSE

\* Register 0 is stored like any other and reads as zero.
RegVal(r) == IF r = X0 THEN Zero ELSE regs[r]

D == Decode(inst)
Rs1Val == RegVal(D.rs1)
Rs2Val == RegVal(D.rs2)
AluResult == Alu(inst, pc, Rs1Val, Rs2Val)
CsrRead == IF D.csr = "none" THEN Zero ELSE csrs[D.csr]
CsrWrite == IF D.op = "csrrw" THEN Rs1Val ELSE CsrOr(CsrRead, Rs1Val)

LsuRen == IfuValid /\ D.op = "load"
LsuWen == IfuValid /\ D.op = "store"

LoadsDoNotStall(lsuValid) == ~LsuWen \/ lsuValid     \* (bug)
StoresDoNotStall(lsuValid) == ~LsuRen \/ lsuValid    \* (bug)
ExecDone(lsuValid) == ~(LsuRen \/ LsuWen) \/ lsuValid
Retiring(lsuValid) == IfuValid /\ ExecDone(lsuValid)

NextPc ==
  CASE D.op = "ecall" -> csrs["mtvec"]
    [] D.op = "mret"  -> csrs["mepc"]
    [] D.op \in {"jump", "branch"} -> Target(inst, pc, Rs1Val, Rs2Val)
    [] OTHER -> Plus4(pc)

WritesRd == D.op \in {"alu", "load", "jump", "csrrw", "csrrs"}

WriteBack(word) ==
  CASE D.op = "jump" -> Plus4(pc)
    [] D.op = "load" -> LoadExt(inst, AluResult, word)
    [] D.op \in {"csrrw", "csrrs"} -> CsrRead
    [] OTHER -> AluResult

\* (bug: hardware skips the ecall itself, as software is to do)
NewCsrsSkipEcall ==
  CASE D.op = "ecall" -> [csrs EXCEPT !["mepc"] = Plus4(pc), !["mcause"] = EcallCause]
    [] D.op \in {"csrrw", "csrrs"} /\ D.csr # "none" -> [csrs EXCEPT ![D.csr] = CsrWrite]
    [] OTHER -> csrs
NewCsrs ==
  CASE D.op = "ecall" -> [csrs EXCEPT !["mepc"] = pc, !["mcause"] = EcallCause]
    [] D.op \in {"csrrw", "csrrs"} /\ D.csr # "none" -> [csrs EXCEPT ![D.csr] = CsrWrite]
    [] OTHER -> csrs

\* (bug: gated by if_valid instead of retiring)
HartTickEarly(lsuValid, word) ==
  IF IfuValid
  THEN /\ regs' = IF WritesRd THEN [regs EXCEPT ![D.rd] = WriteBack(word)] ELSE regs
       /\ csrs' = NewCsrs
       /\ halted' = (halted \/ D.op = "ebreak")
  ELSE UNCHANGED hartVars
\* Register file, CSRs and the ebreak trap change on the retiring edge only.
HartTick(lsuValid, word) ==
  IF Retiring(lsuValid)
  THEN /\ regs' = IF WritesRd THEN [regs EXCEPT ![D.rd] = WriteBack(word)] ELSE regs
       /\ csrs' = NewCsrs
       /\ halted' = (halted \/ D.op = "ebreak")
  ELSE UNCHANGED hartVars
=============================================================================
