------------------------------- MODULE Ifu ---------------------------------
(***************************************************************************)
(* The instruction fetch unit, vsrc/ifu.v: an AXI4-Lite read master with   *)
(* the three states S_AR, S_R and S_EXEC, which owns pc and inst.          *)
(***************************************************************************)
EXTENDS NpcArch

VARIABLES ifuState, ifuAr, ifuR, pc, inst

ifuVars == <<ifuState, ifuAr, ifuR, pc, inst>>

IfuType ==
  /\ ifuState \in {"AR", "R", "EXEC"}
  /\ ifuAr \in Delay /\ ifuR \in Delay
  /\ pc \in Word /\ inst \in Word

IfuInit ==
  /\ ifuState = "AR"
  /\ ifuAr = NoDelay /\ ifuR = NoDelay
  /\ pc = ResetPc /\ inst = Nop

IfuValid   == ifuState = "EXEC"
IfuArValid == Offered(ifuState = "AR", ifuAr)
IfuRReady  == Offered(ifuState = "R", ifuR)

\* The address is accepted.
IfuSend(arready) ==
  /\ IfuArValid /\ arready
  /\ ifuState' = "R"
  /\ UNCHANGED <<pc, inst>>

\* The instruction word arrives.
IfuReceive(rvalid, rdata) ==
  /\ IfuRReady /\ rvalid
  /\ ifuState' = "EXEC"
  /\ inst' = rdata
  /\ UNCHANGED pc

\* The instruction leaves S_EXEC and pc advances.
IfuAdvance(execDone, nextPc) ==
  /\ IfuValid /\ execDone
  /\ ifuState' = "AR"
  /\ pc' = nextPc
  /\ UNCHANGED inst

IfuHold(arready, rvalid, execDone) ==
  /\ ~(IfuArValid /\ arready)
  /\ ~(IfuRReady /\ rvalid)
  /\ ~(IfuValid /\ execDone)
  /\ UNCHANGED <<ifuState, pc, inst>>

\* One clock edge.
IfuTick(arready, rvalid, rdata, execDone, nextPc) ==
  /\ ifuAr' \in DelayNext(ifuState = "AR", ifuAr)
  /\ ifuR' \in DelayNext(ifuState = "R", ifuR)
  /\ \/ IfuSend(arready)
     \/ IfuReceive(rvalid, rdata)
     \/ IfuAdvance(execDone, nextPc)
     \/ IfuHold(arready, rvalid, execDone)
=============================================================================
