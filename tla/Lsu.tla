------------------------------- MODULE Lsu ---------------------------------
(***************************************************************************)
(* The load/store unit, vsrc/lsu.v: an AXI4-Lite read-write master.  Its   *)
(* address and write data are the live outputs of the ALU and of the       *)
(* register file, so they are not state of this module.                    *)
(***************************************************************************)
EXTENDS NpcArch

VARIABLES lsuState, lsuAr, lsuR, lsuAw, lsuB, loaded

lsuVars == <<lsuState, lsuAr, lsuR, lsuAw, lsuB, loaded>>

LsuType ==
  /\ lsuState \in {"IDLE", "AR", "R", "AWW", "B", "DONE"}
  /\ {lsuAr, lsuR, lsuAw, lsuB} \subseteq Delay
  /\ loaded \in Word

LsuInit ==
  /\ lsuState = "IDLE"
  /\ lsuAr = NoDelay /\ lsuR = NoDelay /\ lsuAw = NoDelay /\ lsuB = NoDelay
  /\ loaded = Zero

LsuValid   == lsuState = "DONE"
LsuArValid == Offered(lsuState = "AR", lsuAr)
LsuRReady  == Offered(lsuState = "R", lsuR)
LsuAwValid == Offered(lsuState = "AWW", lsuAw)   \* awvalid and wvalid together
LsuBReady  == Offered(lsuState = "B", lsuB)

\* ren wins over wen; with neither the unit stays idle.
LsuStart(ren, wen) ==
  /\ lsuState = "IDLE" /\ (ren \/ wen)
  /\ lsuState' = IF ren THEN "AR" ELSE "AWW"
  /\ UNCHANGED loaded

LsuSendRead(arready) ==
  /\ LsuArValid /\ arready
  /\ lsuState' = "R"
  /\ UNCHANGED loaded

LsuReceive(rvalid, rdata) ==
  /\ LsuRReady /\ rvalid
  /\ lsuState' = "DONE"
  /\ loaded' = rdata

LsuSendWrite(awready) ==
  /\ LsuAwValid /\ awready
  /\ lsuState' = "B"
  /\ UNCHANGED loaded

LsuResponse(bvalid) ==
  /\ LsuBReady /\ bvalid
  /\ lsuState' = "DONE"
  /\ UNCHANGED loaded

\* S_DONE lasts one cycle.
LsuFinish ==
  /\ LsuValid
  /\ lsuState' = "IDLE"
  /\ UNCHANGED loaded

LsuHold(ren, wen, arready, rvalid, awready, bvalid) ==
  /\ lsuState = "IDLE" => ~(ren \/ wen)
  /\ ~(LsuArValid /\ arready) /\ ~(LsuRReady /\ rvalid)
  /\ ~(LsuAwValid /\ awready) /\ ~(LsuBReady /\ bvalid)
  /\ ~LsuValid
  /\ UNCHANGED <<lsuState, loaded>>

LsuTick(ren, wen, arready, rvalid, rdata, awready, bvalid) ==
  /\ lsuAr' \in DelayNext(lsuState = "AR", lsuAr)
  /\ lsuR' \in DelayNext(lsuState = "R", lsuR)
  /\ lsuAw' \in DelayNext(lsuState = "AWW", lsuAw)
  /\ lsuB' \in DelayNext(lsuState = "B", lsuB)
  /\ \/ LsuStart(ren, wen)
     \/ LsuSendRead(arready)
     \/ LsuReceive(rvalid, rdata)
     \/ LsuSendWrite(awready)
     \/ LsuResponse(bvalid)
     \/ LsuFinish
     \/ LsuHold(ren, wen, arready, rvalid, awready, bvalid)
=============================================================================
