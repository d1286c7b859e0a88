------------------------------- MODULE Clint -------------------------------
(***************************************************************************)
(* The read-only timer slave, vsrc/clint.v: mtime counts clock cycles, and *)
(* a read returns the half of it that the address selects, captured at the *)
(* edge that accepts the address.                                          *)
(***************************************************************************)
EXTENDS NpcArch

VARIABLES clintBusy, clintWord, mtime

clintVars == <<clintBusy, clintWord, mtime>>

ClintType == clintBusy \in BOOLEAN /\ clintWord \in Word /\ mtime \in Time

ClintInit == clintBusy = FALSE /\ clintWord = Zero /\ mtime = 0

ClintAccept(arvalid, a) ==
  /\ arvalid /\ ~clintBusy
  /\ clintBusy' = TRUE
  /\ clintWord' = TimeWord(a, mtime)

ClintDeliver(rready) ==
  /\ clintBusy /\ rready
  /\ clintBusy' = FALSE
  /\ UNCHANGED clintWord

ClintHold(arvalid, rready) ==
  /\ ~(arvalid /\ ~clintBusy) /\ ~(clintBusy /\ rready)
  /\ UNCHANGED <<clintBusy, clintWord>>

ClintTick(arvalid, a, rready) ==
  /\ mtime' = (mtime + 1) % TimeMod
  /\ \/ ClintAccept(arvalid, a)
     \/ ClintDeliver(rready)
     \/ ClintHold(arvalid, rready)
=============================================================================
