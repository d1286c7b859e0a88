------------------------------ MODULE AxiMem -------------------------------
(***************************************************************************)
(* The shared memory slave, vsrc/axi_mem.v, over the pmem array the C++    *)
(* harness keeps (pmem_read and pmem_write in csrc/main.cpp).  The read    *)
(* and the write side are independent two-state machines; each answers     *)
(* after a random delay.                                                   *)
(***************************************************************************)
EXTENDS NpcArch

VARIABLES memReading, memRWait, memWord,   \* read side
          memWriting, memWWait,            \* write side
          mem                              \* pmem[]

memReadVars == <<memReading, memRWait, memWord>>
memWriteVars == <<memWriting, memWWait, mem>>

AxiMemType ==
  /\ memReading \in BOOLEAN /\ memRWait \in 0 .. MaxWait /\ memWord \in Word
  /\ memWriting \in BOOLEAN /\ memWWait \in 0 .. MaxWait
  /\ mem \in [Ram -> Word]

AxiMemInit(image) ==
  /\ memReading = FALSE /\ memRWait = 0 /\ memWord = Zero
  /\ memWriting = FALSE /\ memWWait = 0
  /\ mem = image

MemRValid == memReading /\ memRWait = 0
MemBValid == memWriting /\ memWWait = 0

\* What the DPI-C function returns in this cycle; `key` is what it takes off
\* the key queue when the address is KBD.  An address outside pmem reads as 0.
PmemRead(a, key) ==
  IF a = KBD THEN key
  ELSE IF Align(a) \in Ram THEN mem[Align(a)] ELSE Zero

MemAccept(arvalid, a, key) ==
  /\ arvalid /\ ~memReading
  /\ memReading' = TRUE
  /\ memRWait' \in 0 .. MaxWait
  /\ memWord' = PmemRead(a, key)

MemDeliver(rready) ==
  /\ MemRValid /\ rready
  /\ memReading' = FALSE
  /\ UNCHANGED <<memRWait, memWord>>

MemReadHold(arvalid, rready) ==
  /\ ~(arvalid /\ ~memReading) /\ ~(MemRValid /\ rready)
  /\ memRWait' = CountDown(memRWait)
  /\ UNCHANGED <<memReading, memWord>>

MemReadTick(arvalid, a, key, rready) ==
  \/ MemAccept(arvalid, a, key)
  \/ MemDeliver(rready)
  \/ MemReadHold(arvalid, rready)

\* pmem_write runs once, on the edge that accepts the request; a write
\* outside pmem is dropped.
MemWrite(awvalid, w, a, data) ==
  /\ awvalid /\ ~memWriting
  /\ memWriting' = TRUE
  /\ memWWait' \in 0 .. MaxWait
  /\ mem' = IF Align(a) \in Ram
            THEN [mem EXCEPT ![Align(a)] = StoreMerge(w, a, @, data)]
            ELSE mem

MemRespond(bready) ==
  /\ MemBValid /\ bready
  /\ memWriting' = FALSE
  /\ UNCHANGED <<memWWait, mem>>

MemWriteHold(awvalid, bready) ==
  /\ ~(awvalid /\ ~memWriting) /\ ~(MemBValid /\ bready)
  /\ memWWait' = CountDown(memWWait)
  /\ UNCHANGED <<memWriting, mem>>

MemWriteTick(awvalid, w, a, data, bready) ==
  \/ MemWrite(awvalid, w, a, data)
  \/ MemRespond(bready)
  \/ MemWriteHold(awvalid, bready)
=============================================================================
