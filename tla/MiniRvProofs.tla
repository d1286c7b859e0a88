--------------------------- MODULE MiniRvProofs ----------------------------
(***************************************************************************)
(* Theorems about the core of MiniRv, for every datapath, memory map,      *)
(* program and bound that satisfies the assumptions of NpcArch.            *)
(***************************************************************************)
EXTENDS MiniRv, TLAPS

LEMMA DelayType ==
  /\ NoDelay \in Delay
  /\ \A in \in BOOLEAN, d \in Delay : DelayNext(in, d) \subseteq Delay
  /\ \A n \in 0 .. MaxWait : CountDown(n) \in 0 .. MaxWait
  BY BoundAssumption DEF NoDelay, Delay, DelayNext, CountDown

LEMMA HartValues ==
  ASSUME IfuType, HartType
  PROVE  /\ D \in Fields
         /\ Rs1Val \in Word /\ Rs2Val \in Word /\ AluResult \in Word
         /\ NextPc \in Word
         /\ \A w \in Word : WriteBack(w) \in Word
         /\ NewCsrs \in [Csr -> Word]
<1>1. D \in Fields
  BY DatapathAssumption DEF D, IfuType
<1>2. \A r \in Reg : RegVal(r) \in Word
  BY WordAssumption DEF RegVal, HartType
<1>3. Rs1Val \in Word /\ Rs2Val \in Word
  BY <1>1, <1>2 DEF Rs1Val, Rs2Val, Fields
<1>4. AluResult \in Word
  BY <1>3, DatapathAssumption DEF AluResult, IfuType
<1>5. CsrRead \in Word /\ CsrWrite \in Word
  BY <1>1, <1>3, DatapathAssumption, WordAssumption
  DEF CsrRead, CsrWrite, Fields, HartType, Csr
<1>6. NextPc \in Word
  BY <1>3, DatapathAssumption DEF NextPc, IfuType, HartType, Csr
<1>7. \A w \in Word : WriteBack(w) \in Word
  BY <1>4, <1>5, DatapathAssumption DEF WriteBack, IfuType
<1>8. NewCsrs \in [Csr -> Word]
  BY <1>1, <1>5, WordAssumption DEF NewCsrs, IfuType, HartType, Fields, Csr
<1> QED BY <1>1, <1>3, <1>4, <1>6, <1>7, <1>8

\* Every register of the core always holds a value of its type.
THEOREM TypeCorrect == Spec => []TypeOK
<1>1. Init => TypeOK
  <2> SUFFICES ASSUME Init PROVE TypeOK
    OBVIOUS
  <2>1. IfuType /\ LsuType
    BY WordAssumption, DelayType DEF Init, IfuInit, IfuType, LsuInit, LsuType
  <2>2. HartType
    BY WordAssumption DEF Init, HartInit, HartType
  <2>3. AxiMemType
    <3>1. PICK image \in Images : AxiMemInit(image)
      BY DEF Init
    <3>2. image \in [Ram -> Word] /\ 0 \in 0 .. MaxWait /\ Zero \in Word
      BY WordAssumption, BoundAssumption, ImagesAssumption
    <3> QED BY <3>1, <3>2 DEF AxiMemInit, AxiMemType
  <2>4. UartType
    <3>1. UartInit /\ <<>> \in Seq(Word)
      BY DEF Init
    <3> QED BY <3>1 DEF UartInit, UartType
  <2>5. ClintType
    <3>1. 0 \in Time /\ Zero \in Word
      BY WordAssumption, BoundAssumption DEF Time
    <3> QED BY <3>1 DEF Init, ClintInit, ClintType
  <2> QED BY <2>1, <2>2, <2>3, <2>4, <2>5 DEF Init, TypeOK
<1>2. TypeOK /\ [Next]_vars => TypeOK'
  <2> SUFFICES ASSUME TypeOK, [Next]_vars PROVE TypeOK'
    OBVIOUS
  <2>1. CASE UNCHANGED vars
    BY <2>1 DEF vars, ifuVars, hartVars, lsuVars, memReadVars, memWriteVars,
      uartVars, clintVars, TypeOK, IfuType, HartType, LsuType, AxiMemType,
      UartType, ClintType
  <2>2. ASSUME NEW key \in Key, Clock(key) PROVE TypeOK'
    <3>1. SRData \in Word /\ SArAddr \in Word /\ PmemRead(SArAddr, key) \in Word
      BY HartValues, WordAssumption, DatapathAssumption
      DEF TypeOK, SRData, SArAddr, PmemRead, ClintType, AxiMemType, IfuType
    <3>2. IfuType'
      BY <2>2, <3>1, HartValues, DelayType
      DEF Clock, TypeOK, IfuType, IfuTick, IfuSend, IfuReceive, IfuAdvance, IfuHold
    <3>3. HartType'
      BY <2>2, HartValues
      DEF Clock, TypeOK, HartType, LsuType, HartTick, Fields, hartVars
    <3>4. LsuType'
      BY <2>2, <3>1, DelayType
      DEF Clock, TypeOK, LsuType, LsuTick, LsuStart, LsuSendRead, LsuReceive,
          LsuSendWrite, LsuResponse, LsuFinish, LsuHold
    <3>5. AxiMemType'
      <4>1. (memReading \in BOOLEAN /\ memRWait \in 0 .. MaxWait /\ memWord \in Word)'
        BY <2>2, <3>1, DelayType
        DEF Clock, TypeOK, AxiMemType, MemReadTick, MemAccept, MemDeliver, MemReadHold
      <4>2. (memWriting \in BOOLEAN /\ memWWait \in 0 .. MaxWait)'
        BY <2>2, DelayType
        DEF Clock, TypeOK, AxiMemType, MemWriteTick, MemWrite, MemRespond, MemWriteHold
      <4>3. mem' \in [Ram -> Word]
        <5>1. \A v \in Word : StoreMerge(inst, AluResult, v, Rs2Val) \in Word
          BY HartValues, DatapathAssumption DEF TypeOK, IfuType
        <5> QED
          BY <2>2, <5>1
          DEF Clock, TypeOK, AxiMemType, MemWriteTick, MemWrite, MemRespond, MemWriteHold
      <4> QED BY <4>1, <4>2, <4>3 DEF AxiMemType
    <3>6. UartType'
      <4>1. Rs2Val \in Word
        BY HartValues DEF TypeOK
      <4>2. UartTick(LsuAwValid /\ SelUart, Rs2Val, LsuBReady /\ SelUart)
        BY <2>2 DEF Clock
      <4>3. uartBusy \in BOOLEAN /\ uartOut \in Seq(Word)
        BY DEF TypeOK, UartType
      <4>4. CASE UartPrint(LsuAwValid /\ SelUart, Rs2Val)
        BY <4>1, <4>3, <4>4 DEF UartType, UartPrint
      <4>5. CASE UartRespond(LsuBReady /\ SelUart)
        BY <4>3, <4>5 DEF UartType, UartRespond
      <4>6. CASE UartHold(LsuAwValid /\ SelUart, LsuBReady /\ SelUart)
        BY <4>3, <4>6 DEF UartType, UartHold, uartVars
      <4> QED BY <4>2, <4>4, <4>5, <4>6 DEF UartTick
    <3>7. ClintType'
      <4>1. mtime' \in Time
        BY <2>2, BoundAssumption DEF Clock, TypeOK, ClintType, ClintTick, Time
      <4>2. (clintBusy \in BOOLEAN /\ clintWord \in Word)'
        BY <2>2, DatapathAssumption
        DEF Clock, TypeOK, ClintType, ClintTick, ClintAccept, ClintDeliver,
            ClintHold, SelClint
      <4> QED BY <4>1, <4>2 DEF ClintType
    <3>8. (owner \in {"IFU", "LSU"})'
      BY <2>2 DEF Clock, TypeOK, ArbiterTick
    <3> QED BY <3>2, <3>3, <3>4, <3>5, <3>6, <3>7, <3>8 DEF TypeOK
  <2> QED BY <2>1, <2>2 DEF Next
<1> QED BY <1>1, <1>2, PTL DEF Spec

-----------------------------------------------------------------------------
\* What one clock edge does to the two masters, state by state.

LEMMA HartHolds ==
  ASSUME NEW key \in Key, Clock(key), ~Retiring(LsuValid)
  PROVE  UNCHANGED hartVars
  BY DEF Clock, HartTick

LEMMA IfuMoves ==
  ASSUME NEW key \in Key, Clock(key), IfuType
  PROVE  /\ ifuState = "AR" =>
              /\ ifuState' = IF IfuArValid /\ SArReady THEN "R" ELSE "AR"
              /\ UNCHANGED <<pc, inst>>
         /\ ifuState = "R" =>
              /\ ifuState' = IF IfuRReady /\ SRValid /\ owner = "IFU" THEN "EXEC" ELSE "R"
              /\ UNCHANGED pc
              /\ ifuState' = "R" => UNCHANGED inst
         /\ ifuState = "EXEC" /\ ExecDone(LsuValid) => ifuState' = "AR"
         /\ ifuState = "EXEC" /\ ~ExecDone(LsuValid) => UNCHANGED <<ifuState, pc, inst>>
         /\ UNCHANGED inst \/ ifuState = "R"
  BY DEF Clock, IfuType, IfuTick, IfuSend, IfuReceive, IfuAdvance, IfuHold,
         IfuValid, IfuArValid, IfuRReady, Offered, GrantIfu

LEMMA LsuMoves ==
  ASSUME NEW key \in Key, Clock(key), LsuType
  PROVE  /\ lsuState = "IDLE" =>
              lsuState' = IF LsuRen THEN "AR" ELSE IF LsuWen THEN "AWW" ELSE "IDLE"
         /\ lsuState = "AR" =>
              lsuState' = IF LsuArValid /\ SArReady /\ GrantLsu THEN "R" ELSE "AR"
         /\ lsuState = "R" =>
              lsuState' = IF LsuRReady /\ SRValid /\ owner = "LSU" THEN "DONE" ELSE "R"
         /\ lsuState = "AWW" =>
              lsuState' = IF LsuAwValid /\ SAwReady THEN "B" ELSE "AWW"
         /\ lsuState = "B" =>
              lsuState' = IF LsuBReady /\ SBValid THEN "DONE" ELSE "B"
         /\ lsuState = "DONE" => lsuState' = "IDLE"
<1>1. LsuTick(LsuRen, LsuWen, SArReady /\ GrantLsu, SRValid /\ owner = "LSU",
              SRData, SAwReady, SBValid)
  BY DEF Clock
<1> QED
  BY <1>1 DEF LsuType, LsuTick, LsuStart, LsuSendRead, LsuReceive, LsuSendWrite,
     LsuResponse, LsuFinish, LsuHold, LsuValid, LsuArValid, LsuRReady, LsuAwValid,
     LsuBReady, Offered

\* While the load/store unit works, the instruction and its operands stay.
LEMMA OperandsHold ==
  ASSUME NEW key \in Key, Clock(key), IfuType, ~Retiring(LsuValid), ifuState # "R"
  PROVE  UNCHANGED <<D, Rs1Val, Rs2Val, AluResult, SelUart, pc, inst>>
<1>1. UNCHANGED <<pc, inst, regs>>
  BY IfuMoves, HartHolds DEF IfuType, Retiring, IfuValid, hartVars
<1> QED
  BY <1>1 DEF D, Rs1Val, Rs2Val, RegVal, AluResult, SelUart

\* A busy load/store unit that is not done keeps the instruction from retiring.
LEMMA LsuStalls ==
  ASSUME LsuServesExec, lsuState # "IDLE", lsuState # "DONE"
  PROVE  ~Retiring(LsuValid) /\ IfuValid
  BY DEF LsuServesExec, Retiring, ExecDone, LsuRen, LsuWen, LsuValid, IfuValid

LEMMA LsuServesExecStep ==
  ASSUME NEW key \in Key, Clock(key), TypeOK, LsuServesExec
  PROVE  LsuServesExec'
<1> USE DEF TypeOK
<1>1. CASE lsuState = "IDLE" /\ ~LsuRen /\ ~LsuWen
  <2>1. lsuState' = "IDLE"
    BY <1>1, LsuMoves
  <2> QED BY <2>1 DEF LsuServesExec
<1>2. CASE lsuState = "IDLE" /\ (LsuRen \/ LsuWen)
  <2>1. ~Retiring(LsuValid) /\ ifuState = "EXEC" /\ D.op \in {"load", "store"}
    BY <1>2 DEF Retiring, ExecDone, LsuRen, LsuWen, LsuValid, IfuValid
  <2>2. D' = D /\ ifuState' = "EXEC"
    BY <2>1, OperandsHold, IfuMoves DEF Retiring, IfuValid
  <2>3. lsuState' = IF D.op = "load" THEN "AR" ELSE "AWW"
    BY <1>2, <2>1, LsuMoves DEF LsuRen, LsuWen, IfuValid
  <2> QED BY <2>1, <2>2, <2>3 DEF LsuServesExec, IfuValid
<1>3. CASE lsuState = "DONE"
  <2>1. lsuState' = "IDLE"
    BY <1>3, LsuMoves
  <2> QED BY <2>1 DEF LsuServesExec
<1>4. CASE lsuState \in {"AR", "R", "AWW", "B"}
  <2>1. ~Retiring(LsuValid) /\ ifuState = "EXEC"
    BY <1>4, LsuStalls DEF IfuValid
  <2>2. D' = D /\ ifuState' = "EXEC"
    BY <2>1, OperandsHold, IfuMoves DEF Retiring, IfuValid
  <2>3. \/ lsuState' \in {lsuState, "DONE"}
        \/ lsuState = "AR" /\ lsuState' = "R"
        \/ lsuState = "AWW" /\ lsuState' = "B"
    BY <1>4, LsuMoves
  <2> QED BY <1>4, <2>1, <2>2, <2>3 DEF LsuServesExec, IfuValid
<1> QED BY <1>1, <1>2, <1>3, <1>4 DEF LsuType

\* What one clock edge does to the slaves and to the arbiter's owner.

LEMMA ReadSideMoves ==
  ASSUME NEW key \in Key, Clock(key), AxiMemType, ClintType
  PROVE  /\ memReading' = IF memReading THEN ~(MemRValid /\ SRReady /\ ~SelClint)
                                        ELSE SArValid /\ ~SelClint
         /\ clintBusy' = IF clintBusy THEN ~(SRReady /\ SelClint)
                                      ELSE SArValid /\ SelClint
         /\ SArHandshake => owner' = IF GrantLsu THEN "LSU" ELSE "IFU"
         /\ ~SArHandshake => owner' = owner
<1>1. MemReadTick(SArValid /\ ~SelClint, SArAddr, key, SRReady /\ ~SelClint)
  BY DEF Clock
<1>2. ClintTick(SArValid /\ SelClint, SArAddr, SRReady /\ SelClint)
  BY DEF Clock
<1>3. memReading' = IF memReading THEN ~(MemRValid /\ SRReady /\ ~SelClint)
                                  ELSE SArValid /\ ~SelClint
  BY <1>1 DEF AxiMemType, MemReadTick, MemAccept, MemDeliver, MemReadHold, MemRValid,
     SArValid, GrantIfu, GrantLsu, IfuArValid, LsuArValid, Offered, SelClint
<1>4. clintBusy' = IF clintBusy THEN ~(SRReady /\ SelClint) ELSE SArValid /\ SelClint
  BY <1>2 DEF ClintType, ClintTick, ClintAccept, ClintDeliver, ClintHold,
     SArValid, GrantIfu, GrantLsu, IfuArValid, LsuArValid, Offered, SelClint
<1> QED BY <1>3, <1>4 DEF Clock, ArbiterTick

LEMMA WriteSideMoves ==
  ASSUME NEW key \in Key, Clock(key), AxiMemType, UartType
  PROVE  /\ memWriting' = IF memWriting THEN ~(MemBValid /\ LsuBReady /\ ~SelUart)
                                        ELSE LsuAwValid /\ ~SelUart
         /\ uartBusy' = IF uartBusy THEN ~(LsuBReady /\ SelUart)
                                    ELSE LsuAwValid /\ SelUart
<1>1. MemWriteTick(LsuAwValid /\ ~SelUart, inst, AluResult, Rs2Val, LsuBReady /\ ~SelUart)
  BY DEF Clock
<1>2. UartTick(LsuAwValid /\ SelUart, Rs2Val, LsuBReady /\ SelUart)
  BY DEF Clock
<1>3. memWriting' = IF memWriting THEN ~(MemBValid /\ LsuBReady /\ ~SelUart)
                                  ELSE LsuAwValid /\ ~SelUart
  BY <1>1 DEF AxiMemType, MemWriteTick, MemWrite, MemRespond, MemWriteHold, MemBValid,
     LsuAwValid, LsuBReady, Offered, SelUart
<1>4. uartBusy' = IF uartBusy THEN ~(LsuBReady /\ SelUart) ELSE LsuAwValid /\ SelUart
  BY <1>2 DEF UartType, UartTick, UartPrint, UartRespond, UartHold, uartVars,
     LsuAwValid, LsuBReady, Offered, SelUart
<1> QED BY <1>3, <1>4

LEMMA OneReadStep ==
  ASSUME NEW key \in Key, Clock(key), TypeOK, LsuServesExec, OneReadOutstanding
  PROVE  OneReadOutstanding'
<1> USE DEF TypeOK
<1>1. CASE ifuState = "AR"
  <2>1. lsuState = "IDLE" /\ lsuState' = "IDLE" /\ ~GrantLsu /\ ~memReading /\ ~clintBusy
    BY <1>1, LsuMoves
    DEF LsuServesExec, OneReadOutstanding, LsuRen, LsuWen, IfuValid, GrantLsu,
        LsuArValid, Offered
  <2>2. CASE IfuArValid
    <3>1. SArValid /\ SArReady /\ SArHandshake
      BY <2>1, <2>2 DEF SArValid, SArReady, SArHandshake, GrantIfu
    <3>2. ifuState' = "R" /\ owner' = "IFU"
      BY <1>1, <2>1, <2>2, <3>1, IfuMoves, ReadSideMoves
    <3>3. memReading' = ~SelClint /\ clintBusy' = SelClint
      BY <2>1, <3>1, ReadSideMoves DEF SelClint
    <3> QED BY <2>1, <3>2, <3>3 DEF OneReadOutstanding, SelClint
  <2>3. CASE ~IfuArValid
    <3>1. ~SArValid
      BY <2>1, <2>3 DEF SArValid, GrantIfu
    <3>2. ifuState' = "AR" /\ ~memReading' /\ ~clintBusy'
      BY <1>1, <2>1, <2>3, <3>1, IfuMoves, ReadSideMoves
    <3> QED BY <2>1, <3>2 DEF OneReadOutstanding
  <2> QED BY <2>2, <2>3
<1>2. CASE ifuState = "R"
  <2>1. /\ lsuState = "IDLE" /\ lsuState' = "IDLE"
        /\ owner = "IFU" /\ ~SArValid /\ SRReady = IfuRReady
    BY <1>2, LsuMoves
    DEF LsuServesExec, OneReadOutstanding, LsuRen, LsuWen, IfuValid, SArValid,
        GrantIfu, GrantLsu, IfuArValid, LsuArValid, Offered, SRReady
  <2>2. owner' = "IFU"
    BY <2>1, ReadSideMoves DEF SArHandshake
  <2>3. CASE IfuRReady /\ SRValid
    <3>1. ifuState' = "EXEC" /\ ~memReading' /\ ~clintBusy'
      BY <1>2, <2>1, <2>3, IfuMoves, ReadSideMoves
      DEF OneReadOutstanding, SRValid, MemRValid
    <3> QED BY <2>1, <3>1 DEF OneReadOutstanding
  <2>4. CASE ~(IfuRReady /\ SRValid)
    <3>1. ifuState' = "R"
      BY <1>2, <2>4, IfuMoves
    <3>2. memReading' = memReading /\ clintBusy' = clintBusy
      BY <2>1, <2>4, ReadSideMoves DEF SRValid, AxiMemType, ClintType
    <3> QED BY <1>2, <2>1, <2>2, <3>1, <3>2 DEF OneReadOutstanding
  <2> QED BY <2>3, <2>4
<1>3. CASE ifuState = "EXEC" /\ lsuState \in {"IDLE", "AWW", "B", "DONE"}
  <2>1. ~SArValid /\ ~memReading /\ ~clintBusy
    BY <1>3 DEF OneReadOutstanding, SArValid, GrantIfu, GrantLsu, IfuArValid,
       LsuArValid, Offered
  <2>2. ~memReading' /\ ~clintBusy'
    BY <2>1, ReadSideMoves
  <2>3. ifuState' # "R" /\ lsuState' # "R"
    BY <1>3, IfuMoves, LsuMoves
  <2> QED BY <2>2, <2>3 DEF OneReadOutstanding
<1>4. CASE ifuState = "EXEC" /\ lsuState = "AR"
  <2>1. /\ ifuState' = "EXEC" /\ ~memReading /\ ~clintBusy /\ ~GrantIfu
        /\ SArValid = LsuArValid /\ GrantLsu = LsuArValid
    BY <1>4, LsuStalls, IfuMoves
    DEF OneReadOutstanding, Retiring, IfuValid, GrantIfu, GrantLsu, SArValid,
        IfuArValid, LsuArValid, Offered
  <2>2. SArReady
    BY <2>1 DEF SArReady
  <2>3. CASE LsuArValid
    <3>1. lsuState' = "R" /\ owner' = "LSU"
      BY <1>4, <2>1, <2>2, <2>3, LsuMoves, ReadSideMoves DEF SArHandshake
    <3>2. memReading' = ~SelClint /\ clintBusy' = SelClint
      BY <2>1, <2>3, ReadSideMoves DEF SelClint
    <3> QED BY <2>1, <3>1, <3>2 DEF OneReadOutstanding, SelClint
  <2>4. CASE ~LsuArValid
    <3>1. lsuState' = "AR" /\ ~memReading' /\ ~clintBusy'
      BY <1>4, <2>1, <2>4, LsuMoves, ReadSideMoves
    <3> QED BY <2>1, <3>1 DEF OneReadOutstanding
  <2> QED BY <2>3, <2>4
<1>5. CASE ifuState = "EXEC" /\ lsuState = "R"
  <2>1. /\ ifuState' = "EXEC" /\ owner = "LSU" /\ ~SArValid /\ SRReady = LsuRReady
    BY <1>5, LsuStalls, IfuMoves
    DEF OneReadOutstanding, Retiring, IfuValid, GrantIfu, GrantLsu, SArValid,
        IfuArValid, LsuArValid, Offered, SRReady
  <2>2. owner' = "LSU"
    BY <2>1, ReadSideMoves DEF SArHandshake
  <2>3. CASE LsuRReady /\ SRValid
    <3>1. lsuState' = "DONE" /\ ~memReading' /\ ~clintBusy'
      BY <1>5, <2>1, <2>3, LsuMoves, ReadSideMoves
      DEF OneReadOutstanding, SRValid, MemRValid
    <3> QED BY <2>1, <3>1 DEF OneReadOutstanding
  <2>4. CASE ~(LsuRReady /\ SRValid)
    <3>1. lsuState' = "R"
      BY <1>5, <2>4, LsuMoves
    <3>2. memReading' = memReading /\ clintBusy' = clintBusy
      BY <2>1, <2>4, ReadSideMoves DEF SRValid, AxiMemType, ClintType
    <3> QED BY <1>5, <2>1, <2>2, <3>1, <3>2 DEF OneReadOutstanding
  <2> QED BY <2>3, <2>4
<1> QED BY <1>1, <1>2, <1>3, <1>4, <1>5 DEF IfuType, LsuType

LEMMA WriteRoutedStep ==
  ASSUME NEW key \in Key, Clock(key), TypeOK, LsuServesExec, WriteStaysRouted
  PROVE  WriteStaysRouted'
<1> USE DEF TypeOK
<1>1. CASE lsuState \notin {"AWW", "B"}
  <2>1. lsuState' # "B" /\ ~memWriting' /\ ~uartBusy'
    BY <1>1, LsuMoves, WriteSideMoves
    DEF LsuType, WriteStaysRouted, LsuAwValid, Offered
  <2> QED BY <2>1 DEF WriteStaysRouted
<1>2. CASE lsuState = "AWW"
  <2>1. ~memWriting /\ ~uartBusy /\ SAwReady /\ SelUart' = SelUart
    BY <1>2, LsuStalls, OperandsHold DEF WriteStaysRouted, SAwReady, IfuValid
  <2>2. lsuState' = IF LsuAwValid THEN "B" ELSE "AWW"
    BY <1>2, <2>1, LsuMoves
  <2>3. memWriting' = (LsuAwValid /\ ~SelUart) /\ uartBusy' = (LsuAwValid /\ SelUart)
    BY <2>1, WriteSideMoves
  <2> QED BY <2>1, <2>2, <2>3 DEF WriteStaysRouted, LsuAwValid, Offered, SelUart
<1>3. CASE lsuState = "B"
  <2>1. SelUart' = SelUart /\ ~LsuAwValid
    BY <1>3, LsuStalls, OperandsHold DEF IfuValid, LsuAwValid, Offered
  <2>2. CASE LsuBReady /\ SBValid
    <3>1. ~memWriting' /\ ~uartBusy'
      BY <2>1, <2>2, WriteSideMoves DEF WriteStaysRouted, SBValid, MemBValid
    <3>2. lsuState' = "DONE"
      BY <1>3, <2>2, LsuMoves
    <3> QED BY <3>1, <3>2 DEF WriteStaysRouted
  <2>3. CASE ~(LsuBReady /\ SBValid)
    <3>1. memWriting' = memWriting /\ uartBusy' = uartBusy
      BY <1>3, <2>1, <2>3, WriteSideMoves
      DEF WriteStaysRouted, SBValid, AxiMemType, UartType
    <3>2. lsuState' = "B"
      BY <1>3, <2>3, LsuMoves
    <3> QED BY <1>3, <2>1, <3>1, <3>2 DEF WriteStaysRouted
  <2> QED BY <2>2, <2>3
<1> QED BY <1>1, <1>2, <1>3

-----------------------------------------------------------------------------
LEMMA BusStep ==
  ASSUME BusInv, TypeOK', [Next]_vars
  PROVE  BusInv'
<1>1. CASE UNCHANGED vars
  BY <1>1 DEF vars, ifuVars, hartVars, lsuVars, memReadVars, memWriteVars, uartVars,
     clintVars, BusInv, LsuServesExec, OneReadOutstanding, WriteStaysRouted,
     IfuValid, D, SelUart, AluResult, Rs1Val, Rs2Val, RegVal
<1>2. ASSUME NEW key \in Key, Clock(key) PROVE BusInv'
  BY <1>2, LsuServesExecStep, OneReadStep, WriteRoutedStep DEF BusInv
<1> QED BY <1>1, <1>2 DEF Next

\* The inductive invariant of the buses holds in every reachable state.
THEOREM BusCorrect == Spec => []BusInv
<1>1. Init /\ TypeOK => BusInv
  BY DEF Init, IfuInit, LsuInit, AxiMemInit, UartInit, ClintInit,
     BusInv, LsuServesExec, OneReadOutstanding, WriteStaysRouted
<1>2. BusInv /\ TypeOK' /\ [Next]_vars => BusInv'
  BY BusStep
<1> QED BY <1>1, <1>2, TypeCorrect, PTL DEF Spec

\* The arbiter never sees both masters ask at once (arbiter.v:50-64), and a
\* request never waits for a slave.
THEOREM ArbiterUncontended == Spec => []NoContention
<1>1. BusInv => NoContention
  <2> SUFFICES ASSUME BusInv PROVE NoContention
    OBVIOUS
  <2>1. IfuArValid => ifuState = "AR" /\ lsuState = "IDLE"
    BY DEF BusInv, LsuServesExec, IfuArValid, Offered, IfuValid
  <2>2. LsuArValid => lsuState = "AR" /\ ifuState = "EXEC"
    BY DEF BusInv, LsuServesExec, LsuArValid, Offered, IfuValid
  <2>3. LsuAwValid => lsuState = "AWW"
    BY DEF LsuAwValid, Offered
  <2>4. SArValid => ~memReading /\ ~clintBusy
    BY <2>1, <2>2 DEF BusInv, OneReadOutstanding, SArValid, GrantIfu, GrantLsu
  <2>5. LsuAwValid => ~memWriting /\ ~uartBusy
    BY <2>3 DEF BusInv, WriteStaysRouted
  <2> QED BY <2>1, <2>2, <2>4, <2>5 DEF NoContention, SArReady, SAwReady
<1> QED BY <1>1, BusCorrect, PTL

\* One read at a time on the two slaves, and r_owner (arbiter.v:79) names the
\* master that waits for it.
THEOREM ReadsAreOwned == Spec => []OneReadOutstanding
<1>1. BusInv => OneReadOutstanding
  BY DEF BusInv
<1> QED BY <1>1, BusCorrect, PTL

\* The response of a write comes from the slave xbar.v:104 still selects.
THEOREM WritesAreRouted == Spec => []WriteStaysRouted
<1>1. BusInv => WriteStaysRouted
  BY DEF BusInv
<1> QED BY <1>1, BusCorrect, PTL

-----------------------------------------------------------------------------
\* No master withdraws or changes a request before it is accepted, and no slave
\* its read data before they are taken, in any step of the core.
THEOREM OffersAreKept == Spec => HandshakeStable
<1>1. BusInv /\ [Next]_vars => [KeepsOffers]_vars
  <2> SUFFICES ASSUME BusInv, NEW key \in Key, Clock(key) PROVE KeepsOffers
    BY DEF Next
  <2> USE DEF BusInv, TypeOK
  <2>1. ASSUME LsuRen \/ LsuWen, ~LsuValid
        PROVE  AluResult' = AluResult /\ Rs2Val' = Rs2Val
    BY <2>1, OperandsHold DEF LsuRen, LsuWen, IfuValid, Retiring, ExecDone
  <2>2. ASSUME lsuState = "B", SBValid, ~LsuBReady PROVE SBValid'
    <3>1. SelUart' = SelUart
      BY <2>2, LsuStalls, OperandsHold DEF IfuValid
    <3>2. MemBValid => MemBValid'
      <4>1. MemWriteTick(LsuAwValid /\ ~SelUart, inst, AluResult, Rs2Val,
                         LsuBReady /\ ~SelUart)
        BY DEF Clock
      <4> QED
        BY <2>2, <4>1
        DEF MemWriteTick, MemWrite, MemRespond, MemWriteHold, MemBValid, CountDown
    <3>3. uartBusy => uartBusy'
      BY <2>2, WriteSideMoves
    <3> QED BY <2>2, <3>1, <3>2, <3>3 DEF SBValid
  <2>3. ASSUME SRValid, ~SRReady PROVE SRValid' /\ SRData' = SRData
    <3>1. ~Retiring(LsuValid) /\ ~GrantIfu /\ (ifuState = "R" \/ lsuState = "R")
      BY <2>3, LsuStalls
      DEF SRValid, MemRValid, OneReadOutstanding, LsuServesExec, Retiring, IfuValid,
          GrantIfu, IfuArValid, Offered
    <3>2. UNCHANGED <<pc, inst, regs>> /\ ~GrantIfu'
      <4>1. regs' = regs
        BY <3>1, HartHolds DEF hartVars
      <4>2. CASE ifuState = "R"
        <5>1. owner = "IFU" /\ ~IfuRReady
          BY <2>3, <4>2 DEF OneReadOutstanding, SRReady
        <5> QED
          BY <4>1, <4>2, <5>1, IfuMoves DEF GrantIfu, IfuArValid, Offered
      <4>3. CASE lsuState = "R"
        <5>1. ifuState = "EXEC" /\ ifuState' = "EXEC"
          BY <4>3, LsuStalls, IfuMoves DEF Retiring, IfuValid
        <5> QED
          BY <3>1, <4>1, <5>1, IfuMoves, OperandsHold DEF GrantIfu, IfuArValid, Offered
      <4> QED BY <3>1, <4>2, <4>3
    <3>3. SArAddr' = SArAddr
      BY <3>1, <3>2 DEF SArAddr, AluResult, Rs1Val, Rs2Val, RegVal, D
    <3>4. SelClint' = SelClint
      BY <3>3 DEF SelClint
    <3>5. CASE SelClint
      <4>1. ClintTick(SArValid /\ SelClint, SArAddr, SRReady /\ SelClint)
        BY DEF Clock
      <4>2. clintBusy
        BY <2>3, <3>5 DEF SRValid
      <4>3. ClintHold(SArValid /\ SelClint, SRReady /\ SelClint)
        BY <2>3, <4>1, <4>2 DEF ClintTick, ClintAccept, ClintDeliver
      <4>4. clintBusy' = clintBusy /\ clintWord' = clintWord
        BY <4>3 DEF ClintHold
      <4> QED BY <3>4, <3>5, <4>2, <4>4 DEF SRValid, SRData
    <3>6. CASE ~SelClint
      <4>1. MemReadTick(SArValid /\ ~SelClint, SArAddr, key, SRReady /\ ~SelClint)
        BY DEF Clock
      <4>2. memReading /\ memRWait = 0
        BY <2>3, <3>6 DEF SRValid, MemRValid
      <4>3. memReading' /\ memRWait' = 0 /\ memWord' = memWord
        BY <2>3, <4>1, <4>2
        DEF MemReadTick, MemAccept, MemDeliver, MemReadHold, CountDown
      <4> QED BY <3>4, <3>6, <4>2, <4>3 DEF SRValid, SRData, MemRValid
    <3> QED BY <3>5, <3>6
  <2> QED BY <2>1, <2>2, <2>3 DEF KeepsOffers
<1> QED BY <1>1, BusCorrect, PTL DEF Spec, HandshakeStable
-----------------------------------------------------------------------------
(***************************************************************************)
(* The core implements NpcIsa.  What makes it true is that a word on its   *)
(* way to a master is one the address it was asked for may still return    *)
(* when the master uses it, though the address is live, the memory may be  *)
(* written and the time goes on: ReadInv.                                  *)
(***************************************************************************)

\* The word of the slave that is busy is one that a read of a may return.
Answers(a) ==
  /\ memReading => memWord \in Arch!Read(a)
  /\ clintBusy => clintWord \in Arch!Read(a)

ReadInv ==
  /\ ifuState = "R" => Answers(pc)
  /\ lsuState = "R" => Answers(AluResult)
  /\ IfuValid /\ ~StoreDone => inst \in Arch!Read(pc)
  /\ lsuState = "DONE" /\ LsuRen => loaded \in Arch!Read(AluResult)

LEMMA StoreMoves ==
  ASSUME NEW key \in Key, Clock(key), BusInv
  PROVE  /\ lsuState = "AWW" /\ LsuAwValid =>
              /\ lsuState' = "B"
              /\ IF SelUart
                 THEN uartOut' = Append(uartOut, Rs2Val) /\ UNCHANGED mem
                 ELSE /\ UNCHANGED uartOut
                      /\ mem' = IF Align(AluResult) \in Ram
                                THEN [mem EXCEPT ![Align(AluResult)] =
                                        StoreMerge(inst, AluResult, @, Rs2Val)]
                                ELSE mem
         /\ ~LsuAwValid => UNCHANGED <<mem, uartOut>>
<1> USE DEF BusInv, TypeOK
<1>1. MemWriteTick(LsuAwValid /\ ~SelUart, inst, AluResult, Rs2Val, LsuBReady /\ ~SelUart)
  BY DEF Clock
<1>2. UartTick(LsuAwValid /\ SelUart, Rs2Val, LsuBReady /\ SelUart)
  BY DEF Clock
<1>3. ASSUME lsuState = "AWW", LsuAwValid
      PROVE  lsuState' = "B" /\ ~memWriting /\ ~uartBusy
  BY <1>3, LsuMoves DEF WriteStaysRouted, SAwReady
<1>4. ASSUME lsuState = "AWW", LsuAwValid, SelUart
      PROVE  uartOut' = Append(uartOut, Rs2Val) /\ UNCHANGED mem
  BY <1>1, <1>2, <1>3, <1>4
  DEF MemWriteTick, MemWrite, MemRespond, MemWriteHold,
      UartTick, UartPrint, UartRespond, UartHold
<1>5. ASSUME lsuState = "AWW", LsuAwValid, ~SelUart
      PROVE  /\ UNCHANGED uartOut
             /\ mem' = IF Align(AluResult) \in Ram
                       THEN [mem EXCEPT ![Align(AluResult)] =
                               StoreMerge(inst, AluResult, @, Rs2Val)]
                       ELSE mem
  BY <1>1, <1>2, <1>3, <1>5
  DEF MemWriteTick, MemWrite, MemRespond, MemWriteHold, MemBValid,
      UartTick, UartPrint, UartRespond, UartHold, uartVars
<1>6. ASSUME ~LsuAwValid PROVE UNCHANGED <<mem, uartOut>>
  BY <1>1, <1>2, <1>6
  DEF MemWriteTick, MemWrite, MemRespond, MemWriteHold,
      UartTick, UartPrint, UartRespond, UartHold, uartVars
<1> QED BY <1>3, <1>4, <1>5, <1>6

\* The word captured for a request answers it; a word that waits stays.
LEMMA WordsMove ==
  ASSUME NEW key \in Key, Clock(key), BusInv
  PROVE  /\ SArValid /\ memReading' => memWord' = PmemRead(SArAddr, key)
         /\ SArValid /\ memReading' => memWord' \in Arch!Read(SArAddr)
         /\ SArValid /\ clintBusy' => clintWord' \in Arch!Read(SArAddr)
         /\ ~SArValid /\ memReading' => memReading /\ memWord' = memWord
         /\ ~SArValid /\ clintBusy' => clintBusy /\ clintWord' = clintWord
<1> USE DEF BusInv, TypeOK
<1>1. MemReadTick(SArValid /\ ~SelClint, SArAddr, key, SRReady /\ ~SelClint)
  BY DEF Clock
<1>2. ClintTick(SArValid /\ SelClint, SArAddr, SRReady /\ SelClint)
  BY DEF Clock
<1>3. ASSUME SArValid
      PROVE  /\ memReading' => memWord' = PmemRead(SArAddr, key)
             /\ memReading' => memWord' \in Arch!Read(SArAddr)
             /\ clintBusy' => clintWord' \in Arch!Read(SArAddr)
  <2>1. ~memReading /\ ~clintBusy
    BY <1>3 DEF OneReadOutstanding, LsuServesExec, SArValid, GrantIfu, GrantLsu,
       IfuArValid, LsuArValid, Offered, IfuValid
  <2>2. ASSUME memReading'
        PROVE  memWord' = PmemRead(SArAddr, key) /\ memWord' \in Arch!Read(SArAddr)
    <3>1. ~SelClint /\ memWord' = PmemRead(SArAddr, key)
      BY <1>1, <2>1, <2>2 DEF MemReadTick, MemAccept, MemDeliver, MemReadHold, MemRValid
    <3> QED BY <3>1 DEF SelClint, PmemRead, Arch!Read
  <2>3. ASSUME clintBusy' PROVE clintWord' \in Arch!Read(SArAddr)
    <3>1. SelClint /\ clintWord' = TimeWord(SArAddr, mtime)
      BY <1>2, <2>1, <2>3 DEF ClintTick, ClintAccept, ClintDeliver, ClintHold
    <3>2. SArAddr \in {RTC, RTCHI} /\ SArAddr # KBD /\ mtime \in Time
      BY <3>1, MapAssumption DEF SelClint, ClintType
    <3> QED BY <3>1, <3>2 DEF Arch!Read, Arch!Time, Time
  <2> QED BY <2>2, <2>3
<1>4. ASSUME ~SArValid
      PROVE  /\ memReading' => memReading /\ memWord' = memWord
             /\ clintBusy' => clintBusy /\ clintWord' = clintWord
  BY <1>1, <1>2, <1>4
  DEF MemReadTick, MemAccept, MemDeliver, MemReadHold, MemRValid, AxiMemType,
      ClintTick, ClintAccept, ClintDeliver, ClintHold, ClintType
<1> QED BY <1>3, <1>4

\* What a read may return depends on the memory only.
LEMMA ReadsHold ==
  ASSUME UNCHANGED mem
  PROVE  \A a : Arch!Read(a)' = Arch!Read(a)
  BY DEF Arch!Read

\* A word received is the one of the busy slave, whatever the crossbar selects.
LEMMA WordReceived ==
  ASSUME NEW a, Answers(a), SRValid
  PROVE  SRData \in Arch!Read(a)
  BY DEF Answers, SRValid, SRData, MemRValid

LEMMA ReadStep ==
  ASSUME NEW key \in Key, Clock(key), BusInv, ReadInv
  PROVE  ReadInv'
<1> USE DEF BusInv, TypeOK
<1>1. SArValid => ~LsuAwValid
  BY DEF LsuServesExec, SArValid, GrantIfu, GrantLsu, IfuArValid, LsuArValid,
     LsuAwValid, Offered, IfuValid
<1>2. ASSUME ifuState' = "R" PROVE Answers(pc)'
  <2>1. lsuState = "IDLE" /\ ~LsuAwValid /\ pc' = pc
    BY <1>2, IfuMoves
    DEF LsuServesExec, LsuAwValid, Offered, IfuValid, IfuType, ExecDone
  <2>2. \A a : Arch!Read(a)' = Arch!Read(a)
    BY <2>1, StoreMoves, ReadsHold
  <2>3. CASE ifuState = "AR"
    <3>1. SArValid /\ SArAddr = pc
      BY <1>2, <2>3, IfuMoves DEF SArValid, SArAddr, GrantIfu
    <3>2. /\ memReading' => memWord' \in Arch!Read(pc)
          /\ clintBusy' => clintWord' \in Arch!Read(pc)
      BY <3>1, WordsMove DEF Answers
    <3> QED BY <2>1, <2>2, <3>2 DEF Answers
  <2>4. CASE ifuState = "R"
    <3>1. ~SArValid /\ Answers(pc)
      BY <2>1, <2>4
      DEF ReadInv, SArValid, GrantIfu, GrantLsu, IfuArValid, LsuArValid, Offered
    <3>2. /\ memReading' => memWord' \in Arch!Read(pc)
          /\ clintBusy' => clintWord' \in Arch!Read(pc)
      BY <3>1, WordsMove DEF Answers
    <3> QED BY <2>1, <2>2, <3>2 DEF Answers
  <2>5. ifuState \in {"AR", "R"}
    BY <1>2, IfuMoves DEF IfuType
  <2> QED BY <2>3, <2>4, <2>5
<1>3. ASSUME lsuState' = "R" PROVE Answers(AluResult)'
  <2>1. lsuState \in {"AR", "R"}
    BY <1>3, LsuMoves DEF LsuType
  <2>2. AluResult' = AluResult /\ ~LsuAwValid /\ ~GrantIfu
    BY <2>1, LsuStalls, OperandsHold
    DEF IfuValid, LsuAwValid, Offered, GrantIfu, IfuArValid
  <2>3. \A a : Arch!Read(a)' = Arch!Read(a)
    BY <2>2, StoreMoves, ReadsHold
  <2>4. CASE lsuState = "AR"
    <3>1. SArValid /\ SArAddr = AluResult
      BY <1>3, <2>2, <2>4, LsuMoves DEF SArValid, SArAddr
    <3>2. /\ memReading' => memWord' \in Arch!Read(AluResult)
          /\ clintBusy' => clintWord' \in Arch!Read(AluResult)
      BY <3>1, WordsMove DEF Answers
    <3> QED BY <2>2, <2>3, <3>2 DEF Answers
  <2>5. CASE lsuState = "R"
    <3>1. ~SArValid /\ Answers(AluResult)
      BY <2>2, <2>5 DEF ReadInv, SArValid, GrantLsu, LsuArValid, Offered
    <3>2. /\ memReading' => memWord' \in Arch!Read(AluResult)
          /\ clintBusy' => clintWord' \in Arch!Read(AluResult)
      BY <3>1, WordsMove DEF Answers
    <3> QED BY <2>2, <2>3, <3>2 DEF Answers
  <2> QED BY <2>1, <2>4, <2>5
<1>4. ASSUME ifuState' = "EXEC", ~StoreDone' PROVE (inst \in Arch!Read(pc))'
  <2>1. CASE ifuState = "R"
    <3>1. ~LsuAwValid /\ pc' = pc /\ SRValid /\ Answers(pc)
      BY <1>4, <2>1, IfuMoves DEF LsuServesExec, LsuAwValid, Offered, IfuValid, ReadInv
    <3>2. inst' = SRData
      BY <1>4, <2>1
      DEF Clock, IfuTick, IfuSend, IfuReceive, IfuAdvance, IfuHold, IfuValid,
          IfuArValid, Offered
    <3> QED BY <3>1, <3>2, StoreMoves, ReadsHold, WordReceived
  <2>2. CASE ifuState = "EXEC"
    <3>1. ~ExecDone(LsuValid) /\ UNCHANGED <<ifuState, pc, inst>> /\ D' = D
      BY <1>4, <2>2, IfuMoves DEF D
    <3>2. (LsuRen \/ LsuWen) /\ lsuState # "DONE" /\ LsuWen' = LsuWen
      BY <3>1 DEF ExecDone, LsuValid, LsuRen, LsuWen, IfuValid
    <3>3. ~StoreDone
      BY <1>4, <3>2, LsuMoves DEF StoreDone
    <3>4. ~LsuAwValid
      BY <1>4, <3>2, StoreMoves DEF StoreDone, LsuAwValid, Offered, LsuServesExec, LsuWen
    <3> QED BY <2>2, <3>1, <3>3, <3>4, StoreMoves, ReadsHold DEF ReadInv, IfuValid
  <2>3. ifuState \in {"R", "EXEC"}
    BY <1>4, IfuMoves DEF IfuType
  <2> QED BY <2>1, <2>2, <2>3
<1>5. ASSUME lsuState' = "DONE", LsuRen' PROVE (loaded \in Arch!Read(AluResult))'
  <2>1. lsuState \in {"R", "B"}
    BY <1>5, LsuMoves DEF LsuType
  <2>2. UNCHANGED <<D, AluResult>> /\ ~LsuAwValid
    BY <2>1, LsuStalls, OperandsHold DEF IfuValid, LsuAwValid, Offered
  <2>3. lsuState = "R" /\ SRValid /\ Answers(AluResult)
    BY <1>5, <2>1, <2>2, LsuMoves DEF LsuServesExec, LsuRen, ReadInv
  <2>4. loaded' = SRData
    BY <1>5, <2>3
    DEF Clock, LsuTick, LsuStart, LsuSendRead, LsuReceive, LsuSendWrite, LsuResponse,
        LsuFinish, LsuHold, LsuValid, LsuArValid, LsuAwValid, LsuBReady, Offered
  <2> QED BY <2>2, <2>3, <2>4, StoreMoves, ReadsHold, WordReceived
<1> QED BY <1>2, <1>3, <1>4, <1>5 DEF ReadInv, IfuValid

\* Every word on its way to a master, and every word a master holds, is one the
\* address it was asked for may return.
THEOREM ReadsAreCurrent == Spec => []ReadInv
<1>1. Init => ReadInv
  BY DEF Init, IfuInit, LsuInit, ReadInv, IfuValid
<1>2. BusInv /\ ReadInv /\ [Next]_vars => ReadInv'
  <2> SUFFICES ASSUME BusInv, ReadInv, [Next]_vars PROVE ReadInv'
    OBVIOUS
  <2>1. CASE UNCHANGED vars
    BY <2>1, ReadsHold
    DEF vars, ifuVars, hartVars, lsuVars, memReadVars, memWriteVars, uartVars,
        clintVars, ReadInv, Answers, StoreDone, IfuValid, LsuRen, LsuWen, D, AluResult,
        Rs1Val, Rs2Val, RegVal
  <2>2. ASSUME NEW key \in Key, Clock(key) PROVE ReadInv'
    BY <2>2, ReadStep
  <2> QED BY <2>1, <2>2 DEF Next
<1> QED BY <1>1, <1>2, BusCorrect, PTL DEF Spec
-----------------------------------------------------------------------------
\* The registers software sees.
SeenRegs == [r \in Reg |-> RegVal(r)]

LEMMA WriteIsSeen ==
  ASSUME HartType, NEW r \in Reg, NEW v, regs' = [regs EXCEPT ![r] = v]
  PROVE  Arch!SetReg(r, v)
  BY WordAssumption DEF Arch!SetReg, RegVal, HartType

\* The edge that retires an instruction.
LEMMA RetiringEdge ==
  ASSUME NEW key \in Key, Clock(key), BusInv, Retiring(LsuValid)
  PROVE  /\ IfuValid /\ ~IfuValid' /\ pc' = NextPc
         /\ ~StoreDone' /\ (LsuWen => StoreDone)
         /\ UNCHANGED <<mem, uartOut>>
         /\ regs' = IF WritesRd THEN [regs EXCEPT ![D.rd] = WriteBack(loaded)] ELSE regs
         /\ csrs' = NewCsrs
         /\ halted' = (halted \/ D.op = "ebreak")
         /\ ~halted
<1> USE DEF BusInv, TypeOK
<1>1. IfuValid /\ ifuState' = "AR" /\ pc' = NextPc
  BY IfuMoves
  DEF Retiring, IfuValid, Clock, IfuTick, IfuSend, IfuReceive, IfuAdvance, IfuHold,
      IfuArValid, IfuRReady, Offered
<1>2. ~StoreDone' /\ (LsuWen => StoreDone)
  BY <1>1 DEF StoreDone, LsuWen, IfuValid, Retiring, ExecDone, LsuRen, LsuValid
<1>3. ~LsuAwValid
  BY DEF LsuServesExec, LsuAwValid, Offered, LsuWen, LsuRen, Retiring, ExecDone, LsuValid
<1>4. UNCHANGED <<mem, uartOut>>
  BY <1>3, StoreMoves
<1> QED BY <1>1, <1>2, <1>4 DEF Clock, HartTick, IfuValid

\* An instruction other than a store takes effect on the edge that retires it.
LEMMA RetireIsStep ==
  ASSUME NEW key \in Key, Clock(key), BusInv, ReadInv, Retiring(LsuValid), ~LsuWen
  PROVE  Arch!Step
<1> USE DEF BusInv, TypeOK
<1> DEFINE a == IF D.rs1 = X0 THEN Zero ELSE SeenRegs[D.rs1]
           b == IF D.rs2 = X0 THEN Zero ELSE SeenRegs[D.rs2]
<1>1. D \in Fields /\ D = Decode(inst)
  BY HartValues DEF D
<1>2. a = Rs1Val /\ b = Rs2Val
  BY <1>1 DEF SeenRegs, Rs1Val, Rs2Val, RegVal, Fields
<1>3. IfuValid /\ pc' = NextPc
  BY RetiringEdge
<1>4. ~StoreDone /\ ~StoreDone'
  BY RetiringEdge DEF StoreDone
<1>5. UNCHANGED <<mem, uartOut>>
  BY RetiringEdge
<1>6. /\ regs' = IF WritesRd THEN [regs EXCEPT ![D.rd] = WriteBack(loaded)] ELSE regs
      /\ csrs' = NewCsrs
      /\ halted' = (halted \/ D.op = "ebreak")
      /\ ~halted
  BY RetiringEdge
<1>7. inst \in Arch!Read(pc)
  BY <1>3, <1>4 DEF ReadInv
<1>8. UNCHANGED regs => UNCHANGED SeenRegs
  BY DEF SeenRegs, RegVal
<1>9. CASE D.op \in {"alu", "jump", "branch", "other", "ebreak"}
  <2>1. Arch!Compute(inst, Rs1Val, Rs2Val)
    <3>1. csrs' = csrs
      BY <1>6, <1>9 DEF NewCsrs
    <3>2. D.op = "alu" => Arch!SetReg(D.rd, AluResult)
      BY <1>1, <1>6, WriteIsSeen DEF WritesRd, WriteBack, Fields
    <3>3. D.op = "jump" => Arch!SetReg(D.rd, Plus4(pc))
      BY <1>1, <1>6, WriteIsSeen DEF WritesRd, WriteBack, Fields
    <3>4. D.op \notin {"alu", "jump"} => UNCHANGED SeenRegs
      BY <1>6, <1>8, <1>9 DEF WritesRd
    <3>5. pc' = IF D.op \in {"jump", "branch"}
                THEN Target(inst, pc, Rs1Val, Rs2Val) ELSE Plus4(pc)
      BY <1>3, <1>9 DEF NextPc
    <3> QED
      BY <1>1, <1>4, <1>5, <1>6, <1>9, <3>1, <3>2, <3>3, <3>4, <3>5
      DEF Arch!Compute, AluResult, SeenRegs
  <2> QED BY <1>1, <1>2, <1>4, <1>6, <1>7, <2>1 DEF Arch!Step, SeenRegs
<1>10. CASE D.op = "load"
  <2>1. Arch!Load(inst, Rs1Val, Rs2Val)
    <3>1. loaded \in Arch!Read(AluResult)
      BY <1>3, <1>10 DEF ReadInv, LsuRen, Retiring, ExecDone, LsuValid
    <3>2. Arch!SetReg(D.rd, LoadExt(inst, AluResult, loaded))
      BY <1>1, <1>6, <1>10, WriteIsSeen DEF WritesRd, WriteBack, Fields
    <3>3. csrs' = csrs /\ halted' = halted /\ pc' = Plus4(pc)
      BY <1>3, <1>6, <1>10 DEF NewCsrs, NextPc, HartType
    <3> QED
      BY <1>1, <1>4, <1>5, <1>10, <3>1, <3>2, <3>3 DEF Arch!Load, AluResult
  <2> QED BY <1>1, <1>2, <1>4, <1>6, <1>7, <2>1 DEF Arch!Step, SeenRegs
<1>11. CASE D.op \in {"ecall", "mret", "csrrw", "csrrs"}
  <2>1. Arch!System(inst, Rs1Val)
    <3>1. halted' = halted
      BY <1>6, <1>11 DEF HartType
    <3>2. ASSUME D.op = "ecall"
          PROVE  /\ csrs' = [csrs EXCEPT !["mepc"] = pc, !["mcause"] = EcallCause]
                 /\ pc' = csrs["mtvec"] /\ UNCHANGED SeenRegs
      BY <1>3, <1>6, <1>8, <3>2 DEF NewCsrs, NextPc, WritesRd
    <3>3. ASSUME D.op = "mret"
          PROVE  csrs' = csrs /\ pc' = csrs["mepc"] /\ UNCHANGED SeenRegs
      BY <1>3, <1>6, <1>8, <3>3 DEF NewCsrs, NextPc, WritesRd
    <3>4. ASSUME D.op \in {"csrrw", "csrrs"}
          PROVE  /\ Arch!SetReg(D.rd, CsrRead) /\ pc' = Plus4(pc)
                 /\ csrs' = IF D.csr = "none" THEN csrs
                            ELSE [csrs EXCEPT ![D.csr] = CsrWrite]
      BY <1>1, <1>3, <1>6, <3>4, WriteIsSeen
      DEF NewCsrs, NextPc, WritesRd, WriteBack, Fields
    <3> QED
      BY <1>1, <1>4, <1>5, <1>11, <3>1, <3>2, <3>3, <3>4
      DEF Arch!System, Arch!SetCsr, Arch!CsrVal, CsrRead, CsrWrite, SeenRegs
  <2> QED BY <1>1, <1>2, <1>4, <1>6, <1>7, <2>1 DEF Arch!Step, SeenRegs
<1> QED
  BY <1>1, <1>3, <1>9, <1>10, <1>11 DEF Fields, Op, LsuWen

\* A store takes effect on the edge on which its slave accepts it.
LEMMA AcceptIsStep ==
  ASSUME NEW key \in Key, Clock(key), BusInv, ReadInv, lsuState = "AWW", LsuAwValid
  PROVE  Arch!Step
<1> USE DEF BusInv, TypeOK
<1> DEFINE a == IF D.rs1 = X0 THEN Zero ELSE SeenRegs[D.rs1]
           b == IF D.rs2 = X0 THEN Zero ELSE SeenRegs[D.rs2]
<1>1. D \in Fields /\ D = Decode(inst) /\ D.op = "store"
  BY HartValues DEF D, LsuServesExec
<1>2. a = Rs1Val /\ b = Rs2Val
  BY <1>1 DEF SeenRegs, Rs1Val, Rs2Val, RegVal, Fields
<1>3. ~Retiring(LsuValid) /\ ifuState = "EXEC"
  BY LsuStalls DEF IfuValid
<1>4. UNCHANGED <<ifuState, pc, inst, D>> /\ UNCHANGED <<regs, csrs, halted>> /\ ~halted
  BY <1>3, IfuMoves, OperandsHold, HartHolds DEF Retiring, IfuValid, hartVars, Clock
<1>5. ~StoreDone /\ StoreDone' /\ NextPc' = Plus4(pc)
  BY <1>1, <1>3, <1>4, StoreMoves DEF StoreDone, LsuWen, IfuValid, NextPc
<1>6. inst \in Arch!Read(pc)
  BY <1>3, <1>5 DEF ReadInv, IfuValid
<1>7. UNCHANGED SeenRegs
  BY <1>4 DEF SeenRegs, RegVal
<1>8. Arch!Store(inst, Rs1Val, Rs2Val)
  BY <1>1, <1>4, <1>5, <1>7, StoreMoves
  DEF Arch!Store, AluResult, SelUart, SeenRegs
<1> QED BY <1>1, <1>2, <1>4, <1>5, <1>6, <1>8 DEF Arch!Step, SeenRegs

\* The edges between: a store is made once and then waits for its retirement.
LEMMA EdgeBetween ==
  ASSUME NEW key \in Key, Clock(key), BusInv, ~Retiring(LsuValid)
  PROVE  /\ pc' = pc /\ UNCHANGED <<regs, csrs, halted>>
         /\ StoreDone => /\ StoreDone' /\ ~LsuAwValid /\ ifuState = "EXEC"
                         /\ UNCHANGED <<D, Rs1Val, Rs2Val, AluResult, inst, ifuState>>
         /\ ~StoreDone /\ StoreDone' =>
              /\ lsuState = "AWW" /\ LsuAwValid /\ ifuState = "EXEC"
              /\ UNCHANGED <<D, Rs1Val, Rs2Val, AluResult, SelUart, inst, ifuState>>
         /\ ~StoreDone /\ ~StoreDone' => ~LsuAwValid
<1> USE DEF BusInv, TypeOK
<1>1. UNCHANGED <<regs, csrs, halted>> /\ pc' = pc
  BY HartHolds, IfuMoves DEF hartVars, Retiring, IfuType, IfuValid
<1>2. ASSUME StoreDone
      PROVE  /\ StoreDone' /\ ~LsuAwValid /\ ifuState = "EXEC"
             /\ UNCHANGED <<D, Rs1Val, Rs2Val, AluResult, inst, ifuState>>
  <2>1. lsuState = "B" /\ LsuWen /\ ifuState = "EXEC"
    BY <1>2 DEF StoreDone, Retiring, ExecDone, LsuValid, LsuWen, IfuValid
  <2>2. UNCHANGED <<D, Rs1Val, Rs2Val, AluResult, inst, ifuState>>
    BY <2>1, IfuMoves, OperandsHold DEF Retiring, IfuValid
  <2>3. StoreDone' /\ ~LsuAwValid
    BY <2>1, <2>2, LsuMoves DEF StoreDone, LsuWen, IfuValid, LsuAwValid, Offered
  <2> QED BY <2>1, <2>2, <2>3
<1>3. ASSUME ~StoreDone, StoreDone'
      PROVE  /\ lsuState = "AWW" /\ LsuAwValid /\ ifuState = "EXEC"
             /\ UNCHANGED <<D, Rs1Val, Rs2Val, AluResult, SelUart, inst, ifuState>>
  <2>1. lsuState \in {"R", "B"} \/ (lsuState = "AWW" /\ LsuAwValid)
    BY <1>3, LsuMoves DEF StoreDone, LsuType
  <2>2. /\ ifuState = "EXEC"
        /\ UNCHANGED <<D, Rs1Val, Rs2Val, AluResult, SelUart, inst, ifuState>>
    BY <2>1, LsuStalls, IfuMoves, OperandsHold DEF IfuValid, Retiring
  <2>3. lsuState \notin {"R", "B"}
    BY <1>3, <2>2 DEF StoreDone, LsuWen, LsuServesExec, IfuValid
  <2> QED BY <2>1, <2>2, <2>3
<1>4. ASSUME ~StoreDone, ~StoreDone' PROVE ~LsuAwValid
  <2> SUFFICES ASSUME LsuAwValid PROVE FALSE
    OBVIOUS
  <2>1. lsuState = "AWW" /\ D.op = "store" /\ lsuState' = "B"
    BY StoreMoves DEF LsuServesExec, LsuAwValid, Offered
  <2>2. ifuState' = "EXEC" /\ D' = D
    BY <2>1, LsuStalls, IfuMoves, OperandsHold DEF IfuValid, Retiring
  <2> QED BY <1>4, <2>1, <2>2 DEF StoreDone, LsuWen, IfuValid
<1> QED BY <1>1, <1>2, <1>3, <1>4

\* On every other edge nothing software can see changes.
LEMMA OtherEdgesStutter ==
  ASSUME NEW key \in Key, Clock(key), BusInv,
         ~(Retiring(LsuValid) /\ ~LsuWen), ~(lsuState = "AWW" /\ LsuAwValid)
  PROVE  UNCHANGED Arch!isaVars
<1> USE DEF BusInv, TypeOK
<1>1. UNCHANGED <<mem, uartOut>>
  BY StoreMoves DEF LsuAwValid, Offered
<1>2. CASE Retiring(LsuValid)
  <2>1. D.op = "store" /\ StoreDone /\ ifuState = "EXEC"
    BY <1>2 DEF LsuWen, Retiring, ExecDone, LsuRen, LsuValid, StoreDone, IfuValid
  <2>2. pc' = NextPc /\ ~StoreDone'
    BY <1>2, RetiringEdge
  <2>3. UNCHANGED <<regs, csrs, halted>>
    BY <1>2, <2>1, RetiringEdge DEF HartType, WritesRd, NewCsrs
  <2> QED BY <1>1, <2>1, <2>2, <2>3 DEF Arch!isaVars, RegVal
<1>3. CASE ~Retiring(LsuValid)
  <2>1. pc' = pc /\ UNCHANGED <<regs, csrs, halted>>
    BY <1>3, EdgeBetween
  <2>2. CASE StoreDone
    <3>1. StoreDone' /\ UNCHANGED <<D, Rs1Val, Rs2Val, inst>>
      BY <1>3, <2>2, EdgeBetween
    <3>2. NextPc' = NextPc
      BY <2>1, <3>1 DEF NextPc
    <3> QED BY <1>1, <2>1, <2>2, <3>1, <3>2 DEF Arch!isaVars, RegVal
  <2>3. CASE ~StoreDone
    <3>1. ~StoreDone'
      BY <1>3, <2>3, EdgeBetween
    <3> QED BY <1>1, <2>1, <2>3, <3>1 DEF Arch!isaVars, RegVal
  <2> QED BY <2>2, <2>3
<1> QED BY <1>2, <1>3

\* The core of minirv.v, with its fetch and load/store units, its buses and all
\* their latencies, does nothing that the machine of NpcIsa, which executes one
\* instruction after another, cannot do.
THEOREM CoreImplementsIsa == Spec => ImplementsIsa
<1>1. Init => Arch!Init
  <2> SUFFICES ASSUME Init PROVE Arch!Init
    OBVIOUS
  <2>1. mem \in Images
    BY DEF Init, AxiMemInit
  <2>2. ~StoreDone
    BY DEF Init, LsuInit, StoreDone
  <2> QED
    BY <2>1, <2>2
    DEF Init, IfuInit, HartInit, UartInit, Arch!Init, Arch!Csr, Csr, RegVal
<1>2. BusInv /\ ReadInv /\ [Next]_vars => [Arch!Step]_(Arch!isaVars)
  <2> SUFFICES ASSUME BusInv, ReadInv, [Next]_vars
               PROVE  Arch!Step \/ UNCHANGED Arch!isaVars
    OBVIOUS
  <2>1. CASE UNCHANGED vars
    BY <2>1
    DEF vars, ifuVars, hartVars, lsuVars, memReadVars, memWriteVars, uartVars,
        clintVars, Arch!isaVars, StoreDone, LsuWen, IfuValid, NextPc, D, Rs1Val, Rs2Val,
        RegVal
  <2>2. ASSUME NEW key \in Key, Clock(key) PROVE Arch!Step \/ UNCHANGED Arch!isaVars
    BY <2>2, RetireIsStep, AcceptIsStep, OtherEdgesStutter
  <2> QED BY <2>1, <2>2 DEF Next
<1> QED
  BY <1>1, <1>2, BusCorrect, ReadsAreCurrent, PTL DEF Spec, ImplementsIsa, Arch!Spec
=============================================================================
