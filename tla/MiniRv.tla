------------------------------ MODULE MiniRv -------------------------------
(***************************************************************************)
(* The whole core of vsrc/minirv.v: fetch unit, load/store unit and        *)
(* datapath, joined to the memory, the UART and the CLINT through          *)
(* vsrc/arbiter.v and vsrc/xbar.v.  Every flip-flop changes on the same    *)
(* clock edge, so there is one action, Clock; the signals between the      *)
(* parts are functions of the state before the edge.                       *)
(***************************************************************************)
EXTENDS Hart, Lsu, AxiMem, Uart, Clint

CONSTANT Images      \* the programs pmem may hold at reset

VARIABLE owner       \* arbiter.v: which master the last accepted read is for

vars == <<ifuVars, hartVars, lsuVars, memReadVars, memWriteVars, uartVars,
          clintVars, owner>>

ASSUME ImagesAssumption == Images \subseteq [Ram -> Word]

-----------------------------------------------------------------------------
\* Arbiter: fixed priority to the fetch unit.

GrantIfu == IfuArValid
GrantLsu == LsuArValid /\ ~IfuArValid
SArValid == GrantIfu \/ GrantLsu
SArAddr  == IF GrantIfu THEN pc ELSE AluResult
SRReadySwapped == IF owner = "LSU" THEN IfuRReady ELSE LsuRReady   \* (bug)
SRReady  == IF owner = "LSU" THEN LsuRReady ELSE IfuRReady

\* Crossbar, read side.  The select is combinational on the address the
\* arbiter presents in this very cycle.

SelClint == SArAddr \in {RTC, RTCHI}
SArReady == IF SelClint THEN ~clintBusy ELSE ~memReading
SRValid  == IF SelClint THEN clintBusy ELSE MemRValid
SRData   == IF SelClint THEN clintWord ELSE memWord

\* Crossbar, write side.

SelUart  == AluResult = UART
SAwReady == IF SelUart THEN ~uartBusy ELSE ~memWriting
SBValidMemOnly == MemBValid    \* (bug: no response mux)
SBValid  == IF SelUart THEN uartBusy ELSE MemBValid

SArHandshake == SArValid /\ SArReady

\* (bug: not latched at the handshake only)
ArbiterTickLive == owner' = IF GrantLsu THEN "LSU" ELSE "IFU"
ArbiterTick == owner' = IF SArHandshake
                        THEN (IF GrantLsu THEN "LSU" ELSE "IFU")
                        ELSE owner

-----------------------------------------------------------------------------
Init ==
  /\ IfuInit /\ HartInit /\ LsuInit /\ UartInit /\ ClintInit
  /\ \E image \in Images : AxiMemInit(image)
  /\ owner = "IFU"

\* One clock edge; `key` is what pmem_read takes off the key queue when this
\* cycle's read address is KBD.  The harness stops the clock after npc_trap.
Clock(key) ==
  /\ ~halted
  /\ Len(uartOut) < MaxOut
  /\ IfuTick(SArReady /\ GrantIfu, SRValid /\ owner = "IFU", SRData,
             ExecDone(LsuValid), NextPc)
  /\ LsuTick(LsuRen, LsuWen, SArReady /\ GrantLsu, SRValid /\ owner = "LSU",
             SRData, SAwReady, SBValid)
  /\ HartTick(LsuValid, loaded)
  /\ ArbiterTick
  /\ MemReadTick(SArValid /\ ~SelClint, SArAddr, key, SRReady /\ ~SelClint)
  /\ ClintTick(SArValid /\ SelClint, SArAddr, SRReady /\ SelClint)
  /\ MemWriteTick(LsuAwValid /\ ~SelUart, inst, AluResult, Rs2Val, LsuBReady /\ ~SelUart)
  /\ UartTick(LsuAwValid /\ SelUart, Rs2Val, LsuBReady /\ SelUart)

Next == \E key \in Key : Clock(key)

Spec == Init /\ [][Next]_vars

\* The simulator's loop calls eval() again and again, so the clock does not
\* stop; the delays are counters, so no more than this is needed of it.
FairSpec == Spec /\ WF_vars(Next)

-----------------------------------------------------------------------------
TypeOK ==
  /\ IfuType /\ HartType /\ LsuType /\ AxiMemType /\ UartType /\ ClintType
  /\ owner \in {"IFU", "LSU"}

\* lsu.v runs only for the load or the store the fetch unit is executing, and
\* every phase of it belongs to the right kind of instruction.
LsuServesExec ==
  /\ lsuState # "IDLE" => IfuValid /\ D.op \in {"load", "store"}
  /\ lsuState \in {"AR", "R"} => D.op = "load"
  /\ lsuState \in {"AWW", "B"} => D.op = "store"

\* arbiter.v argues that the two masters never request in the same cycle, so
\* that its fixed priority can never make one of them wait; nor does a slave:
\* every request is accepted in the first cycle it is made.
NoContention ==
  /\ ~(IfuArValid /\ LsuArValid)
  /\ SArValid => SArReady
  /\ LsuAwValid => SAwReady

\* At most one read is outstanding on the two slaves together, exactly while
\* one master waits for it, and arbiter.v's owner names that master.
OneReadOutstanding ==
  /\ (memReading \/ clintBusy) <=> (ifuState = "R" \/ lsuState = "R")
  /\ ~(memReading /\ clintBusy)
  /\ ifuState = "R" => owner = "IFU" /\ lsuState # "R"
  /\ lsuState = "R" => owner = "LSU"

\* A write waits for its response at the slave the crossbar (xbar.v:86) still
\* selects: the live address may not move between request and response.
WriteStaysRouted ==
  /\ memWriting => lsuState = "B" /\ ~SelUart
  /\ uartBusy => lsuState = "B" /\ SelUart
  /\ lsuState = "B" => memWriting \/ uartBusy

\* The inductive invariant: the four above hold together or not at all.
BusInv == TypeOK /\ LsuServesExec /\ OneReadOutstanding /\ WriteStaysRouted

\* AXI forbids to withdraw or change what is offered.  The load/store unit
\* latches neither address nor data, so they must not move from the cycle the
\* access starts to the one it ends; and a slave whose answer the master is
\* not ready for keeps offering the same answer.
KeepsOffers ==
  /\ (LsuRen \/ LsuWen) /\ ~LsuValid => AluResult' = AluResult /\ Rs2Val' = Rs2Val
  /\ SRValid /\ ~SRReady => SRValid' /\ SRData' = SRData
  /\ lsuState = "B" /\ SBValid /\ ~LsuBReady => SBValid'
HandshakeStable == [][KeepsOffers]_vars

-----------------------------------------------------------------------------
\* The core implements the one-instruction-at-a-time machine of NpcIsa.  An
\* instruction takes effect when it retires, except that a store takes effect
\* when its slave accepts it: from then on pc already counts as advanced.

StoreDone == lsuState \in {"B", "DONE"} /\ LsuWen

Arch == INSTANCE NpcIsa WITH
         pc <- IF StoreDone THEN NextPc ELSE pc,
         regs <- [r \in Reg |-> RegVal(r)]

ImplementsIsa == Arch!Spec

\* Liveness: a fetch that is begun ends in an instruction being executed, and
\* an instruction being executed retires -- unless the simulation is over.
Stopped == halted \/ Len(uartOut) = MaxOut

FetchCompletes == ifuState = "AR" ~> (IfuValid \/ Stopped)

\* Outside S_EXEC the ALU still shows the result of the retired instruction,
\* and the arbiter presents it to the crossbar whenever the fetch unit does
\* not assert arvalid.  Fetching depends on it not being a timer address.
TimerOffAlu ==
  /\ ~IfuValid => AluResult \notin {RTC, RTCHI}
  /\ pc \notin {RTC, RTCHI}
FetchProgress == []TimerOffAlu => FetchCompletes

InstructionRetires == IfuValid ~> (ifuState = "AR" \/ Stopped)
=============================================================================
