----------------------------- MODULE NpcHarness -----------------------------
(***************************************************************************)
(* The simulation harness of the NPC (csrc/main.cpp) around the core: the  *)
(* loop that clocks it, DiffTest against NEMU, watchpoints, the ring of    *)
(* recent instructions and the debugger.  The core takes several cycles    *)
(* per instruction; everything the harness does once per instruction hangs *)
(* on one sample of dbg_retire between two clock edges.                    *)
(*                                                                         *)
(* The reference is the machine of NpcIsa on variables of its own.  NEMU   *)
(* stops for good after an instruction it does not know.                   *)
(***************************************************************************)
EXTENDS MiniRv, SequencesExt

CONSTANTS
  NrWp,             \* NR_WP
  TraceSize,        \* IRINGBUF_SIZE
  Exprs,            \* the expressions a user may watch
  EvalExpr(_, _, _) \* (expression, pc, registers) |-> <<it has a value, the value>>

ASSUME HarnessAssumption == NrWp \in Nat /\ TraceSize \in Nat \ {0}

\* A word of zeroes is in the allow-list of no instruction (minirv.v:60-124).
ASSUME ZeroAssumption == Decode(Zero).op = "other"

ASSUME EvalAssumption ==
  \A e \in Exprs, p \in Word, r \in [Reg -> Word] : EvalExpr(e, p, r) \in BOOLEAN \X Word

VARIABLES
  interactive, difftest, mode,  \* -i; --diff; "prompt", "stepping", "over"
  refPc, refRegs, refCsrs, refMem, refOut, refHalted,
  refEnded,                     \* NEMU's state is END or ABORT
  mismatch,                     \* difftest_mismatch
  wps, freeWps, wpTriggered,    \* the watchpoint lists, g_wp_triggered
  traceBuf, traceIdx, traceCount,
  recent                        \* auxiliary: the last TraceSize retirements

refVars == <<refPc, refRegs, refCsrs, refMem, refOut, refHalted, refEnded>>
wpVars == <<wps, freeWps>>
traceVars == <<traceBuf, traceIdx, traceCount, recent>>
harnessVars == <<interactive, difftest, mode, refVars, mismatch, wpVars, wpTriggered, traceVars>>
hVars == <<vars, harnessVars>>

Ref == INSTANCE NpcIsa WITH pc <- refPc, regs <- refRegs, csrs <- refCsrs, mem <- refMem,
                            uartOut <- refOut, halted <- refHalted

\* difftest_load: the image, and registers as after a reset.
HInit ==
  /\ Init
  /\ interactive \in BOOLEAN /\ difftest \in BOOLEAN
  /\ mode = IF interactive THEN "prompt" ELSE "stepping"
  /\ refPc = ResetPc /\ refRegs = [r \in Reg |-> Zero]
  /\ refCsrs = [c \in Csr |-> IF c = "mstatus" THEN MStatusReset ELSE Zero]
  /\ refMem = mem /\ refOut = <<>> /\ refHalted = FALSE /\ refEnded = FALSE
  /\ mismatch = FALSE
  /\ wps = <<>> /\ freeWps = [i \in 1 .. NrWp |-> i - 1] /\ wpTriggered = FALSE
  /\ traceBuf = [i \in 0 .. TraceSize - 1 |-> <<>>] /\ traceIdx = 0 /\ traceCount = 0
  /\ recent = <<>>

-----------------------------------------------------------------------------
\* What is sampled between the edges.

SampleIfValid == IfuValid                       \* (bug: as before the LSU had states)
RetiringNow == Retiring(LsuValid)

IsDeviceAddr(a) == a \in {UART, RTC, RTCHI, KBD}
TouchedDevice == (LsuRen \/ LsuWen) /\ LsuValid /\ IsDeviceAddr(AluResult)

-----------------------------------------------------------------------------
\* (bug: the CSRs are not carried over)
ResyncRefZeroes ==
  /\ refPc' = pc' /\ refRegs' = [r \in Reg |-> RegVal(r)]'
  /\ refCsrs' = [c \in Csr |-> Zero]
  /\ UNCHANGED <<refMem, refOut, refHalted, refEnded>>
\* The reference is given the state the core has after the edge.
ResyncRef ==
  /\ refPc' = pc' /\ refRegs' = [r \in Reg |-> RegVal(r)]' /\ refCsrs' = csrs'
  /\ UNCHANGED <<refMem, refOut, refHalted, refEnded>>

RefFetched == IF Align(refPc) \in Ram THEN refMem[Align(refPc)] ELSE Zero

\* ref_difftest_exec(1)
ExecRef ==
  IF refEnded THEN UNCHANGED refVars
  ELSE /\ Ref!Step
       /\ refEnded' = (Decode(RefFetched).op \in {"other", "ebreak"})

\* difftest_check_one_instruction: registers and pc are compared, no more.
DifftestCheck ==
  IF TouchedDevice
  THEN ResyncRef /\ UNCHANGED mismatch
  ELSE /\ ExecRef
       /\ mismatch' = (mismatch \/ refPc' # pc' \/ refRegs' # [r \in Reg |-> RegVal(r)]')

Value(wp) == EvalExpr(wp.expr, pc, [r \in Reg |-> RegVal(r)])

\* (bug: evaluated before the edge)
CheckWatchpointsEarly ==
  LET changed(i) == Value(wps[i])[1] /\ Value(wps[i])[2] # wps[i].old
  IN /\ wps' = [i \in DOMAIN wps |->
                  IF changed(i) THEN [wps[i] EXCEPT !.old = Value(wps[i])[2]] ELSE wps[i]]
     /\ wpTriggered' = (wpTriggered \/ \E i \in DOMAIN wps : changed(i))
     /\ UNCHANGED freeWps
\* check_watchpoints, after the edge.
CheckWatchpoints ==
  LET now(i) == EvalExpr(wps[i].expr, pc', [r \in Reg |-> RegVal(r)]')
      changed(i) == now(i)[1] /\ now(i)[2] # wps[i].old
  IN /\ wps' = [i \in DOMAIN wps |->
                  IF changed(i) THEN [wps[i] EXCEPT !.old = now(i)[2]] ELSE wps[i]]
     /\ wpTriggered' = (wpTriggered \/ \E i \in DOMAIN wps : changed(i))
     /\ UNCHANGED freeWps

\* itrace_record
Record(line) ==
  /\ traceBuf' = [traceBuf EXCEPT ![traceIdx] = line]
  /\ traceIdx' = (traceIdx + 1) % TraceSize
  /\ traceCount' = IF traceCount < TraceSize THEN traceCount + 1 ELSE traceCount

LoopGoesOn == ~halted /\ ~mismatch /\ ~wpTriggered

\* One turn of step_n_cycles.
Cycle ==
  /\ mode = "stepping" /\ LoopGoesOn
  /\ \E key \in Key : Clock(key)
  /\ IF RetiringNow THEN Record(<<pc, inst>>)
                    ELSE UNCHANGED <<traceBuf, traceIdx, traceCount>>
  /\ recent' = IF Retiring(LsuValid)
               THEN Append(IF Len(recent) < TraceSize THEN recent ELSE Tail(recent),
                           <<pc, inst>>)
               ELSE recent
  /\ IF RetiringNow /\ ~halted'
     THEN /\ IF difftest THEN DifftestCheck ELSE UNCHANGED <<refVars, mismatch>>
          /\ CheckWatchpoints
     ELSE UNCHANGED <<refVars, mismatch, wpVars, wpTriggered>>
  /\ UNCHANGED <<interactive, difftest, mode>>

\* step_n_cycles returns: the loop's condition fails, or (si n) n is used up,
\* at any cycle of an instruction.
StepEnds ==
  /\ mode = "stepping"
  /\ interactive \/ ~LoopGoesOn
  /\ mode' = IF halted \/ mismatch \/ ~interactive THEN "over" ELSE "prompt"
  /\ UNCHANGED <<vars, interactive, difftest, refVars, mismatch, wpVars, wpTriggered, traceVars>>

-----------------------------------------------------------------------------
\* Commands si and c.
CmdStep ==
  /\ mode = "prompt" /\ mode' = "stepping"
  /\ wpTriggered' = FALSE
  /\ UNCHANGED <<vars, interactive, difftest, refVars, mismatch, wpVars, traceVars>>

\* Command w; an expression without a value is refused, and so is a watchpoint
\* too many.
CmdW(expr) ==
  /\ mode = "prompt" /\ freeWps # <<>>
  /\ LET v == EvalExpr(expr, pc, [r \in Reg |-> RegVal(r)]) IN
     /\ v[1]
     /\ wps' = <<[no |-> Head(freeWps), expr |-> expr, old |-> v[2]]>> \o wps
     /\ freeWps' = Tail(freeWps)
  /\ UNCHANGED <<vars, interactive, difftest, mode, refVars, mismatch, wpTriggered, traceVars>>

\* Command d
CmdD(i) ==
  /\ mode = "prompt"
  /\ wps' = RemoveAt(wps, i) /\ freeWps' = <<wps[i].no>> \o freeWps
  /\ UNCHANGED <<vars, interactive, difftest, mode, refVars, mismatch, wpTriggered, traceVars>>

HNext ==
  \/ Cycle \/ StepEnds \/ CmdStep
  \/ \E expr \in Exprs : CmdW(expr)
  \/ \E i \in DOMAIN wps : CmdD(i)

HSpec == HInit /\ [][HNext]_hVars

-----------------------------------------------------------------------------
\* DiffTest raises no false alarm: however many cycles instructions take and
\* whatever devices they touch, core and reference part only when the program
\* has run into an instruction NEMU does not have.  And it is not by luck: what
\* DiffTest does not compare -- CSRs, memory -- agrees too (main.cpp:716), up to
\* a store the core has already made.
RefInSync ==
  /\ mismatch => refEnded
  /\ difftest /\ ~halted /\ ~refEnded =>
       /\ refPc = pc /\ refRegs = [r \in Reg |-> RegVal(r)] /\ refCsrs = csrs
       /\ ~StoreDone => refMem = mem

\* No instruction that changes a watched value gets past the loop: the value it
\* is compared with is that of the instruction before, also after a stop in the
\* middle of an instruction and after the watchpoint has fired.
ChangesStop ==
  [][Cycle /\ ~halted' =>
       \A i \in DOMAIN wps :
         Value(wps[i])[1] /\ Value(wps[i])'[1] /\ Value(wps[i])' # Value(wps[i])
           => wpTriggered']_hVars

\* itrace_display_ring, and what it is to show after a bad end: the last
\* instructions, each once, with their own address.
TraceShown == [i \in 1 .. traceCount |->
                 traceBuf[(traceIdx + TraceSize - traceCount + i - 1) % TraceSize]]
TraceIsRecent == TraceShown = recent
=============================================================================
