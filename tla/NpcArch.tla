------------------------------ MODULE NpcArch ------------------------------
(***************************************************************************)
(* The constants shared by every module about the NPC core of              *)
(* ysyx-workbench/npc/riscv32ecustom: its memory map and its combinational *)
(* datapath.  The decoder, the ALU and the byte lanes of the load/store    *)
(* unit have no state; they appear here as constant operators, so that     *)
(* what is checked and proved about the buses and the control holds        *)
(* whatever they compute.                                                  *)
(***************************************************************************)
EXTENDS Naturals, Sequences

CONSTANTS
  Word,         \* the values of a 32-bit wire
  Reg, X0,      \* the register names, and the one wired to Zero
  Zero,
  ResetPc,      \* ifu.v: reset value of pc
  Nop,          \* ifu.v: reset value of inst
  MStatusReset, \* minirv.v: reset value of mstatus
  EcallCause,   \* minirv.v: the cause code 11
  Ram,          \* the word addresses backed by pmem[]
  UART, RTC, RTCHI, KBD,  \* the device addresses that have a behaviour here
  Key,          \* the words a read of KBD can return (NPC_KEY_NONE included)
  MaxWait,      \* the largest random delay: rnd[1:0] is at most 3
  TimeMod,      \* mtime wraps to 0 at TimeMod (2^64 in clint.v)
  MaxOut        \* bound: bytes printed before the simulation is cut off

CONSTANTS
  Decode(_),        \* word |-> its fields, a member of Fields
  Alu(_, _, _, _),  \* (inst, pc, rs1_val, rs2_val) |-> alu_result
  Target(_, _, _, _), \* the same |-> next pc of a jump or branch
  Plus4(_),
  CsrOr(_, _),
  Align(_),         \* the address of the word that holds a byte
  LoadExt(_, _, _), \* (inst, address, bus word) |-> the loaded value
  StoreMerge(_, _, _, _), \* (inst, address, old word, rs2_val) |-> new word
  TimeWord(_, _)    \* (RTC or RTCHI, mtime) |-> one half of mtime

Csr == {"mstatus", "mtvec", "mepc", "mcause"}

\* The instruction classes the control of minirv.v tells apart.  "other" is
\* everything its allow-list does not recognise: a no-op.
Op == {"alu", "load", "store", "jump", "branch", "csrrw", "csrrs",
       "ecall", "mret", "ebreak", "other"}

Fields == [op : Op, rd : Reg, rs1 : Reg, rs2 : Reg, csr : Csr \cup {"none"}]

Time == 0 .. TimeMod - 1

ASSUME WordAssumption ==
  /\ {Zero, ResetPc, Nop, MStatusReset, EcallCause} \subseteq Word
  /\ Ram \cup Key \subseteq Word
  /\ {UART, RTC, RTCHI, KBD} \subseteq Word
  /\ X0 \in Reg

\* pmem and the device registers do not overlap.
ASSUME MapAssumption ==
  /\ UART \notin {RTC, RTCHI, KBD}
  /\ KBD \notin {RTC, RTCHI}
  /\ \A a \in {UART, RTC, RTCHI, KBD} : Align(a) \notin Ram

ASSUME BoundAssumption ==
  MaxWait \in Nat /\ TimeMod \in Nat \ {0} /\ MaxOut \in Nat

ASSUME DatapathAssumption ==
  /\ \A w \in Word : Decode(w) \in Fields /\ Plus4(w) \in Word /\ Align(w) \in Word
  /\ \A w, p, a, b \in Word : Alu(w, p, a, b) \in Word /\ Target(w, p, a, b) \in Word
  /\ \A a, b \in Word : CsrOr(a, b) \in Word
  /\ \A w, a, v \in Word : LoadExt(w, a, v) \in Word
  /\ \A w, a, v, d \in Word : StoreMerge(w, a, v, d) \in Word
  /\ \A a \in {RTC, RTCHI} : \A t \in Time : TimeWord(a, t) \in Word

-----------------------------------------------------------------------------
\* Every master and slave of this design delays its signals on purpose with
\* the same idiom: an `active` flip-flop that is one cycle behind "the state
\* machine is in this state", and a counter loaded from an LFSR on the first
\* cycle of the visit.  The LFSR is a free choice in 0..MaxWait.

Delay == [active : BOOLEAN, wait : 0 .. MaxWait]
NoDelay == [active |-> FALSE, wait |-> 0]

CountDown(n) == IF n = 0 THEN 0 ELSE n - 1

\* The signal is asserted: in the state, not on its first cycle, counter at 0.
Offered(in, d) == in /\ d.active /\ d.wait = 0

\* The possible values of the two registers after a clock edge.
DelayNext(in, d) ==
  {[active |-> in, wait |-> n] :
      n \in IF in /\ ~d.active THEN 0 .. MaxWait ELSE {CountDown(d.wait)}}
=============================================================================
