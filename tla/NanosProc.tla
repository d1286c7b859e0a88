----------------------------- MODULE NanosProc -----------------------------
(***************************************************************************)
(* nanos-lite: main() brings the kernel up, loads one kernel thread        *)
(* (hello_fun) and one program (/bin/pal), and gives the machine away with *)
(* a yield; from then on every ecall is a yield and schedule() toggles     *)
(* between pcb[0] and pcb[1].  The processes run on the stacks of their    *)
(* PCBs, in machine mode, in one address space; a PCB's lowest word is its *)
(* cp field, because PCB is a union.                                       *)
(***************************************************************************)
EXTENDS Cte, NanosLoader

CONSTANTS
  Platforms,                 \* the AM ports to build for
  Disks,                     \* the ramdisks to boot with
  Pcb0, Pcb1, BootPcb,       \* &pcb[0], &pcb[1], &pcb_boot
  StackWords,                \* STACK_SIZE
  BootTop, BootStackWords,   \* main's stack: _stack_pointer, and its size
  BootPc,                    \* the pc of main's yield
  HelloEntry, HelloArg,      \* hello_fun, and its argument
  Callee,                    \* a callee-saved register
  UserCode,                  \* pcs of the program
  Data,                      \* bound: the values a thread computes
  UserDepth,                 \* bound: words the program keeps on its stack
  HandlerWords               \* stack the C code of the handler uses

VARIABLES
  disk, current,
  seg,       \* loader(): the next program header
  ticks      \* auxiliary: alternates with every instruction of a thread

procVars == <<platform, disk, machineVars, current, seg, ticks>>

Pal == "/bin/pal"
Pcb == {Pcb0, Pcb1}
StackEnd(p) == p + StackWords

BootStack == BootTop - BootStackWords

\* pcb[] and pcb_boot are in .bss, which the image file contains as zeros.
Bss == (Pcb0 .. StackEnd(Pcb0) - 1) \cup (Pcb1 .. StackEnd(Pcb1) - 1) \cup {BootPcb}

\* What the kernel and the stacks occupy.
KernelWords == Bss \cup (BootStack .. BootTop - 1)

\* pcb[] is an array, pcb_boot is elsewhere in .bss, and main's stack is above
\* .bss (linker.ld:28); a stack holds cp, the handler's calls, one frame and
\* what its owner pushes.
ASSUME LayoutAssumption ==
  /\ Platforms \subseteq {"nemu", "npc"}
  /\ {StackWords, BootStackWords, HandlerWords, UserDepth, HelloEntry} \subseteq Nat
  /\ KernelWords \subseteq Addr
  /\ {Pcb0, Pcb1, BootTop, BootPcb} \subseteq Nat
  /\ StackEnd(Pcb0) = Pcb1
  /\ BootPcb < Pcb0 \/ BootPcb >= StackEnd(Pcb1)
  /\ StackEnd(Pcb1) <= BootStack /\ BootPcb < BootStack
  /\ StackWords >= 1 + HandlerWords + ContextWords + UserDepth + 1
  /\ BootStackWords >= HandlerWords + ContextWords
  /\ Callee \in Reg \ {SP, A0, NumberReg}
  /\ Junk \notin Data \cup {HelloArg, MinusOne}

\* The words program header i has the loader write.
SegmentWords(d, i) ==
  LET ph == Phdr(d, Pal, i) IN
  IF ph.type # PtLoad THEN {}
  ELSE (ph.vaddr .. ph.vaddr + ph.filesz - 1) \cup (ph.vaddr .. ph.vaddr + ph.memsz - 1)

\* The files of a ramdisk have names of their own, and the segments of its
\* program lie in memory, apart from each other and, as it is linked for
\* 0x83000000 (navy-apps/scripts/riscv/common.mk:2), from the kernel.
ASSUME DiskAssumption ==
  \A d \in Disks :
    /\ d.words \in Seq(Nat)
    /\ \A i \in DOMAIN d.table : i \in Nat \ {0} /\ d.table[i].disk_offset \in Nat
    /\ \A i, j \in DOMAIN d.table : d.table[i].name = d.table[j].name => i = j
    /\ EhdrOk(d, Pal) =>
         \A i \in 0 .. Ehdr(d, Pal).phnum - 1 : PhdrOk(d, Pal, i) =>
           /\ SegmentWords(d, i) \subseteq Addr \ KernelWords
           /\ \A j \in 0 .. i - 1 :
                PhdrOk(d, Pal, j) => SegmentWords(d, i) \cap SegmentWords(d, j) = {}

-----------------------------------------------------------------------------
\* What is not in .bss is what it happens to be.
Init ==
  /\ platform \in Platforms /\ disk \in Disks
  /\ mem = [a \in Addr |-> IF a \in Bss THEN Zero ELSE Junk]
  /\ regs = [r \in Reg |-> IF r = SP THEN BootTop ELSE Zero]
  /\ pc = BootPc
  /\ csrs = [mtvec |-> Zero, mepc |-> Zero, mcause |-> Zero, mstatus |-> MStatusMpp]
  /\ phase = "init_irq"
  /\ current = Null /\ seg = 0 /\ ticks = 0

\* init_irq: cte_init(do_event).
InitIrq ==
  /\ phase = "init_irq"
  /\ csrs' = [csrs EXCEPT !.mtvec = TrapEntry]
  /\ phase' = "init_proc"
  /\ UNCHANGED <<platform, disk, mem, regs, pc, current, seg, ticks>>

\* init_proc up to loader(): switch_boot_pcb, context_kload, open the program.
InitProc ==
  /\ phase = "init_proc"
  /\ current' = BootPcb
  /\ mem' = [KContext(mem, StackEnd(Pcb0), HelloEntry, HelloArg)
               EXCEPT ![Pcb0] = StackEnd(Pcb0) - ContextWords]
  /\ phase' = IF EhdrOk(disk, Pal) THEN "loader" ELSE "panic"
  /\ UNCHANGED <<platform, disk, regs, pc, csrs, seg, ticks>>

LoadSegment ==
  /\ phase = "loader" /\ seg < Ehdr(disk, Pal).phnum
  /\ IF PhdrOk(disk, Pal, seg)
     THEN /\ mem' = LoadPhdr(disk, Pal, seg, mem)
          /\ seg' = seg + 1 /\ UNCHANGED phase
     ELSE phase' = "panic" /\ UNCHANGED <<mem, seg>>
  /\ UNCHANGED <<platform, disk, regs, pc, csrs, current, ticks>>

\* (bug: the context is made but not stored in the PCB)
LoaderDoneForgetsCp ==
  /\ phase = "loader" /\ seg = Ehdr(disk, Pal).phnum
  /\ mem' = UContext(mem, StackEnd(Pcb1), Ehdr(disk, Pal).entry)
  /\ phase' = "user"
  /\ UNCHANGED <<platform, disk, regs, pc, csrs, current, seg, ticks>>
\* The rest of context_uload.  npc's ucontext() is a stub that returns NULL.
LoaderDone ==
  /\ phase = "loader" /\ seg = Ehdr(disk, Pal).phnum
  /\ mem' = IF platform = "nemu"
            THEN [UContext(mem, StackEnd(Pcb1), Ehdr(disk, Pal).entry)
                    EXCEPT ![Pcb1] = StackEnd(Pcb1) - ContextWords]
            ELSE [mem EXCEPT ![Pcb1] = Null]
  /\ phase' = "user"
  /\ UNCHANGED <<platform, disk, regs, pc, csrs, current, seg, ticks>>

-----------------------------------------------------------------------------
\* The instructions of the threads.  Each ticks.

Ticks == ticks' = 1 - ticks /\ UNCHANGED <<platform, disk, csrs, phase, current, seg>>

Jump(to) == pc' = to /\ Ticks

PushReg(r, to) ==
  /\ regs' = [regs EXCEPT ![SP] = @ - 1]
  /\ mem' = [mem EXCEPT ![regs[SP] - 1] = regs[r]]
  /\ Jump(to)

PopReg(r, to) ==
  /\ regs' = [regs EXCEPT ![SP] = @ + 1, ![r] = mem[regs[SP]]]
  /\ UNCHANGED mem
  /\ Jump(to)

SetReg(r, v, to) ==
  /\ regs' = [regs EXCEPT ![r] = v]
  /\ UNCHANGED mem
  /\ Jump(to)

\* hello_fun: save the argument, j = 1; forever j++ and yield().
HelloStep ==
  /\ phase = "user" /\ current = Pcb0
  /\ CASE pc = HelloEntry     -> PushReg(A0, pc + 1)
       [] pc = HelloEntry + 1 -> SetReg(Callee, (regs[Callee] + 1) % 2, pc + 1)
       [] pc = HelloEntry + 3 -> UNCHANGED <<mem, regs>> /\ Jump(HelloEntry + 1)
       [] OTHER -> FALSE

\* The program: anything it can do with a register and its stack.
FirstSp(p) == StackEnd(p) - ContextWords + FrameWords
UserStep ==
  /\ phase = "user" /\ current = Pcb1
  /\ \E to \in UserCode :
       \/ \E v \in Data : SetReg(Callee, v, to)
       \/ regs[SP] > FirstSp(Pcb1) - UserDepth /\ PushReg(Callee, to)
       \/ regs[SP] < FirstSp(Pcb1) /\ PopReg(Callee, to)

YieldPoint ==
  \/ current = BootPcb /\ pc = BootPc
  \/ current = Pcb0 /\ pc = HelloEntry + 2
  \/ current = Pcb1 /\ pc \in UserCode /\ pc + 1 \in UserCode

Yield == YieldPoint /\ Ecall /\ UNCHANGED <<platform, disk, current, seg, ticks>>

-----------------------------------------------------------------------------
\* schedule(prev)
NextPcbStays == IF current = BootPcb THEN Pcb0 ELSE current                  \* (bug)
NextPcb == IF current = Pcb0 THEN Pcb1 ELSE Pcb0

PastEcallNot(m, c) == m                                        \* (bug)
\* c->mepc += 4
PastEcall(m, c) == [m EXCEPT ![EpcAt(c)] = @ + 1]

\* __am_irq_handle(c) with do_event as its handler.  The calls use the stack
\* below the frame.
IrqHandle ==
  /\ phase = "handler"
  /\ LET c == regs[A0]
         stacked == [a \in Addr |-> IF a < c /\ a >= c - HandlerWords THEN Junk ELSE mem[a]]
         switched == [PastEcall(stacked, c) EXCEPT ![current] = c]
         next == switched[NextPcb]
     IN IF mem[CauseAt(c)] # YieldCause
        THEN phase' = "panic" /\ UNCHANGED <<mem, regs, current>>   \* EVENT_ERROR
        ELSE /\ mem' = switched
             /\ current' = NextPcb
             /\ regs' = [regs EXCEPT ![A0] = next]
             /\ phase' = IF next = Null THEN "panic" ELSE "exit"    \* the assert
  /\ UNCHANGED <<platform, disk, pc, csrs, seg, ticks>>

KeepKernel == UNCHANGED <<platform, disk, current, seg, ticks>>

Next ==
  \/ InitIrq \/ InitProc \/ LoadSegment \/ LoaderDone
  \/ HelloStep \/ UserStep \/ Yield
  \/ TrapSave /\ KeepKernel
  \/ IrqHandle
  \/ TrapRestore /\ KeepKernel

Spec == Init /\ [][Next]_procVars

\* One processor executes instruction after instruction.
FairSpec == Spec /\ WF_procVars(Next)

-----------------------------------------------------------------------------
\* The kernel implements NanosThreads.  A thread's state is in the processor
\* while it runs and up to the moment trap.S has saved it, and in the frame
\* its cp, or a0 during the handler, points to from then on.

Cur == CASE current = Pcb0 -> "pcb0" [] current = Pcb1 -> "pcb1" [] OTHER -> "boot"
PcbOf == [pcb0 |-> Pcb0, pcb1 |-> Pcb1, boot |-> BootPcb]
Base == [pcb0 |-> FirstSp(Pcb0), pcb1 |-> FirstSp(Pcb1), boot |-> BootTop]
StartPc == [pcb0 |-> HelloEntry, boot |-> BootPc,
            pcb1 |-> IF EhdrOk(disk, Pal) THEN Ehdr(disk, Pal).entry ELSE Null]

Trapped == phase \in {"entry", "handler"}     \* but not switched yet
InProcessor(t) == t = Cur /\ phase \notin {"handler", "exit", "panic"}
Frame(t) == IF t = Cur /\ phase \in {"handler", "exit"} THEN regs[A0] ELSE mem[PcbOf[t]]

ThreadRegs(t) ==
  IF InProcessor(t) THEN [r \in Pushed |-> regs[r]]
  ELSE IF Frame(t) # Null THEN FrameRegs(mem, Frame(t))
  ELSE [r \in Pushed |-> IF t = "pcb0" /\ r = A0 THEN HelloArg ELSE Zero]

ThreadSp(t) ==
  IF InProcessor(t) THEN regs[SP]
  ELSE IF Frame(t) # Null THEN Frame(t) + FrameWords ELSE Base[t]

ThreadStack(t) == [i \in 1 .. Base[t] - ThreadSp(t) |-> mem[Base[t] - i]]

ThreadPc(t) ==
  IF InProcessor(t) THEN IF phase = "entry" THEN csrs.mepc + 1 ELSE pc
  ELSE IF Frame(t) = Null THEN StartPc[t]
  ELSE IF t = Cur /\ phase = "handler" THEN mem[EpcAt(Frame(t))] + 1
  ELSE mem[EpcAt(Frame(t))]

Threads == INSTANCE NanosThreads WITH
  running <- IF Trapped THEN (IF Cur = "pcb0" THEN "pcb1" ELSE "pcb0") ELSE Cur,
  tregs <- [t \in {"boot", "pcb0", "pcb1"} |-> ThreadRegs(t)],
  tstack <- [t \in {"boot", "pcb0", "pcb1"} |-> ThreadStack(t)],
  tpc <- [t \in {"boot", "pcb0", "pcb1"} |-> ThreadPc(t)]

\* Whatever the handler, the scheduler and the other threads do to memory and
\* registers, a thread goes on after its yield (cte.c:12, trap.S) with its own
\* registers and its own stack, and the threads take turns as schedule() says.
ImplementsThreads == Threads!Spec

Running == phase \in {"user", "entry", "handler", "exit"}

\* PCB is a union: the stack grows down towards cp.  While a process is
\* suspended its whole frame and its stack lie inside its own PCB, above cp,
\* and there is room below for what the handler's calls push (proc.h:9).
FramesInPcb ==
  \A t \in {"pcb0", "pcb1"} :
    LET c == Frame(t)
        live == IF InProcessor(t) THEN regs[SP] - FrameWords ELSE c IN
    Running /\ c # Null =>
      /\ PcbOf[t] + HandlerWords < live
      /\ ThreadSp(t) <= Base[t] /\ Base[t] <= StackEnd(PcbOf[t])

\* MPRV, which nemu's trap.S sets in mstatus "to pass difftest", is off again
\* in every thread: each resumes with the mstatus it trapped with.
ThreadsRunWithoutMprv == phase = "user" => csrs.mstatus = MStatusMpp

\* What loader() promises: from the time it returns, each word of a loadable
\* segment is the file's, and 0 in the rest of the segment -- and, as nothing
\* the kernel or a thread stores ever lands in the program, it stays so.
LoadedImage ==
  Running =>
    \A i \in 0 .. Ehdr(disk, Pal).phnum - 1 :
      LET ph == Phdr(disk, Pal, i)
          at == disk.table[CHOOSE k \in DOMAIN disk.table : disk.table[k].name = Pal].disk_offset
      IN ph.type = PtLoad =>
           \A k \in 0 .. ph.memsz - 1 :
             mem[ph.vaddr + k] = IF k < ph.filesz THEN disk.words[at + ph.offset + k + 1] ELSE 0

\* The kernel stops only where the code has an excuse: a ramdisk without a
\* program, or, on npc, no ucontext() to make the program's context with; nor is
\* main() resumed, where it says "Should not reach here" (main.c:36).
PanicHasCause ==
  /\ phase = "panic" =>
       current = BootPcb \/ (current = Pcb1 /\ platform = "npc")
  /\ phase = "user" /\ current \notin Pcb => pc = BootPc

\* hello_fun lets the program run again and again (proc.c:18): it cannot keep
\* the machine.
HelloHandsOver ==
  (phase = "user" /\ current = Pcb0) ~> (current = Pcb1)
=============================================================================
