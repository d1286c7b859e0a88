---------------------------- MODULE NanosProofs ----------------------------
(***************************************************************************)
(* Theorems about nanos-lite and the context extension, for every number   *)
(* of registers, every size and place of the stacks, both ports and every  *)
(* ramdisk whose program stays off the kernel (NanosProc).                 *)
(***************************************************************************)
EXTENDS NanosProc, Integers, TLAPS

Tid == {"boot", "pcb0", "pcb1"}

\* The words of a thread's stack lie between Floor and Ceil; its cp is at PcbOf.
Floor == [pcb0 |-> Pcb0, pcb1 |-> Pcb1, boot |-> BootStack - 1]
Ceil  == [pcb0 |-> StackEnd(Pcb0), pcb1 |-> StackEnd(Pcb1), boot |-> BootTop]
Own(t) == (Floor[t] + 1 .. Ceil[t] - 1) \cup {PcbOf[t]}

\* Room below for one frame and for what the handler's calls push.
SpOk(t, sp) ==
  sp \in Int /\ Floor[t] + HandlerWords < sp - FrameWords /\ sp <= Base[t]

\* A frame from which thread t can go on.
FrameOk(t, c) ==
  /\ c \in Int /\ SpOk(t, c + FrameWords)
  /\ mem[StatusAt(c)] = MStatusMpp
  /\ t = "pcb0" /\ mem[EpcAt(c)] = HelloEntry => c + FrameWords = Base[t]

\* The threads that wait for their turn.
Waiting ==
  \A t \in Tid \ {Cur} :
    \/ mem[PcbOf[t]] = Null /\ t # "pcb0" /\ (t = "pcb1" => platform # "nemu")
    \/ FrameOk(t, mem[PcbOf[t]])

Booting ==
  /\ regs = [r \in Reg |-> IF r = SP THEN BootTop ELSE Zero] /\ pc = BootPc
  /\ csrs.mstatus = MStatusMpp
  /\ mem[BootPcb] = Null /\ \A a \in Own("pcb1") : mem[a] = Zero
  /\ phase \in {"init_irq", "init_proc"} =>
       current = Null /\ seg = 0 /\ \A a \in Own("pcb0") : mem[a] = Zero
  /\ phase = "loader" =>
       /\ current = BootPcb /\ FrameOk("pcb0", mem[Pcb0])
       /\ EhdrOk(disk, Pal) /\ seg \in 0 .. Ehdr(disk, Pal).phnum

InThread ==
  /\ SpOk(Cur, regs[SP]) /\ csrs.mstatus = MStatusMpp
  /\ phase = "user" =>
       /\ Cur = "pcb0" /\ pc = HelloEntry => regs[SP] = Base[Cur]
       /\ Cur = "boot" => pc = BootPc
  /\ phase = "entry" =>
       csrs.mcause = YieldCause /\ (Cur = "pcb0" => csrs.mepc = HelloEntry + 2)

InHandler ==
  /\ FrameOk(Cur, regs[A0]) /\ mem[CauseAt(regs[A0])] = YieldCause
  /\ Cur = "pcb0" => mem[EpcAt(regs[A0])] = HelloEntry + 2

InExit == FrameOk(Cur, regs[A0]) /\ Cur # "boot"

KernelInv ==
  /\ DOMAIN mem = Addr /\ DOMAIN regs = Reg
  /\ DOMAIN csrs = {"mtvec", "mepc", "mcause", "mstatus"}
  /\ disk \in Disks /\ platform \in Platforms
  /\ phase \in {"init_irq", "init_proc", "loader"} => Booting
  /\ Running => current \in {BootPcb, Pcb0, Pcb1} /\ EhdrOk(disk, Pal) /\ Waiting
  /\ phase \in {"user", "entry"} => InThread
  /\ phase = "handler" => InHandler
  /\ phase = "exit" => InExit
  /\ phase = "panic" => current = BootPcb \/ (current = Pcb1 /\ platform = "npc")

Loaded(i) ==
  LET ph == Phdr(disk, Pal, i) IN
  ph.type = PtLoad =>
    \A k \in 0 .. ph.memsz - 1 :
      mem[ph.vaddr + k] = IF k < ph.filesz THEN FsWord(disk, Pal, ph.offset + k) ELSE 0

ImageInv ==
  /\ phase = "loader" => \A i \in 0 .. seg - 1 : PhdrOk(disk, Pal, i) /\ Loaded(i)
  /\ Running => \A i \in 0 .. Ehdr(disk, Pal).phnum - 1 : PhdrOk(disk, Pal, i) /\ Loaded(i)

-----------------------------------------------------------------------------
LEMMA Sizes ==
  /\ NrRegs \in Nat /\ StackWords \in Nat /\ HandlerWords \in Nat /\ UserDepth \in Nat
  /\ FrameWords \in {NrRegs + 3, NrRegs + 4} /\ ContextWords = NrRegs + 4
  /\ Pcb0 \in Nat \ {0} /\ Pcb1 \in Nat /\ BootTop \in Nat /\ BootPcb \in Nat \ {0}
  /\ BootStackWords \in Nat /\ BootStack = BootTop - BootStackWords
  /\ Pcb0 + StackWords = Pcb1 /\ Pcb1 + StackWords <= BootStack
  /\ BootPcb < Pcb0 \/ BootPcb >= Pcb1 + StackWords
  /\ BootPcb < BootStack
  /\ StackWords >= HandlerWords + NrRegs + 4 + UserDepth + 2
  /\ BootStackWords >= HandlerWords + NrRegs + 4
<1>1. Pcb0 # 0 /\ BootPcb # 0
  <2>1. Pcb0 \in Pcb0 .. StackEnd(Pcb0) - 1
    BY LayoutAssumption, CteAssumption DEF StackEnd, ContextWords
  <2> QED BY <2>1, LayoutAssumption, CteAssumption DEF KernelWords, Bss, Null
<1> QED BY <1>1, LayoutAssumption, CteAssumption
       DEF StackEnd, ContextWords, FrameWords, BootStack

LEMMA Places ==
  ASSUME NEW t \in Tid
  PROVE  /\ Floor[t] \in Int /\ Ceil[t] \in Int /\ Base[t] \in Int
         /\ Floor[t] >= 0 /\ Base[t] <= Ceil[t] /\ Base[t] >= Ceil[t] - 1
         /\ Floor[t] + HandlerWords + FrameWords < Base[t]
         /\ PcbOf[t] \in Addr /\ PcbOf[t] \in Nat \ {0}
         /\ PcbOf[t] \notin Floor[t] + 1 .. Ceil[t] - 1
         /\ Own(t) \subseteq KernelWords /\ Own(t) \subseteq Addr
<1> USE Sizes DEF Floor, Ceil, Base, PcbOf, StackEnd, FirstSp
<1>1. KernelWords \subseteq Addr
  BY LayoutAssumption
<1>2. CASE t = "pcb0"
  BY <1>1, <1>2 DEF Own, KernelWords, Bss
<1>3. CASE t = "pcb1"
  BY <1>1, <1>3 DEF Own, KernelWords, Bss
<1>4. CASE t = "boot"
  BY <1>1, <1>4 DEF Own, KernelWords, Bss
<1> QED BY <1>2, <1>3, <1>4 DEF Tid

\* No thread's memory is another's.
LEMMA OwnApart ==
  ASSUME NEW t \in Tid, NEW u \in Tid, t # u
  PROVE  Own(t) \cap Own(u) = {}
<1>1. Own("pcb0") \cap Own("pcb1") = {}
  BY Sizes DEF Own, Floor, Ceil, PcbOf, StackEnd
<1>2. Own("pcb0") \cap Own("boot") = {}
  BY Sizes DEF Own, Floor, Ceil, PcbOf, StackEnd
<1>3. Own("pcb1") \cap Own("boot") = {}
  BY Sizes DEF Own, Floor, Ceil, PcbOf, StackEnd
<1> QED BY <1>1, <1>2, <1>3 DEF Tid

LEMMA CurIs ==
  /\ Cur \in Tid
  /\ Cur = "pcb0" <=> current = Pcb0
  /\ Cur = "pcb1" <=> current = Pcb1
  /\ current = BootPcb => Cur = "boot"
  /\ current \in {BootPcb, Pcb0, Pcb1} => PcbOf[Cur] = current
  /\ current = Null => Cur = "boot"
<1>1. Pcb0 # Pcb1 /\ Pcb0 # BootPcb /\ Pcb1 # BootPcb /\ Pcb0 # Null /\ Pcb1 # Null
  BY Sizes DEF Null
<1>2. CASE current = Pcb0
  BY <1>1, <1>2 DEF Cur, Tid, PcbOf
<1>3. CASE current = Pcb1
  BY <1>1, <1>3 DEF Cur, Tid, PcbOf
<1>4. CASE current \notin {Pcb0, Pcb1}
  BY <1>1, <1>4 DEF Cur, Tid, PcbOf
<1> QED BY <1>2, <1>3, <1>4

\* The words of a frame, and below it those of the handler's calls, lie on the
\* thread's stack.
LEMMA FrameInside ==
  ASSUME NEW t \in Tid, NEW c \in Int, SpOk(t, c + FrameWords)
  PROVE  /\ c \in Nat \ {0} /\ c - HandlerWords .. Base[t] - 1 \subseteq Own(t) \ {PcbOf[t]}
         /\ c + FrameWords <= Base[t]
         /\ {CauseAt(c), StatusAt(c), EpcAt(c)} \subseteq c .. c + FrameWords - 1
         /\ CauseAt(c) # StatusAt(c) /\ StatusAt(c) # EpcAt(c) /\ CauseAt(c) # EpcAt(c)
         /\ \A r \in Pushed : /\ c + r \in c .. c + FrameWords - 1
                              /\ c + r \notin {CauseAt(c), StatusAt(c), EpcAt(c)}
<1>1. /\ Floor[t] \in Int /\ Base[t] \in Int /\ Ceil[t] \in Int /\ Base[t] <= Ceil[t]
      /\ PcbOf[t] \notin Floor[t] + 1 .. Ceil[t] - 1 /\ Floor[t] >= 0
  BY Places
<1>2. /\ Floor[t] + HandlerWords < c /\ c + FrameWords <= Base[t]
      /\ HandlerWords \in Nat /\ NrRegs \in Nat /\ FrameWords \in {NrRegs + 3, NrRegs + 4}
  BY Sizes DEF SpOk
<1>3. c - HandlerWords .. Base[t] - 1 \subseteq Own(t) \ {PcbOf[t]}
  BY <1>1, <1>2 DEF Own
<1> QED BY <1>1, <1>2, <1>3 DEF CauseAt, StatusAt, EpcAt, Pushed, Reg

-----------------------------------------------------------------------------
\* A step leaves what a thread can see of itself as it was.
Kept(t) ==
  /\ ThreadRegs(t)' = ThreadRegs(t) /\ ThreadSp(t)' = ThreadSp(t)
  /\ ThreadStack(t)' = ThreadStack(t) /\ ThreadPc(t)' = ThreadPc(t)

LEMMA StackKept ==
  ASSUME NEW t \in Tid, UNCHANGED platform, ThreadSp(t)' = ThreadSp(t),
         ThreadSp(t) \in Int, \A a \in ThreadSp(t) .. Base[t] - 1 : mem'[a] = mem[a]
  PROVE  ThreadStack(t)' = ThreadStack(t)
<1>1. Base' = Base
  BY DEF Base, FirstSp, FrameWords
<1>2. Base[t] \in Int
  BY Places
<1>3. \A i \in 1 .. Base[t] - ThreadSp(t) : mem'[Base[t] - i] = mem[Base[t] - i]
  BY <1>2
<1> QED BY <1>1, <1>3 DEF ThreadStack

\* A frame nobody has touched.
LEMMA FrameKept ==
  ASSUME NEW t \in Tid, NEW c, FrameOk(t, c), UNCHANGED platform,
         \A a \in c .. Base[t] - 1 : mem'[a] = mem[a]
  PROVE  /\ FrameOk(t, c)' /\ FrameRegs(mem, c)' = FrameRegs(mem, c)
         /\ mem'[EpcAt(c)] = mem[EpcAt(c)] /\ mem'[CauseAt(c)] = mem[CauseAt(c)]
<1>1. c \in Int /\ SpOk(t, c + FrameWords)
  BY DEF FrameOk
<1>2. FrameWords' = FrameWords /\ Base' = Base
  BY DEF Base, FirstSp, FrameWords
<1>3. c .. c + FrameWords - 1 \subseteq c .. Base[t] - 1
  BY <1>1, FrameInside, Places, Sizes
<1>4. /\ mem'[EpcAt(c)] = mem[EpcAt(c)] /\ mem'[CauseAt(c)] = mem[CauseAt(c)]
      /\ mem'[StatusAt(c)] = mem[StatusAt(c)]
      /\ \A r \in Pushed : mem'[c + r] = mem[c + r]
  BY <1>1, <1>3, FrameInside
<1> QED BY <1>1, <1>2, <1>4 DEF FrameOk, SpOk, FrameRegs

LEMMA OthersKept ==
  ASSUME NEW t \in Tid, t # Cur, UNCHANGED <<platform, disk>>,
         t = Cur' => /\ phase' \in {"exit", "panic"}
                     /\ phase' = "exit" => regs'[A0] = mem[PcbOf[t]],
         \A a \in Own(t) : mem'[a] = mem[a],
         mem[PcbOf[t]] = Null \/ FrameOk(t, mem[PcbOf[t]])
  PROVE  /\ Kept(t) /\ mem'[PcbOf[t]] = mem[PcbOf[t]]
         /\ FrameOk(t, mem[PcbOf[t]]) => FrameOk(t, mem[PcbOf[t]])'
<1>1. mem'[PcbOf[t]] = mem[PcbOf[t]]
  BY DEF Own
<1> PICK c : c = mem[PcbOf[t]]
  OBVIOUS
<1>2. Frame(t) = c /\ Frame(t)' = c /\ ~InProcessor(t) /\ ~InProcessor(t)'
  <2>1. CASE t = Cur' /\ phase' = "exit"
    BY <1>1, <2>1 DEF Frame, InProcessor
  <2>2. CASE t = Cur' /\ phase' = "panic"
    BY <1>1, <2>2 DEF Frame, InProcessor
  <2>3. CASE t # Cur'
    BY <1>1, <2>3 DEF Frame, InProcessor
  <2> QED BY <2>1, <2>2, <2>3
<1>3. FrameWords' = FrameWords /\ Base' = Base /\ StartPc' = StartPc
  BY DEF Base, FirstSp, FrameWords, StartPc
<1>4. CASE c = Null
  <2>1. ThreadRegs(t)' = ThreadRegs(t) /\ ThreadSp(t)' = ThreadSp(t) /\ ThreadPc(t)' = ThreadPc(t)
    BY <1>2, <1>3, <1>4 DEF ThreadRegs, ThreadSp, ThreadPc
  <2>2. ThreadSp(t) = Base[t] /\ Base[t] \in Int
    BY <1>2, <1>4, Places DEF ThreadSp
  <2>3. ThreadStack(t)' = ThreadStack(t)
    BY <2>1, <2>2, StackKept
  <2>4. ~FrameOk(t, c)
    BY <1>4, FrameInside DEF FrameOk, Null
  <2> QED BY <1>1, <2>1, <2>3, <2>4 DEF Kept
<1>5. CASE c # Null
  <2>1. FrameOk(t, c) /\ c \in Int /\ SpOk(t, c + FrameWords)
    BY <1>5 DEF FrameOk
  <2>2. \A a \in c .. Base[t] - 1 : mem'[a] = mem[a]
    <3>1. c .. Base[t] - 1 \subseteq c - HandlerWords .. Base[t] - 1
      BY <2>1, Sizes, Places
    <3> QED BY <2>1, <3>1, FrameInside
  <2>3. /\ FrameOk(t, c)' /\ FrameRegs(mem, c)' = FrameRegs(mem, c)
        /\ mem'[EpcAt(c)] = mem[EpcAt(c)]
    BY <2>1, <2>2, FrameKept
  <2>4. ThreadRegs(t)' = ThreadRegs(t) /\ ThreadSp(t)' = ThreadSp(t)
    BY <1>2, <1>3, <1>5, <2>3 DEF ThreadRegs, ThreadSp, FrameRegs
  <2>5. ThreadPc(t)' = ThreadPc(t)
    BY <1>2, <1>5, <2>3 DEF ThreadPc, EpcAt
  <2>6. ThreadSp(t) = c + FrameWords /\ ThreadSp(t) \in Int
    BY <1>2, <1>5, <2>1, Sizes DEF ThreadSp
  <2>7. ThreadStack(t)' = ThreadStack(t)
    <3>1. \A a \in ThreadSp(t) .. Base[t] - 1 : mem'[a] = mem[a]
      BY <2>1, <2>2, <2>6, Sizes, Places
    <3> QED BY <2>4, <2>6, <3>1, StackKept
  <2>8. FrameOk(t, mem[PcbOf[t]])'
    BY <1>1, <2>3 DEF FrameOk
  <2> QED BY <1>1, <2>4, <2>5, <2>7, <2>8 DEF Kept
<1> QED BY <1>4, <1>5

-----------------------------------------------------------------------------
(***************************************************************************)
(* main() brings the kernel up: threads come to have frames, and none of   *)
(* them notices.                                                           *)
(***************************************************************************)
Run == IF Trapped THEN (IF Cur = "pcb0" THEN "pcb1" ELSE "pcb0") ELSE Cur

Unnoticed == (\A t \in Tid : Kept(t)) /\ Run' = Run /\ ticks' = ticks

\* What is not the kernel's stays as it is.
Elsewhere == \A a \in Addr \ KernelWords : mem'[a] = mem[a]

BootPhases == {"init_irq", "init_proc", "loader"}

LEMMA BootKept ==
  ASSUME Booting, Cur = "boot", Cur' = "boot", UNCHANGED <<platform, regs, pc>>,
         phase \in BootPhases, phase' \in BootPhases \cup {"user", "panic"},
         mem'[BootPcb] = mem[BootPcb]
  PROVE  Kept("boot") /\ Run' = Run
<1>1. /\ \A r \in Pushed : regs[r] = Zero
      /\ regs[SP] = BootTop /\ pc = BootPc /\ mem[BootPcb] = Null
  BY CteAssumption DEF Booting, Pushed, SP
<1>2. /\ Base["boot"] = BootTop /\ Base["boot"]' = BootTop /\ PcbOf["boot"] = BootPcb
      /\ StartPc["boot"] = BootPc /\ StartPc["boot"]' = BootPc
  BY DEF Base, PcbOf, StartPc
<1>3. Base["boot"] \in Int /\ "boot" \in Tid
  BY Places DEF Tid
<1>4. InProcessor("boot") /\ phase # "entry" /\ phase' # "entry"
  BY DEF InProcessor, BootPhases
<1>5. \/ InProcessor("boot")'
      \/ ~InProcessor("boot")' /\ Frame("boot")' = Null
  <2>1. CASE phase' = "panic"
    <3>1. ~InProcessor("boot")'
      BY <2>1 DEF InProcessor
    <3>2. Frame("boot")' = Null
      BY <1>1, <1>2, <2>1 DEF Frame
    <3> QED BY <3>1, <3>2
  <2>2. CASE phase' # "panic"
    BY <2>2 DEF InProcessor, BootPhases
  <2> QED BY <2>1, <2>2
<1>6. ThreadSp("boot")' = ThreadSp("boot") /\ ThreadSp("boot") = BootTop
  BY <1>1, <1>2, <1>4, <1>5 DEF ThreadSp
<1>7. /\ ThreadRegs("boot")' = ThreadRegs("boot")
      /\ ThreadPc("boot")' = ThreadPc("boot")
  BY <1>1, <1>2, <1>4, <1>5 DEF ThreadRegs, ThreadPc
<1>8. ThreadStack("boot")' = ThreadStack("boot")
  BY <1>2, <1>3, <1>6, StackKept
<1>9. Run' = Run
  BY DEF Run, Trapped, BootPhases
<1> QED BY <1>6, <1>7, <1>8, <1>9 DEF Kept

\* The first frame of a thread: kcontext and ucontext write a few words of it,
\* the others are still 0.
LEMMA FirstFrame ==
  ASSUME NEW t \in {"pcb0", "pcb1"}, t # Cur, t # Cur', UNCHANGED <<platform, disk>>,
         mem[PcbOf[t]] = Null,
         NEW c, c = StackEnd(PcbOf[t]) - ContextWords,
         mem'[PcbOf[t]] = c, mem'[EpcAt(c)] = StartPc[t], mem'[StatusAt(c)] = MStatusMpp,
         \A r \in Pushed : mem'[c + r] = IF t = "pcb0" /\ r = A0 THEN HelloArg ELSE Zero
  PROVE  Kept(t) /\ FrameOk(t, mem[PcbOf[t]])'
<1>1. t \in Tid /\ Base' = Base /\ StartPc' = StartPc /\ FrameWords' = FrameWords
  BY DEF Tid, Base, FirstSp, FrameWords, StartPc
<1>2. /\ c \in Int /\ c # Null /\ c + FrameWords = Base[t] /\ SpOk(t, c + FrameWords)
      /\ Base[t] \in Int
  BY Sizes DEF StackEnd, PcbOf, SpOk, Base, FirstSp, Floor, Null
<1>3. /\ Frame(t) = Null /\ ~InProcessor(t) /\ Frame(t)' = c /\ ~InProcessor(t)'
  BY DEF Frame, InProcessor
<1>4. ThreadRegs(t)' = ThreadRegs(t)
  BY <1>2, <1>3 DEF ThreadRegs, FrameRegs
<1>5. ThreadSp(t)' = ThreadSp(t) /\ ThreadSp(t) = Base[t]
  BY <1>1, <1>2, <1>3 DEF ThreadSp
<1>6. ThreadPc(t)' = ThreadPc(t)
  BY <1>1, <1>2, <1>3 DEF ThreadPc, EpcAt
<1>7. ThreadStack(t)' = ThreadStack(t)
  BY <1>1, <1>2, <1>5, StackKept
<1>8. FrameOk(t, mem[PcbOf[t]])'
  BY <1>1, <1>2 DEF FrameOk, SpOk, StatusAt
<1> QED BY <1>4, <1>5, <1>6, <1>7, <1>8 DEF Kept

LEMMA Pcbs ==
  /\ PcbOf["pcb0"] = Pcb0 /\ PcbOf["pcb1"] = Pcb1 /\ PcbOf["boot"] = BootPcb
  /\ Pcb0 \in Own("pcb0") /\ Pcb1 \in Own("pcb1") /\ BootPcb \in Own("boot")
  /\ {"pcb0", "pcb1", "boot"} = Tid
  BY DEF PcbOf, Own, Tid

LEMMA InitIrqStep == ASSUME KernelInv, InitIrq PROVE KernelInv' /\ Unnoticed /\ Elsewhere
<1>1. Booting /\ current = Null /\ UNCHANGED <<platform, disk, mem, regs, pc, current, seg, ticks>>
  BY DEF KernelInv, InitIrq, Booting
<1>2. Cur = "boot" /\ Cur' = "boot"
  BY <1>1, CurIs DEF Cur
<1>3. KernelInv'
  BY <1>1 DEF KernelInv, InitIrq, Booting, Running
<1>4. Kept("boot") /\ Run' = Run
  BY <1>1, <1>2, BootKept DEF InitIrq, BootPhases
<1>5. mem[Pcb0] = Null /\ mem[Pcb1] = Null
  BY <1>1, Pcbs DEF InitIrq, Booting, Null, Zero
<1>6. Kept("pcb0") /\ Kept("pcb1")
  BY <1>1, <1>2, <1>5, Pcbs, OthersKept
<1> QED BY <1>1, <1>3, <1>4, <1>6 DEF Unnoticed, Tid, Elsewhere

\* Where the words of a thread's first frame lie.
LEMMA ContextPlaces ==
  ASSUME NEW t \in {"pcb0", "pcb1"}, NEW c, c = StackEnd(PcbOf[t]) - ContextWords
  PROVE  /\ Own(t) \subseteq Addr /\ PcbOf[t] \in Own(t) /\ A0 \in Pushed
         /\ {EpcAt(c), StatusAt(c), PdirAt(c)} \subseteq Own(t) \ {PcbOf[t]}
         /\ EpcAt(c) # StatusAt(c) /\ EpcAt(c) # PdirAt(c) /\ StatusAt(c) # PdirAt(c)
         /\ \A r \in Pushed : /\ c + r \in Own(t) \ {PcbOf[t]}
                              /\ c + r \notin {EpcAt(c), StatusAt(c), PdirAt(c)}
                              /\ c + r = c + A0 => r = A0
<1>1. t \in Tid /\ c \in Int /\ SpOk(t, c + FrameWords) /\ PdirAt(c) = Ceil[t] - 1
  BY Sizes DEF StackEnd, PcbOf, SpOk, Base, FirstSp, Floor, Tid, Ceil, PdirAt
<1>2. /\ c - HandlerWords .. Base[t] - 1 \subseteq Own(t) \ {PcbOf[t]}
      /\ c + FrameWords <= Base[t]
      /\ {CauseAt(c), StatusAt(c), EpcAt(c)} \subseteq c .. c + FrameWords - 1
      /\ StatusAt(c) # EpcAt(c)
      /\ \A r \in Pushed : /\ c + r \in c .. c + FrameWords - 1
                           /\ c + r \notin {CauseAt(c), StatusAt(c), EpcAt(c)}
  BY <1>1, FrameInside
<1>3. c .. c + FrameWords - 1 \subseteq Own(t) \ {PcbOf[t]}
  BY <1>1, <1>2, Sizes, Places
<1>4. PdirAt(c) \in Own(t) \ {PcbOf[t]} /\ PcbOf[t] \in Own(t)
  <2>1. /\ Floor[t] < Ceil[t] - 1 /\ Floor[t] \in Int /\ Ceil[t] \in Int
        /\ PcbOf[t] \notin Floor[t] + 1 .. Ceil[t] - 1
    BY <1>1, Places, Sizes
  <2> QED BY <1>1, <2>1 DEF Own
<1>5. /\ PdirAt(c) # StatusAt(c) /\ PdirAt(c) # EpcAt(c)
      /\ \A r \in Pushed : PdirAt(c) # c + r /\ (c + r = c + A0 => r = A0)
      /\ A0 \in Pushed
  BY <1>1, Sizes, CteAssumption DEF PdirAt, StatusAt, EpcAt, Pushed, Reg
<1> QED BY <1>1, <1>2, <1>3, <1>4, <1>5, Places

\* The program's place on the ramdisk.
LEMMA TheFile ==
  ASSUME disk \in Disks, FileIndex(disk, Pal) # 0
  PROVE  /\ FileIndex(disk, Pal) = CHOOSE k \in DOMAIN disk.table : disk.table[k].name = Pal
         /\ disk.words \in Seq(Nat)
         /\ disk.table[FileIndex(disk, Pal)].disk_offset \in Nat
<1>1. /\ disk.words \in Seq(Nat)
      /\ \A i \in DOMAIN disk.table : i \in Nat \ {0} /\ disk.table[i].disk_offset \in Nat
      /\ \A i, j \in DOMAIN disk.table : disk.table[i].name = disk.table[j].name => i = j
  BY DiskAssumption
<1> DEFINE same == {i \in DOMAIN disk.table : disk.table[i].name = Pal}
<1>2. same # {} /\ FileIndex(disk, Pal) = CHOOSE i \in same : \A j \in same : i <= j
  BY DEF FileIndex
<1>3. PICK n \in DOMAIN disk.table : disk.table[n].name = Pal
  BY <1>2
<1>4. n \in Nat /\ \A j \in DOMAIN disk.table : disk.table[j].name = Pal => j = n
  BY <1>1, <1>3
<1>5. same = {n}
  BY <1>3, <1>4
<1>6. FileIndex(disk, Pal) = n
  <2>1. \A i \in same : (\A j \in same : i <= j) <=> i = n
    BY <1>4, <1>5
  <2> HIDE DEF same
  <2> QED BY <1>2, <1>5, <2>1
<1>7. (CHOOSE k \in DOMAIN disk.table : disk.table[k].name = Pal) = n
  BY <1>3, <1>4
<1> QED BY <1>1, <1>6, <1>7

LEMMA HeaderNat ==
  ASSUME disk \in Disks, EhdrOk(disk, Pal)
  PROVE  Ehdr(disk, Pal).phnum \in Nat /\ Ehdr(disk, Pal).phoff \in Nat
<1>1. FileIndex(disk, Pal) # 0 /\ DiskOffset(disk, Pal, 0) + 4 <= Len(disk.words)
  BY DEF EhdrOk, FsReadable, EhdrWords
<1> DEFINE off == disk.table[FileIndex(disk, Pal)].disk_offset
<1>2. disk.words \in Seq(Nat) /\ off \in Nat
  BY <1>1, TheFile
<1>3. off + 3 + 1 \in 1 .. Len(disk.words) /\ off + 2 + 1 \in 1 .. Len(disk.words)
  <2>1. off + 0 + 4 <= Len(disk.words)
    BY <1>1 DEF DiskOffset
  <2>2. Len(disk.words) \in Nat
    BY <1>2
  <2> HIDE DEF off
  <2> QED BY <1>2, <2>1, <2>2
<1>4. /\ Ehdr(disk, Pal).phnum = disk.words[off + 3 + 1]
      /\ Ehdr(disk, Pal).phoff = disk.words[off + 2 + 1]
  BY DEF Ehdr, FsWord, DiskOffset
<1> HIDE DEF off
<1> QED BY <1>2, <1>3, <1>4

LEMMA PhdrNat ==
  ASSUME disk \in Disks, EhdrOk(disk, Pal), NEW i \in Nat, PhdrOk(disk, Pal, i)
  PROVE  {Phdr(disk, Pal, i).offset, Phdr(disk, Pal, i).vaddr, Phdr(disk, Pal, i).filesz,
          Phdr(disk, Pal, i).memsz} \subseteq Nat
<1> DEFINE off == disk.table[FileIndex(disk, Pal)].disk_offset
           at == PhdrOffset(disk, Pal, i)
<1>1. FileIndex(disk, Pal) # 0 /\ off + at + 5 <= Len(disk.words)
  BY DEF PhdrOk, FsReadable, DiskOffset, PhdrWords
<1>2. disk.words \in Seq(Nat) /\ off \in Nat
  BY <1>1, TheFile
<1>3. at \in Nat
  BY HeaderNat DEF PhdrOffset, PhdrWords
<1>4. /\ Phdr(disk, Pal, i).offset = disk.words[off + (at + 1) + 1]
      /\ Phdr(disk, Pal, i).vaddr = disk.words[off + (at + 2) + 1]
      /\ Phdr(disk, Pal, i).filesz = disk.words[off + (at + 3) + 1]
      /\ Phdr(disk, Pal, i).memsz = disk.words[off + (at + 4) + 1]
  BY DEF Phdr, FsWord, DiskOffset
<1> HIDE DEF off, at
<1>5. \A k \in 1 .. 4 : off + (at + k) + 1 \in 1 .. Len(disk.words)
  BY <1>1, <1>2, <1>3
<1>6. ASSUME NEW k \in 1 .. 4 PROVE disk.words[off + (at + k) + 1] \in Nat
  <2>1. off + (at + k) + 1 \in 1 .. Len(disk.words)
    BY <1>5
  <2> QED BY ONLY <1>2, <2>1
<1> QED BY <1>4, <1>6

LEMMA InitProcStep == ASSUME KernelInv, InitProc PROVE KernelInv' /\ Unnoticed /\ Elsewhere
<1>1. /\ Booting /\ current = Null /\ current' = BootPcb /\ seg = 0 /\ DOMAIN mem = Addr
      /\ UNCHANGED <<platform, disk, regs, pc, csrs, seg, ticks>>
      /\ \A a \in Own("pcb0") \cup Own("pcb1") : mem[a] = Zero
      /\ phase = "init_proc" /\ phase' \in {"loader", "panic"}
  BY DEF KernelInv, InitProc, Booting
<1>2. Cur = "boot" /\ Cur' = "boot" /\ Pcb0 = PcbOf["pcb0"]
  <2>1. BootPcb \notin {Pcb0, Pcb1}
    BY Sizes
  <2> QED BY <1>1, <2>1, CurIs, Pcbs DEF Cur
<1> PICK c : c = StackEnd(Pcb0) - ContextWords
  OBVIOUS
<1>3. /\ DOMAIN mem' = Addr /\ \A a \in Addr \ Own("pcb0") : mem'[a] = mem[a]
      /\ mem'[Pcb0] = c /\ mem'[EpcAt(c)] = HelloEntry /\ mem'[StatusAt(c)] = MStatusMpp
      /\ \A r \in Pushed : mem'[c + r] = IF r = A0 THEN HelloArg ELSE mem[c + r]
  <2>1. mem' = [mem EXCEPT ![EpcAt(c)] = HelloEntry, ![StatusAt(c)] = MStatusMpp,
                           ![c + A0] = HelloArg, ![PdirAt(c)] = Null, ![Pcb0] = c]
    BY DEF InitProc, KContext
  <2>2. /\ DOMAIN mem' = Addr
        /\ \A a \in Addr : mem'[a] = IF a = Pcb0 THEN c ELSE IF a = PdirAt(c) THEN Null
                                   ELSE IF a = c + A0 THEN HelloArg
                                   ELSE IF a = StatusAt(c) THEN MStatusMpp
                                   ELSE IF a = EpcAt(c) THEN HelloEntry ELSE mem[a]
    BY <1>1, <2>1
  <2> QED BY <1>2, <2>2, ContextPlaces
<1>4. Kept("pcb0") /\ FrameOk("pcb0", mem[Pcb0])'
  <2>1. mem[Pcb0] = Null /\ StartPc["pcb0"] = HelloEntry
    BY <1>1, Pcbs DEF Null, Zero, StartPc
  <2>2. \A r \in Pushed : mem'[c + r] = IF r = A0 THEN HelloArg ELSE Zero
    BY <1>1, <1>2, <1>3, ContextPlaces
  <2> QED BY <1>1, <1>2, <1>3, <2>1, <2>2, FirstFrame
<1>5. /\ \A a \in Own("pcb1") : mem'[a] = mem[a] /\ mem'[a] = Zero
      /\ mem'[BootPcb] = mem[BootPcb] /\ mem[BootPcb] = Null
  <2>1. /\ Own("pcb0") \cap Own("pcb1") = {} /\ Own("pcb0") \cap Own("boot") = {}
        /\ Own("pcb1") \subseteq Addr /\ Own("boot") \subseteq Addr
    BY OwnApart, Places DEF Tid
  <2> QED BY <1>1, <1>3, <2>1, Pcbs DEF Booting
<1>6. Kept("pcb1")
  <2>1. mem[PcbOf["pcb1"]] = Null
    BY <1>1, Pcbs DEF Null, Zero
  <2> QED BY <1>1, <1>2, <1>5, <2>1, Pcbs, OthersKept
<1>7. Kept("boot") /\ Run' = Run
  BY <1>1, <1>2, <1>5, BootKept DEF BootPhases
<1>8. phase' = "loader" => Booting'
  <2> SUFFICES ASSUME phase' = "loader" PROVE Booting'
    OBVIOUS
  <2>1. EhdrOk(disk, Pal) /\ disk \in Disks
    BY DEF InitProc, KernelInv
  <2>2. seg \in 0 .. Ehdr(disk, Pal).phnum
    BY <1>1, <2>1, HeaderNat
  <2> QED BY <1>1, <1>4, <1>5, <2>1, <2>2 DEF Booting
<1>9. KernelInv'
  BY <1>1, <1>3, <1>8 DEF KernelInv, Running
<1>10. Elsewhere
  BY <1>3, Places DEF Elsewhere, Tid
<1> QED BY <1>1, <1>4, <1>6, <1>7, <1>9, <1>10, Pcbs DEF Unnoticed

\* A program header has the loader write the words of its segment only: with
\* the file's words, and with 0 what the file does not have.
LEMMA SegmentWritten ==
  ASSUME KernelInv, LoadSegment, PhdrOk(disk, Pal, seg)
  PROVE  /\ DOMAIN mem' = Addr
         /\ \A a \in Addr \ SegmentWords(disk, seg) : mem'[a] = mem[a]
<1>0. disk \in Disks /\ EhdrOk(disk, Pal) /\ seg \in Nat
  <2>1. disk \in Disks /\ EhdrOk(disk, Pal) /\ seg \in 0 .. Ehdr(disk, Pal).phnum
    BY DEF KernelInv, LoadSegment, Booting
  <2> QED BY <2>1, HeaderNat
<1>1. DOMAIN mem = Addr /\ mem' = LoadPhdr(disk, Pal, seg, mem)
  BY DEF KernelInv, LoadSegment
<1> DEFINE ph == Phdr(disk, Pal, seg)
<1>2. CASE ph.type # PtLoad
  BY <1>1, <1>2 DEF LoadPhdr
<1>3. CASE ph.type = PtLoad
  <2>1. mem' = [a \in Addr |->
              CASE a \in ph.vaddr .. ph.vaddr + ph.filesz - 1 ->
                     FsWord(disk, Pal, ph.offset + a - ph.vaddr)
                [] a \in ph.vaddr + ph.filesz .. ph.vaddr + ph.memsz - 1 -> 0
                [] OTHER -> mem[a]]
    BY <1>1, <1>3 DEF LoadPhdr
  <2>2. /\ ph.vaddr .. ph.vaddr + ph.filesz - 1 \subseteq SegmentWords(disk, seg)
        /\ ph.vaddr + ph.filesz .. ph.vaddr + ph.memsz - 1 \subseteq SegmentWords(disk, seg)
    <3>1. {ph.vaddr, ph.filesz, ph.memsz} \subseteq Nat
      BY <1>0, PhdrNat
    <3>2. SegmentWords(disk, seg) = (ph.vaddr .. ph.vaddr + ph.filesz - 1)
                                      \cup (ph.vaddr .. ph.vaddr + ph.memsz - 1)
      BY <1>3 DEF SegmentWords
    <3> HIDE DEF ph
    <3> QED BY <3>1, <3>2
  <2> HIDE DEF ph
  <2> QED BY <2>1, <2>2
<1> QED BY <1>2, <1>3

LEMMA LoadSegmentStep == ASSUME KernelInv, LoadSegment PROVE KernelInv' /\ Unnoticed
<1>1. /\ Booting /\ current = BootPcb /\ DOMAIN mem = Addr /\ phase = "loader"
      /\ UNCHANGED <<platform, disk, regs, pc, csrs, current, ticks>>
      /\ disk \in Disks /\ EhdrOk(disk, Pal) /\ FrameOk("pcb0", mem[Pcb0])
      /\ seg \in 0 .. Ehdr(disk, Pal).phnum /\ seg < Ehdr(disk, Pal).phnum
      /\ phase' \in {"loader", "panic"}
  BY DEF KernelInv, LoadSegment, Booting
<1>2. Cur = "boot" /\ Cur' = "boot"
  <2>1. BootPcb \notin {Pcb0, Pcb1}
    BY Sizes
  <2> QED BY <1>1, <2>1 DEF Cur
<1>3. Ehdr(disk, Pal).phnum \in Nat
  BY <1>1, HeaderNat
<1>4. DOMAIN mem' = Addr /\ \A a \in KernelWords : mem'[a] = mem[a]
  <2>1. CASE PhdrOk(disk, Pal, seg)
    <3>1. SegmentWords(disk, seg) \subseteq Addr \ KernelWords
      BY <1>1, <1>3, <2>1, DiskAssumption
    <3>2. DOMAIN mem' = Addr /\ \A a \in Addr \ SegmentWords(disk, seg) : mem'[a] = mem[a]
      BY <1>1, <1>3, <2>1, SegmentWritten
    <3> QED BY <3>1, <3>2, LayoutAssumption
  <2>2. CASE ~PhdrOk(disk, Pal, seg)
    BY <1>1, <2>2 DEF LoadSegment
  <2> QED BY <2>1, <2>2
<1>5. \A t \in Tid : \A a \in Own(t) : mem'[a] = mem[a]
  BY <1>4, Places
<1>6. Kept("pcb0") /\ mem'[Pcb0] = mem[Pcb0] /\ FrameOk("pcb0", mem[Pcb0])'
  BY <1>1, <1>2, <1>5, Pcbs, OthersKept
<1>7. Kept("pcb1") /\ \A a \in Own("pcb1") : mem'[a] = Zero
  <2>1. mem[PcbOf["pcb1"]] = Null
    BY <1>1, Pcbs DEF Null, Zero, Booting
  <2> QED BY <1>1, <1>2, <1>5, <2>1, Pcbs, OthersKept DEF Booting
<1>8. Kept("boot") /\ Run' = Run /\ mem'[BootPcb] = mem[BootPcb]
  BY <1>1, <1>2, <1>5, Pcbs, BootKept DEF BootPhases
<1>9. phase' = "loader" => seg' \in 0 .. Ehdr(disk, Pal).phnum
  BY <1>1, <1>3 DEF LoadSegment
<1>10. phase' = "loader" => Booting'
  BY <1>1, <1>6, <1>7, <1>8, <1>9 DEF Booting
<1>11. KernelInv'
  BY <1>1, <1>4, <1>10 DEF KernelInv, Running
<1> QED BY <1>1, <1>6, <1>7, <1>8, <1>11, Pcbs DEF Unnoticed

LEMMA LoaderDoneStep == ASSUME KernelInv, LoaderDone PROVE KernelInv' /\ Unnoticed /\ Elsewhere
<1>1. /\ Booting /\ current = BootPcb /\ DOMAIN mem = Addr /\ phase = "loader"
      /\ UNCHANGED <<platform, disk, regs, pc, csrs, current, seg, ticks>>
      /\ disk \in Disks /\ EhdrOk(disk, Pal) /\ FrameOk("pcb0", mem[Pcb0])
      /\ phase' = "user" /\ mem[Pcb1] = Null
      /\ \A a \in Own("pcb1") : mem[a] = Zero
  BY Pcbs DEF KernelInv, LoaderDone, Booting, Null, Zero
<1>2. Cur = "boot" /\ Cur' = "boot" /\ Pcb1 = PcbOf["pcb1"]
  <2>1. BootPcb \notin {Pcb0, Pcb1}
    BY Sizes
  <2> QED BY <1>1, <2>1, Pcbs DEF Cur
<1> PICK c : c = StackEnd(Pcb1) - ContextWords
  OBVIOUS
<1>3. /\ DOMAIN mem' = Addr /\ \A a \in Addr \ Own("pcb1") : mem'[a] = mem[a]
      /\ platform = "nemu" =>
           /\ mem'[Pcb1] = c /\ mem'[EpcAt(c)] = Ehdr(disk, Pal).entry
           /\ mem'[StatusAt(c)] = MStatusMpp
           /\ \A r \in Pushed : mem'[c + r] = mem[c + r]
      /\ platform # "nemu" => \A a \in Addr : mem'[a] = mem[a]
  <2>1. CASE platform = "nemu"
    <3>1. mem' = [mem EXCEPT ![EpcAt(c)] = Ehdr(disk, Pal).entry, ![StatusAt(c)] = MStatusMpp,
                             ![PdirAt(c)] = Null, ![Pcb1] = c]
      BY <2>1 DEF LoaderDone, UContext
    <3>2. /\ DOMAIN mem' = Addr
          /\ \A a \in Addr : mem'[a] = IF a = Pcb1 THEN c ELSE IF a = PdirAt(c) THEN Null
                                     ELSE IF a = StatusAt(c) THEN MStatusMpp
                                     ELSE IF a = EpcAt(c) THEN Ehdr(disk, Pal).entry ELSE mem[a]
      BY <1>1, <3>1
    <3> QED BY <1>2, <2>1, <3>2, ContextPlaces
  <2>2. CASE platform # "nemu"
    <3>1. mem' = [mem EXCEPT ![Pcb1] = Null]
      BY <2>2 DEF LoaderDone
    <3>2. DOMAIN mem' = Addr /\ \A a \in Addr : mem'[a] = mem[a]
      <4>1. Pcb1 \in Addr
        BY <1>2, Places DEF Tid
      <4> QED BY <1>1, <3>1, <4>1
    <3> QED BY <1>1, <2>2, <3>2
  <2> QED BY <2>1, <2>2
<1>4. /\ Kept("pcb1")
      /\ \/ FrameOk("pcb1", mem[Pcb1])'
         \/ mem'[Pcb1] = Null /\ platform # "nemu"
  <2>1. CASE platform = "nemu"
    <3>1. StartPc["pcb1"] = Ehdr(disk, Pal).entry
      BY <1>1 DEF StartPc
    <3>2. \A r \in Pushed : mem'[c + r] = Zero
      BY <1>1, <1>2, <1>3, <2>1, ContextPlaces
    <3> QED BY <1>1, <1>2, <1>3, <2>1, <3>1, <3>2, FirstFrame
  <2>2. CASE platform # "nemu"
    <3>1. (\A a \in Own("pcb1") : mem'[a] = mem[a]) /\ mem[PcbOf["pcb1"]] = Null
      BY <1>1, <1>2, <1>3, <2>2, Places DEF Tid
    <3> QED BY <1>1, <1>2, <2>2, <3>1, Pcbs, OthersKept
  <2> QED BY <2>1, <2>2
<1>5. \A t \in {"boot", "pcb0"} : \A a \in Own(t) : mem'[a] = mem[a]
  <2>1. Own("pcb0") \cap Own("pcb1") = {} /\ Own("boot") \cap Own("pcb1") = {}
    BY OwnApart DEF Tid
  <2> QED BY <1>3, <2>1, Places DEF Tid
<1>6. Kept("pcb0") /\ mem'[Pcb0] = mem[Pcb0] /\ FrameOk("pcb0", mem[Pcb0])'
  BY <1>1, <1>2, <1>5, Pcbs, OthersKept
<1>7. Kept("boot") /\ Run' = Run
  BY <1>1, <1>2, <1>5, Pcbs, BootKept DEF BootPhases
<1>8. Waiting'
  <2>1. Tid \ {Cur'} = {"pcb0", "pcb1"}
    BY <1>2 DEF Tid
  <2> QED BY <1>1, <1>4, <1>6, <2>1, Pcbs DEF Waiting
<1>9. InThread'
  <2>1. /\ regs[SP] = BootTop /\ pc = BootPc /\ csrs.mstatus = MStatusMpp
    BY <1>1, CteAssumption DEF Booting
  <2>2. SpOk("boot", BootTop)'
    <3>1. SpOk("boot", BootTop)
      BY Sizes DEF SpOk, Base, Floor, StackEnd
    <3> QED BY <1>1, <3>1 DEF SpOk, Base, FirstSp, FrameWords
  <2> QED BY <1>1, <1>2, <2>1, <2>2 DEF InThread, SpOk
<1>10. KernelInv'
  BY <1>1, <1>3, <1>8, <1>9 DEF KernelInv, Running
<1>11. Elsewhere
  BY <1>3, Places DEF Elsewhere, Tid
<1> QED BY <1>1, <1>4, <1>6, <1>7, <1>10, <1>11, Pcbs DEF Unnoticed

-----------------------------------------------------------------------------
(***************************************************************************)
(* A thread runs: only its own state changes.                              *)
(***************************************************************************)
\* An instruction of a process: sp stays within its stack, and it writes there.
LEMMA WorkStep ==
  ASSUME KernelInv, phase = "user", Cur # "boot",
         UNCHANGED <<platform, disk, csrs, phase, current, seg>>,
         DOMAIN mem' = Addr, DOMAIN regs' = Reg,
         \A a \in Addr \ Own(Cur) : mem'[a] = mem[a],
         SpOk(Cur, regs'[SP]), Cur = "pcb0" => pc' # HelloEntry
  PROVE  /\ KernelInv' /\ (\A t \in Tid \ {Cur} : Kept(t)) /\ Cur' = Cur /\ Run' = Run /\ Run = Cur
         /\ Elsewhere
<1>1. Waiting /\ Cur' = Cur /\ Cur \in Tid /\ Running /\ InThread
  BY CurIs DEF KernelInv, Running, Cur
<1>2. ASSUME NEW t \in Tid, t # Cur
      PROVE  /\ Kept(t) /\ mem'[PcbOf[t]] = mem[PcbOf[t]]
             /\ FrameOk(t, mem[PcbOf[t]]) => FrameOk(t, mem[PcbOf[t]])'
  <2>1. \A a \in Own(t) : mem'[a] = mem[a]
    BY <1>1, <1>2, OwnApart, Places
  <2> QED BY <1>1, <1>2, <2>1, OthersKept DEF Waiting
<1>3. Waiting'
  BY <1>1, <1>2 DEF Waiting
<1>4. InThread'
  <2>1. SpOk(Cur, regs[SP])'
    BY <1>1 DEF SpOk, Base, FirstSp, FrameWords
  <2> QED BY <1>1, <2>1 DEF InThread
<1>5. KernelInv'
  BY <1>1, <1>3, <1>4 DEF KernelInv, Running
<1>6. Elsewhere
  BY <1>1, Places DEF Elsewhere
<1> QED BY <1>1, <1>2, <1>5, <1>6 DEF Run, Trapped

LEMMA HelloWorks ==
  ASSUME KernelInv, HelloStep
  PROVE  /\ KernelInv' /\ (\A t \in Tid \ {Cur} : Kept(t)) /\ Run' = Run /\ Run = Cur
         /\ ticks' = 1 - ticks /\ Cur' = Cur /\ Elsewhere
<1>1. /\ phase = "user" /\ current = Pcb0 /\ Cur = "pcb0" /\ InThread
      /\ DOMAIN mem = Addr /\ DOMAIN regs = Reg /\ SP \in Reg /\ Callee \in Reg \ {SP}
      /\ UNCHANGED <<platform, disk, csrs, phase, current, seg>> /\ ticks' = 1 - ticks
      /\ HelloEntry \in Nat
  BY CurIs, CteAssumption, LayoutAssumption DEF HelloStep, KernelInv, PushReg, SetReg, Jump, Ticks
<1>2. SpOk("pcb0", regs[SP])
  BY <1>1 DEF InThread
<1>3. CASE pc = HelloEntry
  <2>1. /\ regs' = [regs EXCEPT ![SP] = @ - 1]
        /\ mem' = [mem EXCEPT ![regs[SP] - 1] = regs[A0]]
        /\ pc' = HelloEntry + 1 /\ regs[SP] = Base["pcb0"]
    BY <1>1, <1>3 DEF HelloStep, PushReg, Jump, InThread
  <2>2. SpOk("pcb0", Base["pcb0"] - 1) /\ Base["pcb0"] - 1 \in Own("pcb0")
    BY Sizes DEF SpOk, Floor, Base, FirstSp, StackEnd, Own, Ceil
  <2>3. /\ DOMAIN mem' = Addr /\ DOMAIN regs' = Reg /\ regs'[SP] = Base["pcb0"] - 1
        /\ \A a \in Addr \ Own("pcb0") : mem'[a] = mem[a]
    BY <1>1, <2>1, <2>2
  <2> QED BY <1>1, <2>1, <2>2, <2>3, WorkStep
<1>4. CASE pc # HelloEntry
  <2>1. pc \in {HelloEntry + 1, HelloEntry + 3}
    BY <1>1, <1>4 DEF HelloStep
  <2>2. DOMAIN regs' = Reg /\ mem' = mem /\ regs'[SP] = regs[SP]
    BY <1>1, <1>4 DEF HelloStep, SetReg
  <2>3. pc' # HelloEntry
    BY <1>1, <1>4, <2>1 DEF HelloStep, SetReg, Jump
  <2> QED BY <1>1, <1>2, <2>2, <2>3, WorkStep
<1> QED BY <1>3, <1>4

LEMMA UserWorks ==
  ASSUME KernelInv, UserStep
  PROVE  /\ KernelInv' /\ (\A t \in Tid \ {Cur} : Kept(t)) /\ Run' = Run /\ Run = Cur
         /\ ticks' = 1 - ticks /\ Cur' = Cur /\ Elsewhere
<1>1. /\ phase = "user" /\ current = Pcb1 /\ Cur = "pcb1" /\ InThread
      /\ DOMAIN mem = Addr /\ DOMAIN regs = Reg /\ SP \in Reg /\ Callee \in Reg \ {SP}
      /\ UNCHANGED <<platform, disk, csrs, phase, current, seg>> /\ ticks' = 1 - ticks
  BY CurIs, CteAssumption, LayoutAssumption
     DEF UserStep, KernelInv, PushReg, PopReg, SetReg, Jump, Ticks
<1>2. SpOk("pcb1", regs[SP]) /\ regs[SP] \in Int
  BY <1>1 DEF InThread, SpOk
<1>3. PICK to \in UserCode :
        \/ \E v \in Data : SetReg(Callee, v, to)
        \/ regs[SP] > FirstSp(Pcb1) - UserDepth /\ PushReg(Callee, to)
        \/ regs[SP] < FirstSp(Pcb1) /\ PopReg(Callee, to)
  BY DEF UserStep
<1>4. CASE \E v \in Data : SetReg(Callee, v, to)
  <2>1. DOMAIN regs' = Reg /\ mem' = mem /\ regs'[SP] = regs[SP]
    BY <1>1, <1>4 DEF SetReg
  <2> QED BY <1>1, <1>2, <2>1, WorkStep
<1>5. CASE regs[SP] > FirstSp(Pcb1) - UserDepth /\ PushReg(Callee, to)
  <2>1. /\ regs' = [regs EXCEPT ![SP] = @ - 1]
        /\ mem' = [mem EXCEPT ![regs[SP] - 1] = regs[Callee]]
    BY <1>5 DEF PushReg
  <2>2. SpOk("pcb1", regs[SP] - 1) /\ regs[SP] - 1 \in Own("pcb1")
    BY <1>2, <1>5, Sizes DEF SpOk, Floor, Base, FirstSp, StackEnd, Own, Ceil
  <2>3. /\ DOMAIN mem' = Addr /\ DOMAIN regs' = Reg /\ regs'[SP] = regs[SP] - 1
        /\ \A a \in Addr \ Own("pcb1") : mem'[a] = mem[a]
    BY <1>1, <2>1, <2>2
  <2> QED BY <1>1, <2>2, <2>3, WorkStep
<1>6. CASE regs[SP] < FirstSp(Pcb1) /\ PopReg(Callee, to)
  <2>1. /\ regs' = [regs EXCEPT ![SP] = @ + 1, ![Callee] = mem[regs[SP]]] /\ mem' = mem
    BY <1>6 DEF PopReg
  <2>2. SpOk("pcb1", regs[SP] + 1)
    BY <1>2, <1>6, Sizes DEF SpOk, Floor, Base, FirstSp, StackEnd
  <2>3. DOMAIN regs' = Reg /\ regs'[SP] = regs[SP] + 1
    BY <1>1, <2>1
  <2> QED BY <1>1, <2>1, <2>2, <2>3, WorkStep
<1> QED BY <1>3, <1>4, <1>5, <1>6

\* yield() up to the trap: the thread has loaded its register and, from the
\* abstract point of view, handed over.
LEMMA YieldStep ==
  ASSUME KernelInv, Yield
  PROVE  /\ KernelInv' /\ Elsewhere /\ Cur' = Cur /\ (\A t \in Tid \ {Cur} : Kept(t)) /\ ticks' = ticks
         /\ Run = Cur /\ Run' = IF Run = "pcb0" THEN "pcb1" ELSE "pcb0"
         /\ ThreadRegs(Cur)' = [ThreadRegs(Cur) EXCEPT ![NumberReg] = MinusOne]
         /\ ThreadSp(Cur)' = ThreadSp(Cur) /\ ThreadStack(Cur)' = ThreadStack(Cur)
         /\ ThreadPc(Cur)' = ThreadPc(Cur) + 1
<1>1. /\ phase = "user" /\ phase' = "entry" /\ Running /\ InThread /\ Waiting
      /\ DOMAIN regs = Reg /\ DOMAIN csrs = {"mtvec", "mepc", "mcause", "mstatus"}
      /\ regs' = [regs EXCEPT ![NumberReg] = MinusOne]
      /\ csrs' = [csrs EXCEPT !.mepc = pc, !.mcause = YieldCause]
      /\ UNCHANGED <<platform, disk, mem, current, seg, ticks>>
  BY DEF Yield, Ecall, KernelInv, Running
<1>2. Cur' = Cur /\ Cur \in Tid /\ NumberReg \in Pushed /\ NumberReg # SP /\ SP \in Reg
  BY <1>1, CurIs, CteAssumption DEF Cur, Pushed
<1>3. /\ regs'[SP] = regs[SP] /\ csrs'.mepc = pc /\ csrs'.mcause = YieldCause
      /\ csrs'.mstatus = csrs.mstatus
      /\ DOMAIN regs' = Reg /\ DOMAIN csrs' = DOMAIN csrs
      /\ \A r \in Reg : regs'[r] = IF r = NumberReg THEN MinusOne ELSE regs[r]
  BY <1>1, <1>2
<1>4. Base' = Base /\ InProcessor(Cur) /\ InProcessor(Cur)'
  BY <1>1, <1>2 DEF Base, FirstSp, FrameWords, InProcessor
<1>5. ASSUME NEW t \in Tid, t # Cur
      PROVE  /\ Kept(t) /\ mem'[PcbOf[t]] = mem[PcbOf[t]]
             /\ FrameOk(t, mem[PcbOf[t]]) => FrameOk(t, mem[PcbOf[t]])'
  BY <1>1, <1>2, <1>5, OthersKept DEF Waiting
<1>6. Waiting'
  BY <1>1, <1>2, <1>5 DEF Waiting
<1>7. InThread'
  <2>1. SpOk(Cur, regs[SP])'
    BY <1>1, <1>2, <1>3, <1>4 DEF SpOk, FrameWords, InThread
  <2>2. Cur = "pcb0" => pc = HelloEntry + 2
    BY <1>1, CurIs, Sizes DEF Yield, YieldPoint
  <2> QED BY <1>1, <1>2, <1>3, <2>1, <2>2 DEF InThread
<1>8. KernelInv'
  BY <1>1, <1>3, <1>6, <1>7 DEF KernelInv, Running
<1>9. ThreadRegs(Cur)' = [ThreadRegs(Cur) EXCEPT ![NumberReg] = MinusOne]
  BY <1>2, <1>3, <1>4 DEF ThreadRegs, Pushed
<1>10. ThreadSp(Cur)' = ThreadSp(Cur) /\ ThreadPc(Cur)' = ThreadPc(Cur) + 1
  BY <1>1, <1>2, <1>3, <1>4 DEF ThreadSp, ThreadPc
<1>11. ThreadStack(Cur)' = ThreadStack(Cur)
  BY <1>1, <1>2, <1>4, <1>10 DEF ThreadStack
<1>12. Run = Cur /\ Run' = IF Run = "pcb0" THEN "pcb1" ELSE "pcb0"
  BY <1>1, <1>2 DEF Run, Trapped
<1>13. Elsewhere
  BY <1>1 DEF Elsewhere
<1> QED BY <1>1, <1>2, <1>5, <1>8, <1>9, <1>10, <1>11, <1>12, <1>13

-----------------------------------------------------------------------------
(***************************************************************************)
(* The trap: the thread's state moves to its frame and, when it is its     *)
(* turn again, back; nobody notices.                                       *)
(***************************************************************************)
\* trap.S up to the call.
LEMMA TrapSaveStep ==
  ASSUME KernelInv, TrapSave, KeepKernel
  PROVE  KernelInv' /\ Unnoticed /\ Elsewhere
<1>1. /\ phase = "entry" /\ phase' = "handler" /\ Running /\ InThread /\ Waiting
      /\ DOMAIN mem = Addr /\ DOMAIN regs = Reg
      /\ DOMAIN csrs = {"mtvec", "mepc", "mcause", "mstatus"}
      /\ UNCHANGED <<platform, disk, pc, current, seg, ticks>>
  BY DEF TrapSave, KeepKernel, KernelInv, Running
<1>2. /\ Cur' = Cur /\ Cur \in Tid /\ SP \in Reg /\ A0 \in Reg
      /\ SpOk(Cur, regs[SP]) /\ csrs.mcause = YieldCause
      /\ csrs.mstatus = MStatusMpp /\ (Cur = "pcb0" => csrs.mepc = HelloEntry + 2)
  BY <1>1, CurIs, CteAssumption DEF Cur, InThread
<1> PICK c : c = regs[SP] - FrameWords
  OBVIOUS
<1>3. c \in Int /\ c + FrameWords = regs[SP] /\ regs[SP] \in Int /\ SpOk(Cur, c + FrameWords)
  BY <1>2, Sizes DEF SpOk
<1>4. /\ c \in Nat \ {0} /\ c - HandlerWords .. Base[Cur] - 1 \subseteq Own(Cur) \ {PcbOf[Cur]}
      /\ c + FrameWords <= Base[Cur]
      /\ {CauseAt(c), StatusAt(c), EpcAt(c)} \subseteq c .. c + FrameWords - 1
      /\ CauseAt(c) # StatusAt(c) /\ StatusAt(c) # EpcAt(c) /\ CauseAt(c) # EpcAt(c)
      /\ \A r \in Pushed : /\ c + r \in c .. c + FrameWords - 1
                           /\ c + r \notin {CauseAt(c), StatusAt(c), EpcAt(c)}
  BY <1>2, <1>3, FrameInside
<1>5. c .. c + FrameWords - 1 \subseteq Own(Cur) \ {PcbOf[Cur]} /\ Own(Cur) \subseteq Addr
  BY <1>2, <1>3, <1>4, Sizes, Places
<1>6. /\ DOMAIN mem' = Addr /\ DOMAIN regs' = Reg /\ regs'[A0] = c
      /\ DOMAIN csrs' = DOMAIN csrs
  BY <1>1, <1>2 DEF TrapSave, WithFrame
<1>7. mem' = WithFrame(mem, c, regs, csrs)
  BY DEF TrapSave
<1>8. /\ mem'[CauseAt(c)] = csrs.mcause /\ mem'[StatusAt(c)] = csrs.mstatus
      /\ mem'[EpcAt(c)] = csrs.mepc
  <2>1. ASSUME NEW a \in {CauseAt(c), StatusAt(c), EpcAt(c)}
        PROVE  a \in Addr /\ ~(a >= c /\ a - c \in Pushed)
    <3>1. a \in Addr /\ a \in Int
      BY <1>4, <1>5
    <3>2. a - c \in Pushed => c + (a - c) = a
      BY <1>3, <3>1
    <3> QED BY <1>4, <3>1, <3>2
  <2> QED BY <1>4, <1>7, <2>1 DEF WithFrame
<1>9. ASSUME NEW r \in Pushed PROVE mem'[c + r] = regs[r]
  <2> PICK a : a = c + r
    OBVIOUS
  <2>1. a \in Addr /\ a >= c /\ a - c = r
    <3>1. r \in Nat /\ c + r \in Addr
      BY <1>4, <1>5 DEF Pushed, Reg
    <3> QED BY <1>3, <3>1
  <2>2. a \notin {CauseAt(c), StatusAt(c), EpcAt(c)}
    BY <1>4
  <2>3. mem'[a] = regs[a - c]
    BY <1>7, <2>1, <2>2 DEF WithFrame
  <2> QED BY <2>1, <2>3
<1>10. ASSUME NEW a \in Addr, a \notin c .. c + FrameWords - 1
       PROVE  mem'[a] = mem[a]
  <2>1. a \in Int
    BY CteAssumption
  <2>2. a - c \in Pushed => c + (a - c) = a
    BY <1>3, <2>1
  <2>3. ~(a >= c /\ a - c \in Pushed) /\ a \notin {CauseAt(c), StatusAt(c), EpcAt(c)}
    BY <1>4, <1>10, <2>1, <2>2
  <2> QED BY <1>7, <2>3 DEF WithFrame
<1>11. Base' = Base /\ FrameWords' = FrameWords
  BY <1>1 DEF Base, FirstSp, FrameWords
<1>12. ASSUME NEW t \in Tid, t # Cur
       PROVE  /\ Kept(t) /\ mem'[PcbOf[t]] = mem[PcbOf[t]]
              /\ FrameOk(t, mem[PcbOf[t]]) => FrameOk(t, mem[PcbOf[t]])'
  <2>1. \A a \in Own(t) : mem'[a] = mem[a]
    BY <1>2, <1>5, <1>10, <1>12, OwnApart, Places
  <2> QED BY <1>1, <1>2, <1>12, <2>1, OthersKept DEF Waiting
<1>13. Waiting'
  BY <1>1, <1>2, <1>12 DEF Waiting
<1>14. InHandler'
  <2> PICK t \in Tid : t = Cur
    BY <1>2
  <2>1. SpOk(t, c + FrameWords)'
    BY <1>3, <1>11 DEF SpOk
  <2>2. mem'[EpcAt(c)] # HelloEntry \/ t # "pcb0"
    BY <1>2, <1>8, Sizes, LayoutAssumption
  <2>3. FrameOk(t, c)'
    BY <1>2, <1>3, <1>8, <2>1, <2>2 DEF FrameOk, StatusAt, EpcAt
  <2> QED BY <1>2, <1>6, <1>8, <2>3 DEF InHandler, FrameOk, EpcAt, CauseAt
<1>15. KernelInv'
  BY <1>1, <1>6, <1>13, <1>14 DEF KernelInv, Running
<1>16. Kept(Cur)
  <2>1. InProcessor(Cur) /\ ~InProcessor(Cur)' /\ Frame(Cur)' = c /\ c # Null
    BY <1>1, <1>2, <1>4, <1>6 DEF InProcessor, Frame, Null
  <2>2. ThreadRegs(Cur)' = ThreadRegs(Cur)
    BY <1>2, <1>9, <2>1 DEF ThreadRegs, FrameRegs
  <2>3. ThreadSp(Cur)' = ThreadSp(Cur) /\ ThreadSp(Cur) = regs[SP]
    BY <1>2, <1>3, <1>11, <2>1 DEF ThreadSp
  <2>4. ThreadPc(Cur)' = ThreadPc(Cur)
    BY <1>1, <1>2, <1>8, <2>1 DEF ThreadPc, EpcAt
  <2>5. \A a \in regs[SP] .. Base[Cur] - 1 : mem'[a] = mem[a]
    <3>1. \A a \in regs[SP] .. Base[Cur] - 1 :
             a \in c - HandlerWords .. Base[Cur] - 1 /\ a \notin c .. c + FrameWords - 1
      BY <1>2, <1>3, Sizes, Places
    <3> QED BY <1>4, <1>5, <1>10, <3>1
  <2>6. ThreadStack(Cur)' = ThreadStack(Cur)
    <3>1. \A a \in ThreadSp(Cur) .. Base[Cur] - 1 : mem'[a] = mem[a]
      BY <2>3, <2>5
    <3> PICK t \in Tid : t = Cur
      BY <1>2
    <3>2. ThreadStack(t)' = ThreadStack(t)
      BY <1>1, <1>2, <1>3, <2>3, <3>1, StackKept
    <3> QED BY <1>2, <3>2
  <2> QED BY <2>2, <2>3, <2>4, <2>6 DEF Kept
<1>17. Run' = Run
  BY <1>1, <1>2 DEF Run, Trapped
<1>18. Elsewhere
  BY <1>2, <1>5, <1>10, Places DEF Elsewhere
<1> QED BY <1>1, <1>2, <1>12, <1>15, <1>16, <1>17, <1>18 DEF Unnoticed

\* trap.S after the call: the frame a0 points to becomes the processor's state.
LEMMA TrapRestoreStep ==
  ASSUME KernelInv, TrapRestore, KeepKernel
  PROVE  KernelInv' /\ Unnoticed /\ Elsewhere
<1>1. /\ phase = "exit" /\ phase' = "user" /\ Running /\ InExit /\ Waiting
      /\ DOMAIN mem = Addr /\ DOMAIN csrs = {"mtvec", "mepc", "mcause", "mstatus"}
      /\ UNCHANGED <<platform, disk, mem, current, seg, ticks>>
  BY DEF TrapRestore, KeepKernel, KernelInv, Running
<1>2. Cur' = Cur /\ Cur \in Tid /\ SP \in Reg
  BY <1>1, CurIs, CteAssumption DEF Cur
<1> PICK c : c = regs[A0]
  OBVIOUS
<1> PICK me \in Tid : me = Cur
  BY <1>2
<1>3. FrameOk(me, c) /\ me # "boot" /\ c \in Int /\ SpOk(me, c + FrameWords)
  BY <1>1 DEF InExit, FrameOk
<1>4. /\ DOMAIN regs' = Reg /\ DOMAIN csrs' = DOMAIN csrs
      /\ regs'[SP] = c + FrameWords /\ pc' = mem[EpcAt(c)]
      /\ csrs'.mstatus = mem[StatusAt(c)]
      /\ \A r \in Pushed : regs'[r] = mem[c + r]
  BY <1>1, <1>2 DEF TrapRestore, Pushed
<1>5. Base' = Base /\ FrameWords' = FrameWords
  BY <1>1 DEF Base, FirstSp, FrameWords
<1>6. ASSUME NEW t \in Tid, t # me
      PROVE  /\ Kept(t) /\ mem'[PcbOf[t]] = mem[PcbOf[t]]
             /\ FrameOk(t, mem[PcbOf[t]]) => FrameOk(t, mem[PcbOf[t]])'
  BY <1>1, <1>2, <1>6, OthersKept DEF Waiting
<1>7. Waiting'
  BY <1>1, <1>2, <1>6 DEF Waiting
<1>8. InThread'
  <2>1. SpOk(me, regs[SP])'
    BY <1>3, <1>4, <1>5 DEF SpOk
  <2> QED BY <1>1, <1>2, <1>3, <1>4, <1>5, <2>1 DEF InThread, FrameOk
<1>9. KernelInv'
  BY <1>1, <1>4, <1>7, <1>8 DEF KernelInv, Running
<1>10. Kept(me)
  <2>1. /\ InProcessor(me)' /\ ~InProcessor(me) /\ Frame(me) = c
        /\ c # Null
    BY <1>1, <1>2, <1>3, FrameInside DEF InProcessor, Frame, Null
  <2>2. ThreadRegs(me)' = ThreadRegs(me)
    BY <1>4, <2>1 DEF ThreadRegs, FrameRegs
  <2>3. ThreadSp(me)' = ThreadSp(me) /\ ThreadSp(me) = c + FrameWords
    BY <1>4, <2>1 DEF ThreadSp
  <2>4. ThreadPc(me)' = ThreadPc(me)
    BY <1>1, <1>4, <2>1 DEF ThreadPc
  <2>5. ThreadStack(me)' = ThreadStack(me)
    BY <1>1, <1>5, <2>3 DEF ThreadStack
  <2> QED BY <2>2, <2>3, <2>4, <2>5 DEF Kept
<1>11. Run' = Run
  BY <1>1, <1>2 DEF Run, Trapped
<1> QED BY <1>1, <1>6, <1>9, <1>10, <1>11 DEF Unnoticed, Elsewhere

\* __am_irq_handle: schedule() stores the frame of the one that yielded in its
\* PCB and returns the other's.
LEMMA IrqHandleStep ==
  ASSUME KernelInv, IrqHandle
  PROVE  KernelInv' /\ Unnoticed /\ Elsewhere
<1>1. /\ phase = "handler" /\ Running /\ InHandler /\ Waiting
      /\ current \in {BootPcb, Pcb0, Pcb1} /\ EhdrOk(disk, Pal)
      /\ disk \in Disks /\ platform \in Platforms
      /\ DOMAIN mem = Addr /\ DOMAIN regs = Reg
      /\ DOMAIN csrs = {"mtvec", "mepc", "mcause", "mstatus"}
      /\ UNCHANGED <<platform, disk, pc, csrs, seg, ticks>>
  BY DEF IrqHandle, KernelInv, Running
<1> PICK me \in Tid : me = Cur
  BY CurIs
<1> PICK next \in Tid : next = IF me = "pcb0" THEN "pcb1" ELSE "pcb0"
  BY DEF Tid
<1> PICK c : c = regs[A0]
  OBVIOUS
<1>2. /\ PcbOf[me] = current /\ PcbOf[next] = NextPcb /\ next # me
      /\ BootPcb \notin {Pcb0, Pcb1} /\ Pcb0 # Pcb1
  BY <1>1, CurIs, Pcbs, Sizes DEF NextPcb
<1>3. /\ FrameOk(me, c) /\ c \in Int /\ SpOk(me, c + FrameWords)
      /\ mem[CauseAt(c)] = YieldCause
      /\ (me = "pcb0" => mem[EpcAt(c)] = HelloEntry + 2)
  BY <1>1 DEF InHandler, FrameOk
<1>4. /\ c \in Nat \ {0} /\ c - HandlerWords .. Base[me] - 1 \subseteq Own(me) \ {PcbOf[me]}
      /\ c + FrameWords <= Base[me]
      /\ {CauseAt(c), StatusAt(c), EpcAt(c)} \subseteq c .. c + FrameWords - 1
      /\ CauseAt(c) # StatusAt(c) /\ StatusAt(c) # EpcAt(c) /\ CauseAt(c) # EpcAt(c)
      /\ \A r \in Pushed : /\ c + r \in c .. c + FrameWords - 1
                           /\ c + r \notin {CauseAt(c), StatusAt(c), EpcAt(c)}
  BY <1>3, FrameInside
<1>5. /\ c .. c + FrameWords - 1 \subseteq Own(me) \ {PcbOf[me]} /\ Own(me) \subseteq Addr
      /\ c - HandlerWords .. c - 1 \subseteq Own(me) \ {PcbOf[me]}
      /\ PcbOf[me] \in Own(me)
  BY <1>3, <1>4, Sizes, Places DEF Own
<1> DEFINE stacked == [a \in Addr |-> IF a < c /\ a >= c - HandlerWords THEN Junk ELSE mem[a]]
           past == [stacked EXCEPT ![EpcAt(c)] = @ + 1]
           switched == [past EXCEPT ![current] = c]
<1>6. /\ mem' = switched /\ current' = NextPcb
      /\ regs' = [regs EXCEPT ![A0] = switched[NextPcb]]
      /\ phase' = IF switched[NextPcb] = Null THEN "panic" ELSE "exit"
  BY <1>3 DEF IrqHandle, PastEcall
<1>7. /\ DOMAIN mem' = Addr /\ mem'[PcbOf[me]] = c
      /\ mem'[EpcAt(c)] = mem[EpcAt(c)] + 1
      /\ \A a \in Addr \ Own(me) : mem'[a] = mem[a]
      /\ \A a \in c .. Base[me] - 1 : a # EpcAt(c) => mem'[a] = mem[a]
  <2>1. /\ DOMAIN stacked = Addr
        /\ \A a \in Addr : stacked[a] = IF a < c /\ a >= c - HandlerWords THEN Junk ELSE mem[a]
    OBVIOUS
  <2>2. EpcAt(c) \in Addr /\ EpcAt(c) \in Own(me) \ {PcbOf[me]} /\ EpcAt(c) \in Int /\ EpcAt(c) >= c
        /\ current \in Addr
    BY <1>2, <1>3, <1>4, <1>5, Sizes
  <2> HIDE DEF stacked
  <2>3. /\ DOMAIN switched = Addr
        /\ \A a \in Addr : switched[a] = IF a = current THEN c
                             ELSE IF a = EpcAt(c) THEN stacked[a] + 1 ELSE stacked[a]
    BY <2>1, <2>2
  <2> HIDE DEF switched
  <2>4. mem'[EpcAt(c)] = mem[EpcAt(c)] + 1 /\ mem'[PcbOf[me]] = c
    BY <1>2, <1>3, <1>6, <2>1, <2>2, <2>3
  <2>5. ASSUME NEW a \in Addr \ Own(me) PROVE mem'[a] = mem[a]
    <3>1. a \in Int /\ a # current /\ a # EpcAt(c) /\ ~(a < c /\ a >= c - HandlerWords)
      <4>1. a \in Int
        BY CteAssumption
      <4> QED BY <1>2, <1>3, <1>5, <2>2, <4>1, Sizes
    <3> QED BY <1>6, <2>1, <2>3, <3>1
  <2>6. ASSUME NEW a \in c .. Base[me] - 1, a # EpcAt(c) PROVE mem'[a] = mem[a]
    <3>1. a \in Addr /\ a # current /\ ~(a < c)
      <4>1. a \in c - HandlerWords .. Base[me] - 1
        BY <1>3, Sizes, Places
      <4> QED BY <1>2, <1>3, <1>4, <1>5, <4>1, Places
    <3> QED BY <1>6, <2>1, <2>3, <2>6, <3>1
  <2> QED BY <1>6, <2>3, <2>4, <2>5, <2>6
<1>8. Cur' = next
  BY <1>2, <1>6, CurIs DEF Cur, NextPcb
<1>9. switched[NextPcb] = mem[PcbOf[next]] /\ mem'[PcbOf[next]] = mem[PcbOf[next]]
  <2>1. PcbOf[next] \in Addr \ Own(me)
    BY <1>2, OwnApart, Places DEF Own
  <2> HIDE DEF switched
  <2> QED BY <1>2, <1>6, <1>7, <2>1
<1> HIDE DEF switched, past, stacked
<1>10. /\ phase' = IF mem[PcbOf[next]] = Null THEN "panic" ELSE "exit"
       /\ DOMAIN regs' = Reg /\ regs'[A0] = mem[PcbOf[next]]
  BY <1>1, <1>6, <1>9, CteAssumption
<1>11. Base' = Base /\ FrameWords' = FrameWords
  BY <1>1 DEF Base, FirstSp, FrameWords
<1>12. ASSUME NEW t \in Tid, t # me
       PROVE  /\ Kept(t) /\ mem'[PcbOf[t]] = mem[PcbOf[t]]
              /\ FrameOk(t, mem[PcbOf[t]]) => FrameOk(t, mem[PcbOf[t]])'
  <2>1. \A a \in Own(t) : mem'[a] = mem[a]
    BY <1>7, <1>12, OwnApart, Places
  <2>2. mem[PcbOf[t]] = Null \/ FrameOk(t, mem[PcbOf[t]])
    BY <1>1, <1>12 DEF Waiting
  <2> QED BY <1>1, <1>8, <1>10, <1>12, <2>1, <2>2, OthersKept
<1>13. FrameOk(me, c)' /\ FrameRegs(mem, c)' = FrameRegs(mem, c)
  <2>1. SpOk(me, c + FrameWords)'
    BY <1>3, <1>11 DEF SpOk
  <2>2. c .. c + FrameWords - 1 \subseteq c .. Base[me] - 1
    BY <1>3, <1>4, Sizes, Places
  <2>3. mem'[StatusAt(c)] = MStatusMpp
    BY <1>3, <1>4, <1>7, <2>2 DEF FrameOk
  <2>4. mem'[EpcAt(c)] # HelloEntry \/ me # "pcb0"
    BY <1>3, <1>7, LayoutAssumption
  <2>5. \A r \in Pushed : mem'[c + r] = mem[c + r]
    BY <1>4, <1>7, <2>2
  <2> QED BY <1>3, <2>1, <2>3, <2>4, <2>5 DEF FrameOk, FrameRegs, StatusAt, EpcAt
<1>14. Kept(me)
  <2>1. /\ ~InProcessor(me)' /\ ~InProcessor(me) /\ Frame(me) = c /\ Frame(me)' = c
        /\ c # Null
    BY <1>1, <1>2, <1>4, <1>7, <1>8, <1>10 DEF InProcessor, Frame, Null
  <2>2. ThreadRegs(me)' = ThreadRegs(me)
    BY <1>13, <2>1 DEF ThreadRegs, FrameRegs
  <2>3. ThreadSp(me)' = ThreadSp(me) /\ ThreadSp(me) = c + FrameWords
    BY <1>11, <2>1 DEF ThreadSp
  <2>4. ThreadPc(me)' = ThreadPc(me)
    BY <1>1, <1>2, <1>7, <1>8, <2>1 DEF ThreadPc, EpcAt
  <2>5. \A a \in c + FrameWords .. Base[me] - 1 : mem'[a] = mem[a]
    <3>1. \A a \in c + FrameWords .. Base[me] - 1 : a \in c .. Base[me] - 1 /\ a # EpcAt(c)
      BY <1>3, <1>4, Sizes, Places
    <3> QED BY <1>7, <3>1
  <2>6. ThreadStack(me)' = ThreadStack(me)
    <3>1. ThreadSp(me) \in Int
      BY <1>3, <2>3, Sizes
    <3> QED BY <1>1, <2>3, <2>5, <3>1, StackKept
  <2> QED BY <2>2, <2>3, <2>4, <2>6 DEF Kept
<1>15. Run' = Run
  BY <1>1, <1>2, <1>8, <1>10 DEF Run, Trapped
<1>16. phase' = "exit" => Waiting' /\ InExit'
  <2> SUFFICES ASSUME phase' = "exit" PROVE Waiting' /\ InExit'
    OBVIOUS
  <2>1. FrameOk(next, mem[PcbOf[next]])
    BY <1>1, <1>2, <1>10 DEF Waiting
  <2>2. InExit'
    <3>1. FrameOk(next, mem[PcbOf[next]])' /\ mem'[PcbOf[next]] = regs'[A0]
      BY <1>2, <1>10, <1>12, <2>1
    <3>2. FrameOk(next, regs[A0])'
      BY <3>1 DEF FrameOk
    <3> QED BY <1>2, <1>8, <3>2 DEF InExit
  <2>3. Waiting'
    <3>1. FrameOk(me, mem[PcbOf[me]])'
      BY <1>7, <1>13 DEF FrameOk
    <3> QED BY <1>1, <1>8, <1>12, <3>1 DEF Waiting
  <2> QED BY <2>2, <2>3
<1>17. phase' = "panic" => current' = Pcb1 /\ platform' = "npc"
  <2>1. mem[PcbOf[next]] = Null => ~FrameOk(next, mem[PcbOf[next]])
    BY FrameInside DEF FrameOk, Null
  <2> QED BY <1>1, <1>2, <1>6, <1>10, <2>1, LayoutAssumption, Pcbs DEF Waiting, NextPcb
<1>18. KernelInv'
  BY <1>1, <1>2, <1>6, <1>7, <1>10, <1>16, <1>17 DEF KernelInv, Running, NextPcb
<1>19. Elsewhere
  BY <1>7, Places DEF Elsewhere
<1> QED BY <1>1, <1>12, <1>14, <1>15, <1>18, <1>19 DEF Unnoticed

-----------------------------------------------------------------------------
LEMMA KernelInit == Init => KernelInv
<1> SUFFICES ASSUME Init PROVE KernelInv
  OBVIOUS
<1>1. /\ DOMAIN mem = Addr /\ DOMAIN regs = Reg
      /\ DOMAIN csrs = {"mtvec", "mepc", "mcause", "mstatus"}
      /\ disk \in Disks /\ platform \in Platforms
      /\ phase = "init_irq" /\ current = Null /\ seg = 0 /\ pc = BootPc
      /\ regs = [r \in Reg |-> IF r = SP THEN BootTop ELSE Zero]
      /\ csrs.mstatus = MStatusMpp
  BY DEF Init
<1>2. \A a \in Bss : a \in Addr => mem[a] = Zero
  BY DEF Init
<1>3. Own("pcb0") \subseteq Bss /\ Own("pcb1") \subseteq Bss /\ BootPcb \in Bss
  BY Sizes DEF Own, Floor, Ceil, PcbOf, Bss, StackEnd
<1>4. Own("pcb0") \subseteq Addr /\ Own("pcb1") \subseteq Addr /\ BootPcb \in Addr
  BY Places, Pcbs
<1> QED BY <1>1, <1>2, <1>3, <1>4 DEF KernelInv, Booting, Running, Null, Zero

LEMMA KernelStep ==
  ASSUME KernelInv, [Next]_procVars
  PROVE  KernelInv'
<1>1. CASE InitIrq
  BY <1>1, InitIrqStep
<1>2. CASE InitProc
  BY <1>2, InitProcStep
<1>3. CASE LoadSegment
  BY <1>3, LoadSegmentStep
<1>4. CASE LoaderDone
  BY <1>4, LoaderDoneStep
<1>5. CASE HelloStep
  BY <1>5, HelloWorks
<1>6. CASE UserStep
  BY <1>6, UserWorks
<1>7. CASE Yield
  BY <1>7, YieldStep
<1>8. CASE TrapSave /\ KeepKernel
  BY <1>8, TrapSaveStep
<1>9. CASE IrqHandle
  BY <1>9, IrqHandleStep
<1>10. CASE TrapRestore /\ KeepKernel
  BY <1>10, TrapRestoreStep
<1>11. CASE UNCHANGED procVars
  BY <1>11 DEF procVars, machineVars, KernelInv, Booting, Running, Waiting, InThread,
     InHandler, InExit, FrameOk, SpOk, Cur, Base, FirstSp, FrameWords
<1> QED BY <1>1, <1>2, <1>3, <1>4, <1>5, <1>6, <1>7, <1>8, <1>9, <1>10, <1>11 DEF Next

\* Whatever the kernel is doing, every suspended thread has a frame it can go on
\* from, within its own stack, and the running one has room below its sp.
THEOREM KernelInvariant == Spec => []KernelInv
  BY KernelInit, KernelStep, PTL DEF Spec

\* No frame and no stack leaves its PCB, and none grows into the PCB's own
\* fields (proc.h:9), for every size of the stacks.
THEOREM FramesStayInPcb == Spec => []FramesInPcb
<1>1. ASSUME KernelInv PROVE FramesInPcb
  <2> SUFFICES ASSUME NEW t \in {"pcb0", "pcb1"}, Running, Frame(t) # Null
               PROVE  LET live == IF InProcessor(t) THEN regs[SP] - FrameWords ELSE Frame(t) IN
                      /\ PcbOf[t] + HandlerWords < live
                      /\ ThreadSp(t) <= Base[t] /\ Base[t] <= StackEnd(PcbOf[t])
    BY DEF FramesInPcb
  <2>1. t \in Tid /\ Floor[t] = PcbOf[t] /\ Ceil[t] = StackEnd(PcbOf[t])
    BY DEF Floor, Ceil, PcbOf, Tid
  <2>2. Base[t] <= StackEnd(PcbOf[t])
    BY <2>1, Places
  <2>3. CASE InProcessor(t)
    <3>1. SpOk(t, regs[SP])
      BY <1>1, <2>3 DEF InProcessor, Running, KernelInv, InThread
    <3> QED BY <2>1, <2>2, <2>3, <3>1 DEF SpOk, ThreadSp
  <2>4. CASE ~InProcessor(t)
    <3>1. FrameOk(t, Frame(t))
      BY <1>1, <2>1, <2>4 DEF InProcessor, Running, KernelInv, InHandler, InExit, Waiting, Frame
    <3>2. Frame(t) \in Int /\ FrameWords \in Int
      BY <3>1, Sizes DEF FrameOk
    <3> QED BY <2>1, <2>2, <2>4, <3>1, <3>2 DEF FrameOk, SpOk, ThreadSp
  <2> QED BY <2>3, <2>4
<1> QED BY <1>1, KernelInvariant, PTL

\* Every thread runs with the mstatus it trapped with, although nemu's trap.S
\* sets MPRV in the handler.
THEOREM MprvStaysInHandler == Spec => []ThreadsRunWithoutMprv
<1>1. KernelInv => ThreadsRunWithoutMprv
  BY DEF KernelInv, InThread, ThreadsRunWithoutMprv
<1> QED BY <1>1, KernelInvariant, PTL

\* The kernel panics only over a ramdisk without a program, or on npc, which
\* cannot make the program's context; main() is never resumed (main.c:36).
THEOREM PanicsHaveCause == Spec => []PanicHasCause
<1>1. KernelInv => PanicHasCause
  <2> SUFFICES ASSUME KernelInv PROVE PanicHasCause
    OBVIOUS
  <2>1. phase = "user" /\ current \notin Pcb => Cur = "boot"
    BY DEF Cur, Pcb
  <2> QED BY <2>1 DEF KernelInv, InThread, PanicHasCause, Running
<1> QED BY <1>1, KernelInvariant, PTL

-----------------------------------------------------------------------------
(***************************************************************************)
(* The program in memory.                                                  *)
(***************************************************************************)
\* Where the words of a segment lie.
LEMMA SegmentPlaces ==
  ASSUME KernelInv, EhdrOk(disk, Pal), NEW i \in 0 .. Ehdr(disk, Pal).phnum - 1,
         PhdrOk(disk, Pal, i), Phdr(disk, Pal, i).type = PtLoad,
         NEW k \in 0 .. Phdr(disk, Pal, i).memsz - 1
  PROVE  /\ Phdr(disk, Pal, i).vaddr + k \in SegmentWords(disk, i)
         /\ SegmentWords(disk, i) \subseteq Addr \ KernelWords
         /\ \A j \in 0 .. i - 1 :
              PhdrOk(disk, Pal, j) => SegmentWords(disk, i) \cap SegmentWords(disk, j) = {}
<1>1. disk \in Disks /\ i \in Nat /\ i \in 0 .. Ehdr(disk, Pal).phnum - 1
  BY HeaderNat DEF KernelInv
<1>2. /\ SegmentWords(disk, i) \subseteq Addr \ KernelWords
      /\ \A j \in 0 .. i - 1 :
           PhdrOk(disk, Pal, j) => SegmentWords(disk, i) \cap SegmentWords(disk, j) = {}
  BY <1>1, DiskAssumption
<1> DEFINE ph == Phdr(disk, Pal, i)
<1>3. {ph.vaddr, ph.filesz, ph.memsz} \subseteq Nat
  BY <1>1, PhdrNat
<1>4. SegmentWords(disk, i) = (ph.vaddr .. ph.vaddr + ph.filesz - 1)
                                \cup (ph.vaddr .. ph.vaddr + ph.memsz - 1)
  BY DEF SegmentWords
<1>5. ph.vaddr + k \in SegmentWords(disk, i)
  <2>1. k \in 0 .. ph.memsz - 1
    OBVIOUS
  <2> HIDE DEF ph
  <2> QED BY <1>3, <1>4, <2>1
<1> QED BY <1>2, <1>5

\* A step that leaves a segment's words alone.
LEMMA LoadedKept ==
  ASSUME KernelInv, EhdrOk(disk, Pal), UNCHANGED disk,
         NEW i \in 0 .. Ehdr(disk, Pal).phnum - 1, PhdrOk(disk, Pal, i), Loaded(i),
         \A a \in SegmentWords(disk, i) : mem'[a] = mem[a]
  PROVE  PhdrOk(disk, Pal, i)' /\ Loaded(i)'
<1>1. PhdrOk(disk, Pal, i)' /\ Phdr(disk, Pal, i)' = Phdr(disk, Pal, i)
  BY Zenon DEF PhdrOk, Phdr
<1>2. ASSUME Phdr(disk, Pal, i).type = PtLoad, NEW k \in 0 .. Phdr(disk, Pal, i).memsz - 1
      PROVE  mem'[Phdr(disk, Pal, i).vaddr + k] = mem[Phdr(disk, Pal, i).vaddr + k]
  BY <1>2, SegmentPlaces
<1> QED BY <1>1, <1>2 DEF Loaded

LEMMA ImageStep ==
  ASSUME KernelInv, ImageInv, [Next]_procVars
  PROVE  ImageInv'
<1>1. CASE InitIrq \/ InitProc
  <2>1. ~Running' /\ (phase' = "loader" => seg = 0 /\ seg' = 0)
    BY <1>1 DEF InitIrq, InitProc, Running, KernelInv, Booting
  <2> QED BY <2>1 DEF ImageInv
<1>2. CASE LoadSegment
  <2>1. /\ phase = "loader" /\ EhdrOk(disk, Pal) /\ disk' = disk /\ ~Running'
        /\ seg \in 0 .. Ehdr(disk, Pal).phnum /\ seg < Ehdr(disk, Pal).phnum
        /\ disk \in Disks
    BY <1>2 DEF LoadSegment, KernelInv, Booting, Running
  <2>2. Ehdr(disk, Pal).phnum \in Nat
    BY <2>1, HeaderNat
  <2> SUFFICES ASSUME phase' = "loader", NEW i \in 0 .. seg' - 1
               PROVE  PhdrOk(disk, Pal, i)' /\ Loaded(i)'
    BY <2>1 DEF ImageInv
  <2>3. PhdrOk(disk, Pal, seg) /\ seg' = seg + 1 /\ mem' = LoadPhdr(disk, Pal, seg, mem)
    BY <1>2 DEF LoadSegment
  <2>4. i \in 0 .. Ehdr(disk, Pal).phnum - 1 /\ seg \in 0 .. Ehdr(disk, Pal).phnum - 1
    BY <2>1, <2>2, <2>3
  <2>5. CASE i < seg
    <3>1. i \in 0 .. seg - 1 /\ PhdrOk(disk, Pal, i) /\ Loaded(i)
      BY <2>1, <2>4, <2>5 DEF ImageInv
    <3>2. \A a \in SegmentWords(disk, i) : mem'[a] = mem[a]
      <4>1. /\ SegmentWords(disk, seg) \cap SegmentWords(disk, i) = {}
            /\ SegmentWords(disk, i) \subseteq Addr
        BY <2>1, <2>3, <2>4, <3>1, DiskAssumption
      <4>2. \A a \in Addr \ SegmentWords(disk, seg) : mem'[a] = mem[a]
        BY <1>2, <2>3, SegmentWritten
      <4> QED BY <4>1, <4>2
    <3> QED BY <2>1, <2>4, <3>1, <3>2, LoadedKept
  <2>6. CASE i = seg
    <3> PICK ph : ph = Phdr(disk, Pal, seg)
      OBVIOUS
    <3>1. PhdrOk(disk, Pal, i)' /\ Phdr(disk, Pal, i)' = ph
      <4>1. PhdrOk(disk, Pal, i)' = PhdrOk(disk, Pal, i) /\ Phdr(disk, Pal, i)' = Phdr(disk, Pal, i)
        BY <2>1 DEF PhdrOk, Phdr
      <4> QED BY <2>3, <2>6, <4>1
    <3>2. seg \in Nat /\ {ph.offset, ph.vaddr, ph.filesz, ph.memsz} \subseteq Nat
      BY <2>1, <2>3, <2>4, PhdrNat
    <3>3. ASSUME ph.type = PtLoad, NEW k \in 0 .. ph.memsz - 1
          PROVE  mem'[ph.vaddr + k] = IF k < ph.filesz THEN FsWord(disk, Pal, ph.offset + k) ELSE 0
      <4>1. mem' = [a \in DOMAIN mem |->
              CASE a \in ph.vaddr .. ph.vaddr + ph.filesz - 1 ->
                     FsWord(disk, Pal, ph.offset + a - ph.vaddr)
                [] a \in ph.vaddr + ph.filesz .. ph.vaddr + ph.memsz - 1 -> 0
                [] OTHER -> mem[a]]
        BY <2>3, <3>3 DEF LoadPhdr
      <4> PICK a : a = ph.vaddr + k
        OBVIOUS
      <4>2. a \in DOMAIN mem
        BY <2>1, <2>3, <2>4, <3>3, SegmentPlaces DEF KernelInv
      <4>3. k \in Nat /\ a \in Nat /\ ph.offset + a - ph.vaddr = ph.offset + k
        BY <3>2
      <4>4. CASE k < ph.filesz
        <5>1. /\ a \in ph.vaddr .. ph.vaddr + ph.filesz - 1
              /\ a \notin ph.vaddr + ph.filesz .. ph.vaddr + ph.memsz - 1
          BY <3>2, <4>3, <4>4
        <5>2. mem'[a] = FsWord(disk, Pal, ph.offset + a - ph.vaddr)
          BY <4>1, <4>2, <5>1
        <5> QED BY <4>3, <4>4, <5>2
      <4>5. CASE ~(k < ph.filesz)
        <5>1. /\ a \notin ph.vaddr .. ph.vaddr + ph.filesz - 1
              /\ a \in ph.vaddr + ph.filesz .. ph.vaddr + ph.memsz - 1
          BY <3>2, <4>3, <4>5
        <5> QED BY <4>1, <4>2, <4>5, <5>1
      <4> QED BY <4>4, <4>5
    <3>4. Loaded(i)'
      BY <2>1, <3>1, <3>3 DEF Loaded
    <3> QED BY <3>1, <3>4
  <2> QED BY <2>1, <2>3, <2>5, <2>6
<1>3. CASE Elsewhere /\ UNCHANGED disk /\ phase' # "loader"
           /\ (Running' => Running \/ (phase = "loader" /\ seg = Ehdr(disk, Pal).phnum))
  <2> SUFFICES ASSUME Running', NEW i \in 0 .. Ehdr(disk, Pal).phnum - 1
               PROVE  PhdrOk(disk, Pal, i)' /\ Loaded(i)'
    BY <1>3 DEF ImageInv
  <2>1. EhdrOk(disk, Pal) /\ PhdrOk(disk, Pal, i) /\ Loaded(i)
    BY <1>3 DEF ImageInv, KernelInv, Booting
  <2>2. \A a \in SegmentWords(disk, i) : mem'[a] = mem[a]
    <3>1. disk \in Disks
      BY DEF KernelInv
    <3>2. SegmentWords(disk, i) \subseteq Addr \ KernelWords
      BY <2>1, <3>1, DiskAssumption
    <3> QED BY <1>3, <3>2 DEF Elsewhere
  <2> QED BY <1>3, <2>1, <2>2, LoadedKept
<1>4. CASE LoaderDone
  BY <1>3, <1>4, LoaderDoneStep DEF LoaderDone
<1>5. CASE HelloStep
  BY <1>3, <1>5, HelloWorks DEF HelloStep, PushReg, SetReg, Jump, Ticks, Running
<1>6. CASE UserStep
  <2>1. UNCHANGED <<disk, phase>>
    BY <1>6 DEF UserStep, PushReg, PopReg, SetReg, Jump, Ticks
  <2> QED BY <1>3, <1>6, <2>1, UserWorks DEF UserStep, Running
<1>7. CASE Yield
  BY <1>3, <1>7, YieldStep DEF Yield, Ecall, Running
<1>8. CASE TrapSave /\ KeepKernel
  BY <1>3, <1>8, TrapSaveStep DEF TrapSave, KeepKernel, Running
<1>9. CASE IrqHandle
  <2>1. UNCHANGED disk /\ phase = "handler" /\ phase' \in {"panic", "exit"}
    BY <1>9 DEF IrqHandle
  <2> QED BY <1>3, <1>9, <2>1, IrqHandleStep DEF Running
<1>10. CASE TrapRestore /\ KeepKernel
  BY <1>3, <1>10, TrapRestoreStep DEF TrapRestore, KeepKernel, Running
<1>11. CASE UNCHANGED procVars
  BY <1>11 DEF procVars, machineVars, ImageInv, Loaded, Running
<1> QED BY <1>1, <1>2, <1>4, <1>5, <1>6, <1>7, <1>8, <1>9, <1>10, <1>11 DEF Next

\* The loader's promise, for every ramdisk: once loader() has returned, every
\* word of a loadable segment is the file's and 0 past the file's part, and no
\* later store of the kernel or of a thread reaches the program.
THEOREM ProgramLoaded == Spec => []LoadedImage
<1>1. Init => ImageInv
  BY DEF Init, ImageInv, Running
<1>2. KernelInv /\ ImageInv => LoadedImage
  <2> SUFFICES ASSUME KernelInv, ImageInv, Running,
                      NEW i \in 0 .. Ehdr(disk, Pal).phnum - 1, Phdr(disk, Pal, i).type = PtLoad,
                      NEW k \in 0 .. Phdr(disk, Pal, i).memsz - 1
               PROVE  LET ph == Phdr(disk, Pal, i)
                          at == disk.table[CHOOSE n \in DOMAIN disk.table :
                                             disk.table[n].name = Pal].disk_offset
                      IN mem[ph.vaddr + k] = IF k < ph.filesz
                                             THEN disk.words[at + ph.offset + k + 1] ELSE 0
    BY DEF LoadedImage
  <2>1. /\ disk \in Disks /\ EhdrOk(disk, Pal) /\ PhdrOk(disk, Pal, i) /\ Loaded(i)
        /\ FileIndex(disk, Pal) # 0
    BY DEF KernelInv, ImageInv, EhdrOk, FsReadable
  <2> PICK at : at = disk.table[FileIndex(disk, Pal)].disk_offset
    OBVIOUS
  <2>2. /\ at \in Nat
        /\ at = disk.table[CHOOSE n \in DOMAIN disk.table : disk.table[n].name = Pal].disk_offset
    BY <2>1, TheFile
  <2>3. Phdr(disk, Pal, i).offset \in Nat /\ i \in Nat
    BY <2>1, HeaderNat, PhdrNat
  <2> PICK off : off = Phdr(disk, Pal, i).offset
    OBVIOUS
  <2>4. at + (off + k) + 1 = at + off + k + 1
    BY <2>2, <2>3
  <2>5. FsWord(disk, Pal, off + k) = disk.words[at + off + k + 1]
    BY <2>4 DEF FsWord, DiskOffset
  <2> QED BY <2>1, <2>2, <2>5 DEF Loaded
<1> QED BY <1>1, <1>2, ImageStep, KernelInvariant, PTL DEF Spec

-----------------------------------------------------------------------------
(***************************************************************************)
(* The kernel implements NanosThreads: booting, trapping, scheduling and   *)
(* resuming are stutters of the threads; an instruction is a Work step and *)
(* an ecall a Yield step.                                                  *)
(***************************************************************************)
Regs == [t \in {"boot", "pcb0", "pcb1"} |-> ThreadRegs(t)]
Stacks == [t \in {"boot", "pcb0", "pcb1"} |-> ThreadStack(t)]
Pcs == [t \in {"boot", "pcb0", "pcb1"} |-> ThreadPc(t)]

LEMMA ThreadsInit ==
  ASSUME Init
  PROVE  Threads!Init
<1>1. /\ phase = "init_irq" /\ current = Null /\ ticks = 0 /\ KernelInv /\ Booting
  BY KernelInit DEF Init, KernelInv
<1>2. Cur = "boot"
  BY <1>1, CurIs
<1>3. ASSUME NEW t \in Tid PROVE ThreadSp(t) = Base[t]
  <2>1. CASE t = "boot"
    <3>1. regs[SP] = BootTop
      BY <1>1, CteAssumption DEF Booting
    <3>2. InProcessor(t)
      BY <1>1, <1>2, <2>1 DEF InProcessor
    <3>3. Base["boot"] = BootTop
      BY DEF Base
    <3> QED BY <2>1, <3>1, <3>2, <3>3 DEF ThreadSp
  <2>2. CASE t # "boot"
    <3>1. t \in {"pcb0", "pcb1"}
      BY <2>2 DEF Tid
    <3>2. mem[PcbOf[t]] = Null
      BY <1>1, <3>1, Pcbs DEF Booting, Null, Zero
    <3>3. ~InProcessor(t) /\ Frame(t) = Null
      BY <1>1, <1>2, <2>2, <3>2 DEF InProcessor, Frame
    <3> QED BY <3>3 DEF ThreadSp
  <2> QED BY <2>1, <2>2
<1>4. ASSUME NEW t \in Tid PROVE ThreadStack(t) = <<>>
  <2>1. 1 .. Base[t] - ThreadSp(t) = {}
    BY <1>3, Places
  <2> QED BY <2>1 DEF ThreadStack
<1>5. Stacks = [t \in {"boot", "pcb0", "pcb1"} |-> <<>>]
  BY <1>4 DEF Stacks, Tid
<1> QED BY <1>1, <1>2, <1>5 DEF Threads!Init, Threads!Thread, Trapped, Stacks

LEMMA UnnoticedStutters ==
  ASSUME Unnoticed
  PROVE  UNCHANGED Threads!threadVars
<1>1. \A t \in {"boot", "pcb0", "pcb1"} : /\ ThreadRegs(t)' = ThreadRegs(t)
                                          /\ ThreadStack(t)' = ThreadStack(t)
                                          /\ ThreadPc(t)' = ThreadPc(t)
  BY DEF Unnoticed, Kept, Tid
<1>2. Regs' = Regs /\ Stacks' = Stacks /\ Pcs' = Pcs
  BY <1>1 DEF Regs, Stacks, Pcs
<1>3. Run' = Run /\ ticks' = ticks
  BY DEF Unnoticed
<1> QED BY <1>2, <1>3 DEF Threads!threadVars, Run, Regs, Stacks, Pcs

LEMMA WorkImplements ==
  ASSUME \A t \in Tid \ {Cur} : Kept(t), Cur \in Tid, Run' = Run, Run = Cur, ticks' = 1 - ticks
  PROVE  \E t \in Threads!Thread : Threads!Work(t)
<1> PICK me \in Tid : me = Cur
  OBVIOUS
<1>1. \A u \in Tid \ {me} : Regs'[u] = Regs[u] /\ Stacks'[u] = Stacks[u] /\ Pcs'[u] = Pcs[u]
  BY DEF Kept, Regs, Stacks, Pcs, Tid
<1>2. Threads!Work(me)
  BY <1>1 DEF Threads!Work, Threads!Thread, Tid, Run, Regs, Stacks, Pcs
<1> QED BY <1>2 DEF Threads!Thread, Tid

LEMMA YieldImplements ==
  ASSUME KernelInv, Yield
  PROVE  \E t \in Threads!Thread : Threads!Yield(t)
<1> PICK me \in Tid : me = Cur
  BY CurIs
<1>1. /\ Cur' = me /\ ticks' = ticks /\ Run = me
      /\ Run' = IF me = "pcb0" THEN "pcb1" ELSE "pcb0"
      /\ \A t \in Tid \ {me} : Kept(t)
      /\ ThreadRegs(me)' = [ThreadRegs(me) EXCEPT ![NumberReg] = MinusOne]
      /\ ThreadStack(me)' = ThreadStack(me) /\ ThreadPc(me)' = ThreadPc(me) + 1
  BY YieldStep
<1>2. Regs' = [Regs EXCEPT ![me][NumberReg] = MinusOne]
  BY <1>1 DEF Regs, Kept, Tid
<1>3. Pcs' = [Pcs EXCEPT ![me] = @ + 1]
  BY <1>1 DEF Pcs, Kept, Tid
<1>4. Stacks' = Stacks
  BY <1>1 DEF Stacks, Kept, Tid
<1>5. Threads!Yield(me)
  BY <1>1, <1>2, <1>3, <1>4 DEF Threads!Yield, Threads!NextThread, Run, Regs, Stacks, Pcs
<1> QED BY <1>5 DEF Threads!Thread, Tid

LEMMA ThreadsStep ==
  ASSUME KernelInv, [Next]_procVars
  PROVE  [\E t \in Threads!Thread : Threads!Work(t) \/ Threads!Yield(t)]_(Threads!threadVars)
<1>1. CASE InitIrq
  BY <1>1, InitIrqStep, UnnoticedStutters
<1>2. CASE InitProc
  BY <1>2, InitProcStep, UnnoticedStutters
<1>3. CASE LoadSegment
  BY <1>3, LoadSegmentStep, UnnoticedStutters
<1>4. CASE LoaderDone
  BY <1>4, LoaderDoneStep, UnnoticedStutters
<1>5. CASE HelloStep
  BY <1>5, HelloWorks, CurIs, WorkImplements
<1>6. CASE UserStep
  BY <1>6, UserWorks, CurIs, WorkImplements
<1>7. CASE Yield
  BY <1>7, YieldImplements
<1>8. CASE TrapSave /\ KeepKernel
  BY <1>8, TrapSaveStep, UnnoticedStutters
<1>9. CASE IrqHandle
  BY <1>9, IrqHandleStep, UnnoticedStutters
<1>10. CASE TrapRestore /\ KeepKernel
  BY <1>10, TrapRestoreStep, UnnoticedStutters
<1>11. CASE UNCHANGED procVars
  <2>1. ASSUME NEW t \in Tid PROVE Kept(t)
    BY <1>11 DEF procVars, machineVars, Kept, ThreadRegs, ThreadSp, ThreadStack, ThreadPc,
       InProcessor, Frame, FrameRegs, Cur, Base, FirstSp, FrameWords, StartPc, EpcAt
  <2>2. Unnoticed
    BY <1>11, <2>1 DEF procVars, machineVars, Unnoticed, Run, Trapped, Cur
  <2> QED BY <2>2, UnnoticedStutters
<1> QED BY <1>1, <1>2, <1>3, <1>4, <1>5, <1>6, <1>7, <1>8, <1>9, <1>10, <1>11 DEF Next

\* Whatever boot, trap.S, the scheduler and the other threads do to memory and
\* registers, each thread sees only its own instructions, and the threads take
\* turns as schedule() says: for any number of registers, any sizes of the
\* stacks, both ports and every ramdisk.
THEOREM KernelImplementsThreads == Spec => ImplementsThreads
<1>1. Init => Threads!Init
  BY ThreadsInit
<1>2. KernelInv /\ [Next]_procVars
        => [\E t \in Threads!Thread : Threads!Work(t) \/ Threads!Yield(t)]_(Threads!threadVars)
  BY ThreadsStep
<1> QED BY <1>1, <1>2, KernelInvariant, PTL DEF Spec, ImplementsThreads, Threads!Spec
=============================================================================
