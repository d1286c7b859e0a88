# OSOC in TLA+

Models, model-checking runs and proofs for the code of OSOC's `ysyx-workbench`:
an RV32E core in Verilog with its simulator (`npc`), the emulator it is
compared with (`nemu`), the bare-metal runtime (`abstract-machine`) and the
small kernel on top (`nanos-lite`). Paths below are relative to
`src/ysyx-workbench`.

## 1. The system

| part | state it keeps | operations | talks to |
|---|---|---|---|
| NPC core, `npc/riscv32ecustom/vsrc` | pc, inst, register file, four CSRs; a state machine and delay counters in `ifu.v` and `lsu.v`; `r_owner` in `arbiter.v`; one or two two-state machines in each of `axi_mem.v`, `uart.v`, `clint.v`; `mtime` | one clock edge | the harness through DPI-C: `pmem_read`, `pmem_write`, `npc_trap` |
| NPC harness, `npc/riscv32ecustom/csrc/main.cpp` | `pmem`, key ring, frame buffer, instruction ring, watchpoint pool, DiffTest flags, cycle count | clock loop, DiffTest step, debugger commands | the core, NEMU as a shared library (DiffTest), SDL |
| NEMU monitor, `nemu/src/cpu`, `nemu/src/monitor/sdb` | `nemu_state`, `is_skip_ref`, `skip_dut_nr_inst`, watchpoint lists, instruction ring | `cpu_exec`, `difftest_step`, `check_watchpoints`, the commands c, si, x, w, d, p, q | interpreter, devices, reference simulator |
| NEMU interpreter and memory | registers, CSRs, `pmem` | one instruction | monitor, MMIO map |
| NEMU devices, `nemu/src/device` | key ring, audio ring, RTC registers, SD card registers and position, frame buffer, MMIO map | handlers called by loads and stores; `device_update`; SDL's audio callback on a thread of its own; SIGVTALRM | interpreter, SDL, host |
| abstract-machine, `am/src/riscv`, `am/src/platform/nemu` | trap frames on kernel stacks, `user_handler`, audio write position | trap entry and exit, `kcontext`, device drivers | core or NEMU below, kernel above |
| klib | bump pointer, `next` of `rand` | string, stdlib and stdio functions | programs |
| nanos-lite | process control blocks, `current`, file table | `schedule`, `loader`, `fs_read`; the rest are stubs | abstract-machine, ramdisk |
| navy-apps | program break, NDL/miniSDL state | libraries and applications, most of them third-party | nanos-lite's system calls |
| `e/e4` emulators, `f` circuits | registers and memory | one instruction | - |

What is hard in each of them:

* **NPC core.** Five state machines advance on one clock, each behind random
  delays (`lfsr8.v`), and meet only through combinational valid/ready wires.
  One instruction is many cycles, during which its operands and address are
  live wires. Correct means: software sees one instruction at a time; a
  response reaches the master and the instruction that asked for it; nobody
  waits for ever.
* **Harness and devices.** Reads with side effects (the key ring), state that
  changes between two reads (the timer), bounded rings.
* **NEMU monitor.** Several writers of one run-state variable, in an order that
  decides whether the end of a program, a mismatch or a user's request is
  noticed; flags set in one instruction and consumed in the next.
* **NEMU audio.** A ring shared with a thread, with a non-atomic counter.
* **CTE and nanos-lite.** Context switches by returning a different frame from
  the handler; frames that share memory with their control block.

The properties that make each part correct are in sections 4 and 5 for the
parts that are modelled, and in the plan for the others. `PROJECT.json` lists
every hazard at its line with the properties that watch it.

## 2. Plan

| step | modules | what is asked of it | state |
|---|---|---|---|
| 1 | `NpcArch`, `Ifu`, `Lsu`, `AxiMem`, `Uart`, `Clint`, `Hart`, composed by `MiniRv`; abstract specification `NpcIsa` | the core is a one-instruction-at-a-time machine; buses; progress | done |
| 2 | `NpcKeyboard` = `MiniRv` with the harness's key ring | order and loss of key events | done |
| 3 | `MiniRvProofs` | types, buses, handshakes for every datapath and program | done |
| 4 | `NemuMonitor`, `NemuMonitorProofs`, `NemuTrace` | run state, DiffTest, watchpoints, debugger, exit status, instruction ring | done |
| 5 | `NemuAudio`, `NemuAudioProofs` | guest and SDL thread on one ring: count against head and tail, lost updates, initialisation order | done |
| 6 | `Uptime`, `NemuInput`, `SdCard`, `SdHost`, composed by `NemuDevices`; abstract specification `SdBlockDevice` | the RTC latch, the key ring and the screen between guest and window, the SD card with its Linux driver | done |
| 7 | `Cte`, `NanosLoader`, `NanosProc`; abstract specification `NanosThreads` | save, handler, switch, restore on kernel stacks; every thread goes on with its own registers after its yield; the loader on file table and ramdisk | done |
| 8 | `NpcHarness` = `MiniRv` with the clock loop of `main.cpp` and a second `NpcIsa` | DiffTest, watchpoints, traces and commands around a multi-cycle core | done |
| 9 | `SdbExpr`, `Klib`, `Scpu` with `Semu` | expressions, strings, printing, heap and the 8-bit processor against reference definitions | done |
| 10 | `Datapath`, `RvInst`, `MinirvEmu` | the core's decoder, ALU and lanes against NEMU's interpreter and the small emulator | done |
| 11 | `ListLemmas`, `NpcHarnessProofs`, `NemuDevicesProofs`, `NanosProofs`, more of `MiniRvProofs`, `NemuMonitorProofs`, `NemuAudioProofs` | every safety property and every refinement of steps 1 to 8, for all values of the constants | done |
| 12 | `SequentialProofs` | every property of step 9 and 10: the 8-bit processor, the heap, the expressions, the datapath and klib's calls | done |

Every safety property the runs check is now a theorem as well. What is left to
TLC alone is liveness (section 5).

## 3. Modules and the code

### The core: `NpcArch` ... `MiniRv`

Every flip-flop in `vsrc` is clocked by the same `clk`, so the model has one
action, `Clock`: one `posedge`. Wires are operators over the state before the
edge (`AluResult`, `SArValid`, `SRData`, ...), flip-flops are variables, and
each Verilog file contributes its registers and a `...Tick` operator for its
`always` blocks. `MiniRv` is `minirv.v` with `arbiter.v` and `xbar.v`, which hold
one flip-flop (`owner`) between them.

| module | code | notes |
|---|---|---|
| `NpcArch` | `minirv.v`, `decoder.v`, `alu.v`, `templates.v` | constants: words, addresses, `Decode`, `Alu`, `Target`, `LoadExt`, `StoreMerge` and what is assumed of them; the delay counters |
| `Ifu` | `ifu.v` | states AR, R, EXEC; `pc`, `inst`, the random delays before arvalid and rready |
| `Lsu` | `lsu.v` | IDLE, AR, R, AWW, B, DONE; latches no address and no data, as the code |
| `AxiMem`, `Uart`, `Clint` | `axi_mem.v`, `uart.v`, `clint.v` | the slaves; `pmem` is here, the DPI calls act on it |
| `Hart` | `minirv.v`, `regfile.v` | registers, CSRs, write-back, next pc, `ebreak` |
| `MiniRv` | `minirv.v`, `arbiter.v`, `xbar.v` | composition, properties, refinement mapping |
| `NpcIsa` | the same datapath, no clock | abstract specification: `Step` fetches, executes and retires one instruction |

In these modules the datapath (`Decode`, `Alu`, ...) is left open; `Datapath`
below fills it in: the proofs hold for any
functions with the right types, and the runs instantiate them with the 5-bit
machine of `MCMiniRv`, which has one instruction of each kind the control can
tell apart (ALU, jump, branch, load, store, `ecall`, `mret`, `csrrw`, `csrrs`,
`ebreak`, no-op). The LFSRs (`lfsr8.v`) become free choices in `0..MaxWait`:
their sequence is fixed in the hardware, but which value a request meets depends
on the program. `mtime` counts modulo `TimeMod`. The keyboard appears in
`MiniRv` as an arbitrary key per read.

### The key ring: `NpcKeyboard`

`Ring`, `Enqueue`, `Dequeue` are `key_enqueue`/`key_dequeue` of `main.cpp`;
`PollingCycle` is a clock edge in which `pmem_read` is called with `KBD_ADDR`
(it polls SDL, then pops one event), `RedrawCycle` one in which a store to the
sync register redraws the screen (which polls, too), `OtherCycle` any other. `pressed` and
`seen` are histories: what the user did and what software loaded. `Polled` is the
loop of `poll_sdl_events`, a recursive function. Verilator
evaluates `wire word_now = pmem_read(araddr)` again on every edge; the model
pops once per edge.

### NEMU's monitor: `NemuMonitor`, `NemuTrace`

`phase` is where the one thread is: at the prompt, in the loop of `execute`
(`inst`, `diff`, `watch`, `next`), in the tail of `cpu_exec` (`return`), or gone
(`exited`, `died` by assertion). Commands are actions at the prompt (`CpuExec`
for c and si, `ReadMemory` for x, `SetWatchpoint`, `DeleteWatchpoint`, `Quit`);
the actions of the loop are the calls of its body in their order: `ExecOnce`,
`DifftestStep`, `CheckWatchpoints`, `Continue` (the break, `device_update`, the
count). An instruction is its kind - plain, device access, ebreak, invalid - and
whether its result differs from the reference's; `wrong` is what DiffTest exists
to find, so the model lets every instruction be wrong. The watchpoint lists are
sequences of pool numbers; whether a watchpoint fires is free. `budget` is the
`n` of `execute`; `Forever` stands for 2^64-1. `NemuTrace` adds the ring of recent instructions
that `trace_and_difftest` writes and `invalid_inst` prints.

### The audio ring: `NemuAudio`

Two threads on one ring. The guest is the driver's loop with the handlers its
loads and stores call: `CheckSpace` (read COUNT, choose the length of the next
`memcpy`), then per byte `StoreSample` (`map_write`), `LoadCount` and
`UpdateCount` (the two halves of `sbuf_count += len`, with the clamp); `Reset` is
`__am_audio_ctrl` called again. SDL's thread is `Play` and `PlayDone`. The
counter is shared without a lock, so C leaves the outcome open; the steps are
those of the build, which uses -O2 (`nemu/scripts/build.mk:25`): the callback
works on registers and writes tail and count back when it returns, the handler
loads, adds and stores. A sample is its number, so that `played` shows order,
loss and repetition. `raced` is set when a callback starts while a handler is
between its load and its store, or a handler changes the count while a callback
is under way; `SDL_LockAudio` around the handlers would keep it false.

### The harness: `NpcHarness`

`Cycle` is one turn of `step_n_cycles` (`main.cpp:748-828`): the sample of
`dbg_retire` and of the touched device before the edge, the edge itself (`Clock`
of `MiniRv`), then, if an instruction retired, the trace, the DiffTest step and
the watchpoints, in that order. The reference is a second machine, the one of
`NpcIsa`, with its own registers and memory; `ResyncRef` is what
`difftest_check_one_instruction` copies when an instruction touched a device.
`CmdStep`, `CmdW`, `CmdD` are si/c, w, d; `StepEnds` may come at any cycle, because
`si n` counts cycles. `recent` is a history of instructions and their addresses.

### NEMU's devices: `Uptime`, `NemuInput`, `SdCard`, `SdHost`, `NemuDevices`

`Uptime` is a clock, the latch of `timer.c` (or none, on the NPC) and the driver
that reads the two words. `NemuInput` is the window: `UserEvent` at any time,
`StartUpdate`, `PollEvent` and `PollingDone` are `device_update` between two
instructions, `EnterCommand` and `RunCommand` the prompt, which throws away what
SDL collected, `ReadKey`, `StorePixel` and `RequestSync` the guest through
`platform/nemu/ioe`. A close request sets the state while the loop of `execute`
runs its current instruction to its end, so one more may follow
(`AfterInst`). A pixel is the number of the frame it belongs to.

`SdCard` is `sdcard_handle_cmd` and `sdcard_io_handler`, `SdHost` the functions of
the Linux driver `resource/sdcard/nemu.c`, unfolded into the states its calls
pass through; the mmc core that makes requests is external. `quota` is what a
correct card expects next. The image is as long as the card says; `fp` is
open. A single block is read or written by commands 17 and 24, at which the
card panics: the model keeps that. `NemuDevices` builds one device at a time,
since they share nothing.

### Threads: `Cte`, `NanosLoader`, `NanosProc`, `NanosThreads`

`Cte` holds `trap.S` of both ports as operators on registers and memory: which
registers are pushed, where cause, status and epc lie, MPRV on nemu, the frame
that is one word shorter than `struct Context`. `NanosProc` is `main`: `InitIrq`,
`InitProc` (kernel thread, start of the loader), `LoadSegment`, `LoaderDone`,
then threads (`HelloStep`, `UserStep`, whose instructions are external; `Yield`)
and `IrqHandle`, the handler with `do_event` and `schedule`. Where things lie is left open as far as
`linker.ld` leaves it open (`LayoutAssumption`): `pcb[]` is an array, so one
control block ends where the next begins; `pcb_boot` is somewhere else in
`.bss`; `main`'s stack is above `.bss`; programs are linked above the kernel's
memory. Interrupts are off, so
the handler is one step; save and restore are one each. `NanosThreads` says what
a thread may rely on - its registers, its stack, its pc, turns - and
`ImplementsThreads` maps to it: a suspended thread's registers are the words of
its frame.

### Code that runs by itself: `SequentialCode`

* `SdbExpr`: tokens are typed one by one, `CheckParentheses`, `Candidates`,
  `SplitAt` and `Eval` are `expr.c` (the harness has the same code), and
  `Meanings` is the grammar of C: the value of every tree a line can be
  read as. Both are recursive functions on the parts of a line. Turning text
  into tokens is left out; all that is assumed of it is that a numeral or a register
  is no operator (`LexerAssumption`).
* `Klib`: each function as what it does to memory, byte by byte where ranges may
  overlap; one call per behaviour, on any memory; `IsResult` and `Written` say
  what C promises. `char` is unsigned, as on RISC-V. `Defined` says for which
  calls C promises anything: a number beyond an int for `atoi`, or a text that
  does not fit `vsnprintf`'s buffer of 4096 (`stdio.c:86`), is not such a call. The heap is a series of
  `malloc`s, from an `addr` of 0, which stands for "not called yet".
* `Scpu` is the Verilog processor, `Semu` the C emulator of the same machine,
  its abstract specification.
* `RvInst` is the instruction table of `inst.c` with the immediates as maps of
  bits, `MinirvEmu` the emulator of eight instructions, `Datapath` the wires of
  `decoder.v`, `alu.v`, `minirv.v` and the lanes of `lsu.v` down to `pmem_read`
  and `pmem_write`. `Execute` gives one instruction and one state to all three.
  And, or and xor are CONSTANTs: C and Verilog mean the same by them, whatever
  that is; the run gives `Bitwise`'s.

## 4. Model checking

| run | module | shows |
|---|---|---|
| `npc_system` | `MCNpcKeyboard` | `NoContention`, `OneReadOutstanding`, `WriteStaysRouted`, `HandshakeStable`, `FetchProgress`, `InstructionRetires`, `RingHoldsLatest`, `KeysInOrder` |
| `npc_harness` | `MCNpcHarness` | `ImplementsIsa`: the core refines `NpcIsa`; `RefInSync`, `TraceIsRecent`, `ChangesStop` |
| `minirv_timer_hang` | `MCMiniRv` | violated: `FetchCompletes` |
| `keyboard_loss` | `MCNpcKeyboard` | violated: `EveryPopIsRead` |
| `nemu_monitor` | `NemuTrace` | `MistakesReported`, `StopsAtOnce`, `BatchExitHonest`, `PoolPartition`, `ShowsMostRecent`, `StepReturns` |
| `nemu_peek` | `NemuMonitor` | violated: `MistakesReported` |
| `nemu_resume` | `NemuMonitor` | violated: `EndedStaysEnded` |
| `nemu_audio` | `NemuAudio` | `TypeOK`, `CountExactUntilRace`, `PlayedInOrder`, `EverythingPlayed` |
| `nemu_audio_race` | `NemuAudio` | violated: `CountIsQueued` |
| `nemu_devices` | `MCNemuDevices` | `UptimeOffByACarry`, `KeysInFifoOrder`, `PromptKeysStayOut`, `LastFrameShown`, `CardQuiescent`, `RequestsEnd`, `ImplementsBlockDevice` |
| `nanos` | `MCNanosProc` | `ImplementsThreads`, `FramesInPcb`, `ThreadsRunWithoutMprv`, `LoadedImage`, `PanicHasCause`, `HelloHandsOver` |
| `sequential` | `MCSequentialCode` | `AnswersAsC`, `CallsDoWhatCSays`, `BlocksApart`, `ImplementsSemu`, `InstructionsAgree` |

**The refinement.** An instruction takes effect when it retires, except that a
store takes effect when its slave accepts it; between that edge and the
retirement the mapping already shows the next pc (`StoreDone`). All other edges
are stutters. A device read returns any word the device may hold now, so the
abstract machine says nothing about how long an instruction takes.

**Bounds.** `MaxWait` is the largest delay: the hardware takes two bits of the
LFSR, so 3 is the full range, used in `npc_system` with a handful of programs
that cover every instruction kind, loads and stores on memory, UART, timer and
keyboard, a trap and its return, and a loop. `npc_harness` runs every program of
three instructions in batch mode and two under the debugger with delays of 0
or 1: it asks in what order things happen, and a delay of none or one cycle
already produces each order of the two sides of a handshake. `TimeMod = 2` in
`npc_system` makes the timer words change under a wait; in the others `mtime`
stands still, as `NpcIsa` lets a timer read return any word. `MaxOut` ends a run
after that many UART bytes. For the key ring `QueueLen = 3` and `MaxKeys = 4`
make it empty, full and overflowing. The pool of two watchpoints and the trace
of two lines are the smallest that are not empty or full all the time.

The monitor's pool of 3 is the smallest in which a watchpoint has neighbours on
both sides; `MaxStep = 2` gives a `si` that ends, one that continues and one that
does nothing (0); its instruction ring of two wraps. The audio ring holds
three samples and a callback asks for two, so blocks end in the middle of a copy
and a copy ends in the middle of a block; seven samples go round the ring
twice, and one more initialisation may come at any time.

In `nemu_devices` 2^32 is 3 and the clock goes to 8, so the low word overflows
twice; the key ring of 3 fills; two frames of two pixels are the least of which
an update can show half; four SD requests of up to two blocks of two words, on an image of three blocks, leave every
state a transfer can end in to the next one, errors included.

In `nanos` five ramdisks - two segments with one not loadable, one with zeroed
words, a wrong magic, a truncated file, none - meet both ports; a
stack of 14 words holds a frame, two pushed words, one for the handler's
calls and one to spare.

`sequential`: expressions are evaluated in 4-bit ints, with a token buffer of 7
and lines of up to 8, from three keyboards (nesting; all operators; division
and registers). Strings lie in five bytes of memory, each a terminator, a space,
a digit or a byte above 127; with
`IntMax = 777` a fourth 7 is one too many for an int, and with `BufSize = 4` a
fourth character is one too many for the buffer. The heap has 12 places, from 2 on, of a 16-place
address space, so a size near the top wraps. The 8-bit processor runs every program of three
instructions out of nine and the two programs of the repository. Core and NEMU
execute words of 8 bits - four bytes of two bits, shift amounts modulo 8 - over
every opcode, funct3 and funct7 they tell apart and the words at the ends of
both ranges; the immediates are compared bit for bit in 32 bits.

**Fairness.** `WF(Next)` for the core: the loop of `main.cpp:748-828` calls
`eval()` for as long as the run lasts, and delays are counters, so nothing more
is needed for progress. `WF(Execute)` for the monitor: once a command runs, the
thread runs; the user is not assumed to type anything. `WF(Guest)` and
`WF(Callback)` for the audio ring: NEMU executes the guest, whose driver spins
without giving up, and SDL calls back for as long as the device is open.
`WF(StartUpdate)`, `WF(PollEvent)`, `WF(PollingDone)` for the window:
`device_update` is called after every instruction, and the instructions in between do not
disable it for good; `WF(Driver)` for the SD card: a driver that polls runs to
its end. `WF(Next)` for nanos-lite: one processor that never stops. A thread need not
yield; `HelloHandsOver` holds because `hello_fun`'s loop does.

**Where the code does something else than its text says:**

* *The core can stop for ever* (`minirv_timer_hang`). `xbar.v:109` steers the
  read channels by the address of the current cycle. While the fetch unit waits
  for its word, the arbiter presents the ALU's stale output; if that is a timer
  address, the answer of the memory is not connected and the fetch never ends.
  `FetchProgress` says that this is the only way: if the stale ALU output never
  is a timer address, every fetch completes.
* *Key events are lost* (`keyboard_loss`). The pop is a side effect of a wire
  that is evaluated every cycle the address is on the bus, and one load leaves
  it there for several.
* *DiffTest skips an instruction it should compare* (`nemu_peek`). Command x on
  a device register sets `is_skip_ref`, and the next instruction consumes it.
* *An ended program is stopped* (`nemu_resume`). `check_watchpoints` writes
  `NEMU_STOP` over `NEMU_END` and `NEMU_ABORT`.
* *Samples are counted twice* (`nemu_audio_race`). A callback that runs between
  the load and the store of `sbuf_count += len` has its decrements overwritten.
  `nemu_audio` bounds the damage: the counter stays within the buffer and all
  that is written is still played; and it is the only way (`CountExactUntilRace`).

**What the runs also met**, short of a contradiction between code and text:

* `minirv.v:138` calls its decoding an allow-list; funct7 is looked at only where
  two instructions share a funct3, so an M instruction with funct3 1 to 4, 6 or 7, a
  shift-left or `jalr` with other bits set execute as their neighbours
  (`LooselyDecoded`). NEMU has the M instructions; the compiler is told that
  the core has not. `InstructionsAgree` excludes just these.
* Core and NEMU treat a misaligned access differently (the lane of the aligned
  word against the bytes from the address on); `Aligned` excludes it.
  `minirvemu` leaves bit 0 of a `jalr` target set, and stands still at an
  instruction it does not know.
* An uptime read across a carry is ahead by 2^32 and so not monotone
  (`UptimeOffByACarry` says how far it may be off, on both platforms).
* NEMU's key ring aborts when the last place is filled, not when one more event
  comes (`KeysInFifoOrder`).
* The SD card panics at commands 17 and 24, which the driver sends for a request
  of one block.
* On npc the second process cannot start: `ucontext` is a stub (`PanicHasCause`).
* `serial_write` would call `yield`, but nothing reaches it; `naive_uload` and
  `do_syscall` are never called; `x N EXPR` reads its address by `strtoul`.

## 5. Proofs

Eight modules are checked by TLAPS, for all values of the constants. The
theorems of a component are in the module `<component>Proofs`, which extends the
component's module; `NpcHarnessProofs` is about `NpcKeyboard` and `NpcHarness`,
which model one file, and `SequentialProofs` about the five parts of
`SequentialCode`: `Scpu`, the heap of `Klib`, `SdbExpr`, `Datapath` and the calls of `Klib`.
Where a theorem says `Spec => []P` or `Spec => Refinement`, a run of section 4
checks the same `P` or `Refinement` on its instance.

**What is assumed.** Only the named `ASSUME`s of the modules, which every run
evaluates on its instance:

| assumption | says | from |
|---|---|---|
| in `NpcArch`, `MiniRv`, `NpcKeyboard` | types of the datapath functions; devices lie at different words, outside memory; keys are words a read of the keyboard may return | `decoder.v`, `alu.v`, `minirv.v` |
| `ZeroAssumption` | the word 0 decodes to "other": what a fetch outside `pmem` returns | `decoder.v`; `pmem_read` in `main.cpp` |
| `EvalAssumption` | an expression gives a word, or fails | the signature of `expr` |
| `LayoutAssumption` | where control blocks and stacks lie; a stack holds a frame, the handler's calls and what the program pushes | `linker.ld`, `proc.h` |
| `DiskAssumption` | file names are unique; loadable segments lie outside the kernel's memory and apart | `navy-apps/scripts/riscv/common.mk:2` |
| `CteAssumption` | the registers `trap.S` names are there; null is no address | `trap.S` |
| `ScpuAssumption` | the program is 16 bytes | `imem.v` |
| `KlibAssumption` | the heap lies below the end of the address space and starts aligned; no digit is the terminator, nor is the space; ints are ints | `linker.ld:32`; ASCII |
| `LexerAssumption` | the token of a numeral or a register is no operator and no parenthesis | `rules[]`, `expr.c:29` |
| `RvAssumption`, `DatapathAssumption` | a word is four bytes, and the samples a run chooses from are words | `decoder.v`, `inst.c` |

The others say that lengths and bounds are natural numbers, and not 0 where a ring
needs a place. `Quiet`, which two theorems about the monitor name as a
hypothesis, is an assumption about the user: see below.

**Shared lemmas** (`ListLemmas`): arithmetic modulo the length of a ring; what
`RemoveAt`, `Append`, `Tail` and `KeepLast` return; `RingKeepsLast`, that writing at the index of a
ring keeps its latest entries, which serves both instruction rings;
`RingPut`/`RingGet`, the same for a ring with two indices, which serves NEMU's
key ring (the harness's ring drops its oldest entry when it is full and has lemmas
of its own); `LeastOf` and `ByCounting`: a non-empty set of naturals has a least
element, hence a set that contains 0 and with `k - 1` also `k` contains all up to
`n`. The last one is induction as a statement about sets. With it a recursive
*function* can be reasoned about: that it exists, hence that its defining
equation holds, and what it computes for every input. The ring of keys, the
heap, the expressions, the powers of two of the datapath and all loops of klib are
reasoned about in this way.

**The core** (`MiniRvProofs`). `BusInv` is inductive:

* `TypeOK`;
* `LsuServesExec` - the load/store unit is out of IDLE only for the load or
  store in EXEC, and each of its phases belongs to the right kind;
* `OneReadOutstanding` - a slave is busy reading exactly when one master waits,
  and `owner` names that master;
* `WriteStaysRouted` - a slave is busy writing exactly when the load/store unit
  waits, and it is the slave the live address selects.

None of the last three is inductive without the first two: a response reaches
the wrong master in a state in which both units wait, which only `LsuServesExec`
excludes. The central lemma is `LsuStalls`/`OperandsHold`: while an access is
under way nothing retires, hence registers, `pc` and `inst` do not change, hence
the address does not move under the crossbar. From `BusInv` follow
`ArbiterUncontended`, `ReadsAreOwned`, `WritesAreRouted` and the action property
`OffersAreKept`.

`CoreImplementsIsa` proves the refinement. It needs one more invariant,
`ReadInv` (`ReadsAreCurrent`): while a master is in R, what its slave holds answers
the address the master *now* shows; a valid instruction is what `Read(pc)` allows
until a store by that very instruction has been accepted (it may overwrite
itself); a loaded word is what `Read` allows at the load's address. It is inductive because
memory changes only at the edge that accepts a store (`StoreMoves`), when nothing is
being read. Then an edge that retires is a `Step` (`RetireIsStep`), except that a
store's `Step` is the edge that accepts it (`AcceptIsStep`), and every other edge
leaves the mapped state alone (`OtherEdgesStutter`).

**The harness** (`NpcHarnessProofs`). Both compositions only restrict the core
(`KeyboardRunsCore`, `HarnessRunsCore`), so its theorems hold of them, too.

* Key ring. `RingIsLatest` needs `KeyInv`: the ring's entries are the latest
  events in order (`Latest`). A poll enqueues any number of events, so the proof
  follows the loop by counting (`PolledKeepsLatest`). `KeysAreInOrder` needs
  `OrderInv`, across ring and bus: a key on its way to the load/store unit, or held
  by it, is newer than the last one software loaded and older than all that wait
  in the ring - whatever is popped in between and lost.
* `TraceIsExact`: ring, index and count against the history.
* `NoChangeMissed`: `WatchInv` says that at every turn of the loop each
  watchpoint's stored value is its expression's present value, whenever that has
  one, for any evaluator.
* `NoFalseAlarm`: `SyncInv` says that pc, registers and CSRs of the reference are the
  core's *before* the instruction under way, and that the core's memory is the
  reference's plus the store that was accepted and has not retired (`AheadMem`).
  That one store is what makes the plain equality of memories false between the
  two edges. The resynchronisation after a device access restores
  `SyncInv`; an instruction fetched from a device address is a word the reference
  does not have, and ends it (`ZeroAssumption`).

**The monitor** (`NemuMonitorProofs`). `SkipsAreDeserved` and `MistakesAreReported` are proved together
(`DifftestInv`) and assume `Quiet`: command x stays out of device registers - the
assumption the run `nemu_peek` drops. `BatchExitsAreHonest` needs `BatchInv`: in
batch mode no watchpoint exists to overwrite `NEMU_ABORT`, and the loop's test
comes before the close button can. `PoolIsPartitioned` rests on what moving a
number between two injective disjoint sequences preserves (`TakeFirst`, `TakeAt`)
and holds for every pool size. `MonitorTypeCorrect` carries `TurnsLeft`, without
which the unsigned counter could be decremented at zero. `TraceIsExact` adds the
instruction ring, for every size, to a monitor it does not disturb
(`TraceIsAMonitor`).

**The audio ring** (`NemuAudioProofs`). `AudioTypeCorrect` holds in every schedule; it rests on
`RingInv`: a copy under way ends within the buffer. `CountIsExact` proves
`CountExactUntilRace` from `CountInv`: without a race, while the handler holds the count in its
register no callback is under way, and while the callback holds it the memory's
copy is at least as large, hence a copy that fitted when COUNT was read fits when
it is made, and the clamp of line 80 never acts. `SamplesInOrder` adds where each
queued sample lies (`Ordered`): sample number n of those not yet played is n
places after the tail, the callback's own tail while one runs, and
the place the handler writes next is behind the last of them.

**The devices** (`NemuDevicesProofs`). The devices share nothing, so each has an
invariant of its own.

* Clock: `ClockInv` - the latch is the two words of one earlier time, and so is the
  low word a read holds. `UptimeIsOffByACarry` is then arithmetic on the
  quotient by the word size, with and without the latch.
* Window: `InputInv` - what was read followed by what is queued is what was
  accepted (`FifoOrdered`), and no event of the prompt is in SDL's queue
  once the program runs (`NoPromptEvents`).
* SD card: `SdInv` relates four records of one transfer - the driver's request and
  count, the card's position and direction, EXT_CSD's selection, and the
  quota. `CardIsQuiescent` says that nothing of a transfer survives it, errors included;
  `SdImplementsBlockDevice` maps `MoveWord` to the loads and stores of the data
  port and needs `CardFollows`: the card's position is the one the driver means.

**Threads** (`NanosProofs`). `KernelInv` describes every suspended thread and
the running one. A suspended thread has a frame (`FrameOk`) inside its own
stack, from which it can go on: MPP in the saved status, an epc of `hello_fun`'s first
instruction only with an empty stack, and after a yield otherwise. The running
one has room below sp for a frame (`SpOk`), before and after each instruction;
in the handler and on the way out a frame stands at `a0`. `Own(t)`, a thread's
stack and the `cp` field of its control block, are apart for any two threads (`OwnApart`), by
`LayoutAssumption`. Hence a step of one leaves the registers, stack and pc of the
others as they were (`OthersKept`), wherever they are suspended. `FramesStayInPcb`,
`MprvStaysInHandler` and `PanicsHaveCause` follow.

`KernelImplementsThreads` goes through the actions: boot, the trap's save, the handler
with the switch, and the restore are `Unnoticed` (each thread's registers, stack
and pc, mapped from processor or frame, are unchanged), `ecall` is `Yield`, and
an instruction is `Work` of the thread whose turn it is. `ProgramLoaded` is about
another part of memory: `ImageInv` says that the segments up to the present
one hold the file's words, followed by zeros; a later segment does not touch
them by `DiskAssumption`, threads and handler do not because they stay in the kernel's words
(`KernelInv`).

**Code that runs by itself** (`SequentialProofs`). Each part has its theorem, and
`PartsOfTheRun` puts them together for the specification the run checks.

* `ScpuImplementsSemu`: one clock edge is one `inst_cycle`, until the program
  leaves its memory; the case that matters is `Raddr1`, one register port for
  two fields.
* `HeapBlocksApart`: as long as the rounded sizes add up to no more than the heap,
  the next block starts at an aligned address behind all earlier ones (`Packed`)
  and nothing wraps.
* `ExpressionsAreC`: `Eval` and `Meanings` satisfy their equations (`EvalIs`,
  `MeaningIs`). A part of a line that means something at a level of the grammar
  has matching parentheses and no lower operator outside them (`MeaningIsGood`), so
  the rightmost of the lowest operators, where `eval` splits, is the only place
  where the grammar can split (`OnlyThatSplit`), and a split both of whose sides mean
  something is a reading of the whole (`ThatSplit`). By induction on its length a
  part's answer is its one meaning (`EvalAgrees`), and a part without meaning is
  refused or traps. A line of more tokens than the buffer holds is refused
  before (`SdbInvAnswers`).
* `CoreComputesAsNemu`: `Lanes` and `WordIsBytes` take the core's word-wide accesses
  apart into the bytes `host_read` and `host_write` move, for each size and lane
  (`LoadsAgree`, `StoresAgree`); the five immediates agree bit by bit
  (`ImmediatesAgree`); then one lemma per class of instructions, and
  `CoreAgrees`. `NemuDivides` says that NEMU's quotients and remainders recombine and
  that the remainder is smaller and has the dividend's sign, by zero and with
  overflow included.
* `CallsAreC`: a loop over memory is a function on the number of its steps
  (`Recursion`). `memmove` up and down copies because a step never writes what a
  later step reads (`CopiesUp`, `CopiesDown`); what is written in pieces is the
  sequence put together (`PutConcat`). A loop that compares returns what it finds at
  its first stop (`ScanStops`), where the two sequences part, and that place
  decides their order (`PartAt`, `CompareIs`). `atoi`'s accumulator times the
  power still to come is the sum by position so far (`ValueIsDenoted`); the
  digits `vsprintf` finds from the last one are those by position, because
  dividing twice is dividing by the product (`NumeralStep`).

**Only model-checked.**

* Liveness, out of TLAPS' reach: `FetchProgress`, `InstructionRetires`,
  `StepReturns`, `EverythingPlayed`, `LastFrameShown`, `RequestsEnd`, `HelloHandsOver`.
* The violations of section 4: counterexamples, not theorems.

Conversely `TypeOK` of core and monitor and `SkipIsDeserved` are proved for all
constants and not run again.

## 6. Not modelled

* *Third-party and framework code*: most of the lines of the repository - lua,
  stb_image, stb_truetype, libvorbis, libfixedptc, compiler-rt, kconfig, fixdep, libgcc, the
  test suites and games of `am-kernels` and `navy-apps`, the other ISAs and
  platforms, adapters to external simulators - vendored, generated or left as
  the framework ships them. They are not this project's logic, and what nanos-lite
  would offer them (system calls, files, a program break) is a stub in this
  tree, so nothing of it can be composed. That is why the lines mapped are a
  small share of all C and Verilog lines.
* *Earlier NPC cores and teaching RTL*: the single-cycle predecessors of
  `riscv32ecustom`; exercises of a few gates; `axi_mem_i.v`/`axi_mem_d.v` (not
  instantiated).
* *In the harness*: mtrace and ftrace, command x, the frame buffer and its
  window. *In the core*: the LFSRs' sequence.
* *In NEMU*: address ranges and their panics, the image loader, `difftest_skip_dut`
  (never called), the serial port, the disk (not implemented), the regular
  expressions of the debugger; the overflow of `iringbuf_count` after 2^31
  instructions. The memory of the reference is assumed to be the core's, though
  a fresh NEMU fills what the image leaves with random bytes.
* *In nanos-lite*: the device files, `mm.c` (a stub), system calls (never called).
  *In klib*: `rand`, `abs`, `putch`, and texts longer than `printf`'s buffer.
* *Logisim circuits*: drawings stored as XML.
