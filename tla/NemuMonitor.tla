---------------------------- MODULE NemuMonitor ----------------------------
(***************************************************************************)
(* NEMU's monitor: the debugger's command loop (monitor/sdb), cpu_exec and *)
(* its instruction loop (cpu/cpu-exec.c), DiffTest (cpu/difftest/dut.c)    *)
(* and the watchpoint pool.  They share one variable, nemu_state.state,    *)
(* which instructions, DiffTest, watchpoints and the window's close button *)
(* all write, in the order of the loop.                                    *)
(*                                                                         *)
(* An instruction is abstracted to its kind and to whether the registers   *)
(* after it differ from the reference's ("wrong").  skip_dut_nr_inst stays *)
(* 0, as nothing in the tree calls difftest_skip_dut.                      *)
(***************************************************************************)
EXTENDS Naturals, Sequences, SequencesExt

CONSTANTS
  NrWp,          \* size of the watchpoint pool
  MaxStep,       \* bound: the largest argument of `si' that is tried
  DebuggerReads  \* where command x may read: subset of {"pmem", "device"}

ASSUME MonitorAssumption ==
  NrWp \in Nat \ {0} /\ MaxStep \in Nat /\ DebuggerReads \subseteq {"pmem", "device"}

VARIABLES
  state, haltGood,     \* nemu_state: .state, and .halt_ret = 0
  phase,               \* where the program is
  budget,              \* the n of execute()
  inst,                \* the instruction just executed
  skipRef,             \* is_skip_ref
  mismatch,            \* a mismatch has been reported on the console
  head, free,          \* the watchpoint lists, by number
  batch                \* is_batch_mode

cpuVars == <<budget, inst>>
wpVars == <<head, free>>
vars == <<state, haltGood, phase, cpuVars, skipRef, mismatch, wpVars, batch>>

Wp == 0..(NrWp - 1)
\* The n of `c', 2^64 - 1: it does not run out.  So is a negative `si'.
Forever == MaxStep + 1
Ended == {"END", "ABORT", "QUIT"}
Kinds == {"plain", "device", "ebreak", "inv"}

TypeOK ==
  /\ state \in {"RUNNING", "STOP"} \cup Ended
  /\ haltGood \in BOOLEAN /\ skipRef \in BOOLEAN
  /\ mismatch \in BOOLEAN /\ batch \in BOOLEAN
  /\ phase \in {"prompt", "inst", "diff", "watch", "next", "return", "exited", "died"}
  /\ budget \in 0..Forever
  /\ inst \in [kind : Kinds, wrong : BOOLEAN]
  /\ head \in Seq(Wp) /\ free \in Seq(Wp)

Init ==
  /\ state = "STOP" /\ haltGood = TRUE
  /\ phase = "prompt" /\ budget = 0 /\ inst = [kind |-> "plain", wrong |-> FALSE]
  /\ skipRef = FALSE /\ mismatch = FALSE
  /\ head = <<>> /\ free = [i \in 1..NrWp |-> i - 1]
  /\ batch \in BOOLEAN

-----------------------------------------------------------------------------
\* Commands.  In batch mode sdb_mainloop only runs `c', once.

\* Commands c and si.
CpuExec(n) ==
  /\ phase = "prompt"
  /\ batch => n = Forever
  /\ IF state \in Ended
     THEN UNCHANGED vars
     ELSE /\ state' = "RUNNING" /\ budget' = n
          /\ phase' = IF n = 0 THEN "return" ELSE "inst"
          /\ UNCHANGED <<haltGood, inst, skipRef, mismatch, wpVars, batch>>

\* Command x: a read that finds a device map also calls difftest_skip_ref,
\* one that finds none fails an assertion.
ReadMemory ==
  /\ phase = "prompt" /\ ~batch
  /\ \/ \E where \in DebuggerReads :
          /\ skipRef' = (skipRef \/ where = "device")
          /\ UNCHANGED phase
     \/ phase' = "died" /\ UNCHANGED skipRef
  /\ UNCHANGED <<state, haltGood, cpuVars, mismatch, wpVars, batch>>

\* Command w; new_wp asserts that the pool is not empty.
SetWatchpoint ==
  /\ phase = "prompt" /\ ~batch
  /\ IF free = <<>>
     THEN phase' = "died" /\ UNCHANGED wpVars
     ELSE /\ head' = <<Head(free)>> \o head /\ free' = Tail(free)
          /\ UNCHANGED phase
  /\ UNCHANGED <<state, haltGood, cpuVars, skipRef, mismatch, batch>>

\* (bug: a watchpoint in the middle is given back but stays linked)
DeleteWatchpointStaysLinked(i) ==
  /\ phase = "prompt" /\ ~batch
  /\ head' = IF i = 1 THEN Tail(head) ELSE head
  /\ free' = <<head[i]>> \o free
  /\ UNCHANGED <<state, haltGood, phase, cpuVars, skipRef, mismatch, batch>>
\* Command d of the watchpoint at place i of the list (find_wp looks it up by
\* number; a number that is not there changes nothing).
DeleteWatchpoint(i) ==
  /\ phase = "prompt" /\ ~batch
  /\ head' = RemoveAt(head, i)
  /\ free' = <<head[i]>> \o free
  /\ UNCHANGED <<state, haltGood, phase, cpuVars, skipRef, mismatch, batch>>

\* Command q or end of input; main returns is_exit_status_bad().
Quit ==
  /\ phase = "prompt" /\ ~batch /\ phase' = "exited"
  /\ UNCHANGED <<state, haltGood, cpuVars, skipRef, mismatch, wpVars, batch>>

GoodExit == (state = "END" /\ haltGood) \/ state = "QUIT"

-----------------------------------------------------------------------------
\* One turn of the loop of execute(): the instruction, DiffTest, watchpoints,
\* then either the loop ends or the devices are polled.

\* isa_exec_once; accesses to devices and set_nemu_state skip the reference.
ExecOnce(kind, wrong) ==
  /\ phase = "inst" /\ phase' = "diff"
  /\ inst' = [kind |-> kind, wrong |-> wrong]
  /\ skipRef' = (skipRef \/ kind # "plain")
  /\ state' = CASE kind = "ebreak" -> "END" [] kind = "inv" -> "ABORT" [] OTHER -> state
  /\ \/ kind = "ebreak" /\ haltGood' \in BOOLEAN
     \/ kind = "inv" /\ haltGood' = FALSE
     \/ kind \notin {"ebreak", "inv"} /\ UNCHANGED haltGood
  /\ UNCHANGED <<budget, mismatch, wpVars, batch>>

\* An access outside every map or an unknown CSR panics.
ExecPanics ==
  /\ phase = "inst" /\ phase' = "died"
  /\ UNCHANGED <<state, haltGood, cpuVars, skipRef, mismatch, wpVars, batch>>

\* (bug: the flag is never reset)
DifftestStepSticky ==
  /\ phase = "diff" /\ phase' = "watch"
  /\ UNCHANGED skipRef
  /\ IF skipRef \/ ~inst.wrong
     THEN UNCHANGED <<state, mismatch>>
     ELSE state' = "ABORT" /\ mismatch' = TRUE
  /\ UNCHANGED <<haltGood, cpuVars, wpVars, batch>>
\* difftest_step: copy the registers if told to skip, or else compare.
DifftestStep ==
  /\ phase = "diff" /\ phase' = "watch"
  /\ skipRef' = FALSE
  /\ IF skipRef \/ ~inst.wrong
     THEN UNCHANGED <<state, mismatch>>
     ELSE state' = "ABORT" /\ mismatch' = TRUE
  /\ UNCHANGED <<haltGood, cpuVars, wpVars, batch>>

\* Watchpoints are evaluated after every instruction, whatever became of it.
CheckWatchpoints ==
  /\ phase = "watch" /\ phase' = "next"
  /\ \/ head # <<>> /\ state' = "STOP"
     \/ UNCHANGED state
  /\ UNCHANGED <<haltGood, cpuVars, skipRef, mismatch, wpVars, batch>>

\* (bug: the devices are polled first)
ContinuePollsFirst ==
  /\ phase = "next"
  /\ state' \in {state, "QUIT"}
  /\ IF state' # "RUNNING"
     THEN phase' = "return" /\ UNCHANGED budget
     ELSE /\ budget' = IF budget = Forever THEN budget ELSE budget - 1
          /\ phase' = IF budget' = 0 THEN "return" ELSE "inst"
  /\ UNCHANGED <<haltGood, inst, skipRef, mismatch, wpVars, batch>>
\* (bug: a device access does not count as a step)
ContinueFreeLoads ==
  /\ phase = "next"
  /\ IF state # "RUNNING"
     THEN phase' = "return" /\ UNCHANGED <<state, budget>>
     ELSE /\ state' \in {state, "QUIT"}
          /\ budget' = IF budget = Forever \/ inst.kind = "device" THEN budget ELSE budget - 1
          /\ phase' = IF budget' = 0 THEN "return" ELSE "inst"
  /\ UNCHANGED <<haltGood, inst, skipRef, mismatch, wpVars, batch>>
\* (bug: only the end of the program ends the loop)
ContinuePastStop ==
  /\ phase = "next"
  /\ IF state \in Ended
     THEN phase' = "return" /\ UNCHANGED <<state, budget>>
     ELSE /\ state' \in {state, "QUIT"}
          /\ budget' = IF budget = Forever THEN budget ELSE budget - 1
          /\ phase' = IF budget' = 0 THEN "return" ELSE "inst"
  /\ UNCHANGED <<haltGood, inst, skipRef, mismatch, wpVars, batch>>
\* The end of the loop body; device_update may find the window closed.
Continue ==
  /\ phase = "next"
  /\ IF state # "RUNNING"
     THEN phase' = "return" /\ UNCHANGED <<state, budget>>
     ELSE /\ state' \in {state, "QUIT"}
          /\ budget' = IF budget = Forever THEN budget ELSE budget - 1
          /\ phase' = IF budget' = 0 THEN "return" ELSE "inst"
  /\ UNCHANGED <<haltGood, inst, skipRef, mismatch, wpVars, batch>>

\* cpu_exec returns to the prompt, or out of sdb_mainloop in batch mode.
Return ==
  /\ phase = "return"
  /\ state' = IF state = "RUNNING" THEN "STOP" ELSE state
  /\ phase' = IF batch THEN "exited" ELSE "prompt"
  /\ UNCHANGED <<haltGood, cpuVars, skipRef, mismatch, wpVars, batch>>

Command ==
  \/ \E n \in 0..Forever : CpuExec(n)
  \/ ReadMemory
  \/ SetWatchpoint
  \/ \E i \in DOMAIN head : DeleteWatchpoint(i)
  \/ Quit

Execute ==
  \/ \E kind \in Kinds, wrong \in BOOLEAN : ExecOnce(kind, wrong)
  \/ ExecPanics \/ DifftestStep \/ CheckWatchpoints \/ Continue \/ Return

Next == Command \/ Execute

Spec == Init /\ [][Next]_vars

\* The program runs on by itself; the user need not type anything.
FairSpec == Spec /\ WF_vars(Execute)

-----------------------------------------------------------------------------
\* DiffTest passes over an instruction only because of that instruction: the
\* flag is_skip_ref never survives to hide the next one (dut.c:34-35).
SkipIsDeserved == skipRef => phase = "diff" /\ inst.kind # "plain"

\* A wrong result of an instruction the reference can execute is reported and
\* has stopped the program before the watchpoints are looked at.
MistakesReported ==
  phase = "watch" /\ inst.kind = "plain" /\ inst.wrong
    => mismatch /\ state = "ABORT"

\* No instruction is executed after a stop: not after a watchpoint, a trap, a
\* mismatch or an invalid instruction.  Only the close button, which is seen
\* between the loop's test and the next instruction, lets one more through.
StopsAtOnce == phase = "inst" => state \in {"RUNNING", "QUIT"}

\* A batch run that exits with status 0 reported no mismatch: whatever else
\* happens after a mismatch cannot make the exit status good again.
BatchExitHonest == phase = "exited" /\ batch /\ GoodExit => ~mismatch

\* Every watchpoint is in exactly one of the two lists, once, whatever the
\* order in which they are set and deleted.
PoolPartition ==
  /\ IsInjective(head) /\ IsInjective(free)
  /\ ToSet(head) \cap ToSet(free) = {}
  /\ ToSet(head) \cup ToSet(free) = Wp

\* `si n' gives the terminal back (or the program dies trying): every turn of
\* the loop counts, and nothing keeps the loop going.
StepReturns ==
  phase = "inst" /\ budget # Forever ~> phase \in {"prompt", "exited", "died"}

\* cpu_exec tells the user that a program that has ended stays ended
\* (cpu-exec.c:163).
EndedStaysEnded == [][(state \in Ended) => (state' \in Ended)]_vars
=============================================================================
