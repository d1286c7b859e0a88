----------------------------- MODULE NemuTrace -----------------------------
(***************************************************************************)
(* The monitor with the ring of recently executed instructions that        *)
(* cpu/cpu-exec.c keeps and invalid_inst prints.  A line of the trace is   *)
(* the kind of the instruction.  iringbuf_count is followed up to Size,    *)
(* from where on its value no longer matters (as long as it does not       *)
(* overflow).                                                              *)
(***************************************************************************)
EXTENDS NemuMonitor

CONSTANT Size      \* CONFIG_IRINGBUF_SIZE

ASSUME TraceAssumption == Size \in Nat \ {0}

VARIABLES
  buf, idx, count,   \* iringbuf, iringbuf_idx, iringbuf_count
  recent             \* auxiliary: the last Size instructions executed

ringVars == <<buf, idx, count>>
traceVars == <<vars, ringVars, recent>>

TraceInit ==
  /\ Init
  /\ buf = [i \in 0..(Size - 1) |-> "empty"] /\ idx = 0 /\ count = 0
  /\ recent = <<>>

\* The ring's part of trace_and_difftest, and the history.
Trace(line) ==
  /\ buf' = [buf EXCEPT ![idx] = line]
  /\ idx' = (idx + 1) % Size
  /\ count' = IF count < Size THEN count + 1 ELSE count
  /\ recent' = Append(IF Len(recent) < Size THEN recent ELSE Tail(recent), line)

\* (bug: starts at the entry last written)
DisplayFromLast ==
  LET n == IF count < Size THEN count ELSE Size
      start == (idx - 1 + Size) % Size
  IN  [i \in 1..n |-> buf[(start + (i - 1)) % Size]]
\* display_iringbuf: the lines it prints, in order.
Display ==
  LET n == IF count < Size THEN count ELSE Size
      start == (idx + Size - n) % Size
  IN  [i \in 1..n |-> buf[(start + (i - 1)) % Size]]

\* trace_and_difftest up to the watchpoints.
TracedDifftest == DifftestStep /\ Trace(inst.kind)

Untraced ==
  \/ \E kind \in Kinds, wrong \in BOOLEAN : ExecOnce(kind, wrong)
  \/ ExecPanics \/ CheckWatchpoints \/ Continue \/ Return

TraceExecute == TracedDifftest \/ (Untraced /\ UNCHANGED <<ringVars, recent>>)

TraceNext == (Command /\ UNCHANGED <<ringVars, recent>>) \/ TraceExecute

TraceSpec == TraceInit /\ [][TraceNext]_traceVars /\ WF_traceVars(TraceExecute)

-----------------------------------------------------------------------------
\* What invalid_inst prints while it executes, under "Most recent instructions
\* executed:" (hostcall.c:52), is what was executed before, up to the ring's
\* size and the oldest first -- across stops, commands and the ring's end.
ShowsMostRecent == phase = "inst" => Display = recent
=============================================================================
