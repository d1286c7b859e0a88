--------------------------- MODULE NanosThreads ---------------------------
(***************************************************************************)
(* What nanos-lite and the context extension promise together: main and    *)
(* two processes, each with registers, a stack and a program counter that  *)
(* nobody else touches.  One runs at a time; it hands over by yield(), and *)
(* the other process goes on exactly where it had stopped.                 *)
(***************************************************************************)
EXTENDS Naturals, Sequences

CONSTANTS NumberReg,     \* the register yield() loads before its ecall
          MinusOne       \* the word it loads

Thread == {"boot", "pcb0", "pcb1"}

VARIABLES running, tregs, tstack, tpc,
          ticks          \* alternates with every instruction but yield's

threadVars == <<running, tregs, tstack, tpc, ticks>>

\* main is not a process: nobody hands over to it.
NextThread(t) == IF t = "pcb0" THEN "pcb1" ELSE "pcb0"

Init ==
  /\ running = "boot"
  /\ DOMAIN tregs = Thread /\ DOMAIN tpc = Thread
  /\ tstack = [t \in Thread |-> <<>>]
  /\ ticks = 0

\* An instruction of a thread: anything may happen to the thread's own state.
Work(t) ==
  /\ running = t
  /\ ticks' = 1 - ticks
  /\ \A u \in Thread \ {t} :
       tregs'[u] = tregs[u] /\ tstack'[u] = tstack[u] /\ tpc'[u] = tpc[u]
  /\ UNCHANGED running

Yield(t) ==
  /\ running = t
  /\ running' = NextThread(t)
  /\ tregs' = [tregs EXCEPT ![t][NumberReg] = MinusOne]
  /\ tpc' = [tpc EXCEPT ![t] = @ + 1]
  /\ UNCHANGED <<tstack, ticks>>

Spec == Init /\ [][\E t \in Thread : Work(t) \/ Yield(t)]_threadVars
=============================================================================
