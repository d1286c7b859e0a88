--------------------------- MODULE SequentialCode ---------------------------
(***************************************************************************)
(* Code that runs by itself, one call at a time: the expressions of the    *)
(* debuggers, the calls and the heap of klib, the smallest processor, and  *)
(* the datapath of the core.  They share nothing and one of them runs.     *)
(***************************************************************************)
EXTENDS SdbExpr, Klib, Scpu, Datapath

VARIABLE part       \* what runs

seqVars == <<part, sdbVars, klibVars, scpuVars, datapathVars>>

Init ==
  /\ part \in {"sdb", "call", "heap", "scpu", "datapath"}
  /\ DatapathInit
  /\ IF part = "sdb" THEN SdbInit
                     ELSE keyboard = (CHOOSE k \in Keyboards : TRUE) /\ tokens = <<>> /\ answer = NoAnswer
  /\ IF part = "call" THEN CallInit
                      ELSE mem = [a \in Addr |-> 0] /\ call = NoCall /\ ret = <<>>
  /\ HeapInit
  /\ IF part = "scpu" THEN ScpuInit
                      ELSE /\ rom = [a \in 0 .. 15 |-> 0] /\ pc = 0
                           /\ q = [r \in 0 .. 3 |-> 0] /\ shown = <<>> /\ wrapped = FALSE

Next ==
  \/ part = "sdb" /\ SdbNext /\ UNCHANGED <<part, klibVars, scpuVars, datapathVars>>
  \/ part = "call" /\ Call /\ UNCHANGED <<part, sdbVars, heapVars, scpuVars, datapathVars>>
  \/ part = "heap" /\ Malloc /\ UNCHANGED <<part, sdbVars, stringVars, scpuVars, datapathVars>>
  \/ part = "scpu" /\ PosEdge /\ UNCHANGED <<part, sdbVars, klibVars, datapathVars>>
  \/ part = "datapath" /\ Execute /\ UNCHANGED <<part, sdbVars, klibVars, scpuVars>>

Spec == Init /\ [][Next]_seqVars
=============================================================================
