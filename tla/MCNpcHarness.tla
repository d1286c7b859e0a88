---------------------------- MODULE MCNpcHarness ----------------------------
(***************************************************************************)
(* The harness on the five-bit machine of MCMiniRv: every program of       *)
(* three instructions in a batch run, a few under the debugger.            *)
(***************************************************************************)
EXTENDS NpcHarness, MCMiniRv

MCExprs == {"$x2", "8 / ($x2 - 1)"}
MCEvalExpr(e, p, r) ==
  IF e = "$x2" THEN <<TRUE, r["x2"]>>
  ELSE IF r["x2"] = 1 THEN <<FALSE, 0>> ELSE <<TRUE, IF r["x2"] = 0 THEN 24 ELSE 8 \div (r["x2"] - 1)>>

MCDebugged == {Program(<<4, 17, 8, 17, 7, 16>>), Program(<<3, 21, 17, 8, 9>>)}

MCHarnessImages == MCShortImages \cup MCDebugged

\* The programs of three instructions run in batch mode only.
MCInit == HInit /\ (interactive => mem \in MCDebugged /\ difftest)
MCSpec == MCInit /\ [][HNext]_hVars
=============================================================================
