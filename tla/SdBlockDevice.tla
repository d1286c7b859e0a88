--------------------------- MODULE SdBlockDevice ---------------------------
(***************************************************************************)
(* What the Linux driver of NEMU's SD card promises the block layer: a     *)
(* request reads or writes the words of its blocks, in order, or reports   *)
(* an error; nothing else changes the disk.                                *)
(***************************************************************************)
EXTENDS Naturals, Sequences

CONSTANTS BlockWords, ExtCsd, Requests

VARIABLES disk, request, moved, buffer, status

bdVars == <<disk, request, moved, buffer, status>>

None == [op |-> "none"]
Total(r) == IF r.op \in {"read", "write"} THEN r.blocks * BlockWords
            ELSE IF r.op = "csd" THEN BlockWords ELSE 0

Init ==
  /\ disk = [w \in DOMAIN disk |-> <<"old", w>>]
  /\ request = None /\ moved = 0 /\ buffer = <<>> /\ status = "none"

Issue(r) ==
  /\ request = None /\ request' = r
  /\ moved' = 0 /\ buffer' = <<>> /\ status' = "none"
  /\ UNCHANGED disk

MoveWord ==
  /\ request # None /\ moved < Total(request) /\ moved' = moved + 1
  /\ LET at == request.start * BlockWords + moved IN
     CASE request.op = "csd"   -> buffer' = Append(buffer, ExtCsd[moved]) /\ UNCHANGED disk
       [] request.op = "read"  -> buffer' = Append(buffer, disk[at]) /\ UNCHANGED disk
       [] request.op = "write" -> disk' = [disk EXCEPT ![at] = <<request.tag, moved>>]
                                  /\ UNCHANGED buffer
  /\ UNCHANGED <<request, status>>

\* Success means that every word has moved.
Finish ==
  /\ request # None /\ request' = None
  /\ status' = IF moved = Total(request) THEN "ok" ELSE "error"
  /\ UNCHANGED <<disk, moved, buffer>>

Spec == Init /\ [][(\E r \in Requests : Issue(r)) \/ MoveWord \/ Finish]_bdVars
=============================================================================
