---------------------------- MODULE MCNanosProc ----------------------------
(***************************************************************************)
(* Registers 1 (callee-saved), 2 (sp), 3 (a0) and 4 (a5 or a7).  Memory:   *)
(* the two stacks at 10..23 and 24..37, pcb_boot at 38, main's stack at    *)
(* 39..49, the program's segment at 60..63.  pcs 64 and up hold kernel     *)
(* code.                                                                   *)
(***************************************************************************)
EXTENDS NanosProc

MCWord == 0 .. 80
MCAddr == (10 .. 49) \cup (60 .. 63)
MCWithMprv(w) == IF w = 70 THEN 71 ELSE w
MCUserCode == 60 .. 61

Stdin == [name |-> "stdin", size |-> 0, disk_offset |-> 0]
PalAt(n) == <<Stdin, [name |-> "other", size |-> n, disk_offset |-> 0],
              [name |-> Pal, size |-> 12, disk_offset |-> n]>>
\* ehdr: magic 77, entry 60, phoff 4, phnum n
TwoSegments == <<77, 60, 4, 2,  5, 14, 60, 2, 2,  6, 0, 60, 9, 9,  31, 32>>
OneWithBss  == <<77, 60, 4, 1,  5, 9, 60, 2, 4,  33, 34>>
NotElf      == <<78, 60, 4, 1,  5, 9, 60, 2, 4,  33, 34>>

Disk(table, words) == [table |-> table, words |-> words]
MCDisks == {Disk(PalAt(3), <<1, 2, 3>> \o TwoSegments),
            Disk(PalAt(0), OneWithBss),
            Disk(PalAt(0), NotElf),
            Disk(PalAt(0), SubSeq(OneWithBss, 1, 10)),
            Disk(<<Stdin>>, OneWithBss)}
=============================================================================
