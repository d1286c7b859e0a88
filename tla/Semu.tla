-------------------------------- MODULE Semu --------------------------------
(***************************************************************************)
(* The emulator of the 8-bit teaching ISA (e4/sisa/semu.c): what a         *)
(* processor of that ISA does.  Its PC is a byte but its memory has 16: to *)
(* run off the end is undefined.                                           *)
(***************************************************************************)
EXTENDS Naturals

VARIABLES
  PC, R, M,
  printed,           \* what the last instruction printed, <<>> if nothing
  undefined          \* the program has run off the end

semuVars == <<PC, R, M, printed, undefined>>

Init ==
  /\ M \in [0 .. 15 -> 0 .. 255] /\ PC = 0 /\ R = [r \in 0 .. 3 |-> 0]
  /\ printed = <<>> /\ undefined = FALSE

\* n bits of a byte, from bit lo.
Field(byte, lo, n) == (byte \div 2 ^ lo) % 2 ^ n
Opcode == Field(M[PC], 6, 2)
Rd == Field(M[PC], 4, 2)
Rs1 == Field(M[PC], 2, 2)
Rs2 == Field(M[PC], 0, 2)

\* PC++
StepOn == IF PC = 15 THEN undefined' = TRUE /\ PC' = PC
                     ELSE undefined' = FALSE /\ PC' = PC + 1

Add ==
  /\ Opcode = 0
  /\ R' = [R EXCEPT ![Rd] = (R[Rs1] + R[Rs2]) % 256]
  /\ StepOn /\ printed' = <<>>

Out ==
  /\ Opcode = 1
  /\ printed' = <<R[Rd]>>
  /\ StepOn /\ UNCHANGED R

Li ==
  /\ Opcode = 2
  /\ R' = [R EXCEPT ![Rd] = Field(M[PC], 0, 4)]
  /\ StepOn /\ printed' = <<>>

Bner0 ==
  /\ Opcode = 3
  /\ IF R[0] # R[Rs2] THEN PC' = Field(M[PC], 2, 4) /\ undefined' = FALSE
                      ELSE StepOn
  /\ UNCHANGED R /\ printed' = <<>>

InstCycle == ~undefined /\ (Add \/ Out \/ Li \/ Bner0) /\ UNCHANGED M

Spec == Init /\ [][InstCycle \/ undefined]_semuVars
=============================================================================
