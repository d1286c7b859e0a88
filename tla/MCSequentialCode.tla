-------------------------- MODULE MCSequentialCode --------------------------
EXTENDS SequentialCode, Bitwise

MCNumeral == "0" :> 0 @@ "2" :> 2 @@ "5" :> 5 @@ "8" :> 8 @@ "15" :> 15
MCRegValue == "$a0" :> 13
\* Nesting; all operators; what divisions and unknown registers can do.
MCKeyboards == {
  <<{"2", "-", "(", ")"}, 8>>,
  <<{"2", "5", "-", "*", "==", "!=", "&&"}, 5>>,
  <<{"0", "8", "15", "$a0", "$xx", "/", "+", "&&"}, 5>>}

\* Printed as "%d", the natural ones as "%p" too.
MCInts == {-128, -10, -9, 0, 7, 19, 127, 160}

\* Character codes.
MCDigit == [d \in 0 .. 15 |-> IF d < 10 THEN 48 + d ELSE 87 + d]

\* The programs of imem.v and semu.c, and every program of three instructions
\* of a few; the rest of the memory adds r0 to itself.
MCCode == {138, 177, 23, 96, 209, 235, 255, 164, 27}
MCProgram ==
  LET memory(code) == [a \in 0 .. 15 |-> IF a < Len(code) THEN code[a + 1] ELSE 0]
  IN {memory(<<138, 177, 144, 160, 23, 41, 209, 96, 227>>),
      memory(<<177, 23, 41, 197, 96, 63, 63, 63, 63, 63, 235>>)}
     \cup {memory(code) : code \in MCCode \X MCCode \X MCCode}

\* Every combination of opcode, funct3 and funct7 the two machines can tell
\* apart, with words at the ends of both ranges, shift amounts among them.
MCAnd(a, b) == a & b
MCOr(a, b) == a | b
MCXor(a, b) == a ^^ b
MCWords == {0, 1, 3, 6, 127, 128, 250, 255}
MCFields(op, f3s, f7s, imms, csrs) ==
  [op : {op}, f3 : f3s, f7 : f7s, imm : imms, csr : csrs]
MCCodes ==
  MCFields("OP", 0 .. 7, {0, 1, 32, 64}, {0}, {"none"})
  \cup MCFields("OP-IMM", 0 .. 7, {0, 32, 64}, MCWords, {"none"})
  \cup UNION {MCFields(op, 0 .. 7, {0}, {0, 3, 128, 250}, {"none"}) :
                op \in {"LOAD", "STORE", "BRANCH", "JALR"}}
  \cup UNION {MCFields(op, {0}, {0}, MCWords, {"none"}) : op \in {"LUI", "AUIPC", "JAL"}}
  \cup UNION {MCFields(op, {0}, {0}, {0}, {"none"}) : op \in {"ECALL", "MRET", "EBREAK"}}
  \cup MCFields("CSR", 0 .. 7, {0}, {0}, {"mstatus", "mtvec", "mepc", "mcause", "other"})
MCMemory == [a \in 0 .. 258 |-> (a * a + a \div 4) % 4]
MCCsrs == "mstatus" :> 24 @@ "mtvec" :> 64 @@ "mepc" :> 8 @@ "mcause" :> 5
=============================================================================
