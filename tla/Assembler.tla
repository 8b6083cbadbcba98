------------------------------ MODULE Assembler ------------------------------
(***************************************************************************)
(* Code images for model checking.  The encoding is a toy one: the low     *)
(* half of an instruction word selects a compressed instruction, or,       *)
(* together with the high half, a 32-bit one.  As in the code, a word of   *)
(* zeros is c.addi4spn with immediate 0, the illegal instruction.          *)
(***************************************************************************)
EXTENDS Words, Sequences, SequencesExt

HALF == BASE * BASE

Ins(op, func, rd, rs1, rs2, imm, name) ==
  [op |-> op, func |-> func, rd |-> rd, rs1 |-> rs1, rs2 |-> rs2,
   imm |-> Wrap(imm), csr |-> name]

Compressed(op, rd, rs1, rs2, imm) == Ins(op, "none", rd, rs1, rs2, imm, "ignored")
R(func, rd, rs1, rs2)    == Ins("OpAmo", func, rd, rs1, rs2, 0, "ignored")
Imm(func, rd, rs1, imm)  == Ins("OpImm", func, rd, rs1, 0, imm, "ignored")
Mem(func, rd, rs1, imm)  == Ins("LoadStore", func, rd, rs1, 0, imm, "ignored")
Br(func, rs1, rs2, imm)  == Ins("Branch", func, 0, rs1, rs2, imm, "ignored")
Up(op, rd, rs1, imm)     == Ins(op, "none", rd, rs1, 0, imm, "ignored")
Sys(func)                == Ins("SystemMiscMem", func, 0, 0, 0, 0, "ignored")
Csr(func, rd, name, rs1) == Ins("SystemMiscMem", func, rd, rs1, 0, 0, name)

Illegal == Compressed("CAddi4spn", 8, 0, 0, 0)
Invalid == Br("invalid", 0, 0, 0)

\* The meaning of every word, given the sequences of the compressed and of
\* the 32-bit instructions in use.  TLC tabulates a function
\* built with @@.
MakeDecode(comp, full) ==
  (0 :> comp[1]) @@
  [w \in Word |->
     LET h == w % HALF
         k == (h - Len(comp)) * HALF + w \div HALF
     IN  IF h < Len(comp) THEN comp[h + 1]
         ELSE IF k < Len(full) THEN full[k + 1] ELSE Invalid]

IndexIn(s, e) == CHOOSE k \in 1..Len(s) : s[k] = e

Encode(comp, full, i) ==
  IF \E k \in 1..Len(comp) : comp[k] = i
  THEN LET h == IndexIn(comp, i) - 1 IN <<h % BASE, h \div BASE>>
  ELSE LET k == IndexIn(full, i) - 1
           h == Len(comp) + k \div HALF
           g == k % HALF
       IN  <<h % BASE, h \div BASE, g % BASE, g \div BASE>>

\* The code image of a program, padded with zeros.
Assemble(comp, full, prog, len) ==
  LET bytes == FlattenSeq([k \in 1..Len(prog) |-> Encode(comp, full, prog[k])])
  IN  [i \in 0..(len - 1) |-> IF i < Len(bytes) THEN bytes[i + 1] ELSE 0]

=============================================================================
