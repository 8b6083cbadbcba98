----------------------------- MODULE RiscvManual -----------------------------
(***************************************************************************)
(* The instruction listings of the RISC-V manual (RV32I, Zifencei, Zicsr,  *)
(* M, A, C): which words are instructions, and with which operation,       *)
(* registers and immediate.  Words are the sets of their one bits.         *)
(***************************************************************************)
EXTENDS Format

\* inst[hi:lo] of the word, at bit `to` of the immediate.
Part(w, hi, lo, to) == {b \in to..(to + hi - lo) : b - to + lo \in w}

Extended(v, sign) == v \cup IF sign \in v THEN sign..31 ELSE {}

Imm(layout, w) ==
  CASE layout = "I" -> Extended(Part(w, 31, 20, 0), 11)
    [] layout = "csr" -> Part(w, 31, 20, 0)
    [] layout = "shamt" -> Part(w, 24, 20, 0)
    [] layout = "S" -> Extended(Part(w, 31, 25, 5) \cup Part(w, 11, 7, 0), 11)
    [] layout = "B" -> Extended(Part(w, 31, 31, 12) \cup Part(w, 30, 25, 5) \cup Part(w, 11, 8, 1)
                                  \cup Part(w, 7, 7, 11), 12)
    [] layout = "U" -> Part(w, 31, 12, 12)
    [] layout = "J" -> Extended(Part(w, 31, 31, 20) \cup Part(w, 30, 21, 1) \cup Part(w, 20, 20, 11)
                                  \cup Part(w, 19, 12, 12), 20)
    [] layout = "CIW" -> Part(w, 12, 11, 4) \cup Part(w, 10, 7, 6) \cup Part(w, 6, 6, 2)
                           \cup Part(w, 5, 5, 3)
    [] layout = "CL" -> Part(w, 12, 10, 3) \cup Part(w, 6, 6, 2) \cup Part(w, 5, 5, 6)
    [] layout = "CI" -> Extended(Part(w, 12, 12, 5) \cup Part(w, 6, 2, 0), 5)
    [] layout = "addi16sp" ->
         Extended(Part(w, 12, 12, 9) \cup Part(w, 6, 6, 4) \cup Part(w, 5, 5, 6)
                    \cup Part(w, 4, 3, 7) \cup Part(w, 2, 2, 5), 9)
    [] layout = "lui" -> Extended(Part(w, 12, 12, 17) \cup Part(w, 6, 2, 12), 17)
    [] layout = "shift" -> Part(w, 12, 12, 5) \cup Part(w, 6, 2, 0)
    [] layout = "lwsp" -> Part(w, 12, 12, 5) \cup Part(w, 6, 4, 2) \cup Part(w, 3, 2, 6)
    [] layout = "CSS" -> Part(w, 12, 9, 2) \cup Part(w, 8, 7, 6)
    [] layout = "CB" ->
         Extended(Part(w, 12, 12, 8) \cup Part(w, 11, 10, 3) \cup Part(w, 6, 5, 6)
                    \cup Part(w, 4, 3, 1) \cup Part(w, 2, 2, 5), 8)
    [] layout = "CJ" ->
         Extended(Part(w, 12, 12, 11) \cup Part(w, 11, 11, 4) \cup Part(w, 10, 9, 8)
                    \cup Part(w, 8, 8, 10) \cup Part(w, 7, 7, 6) \cup Part(w, 6, 6, 7)
                    \cup Part(w, 5, 3, 1) \cup Part(w, 2, 2, 5), 11)
    [] layout = "none" -> {}

\* regs: where rd, rs1 and rs2 stand, as <<lo, width>>; width 3 means x8..x15.
\* is, isnt: bit fields <<lo, width, value>> that must, or must not, have a value.
Row(op, func, layout, opcode, regs, is, isnt) ==
  [op |-> op, func |-> func, layout |-> layout, opcode |-> opcode, regs |-> regs,
   is |-> is, isnt |-> isnt]

No == <<0, 0>>
RR == <<7, 5>>          \* rd of the 32-bit formats, rd/rs1 of CI and CR
S1 == <<15, 5>>
S2 == <<20, 5>>
F3(v) == <<12, 3, v>>   \* funct3 of the 32-bit formats
F7(v) == <<25, 7, v>>
C3(v) == <<13, 3, v>>   \* funct3 of the compressed formats

\* Rows that differ in funct3 alone: <<code, function>>.
ByF3(op, names, layout, opcode, regs, is) ==
  {Row(op, n[2], layout, opcode, regs, is \cup {F3(n[1])}, {}) : n \in names}

LoadRows ==
  ByF3("LoadStore", {<<0, "lb">>, <<1, "lh">>, <<2, "lw">>, <<4, "lbu">>, <<5, "lhu">>},
       "I", 3, <<RR, S1, No>>, {})
StoreRows ==
  ByF3("LoadStore", {<<0, "sb">>, <<1, "sh">>, <<2, "sw">>}, "S", 35, <<S2, S1, No>>, {})
BranchRows ==
  ByF3("Branch", {<<0, "beq">>, <<1, "bne">>, <<4, "blt">>, <<5, "bge">>, <<6, "bltu">>,
                  <<7, "bgeu">>}, "B", 99, <<No, S1, S2>>, {})
OpImmRows ==
  ByF3("OpImm", {<<0, "addi">>, <<2, "slti">>, <<3, "sltiu">>, <<4, "xori">>, <<6, "ori">>,
                 <<7, "andi">>}, "I", 19, <<RR, S1, No>>, {})
ShiftRows ==
  ByF3("OpImm", {<<1, "slli">>, <<5, "srli">>}, "shamt", 19, <<RR, S1, No>>, {F7(0)})
  \cup ByF3("OpImm", {<<5, "srai">>}, "shamt", 19, <<RR, S1, No>>, {F7(32)})
OpRows ==
  ByF3("OpAmo", {<<0, "add">>, <<1, "sll">>, <<2, "slt">>, <<3, "sltu">>, <<4, "xor">>,
                 <<5, "srl">>, <<6, "or">>, <<7, "and">>}, "none", 51, <<RR, S1, S2>>, {F7(0)})
  \cup ByF3("OpAmo", {<<0, "sub">>, <<5, "sra">>}, "none", 51, <<RR, S1, S2>>, {F7(32)})
  \cup ByF3("OpAmo", {<<0, "mul">>, <<1, "mulh">>, <<2, "mulhsu">>, <<3, "mulhu">>, <<4, "div">>,
                      <<5, "divu">>, <<6, "rem">>, <<7, "remu">>},
            "none", 51, <<RR, S1, S2>>, {F7(1)})
AmoRows ==
  {Row("OpAmo", n[2], "none", 47, <<RR, S1, S2>>, {F3(2), <<27, 5, n[1]>>}, {}) :
     n \in {<<3, "sc">>, <<1, "amoswap">>, <<0, "amoadd">>, <<4, "amoxor">>, <<12, "amoand">>,
            <<8, "amoor">>, <<16, "amomin">>, <<20, "amomax">>, <<24, "amominu">>,
            <<28, "amomaxu">>}}
  \cup {Row("OpAmo", "lr", "none", 47, <<RR, S1, S2>>, {F3(2), <<27, 5, 2>>, <<20, 5, 0>>}, {})}
FenceRows ==
  ByF3("SystemMiscMem", {<<0, "fencei">>, <<1, "fencei">>}, "none", 15, <<No, No, No>>, {})
SystemRows ==
  {Row("SystemMiscMem", n[2], "none", 115, <<No, No, No>>,
       {F3(0), <<7, 5, 0>>, <<15, 5, 0>>, <<20, 12, n[1]>>}, {}) :
     n \in {<<0, "ecall">>, <<1, "ebreak">>, <<261, "wfi">>, <<770, "mret">>}}
CsrRows ==
  ByF3("SystemMiscMem", {<<1, "csrrw">>, <<2, "csrrs">>, <<3, "csrrc">>, <<5, "csrrwi">>,
                         <<6, "csrrsi">>, <<7, "csrrci">>}, "csr", 115, <<RR, S1, No>>, {})
OtherRows ==
  {Row("Auipc", "", "U", 23, <<RR, No, No>>, {}, {}),
   Row("Lui", "", "U", 55, <<RR, No, No>>, {}, {}),
   Row("Jal", "", "J", 111, <<RR, No, No>>, {}, {}),
   Row("Jalr", "", "I", 103, <<RR, S1, No>>, {F3(0)}, {})}

Rows32 == LoadRows \cup StoreRows \cup BranchRows \cup OpImmRows \cup ShiftRows \cup OpRows
            \cup AmoRows \cup FenceRows \cup SystemRows \cup CsrRows \cup OtherRows

P1 == <<7, 3>>      \* rd'/rs1' of the compressed formats
P2 == <<2, 3>>      \* rd' of CIW and CL, rs2' of CS
Q2 == <<2, 5>>      \* rs2 of CR and CSS

\* HINTs are instructions; reserved code points, but for c.lui and c.addi16sp
\* with a zero immediate, are not.
Rows16 ==
  { Row("CAddi4spn", "", "CIW", 0, <<P2, No, No>>, {C3(0)}, {<<5, 8, 0>>}),
    Row("CAddi4spn", "", "CIW", 0, <<P2, No, No>>, {C3(0), <<5, 8, 0>>, <<2, 3, 0>>}, {}),   \* defined illegal
    Row("CLw", "", "CL", 0, <<P2, P1, No>>, {C3(2)}, {}),
    Row("CSw", "", "CL", 0, <<P2, P1, No>>, {C3(6)}, {}),
    Row("CAddi", "", "CI", 1, <<RR, No, No>>, {C3(0)}, {}),
    Row("CJal", "", "CJ", 1, <<No, No, No>>, {C3(1)}, {}),
    Row("CLi", "", "CI", 1, <<RR, No, No>>, {C3(2)}, {}),
    Row("CAddi16sp", "", "addi16sp", 1, <<RR, No, No>>, {C3(3), <<7, 5, 2>>}, {}),
    Row("CLui", "", "lui", 1, <<RR, No, No>>, {C3(3)}, {<<7, 5, 2>>}),
    Row("CSrli", "", "shift", 1, <<P1, No, No>>, {C3(4), <<10, 3, 0>>}, {}),
    Row("CSrai", "", "shift", 1, <<P1, No, No>>, {C3(4), <<10, 3, 1>>}, {}),
    Row("CAndi", "", "CI", 1, <<P1, No, No>>, {C3(4), <<10, 2, 2>>}, {}),
    Row("CSub", "", "none", 1, <<P1, No, P2>>, {C3(4), <<10, 3, 3>>, <<5, 2, 0>>}, {}),
    Row("CXor", "", "none", 1, <<P1, No, P2>>, {C3(4), <<10, 3, 3>>, <<5, 2, 1>>}, {}),
    Row("COr", "", "none", 1, <<P1, No, P2>>, {C3(4), <<10, 3, 3>>, <<5, 2, 2>>}, {}),
    Row("CAnd", "", "none", 1, <<P1, No, P2>>, {C3(4), <<10, 3, 3>>, <<5, 2, 3>>}, {}),
    Row("CJ", "", "CJ", 1, <<No, No, No>>, {C3(5)}, {}),
    Row("CBeqz", "", "CB", 1, <<No, P1, No>>, {C3(6)}, {}),
    Row("CBnez", "", "CB", 1, <<No, P1, No>>, {C3(7)}, {}),
    Row("CSlli", "", "shift", 2, <<RR, No, No>>, {C3(0), <<12, 1, 0>>}, {}),
    Row("CLwsp", "", "lwsp", 2, <<RR, No, No>>, {C3(2)}, {<<7, 5, 0>>}),
    Row("CJrMv", "", "none", 2, <<RR, No, Q2>>, {C3(4), <<12, 1, 0>>}, {<<2, 10, 0>>}),
    Row("CEbreakJalrAdd", "", "none", 2, <<RR, No, Q2>>, {C3(4), <<12, 1, 1>>}, {}),
    Row("CSwsp", "", "CSS", 2, <<No, No, Q2>>, {C3(6)}, {}) }

\* The rows of an opcode: seven bits, or the two of a 16-bit instruction.
RowsOf == [k \in 0..127 |-> {r \in Rows32 : r.opcode = k}
                              \cup {r \in Rows16 : k % 4 < 3 /\ r.opcode = k % 4}]

Has(w, f) == Field(w, f[1], f[2]) = f[3]
RowsFor(w) == {r \in RowsOf[Field(w, 0, 7)] : /\ \A f \in r.is : Has(w, f)
                                              /\ \A f \in r.isnt : ~Has(w, f)}

Register(w, at) == IF at = No THEN 0
                   ELSE Field(w, at[1], at[2]) + IF at[2] = 3 THEN 8 ELSE 0

Meaning(op, func, rd, rs1, rs2, imm) ==
  [op |-> op, func |-> func, rd |-> rd, rs1 |-> rs1, rs2 |-> rs2, imm |-> imm]

\* The instruction the manual gives to a word (at most one row applies).
RiscvMeanings(w) ==
  {Meaning(r.op, r.func, Register(w, r.regs[1]), Register(w, r.regs[2]),
           Register(w, r.regs[3]), Imm(r.layout, w)) : r \in RowsFor(w)}

=============================================================================
