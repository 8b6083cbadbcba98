------------------------------- MODULE Convert -------------------------------
(***************************************************************************)
(* The instruction tables (instruction.rs) and the conversion of one       *)
(* RISC-V instruction to Embive (transpiler/convert.rs, convert/).         *)
(***************************************************************************)
EXTENDS Format

\* instructions!: opcode number k is entry k + 1, with its format.
Instructions ==
  << <<"CAddi4spn", "CIW">>, <<"CLw", "CL">>, <<"CSw", "CL">>, <<"CAddi", "CI1">>,
     <<"CJal", "CJ">>, <<"CLi", "CI1">>, <<"CAddi16sp", "CI2">>, <<"CLui", "CI3">>,
     <<"CSrli", "CB1">>, <<"CSrai", "CB1">>, <<"CAndi", "CB2">>, <<"CSub", "CS">>,
     <<"CXor", "CS">>, <<"COr", "CS">>, <<"CAnd", "CS">>, <<"CJ", "CJ">>,
     <<"CBeqz", "CB4">>, <<"CBnez", "CB4">>, <<"CSlli", "CI4">>, <<"CLwsp", "CI5">>,
     <<"CJrMv", "CR">>, <<"CEbreakJalrAdd", "CR">>, <<"CSwsp", "CSS">>, <<"Auipc", "U">>,
     <<"Branch", "B">>, <<"Jal", "J">>, <<"Jalr", "I">>, <<"LoadStore", "I">>,
     <<"Lui", "U">>, <<"OpImm", "I">>, <<"OpAmo", "R">>, <<"SystemMiscMem", "I">> >>

OpcodeOf(op) == (CHOOSE k \in DOMAIN Instructions : Instructions[k][1] = op) - 1
FormatOf(op) == Instructions[OpcodeOf(op) + 1][2]

\* The *_FUNC and *_IMM constants, in the order of their numbers.
BRANCH_FUNC  == <<"beq", "bne", "blt", "bge", "bltu", "bgeu">>
LOAD_STORE_FUNC == <<"lb", "lh", "lw", "lbu", "lhu", "sb", "sh", "sw">>
OP_IMM_FUNC  == <<"addi", "slli", "slti", "sltiu", "xori", "srli_srai", "ori", "andi">>
OP_AMO_FUNC  ==
  <<"add", "sub", "sll", "slt", "sltu", "xor", "srl", "sra", "or", "and",
    "mul", "mulh", "mulhsu", "mulhu", "div", "divu", "rem", "remu",
    "lr", "sc", "amoswap", "amoadd", "amoxor", "amoand", "amoor",
    "amomin", "amomax", "amominu", "amomaxu">>
SYSTEM_FUNC  == <<"misc", "csrrw", "csrrs", "csrrc", "csrrwi", "csrrsi", "csrrci">>
SYSTEM_IMM   == <<"ecall", "ebreak", "fencei", "wfi", "mret">>

FuncTable(op) == CASE op = "Branch"        -> BRANCH_FUNC
                   [] op = "LoadStore"     -> LOAD_STORE_FUNC
                   [] op = "OpImm"         -> OP_IMM_FUNC
                   [] op = "OpAmo"         -> OP_AMO_FUNC
                   [] op = "SystemMiscMem" -> SYSTEM_FUNC

\* The number of a named function or immediate.
NumberIn(table, name) == (CHOOSE k \in DOMAIN table : table[k] = name) - 1

-----------------------------------------------------------------------------
(* The trait Format, by the name of the format                             *)

Size(fmt) == IF fmt \in {"R", "I", "S", "B", "U", "J"} THEN 4 ELSE 2

FromEmbive(fmt, i) ==
  CASE fmt = "R" -> TypeR_from_embive(i)     [] fmt = "I" -> TypeI_from_embive(i)
    [] fmt = "B" -> TypeB_from_embive(i)     [] fmt = "U" -> TypeU_from_embive(i)
    [] fmt = "J" -> TypeJ_from_embive(i)     [] fmt = "CIW" -> TypeCIW_from_embive(i)
    [] fmt = "CL" -> TypeCL_from_embive(i)   [] fmt = "CI1" -> TypeCI1_from_embive(i)
    [] fmt = "CI2" -> TypeCI2_from_embive(i) [] fmt = "CI3" -> TypeCI3_from_embive(i)
    [] fmt = "CI4" -> TypeCI4_from_embive(i) [] fmt = "CI5" -> TypeCI5_from_embive(i)
    [] fmt = "CB1" -> TypeCB1_from_embive(i) [] fmt = "CB2" -> TypeCB2_from_embive(i)
    [] fmt = "CB4" -> TypeCB4_from_embive(i) [] fmt = "CR" -> TypeCR_from_embive(i)
    [] fmt = "CS" -> TypeCS_from_embive(i)   [] fmt = "CSS" -> TypeCSS_from_embive(i)
    [] fmt = "CJ" -> TypeCJ_from_embive(i)

ToEmbive(fmt, f) ==
  CASE fmt = "R" -> TypeR_to_embive(f)       [] fmt = "I" -> TypeI_to_embive(f)
    [] fmt = "B" -> TypeB_to_embive(f)       [] fmt = "U" -> TypeU_to_embive(f)
    [] fmt = "J" -> TypeJ_to_embive(f)       [] fmt = "CIW" -> TypeCIW_to_embive(f)
    [] fmt = "CL" -> TypeCL_to_embive(f)     [] fmt = "CI1" -> TypeCI1_to_embive(f)
    [] fmt = "CI2" -> TypeCI2_to_embive(f)   [] fmt = "CI3" -> TypeCI3_to_embive(f)
    [] fmt = "CI4" -> TypeCI4_to_embive(f)   [] fmt = "CI5" -> TypeCI5_to_embive(f)
    [] fmt = "CB1" -> TypeCB1_to_embive(f)   [] fmt = "CB2" -> TypeCB2_to_embive(f)
    [] fmt = "CB4" -> TypeCB4_to_embive(f)   [] fmt = "CR" -> TypeCR_to_embive(f)
    [] fmt = "CS" -> TypeCS_to_embive(f)     [] fmt = "CSS" -> TypeCSS_to_embive(f)
    [] fmt = "CJ" -> TypeCJ_to_embive(f)

\* decode_instruction!: the opcode and the fields of an Embive word.  Every
\* value of the five opcode bits is in the table.
DecodeInstruction(w) ==
  LET entry == Instructions[Field(w, 0, 5) + 1]
  IN  [op |-> entry[1], fields |-> FromEmbive(entry[2], w)]

-----------------------------------------------------------------------------
(* convert                                                                 *)

\* embive_raw!: Ok(RawInstruction).
EmbiveRaw(op, f) ==
  [tag |-> "Ok", size |-> Size(FormatOf(op)),
   data |-> ToEmbive(FormatOf(op), f) \cup BitsOf(OpcodeOf(op))]

InvalidInstruction(data) == [tag |-> "InvalidInstruction", size |-> 0, data |-> data]

\* Replace the RISC-V function code by the Embive number of the same function;
\* arms has <<code, function>> for each RISC-V code that has one.
WithFunc(data, op, f, arms) ==
  IF \E a \in arms : a[1] = f.func
  THEN LET arm == CHOOSE a \in arms : a[1] = f.func
       IN  EmbiveRaw(op, [f EXCEPT !.func = NumberIn(FuncTable(op), arm[2])])
  ELSE InvalidInstruction(data)

C0(data) ==
  LET funct3 == Field(data, 13, 3)
  IN  CASE funct3 = 0 -> EmbiveRaw("CAddi4spn", TypeCIW_from_riscv(data))
        [] funct3 = 2 -> EmbiveRaw("CLw", TypeCL_from_riscv(data))
        [] funct3 = 6 -> EmbiveRaw("CSw", TypeCL_from_riscv(data))
        [] OTHER -> InvalidInstruction(Masked(data, 0, 16))

\* funct3 = 0b100 of C1, by bits 11..10, 12 and 6..5.
C1Arithmetic(data) ==
  LET bits11_10 == Field(data, 10, 2)
      inst == TypeCS_from_riscv(data)
  IN  CASE bits11_10 = 0 -> EmbiveRaw("CSrli", TypeCB1_from_riscv(data))
        [] bits11_10 = 1 -> EmbiveRaw("CSrai", TypeCB1_from_riscv(data))
        [] bits11_10 = 2 -> EmbiveRaw("CAndi", TypeCB2_from_riscv(data))
        [] bits11_10 = 3 /\ 12 \notin data ->
             EmbiveRaw(<<"CSub", "CXor", "COr", "CAnd">>[Field(data, 5, 2) + 1], inst)
        [] OTHER -> InvalidInstruction(Masked(data, 0, 16))

C1(data) ==
  LET funct3 == Field(data, 13, 3)
      lui == TypeCI3_from_riscv(data)
  IN  CASE funct3 = 0 -> EmbiveRaw("CAddi", TypeCI1_from_riscv(data))
        [] funct3 = 1 -> EmbiveRaw("CJal", TypeCJ_from_riscv(data))
        [] funct3 = 2 -> EmbiveRaw("CLi", TypeCI1_from_riscv(data))
        [] funct3 = 3 /\ lui.rd = 2 -> EmbiveRaw("CAddi16sp", TypeCI2_from_riscv(data))
        [] funct3 = 3 /\ lui.rd # 2 -> EmbiveRaw("CLui", lui)
        [] funct3 = 4 -> C1Arithmetic(data)
        [] funct3 = 5 -> EmbiveRaw("CJ", TypeCJ_from_riscv(data))
        [] funct3 = 6 -> EmbiveRaw("CBeqz", TypeCB4_from_riscv(data))
        [] funct3 = 7 -> EmbiveRaw("CBnez", TypeCB4_from_riscv(data))

C2(data) ==
  LET funct3 == Field(data, 13, 3)
  IN  CASE funct3 = 0 -> EmbiveRaw("CSlli", TypeCI4_from_riscv(data))
        [] funct3 = 2 -> EmbiveRaw("CLwsp", TypeCI5_from_riscv(data))
        [] funct3 = 4 ->
             EmbiveRaw(IF 12 \notin data THEN "CJrMv" ELSE "CEbreakJalrAdd", TypeCR_from_riscv(data))
        [] funct3 = 6 -> EmbiveRaw("CSwsp", TypeCSS_from_riscv(data))
        [] OTHER -> InvalidInstruction(Masked(data, 0, 16))

LoadArms == {<<0, "lb">>, <<1, "lh">>, <<2, "lw">>, <<4, "lbu">>, <<5, "lhu">>}
Load(data) == WithFunc(data, "LoadStore", TypeI_from_riscv(data), LoadArms)

\* TypeS becomes a TypeI whose rd_rs2 is rs2.
StoreArms == {<<0, "sb">>, <<1, "sh">>, <<2, "sw">>}
Store(data) ==
  LET s == TypeS_from_riscv(data)
  IN  WithFunc(data, "LoadStore", Fields(s.rs2, s.rs1, 0, s.func, s.imm), StoreArms)

BranchArms ==
  {<<0, "beq">>, <<1, "bne">>, <<4, "blt">>, <<5, "bge">>, <<6, "bltu">>, <<7, "bgeu">>}
Branch(data) == WithFunc(data, "Branch", TypeB_from_riscv(data), BranchArms)

OpImmArms == {<<k, OP_IMM_FUNC[k + 1]>> : k \in 0..7}
OpImm(data) == WithFunc(data, "OpImm", TypeI_from_riscv(data), OpImmArms)

\* Function codes of Op are funct7 and funct3 side by side.
M_EXT_FUNCT7 == 1
SUB_SRA_FUNCT7 == 32
Funct10(funct7, funct3) == funct7 * 8 + funct3

OpArms ==
  {<<0, "add">>, <<1, "sll">>, <<2, "slt">>, <<3, "sltu">>,
   <<4, "xor">>, <<5, "srl">>, <<6, "or">>, <<7, "and">>,
   <<Funct10(SUB_SRA_FUNCT7, 0), "sub">>, <<Funct10(SUB_SRA_FUNCT7, 5), "sra">>,
   <<Funct10(M_EXT_FUNCT7, 0), "mul">>, <<Funct10(M_EXT_FUNCT7, 1), "mulh">>,
   <<Funct10(M_EXT_FUNCT7, 2), "mulhsu">>, <<Funct10(M_EXT_FUNCT7, 3), "mulhu">>,
   <<Funct10(M_EXT_FUNCT7, 4), "div">>, <<Funct10(M_EXT_FUNCT7, 5), "divu">>,
   <<Funct10(M_EXT_FUNCT7, 6), "rem">>, <<Funct10(M_EXT_FUNCT7, 7), "remu">>}
Op(data) == WithFunc(data, "OpAmo", TypeR_from_riscv(data), OpArms)

\* func >> 5 drops funct3 and the aq and rl bits.
WORD_WIDTH == 2

\* Mutant: the aq and rl bits are taken for part of the function.
AmoFunct5_WithOrdering(func) == func \div 8

AmoFunct5(func) == func \div 32

AmoArms ==
  {<<2, "lr">>, <<3, "sc">>, <<1, "amoswap">>, <<0, "amoadd">>, <<4, "amoxor">>, <<12, "amoand">>,
   <<8, "amoor">>, <<16, "amomin">>, <<20, "amomax">>, <<24, "amominu">>, <<28, "amomaxu">>}
Amo(data) ==
  LET r == TypeR_from_riscv(data)
  IN  IF r.func % 8 # WORD_WIDTH THEN InvalidInstruction(data)
      ELSE WithFunc(data, "OpAmo", [r EXCEPT !.func = AmoFunct5(r.func)], AmoArms)

SystemImm(name) == BitsOf(NumberIn(SYSTEM_IMM, name))

\* fence and fence.i: whatever the function, the Embive fence.i.
MiscMem(data) ==
  EmbiveRaw("SystemMiscMem", [TypeI_from_riscv(data) EXCEPT !.func = 0,
                                                            !.imm = SystemImm("fencei")])

\* The immediates with a conversion; any other one is kept.
ConvertedImm(imm) ==
  CASE imm = BitsOf(0)   -> SystemImm("ecall")
    [] imm = BitsOf(1)   -> SystemImm("ebreak")
    [] imm = BitsOf(261) -> SystemImm("wfi")
    [] imm = BitsOf(770) -> SystemImm("mret")
    [] OTHER             -> imm

CsrArms ==
  {<<1, "csrrw">>, <<2, "csrrs">>, <<3, "csrrc">>, <<5, "csrrwi">>, <<6, "csrrsi">>, <<7, "csrrci">>}
System(data) ==
  LET i == TypeI_from_riscv(data)
  IN  IF i.func = NumberIn(SYSTEM_FUNC, "misc")
      THEN EmbiveRaw("SystemMiscMem", [i EXCEPT !.imm = ConvertedImm(i.imm)])
      ELSE WithFunc(data, "SystemMiscMem", i, CsrArms)

\* convert
ConvertInstruction(data) ==
  LET opcode == Field(data, 0, 7)
  IN  CASE opcode % 4 = 0 -> C0(data)
        [] opcode % 4 = 1 -> C1(data)
        [] opcode % 4 = 2 -> C2(data)
        [] opcode = 3   -> Load(data)
        [] opcode = 15  -> MiscMem(data)
        [] opcode = 19  -> OpImm(data)
        [] opcode = 23  -> EmbiveRaw("Auipc", TypeU_from_riscv(data))
        [] opcode = 35  -> Store(data)
        [] opcode = 47  -> Amo(data)
        [] opcode = 51  -> Op(data)
        [] opcode = 55  -> EmbiveRaw("Lui", TypeU_from_riscv(data))
        [] opcode = 99  -> Branch(data)
        [] opcode = 103 -> EmbiveRaw("Jalr", TypeI_from_riscv(data))
        [] opcode = 111 -> EmbiveRaw("Jal", TypeJ_from_riscv(data))
        [] opcode = 115 -> System(data)
        [] OTHER -> InvalidInstruction(data)

=============================================================================
