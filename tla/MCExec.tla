-------------------------------- MODULE MCExec -------------------------------
(***************************************************************************)
(* Every instruction, one or two at a time: a host that assigns the        *)
(* registers, then the program counter, then calls run() with an           *)
(* instruction limit of one or two.                                        *)
(***************************************************************************)
EXTENDS CompressedForms, Alu, Assembler

CONSTANT Operands      \* values of the source registers x8 and x9

\* x8 and x9 hold operands (compressed formats reach them), as does the link
\* register; sp points into RAM.
MCRegisters == {[r \in Reg |-> CASE r \in {RA, 8} -> a [] r = 9 -> b [] r = SP -> RAM_OFFSET
                                 [] OTHER -> 0] : a \in Operands, b \in Operands}

Start == Idle /\ pc = 0 /\ last.tag = "Done"

ENext ==
  \/ Start /\ x \notin MCRegisters /\ SetRegisters /\ UNCHANGED <<frame, lr, executed>>
  \/ Start /\ x \in MCRegisters /\ SetPc /\ UNCHANGED <<frame, lr, executed>>
  \/ Idle /\ pc # 0 /\ last.tag = "Done" /\ HCall
  \/ HStep

ESpec == HInit /\ [][ENext]_hvars

-----------------------------------------------------------------------------
(* Code images                                                             *)

C(op, rd, rs1, rs2, imm) == Compressed(op, rd, rs1, rs2, imm)

\* Compressed arithmetic, c.lui and c.bnez.
ExecComp == <<Illegal,
  C("CAddi", 8, 0, 0, -1), C("CSrli", 8, 0, 0, 3), C("CSrai", 8, 0, 0, 3),
  C("CSlli", 8, 0, 0, 3), C("CAndi", 8, 0, 0, 29), C("CSub", 8, 0, 9, 0),
  C("CXor", 8, 0, 9, 0), C("COr", 8, 0, 9, 0), C("CAnd", 8, 0, 9, 0),
  C("CLui", 9, 0, 0, -96), C("CBnez", 0, 8, 0, 6)>>

\* The others, which four bits are too few to number: their code goes on in
\* the half word that follows, which is executed next as what it stands for.
OtherComp == <<
  C("CAddi4spn", 8, 0, 0, 4), C("CLw", 9, 8, 0, 1), C("CLwsp", 5, 0, 0, 1),
  C("CSw", 9, 8, 0, 1), C("CSwsp", 0, 0, 9, 2), C("CLi", 5, 0, 0, -3),
  C("CAddi16sp", 2, 0, 0, -16), C("CJ", 0, 0, 0, 6), C("CJal", 0, 0, 0, 4),
  C("CBeqz", 0, 8, 0, -4), C("CJrMv", 8, 0, 0, 0), C("CJrMv", 5, 0, 8, 0),
  C("CEbreakJalrAdd", 0, 0, 0, 0), C("CEbreakJalrAdd", RA, 0, 0, 0),
  C("CEbreakJalrAdd", 8, 0, 9, 0)>>

ExecFull == OtherComp \o <<
  Up("Auipc", 5, 0, -64), Up("Lui", 5, 0, -64), Up("Jal", 1, 0, 8), Up("Jalr", 9, 9, 3),
  Br("beq", 8, 9, -4), Br("bne", 8, 9, 8), Br("blt", 8, 9, 8), Br("bge", 8, 9, 8),
  Br("bltu", 8, 9, 8), Br("bgeu", 8, 9, 8), Invalid,
  Mem("lb", 5, 8, 1), Mem("lh", 5, 8, -1), Mem("lw", 5, 8, 0), Mem("lbu", 5, 8, 1),
  Mem("lhu", 5, 8, 0), Mem("sb", 9, 8, 1), Mem("sh", 9, 8, -1), Mem("sw", 9, 8, 0),
  Imm("sra", 5, 8, 2), Imm("slt", 5, 8, -1), R("mulhsu", 5, 8, 9), R("rem", 5, 8, 9),
  R("lr", 5, 8, 0), R("sc", 6, 8, 9), R("amoswap", 5, 8, 9), R("amoadd", 5, 8, 9),
  R("amoxor", 5, 8, 9), R("amoand", 5, 8, 9), R("amoor", 5, 8, 9), R("amomin", 5, 8, 9),
  R("amomax", 5, 8, 9), R("amominu", 5, 8, 9), R("amomaxu", 5, 8, 9), R("invalid", 5, 8, 9),
  Sys("ecall"), Sys("ebreak"), Sys("fencei"), Sys("wfi"), Sys("mret"), Sys("invalid"),
  Csr("csrrw", 5, "mepc", 8), Csr("csrrsi", 5, "mstatus", 8), Csr("csrrc", 5, "mstatus", 9),
  Csr("csrrs", 5, "misa", 8), Csr("csrrwi", 5, "unsupported", 3)>>

\* An image holds at most RAM_OFFSET bytes, so there are three of them.
ExecTable == MakeDecode(ExecComp, ExecFull)
ExecDecode == ExecTable
ExecPrograms == {Assemble(ExecComp, ExecFull, p, CodeLen) :
                   p \in {SubSeq(ExecFull, 1, 15), ExecComp \o SubSeq(ExecFull, 16, 38),
                         SubSeq(ExecFull, 39, 61)}}

\* Loads and compressed forms whose destination is x0.
ZeroComp == <<Illegal, C("CLwsp", 0, 0, 0, 0), C("CJrMv", 0, 0, 9, 0), C("CEbreakJalrAdd", 0, 0, 9, 0)>>
ZeroFull == <<Imm("add", 0, 8, 1), R("add", 0, 8, 9), Up("Lui", 0, 0, 192), Mem("lw", 0, 8, 0)>>

ZeroTable == MakeDecode(ZeroComp, ZeroFull)
ZeroDecode == ZeroTable
ZeroPrograms == {Assemble(ZeroComp, ZeroFull, ZeroComp \o ZeroFull, CodeLen)}

MCPcs  == {2 * k : k \in 1..((CodeLen \div 2) - 1)}
MCRams == {[i \in 0..(RamLen - 1) |-> (i + 2) % BASE]}

-----------------------------------------------------------------------------

(* cpu.rs:11 documents "x0 register, hardwired to 0 (read-only).": x0      *)
(* reads as 0 after any instruction.                                       *)
X0Hardwired == x[0] = 0

=============================================================================
