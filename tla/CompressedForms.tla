--------------------------- MODULE CompressedForms ---------------------------
(***************************************************************************)
(* What a compressed instruction promises: to do what the 32-bit           *)
(* instruction does that the RISC-V C extension says it abbreviates.       *)
(***************************************************************************)
EXTENDS InterpreterHistory

Base(op, func, rd, rs1, rs2, imm) ==
  [op |-> op, func |-> func, rd |-> rd, rs1 |-> rs1, rs2 |-> rs2, imm |-> imm]

\* The 32-bit instruction that i stands for in the manual.
Expansion(i) ==
  CASE i.op = "CAddi4spn" -> Base("OpImm", "add", i.rd, SP, 0, i.imm)
    [] i.op = "CLw"       -> Base("LoadStore", "lw", i.rd, i.rs1, 0, i.imm)
    [] i.op = "CLwsp"     -> Base("LoadStore", "lw", i.rd, SP, 0, i.imm)
    [] i.op = "CSw"       -> Base("LoadStore", "sw", i.rd, i.rs1, 0, i.imm)
    [] i.op = "CSwsp"     -> Base("LoadStore", "sw", i.rs2, SP, 0, i.imm)
    [] i.op = "CLi"       -> Base("OpImm", "add", i.rd, 0, 0, i.imm)
    [] i.op = "CLui"      -> Base("Lui", "none", i.rd, 0, 0, i.imm)
    [] i.op = "CAddi"     -> Base("OpImm", "add", i.rd, i.rd, 0, i.imm)
    [] i.op = "CAddi16sp" -> Base("OpImm", "add", SP, SP, 0, i.imm)
    [] i.op = "CSrli"     -> Base("OpImm", "srl", i.rd, i.rd, 0, i.imm)
    [] i.op = "CSrai"     -> Base("OpImm", "sra", i.rd, i.rd, 0, i.imm)
    [] i.op = "CSlli"     -> Base("OpImm", "sll", i.rd, i.rd, 0, i.imm)
    [] i.op = "CAndi"     -> Base("OpImm", "and", i.rd, i.rd, 0, i.imm)
    [] i.op = "CSub"      -> Base("OpAmo", "sub", i.rd, i.rd, i.rs2, 0)
    [] i.op = "CXor"      -> Base("OpAmo", "xor", i.rd, i.rd, i.rs2, 0)
    [] i.op = "COr"       -> Base("OpAmo", "or", i.rd, i.rd, i.rs2, 0)
    [] i.op = "CAnd"      -> Base("OpAmo", "and", i.rd, i.rd, i.rs2, 0)
    [] i.op = "CJ"        -> Base("Jal", "none", 0, 0, 0, i.imm)
    [] i.op = "CJal"      -> Base("Jal", "none", RA, 0, 0, i.imm)
    [] i.op = "CBeqz"     -> Base("Branch", "beq", 0, i.rs1, 0, i.imm)
    [] i.op = "CBnez"     -> Base("Branch", "bne", 0, i.rs1, 0, i.imm)
    [] i.op = "CJrMv"     -> IF i.rs2 = 0 THEN Base("Jalr", "none", 0, i.rd, 0, 0)
                                          ELSE Base("OpAmo", "add", i.rd, 0, i.rs2, 0)
    [] i.op = "CEbreakJalrAdd" -> IF i.rs2 = 0 THEN Base("Jalr", "none", RA, i.rd, 0, 0)
                                               ELSE Base("OpAmo", "add", i.rd, i.rd, i.rs2, 0)

\* The registers, program counter and memory after the 32-bit instruction i,
\* were it of the given size, at the current state.
After(regs, target, memory) == [x |-> regs, pc |-> target, mem |-> memory]

Effect(i, size) ==
  LET next == Wrap(pc + size)
      a    == Wrap(x[i.rs1] + i.imm)
  IN  CASE i.op = "OpImm" -> After(WriteRd(i.rd, AluOp(i.func, x[i.rs1], i.imm)), next, mem)
        [] i.op = "OpAmo" -> After(WriteRd(i.rd, AluOp(i.func, x[i.rs1], x[i.rs2])), next, mem)
        [] i.op = "Lui"   -> After(WriteRd(i.rd, i.imm), next, mem)
        [] i.op = "Jal"   -> After(WriteRd(i.rd, next), Wrap(pc + i.imm), mem)
        [] i.op = "Jalr"  -> After(WriteRd(i.rd, next), a, mem)
        [] i.op = "Branch" ->
             After(x, IF BranchTaken(i.func, x[i.rs1], x[i.rs2]) THEN Wrap(pc + i.imm) ELSE next,
                   mem)
        [] i.op = "LoadStore" ->
             IF i.func = "lw" THEN After(WriteRd(i.rd, Load(mem, a, 4).arg), next, mem)
                              ELSE After(x, next, Stored(mem, a, 4, x[i.rd]))

\* c.illegal, c.ebreak and failing loads and stores have no expansion to follow.
Ends == call' = "idle" /\ last'.tag \in ErrorTag \cup {"Halted"}

IsCompressed == /\ Executing /\ Fetch.tag = "Ok" /\ I.func = "none"
                /\ I.op \notin {"Auipc", "Lui", "Jal", "Jalr"}

(* decode_execute/compressed/*: a compressed instruction that completes    *)
(* does exactly what the 32-bit instruction it abbreviates does, apart     *)
(* from its size: same destination (x1 for c.jal and c.jalr, sp for        *)
(* c.addi16sp), same operand order, link address pc + 2, and a jump        *)
(* through the link register that reads it before it is overwritten.  x0   *)
(* is taken to hold 0, and what is written to it is left out: the handlers *)
(* disagree about it (c.lwsp, c.mv and c.add write it).                    *)
CompressedMatchesExpansion ==
  [][IsCompressed /\ x[0] = 0 /\ ~Ends =>
       LET after == Effect(Expansion(I), 2)
       IN  /\ pc' = after.pc /\ mem' = after.mem
           /\ \A r \in Reg \ {0} : x'[r] = after.x[r]]_hvars

=============================================================================
