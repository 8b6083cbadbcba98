------------------------------ MODULE MCConvert ------------------------------
(***************************************************************************)
(* Model checking of the conversion: every 16-bit instruction, and 32-bit  *)
(* instructions with every opcode and function code and with registers and *)
(* immediates in which each bit shows, compared with the instruction       *)
(* listings of the RISC-V manual (RV32I, Zifencei, Zicsr, M, A, C).        *)
(***************************************************************************)
EXTENDS ConvertUnit

-----------------------------------------------------------------------------
(* Words to convert                                                        *)

\* Every 16-bit instruction, by its high and its low byte.
HalfHeads == SUBSET (8..15)
HalfTails == {t \in SUBSET (0..7) : ~({0, 1} \subseteq t)}

\* 32-bit instructions, by opcode and funct3 and then the other 22 bits: one
\* bit set, or clear, or one and the sign bit.
WordHead(opcode, funct3) == Put(opcode, 0) \cup Put(funct3, 12)
WordHeads == {WordHead(3 + 4 * k, f) : k \in 0..31, f \in 0..7}
Others == (7..11) \cup (15..31)
BitTails == {{}, Others} \cup {{b} : b \in Others} \cup {{b, 31} : b \in Others}
              \cup {Others \ {b} : b \in Others}

\* ... with every funct7 (and three choices of registers) where it matters ...
Funct7Tails == {Put(k, 25) \cup r : k \in 0..127, r \in {{}, {7, 16, 22}, {8, 15, 20, 24}}}

\* ... and every immediate of the system instructions without registers.
SystemTails == {Put(k, 20) : k \in 0..4095}

AllHeads == HalfHeads \cup WordHeads
AllTails(h) == IF h \in HalfHeads THEN HalfTails
               ELSE BitTails \cup (IF Field(h, 0, 7) \in {19, 47, 51} THEN Funct7Tails ELSE {})
                      \cup IF h = WordHead(115, 0) THEN SystemTails ELSE {}

SomeFollowers == {16..31, {16, 20, 25, 30}, {17, 18, 31}}

=============================================================================
