-------------------------------- MODULE Format -------------------------------
(***************************************************************************)
(* The instruction formats (format.rs) in the two encodings: from_riscv,   *)
(* from_embive and to_embive of every format.                              *)
(*                                                                         *)
(* A u32 or i32 is the set of the positions of its one bits, because a bit *)
(* layout is what this module is about: | is union, & with a mask is an    *)
(* intersection, and a shift moves the positions.  Register numbers and    *)
(* function codes, which are small and unsigned, are numbers.              *)
(***************************************************************************)
EXTENDS Integers

Bits == 0..31

\* inst & (0b1...1 << lo), with n ones.
Masked(w, lo, n) == w \cap (lo..(lo + n - 1))

\* << and the >> of u32.
w \ll n == {b \in Bits : b - n \in w}
w \gg n == {b \in Bits : b + n \in w}

\* The >> of i32, which copies the sign bit.
Sar(w, n) == (w \gg n) \cup IF 31 \in w THEN (32 - n)..31 ELSE {}

\* `as i8` (k = 8) or `as i16` (k = 16) of a word, and back to i32.
AsSigned(w, k) == (w \cap (0..(k - 1))) \cup IF k - 1 \in w THEN k..31 ELSE {}

\* The number that an unsigned field of up to twelve bits holds, and the bits
\* of such a number.
Bit(w, b) == IF b \in w THEN 1 ELSE 0
Number(w) ==
  Bit(w, 0) + 2 * Bit(w, 1) + 4 * Bit(w, 2) + 8 * Bit(w, 3) + 16 * Bit(w, 4) + 32 * Bit(w, 5)
    + 64 * Bit(w, 6) + 128 * Bit(w, 7) + 256 * Bit(w, 8) + 512 * Bit(w, 9) + 1024 * Bit(w, 10)
    + 2048 * Bit(w, 11)
BitsOf(n) == {b \in 0..11 : (n \div 2 ^ b) % 2 = 1}

\* (inst >> lo) & 0b1...1, and (field as u32) << lo.
Field(w, lo, n) == Number(Masked(w, lo, n) \gg lo)
Put(v, lo) == BitsOf(v) \ll lo

\* 3-bit register fields name x8..x15: wrapping_add and wrapping_sub of
\* COMPRESSED_REGISTER_OFFSET.
COMPRESSED_REGISTER_OFFSET == 8
FullReg(r) == r + COMPRESSED_REGISTER_OFFSET
ShortReg(r) == r - COMPRESSED_REGISTER_OFFSET

\* A decoded instruction.  rd stands for rd, rd_rs1 and rd_rs2; the fields a
\* format does not have are 0.
Fields(rd, rs1, rs2, func, imm) ==
  [rd |-> rd, rs1 |-> rs1, rs2 |-> rs2, func |-> func, imm |-> imm]

-----------------------------------------------------------------------------
(* 32-bit formats                                                          *)

TypeR_from_riscv(i) ==
  Fields(Field(i, 7, 5), Field(i, 15, 5), Field(i, 20, 5),
         Number(Masked(i \gg 22, 3, 7) \cup Masked(i \gg 12, 0, 3)), {})
TypeR_from_embive(i) ==
  Fields(Field(i, 17, 5), Field(i, 22, 5), Field(i, 27, 5), Field(i, 7, 10), {})
TypeR_to_embive(f) ==
  Put(f.rd, 17) \cup Put(f.rs1, 22) \cup Put(f.rs2, 27) \cup Put(f.func, 7)

TypeI_from_riscv(i) ==
  Fields(Field(i, 7, 5), Field(i, 15, 5), 0, Field(i, 12, 3), Sar(Masked(i, 20, 12), 20))
TypeI_from_embive(i) ==
  Fields(Field(i, 10, 5), Field(i, 15, 5), 0, Field(i, 7, 3), Sar(Masked(i, 20, 12), 20))
TypeI_to_embive(f) ==
  Put(f.rd, 10) \cup Put(f.func, 7) \cup Put(f.rs1, 15) \cup (Masked(f.imm, 0, 12) \ll 20)

\* TypeS is converted to TypeI (convert/store.rs): it has no Embive encoding.
TypeS_from_riscv(i) ==
  Fields(0, Field(i, 15, 5), Field(i, 20, 5), Field(i, 12, 3),
         Sar(Masked(i, 25, 7) \cup (Masked(i, 7, 5) \ll 13), 20))

TypeB_from_riscv(i) ==
  Fields(0, Field(i, 15, 5), Field(i, 20, 5), Field(i, 12, 3),
         Sar(Masked(i, 31, 1) \cup (Masked(i, 7, 1) \ll 23)
               \cup (Masked(i, 25, 6) \gg 1) \cup (Masked(i, 8, 4) \ll 12), 19))
TypeB_from_embive(i) ==
  Fields(0, Field(i, 10, 5), Field(i, 15, 5), Field(i, 7, 3), Sar(Masked(i, 20, 12), 19))
TypeB_to_embive(f) ==
  (f.imm \ll 19) \cup Put(f.func, 7) \cup Put(f.rs1, 10) \cup Put(f.rs2, 15)

TypeU_from_riscv(i) == Fields(Field(i, 7, 5), 0, 0, 0, Masked(i, 12, 20))
TypeU_from_embive(i) == TypeU_from_riscv(i)
TypeU_to_embive(f) == Put(f.rd, 7) \cup Masked(f.imm, 12, 20)

TypeJ_from_riscv(i) ==
  Fields(Field(i, 7, 5), 0, 0, 0,
         Sar(Masked(i, 31, 1) \cup (Masked(i, 12, 8) \ll 11)
               \cup (Masked(i, 20, 1) \ll 2) \cup (Masked(i, 21, 10) \gg 9), 11))
TypeJ_from_embive(i) == Fields(Field(i, 7, 5), 0, 0, 0, Sar(Masked(i, 12, 20), 11))
TypeJ_to_embive(f) == Put(f.rd, 7) \cup (f.imm \ll 11)

-----------------------------------------------------------------------------
(* 16-bit formats                                                          *)

TypeCIW_from_riscv(i) ==
  Fields(FullReg(Field(i, 2, 3)), 0, 0, 0,
         (Masked(i, 6, 1) \gg 4) \cup (Masked(i, 5, 1) \gg 2)
           \cup (Masked(i, 11, 2) \gg 7) \cup (Masked(i, 7, 4) \gg 1))
\* Mutant: the bits of the next instruction are not masked off.
TypeCIW_from_embive_NoMask(i) ==
  Fields(FullReg(Field(i, 5, 3)), 0, 0, 0, (i \gg 8) \ll 2)
TypeCIW_from_embive(i) ==
  Fields(FullReg(Field(i, 5, 3)), 0, 0, 0, Masked(i, 8, 8) \gg 6)
TypeCIW_to_embive(f) == Put(ShortReg(f.rd), 5) \cup Masked(f.imm \ll 6, 8, 8)

TypeCL_from_riscv(i) ==
  Fields(FullReg(Field(i, 2, 3)), FullReg(Field(i, 7, 3)), 0, 0,
         (Masked(i, 5, 1) \ll 1) \cup (Masked(i, 10, 3) \gg 7) \cup (Masked(i, 6, 1) \gg 4))
TypeCL_from_embive(i) ==
  Fields(FullReg(Field(i, 5, 3)), FullReg(Field(i, 8, 3)), 0, 0, Masked(i, 11, 5) \gg 9)
TypeCL_to_embive(f) ==
  Put(ShortReg(f.rd), 5) \cup Put(ShortReg(f.rs1), 8) \cup (f.imm \ll 9)

\* inst[6:2] and inst[12], adjacent: the immediate of CI1, CI3, CI4, CB1, CB2.
Imm6(i) == Masked(i, 2, 5) \cup (Masked(i, 12, 1) \gg 5)

TypeCI1_from_riscv(i) == Fields(Field(i, 7, 5), 0, 0, 0, Sar(AsSigned(Imm6(i), 8), 2))
TypeCI1_from_embive(i) ==
  Fields(Field(i, 5, 5), 0, 0, 0, Sar(AsSigned(Masked(i, 10, 6), 16), 10))
TypeCI1_to_embive(f) == Put(f.rd, 5) \cup Masked(f.imm \ll 10, 10, 6)

TypeCI2_from_riscv(i) ==
  Fields(Field(i, 7, 5), 0, 0, 0,
         AsSigned((Masked(i, 12, 1) \gg 5) \cup (Masked(i, 3, 2) \ll 2)
                    \cup (Masked(i, 5, 1) \gg 1) \cup (Masked(i, 2, 1) \ll 1)
                    \cup (Masked(i, 6, 1) \gg 4), 8) \ll 2)
TypeCI2_from_embive(i) ==
  Fields(Field(i, 5, 5), 0, 0, 0, Sar(AsSigned(Masked(i, 10, 6), 16), 6))
TypeCI2_to_embive(f) == Put(f.rd, 5) \cup Masked(f.imm \ll 6, 10, 6)

TypeCI3_from_riscv(i) == Fields(Field(i, 7, 5), 0, 0, 0, AsSigned(Imm6(i), 8) \ll 10)
TypeCI3_from_embive(i) ==
  Fields(Field(i, 5, 5), 0, 0, 0, AsSigned(Masked(i, 10, 6), 16) \ll 2)
TypeCI3_to_embive(f) == Put(f.rd, 5) \cup Masked(f.imm \gg 2, 10, 6)

TypeCI4_from_riscv(i) == Fields(Field(i, 7, 5), 0, 0, 0, Imm6(i) \gg 2)
TypeCI4_from_embive(i) == Fields(Field(i, 5, 5), 0, 0, 0, Masked(i, 10, 6) \gg 10)
TypeCI4_to_embive(f) == Put(f.rd, 5) \cup (f.imm \ll 10)

TypeCI5_from_riscv(i) ==
  Fields(Field(i, 7, 5), 0, 0, 0,
         Sar((Masked(i, 2, 2) \ll 11) \cup Masked(i, 12, 1) \cup (Masked(i, 4, 3) \ll 5), 7))
TypeCI5_from_embive(i) == Fields(Field(i, 5, 5), 0, 0, 0, Masked(i, 10, 6) \gg 8)
TypeCI5_to_embive(f) == Put(f.rd, 5) \cup (f.imm \ll 8)

TypeCB1_from_riscv(i) == Fields(FullReg(Field(i, 7, 3)), 0, 0, 0, Imm6(i) \gg 2)
TypeCB1_from_embive(i) == Fields(Field(i, 5, 5), 0, 0, 0, Masked(i, 10, 6) \gg 10)
TypeCB1_to_embive(f) == Put(f.rd, 5) \cup (f.imm \ll 10)

TypeCB2_from_riscv(i) ==
  Fields(FullReg(Field(i, 7, 3)), 0, 0, 0, Sar(AsSigned(Imm6(i), 8), 2))
TypeCB2_from_embive(i) ==
  Fields(Field(i, 5, 5), 0, 0, 0, Sar(AsSigned(Masked(i, 10, 6), 16), 10))
TypeCB2_to_embive(f) == Put(f.rd, 5) \cup Masked(f.imm \ll 10, 10, 6)

TypeCB4_from_riscv(i) ==
  Fields(0, FullReg(Field(i, 7, 3)), 0, 0,
         AsSigned((Masked(i, 12, 1) \gg 5) \cup Masked(i, 5, 2) \cup (Masked(i, 2, 1) \ll 2)
                    \cup (Masked(i, 10, 2) \gg 8) \cup (Masked(i, 3, 2) \gg 3), 8) \ll 1)
TypeCB4_from_embive(i) ==
  Fields(0, FullReg(Field(i, 5, 3)), 0, 0, Sar(AsSigned(Masked(i, 8, 8), 16), 7))
TypeCB4_to_embive(f) == Put(ShortReg(f.rs1), 5) \cup Masked(f.imm \ll 7, 8, 8)

TypeCR_from_riscv(i) == Fields(Field(i, 7, 5), 0, Field(i, 2, 5), 0, {})
TypeCR_from_embive(i) == Fields(Field(i, 5, 5), 0, Field(i, 10, 5), 0, {})
TypeCR_to_embive(f) == Put(f.rd, 5) \cup Put(f.rs2, 10)

TypeCS_from_riscv(i) == Fields(FullReg(Field(i, 7, 3)), 0, FullReg(Field(i, 2, 3)), 0, {})
TypeCS_from_embive(i) == Fields(Field(i, 5, 5), 0, Field(i, 10, 5), 0, {})
TypeCS_to_embive(f) == Put(f.rd, 5) \cup Put(f.rs2, 10)

TypeCSS_from_riscv(i) ==
  Fields(0, 0, Field(i, 2, 5), 0, (Masked(i, 7, 2) \cup (Masked(i, 9, 4) \gg 6)) \gg 1)
TypeCSS_from_embive(i) == Fields(0, 0, Field(i, 5, 5), 0, Masked(i, 10, 6) \gg 8)
TypeCSS_to_embive(f) == Put(f.rs2, 5) \cup (f.imm \ll 8)

\* Mutant: bits 7 and 8 exchanged.
TypeCJ_from_riscv_Swapped(i) ==
  Fields(0, 0, 0, 0,
         Sar(AsSigned((Masked(i, 12, 1) \ll 3) \cup (Masked(i, 7, 1) \ll 7)
                        \cup (Masked(i, 9, 2) \ll 3) \cup (Masked(i, 6, 1) \ll 5)
                        \cup (Masked(i, 8, 1) \ll 2) \cup (Masked(i, 2, 1) \ll 7)
                        \cup (Masked(i, 11, 1) \gg 3) \cup (Masked(i, 3, 3) \ll 2), 16), 4))
TypeCJ_from_riscv(i) ==
  Fields(0, 0, 0, 0,
         Sar(AsSigned((Masked(i, 12, 1) \ll 3) \cup (Masked(i, 8, 1) \ll 6)
                        \cup (Masked(i, 9, 2) \ll 3) \cup (Masked(i, 6, 1) \ll 5)
                        \cup (Masked(i, 7, 1) \ll 3) \cup (Masked(i, 2, 1) \ll 7)
                        \cup (Masked(i, 11, 1) \gg 3) \cup (Masked(i, 3, 3) \ll 2), 16), 4))
TypeCJ_from_embive(i) == Fields(0, 0, 0, 0, Sar(AsSigned(Masked(i, 5, 11), 16), 4))
TypeCJ_to_embive(f) == Masked(f.imm \ll 4, 5, 11)

=============================================================================
