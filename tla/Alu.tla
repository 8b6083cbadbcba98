--------------------------------- MODULE Alu ---------------------------------
(***************************************************************************)
(* The arithmetic of the register-register instructions of RV32IM          *)
(* (decode_execute/op_amo.rs), on words of XLEN bits; multiplication and   *)
(* division are in module MulDiv.  The immediate and compressed forms use  *)
(* the same functions.                                                     *)
(***************************************************************************)
EXTENDS MulDiv, Bitwise

CONSTANT XLEN      \* bits in a word: 32 in the code

ASSUME XlenAssumption == XLEN \in Nat /\ 2 ^ XLEN = MOD

\* Mutant: a large count shifts everything out.
ShiftBy_Saturating(b) == 2 ^ (IF b > XLEN THEN XLEN ELSE b)

\* wrapping_shl and wrapping_shr use the low bits of the shift count.
ShiftBy(b) == 2 ^ (b % XLEN)

Truth(p) == IF p THEN 1 ELSE 0

Compute(f, a, b) ==
  CASE f = "add"    -> Wrap(a + b)
    [] f = "sub"    -> Wrap(a - b)
    [] f = "sll"    -> Wrap(a * ShiftBy(b))
    [] f = "slt"    -> Truth(Signed(a) < Signed(b))
    [] f = "sltu"   -> Truth(a < b)
    [] f = "xor"    -> a ^^ b
    [] f = "srl"    -> a \div ShiftBy(b)
    [] f = "sra"    -> Wrap(Signed(a) \div ShiftBy(b))
    [] f = "or"     -> a | b
    [] f = "and"    -> a & b
    [] f \in MFunc  -> MulDivOp(f, a, b)

=============================================================================
