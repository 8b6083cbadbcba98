-------------------------------- MODULE MulDiv -------------------------------
(***************************************************************************)
(* Multiplication and division (decode_execute/op_amo.rs): the functions   *)
(* of the M extension, on words of any width.                              *)
(***************************************************************************)
EXTENDS Words

MFunc == {"mul", "mulh", "mulhsu", "mulhu", "div", "divu", "rem", "remu"}

Abs(i) == IF i < 0 THEN -i ELSE i

\* Mutant: division that rounds down.
TruncDiv_Floor(i, j) == IF j < 0 THEN (-i) \div (-j) ELSE i \div j

\* Rust's signed division truncates towards zero; \div rounds down.
TruncDiv(i, j) == IF (i < 0) = (j < 0) THEN Abs(i) \div Abs(j)
                                       ELSE -(Abs(i) \div Abs(j))

DivSigned(a, b)   == IF b = 0 THEN MOD - 1 ELSE Wrap(TruncDiv(Signed(a), Signed(b)))
DivUnsigned(a, b) == IF b = 0 THEN MOD - 1 ELSE a \div b
RemSigned(a, b)   == IF b = 0 THEN a
                     ELSE Wrap(Signed(a) - Signed(b) * TruncDiv(Signed(a), Signed(b)))
RemUnsigned(a, b) == IF b = 0 THEN a ELSE a % b

\* Mutant: a division by 2^32 in place of the arithmetic shift.
MulHigh_Divides(i, j) == Wrap(TruncDiv(i * j, MOD))

\* The upper word of the signed, signed*unsigned and unsigned product.
MulHigh(i, j) == Wrap((i * j) \div MOD)

MulDivOp(f, a, b) ==
  CASE f = "mul"    -> Wrap(a * b)
    [] f = "mulh"   -> MulHigh(Signed(a), Signed(b))
    [] f = "mulhsu" -> MulHigh(Signed(a), b)
    [] f = "mulhu"  -> MulHigh(a, b)
    [] f = "div"    -> DivSigned(a, b)
    [] f = "divu"   -> DivUnsigned(a, b)
    [] f = "rem"    -> RemSigned(a, b)
    [] f = "remu"   -> RemUnsigned(a, b)

=============================================================================
