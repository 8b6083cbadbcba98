------------------------------ MODULE MulDivUnit -----------------------------
(***************************************************************************)
(* An instruction of the M extension in isolation: two operand registers,  *)
(* and what each function makes of them.                                   *)
(***************************************************************************)
EXTENDS MulDiv

VARIABLES a, b,        \* the operands
          out          \* the results of all functions on them

Results(v, w) == [f \in MFunc |-> MulDivOp(f, v, w)]

UnitInit == a \in Word /\ b \in Word /\ out = Results(a, b)
Execute  == a' \in Word /\ b' \in Word /\ out' = Results(a', b')
UnitSpec == UnitInit /\ [][Execute]_<<a, b, out>>

(* op_amo.rs DIV, DIVU, REM, REMU as the M extension defines them: exact   *)
(* quotient and remainder with the sign of the dividend, and the two cases *)
(* that have no exact answer: division by zero and the signed overflow     *)
(* -2^31 / -1, neither of which may panic.                                 *)
DivisionIsExact ==
  LET sa == Signed(a)  sb == Signed(b)
      q == Signed(out["div"])  r == Signed(out["rem"])
      overflow == a = SIGN /\ sb = -1
  IN  /\ b = 0 => q = -1 /\ r = sa /\ out["divu"] = MOD - 1 /\ out["remu"] = a
      /\ b # 0 => out["divu"] * b + out["remu"] = a /\ out["remu"] \in 0..(b - 1)
      /\ overflow => q = sa /\ r = 0
      /\ b # 0 /\ ~overflow => /\ q * sb + r = sa
                               /\ Abs(r) < Abs(sb)
                               /\ r # 0 => (r < 0 <=> sa < 0)

(* op_amo.rs MUL, MULH, MULHSU, MULHU: the high and low words together are *)
(* the exact double-width product, for each choice of signedness.          *)
ProductIsExact ==
  /\ Signed(out["mulh"]) * MOD + out["mul"] = Signed(a) * Signed(b)
  /\ Signed(out["mulhsu"]) * MOD + out["mul"] = Signed(a) * b
  /\ out["mulhu"] * MOD + out["mul"] = a * b

=============================================================================
