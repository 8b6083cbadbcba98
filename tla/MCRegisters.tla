----------------------------- MODULE MCRegisters -----------------------------
(***************************************************************************)
(* Model checking of what instructions do to register values.  The ALU:    *)
(* every function on every first operand and on second operands around the *)
(* boundaries, against references on bits and exact integers.  The CSRs:   *)
(* any sequence of CSR operations, trap entries (when interrupts are       *)
(* enabled) and trap returns.  A behaviour exercises one of the two.       *)
(***************************************************************************)
EXTENDS CSRegisters, Alu, MulDivUnit

CONSTANTS Divisors,    \* second operands of the ALU
          Operands,    \* operands of the CSR operations performed
          Probes,      \* operands the property tries in every state
          Pcs          \* program counters at which an interrupt arrives

VARIABLES unit,        \* what is exercised: "alu" or "csr"
          csr, pc

vars == <<unit, a, b, out, csr, pc>>

Init == /\ \/ unit = "alu" /\ b \in Divisors /\ pc = 0
           \/ unit = "csr" /\ b = 0 /\ pc \in Pcs
        /\ a = 0 /\ UnitInit
        /\ csr = DefaultCsr

\* The next first operand.
NextOperand == /\ unit = "alu" /\ a < MOD - 1
               /\ a' = a + 1 /\ b' = b /\ Execute
               /\ UNCHANGED <<unit, csr, pc>>

DoOperation(op, v, r) == csr' = Operation(csr, op, v, r) /\ UNCHANGED pc

DoInterrupt(v) ==
  /\ InterruptEnabled(csr)
  /\ csr' = TrapEntry(SetInterrupt(csr), pc, v)
  /\ pc' = TrapVector(csr)

DoReturn == csr' = TrapReturn(csr) /\ pc' = csr.mepc

Supported == CsrName \ {"unsupported"}

CsrStep ==
  /\ unit = "csr"
  /\ \/ \E op \in CsrOp, v \in Operands, r \in Supported : DoOperation(op, v, r)
     \/ \E v \in Operands : DoInterrupt(v)
     \/ DoReturn
  /\ UNCHANGED <<unit, a, b, out>>

Next == NextOperand \/ CsrStep

Spec == Init /\ [][Next]_vars

-----------------------------------------------------------------------------

Bit(w, k) == (w \div 2 ^ k) % 2
Bits == 0..(XLEN - 1)

(* op_amo.rs SLL, SRL, SRA: bit by bit, with only the low bits of the      *)
(* shift count significant (a count of 32 shifts by 0).                    *)
ShiftsMoveBits ==
  LET n == b % XLEN
  IN  \A k \in Bits :
        /\ Bit(Compute("sll", a, b), k) = IF k < n THEN 0 ELSE Bit(a, k - n)
        /\ Bit(Compute("srl", a, b), k) = IF k + n < XLEN THEN Bit(a, k + n) ELSE 0
        /\ Bit(Compute("sra", a, b), k) = IF k + n < XLEN THEN Bit(a, k + n) ELSE Bit(a, XLEN - 1)

-----------------------------------------------------------------------------

\* The bits of each register that software can write.
WriteMask(r) ==
  CASE r = "mstatus"        -> MSTATUS_MIE + MSTATUS_MPIE
    [] r \in {"mie", "mip"} -> MI_E_P_MASK
    [] r = "mtvec"          -> MOD - 4
    [] r = "mepc"           -> MOD - 2
    [] OTHER                -> MOD - 1

\* What the Zicsr instruction asks for, before the mask.
Wanted(op, v, old) == CASE op = "write" -> v
                        [] op = "set"   -> old | v
                        [] op = "clear" -> old & (MOD - 1 - v)
                        [] op = "none"  -> old

(* operation(): each register keeps exactly its writable bits and no       *)
(* operation reaches another register, although mstatus, mie and mip are   *)
(* stored as separate flags and a u8: reading back after any operation     *)
(* gives the masked result for the register addressed, and the previous    *)
(* value for every other one and for the read-only ones.                   *)
OperationIsMasked ==
  unit = "csr" =>
    \A op \in CsrOp, v \in Probes, r \in Supported, c \in Supported :
      CsrRead(Operation(csr, op, v, r), c) =
        IF c = r /\ c \notin {"misa", "ignored"}
        THEN Wanted(op, v, CsrRead(csr, r)) & WriteMask(r)
        ELSE CsrRead(csr, c)

=============================================================================
