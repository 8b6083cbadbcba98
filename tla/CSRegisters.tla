----------------------------- MODULE CSRegisters -----------------------------
(***************************************************************************)
(* CSRegisters (interpreter/registers/control_status.rs): the control and  *)
(* status registers, the read-modify-write operation of the Zicsr          *)
(* instructions, and trap entry and return.                                *)
(*                                                                         *)
(* The registers are a record; mstatus and mie/mip are kept as the bits    *)
(* the code stores.  A 12-bit CSR address is abstracted to the register it *)
(* selects: "ignored" stands for every address that reads as 0 and drops   *)
(* writes, "unsupported" for every other one.                              *)
(***************************************************************************)
EXTENDS Words

CONSTANTS AluOp(_, _, _),          \* the ALU: function, operands
          MISA,                    \* what get_misa() returns
          EMBIVE_INTERRUPT_CODE    \* 16 in the code

AluFunc == {"add", "sub", "sll", "slt", "sltu", "xor", "srl", "sra", "or", "and",
            "mul", "mulh", "mulhsu", "mulhu", "div", "divu", "rem", "remu"}

\* The ALU yields a word, and "add" is wrapping_add; module Alu says what the
\* other functions are.
ASSUME AluAssumption ==
         /\ \A f \in AluFunc, a \in Word, b \in Word : AluOp(f, a, b) \in Word
         /\ \A a \in Word, b \in Word : AluOp("add", a, b) = Wrap(a + b)

ASSUME CsrAssumption ==
         /\ MISA \in Word
         /\ EMBIVE_INTERRUPT_CODE \in Nat
         /\ EMBIVE_INTERRUPT_CODE < SIGN
         /\ 2 ^ EMBIVE_INTERRUPT_CODE \in Word \ {0}

CsrName == {"mstatus", "misa", "mie", "mtvec", "mscratch", "mepc", "mcause",
            "mtval", "mip", "ignored", "unsupported"}

CsrOp == {"write", "set", "clear", "none"}

CsrFile == [mtvec : Word, mscratch : Word, mepc : Word, mcause : Word, mtval : Word,
            mie : BOOLEAN, mip : BOOLEAN,         \* mie_embive, mip_embive
            MIE : BOOLEAN, MPIE : BOOLEAN]        \* the bits of mstatus

\* CSRegisters::default().
DefaultCsr == [mtvec |-> 0, mscratch |-> 0, mepc |-> 0, mcause |-> 0, mtval |-> 0,
               mie |-> FALSE, mip |-> FALSE, MIE |-> FALSE, MPIE |-> FALSE]

MSTATUS_MIE  == 8
MSTATUS_MPIE == 128
MI_E_P_MASK  == 2 ^ EMBIVE_INTERRUPT_CODE
MCAUSE_EMBIVE_INTERRUPT == SIGN + EMBIVE_INTERRUPT_CODE

\* A flag as the bit of weight w, and the bit of weight w of a word.
Flag(b, w)   == IF b THEN w ELSE 0
BitSet(v, w) == (v \div w) % 2 = 1

\* Mutant: the mask is forgotten.
ClearLow_NoMask(v, k) == v

\* v & !(k - 1), for k a power of two.
ClearLow(v, k) == v - (v % k)

\* execute_operation
ExecuteOperation(op, val, value) ==
  CASE op = "write" -> val
    [] op = "set"   -> AluOp("or", value, val)
    [] op = "clear" -> AluOp("and", value, MOD - 1 - val)
    [] op = "none"  -> value

\* The `ret` of each arm of operation: the value read.
CsrRead(csr, a) ==
  CASE a = "mstatus"  -> Flag(csr.MIE, MSTATUS_MIE) + Flag(csr.MPIE, MSTATUS_MPIE)
    [] a = "misa"     -> MISA
    [] a = "mie"      -> Flag(csr.mie, MI_E_P_MASK)
    [] a = "mtvec"    -> csr.mtvec
    [] a = "mscratch" -> csr.mscratch
    [] a = "mepc"     -> csr.mepc
    [] a = "mcause"   -> csr.mcause
    [] a = "mtval"    -> csr.mtval
    [] a = "mip"      -> Flag(csr.mip, MI_E_P_MASK)
    [] OTHER          -> 0

\* The assignment of each arm of operation, with its mask.
CsrWrite(csr, a, new) ==
  CASE a = "mstatus"  -> [csr EXCEPT !.MIE = BitSet(new, MSTATUS_MIE),
                                     !.MPIE = BitSet(new, MSTATUS_MPIE)]
    [] a = "mie"      -> [csr EXCEPT !.mie = BitSet(new, MI_E_P_MASK)]
    [] a = "mtvec"    -> [csr EXCEPT !.mtvec = ClearLow(new, 4)]
    [] a = "mscratch" -> [csr EXCEPT !.mscratch = new]
    [] a = "mepc"     -> [csr EXCEPT !.mepc = ClearLow(new, 2)]
    [] a = "mcause"   -> [csr EXCEPT !.mcause = new]
    [] a = "mtval"    -> [csr EXCEPT !.mtval = new]
    [] a = "mip"      -> [csr EXCEPT !.mip = BitSet(new, MI_E_P_MASK)]
    [] OTHER          -> csr

\* operation(op, addr): the registers afterwards (for a supported address;
\* the value returned is CsrRead).  The write-back happens for op = "none" too.
Operation(csr, op, val, a) ==
  CsrWrite(csr, a, ExecuteOperation(op, val, CsrRead(csr, a)))

InterruptEnabled(csr) == csr.mie /\ csr.MIE

SetInterrupt(csr) == [csr EXCEPT !.mip = TRUE]

\* Mutants: interrupts stay enabled in the handler; the value is not passed on.
TrapEntry_StaysEnabled(csr, pc, value) ==
  [csr EXCEPT !.MPIE = csr.MIE, !.mcause = MCAUSE_EMBIVE_INTERRUPT, !.mepc = pc,
              !.mtval = value]
TrapEntry_NoValue(csr, pc, value) ==
  [csr EXCEPT !.MPIE = csr.MIE, !.MIE = FALSE, !.mcause = MCAUSE_EMBIVE_INTERRUPT,
              !.mepc = pc]

\* trap_entry: the registers ...
TrapEntry(csr, pc, value) ==
  [csr EXCEPT !.MPIE = csr.MIE,
              !.MIE = FALSE,
              !.mcause = MCAUSE_EMBIVE_INTERRUPT,
              !.mepc = pc,
              !.mtval = value]

\* ... and the program counter it leaves.
TrapVector(csr) == ClearLow(csr.mtvec, 4)

\* Mutant: the previous interrupt enable is not restored.
TrapReturn_Forgets(csr) == csr

\* trap_return restores MIE from MPIE (which it keeps) and returns mepc.
TrapReturn(csr) == [csr EXCEPT !.MIE = csr.MPIE]

=============================================================================
