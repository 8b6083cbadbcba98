--------------------------- MODULE InterpreterProofs -------------------------
(***************************************************************************)
(* Theorems about the interpreter, for every word width, memory size,      *)
(* program, decoding and host.                                             *)
(***************************************************************************)
EXTENDS CompressedForms, MemoryLemmas, TLAPS

-----------------------------------------------------------------------------
(* Control and status registers                                            *)

(* get and set of the flag bits stay within a word.                        *)
LEMMA CsrReadType ==
  ASSUME NEW c \in CsrFile, NEW a \in CsrName
  PROVE  CsrRead(c, a) \in Word
  <1>1. /\ c.mtvec \in Word /\ c.mscratch \in Word /\ c.mepc \in Word
        /\ c.mcause \in Word /\ c.mtval \in Word
    BY DEF CsrFile
  <1>2. MISA \in Word /\ MI_E_P_MASK \in Word /\ 0 \in Word
    BY CsrAssumption, SmallWords DEF MI_E_P_MASK
  <1>3. \A f \in BOOLEAN, g \in BOOLEAN :
          Flag(f, MSTATUS_MIE) + Flag(g, MSTATUS_MPIE) \in Word
    BY SmallWords DEF Flag, MSTATUS_MIE, MSTATUS_MPIE
  <1>4. c.MIE \in BOOLEAN /\ c.MPIE \in BOOLEAN /\ c.mie \in BOOLEAN /\ c.mip \in BOOLEAN
    BY DEF CsrFile
  <1>5. \A f : Flag(f, MI_E_P_MASK) \in Word
    BY <1>2 DEF Flag
  <1>6. Flag(c.MIE, MSTATUS_MIE) + Flag(c.MPIE, MSTATUS_MPIE) \in Word
    BY <1>3, <1>4
  <1> QED
    BY <1>1, <1>2, <1>5, <1>6 DEF CsrRead, CsrName

(* execute_operation yields a word.                                        *)
LEMMA ExecuteOperationType ==
  ASSUME NEW op \in CsrOp, NEW val \in Word, NEW value \in Word
  PROVE  ExecuteOperation(op, val, value) \in Word
  <1>1. MOD - 1 - val \in Word
    BY WordSize DEF Word
  <1>2. AluOp("or", value, val) \in Word /\ AluOp("and", value, MOD - 1 - val) \in Word
    BY <1>1, AluAssumption DEF AluFunc
  <1> QED
    BY <1>2 DEF ExecuteOperation, CsrOp

(* Masking with !MTVEC_MODE and !MEPC_BIT0 yields a word.                  *)
LEMMA ClearLowType ==
  ASSUME NEW v \in Word, NEW k \in Nat, k > 0
  PROVE  ClearLow(v, k) \in Word
  <1>1. v \in Nat /\ v < MOD /\ MOD \in Nat
    BY WordIsInt, WordSize
  <1>2. v % k \in 0..v
    BY <1>1, SMT
  <1> QED
    BY <1>1, <1>2 DEF ClearLow, Word

(* operation(): the masked write-back leaves a CSR file.                   *)
LEMMA OperationType ==
  ASSUME NEW c \in CsrFile, NEW op \in CsrOp, NEW val \in Word, NEW a \in CsrName
  PROVE  Operation(c, op, val, a) \in CsrFile
  <1> DEFINE new == ExecuteOperation(op, val, CsrRead(c, a))
  <1>1. new \in Word
    BY CsrReadType, ExecuteOperationType
  <1> HIDE DEF new
  <1>2. ClearLow(new, 2) \in Word /\ ClearLow(new, 4) \in Word
    BY <1>1, ClearLowType
  <1>3. \A w : BitSet(new, w) \in BOOLEAN
    BY DEF BitSet
  <1>4. Operation(c, op, val, a) = CsrWrite(c, a, new)
    BY DEF Operation, new
  <1>5. CASE a = "mstatus"
    BY <1>3, <1>4, <1>5 DEF CsrWrite, CsrFile
  <1>6. CASE a \in {"mie", "mip"}
    BY <1>3, <1>4, <1>6 DEF CsrWrite, CsrFile
  <1>7. CASE a \in {"mtvec", "mepc"}
    BY <1>2, <1>4, <1>7 DEF CsrWrite, CsrFile
  <1>8. CASE a \in {"mscratch", "mcause", "mtval"}
    BY <1>1, <1>4, <1>8 DEF CsrWrite, CsrFile
  <1>9. CASE a \in {"misa", "ignored", "unsupported"}
    BY <1>4, <1>9 DEF CsrWrite
  <1> QED
    BY <1>5, <1>6, <1>7, <1>8, <1>9 DEF CsrName

(* trap_entry and trap_return leave a CSR file, and the vector is a word.  *)
LEMMA TrapType ==
  ASSUME NEW c \in CsrFile, NEW p \in Word, NEW v \in Word
  PROVE  /\ TrapEntry(SetInterrupt(c), p, v) \in CsrFile
         /\ TrapReturn(c) \in CsrFile
         /\ TrapVector(c) \in Word
         /\ c.mepc \in Word
  <1>1. MCAUSE_EMBIVE_INTERRUPT \in Word
    BY WordSize, CsrAssumption DEF MCAUSE_EMBIVE_INTERRUPT, Word
  <1>2. SetInterrupt(c) \in CsrFile
    BY DEF SetInterrupt, CsrFile
  <1>3. TrapEntry(SetInterrupt(c), p, v) \in CsrFile
    BY <1>1, <1>2 DEF TrapEntry, CsrFile
  <1>4. TrapReturn(c) \in CsrFile
    BY DEF TrapReturn, CsrFile
  <1>5. c.mtvec \in Word /\ c.mepc \in Word
    BY DEF CsrFile
  <1>6. TrapVector(c) \in Word
    BY <1>5, ClearLowType DEF TrapVector
  <1> QED
    BY <1>3, <1>4, <1>5, <1>6

-----------------------------------------------------------------------------
(* Type correctness, instruction by instruction                            *)

(* fetch() yields an instruction the table defines, or an error.           *)
LEMMA FetchType ==
  ASSUME TypeOK
  PROVE  /\ Fetch.tag = "Ok" => /\ I \in Instr
                                /\ I.func \in FuncOf(I.op)
         /\ Fetch.tag # "Ok" => Fetch \in Outcome
  <1>1. mem \in Memory /\ pc \in Word /\ 4 \in AccessSize
    BY DEF TypeOK, AccessSize
  <1>2. /\ Fetch.tag \in {"Ok", "InvalidMemoryAddress", "InvalidMemoryAccessLength"}
        /\ Fetch.arg \in Word
        /\ Fetch = [tag |-> Fetch.tag, arg |-> Fetch.arg]
    BY <1>1, LoadType DEF Fetch
  <1>3. I \in Instr /\ I.func \in FuncOf(I.op)
    BY <1>2, DecodeAssumption DEF I
  <1>4. Fetch.tag # "Ok" => Fetch \in Outcome
    BY <1>2 DEF Outcome, ErrorTag
  <1> QED
    BY <1>3, <1>4

(* Going round the loop of run(), or returning, keeps its variables typed. *)
LEMMA FinishType ==
  ASSUME TypeOK, NEW r \in Outcome, Finish(r)
  PROVE  limit' \in Nat /\ call' \in Calls /\ budget' \in Nat /\ last' \in Outcome
  BY DEF TypeOK, Finish, LoopsAgain, Return, Calls

(* The results the handlers construct.                                     *)
LEMMA OutcomeTypes ==
  /\ Running \in Outcome
  /\ \A p \in Word : Result("InvalidInstruction", p) \in Outcome
                     /\ Result("IllegalInstruction", p) \in Outcome
  /\ \A t \in {"Called", "Waiting", "Halted", "InvalidCSRegister", "InterruptNotEnabled",
               "Done", "HostError", "Dropped"} : Result(t, 0) \in Outcome
  BY SmallWords DEF Running, Result, Outcome, StateTag, ErrorTag

(* An instruction that ends with Ok(Running) and touches only pc and x.    *)
LEMMA RetireType ==
  ASSUME TypeOK, NEW target \in Int, NEW regs \in [Reg -> Word], Retire(target, regs)
  PROVE  TypeOK'
  <1>1. limit' \in Nat /\ call' \in Calls /\ budget' \in Nat /\ last' \in Outcome
    BY FinishType, OutcomeTypes DEF Retire
  <1>2. pc' \in Word /\ x' \in [Reg -> Word]
    BY WrapType DEF Retire
  <1> QED
    BY <1>1, <1>2 DEF Retire, TypeOK

(* An instruction that ends with an error.                                 *)
LEMMA FailType ==
  ASSUME TypeOK, NEW r \in Outcome, Fail(r)
  PROVE  TypeOK'
  <1>1. limit' \in Nat /\ call' \in Calls /\ budget' \in Nat /\ last' \in Outcome
    BY FinishType DEF Fail
  <1> QED
    BY <1>1 DEF Fail, guest, TypeOK

(* cpu.get_mut keeps the register file.                                    *)
LEMMA WriteType ==
  ASSUME TypeOK, NEW r \in Reg, NEW v \in Word
  PROVE  WriteReg(r, v) \in [Reg -> Word] /\ WriteRd(r, v) \in [Reg -> Word]
  BY DEF TypeOK, WriteReg, WriteRd

\* The operands of the current instruction.
LEMMA OperandTypes ==
  ASSUME TypeOK, NEW op, Decoded(op)
  PROVE  /\ I \in Instr /\ I.op = op /\ I.func \in FuncOf(op)
         /\ I.rd \in Reg /\ I.rs1 \in Reg /\ I.rs2 \in Reg /\ I.imm \in Word
         /\ \A r \in Reg : x[r] \in Word /\ x[r] \in Int
         /\ SP \in Reg /\ RA \in Reg
         /\ pc \in Word /\ pc \in Int /\ I.imm \in Int
  <1>1. I \in Instr /\ I.op = op /\ I.func \in FuncOf(op)
    BY FetchType DEF Decoded
  <1>2. I.rd \in Reg /\ I.rs1 \in Reg /\ I.rs2 \in Reg /\ I.imm \in Word
    BY <1>1 DEF Instr
  <1>3. pc \in Word /\ \A r \in Reg : x[r] \in Word
    BY DEF TypeOK
  <1>4. SP \in Reg /\ RA \in Reg
    BY DEF SP, RA, Reg
  <1> QED
    BY <1>1, <1>2, <1>3, <1>4, WordIsInt

(* Loads of every width (load_store.rs, lw.rs, lwsp.rs).                   *)
LEMMA LoadToType ==
  ASSUME TypeOK, NEW r \in Reg, NEW f, NEW a \in Word, NEW size \in Int,
         LoadTo(r, f, a, size)
  PROVE  TypeOK'
  <1> DEFINE n == LoadWidth(f)
             got == Load(mem, a, n)
  <1>1. n \in AccessSize
    BY DEF LoadWidth, AccessSize
  <1>2. mem \in Memory /\ pc \in Int
    BY WordIsInt DEF TypeOK
  <1>3. /\ got.tag \in {"Ok", "InvalidMemoryAddress", "InvalidMemoryAccessLength"}
        /\ got.arg \in Word
        /\ got = [tag |-> got.tag, arg |-> got.arg]
        /\ got.tag = "Ok" => got.arg \in Nat /\ got.arg < Values(n)
    BY <1>1, <1>2, LoadType
  <1> HIDE DEF n, got
  <1>4. CASE got.tag = "Ok"
    <2>1. Retire(pc + size, WriteReg(r, Extend(f, got.arg)))
      BY <1>4 DEF LoadTo, got, n
    <2>2. Extend(f, got.arg) \in Word
      BY <1>1, <1>3, <1>4, SignExtendType DEF Extend, n
    <2>3. WriteReg(r, Extend(f, got.arg)) \in [Reg -> Word]
      BY <2>2, WriteType
    <2> QED
      BY <2>1, <2>3, <1>2, RetireType
  <1>5. CASE got.tag # "Ok"
    <2>1. Fail(got)
      BY <1>5 DEF LoadTo, got, n
    <2>2. got \in Outcome
      BY <1>3, <1>5 DEF Outcome, ErrorTag
    <2> QED
      BY <2>1, <2>2, FailType
  <1> QED
    BY <1>4, <1>5

(* The error of a store that fails.                                        *)
LEMMA StoreErrorType ==
  ASSUME NEW a \in Word, NEW n \in AccessSize, Store(a, n).tag # "Ok"
  PROVE  Store(a, n) \in Outcome
  BY StoreType DEF Outcome, ErrorTag

(* Stores of every width (load_store.rs, sw.rs, swsp.rs).                  *)
LEMMA StoreFromType ==
  ASSUME TypeOK, NEW r \in Reg, NEW f, NEW a \in Word, NEW size \in Int,
         StoreFrom(r, f, a, size)
  PROVE  TypeOK'
  <1> DEFINE n == LoadWidth(f)
  <1>1. n \in AccessSize
    BY DEF LoadWidth, AccessSize
  <1>2. mem \in Memory /\ pc \in Int /\ x[r] \in Word
    BY WordIsInt DEF TypeOK
  <1> HIDE DEF n
  <1>3. CASE Store(a, n).tag = "Ok"
    <2>1. /\ mem' = Stored(mem, a, n, x[r])
          /\ pc' = Wrap(pc + size)
          /\ Finish(Running)
          /\ UNCHANGED <<x, csr, reservation>>
      BY <1>3 DEF StoreFrom, n
    <2>2. mem' \in Memory /\ pc' \in Word
      BY <2>1, <1>1, <1>2, StoredType, WrapType
    <2>3. limit' \in Nat /\ call' \in Calls /\ budget' \in Nat /\ last' \in Outcome
      BY <2>1, FinishType, OutcomeTypes
    <2> QED
      BY <2>1, <2>2, <2>3 DEF TypeOK
  <1>4. CASE Store(a, n).tag # "Ok"
    <2>1. Fail(Store(a, n))
      BY <1>4 DEF StoreFrom, n
    <2> QED
      BY <2>1, <1>1, <1>4, StoreErrorType, FailType
  <1> QED
    BY <1>3, <1>4

(* The immediate and register arithmetic of op_imm.rs and op_amo.rs uses   *)
(* ALU functions only.                                                     *)
LEMMA AluType ==
  ASSUME NEW f \in AluFunc, NEW a \in Word, NEW b \in Word
  PROVE  AluOp(f, a, b) \in Word
  BY AluAssumption

(* The functions each opcode of the instruction table selects.             *)
LEMMA FuncTypes ==
  /\ FuncOf("Branch") = BranchFunc \cup {"invalid"}
  /\ FuncOf("LoadStore") = LoadFunc \cup StoreFunc
  /\ FuncOf("OpImm") = ImmFunc
  /\ FuncOf("OpAmo") = AluFunc \cup AtomicFunc \cup {"invalid"}
  /\ FuncOf("SystemMiscMem") = StopFunc \cup {"mret"} \cup CsrFunc \cup {"invalid"}
  /\ ImmFunc \subseteq AluFunc
  BY DEF FuncOf, ImmFunc, AluFunc

(* load_store.rs, and the compressed loads and stores.                     *)
LEMMA LoadStoreType == ASSUME TypeOK, LoadStore \/ CLw \/ CLwsp \/ CSw \/ CSwsp PROVE TypeOK'
  <1>1. CASE LoadStore
    <2>1. Decoded("LoadStore")
      BY <1>1 DEF LoadStore
    <2> DEFINE a == Wrap(x[I.rs1] + I.imm)
    <2>2. a \in Word /\ I.rd \in Reg
      BY <2>1, OperandTypes, WrapType
    <2>3. LoadTo(I.rd, I.func, a, 4) \/ StoreFrom(I.rd, I.func, a, 4)
      BY <1>1 DEF LoadStore
    <2> HIDE DEF a
    <2> QED
      BY <2>2, <2>3, LoadToType, StoreFromType
  <1>2. CASE CLw
    <2>1. Decoded("CLw") /\ LoadTo(I.rd, "lw", Wrap(x[I.rs1] + I.imm), 2)
      BY <1>2 DEF CLw
    <2>2. Wrap(x[I.rs1] + I.imm) \in Word /\ I.rd \in Reg
      BY <2>1, OperandTypes, WrapType
    <2> QED
      BY <2>1, <2>2, LoadToType
  <1>3. CASE CLwsp
    <2>1. Decoded("CLwsp") /\ LoadTo(I.rd, "lw", Wrap(x[SP] + I.imm), 2)
      BY <1>3 DEF CLwsp
    <2>2. Wrap(x[SP] + I.imm) \in Word /\ I.rd \in Reg
      BY <2>1, OperandTypes, WrapType
    <2> QED
      BY <2>1, <2>2, LoadToType
  <1>4. CASE CSw
    <2>1. Decoded("CSw") /\ StoreFrom(I.rd, "sw", Wrap(x[I.rs1] + I.imm), 2)
      BY <1>4 DEF CSw
    <2>2. Wrap(x[I.rs1] + I.imm) \in Word /\ I.rd \in Reg
      BY <2>1, OperandTypes, WrapType
    <2> QED
      BY <2>1, <2>2, StoreFromType
  <1>5. CASE CSwsp
    <2>1. Decoded("CSwsp") /\ StoreFrom(I.rs2, "sw", Wrap(x[SP] + I.imm), 2)
      BY <1>5 DEF CSwsp
    <2>2. Wrap(x[SP] + I.imm) \in Word /\ I.rs2 \in Reg
      BY <2>1, OperandTypes, WrapType
    <2> QED
      BY <2>1, <2>2, StoreFromType
  <1> QED
    BY <1>1, <1>2, <1>3, <1>4, <1>5

(* An instruction that writes one register and continues at target.        *)
LEMMA RetireRdType ==
  ASSUME TypeOK, NEW r \in Reg, NEW v \in Word, NEW target \in Int,
         Retire(target, WriteRd(r, v)) \/ Retire(target, WriteReg(r, v))
  PROVE  TypeOK'
  <1>1. WriteReg(r, v) \in [Reg -> Word] /\ WriteRd(r, v) \in [Reg -> Word]
    BY WriteType
  <1> QED
    BY <1>1, RetireType

(* auipc.rs, lui.rs, jal.rs, jalr.rs, branch.rs and op_imm.rs.             *)
LEMMA UpperJumpType ==
  ASSUME TypeOK, Auipc \/ Lui \/ Jal \/ Jalr \/ Branch \/ OpImm
  PROVE  TypeOK'
  <1>1. CASE Auipc
    <2>1. Decoded("Auipc") /\ Retire(pc + 4, WriteRd(I.rd, Wrap(pc + I.imm)))
      BY <1>1 DEF Auipc
    <2>2. Wrap(pc + I.imm) \in Word /\ I.rd \in Reg /\ pc + 4 \in Int
      BY <2>1, OperandTypes, WrapType
    <2> QED
      BY <2>1, <2>2, RetireRdType
  <1>2. CASE Lui
    <2>1. Decoded("Lui") /\ Retire(pc + 4, WriteRd(I.rd, I.imm))
      BY <1>2 DEF Lui
    <2>2. I.imm \in Word /\ I.rd \in Reg /\ pc + 4 \in Int
      BY <2>1, OperandTypes
    <2> QED
      BY <2>1, <2>2, RetireRdType
  <1>3. CASE Jal
    <2>1. Decoded("Jal") /\ Retire(pc + I.imm, WriteRd(I.rd, Wrap(pc + 4)))
      BY <1>3 DEF Jal
    <2>2. Wrap(pc + 4) \in Word /\ I.rd \in Reg /\ pc + I.imm \in Int
      BY <2>1, OperandTypes, WrapType
    <2> QED
      BY <2>1, <2>2, RetireRdType
  <1>4. CASE Jalr
    <2>1. Decoded("Jalr") /\ Retire(x[I.rs1] + I.imm, WriteRd(I.rd, Wrap(pc + 4)))
      BY <1>4 DEF Jalr
    <2>2. Wrap(pc + 4) \in Word /\ I.rd \in Reg /\ x[I.rs1] + I.imm \in Int
      BY <2>1, OperandTypes, WrapType
    <2> QED
      BY <2>1, <2>2, RetireRdType
  <1>5. CASE Branch
    <2> DEFINE t == IF BranchTaken(I.func, x[I.rs1], x[I.rs2]) THEN pc + I.imm ELSE pc + 4
    <2>1. Decoded("Branch") /\ (Retire(t, x) \/ Fail(Result("InvalidInstruction", pc)))
      BY <1>5 DEF Branch
    <2>2. t \in Int /\ pc \in Word /\ x \in [Reg -> Word]
      BY <2>1, OperandTypes DEF TypeOK
    <2> HIDE DEF t
    <2> QED
      BY <2>1, <2>2, RetireType, FailType, OutcomeTypes
  <1>6. CASE OpImm
    <2>1. Decoded("OpImm") /\ Retire(pc + 4, WriteRd(I.rd, AluOp(I.func, x[I.rs1], I.imm)))
      BY <1>6 DEF OpImm
    <2>2. I.func \in AluFunc
      BY <2>1, OperandTypes, FuncTypes
    <2>3. x[I.rs1] \in Word /\ I.imm \in Word /\ I.rd \in Reg /\ pc + 4 \in Int
      BY <2>1, OperandTypes
    <2>4. AluOp(I.func, x[I.rs1], I.imm) \in Word
      BY <2>2, <2>3, AluType
    <2> QED
      BY <2>1, <2>3, <2>4, RetireRdType
  <1> QED
    BY <1>1, <1>2, <1>3, <1>4, <1>5, <1>6

(* The compressed arithmetic: rd = f(rd, v) (addi.rs, srli.rs, ..., and.rs). *)
LEMMA CompressedAluType ==
  ASSUME TypeOK,
         CAddi \/ CSrli \/ CSrai \/ CSlli \/ CAndi \/ CSub \/ CXor \/ COr \/ CAnd
  PROVE  TypeOK'
  <1>1. PICK op \in Opcode, f \in AluFunc, v \in {I.imm, x[I.rs2]} :
          Decoded(op) /\ Retire(pc + 2, WriteRd(I.rd, AluOp(f, x[I.rd], v)))
    BY DEF CAddi, CSrli, CSrai, CSlli, CAndi, CSub, CXor, COr, CAnd, CompressedAlu, AluFunc,
           Opcode
  <1>2. x[I.rd] \in Word /\ v \in Word /\ I.rd \in Reg /\ pc + 2 \in Int
    BY <1>1, OperandTypes
  <1>3. AluOp(f, x[I.rd], v) \in Word
    BY <1>2, AluType
  <1> QED
    BY <1>1, <1>2, <1>3, RetireRdType

(* The compressed instructions that set a register or jump.                *)
LEMMA CompressedMoveType ==
  ASSUME TypeOK, CAddi4spn \/ CLi \/ CLui \/ CAddi16sp \/ CJal \/ CJrMv \/ CEbreakJalrAdd
  PROVE  TypeOK'
  <1>1. CASE CAddi4spn
    <2>1. /\ Decoded("CAddi4spn")
          /\ \/ Fail(Result("IllegalInstruction", pc))
             \/ Retire(pc + 2, WriteReg(I.rd, Wrap(x[SP] + I.imm)))
      BY <1>1 DEF CAddi4spn
    <2>2. Wrap(x[SP] + I.imm) \in Word /\ I.rd \in Reg /\ pc + 2 \in Int /\ pc \in Word
      BY <2>1, OperandTypes, WrapType
    <2> QED
      BY <2>1, <2>2, RetireRdType, FailType, OutcomeTypes
  <1>2. CASE CLi
    <2>1. Decoded("CLi") /\ Retire(pc + 2, WriteRd(I.rd, I.imm))
      BY <1>2 DEF CLi
    <2>2. I.imm \in Word /\ I.rd \in Reg /\ pc + 2 \in Int
      BY <2>1, OperandTypes
    <2> QED
      BY <2>1, <2>2, RetireRdType
  <1>3. CASE CLui
    <2>1. Decoded("CLui") /\ Retire(pc + 2, WriteRd(I.rd, I.imm))
      BY <1>3 DEF CLui
    <2>2. I.imm \in Word /\ I.rd \in Reg /\ pc + 2 \in Int
      BY <2>1, OperandTypes
    <2> QED
      BY <2>1, <2>2, RetireRdType
  <1>4. CASE CAddi16sp
    <2>1. Decoded("CAddi16sp") /\ Retire(pc + 2, WriteReg(SP, Wrap(x[SP] + I.imm)))
      BY <1>4 DEF CAddi16sp
    <2>2. Wrap(x[SP] + I.imm) \in Word /\ SP \in Reg /\ pc + 2 \in Int
      BY <2>1, OperandTypes, WrapType
    <2> QED
      BY <2>1, <2>2, RetireRdType
  <1>5. CASE CJal
    <2>1. Decoded("CJal") /\ Retire(pc + I.imm, WriteReg(RA, Wrap(pc + 2)))
      BY <1>5 DEF CJal
    <2>2. Wrap(pc + 2) \in Word /\ RA \in Reg /\ pc + I.imm \in Int
      BY <2>1, OperandTypes, WrapType
    <2> QED
      BY <2>1, <2>2, RetireRdType
  <1>6. CASE CJrMv
    <2>1. /\ Decoded("CJrMv")
          /\ Retire(x[I.rd], x) \/ Retire(pc + 2, WriteReg(I.rd, x[I.rs2]))
      BY <1>6 DEF CJrMv
    <2>2. /\ x[I.rd] \in Int /\ pc + 2 \in Int /\ I.rd \in Reg /\ x[I.rs2] \in Word
          /\ x \in [Reg -> Word]
      BY <2>1, OperandTypes DEF TypeOK
    <2> QED
      BY <2>1, <2>2, RetireType, RetireRdType
  <1>7. CASE CEbreakJalrAdd
    <2>1. Decoded("CEbreakJalrAdd")
      BY <1>7 DEF CEbreakJalrAdd
    <2>2. /\ x[I.rd] \in Int /\ pc + 2 \in Int /\ I.rd \in Reg /\ RA \in Reg
          /\ Wrap(pc + 2) \in Word /\ Wrap(x[I.rd] + x[I.rs2]) \in Word
      BY <2>1, OperandTypes, WrapType
    <2>3. CASE I.rs2 = 0 /\ I.rd = 0
      <3>1. pc' \in Word /\ Finish(Result("Halted", 0)) /\ UNCHANGED <<x, csr, mem, reservation>>
        BY <1>7, <2>2, <2>3 DEF CEbreakJalrAdd
      <3>2. limit' \in Nat /\ call' \in Calls /\ budget' \in Nat /\ last' \in Outcome
        BY <3>1, FinishType, OutcomeTypes
      <3> QED
        BY <3>1, <3>2 DEF TypeOK
    <2>4. CASE ~(I.rs2 = 0 /\ I.rd = 0)
      <3>1. \/ Retire(x[I.rd], WriteReg(RA, Wrap(pc + 2)))
            \/ Retire(pc + 2, WriteReg(I.rd, Wrap(x[I.rd] + x[I.rs2])))
        BY <1>7, <2>4 DEF CEbreakJalrAdd
      <3> QED
        BY <3>1, <2>2, RetireRdType
    <2> QED
      BY <2>3, <2>4
  <1> QED
    BY <1>1, <1>2, <1>3, <1>4, <1>5, <1>6, <1>7

(* c.j, c.beqz and c.bnez change only the program counter.                 *)
LEMMA CompressedBranchType == ASSUME TypeOK, CJ \/ CBeqz \/ CBnez PROVE TypeOK'
  <1>1. PICK op \in Opcode, t \in {pc + I.imm, pc + 2} : Decoded(op) /\ Retire(t, x)
    BY DEF CJ, CBeqz, CBnez, Opcode
  <1>2. t \in Int /\ x \in [Reg -> Word]
    BY <1>1, OperandTypes DEF TypeOK
  <1> QED
    BY <1>1, <1>2, RetireType

(* What an AMO stores is a word.                                           *)
LEMMA AmoValueType ==
  ASSUME NEW f \in AmoFunc, NEW old \in Word, NEW v \in Word
  PROVE  AmoValue(f, old, v) \in Word
  <1>1. /\ AluOp("xor", old, v) \in Word /\ AluOp("and", old, v) \in Word
        /\ AluOp("or", old, v) \in Word
    BY AluType DEF AluFunc
  <1>2. Wrap(old + v) \in Word
    BY WordIsInt, WrapType
  <1> QED
    BY <1>1, <1>2 DEF AmoValue, AmoFunc

(* LR, SC and the AMOs, once the word they address is loaded (op_amo.rs).  *)
LEMMA AtomicType ==
  ASSUME TypeOK, Decoded("OpAmo"), NEW a \in Word, NEW old \in Word,
         LoadReserved(a, old) \/ StoreConditional(a, old) \/ Amo(a, old)
  PROVE  TypeOK'
  <1>1. /\ I.rd \in Reg /\ x[I.rs2] \in Word /\ 4 \in AccessSize /\ mem \in Memory
        /\ Wrap(pc + 4) \in Word /\ 0 \in Word /\ 1 \in Word
    BY OperandTypes, WrapType, SmallWords DEF AccessSize, TypeOK
  <1>2. /\ WriteRd(I.rd, old) \in [Reg -> Word]
        /\ WriteRd(I.rd, 0) \in [Reg -> Word] /\ WriteRd(I.rd, 1) \in [Reg -> Word]
    BY <1>1, WriteType
  <1>3. Store(a, 4).tag # "Ok" => Store(a, 4) \in Outcome
    BY <1>1, StoreErrorType
  <1>4. Running \in Outcome
    BY OutcomeTypes
  <1>5. CASE LoadReserved(a, old)
    <2>1. limit' \in Nat /\ call' \in Calls /\ budget' \in Nat /\ last' \in Outcome
      BY <1>4, <1>5, FinishType DEF LoadReserved
    <2> QED
      BY <2>1, <1>1, <1>2, <1>5 DEF LoadReserved, TypeOK
  <1>6. CASE StoreConditional(a, old)
    <2>1. limit' \in Nat /\ call' \in Calls /\ budget' \in Nat /\ last' \in Outcome
      BY <1>3, <1>4, <1>6, FinishType DEF StoreConditional
    <2>2. Stored(mem, a, 4, x[I.rs2]) \in Memory
      BY <1>1, StoredType
    <2>3. pc' \in Word /\ x' \in [Reg -> Word] /\ mem' \in Memory
      BY <2>2, <1>1, <1>2, <1>6 DEF StoreConditional, TypeOK
    <2> QED
      BY <2>1, <2>3, <1>6 DEF StoreConditional, TypeOK
  <1>7. CASE Amo(a, old) /\ Store(a, 4).tag = "Ok"
    <2>1. limit' \in Nat /\ call' \in Calls /\ budget' \in Nat /\ last' \in Outcome
      BY <1>4, <1>7, FinishType DEF Amo
    <2>2. AmoValue(I.func, old, x[I.rs2]) \in Word
      BY <1>1, <1>7, AmoValueType DEF Amo
    <2>3. Stored(mem, a, 4, AmoValue(I.func, old, x[I.rs2])) \in Memory
      BY <1>1, <2>2, StoredType
    <2> QED
      BY <2>1, <2>3, <1>1, <1>2, <1>7 DEF Amo, TypeOK
  <1>8. CASE Amo(a, old) /\ Store(a, 4).tag # "Ok"
    <2>1. Fail(Store(a, 4))
      BY <1>8 DEF Amo
    <2> QED
      BY <2>1, <1>3, <1>8, FailType
  <1> QED
    BY <1>5, <1>6, <1>7, <1>8

(* op_amo.rs                                                               *)
LEMMA OpAmoType == ASSUME TypeOK, OpAmo PROVE TypeOK'
  <1> DEFINE a == x[I.rs1]
             got == Load(mem, a, 4)
  <1>1. Decoded("OpAmo")
    BY DEF OpAmo
  <1>2. a \in Word /\ x[I.rs2] \in Word /\ I.rd \in Reg /\ pc \in Word /\ pc + 4 \in Int
    BY <1>1, OperandTypes
  <1>3. /\ got.tag \in {"Ok", "InvalidMemoryAddress", "InvalidMemoryAccessLength"}
        /\ got.arg \in Word
        /\ got = [tag |-> got.tag, arg |-> got.arg]
    BY <1>2, LoadType DEF TypeOK, AccessSize
  <1>4. CASE I.func \in AluFunc /\ Retire(pc + 4, WriteRd(I.rd, AluOp(I.func, a, x[I.rs2])))
    <2>1. AluOp(I.func, a, x[I.rs2]) \in Word
      BY <1>2, <1>4, AluType
    <2> QED
      BY <2>1, <1>2, <1>4, RetireRdType
  <1>5. CASE got.tag # "Ok" /\ Fail(got)
    <2>1. got \in Outcome
      BY <1>3, <1>5 DEF Outcome, ErrorTag
    <2> QED
      BY <2>1, <1>5, FailType
  <1>6. CASE LoadReserved(a, got.arg) \/ StoreConditional(a, got.arg) \/ Amo(a, got.arg)
    BY <1>1, <1>2, <1>3, <1>6, AtomicType
  <1>7. CASE Fail(Result("InvalidInstruction", pc))
    BY <1>2, <1>7, FailType, OutcomeTypes
  <1> QED
    BY <1>4, <1>5, <1>6, <1>7 DEF OpAmo

(* system_misc_mem.rs                                                      *)
LEMMA SystemType == ASSUME TypeOK, SystemMiscMem PROVE TypeOK'
  <1>1. Decoded("SystemMiscMem")
    BY DEF SystemMiscMem
  <1>2. /\ Wrap(pc + 4) \in Word /\ pc \in Word /\ I.rd \in Reg /\ I.rs1 \in Reg
        /\ x[I.rs1] \in Word /\ I.csr \in CsrName /\ csr \in CsrFile
    BY <1>1, OperandTypes, WrapType DEF Instr, TypeOK
  <1>3. CASE I.func \in StopFunc
    <2>1. /\ pc' = Wrap(pc + 4) /\ Finish(StopState(I.func))
          /\ UNCHANGED <<x, csr, mem, reservation>>
      BY <1>3 DEF SystemMiscMem, CsrAccess, StopFunc, CsrFunc
    <2>2. StopState(I.func) \in Outcome
      BY <1>3, OutcomeTypes DEF StopFunc, StopState
    <2>3. limit' \in Nat /\ call' \in Calls /\ budget' \in Nat /\ last' \in Outcome
      BY <2>1, <2>2, FinishType
    <2> QED
      BY <2>1, <2>3, <1>2 DEF TypeOK
  <1>4. CASE I.func = "mret"
    <2>1. /\ pc' = csr.mepc /\ csr' = TrapReturn(csr) /\ Finish(Running)
          /\ UNCHANGED <<x, mem, reservation>>
      BY <1>4 DEF SystemMiscMem, CsrAccess, StopFunc, CsrFunc
    <2>2. pc' \in Word /\ csr' \in CsrFile
      BY <2>1, <1>2, TrapType
    <2>3. limit' \in Nat /\ call' \in Calls /\ budget' \in Nat /\ last' \in Outcome
      BY <2>1, FinishType, OutcomeTypes
    <2> QED
      BY <2>1, <2>2, <2>3 DEF TypeOK
  <1>5. CASE CsrAccess /\ I.csr # "unsupported"
    <2> DEFINE op == CsrInstrOp(I.func, I.rs1)
               v == CsrInstrVal(I.func, I.rs1)
    <2>1. /\ csr' = Operation(csr, op, v, I.csr)
          /\ x' = WriteRd(I.rd, CsrRead(csr, I.csr))
          /\ pc' = Wrap(pc + 4) /\ Finish(Running)
          /\ UNCHANGED <<mem, reservation>>
      BY <1>5 DEF CsrAccess
    <2>2. op \in CsrOp
      BY <1>5 DEF CsrAccess, CsrFunc, CsrInstrOp, CsrOp
    <2>3. v \in Word
      BY <1>2, SmallWords DEF CsrInstrVal, Reg
    <2> HIDE DEF op, v
    <2>4. csr' \in CsrFile
      BY <2>1, <2>2, <2>3, <1>2, OperationType
    <2>5. CsrRead(csr, I.csr) \in Word
      BY <1>2, CsrReadType
    <2>6. x' \in [Reg -> Word]
      BY <2>1, <2>5, <1>2, WriteType
    <2>7. limit' \in Nat /\ call' \in Calls /\ budget' \in Nat /\ last' \in Outcome
      BY <2>1, FinishType, OutcomeTypes
    <2> QED
      BY <2>1, <2>4, <2>6, <2>7, <1>2 DEF TypeOK
  <1>6. CASE CsrAccess /\ I.csr = "unsupported"
    BY <1>6, FailType, OutcomeTypes DEF CsrAccess
  <1>7. CASE Fail(Result("InvalidInstruction", pc))
    BY <1>2, <1>7, FailType, OutcomeTypes
  <1> QED
    BY <1>3, <1>4, <1>5, <1>6, <1>7 DEF SystemMiscMem

(* One instruction, as step() or the loop of run() executes it.            *)
LEMMA StepType == ASSUME TypeOK, Step PROVE TypeOK'
  <1>1. CASE FetchError
    BY <1>1, FetchType, FailType DEF FetchError
  <1>2. CASE ~FetchError
    BY <1>2, LoadStoreType, UpperJumpType, OpAmoType, SystemType, CompressedAluType,
       CompressedMoveType, CompressedBranchType DEF Step
  <1> QED
    BY <1>1, <1>2

-----------------------------------------------------------------------------
(* Type correctness of the host's calls                                    *)

(* Memory written by a system call function or by the host.                *)
LEMMA HostStoredType == ASSUME NEW m \in Memory PROVE HostStored(m) \subseteq Memory
  <1> SUFFICES ASSUME NEW q \in HostStored(m) PROVE q \in Memory
    OBVIOUS
  <1>1. CASE q = m
    BY <1>1
  <1>2. CASE q # m
    <2>1. PICK s \in HostStores, v \in HostValues : q = Stored(m, s[1], s[2], v)
      BY <1>2 DEF HostStored
    <2>2. s[1] \in Word /\ s[2] \in AccessSize /\ v \in Word
      BY HostAssumption
    <2> QED
      BY <2>1, <2>2, StoredType
  <1> QED
    BY <1>1, <1>2

(* syscall_result, or the Err(E) of the function.                          *)
LEMMA SyscallReturnType ==
  ASSUME TypeOK, mem' \in Memory, SyscallReturn
  PROVE  TypeOK'
  <1>1. /\ x' \in [Reg -> Word] /\ call' \in Calls /\ budget' \in Nat /\ last' \in Outcome
        /\ UNCHANGED <<pc, csr, reservation, limit>>
    <2>1. 0 \in Word /\ A0 \in Reg /\ A1 \in Reg /\ x \in [Reg -> Word]
      BY SmallWords DEF A0, A1, Reg, TypeOK
    <2>2. \A v \in HostValues : v \in Word
      BY HostAssumption
    <2>3. x' \in [Reg -> Word]
      BY <2>1, <2>2 DEF SyscallReturn, SyscallOk, SyscallErr
    <2> QED
      BY <2>3, OutcomeTypes DEF SyscallReturn, Return, Calls
  <1> QED
    BY <1>1 DEF TypeOK

(* interrupt(value)                                                        *)
LEMMA InterruptType == ASSUME TypeOK, NEW v \in Word, Interrupt(v) PROVE TypeOK'
  <1>1. csr \in CsrFile /\ pc \in Word
    BY DEF TypeOK
  <1>2. TrapEntry(SetInterrupt(csr), pc, v) \in CsrFile /\ TrapVector(csr) \in Word
    BY <1>1, TrapType
  <1>3. csr' \in CsrFile /\ pc' \in Word
    BY <1>1, <1>2 DEF Interrupt
  <1>4. call' \in Calls /\ budget' \in Nat /\ last' \in Outcome
    BY OutcomeTypes DEF Interrupt, Return, Calls
  <1> QED
    BY <1>3, <1>4 DEF Interrupt, TypeOK

(* control_status.operation called by the host.                            *)
LEMMA HostCsrType ==
  ASSUME TypeOK, NEW o \in CsrOp \X CsrName, NEW v \in Word, HostCsr(o[1], v, o[2])
  PROVE  TypeOK'
  <1>1. o[1] \in CsrOp /\ o[2] \in CsrName /\ csr \in CsrFile
    BY DEF TypeOK
  <1>2. Operation(csr, o[1], v, o[2]) \in CsrFile
    BY <1>1, OperationType
  <1>3. csr' \in CsrFile
    BY <1>1, <1>2 DEF HostCsr
  <1> QED
    BY <1>3 DEF HostCsr, TypeOK

(* Any call of the host, or assignment to a public field.                  *)
LEMMA HostType == ASSUME TypeOK, Host PROVE TypeOK'
  <1>1. mem \in Memory /\ HostStored(mem) \subseteq Memory
    BY HostStoredType DEF TypeOK
  <1>2. CASE CallRun \/ CallStep
    BY <1>2 DEF CallRun, CallStep, guest, TypeOK, Calls
  <1>3. CASE \E v \in HostValues : Interrupt(v)
    BY <1>3, InterruptType, HostAssumption
  <1>4. CASE Syscall \/ CompleteAsync
    <2>1. mem' \in Memory /\ SyscallReturn
      BY <1>1, <1>4 DEF Syscall, CompleteAsync
    <2> QED
      BY <2>1, SyscallReturnType
  <1>5. CASE SyscallAsync \/ PollAsync \/ HostStore
    BY <1>1, <1>5 DEF SyscallAsync, PollAsync, HostStore, guest, TypeOK, Calls
  <1>6. CASE DropAsync
    BY <1>6, OutcomeTypes DEF DropAsync, Return, guest, TypeOK, Calls
  <1>7. CASE Reset
    <2>1. 0 \in Word /\ DefaultCsr \in CsrFile
      BY SmallWords DEF DefaultCsr, CsrFile
    <2> QED
      BY <2>1, <1>7, OutcomeTypes DEF Reset, Return, TypeOK, Calls
  <1>8. CASE SetPc \/ SetRegisters \/ SetLimit
    BY <1>8, HostAssumption DEF SetPc, SetRegisters, SetLimit, guest, TypeOK
  <1>9. CASE \E o \in HostCsrOps, v \in HostValues : HostCsr(o[1], v, o[2])
    BY <1>9, HostCsrType, HostAssumption
  <1> QED
    BY <1>2, <1>3, <1>4, <1>5, <1>6, <1>7, <1>8, <1>9 DEF Host

(* Interpreter::new.                                                       *)
LEMMA InitType == Init => TypeOK
  <1> SUFFICES ASSUME Init PROVE TypeOK
    OBVIOUS
  <1>1. 0 \in Word /\ DefaultCsr \in CsrFile
    BY SmallWords DEF DefaultCsr, CsrFile
  <1>2. mem \in Memory
    BY HostAssumption DEF Init, Memory
  <1> QED
    BY <1>1, <1>2, HostAssumption, OutcomeTypes DEF Init, TypeOK, Calls

(* TypeOK is inductive.                                                    *)
LEMMA NextType == TypeOK /\ [Next]_vars => TypeOK'
  <1>1. ASSUME TypeOK, Next PROVE TypeOK'
    BY <1>1, StepType, HostType DEF Next
  <1>2. ASSUME TypeOK, UNCHANGED vars PROVE TypeOK'
    BY <1>2 DEF vars, TypeOK
  <1> QED
    BY <1>1, <1>2

(* Whatever program runs and whatever its host calls, registers, CSRs and  *)
(* memory keep their shape, every access that a check lets through lies    *)
(* within its slice, and every call ends with one of the results the API   *)
(* documents.                                                              *)
THEOREM TypeCorrect == Spec => []TypeOK
  BY InitType, NextType, PTL DEF Spec

-----------------------------------------------------------------------------
(* What an instruction may do                                              *)

(* Every instruction either retires with Ok(Running) touching only pc and  *)
(* one register, fails before it changed anything, or is one of the stores *)
(* and system instructions named here.                                     *)
LEMMA StepShape ==
  ASSUME Step
  PROVE  \/ \E t, r : Retire(t, r)
         \/ \E r : Fail(r)
         \/ Executing /\ \E r, f, a, size : StoreFrom(r, f, a, size)
         \/ OpAmo /\ \/ LoadReserved(x[I.rs1], Load(mem, x[I.rs1], 4).arg)
                     \/ StoreConditional(x[I.rs1], Load(mem, x[I.rs1], 4).arg)
                     \/ Amo(x[I.rs1], Load(mem, x[I.rs1], 4).arg)
         \/ SystemMiscMem
         \/ CEbreakJalrAdd
  <1>1. CASE LoadStore \/ CLw \/ CLwsp \/ CSw \/ CSwsp
    BY <1>1 DEF LoadStore, CLw, CLwsp, CSw, CSwsp, LoadTo, Decoded
  <1>2. CASE FetchError \/ Auipc \/ Branch \/ Jal \/ Jalr \/ Lui \/ OpImm
    BY <1>2 DEF FetchError, Auipc, Branch, Jal, Jalr, Lui, OpImm
  <1>3. CASE OpAmo
    BY <1>3 DEF OpAmo
  <1>4. CASE CAddi4spn \/ CLi \/ CLui \/ CAddi16sp \/ CJ \/ CJal \/ CBeqz \/ CBnez \/ CJrMv
    BY <1>4 DEF CAddi4spn, CLi, CLui, CAddi16sp, CJ, CJal, CBeqz, CBnez, CJrMv
  <1>5. CASE CAddi \/ CSrli \/ CSrai \/ CSlli \/ CAndi \/ CSub \/ CXor \/ COr \/ CAnd
    BY <1>5 DEF CAddi, CSrli, CSrai, CSlli, CAndi, CSub, CXor, COr, CAnd, CompressedAlu
  <1> QED
    BY <1>1, <1>2, <1>3, <1>4, <1>5 DEF Step

(* Only an instruction in progress is a step of the interpreter.           *)
LEMMA StepExecuting == Step => Executing
  <1> SUFFICES ASSUME Step PROVE Executing
    OBVIOUS
  <1>1. CASE FetchError
    BY <1>1 DEF FetchError
  <1>2. CASE ~FetchError
    BY <1>2 DEF Step, Decoded, Auipc, Branch, Jal, Jalr, LoadStore, Lui, OpImm, OpAmo,
       SystemMiscMem, CAddi4spn, CLw, CLwsp, CSw, CSwsp, CLi, CLui, CAddi16sp, CAddi, CSrli,
       CSrai, CSlli, CAndi, CSub, CXor, COr, CAnd, CJ, CJal, CBeqz, CBnez, CJrMv,
       CEbreakJalrAdd
  <1> QED
    BY <1>1, <1>2

(* The control and status registers change only in system_misc_mem.rs.     *)
LEMMA StepKeepsCsr == ASSUME Step, ~SystemMiscMem PROVE UNCHANGED csr
  BY StepShape DEF Retire, Fail, guest, StoreFrom, LoadReserved, StoreConditional, Amo,
     CEbreakJalrAdd

(* memory_reservation changes only in the LR and SC arms of op_amo.rs.     *)
LEMMA StepKeepsReservation ==
  ASSUME Step, reservation' # reservation
  PROVE  OpAmo /\ \/ LoadReserved(x[I.rs1], Load(mem, x[I.rs1], 4).arg)
                  \/ StoreConditional(x[I.rs1], Load(mem, x[I.rs1], 4).arg)
  BY StepShape DEF Retire, Fail, StoreFrom, Amo, SystemMiscMem, CsrAccess, CEbreakJalrAdd

(* The host acts only while no instruction executes.                       *)
LEMMA HostNotExecuting == Host => ~Executing
  BY DEF Host, Executing, Idle, CallRun, CallStep, Interrupt, Syscall, SyscallAsync,
     PollAsync, CompleteAsync, DropAsync, Reset, SetPc, SetRegisters, SetLimit, HostCsr,
     HostStore

-----------------------------------------------------------------------------
(* The history variables only watch                                        *)

(* The host acts only while no instruction executes, whatever it calls.    *)
LEMMA OwnerNotExecuting == AnyNext => HStep \/ ~Executing
  BY DEF AnyNext, HCall, HReset, HOther, HAssign, HInterrupt, HHostCsr, Executing, Idle,
     CallRun, CallStep, Interrupt, Syscall, SyscallAsync, PollAsync, CompleteAsync,
     DropAsync, Reset, SetPc, SetRegisters, SetLimit, HostCsr, HostStore

(* The hosts of HSpec, which choose from the constants, are among those of *)
(* AnySpec.                                                                *)
LEMMA HNextIsAny == HNext => AnyNext
  BY HostAssumption DEF HNext, AnyNext

(* So whatever is proved of AnySpec holds for every host of the model: it  *)
(* calls any method in any order and assigns the public fields.            *)
THEOREM HostIsAnOwner == HSpec => AnySpec
  BY HNextIsAny, PTL DEF HSpec, AnySpec

(* TypeOK is inductive under any owner.                                    *)
LEMMA AnyNextType == TypeOK /\ [AnyNext]_hvars => TypeOK'
  <1> SUFFICES ASSUME TypeOK, [AnyNext]_hvars PROVE TypeOK'
    OBVIOUS
  <1>1. CASE HStep
    BY <1>1, StepType DEF HStep
  <1>2. CASE HCall \/ HReset \/ HOther
    <2>1. Host
      BY <1>2 DEF HCall, HReset, HOther, Host
    <2> QED
      BY <2>1, HostType
  <1>3. CASE HAssign
    BY <1>3 DEF HAssign, TypeOK
  <1>4. CASE \E v \in Word : HInterrupt(v)
    BY <1>4, InterruptType DEF HInterrupt
  <1>5. CASE \E o \in CsrOp \X CsrName, v \in Word : HHostCsr(o[1], v, o[2])
    BY <1>5, HostCsrType DEF HHostCsr
  <1>6. CASE UNCHANGED hvars
    BY <1>6 DEF hvars, vars, TypeOK
  <1> QED
    BY <1>1, <1>2, <1>3, <1>4, <1>5, <1>6 DEF AnyNext

(* Type correctness under any owner.                                       *)
THEOREM AnyTypeCorrect == AnySpec => []TypeOK
  BY InitType, AnyNextType, PTL DEF AnySpec, HInit

-----------------------------------------------------------------------------
(* Traps                                                                   *)

\* The part of the CSRs that makes up a trap frame.
FrameHolds(c, p) == ~c.MIE /\ c.MPIE /\ (p % 2 = 0 => c.mepc = p)

(* operation(): an access that does not write mepc or mstatus, and a read  *)
(* of those two, which writes the masked value back, keeps the frame.      *)
LEMMA OperationKeepsFrame ==
  ASSUME NEW c \in CsrFile, NEW op \in CsrOp, NEW v, NEW a \in CsrName, NEW p,
         a \in {"mepc", "mstatus"} => op = "none",
         FrameHolds(c, p)
  PROVE  FrameHolds(Operation(c, op, v, a), p)
  <1> DEFINE new == ExecuteOperation(op, v, CsrRead(c, a))
  <1>1. Operation(c, op, v, a) = CsrWrite(c, a, new)
    BY DEF Operation
  <1>2. CASE a \notin {"mepc", "mstatus"}
    <2>1. /\ CsrWrite(c, a, new).MIE = c.MIE /\ CsrWrite(c, a, new).MPIE = c.MPIE
          /\ CsrWrite(c, a, new).mepc = c.mepc
      BY <1>2 DEF CsrWrite, CsrFile, CsrName
    <2> QED
      BY <1>1, <2>1 DEF FrameHolds
  <1>3. CASE a = "mepc"
    <2>1. new = c.mepc
      BY <1>3 DEF ExecuteOperation, CsrRead
    <2>2. CsrWrite(c, a, new) = [c EXCEPT !.mepc = ClearLow(c.mepc, 2)]
      BY <1>3, <2>1 DEF CsrWrite
    <2>3. p % 2 = 0 => ClearLow(c.mepc, 2) = p
      <3>1. c.mepc \in Nat
        BY WordIsInt DEF CsrFile
      <3> QED
        BY <3>1 DEF FrameHolds, ClearLow
    <2> QED
      BY <1>1, <2>2, <2>3 DEF FrameHolds, CsrFile
  <1>4. CASE a = "mstatus"
    <2>1. new = 128
      BY <1>4 DEF ExecuteOperation, CsrRead, FrameHolds, Flag, MSTATUS_MPIE
    <2>2. ~BitSet(128, 8) /\ BitSet(128, 128)
      BY DEF BitSet
    <2>3. CsrWrite(c, a, new) = [c EXCEPT !.MIE = BitSet(128, 8), !.MPIE = BitSet(128, 128)]
      BY <1>4, <2>1 DEF CsrWrite, MSTATUS_MIE, MSTATUS_MPIE
    <2> QED
      BY <1>1, <2>2, <2>3 DEF FrameHolds, CsrFile
  <1> QED
    BY <1>2, <1>3, <1>4

(* An instruction that does not replace the frame keeps it.                *)
LEMMA StepKeepsFrame ==
  ASSUME TypeOK, Step, ~ReplacesFrame, NEW p, FrameHolds(csr, p)
  PROVE  FrameHolds(csr', p)
  <1>1. CASE ~SystemMiscMem
    BY <1>1, StepKeepsCsr
  <1>2. CASE SystemMiscMem /\ CsrAccess /\ I.csr # "unsupported"
    <2> DEFINE op == CsrInstrOp(I.func, I.rs1)
               v == CsrInstrVal(I.func, I.rs1)
    <2>1. csr' = Operation(csr, op, v, I.csr) /\ I.func \in CsrFunc /\ Decoded("SystemMiscMem")
      BY <1>2 DEF CsrAccess, SystemMiscMem
    <2>2. op \in CsrOp
      BY <2>1 DEF CsrFunc, CsrInstrOp, CsrOp
    <2>3. I.csr \in CsrName /\ csr \in CsrFile
      BY <2>1, OperandTypes DEF Instr, TypeOK
    <2>4. I.csr \in {"mepc", "mstatus"} => op = "none"
      BY <2>1 DEF ReplacesFrame
    <2> HIDE DEF op, v
    <2> QED
      BY <2>1, <2>2, <2>3, <2>4, OperationKeepsFrame
  <1>3. CASE SystemMiscMem /\ ~(CsrAccess /\ I.csr # "unsupported")
    <2>1. UNCHANGED csr
      BY <1>3 DEF SystemMiscMem, CsrAccess, Fail, guest, ReplacesFrame
    <2> QED
      BY <2>1
  <1> QED
    BY <1>1, <1>2, <1>3

(* TrapFrameIntact in terms of FrameHolds.                                 *)
LEMMA FrameDef == TrapFrameIntact <=> \A p \in frame : FrameHolds(csr, p)
  BY DEF TrapFrameIntact, FrameHolds

(* With TypeOK, TrapFrameIntact is inductive: nothing but the handler      *)
(* itself replaces what trap_entry saved.                                  *)
LEMMA FrameInductive == TypeOK /\ TrapFrameIntact /\ [AnyNext]_hvars => TrapFrameIntact'
  <1> SUFFICES ASSUME TypeOK, TrapFrameIntact, [AnyNext]_hvars, NEW p \in frame'
               PROVE  FrameHolds(csr', p)
    BY DEF TrapFrameIntact, FrameHolds
  <1>1. CASE HStep
    <2>1. ~ReplacesFrame /\ p \in frame /\ Step
      BY <1>1 DEF HStep
    <2> QED
      BY <2>1, FrameDef, StepKeepsFrame
  <1>2. CASE HCall \/ HOther \/ HAssign \/ UNCHANGED hvars
    <2>1. UNCHANGED <<csr, frame>>
      BY <1>2 DEF HCall, HOther, HAssign, CallRun, CallStep, Syscall, SyscallAsync, PollAsync,
         CompleteAsync, DropAsync, SetPc, SetRegisters, SetLimit, HostStore, SyscallReturn,
         guest, hvars, vars
    <2> QED
      BY <2>1, FrameDef
  <1>3. CASE HReset
    BY <1>3 DEF HReset
  <1>4. ASSUME NEW v \in Word, HInterrupt(v) PROVE FrameHolds(csr', p)
    <2>1. CASE InterruptEnabled(csr)
      <3>1. p = pc /\ csr' = TrapEntry(SetInterrupt(csr), pc, v) /\ csr.MIE
        BY <1>4, <2>1 DEF HInterrupt, Interrupt, InterruptEnabled
      <3> QED
        BY <3>1 DEF TypeOK, TrapEntry, SetInterrupt, CsrFile, FrameHolds
    <2>2. CASE ~InterruptEnabled(csr)
      BY <1>4, <2>2, FrameDef DEF HInterrupt, Interrupt
    <2> QED
      BY <2>1, <2>2
  <1>5. ASSUME NEW o \in CsrOp \X CsrName, NEW v \in Word, HHostCsr(o[1], v, o[2])
        PROVE  FrameHolds(csr', p)
    <2>1. /\ p \in frame /\ (o[2] \in {"mepc", "mstatus"} => o[1] = "none")
          /\ csr' = IF o[2] = "unsupported" THEN csr ELSE Operation(csr, o[1], v, o[2])
      BY <1>5 DEF HHostCsr, HostCsr
    <2>2. o[1] \in CsrOp /\ o[2] \in CsrName /\ csr \in CsrFile
      BY DEF TypeOK
    <2>3. FrameHolds(csr, p)
      BY <2>1, FrameDef
    <2>4. FrameHolds(Operation(csr, o[1], v, o[2]), p)
      BY <2>1, <2>2, <2>3, OperationKeepsFrame
    <2> QED
      BY <2>1, <2>3, <2>4
  <1> QED
    BY <1>1, <1>2, <1>3, <1>4, <1>5 DEF AnyNext

(* Once interrupt() is accepted, the frame trap_entry saved survives until *)
(* the handler itself replaces it.                                         *)
THEOREM TrapFrame == AnySpec => []TrapFrameIntact
  <1>1. HInit => TrapFrameIntact
    BY DEF HInit, TrapFrameIntact
  <1> QED
    BY <1>1, AnyTypeCorrect, FrameInductive, PTL DEF AnySpec

(* interrupt() and mret: no nesting over an untouched frame, and the mret  *)
(* that closes one resumes the interrupted code with interrupts enabled.   *)
THEOREM TrapReturns == AnySpec => TrapReturnsToInterruptedCode
  <1> DEFINE A == /\ frame' # frame /\ frame' # {} => frame = {}
                  /\ \A p \in frame : (ReplacesFrame /\ I.func = "mret" /\ p % 2 = 0)
                                         => pc' = p /\ csr'.MIE
  <1>1. TypeOK /\ TrapFrameIntact /\ [AnyNext]_hvars => [A]_hvars
    <2> SUFFICES ASSUME TypeOK, TrapFrameIntact, AnyNext PROVE A
      OBVIOUS
    <2>1. frame' # frame /\ frame' # {} => frame = {}
      BY DEF AnyNext, HStep, HCall, HReset, HOther, HAssign, HInterrupt, HHostCsr, InterruptEnabled,
         TrapFrameIntact
    <2>2. ASSUME NEW p \in frame, ReplacesFrame, I.func = "mret", p % 2 = 0
          PROVE  pc' = p /\ csr'.MIE
      <3>1. Decoded("SystemMiscMem") /\ Step
        BY <2>2, OwnerNotExecuting DEF ReplacesFrame, Decoded, HStep
      <3>2. SystemMiscMem
        BY <3>1 DEF Step, Decoded, FetchError, Auipc, Branch, Jal, Jalr, LoadStore, Lui,
           OpImm, OpAmo, CAddi4spn, CLw, CLwsp, CSw, CSwsp, CLi, CLui, CAddi16sp, CAddi,
           CSrli, CSrai, CSlli, CAndi, CSub, CXor, COr, CAnd, CJ, CJal, CBeqz, CBnez,
           CJrMv, CEbreakJalrAdd
      <3>3. pc' = csr.mepc /\ csr' = TrapReturn(csr)
        BY <3>2, <2>2 DEF SystemMiscMem, CsrAccess, StopFunc, CsrFunc
      <3> QED
        BY <3>3, <2>2 DEF TrapFrameIntact, TrapReturn, TypeOK, CsrFile
    <2> QED
      BY <2>1, <2>2
  <1> QED
    BY <1>1, AnyTypeCorrect, TrapFrame, PTL DEF AnySpec, TrapReturnsToInterruptedCode

-----------------------------------------------------------------------------
(* Errors                                                                  *)

(* step() hands an error to its caller only through the arms that return   *)
(* one: an Ok state is no error.                                           *)
LEMMA OkIsNoError ==
  ASSUME Executing, NEW r, Finish(r), r.tag \notin ErrorTag
  PROVE  ~(call' = "idle" /\ last'.tag \in ErrorTag)
  BY DEF Executing, Finish, LoopsAgain, Return

(* The states of State are no errors.                                      *)
LEMMA StateIsNoError == /\ Running.tag \notin ErrorTag
                        /\ Result("Halted", 0).tag \notin ErrorTag
                        /\ \A f \in StopFunc : StopState(f).tag \notin ErrorTag
  BY DEF Running, Result, ErrorTag, StopFunc, StopState

(* A trap to the host is precise: an instruction that ends with an error   *)
(* has changed nothing the guest can observe.                              *)
THEOREM PreciseErrors == AnySpec => ErrorIsPrecise
  <1> DEFINE A == Executing /\ call' = "idle" /\ last'.tag \in ErrorTag => UNCHANGED guest
  <1>1. [AnyNext]_hvars => [A]_hvars
    <2> SUFFICES ASSUME AnyNext, Executing, call' = "idle", last'.tag \in ErrorTag
                 PROVE  UNCHANGED guest
      OBVIOUS
    <2>1. Step
      BY OwnerNotExecuting DEF HStep
    <2>2. ~Finish(Running) /\ ~Finish(Result("Halted", 0))
      BY OkIsNoError, StateIsNoError
    <2>3. CASE \E t, r : Retire(t, r)
      BY <2>2, <2>3 DEF Retire
    <2>4. CASE \E r : Fail(r)
      BY <2>4 DEF Fail
    <2>5. CASE \E r, f, a, size : StoreFrom(r, f, a, size)
      BY <2>2, <2>5 DEF StoreFrom, Fail
    <2>6. CASE \E a, old : LoadReserved(a, old) \/ StoreConditional(a, old) \/ Amo(a, old)
      BY <2>2, <2>6 DEF LoadReserved, StoreConditional, Amo, Fail, guest
    <2>7. CASE SystemMiscMem
      <3>1. \A f \in StopFunc : ~Finish(StopState(f))
        BY OkIsNoError, StateIsNoError
      <3> QED
        BY <2>2, <2>7, <3>1 DEF SystemMiscMem, CsrAccess, Fail
    <2>8. CASE CEbreakJalrAdd
      BY <2>2, <2>8 DEF CEbreakJalrAdd, Retire
    <2> QED
      BY <2>1, <2>3, <2>4, <2>5, <2>6, <2>7, <2>8, StepShape
  <1> QED
    BY <1>1, PTL DEF AnySpec, ErrorIsPrecise

-----------------------------------------------------------------------------
(* The instruction limit                                                   *)

(* run(): what is executed and what is left of the loop make up the limit. *)
LimitSplit == /\ executed \in Nat
              /\ call = "run" /\ limit > 0 => budget >= 1 /\ executed + budget = limit

(* Every instruction ends by going round the loop of run() or returning.   *)
LEMMA StepFinishes == Step => \E r : Finish(r)
  <1> SUFFICES ASSUME Step PROVE \E r : Finish(r)
    OBVIOUS
  <1> QED
    BY StepShape DEF Retire, Fail, StoreFrom, LoadReserved, StoreConditional, Amo,
       SystemMiscMem, CsrAccess, CEbreakJalrAdd

(* The loop of run() keeps LimitSplit, and every call starts with it.      *)
LEMMA LimitInductive == TypeOK /\ LimitSplit /\ [AnyNext]_hvars => LimitSplit'
  <1> SUFFICES ASSUME TypeOK, LimitSplit, [AnyNext]_hvars PROVE LimitSplit'
    OBVIOUS
  <1>1. limit \in Nat /\ budget \in Nat
    BY DEF TypeOK
  <1>2. CASE HStep
    <2>1. PICK r : Finish(r)
      BY <1>2, StepFinishes DEF HStep
    <2> QED
      BY <1>1, <1>2, <2>1 DEF HStep, Finish, LoopsAgain, Return, LimitSplit
  <1>3. CASE HCall
    BY <1>1, <1>3 DEF HCall, CallRun, CallStep, LimitSplit
  <1>4. CASE HReset \/ HOther \/ HAssign \/ UNCHANGED hvars
    <2>1. UNCHANGED executed /\ (call' # "run" \/ UNCHANGED <<call, limit, budget>>)
      BY <1>4 DEF HReset, HOther, HAssign, Idle, Reset, Syscall, SyscallAsync, PollAsync,
         CompleteAsync, DropAsync, SetPc, SetRegisters, SetLimit, HostStore, SyscallReturn,
         Return, hvars, vars
    <2> QED
      BY <2>1 DEF LimitSplit
  <1>5. CASE \E v \in Word : HInterrupt(v)
    BY <1>5 DEF HInterrupt, Interrupt, Return, LimitSplit
  <1>6. CASE \E o \in CsrOp \X CsrName, v \in Word : HHostCsr(o[1], v, o[2])
    BY <1>6 DEF HHostCsr, HostCsr, LimitSplit
  <1> QED
    BY <1>2, <1>3, <1>4, <1>5, <1>6 DEF AnyNext

(* run() executes at most instruction_limit instructions and yields        *)
(* Ok(Running) after exactly that many.                                    *)
THEOREM LimitRespected == AnySpec => RunRespectsLimit
  <1> DEFINE A == call = "run" /\ limit > 0 =>
                    /\ executed < limit
                    /\ call' = "idle" /\ last'.tag = "Running" => executed' = limit
  <1>1. HInit => LimitSplit
    BY DEF HInit, Init, LimitSplit
  <1>2. TypeOK /\ LimitSplit /\ [AnyNext]_hvars => [A]_hvars
    <2> SUFFICES ASSUME TypeOK, LimitSplit, AnyNext, call = "run", limit > 0
                 PROVE  /\ executed < limit
                        /\ call' = "idle" /\ last'.tag = "Running" => executed' = limit
      OBVIOUS
    <2>1. limit \in Nat /\ budget \in Nat /\ executed \in Nat /\ executed + budget = limit
          /\ budget >= 1
      BY DEF TypeOK, LimitSplit
    <2>2. HStep
      BY OwnerNotExecuting DEF Executing
    <2>3. PICK r : Finish(r)
      BY <2>2, StepFinishes DEF HStep
    <2>4. executed' = executed + 1
      BY <2>1, <2>2 DEF HStep
    <2>5. call' = "idle" /\ last'.tag = "Running" => budget <= 1
      BY <2>1, <2>3 DEF Finish, LoopsAgain, Return
    <2> QED
      BY <2>1, <2>4, <2>5
  <1> QED
    BY <1>1, <1>2, AnyTypeCorrect, LimitInductive, PTL DEF AnySpec, RunRespectsLimit

-----------------------------------------------------------------------------
(* The reservation                                                         *)

(* memory_reservation always is the last LR, unless an SC or reset() came  *)
(* after it.                                                               *)
ReservationIsLr == reservation = lr

(* The decoded opcode selects its handler (decode_instruction!).           *)
LEMMA DispatchAmo == ASSUME Step, Decoded("OpAmo") PROVE OpAmo
  BY DEF Step, Decoded, FetchError, Auipc, Branch, Jal, Jalr, LoadStore, Lui, OpImm,
     SystemMiscMem, CAddi4spn, CLw, CLwsp, CSw, CSwsp, CLi, CLui, CAddi16sp, CAddi, CSrli,
     CSrai, CSlli, CAndi, CSub, CXor, COr, CAnd, CJ, CJal, CBeqz, CBnez, CJrMv,
     CEbreakJalrAdd

(* An LR or SC whose load succeeds reaches its arm of op_amo.rs.           *)
LEMMA DispatchLrSc ==
  ASSUME Step, IsLr \/ IsSc
  PROVE  LET a == x[I.rs1]
             old == Load(mem, a, 4).arg
         IN  /\ IsLr => LoadReserved(a, old)
             /\ IsSc => StoreConditional(a, old)
  <1>1. OpAmo /\ Load(mem, x[I.rs1], 4).tag = "Ok" /\ I.func \in {"lr", "sc"}
    BY DispatchAmo DEF IsLr, IsSc
  <1>2. I.func \notin AluFunc /\ I.func \notin AmoFunc /\ I.func # "invalid"
    BY <1>1 DEF AluFunc, AmoFunc
  <1> QED
    BY <1>1, <1>2 DEF OpAmo, IsLr, IsSc, LoadReserved, StoreConditional, Amo

(* ReservationIsLr is inductive.                                           *)
LEMMA ReservationInductive == ReservationIsLr /\ [AnyNext]_hvars => ReservationIsLr'
  <1> SUFFICES ASSUME ReservationIsLr, [AnyNext]_hvars PROVE reservation' = lr'
    BY DEF ReservationIsLr
  <1>1. reservation = lr
    BY DEF ReservationIsLr
  <1>2. CASE HStep
    <2>1. CASE IsLr
      <3>1. lr' = {<<x[I.rs1], Load(mem, x[I.rs1], 4).arg>>}
        BY <1>2, <2>1 DEF HStep, IsLr, IsSc
      <3>2. LoadReserved(x[I.rs1], Load(mem, x[I.rs1], 4).arg)
        BY <1>2, <2>1, DispatchLrSc DEF HStep
      <3> QED
        BY <3>1, <3>2 DEF LoadReserved
    <2>2. CASE IsSc
      <3>1. ~IsLr
        BY <2>2 DEF IsLr, IsSc
      <3> QED
        BY <1>2, <2>2, <3>1, DispatchLrSc DEF HStep, StoreConditional
    <2>3. CASE ~IsLr /\ ~IsSc
      <3>1. lr' = lr
        BY <1>2, <2>3 DEF HStep
      <3>2. reservation' = reservation
        <4> SUFFICES ASSUME reservation' # reservation PROVE FALSE
          OBVIOUS
        <4>1. OpAmo /\ \/ LoadReserved(x[I.rs1], Load(mem, x[I.rs1], 4).arg)
                       \/ StoreConditional(x[I.rs1], Load(mem, x[I.rs1], 4).arg)
          BY <1>2, StepKeepsReservation DEF HStep
        <4>2. I.func \in {"lr", "sc"} /\ I.func \notin AluFunc
          BY <4>1 DEF LoadReserved, StoreConditional, AluFunc
        <4>3. Load(mem, x[I.rs1], 4).tag # "Ok"
          BY <4>1, <4>2, <2>3 DEF OpAmo, IsLr, IsSc
        <4> QED
          BY <4>1, <4>2, <4>3 DEF OpAmo, Fail
      <3> QED
        BY <1>1, <3>1, <3>2
    <2> QED
      BY <2>1, <2>2, <2>3
  <1>3. CASE HCall \/ HOther \/ HAssign \/ UNCHANGED hvars
    BY <1>1, <1>3 DEF HCall, HOther, HAssign, CallRun, CallStep, Syscall, SyscallAsync, PollAsync,
       CompleteAsync, DropAsync, SetPc, SetRegisters, SetLimit, HostStore, SyscallReturn,
       hvars, vars
  <1>4. CASE HReset
    BY <1>4 DEF HReset, Reset
  <1>5. CASE \E v \in Word : HInterrupt(v)
    BY <1>1, <1>5 DEF HInterrupt, Interrupt
  <1>6. CASE \E o \in CsrOp \X CsrName, v \in Word : HHostCsr(o[1], v, o[2])
    BY <1>1, <1>6 DEF HHostCsr, HostCsr
  <1> QED
    BY <1>2, <1>3, <1>4, <1>5, <1>6 DEF AnyNext

(* LR/SC: a store-conditional succeeds exactly after a matching LR whose   *)
(* value is still in memory.                                               *)
THEOREM ScExact == AnySpec => ScSucceedsExactlyAfterLr
  <1> DEFINE A == IsSc /\ pc' # pc =>
                    LET a == x[I.rs1]
                        ok == lr = {<<a, Load(mem, a, 4).arg>>}
                    IN  /\ I.rd # 0 => x'[I.rd] = IF ok THEN 0 ELSE 1
                        /\ mem' = IF ok THEN Stored(mem, a, 4, x[I.rs2]) ELSE mem
  <1>1. HInit => ReservationIsLr
    BY DEF HInit, Init, ReservationIsLr
  <1>2. TypeOK /\ ReservationIsLr /\ [AnyNext]_hvars => [A]_hvars
    <2> SUFFICES ASSUME TypeOK, ReservationIsLr, AnyNext, IsSc, pc' # pc PROVE A
      BY DEF hvars, vars
    <2> DEFINE a == x[I.rs1]
               old == Load(mem, a, 4).arg
    <2>1. Step
      BY OwnerNotExecuting DEF HStep, IsSc, Decoded
    <2>2. StoreConditional(a, old)
      BY <2>1, DispatchLrSc
    <2>3. I.rd \in Reg /\ x \in [Reg -> Word]
      BY OperandTypes DEF IsSc, TypeOK
    <2>4. reservation = lr
      BY DEF ReservationIsLr
    <2> HIDE DEF a, old
    <2>5. CASE lr = {<<a, old>>}
      <3>1. mem' = Stored(mem, a, 4, x[I.rs2]) /\ x' = WriteRd(I.rd, 0)
        BY <2>2, <2>4, <2>5 DEF StoreConditional
      <3> QED
        BY <3>1, <2>3, <2>5 DEF WriteRd, WriteReg, a, old
    <2>6. CASE lr # {<<a, old>>}
      <3>1. mem' = mem /\ x' = WriteRd(I.rd, 1)
        BY <2>2, <2>4, <2>6 DEF StoreConditional
      <3> QED
        BY <3>1, <2>3, <2>6 DEF WriteRd, WriteReg, a, old
    <2> QED
      BY <2>5, <2>6
  <1> QED
    BY <1>1, <1>2, AnyTypeCorrect, ReservationInductive, PTL DEF AnySpec,
       ScSucceedsExactlyAfterLr

-----------------------------------------------------------------------------
(* Compressed instructions                                                 *)

(* The decoded opcode selects its handler (decode_instruction!), here the  *)
(* compressed ones.                                                        *)
LEMMA DispatchCompressed ==
  ASSUME Step, Executing, Fetch.tag = "Ok"
  PROVE  /\ I.op = "CAddi4spn" => CAddi4spn
         /\ I.op = "CLw" => CLw
         /\ I.op = "CLwsp" => CLwsp
         /\ I.op = "CSw" => CSw
         /\ I.op = "CSwsp" => CSwsp
         /\ I.op = "CLi" => CLi
         /\ I.op = "CLui" => CLui
         /\ I.op = "CAddi16sp" => CAddi16sp
         /\ I.op = "CAddi" => CAddi
         /\ I.op = "CSrli" => CSrli
         /\ I.op = "CSrai" => CSrai
         /\ I.op = "CSlli" => CSlli
         /\ I.op = "CAndi" => CAndi
         /\ I.op = "CSub" => CSub
         /\ I.op = "CXor" => CXor
         /\ I.op = "COr" => COr
         /\ I.op = "CAnd" => CAnd
         /\ I.op = "CJ" => CJ
         /\ I.op = "CJal" => CJal
         /\ I.op = "CBeqz" => CBeqz
         /\ I.op = "CBnez" => CBnez
         /\ I.op = "CJrMv" => CJrMv
         /\ I.op = "CEbreakJalrAdd" => CEbreakJalrAdd
  BY DEF Step, Decoded, FetchError, Auipc, Branch, Jal, Jalr, LoadStore, Lui, OpImm, OpAmo,
     SystemMiscMem, CAddi4spn, CLw, CLwsp, CSw, CSwsp, CLi, CLui, CAddi16sp, CAddi, CSrli,
     CSrai, CSlli, CAndi, CSub, CXor, COr, CAnd, CJ, CJal, CBeqz, CBnez, CJrMv,
     CEbreakJalrAdd

AluImmOps == {"CAddi", "CSrli", "CSrai", "CSlli", "CAndi"}
AluRegOps == {"CSub", "CXor", "COr", "CAnd"}
CompressedOps == AluImmOps \cup AluRegOps \cup
  {"CAddi4spn", "CLw", "CLwsp", "CSw", "CSwsp", "CLi", "CLui", "CAddi16sp", "CJ", "CJal",
   "CBeqz", "CBnez", "CJrMv", "CEbreakJalrAdd"}

(* The opcodes without a function are the compressed ones and four others. *)
LEMMA CompressedIsOp == ASSUME TypeOK, IsCompressed PROVE I.op \in CompressedOps
  <1>1. I \in Instr /\ I.func \in FuncOf(I.op) /\ I.func = "none"
    BY FetchType DEF IsCompressed
  <1>2. I.op \in Opcode \ {"Auipc", "Lui", "Jal", "Jalr"}
    BY <1>1 DEF Instr, IsCompressed
  <1>3. I.op \notin {"Branch", "LoadStore", "OpImm", "OpAmo", "SystemMiscMem"}
    BY <1>1, FuncTypes DEF BranchFunc, LoadFunc, StoreFunc, ImmFunc, AluFunc, AtomicFunc, AmoFunc,
       StopFunc, CsrFunc
  <1> QED
    BY <1>2, <1>3 DEF Opcode, CompressedOps, AluImmOps, AluRegOps

(* An instruction that ends with an error or halts is none that completes. *)
LEMMA CompletesOrStops ==
  ASSUME NEW r, Finish(r), r.tag \in ErrorTag \cup {"Halted"}
  PROVE  Ends
  BY DEF Finish, LoopsAgain, Return, Ends, ErrorTag

(* The step of a compressed instruction is that of its expansion.          *)
Matches(after) == /\ pc' = after.pc /\ mem' = after.mem
                  /\ \A r \in Reg \ {0} : x'[r] = after.x[r]

(* rd = f(rd, imm) and rd = f(rd, rs2): addi.rs, srli.rs, and.rs, ...      *)
LEMMA AluMatches ==
  ASSUME TypeOK, Step, Executing, Fetch.tag = "Ok", I.op \in AluImmOps \cup AluRegOps
  PROVE  Matches(Effect(Expansion(I), 2))
  <1>1. \E f, v : /\ CompressedAlu(f, v)
                  /\ Effect(Expansion(I), 2) = After(WriteRd(I.rd, AluOp(f, x[I.rd], v)), Wrap(pc + 2), mem)
    <2>1. CASE I.op \in AluImmOps
      <3>1. PICK f \in {"add", "srl", "sra", "sll", "and"} :
              CompressedAlu(f, I.imm) /\ Expansion(I) = Base("OpImm", f, I.rd, I.rd, 0, I.imm)
        BY <2>1, DispatchCompressed DEF AluImmOps, Expansion, CAddi, CSrli, CSrai, CSlli, CAndi
      <3> QED
        BY <3>1 DEF Effect, Base
    <2>2. CASE I.op \in AluRegOps
      <3>1. PICK f \in {"sub", "xor", "or", "and"} :
              CompressedAlu(f, x[I.rs2]) /\ Expansion(I) = Base("OpAmo", f, I.rd, I.rd, I.rs2, 0)
        BY <2>2, DispatchCompressed DEF AluRegOps, Expansion, CSub, CXor, COr, CAnd
      <3> QED
        BY <3>1 DEF Effect, Base
    <2> QED
      BY <2>1, <2>2
  <1> QED
    BY <1>1 DEF CompressedAlu, Retire, Matches, After

(* c.addi4spn, c.li, c.lui and c.addi16sp.                                 *)
LEMMA ImmediateMatches ==
  ASSUME TypeOK, Step, Executing, Fetch.tag = "Ok", x[0] = 0, ~Ends,
         I.op \in {"CAddi4spn", "CLi", "CLui", "CAddi16sp"}
  PROVE  Matches(Effect(Expansion(I), 2))
  <1>1. /\ I.rd \in Reg /\ I.imm \in Word /\ SP \in Reg /\ 0 \in Reg /\ I.imm \in Nat /\ I.imm < MOD
        /\ \A r \in Reg : x[r] \in Word
    BY OperandTypes, WordIsInt DEF Decoded, Reg
  <1>2. x \in [Reg -> Word] /\ 0 \in Word
    BY SmallWords DEF TypeOK
  <1>3. CASE I.op = "CAddi4spn"
    <2>1. Retire(pc + 2, WriteReg(I.rd, Wrap(x[SP] + I.imm)))
      <3>1. CAddi4spn
        BY <1>3, DispatchCompressed
      <3>2. ~Fail(Result("IllegalInstruction", pc))
        BY CompletesOrStops DEF Fail, Result, ErrorTag
      <3> QED
        BY <3>1, <3>2 DEF CAddi4spn
    <2>2. Expansion(I) = Base("OpImm", "add", I.rd, SP, 0, I.imm)
      BY <1>3 DEF Expansion
    <2>3. Effect(Expansion(I), 2) = After(WriteRd(I.rd, Wrap(x[SP] + I.imm)), Wrap(pc + 2), mem)
      BY <1>1, <2>2, AluAssumption DEF Effect, Base
    <2> QED
      BY <1>1, <1>2, <2>1, <2>3 DEF Retire, Matches, After, WriteRd, WriteReg
  <1>4. CASE I.op = "CLi"
    <2>1. Retire(pc + 2, WriteRd(I.rd, I.imm))
      BY <1>4, DispatchCompressed DEF CLi
    <2>2. Expansion(I) = Base("OpImm", "add", I.rd, 0, 0, I.imm)
      BY <1>4 DEF Expansion
    <2>3. AluOp("add", x[0], I.imm) = I.imm
      <3>1. AluOp("add", x[0], I.imm) = Wrap(0 + I.imm)
        BY <1>1, <1>2, AluAssumption
      <3> QED
        BY <1>1, <3>1, WrapId
    <2>4. Effect(Expansion(I), 2) = After(WriteRd(I.rd, I.imm), Wrap(pc + 2), mem)
      BY <2>2, <2>3 DEF Effect, Base
    <2> QED
      BY <2>1, <2>4 DEF Retire, Matches, After
  <1>5. CASE I.op = "CLui"
    <2>1. Retire(pc + 2, WriteRd(I.rd, I.imm))
      BY <1>5, DispatchCompressed DEF CLui
    <2>2. Expansion(I) = Base("Lui", "none", I.rd, 0, 0, I.imm)
      BY <1>5 DEF Expansion
    <2>3. Effect(Expansion(I), 2) = After(WriteRd(I.rd, I.imm), Wrap(pc + 2), mem)
      BY <2>2 DEF Effect, Base
    <2> QED
      BY <2>1, <2>3 DEF Retire, Matches, After
  <1>6. CASE I.op = "CAddi16sp"
    <2>1. Retire(pc + 2, WriteReg(SP, Wrap(x[SP] + I.imm)))
      BY <1>6, DispatchCompressed DEF CAddi16sp
    <2>2. Expansion(I) = Base("OpImm", "add", SP, SP, 0, I.imm)
      BY <1>6 DEF Expansion
    <2>3. Effect(Expansion(I), 2) = After(WriteRd(SP, Wrap(x[SP] + I.imm)), Wrap(pc + 2), mem)
      BY <1>1, <2>2, AluAssumption DEF Effect, Base
    <2> QED
      BY <1>1, <1>2, <2>1, <2>3 DEF Retire, Matches, After, WriteRd, WriteReg, SP
  <1> QED
    BY <1>3, <1>4, <1>5, <1>6

(* c.lw, c.lwsp, c.sw and c.swsp.                                          *)
LEMMA MemoryMatches ==
  ASSUME TypeOK, Step, Executing, Fetch.tag = "Ok", ~Ends,
         I.op \in {"CLw", "CLwsp", "CSw", "CSwsp"}
  PROVE  Matches(Effect(Expansion(I), 2))
  <1>1. /\ I.rd \in Reg /\ I.rs1 \in Reg /\ I.rs2 \in Reg /\ SP \in Reg
        /\ \A r \in Reg : Wrap(x[r] + I.imm) \in Word
    BY OperandTypes, WrapType DEF Decoded
  <1>2. x \in [Reg -> Word] /\ mem \in Memory /\ 4 \in AccessSize
    BY DEF TypeOK, AccessSize
  <1>3. CASE I.op \in {"CLw", "CLwsp"}
    <2>1. PICK s \in Reg : /\ LoadTo(I.rd, "lw", Wrap(x[s] + I.imm), 2)
                           /\ Expansion(I) = Base("LoadStore", "lw", I.rd, s, 0, I.imm)
      BY <1>1, <1>3, DispatchCompressed DEF CLw, CLwsp, Expansion
    <2> DEFINE a == Wrap(x[s] + I.imm)
               got == Load(mem, a, 4)
    <2>2. got.tag # "Ok" => ~Fail(got)
      <3>1. got.tag \in {"Ok", "InvalidMemoryAddress", "InvalidMemoryAccessLength"}
        BY <1>1, <1>2, LoadType
      <3> QED
        BY <3>1, CompletesOrStops DEF Fail, ErrorTag
    <2>3. Retire(pc + 2, WriteReg(I.rd, got.arg))
      BY <2>1, <2>2 DEF LoadTo, LoadWidth, Extend
    <2>4. Effect(Expansion(I), 2) = After(WriteRd(I.rd, got.arg), Wrap(pc + 2), mem)
      BY <2>1 DEF Effect, Base
    <2> HIDE DEF got
    <2> QED
      BY <1>1, <1>2, <2>3, <2>4 DEF Retire, Matches, After, WriteRd, WriteReg
  <1>4. CASE I.op \in {"CSw", "CSwsp"}
    <2>1. PICK s \in Reg, r \in Reg :
             /\ StoreFrom(r, "sw", Wrap(x[s] + I.imm), 2)
             /\ Expansion(I) = Base("LoadStore", "sw", r, s, 0, I.imm)
      BY <1>1, <1>4, DispatchCompressed DEF CSw, CSwsp, Expansion
    <2> DEFINE a == Wrap(x[s] + I.imm)
    <2>2. Store(a, 4).tag # "Ok" => ~Fail(Store(a, 4))
      <3>1. Store(a, 4).tag # "Ok" => Store(a, 4).tag \in ErrorTag
        BY <1>1, <1>2, StoreType DEF ErrorTag
      <3> QED
        BY <3>1, CompletesOrStops DEF Fail
    <2>3. mem' = Stored(mem, a, 4, x[r]) /\ pc' = Wrap(pc + 2) /\ x' = x
      BY <2>1, <2>2 DEF StoreFrom, LoadWidth
    <2>4. Effect(Expansion(I), 2) = After(x, Wrap(pc + 2), Stored(mem, a, 4, x[r]))
      BY <2>1 DEF Effect, Base
    <2> QED
      BY <2>3, <2>4 DEF Matches, After
  <1> QED
    BY <1>3, <1>4

(* c.j, c.jal, c.beqz and c.bnez.                                          *)
LEMMA JumpMatches ==
  ASSUME TypeOK, Step, Executing, Fetch.tag = "Ok", x[0] = 0,
         I.op \in {"CJ", "CJal", "CBeqz", "CBnez"}
  PROVE  Matches(Effect(Expansion(I), 2))
  <1>1. CASE I.op = "CJ"
    <2>1. Retire(pc + I.imm, x)
      BY <1>1, DispatchCompressed DEF CJ
    <2>2. Expansion(I) = Base("Jal", "none", 0, 0, 0, I.imm)
      BY <1>1 DEF Expansion
    <2>3. Effect(Expansion(I), 2) = After(x, Wrap(pc + I.imm), mem)
      BY <2>2 DEF Effect, Base, WriteRd
    <2> QED
      BY <2>1, <2>3 DEF Retire, Matches, After
  <1>2. CASE I.op = "CJal"
    <2>1. Retire(pc + I.imm, WriteReg(RA, Wrap(pc + 2)))
      BY <1>2, DispatchCompressed DEF CJal
    <2>2. Expansion(I) = Base("Jal", "none", RA, 0, 0, I.imm)
      BY <1>2 DEF Expansion
    <2>3. Effect(Expansion(I), 2) = After(WriteReg(RA, Wrap(pc + 2)), Wrap(pc + I.imm), mem)
      BY <2>2 DEF Effect, Base, WriteRd, RA
    <2> QED
      BY <2>1, <2>3 DEF Retire, Matches, After
  <1>3. CASE I.op \in {"CBeqz", "CBnez"}
    <2>1. PICK f \in {"beq", "bne"} :
             /\ Retire(IF BranchTaken(f, x[I.rs1], 0) THEN pc + I.imm ELSE pc + 2, x)
             /\ Expansion(I) = Base("Branch", f, 0, I.rs1, 0, I.imm)
      BY <1>3, DispatchCompressed DEF CBeqz, CBnez, Expansion, BranchTaken
    <2>2. Effect(Expansion(I), 2) =
            After(x, IF BranchTaken(f, x[I.rs1], 0) THEN Wrap(pc + I.imm) ELSE Wrap(pc + 2), mem)
      BY <2>1 DEF Effect, Base
    <2> QED
      BY <2>1, <2>2 DEF Retire, Matches, After
  <1> QED
    BY <1>1, <1>2, <1>3

(* c.jr, c.mv, c.jalr and c.add.                                           *)
LEMMA RegisterMatches ==
  ASSUME TypeOK, Step, Executing, Fetch.tag = "Ok", x[0] = 0, ~Ends,
         I.op \in {"CJrMv", "CEbreakJalrAdd"}
  PROVE  Matches(Effect(Expansion(I), 2))
  <1>1. /\ I.rd \in Reg /\ I.rs2 \in Reg /\ RA \in Reg /\ 0 \in Reg /\ pc \in Int
        /\ \A r \in Reg : x[r] \in Word /\ x[r] \in Int
    BY OperandTypes DEF Decoded, Reg
  <1>2. x \in [Reg -> Word]
    BY DEF TypeOK
  <1>3. CASE I.rs2 = 0
    <2>1. CASE I.op = "CJrMv"
      <3>1. Retire(x[I.rd], x)
        BY <1>3, <2>1, DispatchCompressed DEF CJrMv
      <3>2. Expansion(I) = Base("Jalr", "none", 0, I.rd, 0, 0)
        BY <1>3, <2>1 DEF Expansion
      <3>3. Effect(Expansion(I), 2) = After(x, Wrap(x[I.rd]), mem)
        BY <1>1, <3>2 DEF Effect, Base, WriteRd
      <3> QED
        BY <3>1, <3>3 DEF Retire, Matches, After
    <2>2. CASE I.op = "CEbreakJalrAdd"
      <3>1. Retire(x[I.rd], WriteReg(RA, Wrap(pc + 2)))
        <4>1. CEbreakJalrAdd
          BY <2>2, DispatchCompressed
        <4>2. ~Finish(Result("Halted", 0))
          BY CompletesOrStops DEF Result
        <4> QED
          BY <1>3, <4>1, <4>2 DEF CEbreakJalrAdd
      <3>2. Expansion(I) = Base("Jalr", "none", RA, I.rd, 0, 0)
        BY <1>3, <2>2 DEF Expansion
      <3>3. Effect(Expansion(I), 2) = After(WriteReg(RA, Wrap(pc + 2)), Wrap(x[I.rd]), mem)
        BY <1>1, <3>2 DEF Effect, Base, WriteRd, RA
      <3> QED
        BY <3>1, <3>3 DEF Retire, Matches, After
    <2> QED
      BY <2>1, <2>2
  <1>4. CASE I.rs2 # 0
    <2>1. CASE I.op = "CJrMv"
      <3>1. Retire(pc + 2, WriteReg(I.rd, x[I.rs2]))
        BY <1>4, <2>1, DispatchCompressed DEF CJrMv
      <3>2. Expansion(I) = Base("OpAmo", "add", I.rd, 0, I.rs2, 0)
        BY <1>4, <2>1 DEF Expansion
      <3>3. AluOp("add", x[0], x[I.rs2]) = x[I.rs2]
        <4>1. AluOp("add", x[0], x[I.rs2]) = Wrap(x[0] + x[I.rs2])
          BY <1>1, AluAssumption
        <4>2. x[0] + x[I.rs2] = x[I.rs2]
          BY <1>1
        <4> QED
          BY <1>1, <4>1, <4>2, WrapId
      <3>4. Effect(Expansion(I), 2) = After(WriteRd(I.rd, x[I.rs2]), Wrap(pc + 2), mem)
        BY <3>2, <3>3 DEF Effect, Base
      <3> QED
        BY <1>1, <1>2, <3>1, <3>4 DEF Retire, Matches, After, WriteRd, WriteReg
    <2>2. CASE I.op = "CEbreakJalrAdd"
      <3>1. Retire(pc + 2, WriteReg(I.rd, Wrap(x[I.rd] + x[I.rs2])))
        BY <1>4, <2>2, DispatchCompressed DEF CEbreakJalrAdd
      <3>2. Expansion(I) = Base("OpAmo", "add", I.rd, I.rd, I.rs2, 0)
        BY <1>4, <2>2 DEF Expansion
      <3>3. Effect(Expansion(I), 2) =
              After(WriteRd(I.rd, Wrap(x[I.rd] + x[I.rs2])), Wrap(pc + 2), mem)
        BY <1>1, <3>2, AluAssumption DEF Effect, Base
      <3> QED
        BY <1>1, <1>2, <3>1, <3>3 DEF Retire, Matches, After, WriteRd, WriteReg
    <2> QED
      BY <2>1, <2>2
  <1> QED
    BY <1>3, <1>4

(* Every compressed instruction that completes does what the 32-bit        *)
(* instruction does that it stands for, under any owner.                   *)
THEOREM CompressedExpands == AnySpec => CompressedMatchesExpansion
  <1> DEFINE A == IsCompressed /\ x[0] = 0 /\ ~Ends =>
                    LET after == Effect(Expansion(I), 2)
                    IN  /\ pc' = after.pc /\ mem' = after.mem
                        /\ \A r \in Reg \ {0} : x'[r] = after.x[r]
  <1>1. TypeOK /\ [AnyNext]_hvars => [A]_hvars
    <2> SUFFICES ASSUME TypeOK, AnyNext, IsCompressed, x[0] = 0, ~Ends
                 PROVE  Matches(Effect(Expansion(I), 2))
      BY DEF Matches
    <2>1. Step /\ Executing /\ Fetch.tag = "Ok"
      BY OwnerNotExecuting DEF HStep, IsCompressed
    <2> QED
      BY <2>1, CompressedIsOp, AluMatches, ImmediateMatches, MemoryMatches, JumpMatches,
         RegisterMatches DEF CompressedOps
  <1> QED
    BY <1>1, AnyTypeCorrect, PTL DEF AnySpec, CompressedMatchesExpansion

=============================================================================
