----------------------------- MODULE Interpreter -----------------------------
(***************************************************************************)
(* The Embive interpreter (interpreter.rs and decode_execute/): one        *)
(* interpreter, its memory, and the host that owns it.                     *)
(*                                                                         *)
(* Every method takes &mut self, so nothing runs beside a call; but a call *)
(* of run() executes many instructions and an asynchronous system call     *)
(* stays pending across polls, so both are modelled as sequences of steps  *)
(* during which the host can do nothing else with the interpreter.         *)
(* Between calls the host may call any method in any order and assign the  *)
(* public fields.                                                          *)
(*                                                                         *)
(* Instruction words are opaque: Decode gives the fields that              *)
(* decode_instruction! and from_embive extract from each word.             *)
(***************************************************************************)
EXTENDS SliceMemory, CSRegisters

CONSTANTS Decode,          \* word |-> decoded instruction
          Programs,        \* code images the interpreter may be created with
          InitRams,        \* RAM images it may be created with
          Limits,          \* instruction limits the host chooses from
          HostValues,      \* words the host passes in (results, mtval, CSRs)
          HostPcs,         \* values the host assigns to program_counter
          HostRegisters,   \* register files it assigns to registers.cpu
          HostCsrOps,      \* <<op, csr>> it passes to control_status.operation
          HostStores,      \* <<address, size>> of the stores it performs
          HostCalls        \* other methods it uses: "step", "async", "reset"

Reg == 0..31
RA == 1
SP == 2
A0 == 10
A1 == 11

Opcode == {"CAddi4spn", "CLw", "CSw", "CAddi", "CJal", "CLi", "CAddi16sp", "CLui",
           "CSrli", "CSrai", "CAndi", "CSub", "CXor", "COr", "CAnd", "CJ", "CBeqz",
           "CBnez", "CSlli", "CLwsp", "CJrMv", "CEbreakJalrAdd", "CSwsp", "Auipc",
           "Branch", "Jal", "Jalr", "LoadStore", "Lui", "OpImm", "OpAmo",
           "SystemMiscMem"}

BranchFunc == {"beq", "bne", "blt", "bge", "bltu", "bgeu"}
LoadFunc   == {"lb", "lh", "lw", "lbu", "lhu"}
StoreFunc  == {"sb", "sh", "sw"}
AmoFunc    == {"amoswap", "amoadd", "amoxor", "amoand", "amoor", "amomin", "amomax",
               "amominu", "amomaxu"}
StopFunc   == {"ecall", "ebreak", "fencei", "wfi"}
CsrFunc    == {"csrrw", "csrrs", "csrrc", "csrrwi", "csrrsi", "csrrci"}
ImmFunc    == {"add", "sll", "slt", "sltu", "xor", "srl", "sra", "or", "and"}
AtomicFunc == {"lr", "sc"} \cup AmoFunc

\* The functions each opcode can select.  The field has three bits in TypeI,
\* all eight values of which LoadStore and OpImm define: the error arm of
\* their match is never taken.
FuncOf(op) ==
  CASE op = "Branch"        -> BranchFunc \cup {"invalid"}
    [] op = "LoadStore"     -> LoadFunc \cup StoreFunc
    [] op = "OpImm"         -> ImmFunc
    [] op = "OpAmo"         -> AluFunc \cup AtomicFunc \cup {"invalid"}
    [] op = "SystemMiscMem" -> StopFunc \cup {"mret"} \cup CsrFunc \cup {"invalid"}
    [] OTHER                -> {"none"}

\* rd is the field rd, rd_rs1 or rd_rs2 of the format; register fields have
\* five bits, so cpu.get and cpu.get_mut never fail.
Instr == [op : Opcode, func : STRING, rd : Reg, rs1 : Reg, rs2 : Reg, imm : Word,
          csr : CsrName]

ASSUME DecodeAssumption ==
         /\ Decode \in [Word -> Instr]
         /\ \A w \in Word : Decode[w].func \in FuncOf(Decode[w].op)

ASSUME HostAssumption ==
         /\ Programs \subseteq CodeImage
         /\ InitRams \subseteq RamImage
         /\ Limits \subseteq Nat
         /\ HostValues \subseteq Word
         /\ HostPcs \subseteq Word
         /\ HostRegisters \subseteq [Reg -> Word]
         /\ HostCsrOps \subseteq CsrOp \X CsrName
         /\ HostStores \subseteq Word \X AccessSize

VARIABLES pc,            \* program_counter
          x,             \* registers.cpu
          csr,           \* registers.control_status
          mem,           \* memory
          reservation,   \* memory_reservation: {} or {<<addr, value>>}
          limit,         \* instruction_limit
          call,          \* the call in progress
          budget,        \* iterations left in run()'s loop, when limit > 0
          last           \* what the last call returned

vars == <<pc, x, csr, mem, reservation, limit, call, budget, last>>

\* What the interpreted program can observe.
guest == <<pc, x, csr, mem>>

StateTag == {"Running", "Called", "Waiting", "Halted"}
ErrorTag == {"InvalidMemoryAddress", "InvalidMemoryAccessLength", "InvalidInstruction",
             "InvalidCSRegister", "IllegalInstruction", "InterruptNotEnabled"}
\* "Done" is Ok(()), "HostError" the Err(E) of a system call function,
\* "Dropped" the end of a future that is never polled again.
Outcome == [tag : StateTag \cup ErrorTag \cup {"Done", "HostError", "Dropped"}, arg : Word]

Calls == {"idle", "step", "run", "async"}

TypeOK ==
  /\ pc \in Word
  /\ x \in [Reg -> Word]
  /\ csr \in CsrFile
  /\ mem \in Memory
  /\ reservation \subseteq Word \X Word
  /\ limit \in Nat
  /\ call \in Calls
  /\ budget \in Nat
  /\ last \in Outcome

-----------------------------------------------------------------------------
(* Interpreter::new                                                        *)

Init ==
  /\ pc = 0
  /\ x = [r \in Reg |-> 0]
  /\ csr = DefaultCsr
  /\ \E code \in Programs, ram \in InitRams : mem = [code |-> code, ram |-> ram]
  /\ reservation = {}
  /\ limit \in Limits
  /\ call = "idle"
  /\ budget = 0
  /\ last = Result("Done", 0)

-----------------------------------------------------------------------------
(* step() and the loop of run()                                            *)

Fetch == Load(mem, pc, 4)
I == Decode[Fetch.arg]

Executing == call \in {"step", "run"}
Decoded(op) == Executing /\ Fetch.tag = "Ok" /\ I.op = op

\* Mutants: the limit is not tested; one iteration too many.
LoopsAgain_NoLimit(r)  == call = "run" /\ r.tag = "Running"
LoopsAgain_OffByOne(r) == call = "run" /\ r.tag = "Running" /\ (limit = 0 \/ budget > 0)

\* run() goes round its loop again when step() returned Ok(Running) and the
\* instruction limit, if there is one, is not exhausted.
LoopsAgain(r) == call = "run" /\ r.tag = "Running" /\ (limit = 0 \/ budget > 1)

Return(r) == call' = "idle" /\ budget' = 0 /\ last' = r

\* step() returns r: to the host, or to run().
Finish(r) ==
  /\ \/ /\ LoopsAgain(r)
        /\ budget' = IF limit = 0 THEN 0 ELSE budget - 1
        /\ UNCHANGED <<call, last>>
     \/ ~LoopsAgain(r) /\ Return(r)
  /\ UNCHANGED limit

Running == Result("Running", 0)

\* Mutant: plain addition, without wrap-around.
Retire_NoWrap(target, regs) ==
  pc' = target /\ x' = regs /\ Finish(Running) /\ UNCHANGED <<csr, mem, reservation>>

\* An instruction that ends with Ok(Running) and touches only pc and x.
Retire(target, regs) ==
  /\ pc' = Wrap(target)
  /\ x' = regs
  /\ Finish(Running)
  /\ UNCHANGED <<csr, mem, reservation>>

\* Mutant: the program counter is advanced before the operation is tried.
Fail_Advances(r) == Finish(r) /\ pc' = Wrap(pc + 4) /\ UNCHANGED <<x, csr, mem, reservation>>

\* An instruction that ends with an error before it changed anything.
Fail(r) == Finish(r) /\ UNCHANGED <<guest, reservation>>

\* *cpu.get_mut(r)? = v, and the same under the test `rd != 0`.
WriteReg(r, v) == [x EXCEPT ![r] = v]
WriteRd(r, v)  == IF r = 0 THEN x ELSE WriteReg(r, v)

FetchError == Executing /\ Fetch.tag # "Ok" /\ Fail(Fetch)

-----------------------------------------------------------------------------
(* Loads and stores, shared by the 32-bit and the compressed forms         *)

LoadWidth(f) == IF f \in {"lb", "lbu", "sb"} THEN 1
                ELSE IF f \in {"lh", "lhu", "sh"} THEN 2 ELSE 4

Extend(f, v) == IF f \in {"lb", "lh"} THEN SignExtend(v, LoadWidth(f)) ELSE v

\* The destination is written without a test for x0.
LoadTo(r, f, a, size) ==
  LET got == Load(mem, a, LoadWidth(f))
  IN  \/ got.tag = "Ok" /\ Retire(pc + size, WriteReg(r, Extend(f, got.arg)))
      \/ got.tag # "Ok" /\ Fail(got)

StoreFrom(r, f, a, size) ==
  LET n == LoadWidth(f)
  IN  \/ /\ Store(a, n).tag = "Ok"
         /\ mem' = Stored(mem, a, n, x[r])
         /\ pc' = Wrap(pc + size)
         /\ Finish(Running)
         /\ UNCHANGED <<x, csr, reservation>>
      \/ Store(a, n).tag # "Ok" /\ Fail(Store(a, n))

LoadStore ==
  /\ Decoded("LoadStore")
  /\ LET a == Wrap(x[I.rs1] + I.imm)
     IN  \/ I.func \in LoadFunc /\ LoadTo(I.rd, I.func, a, 4)
         \/ I.func \in StoreFunc /\ StoreFrom(I.rd, I.func, a, 4)

-----------------------------------------------------------------------------
(* Upper immediates, jumps and branches                                    *)

Auipc == Decoded("Auipc") /\ Retire(pc + 4, WriteRd(I.rd, Wrap(pc + I.imm)))
Lui   == Decoded("Lui") /\ Retire(pc + 4, WriteRd(I.rd, I.imm))
Jal   == Decoded("Jal") /\ Retire(pc + I.imm, WriteRd(I.rd, Wrap(pc + 4)))
\* rs1 is read before rd is written; bit 0 of the target is kept.
Jalr  == Decoded("Jalr") /\ Retire(x[I.rs1] + I.imm, WriteRd(I.rd, Wrap(pc + 4)))

BranchTaken(f, a, b) ==
  CASE f = "beq"  -> a = b
    [] f = "bne"  -> a # b
    [] f = "blt"  -> Signed(a) < Signed(b)
    [] f = "bge"  -> Signed(a) >= Signed(b)
    [] f = "bltu" -> a < b
    [] f = "bgeu" -> a >= b

Branch ==
  /\ Decoded("Branch")
  /\ \/ /\ I.func \in BranchFunc
        /\ Retire(IF BranchTaken(I.func, x[I.rs1], x[I.rs2]) THEN pc + I.imm ELSE pc + 4, x)
     \/ I.func = "invalid" /\ Fail(Result("InvalidInstruction", pc))

-----------------------------------------------------------------------------
(* Arithmetic                                                              *)

OpImm ==
  Decoded("OpImm") /\ Retire(pc + 4, WriteRd(I.rd, AluOp(I.func, x[I.rs1], I.imm)))

\* What an AMO stores, given the word in memory and rs2.
AmoValue(f, old, v) ==
  CASE f = "amoswap" -> v
    [] f = "amoadd"  -> Wrap(old + v)
    [] f = "amoxor"  -> AluOp("xor", old, v)
    [] f = "amoand"  -> AluOp("and", old, v)
    [] f = "amoor"   -> AluOp("or", old, v)
    [] f = "amomin"  -> IF Signed(old) <= Signed(v) THEN old ELSE v
    [] f = "amomax"  -> IF Signed(old) > Signed(v) THEN old ELSE v
    [] f = "amominu" -> IF old <= v THEN old ELSE v
    [] f = "amomaxu" -> IF old > v THEN old ELSE v

\* Mutant: the reservation is not registered.
LoadReserved_NoReserve(a, old) ==
  I.func = "lr" /\ Retire(pc + 4, WriteRd(I.rd, old))

LoadReserved(a, old) ==
  /\ I.func = "lr"
  /\ reservation' = {<<a, old>>}
  /\ pc' = Wrap(pc + 4)
  /\ x' = WriteRd(I.rd, old)
  /\ Finish(Running)
  /\ UNCHANGED <<csr, mem>>

\* memory_reservation.take(): consumed whatever happens next.
StoreConditional(a, old) ==
  /\ I.func = "sc"
  /\ reservation' = {}
  /\ UNCHANGED csr
  /\ \/ /\ reservation = {<<a, old>>} /\ Store(a, 4).tag = "Ok"
        /\ mem' = Stored(mem, a, 4, x[I.rs2])
        /\ pc' = Wrap(pc + 4)
        /\ x' = WriteRd(I.rd, 0)
        /\ Finish(Running)
     \/ /\ reservation = {<<a, old>>} /\ Store(a, 4).tag # "Ok"
        /\ Finish(Store(a, 4))
        /\ UNCHANGED <<pc, x, mem>>
     \/ /\ reservation # {<<a, old>>}
        /\ pc' = Wrap(pc + 4)
        /\ x' = WriteRd(I.rd, 1)
        /\ Finish(Running)
        /\ UNCHANGED mem

Amo(a, old) ==
  /\ I.func \in AmoFunc
  /\ \/ /\ Store(a, 4).tag = "Ok"
        /\ mem' = Stored(mem, a, 4, AmoValue(I.func, old, x[I.rs2]))
        /\ pc' = Wrap(pc + 4)
        /\ x' = WriteRd(I.rd, old)
        /\ Finish(Running)
        /\ UNCHANGED <<csr, reservation>>
     \/ Store(a, 4).tag # "Ok" /\ Fail(Store(a, 4))

\* Every function that is not arithmetic loads mem[rs1] first.
OpAmo ==
  /\ Decoded("OpAmo")
  /\ LET a == x[I.rs1]
         got == Load(mem, a, 4)
     IN  \/ /\ I.func \in AluFunc
            /\ Retire(pc + 4, WriteRd(I.rd, AluOp(I.func, a, x[I.rs2])))
         \/ I.func \notin AluFunc /\ got.tag # "Ok" /\ Fail(got)
         \/ /\ I.func \notin AluFunc /\ got.tag = "Ok"
            /\ \/ LoadReserved(a, got.arg)
               \/ StoreConditional(a, got.arg)
               \/ Amo(a, got.arg)
               \/ I.func = "invalid" /\ Fail(Result("InvalidInstruction", pc))

-----------------------------------------------------------------------------
(* System instructions                                                     *)

StopState(f) == CASE f = "ecall"  -> Result("Called", 0)
                  [] f = "ebreak" -> Result("Halted", 0)
                  [] f = "wfi"    -> Result("Waiting", 0)
                  [] f = "fencei" -> Running

\* The operation a CSR instruction performs, and its operand.
CsrInstrOp(f, rs1) ==
  CASE f \in {"csrrw", "csrrwi"} -> "write"
    [] f \in {"csrrs", "csrrsi"} -> IF rs1 = 0 THEN "none" ELSE "set"
    [] f \in {"csrrc", "csrrci"} -> IF rs1 = 0 THEN "none" ELSE "clear"

CsrInstrVal(f, rs1) == IF f \in {"csrrwi", "csrrsi", "csrrci"} THEN rs1 ELSE x[rs1]

CsrAccess ==
  /\ I.func \in CsrFunc
  /\ \/ /\ I.csr # "unsupported"
        /\ csr' = Operation(csr, CsrInstrOp(I.func, I.rs1), CsrInstrVal(I.func, I.rs1), I.csr)
        /\ x' = WriteRd(I.rd, CsrRead(csr, I.csr))
        /\ pc' = Wrap(pc + 4)
        /\ Finish(Running)
        /\ UNCHANGED <<mem, reservation>>
     \/ I.csr = "unsupported" /\ Fail(Result("InvalidCSRegister", 0))

SystemMiscMem ==
  /\ Decoded("SystemMiscMem")
  /\ \/ /\ I.func \in StopFunc
        /\ pc' = Wrap(pc + 4)
        /\ Finish(StopState(I.func))
        /\ UNCHANGED <<x, csr, mem, reservation>>
     \/ /\ I.func = "mret"
        /\ pc' = csr.mepc
        /\ csr' = TrapReturn(csr)
        /\ Finish(Running)
        /\ UNCHANGED <<x, mem, reservation>>
     \/ CsrAccess
     \/ I.func = "invalid" /\ Fail(Result("InvalidInstruction", pc))

-----------------------------------------------------------------------------
(* Compressed instructions (decode_execute/compressed/)                    *)

CAddi4spn ==
  /\ Decoded("CAddi4spn")
  /\ \/ I.imm = 0 /\ Fail(Result("IllegalInstruction", pc))
     \/ I.imm # 0 /\ Retire(pc + 2, WriteReg(I.rd, Wrap(x[SP] + I.imm)))

CLw   == Decoded("CLw") /\ LoadTo(I.rd, "lw", Wrap(x[I.rs1] + I.imm), 2)
CLwsp == Decoded("CLwsp") /\ LoadTo(I.rd, "lw", Wrap(x[SP] + I.imm), 2)
CSw   == Decoded("CSw") /\ StoreFrom(I.rd, "sw", Wrap(x[I.rs1] + I.imm), 2)
CSwsp == Decoded("CSwsp") /\ StoreFrom(I.rs2, "sw", Wrap(x[SP] + I.imm), 2)

CLi  == Decoded("CLi") /\ Retire(pc + 2, WriteRd(I.rd, I.imm))
CLui == Decoded("CLui") /\ Retire(pc + 2, WriteRd(I.rd, I.imm))
CAddi16sp == Decoded("CAddi16sp") /\ Retire(pc + 2, WriteReg(SP, Wrap(x[SP] + I.imm)))

\* rd = f(rd, v), guarded by rd != 0.
CompressedAlu(f, v) == Retire(pc + 2, WriteRd(I.rd, AluOp(f, x[I.rd], v)))

CAddi == Decoded("CAddi") /\ CompressedAlu("add", I.imm)
CSrli == Decoded("CSrli") /\ CompressedAlu("srl", I.imm)
CSrai == Decoded("CSrai") /\ CompressedAlu("sra", I.imm)
CSlli == Decoded("CSlli") /\ CompressedAlu("sll", I.imm)
CAndi == Decoded("CAndi") /\ CompressedAlu("and", I.imm)
CSub  == Decoded("CSub") /\ CompressedAlu("sub", x[I.rs2])
CXor  == Decoded("CXor") /\ CompressedAlu("xor", x[I.rs2])
COr   == Decoded("COr") /\ CompressedAlu("or", x[I.rs2])
CAnd  == Decoded("CAnd") /\ CompressedAlu("and", x[I.rs2])

CJ    == Decoded("CJ") /\ Retire(pc + I.imm, x)
CJal  == Decoded("CJal") /\ Retire(pc + I.imm, WriteReg(RA, Wrap(pc + 2)))
CBeqz == Decoded("CBeqz") /\ Retire(IF x[I.rs1] = 0 THEN pc + I.imm ELSE pc + 2, x)
CBnez == Decoded("CBnez") /\ Retire(IF x[I.rs1] # 0 THEN pc + I.imm ELSE pc + 2, x)

\* c.jr and c.mv; c.mv writes its destination without a test for x0.
CJrMv ==
  /\ Decoded("CJrMv")
  /\ \/ I.rs2 = 0 /\ Retire(x[I.rd], x)
     \/ I.rs2 # 0 /\ Retire(pc + 2, WriteReg(I.rd, x[I.rs2]))

\* Mutant: c.jalr writes the link register before it reads its target.
CEbreakJalrAdd_LinkFirst ==
  /\ Decoded("CEbreakJalrAdd") /\ I.rs2 = 0
  /\ LET linked == WriteReg(RA, Wrap(pc + 2)) IN Retire(linked[I.rd], linked)

\* c.ebreak, c.jalr and c.add; c.add has no test for x0 either.
CEbreakJalrAdd ==
  /\ Decoded("CEbreakJalrAdd")
  /\ \/ /\ I.rs2 = 0 /\ I.rd = 0
        /\ pc' = Wrap(pc + 2)
        /\ Finish(Result("Halted", 0))
        /\ UNCHANGED <<x, csr, mem, reservation>>
     \/ I.rs2 = 0 /\ I.rd # 0 /\ Retire(x[I.rd], WriteReg(RA, Wrap(pc + 2)))
     \/ I.rs2 # 0 /\ Retire(pc + 2, WriteReg(I.rd, Wrap(x[I.rd] + x[I.rs2])))

Step ==
  \/ FetchError \/ Auipc \/ Branch \/ Jal \/ Jalr \/ LoadStore \/ Lui \/ OpImm \/ OpAmo
  \/ SystemMiscMem \/ CAddi4spn \/ CLw \/ CLwsp \/ CSw \/ CSwsp \/ CLi \/ CLui \/ CAddi16sp
  \/ CAddi \/ CSrli \/ CSrai \/ CSlli \/ CAndi \/ CSub \/ CXor \/ COr \/ CAnd
  \/ CJ \/ CJal \/ CBeqz \/ CBnez \/ CJrMv \/ CEbreakJalrAdd

-----------------------------------------------------------------------------
(* The host                                                                *)

Idle == call = "idle"

CallRun  == Idle /\ call' = "run" /\ budget' = limit
            /\ UNCHANGED <<guest, reservation, limit, last>>

CallStep == Idle /\ "step" \in HostCalls /\ call' = "step"
            /\ UNCHANGED <<guest, reservation, limit, budget, last>>

\* interrupt(value)
Interrupt(value) ==
  /\ Idle
  /\ \/ /\ InterruptEnabled(csr)
        /\ csr' = TrapEntry(SetInterrupt(csr), pc, value)
        /\ pc' = TrapVector(csr)
        /\ Return(Result("Done", 0))
     \/ /\ ~InterruptEnabled(csr)
        /\ Return(Result("InterruptNotEnabled", 0))
        /\ UNCHANGED <<pc, csr>>
  /\ UNCHANGED <<x, mem, reservation, limit>>

\* A store through Memory by host code: the memory it leaves.
HostStored(m) ==
  {m} \cup {Stored(m, s[1], s[2], v) :
              s \in {t \in HostStores : Store(t[1], t[2]).tag = "Ok"}, v \in HostValues}

\* Mutant: an error leaves the argument in a1.
SyscallErr_KeepsA1(e) == [x EXCEPT ![A0] = e]

\* syscall_result: Ok(v) gives a0 = 0, a1 = v; Err(e), e # 0, gives a0 = e, a1 = 0.
SyscallOk(v)  == [x EXCEPT ![A0] = 0, ![A1] = v]
SyscallErr(e) == [x EXCEPT ![A0] = e, ![A1] = 0]

\* The function returns: to the guest, or Err(E) to the host alone.
SyscallReturn ==
  /\ \/ \E v \in HostValues : x' = SyscallOk(v) /\ Return(Result("Done", 0))
     \/ \E e \in HostValues \ {0} : x' = SyscallErr(e) /\ Return(Result("Done", 0))
     \/ x' = x /\ Return(Result("HostError", 0))
  /\ UNCHANGED <<pc, csr, reservation, limit>>

\* syscall(function): the function may also write memory.
Syscall == Idle /\ mem' \in HostStored(mem) /\ SyscallReturn

\* syscall_async(function): pending between polls; the future may be dropped.
SyscallAsync == Idle /\ "async" \in HostCalls /\ call' = "async"
                /\ UNCHANGED <<guest, reservation, limit, budget, last>>

PollAsync == call = "async" /\ mem' \in HostStored(mem)
             /\ UNCHANGED <<pc, x, csr, reservation, limit, call, budget, last>>

CompleteAsync == call = "async" /\ UNCHANGED mem /\ SyscallReturn

\* Mutant: a dropped call is answered with an error.
DropAsync_Answers == call = "async" /\ Return(Result("Dropped", 0)) /\ x' = SyscallErr(1)
                     /\ UNCHANGED <<pc, csr, mem, reservation, limit>>

DropAsync == call = "async" /\ Return(Result("Dropped", 0))
             /\ UNCHANGED <<guest, reservation, limit>>

\* Mutant: the reservation survives a reset.
Reset_KeepsReservation ==
  /\ Idle /\ "reset" \in HostCalls
  /\ pc' = 0 /\ x' = [r \in Reg |-> 0] /\ csr' = DefaultCsr
  /\ Return(Result("Done", 0))
  /\ UNCHANGED <<mem, limit, reservation>>

\* reset(): the memory and the instruction limit are kept.
Reset ==
  /\ Idle /\ "reset" \in HostCalls
  /\ pc' = 0
  /\ x' = [r \in Reg |-> 0]
  /\ csr' = DefaultCsr
  /\ reservation' = {}
  /\ Return(Result("Done", 0))
  /\ UNCHANGED <<mem, limit>>

\* Assignments to the public fields, and control_status.operation and
\* memory.store called by the host itself.
SetPc == Idle /\ pc' \in HostPcs
         /\ UNCHANGED <<x, csr, mem, reservation, limit, call, budget, last>>
SetRegisters == Idle /\ x' \in HostRegisters
                /\ UNCHANGED <<pc, csr, mem, reservation, limit, call, budget, last>>
SetLimit == Idle /\ limit' \in Limits
            /\ UNCHANGED <<guest, reservation, call, budget, last>>
HostCsr(op, v, a) ==
  /\ Idle
  /\ csr' = IF a = "unsupported" THEN csr ELSE Operation(csr, op, v, a)
  /\ UNCHANGED <<pc, x, mem, reservation, limit, call, budget, last>>
HostStore == Idle /\ mem' \in HostStored(mem)
             /\ UNCHANGED <<pc, x, csr, reservation, limit, call, budget, last>>

Host ==
  \/ CallRun \/ CallStep
  \/ \E v \in HostValues : Interrupt(v)
  \/ Syscall \/ SyscallAsync \/ PollAsync \/ CompleteAsync \/ DropAsync
  \/ Reset \/ SetPc \/ SetRegisters \/ SetLimit
  \/ \E o \in HostCsrOps, v \in HostValues : HostCsr(o[1], v, o[2])
  \/ HostStore

Next == Step \/ Host

Spec == Init /\ [][Next]_vars

=============================================================================
