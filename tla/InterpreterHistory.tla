-------------------------- MODULE InterpreterHistory -------------------------
(***************************************************************************)
(* The interpreter with history variables that record what its host and    *)
(* its guest did, and the properties stated in terms of them.              *)
(***************************************************************************)
EXTENDS Interpreter

VARIABLES frame,       \* {pc}: a trap interrupted pc and its frame is untouched
          lr,          \* {<<addr, value>>}: the last lr/sc executed was this lr
          executed     \* instructions executed by the current or last call

hvars == <<vars, frame, lr, executed>>

HInit == Init /\ frame = {} /\ lr = {} /\ executed = 0

\* The instruction is about to replace part of the trap frame: it returns
\* from the trap, or writes (not merely reads) mepc or mstatus.
ReplacesFrame ==
  /\ Decoded("SystemMiscMem")
  /\ \/ I.func = "mret"
     \/ /\ I.func \in CsrFunc /\ I.csr \in {"mepc", "mstatus"}
        /\ CsrInstrOp(I.func, I.rs1) # "none"

IsLr == Decoded("OpAmo") /\ I.func = "lr" /\ Load(mem, x[I.rs1], 4).tag = "Ok"
IsSc == Decoded("OpAmo") /\ I.func = "sc" /\ Load(mem, x[I.rs1], 4).tag = "Ok"

HStep ==
  /\ Step
  /\ frame' = IF ReplacesFrame THEN {} ELSE frame
  /\ lr' = CASE IsLr -> {<<x[I.rs1], Load(mem, x[I.rs1], 4).arg>>}
             [] IsSc -> {}
             [] OTHER -> lr
  /\ executed' = IF limit = 0 THEN executed ELSE executed + 1

HCall  == (CallRun \/ CallStep) /\ executed' = 0 /\ UNCHANGED <<frame, lr>>

HInterrupt(value) ==
  /\ Interrupt(value)
  /\ frame' = IF InterruptEnabled(csr) THEN {pc} ELSE frame
  /\ UNCHANGED <<lr, executed>>

HReset == Reset /\ frame' = {} /\ lr' = {} /\ UNCHANGED executed

HHostCsr(op, v, a) ==
  /\ HostCsr(op, v, a)
  /\ frame' = IF a \in {"mepc", "mstatus"} /\ op # "none" THEN {} ELSE frame
  /\ UNCHANGED <<lr, executed>>

\* Host steps that none of the history variables records.
HOther ==
  /\ \/ Syscall \/ SyscallAsync \/ PollAsync \/ CompleteAsync \/ DropAsync
     \/ SetPc \/ SetRegisters \/ SetLimit \/ HostStore
  /\ UNCHANGED <<frame, lr, executed>>

HNext ==
  \/ HStep \/ HCall \/ HReset \/ HOther
  \/ \E v \in HostValues : HInterrupt(v)
  \/ \E o \in HostCsrOps, v \in HostValues : HHostCsr(o[1], v, o[2])

HSpec == HInit /\ [][HNext]_hvars

(***************************************************************************)
(* The interpreter under any owner at all.  The public methods and fields  *)
(* take every word; several fields may be assigned between two calls.  The *)
(* host loop and the debugger implement this specification.                *)
(***************************************************************************)
HAssign == /\ Idle /\ pc' \in Word /\ x' \in [Reg -> Word]
           /\ UNCHANGED <<csr, mem, reservation, limit, call, budget, last, frame, lr, executed>>

AnyNext ==
  \/ HStep \/ HCall \/ HReset \/ HOther \/ HAssign
  \/ \E v \in Word : HInterrupt(v)
  \/ \E o \in CsrOp \X CsrName, v \in Word : HHostCsr(o[1], v, o[2])

AnySpec == HInit /\ [][AnyNext]_hvars

-----------------------------------------------------------------------------
(* Properties                                                              *)

(* trap_entry and trap_return (control_status.rs): from an accepted        *)
(* interrupt until the handler returns or rewrites mepc or mstatus itself, *)
(* whatever the handler executes, however run() yields, and whatever       *)
(* system calls, CSR reads or further interrupt() calls intervene,         *)
(* interrupts stay disabled, MPIE stays set, and mepc holds the pc that    *)
(* was interrupted (if that pc was even).  So the mret resumes the         *)
(* interrupted code with interrupts enabled again.                         *)
TrapFrameIntact ==
  \A p \in frame : /\ ~csr.MIE
                   /\ csr.MPIE
                   /\ p % 2 = 0 => csr.mepc = p

(* interrupt() and mret: nesting never happens behind the guest's back:    *)
(* an interrupt is accepted only when no untouched frame is outstanding,   *)
(* and an mret that closes one resumes the interrupted pc with interrupts  *)
(* enabled.                                                                *)
TrapReturnsToInterruptedCode ==
  [][/\ frame' # frame /\ frame' # {} => frame = {}
     /\ \A p \in frame : (ReplacesFrame /\ I.func = "mret" /\ p % 2 = 0)
                            => pc' = p /\ csr'.MIE]_hvars

(* op_amo.rs SC: a store-conditional that completes reports success, and   *)
(* stores, exactly when the last LR or SC executed since reset was an LR   *)
(* of the same address and the word still has the value it loaded: across  *)
(* interrupts, system calls that write memory, yields of run() and reset() *)
(* a reservation is used at most once and never leaks.                     *)
ScSucceedsExactlyAfterLr ==
  [][IsSc /\ pc' # pc =>
       LET a == x[I.rs1]
           ok == lr = {<<a, Load(mem, a, 4).arg>>}
       IN  /\ I.rd # 0 => x'[I.rd] = IF ok THEN 0 ELSE 1
           /\ mem' = IF ok THEN Stored(mem, a, 4, x[I.rs2]) ELSE mem]_hvars

(* step() and run(): an error is precise.  The failing instruction has     *)
(* changed no register, CSR or memory and the program counter still points *)
(* at it, so a host that repairs the cause can run on.                     *)
ErrorIsPrecise ==
  [][Executing /\ call' = "idle" /\ last'.tag \in ErrorTag => UNCHANGED guest]_hvars

(* run(): with an instruction limit n, a call never executes more than n   *)
(* instructions, and it yields Ok(Running) only after exactly n.           *)
RunRespectsLimit ==
  [][call = "run" /\ limit > 0 =>
       /\ executed < limit
       /\ call' = "idle" /\ last'.tag = "Running" => executed' = limit]_hvars

=============================================================================
