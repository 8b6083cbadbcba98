---------------------------- MODULE HostLoopProofs ---------------------------
(***************************************************************************)
(* Theorems about the host loop, for every guest, instruction limit and    *)
(* number of timeouts.                                                     *)
(***************************************************************************)
EXTENDS HostLoop, InterpreterProofs

(* The loop implements the specification of an owner.                      *)
THEOREM LoopIsAnOwner == LSpec => AnySpec
  <1>1. LInit => HInit
    BY DEF LInit
  <1>2. [LNext]_lvars => [AnyNext]_hvars
    <2> SUFFICES ASSUME LNext PROVE AnyNext
      BY DEF lvars
    <2>1. CASE LStep \/ LoopRun
      BY <2>1 DEF LStep, LoopRun, AnyNext
    <2>2. CASE LoopSyscall \/ LoopPoll \/ LoopAnswer \/ LoopTimeout
      <3>1. HOther
        BY <2>2 DEF LoopSyscall, LoopPoll, LoopAnswer, LoopTimeout, HOther
      <3> QED
        BY <3>1 DEF AnyNext
    <2>3. CASE LoopInterrupt
      BY <2>3, HostLoopAssumption DEF LoopInterrupt, AnyNext
    <2> QED
      BY <2>1, <2>2, <2>3 DEF LNext
  <1> QED
    BY <1>1, <1>2, PTL DEF LSpec, AnySpec

(* So what the interpreter promises any owner holds of the guest of the    *)
(* loop, across yields, system calls, timeouts and interrupts.             *)
THEOREM LoopGuest ==
  LSpec => /\ []TypeOK /\ []TrapFrameIntact
           /\ TrapReturnsToInterruptedCode /\ ErrorIsPrecise /\ ScSucceedsExactlyAfterLr
           /\ RunRespectsLimit
  BY LoopIsAnOwner, AnyTypeCorrect, TrapFrame, TrapReturns, PreciseErrors, ScExact,
     LimitRespected, PTL

-----------------------------------------------------------------------------
(* Asynchronous system calls                                               *)

(* EveryAttemptSeesTheArguments is inductive: a call that is pending, or   *)
(* that was dropped and is to be made again, leaves the registers alone,   *)
(* and its answer is never taken for one of the two.                       *)
LEMMA AttemptInductive ==
  EveryAttemptSeesTheArguments /\ [LNext]_lvars => EveryAttemptSeesTheArguments'
  <1> SUFFICES ASSUME EveryAttemptSeesTheArguments, [LNext]_lvars
               PROVE  EveryAttemptSeesTheArguments'
    OBVIOUS
  <1>1. CASE LStep
    BY <1>1 DEF LStep, EveryAttemptSeesTheArguments
  <1>2. CASE LoopRun
    BY <1>2 DEF LoopRun, EveryAttemptSeesTheArguments, Unwrap, Idle
  <1>3. CASE LoopSyscall \/ LoopPoll \/ LoopTimeout \/ UNCHANGED lvars
    <2>1. CASE UNCHANGED lvars
      BY <2>1 DEF lvars, hvars, vars, Registers, EveryAttemptSeesTheArguments, Unwrap, Idle
    <2>2. CASE LoopSyscall \/ LoopPoll \/ LoopTimeout
      <3>1. Registers' = Registers /\ yielded' = yielded
        BY <2>2 DEF LoopSyscall, LoopPoll, LoopTimeout, SyscallAsync, PollAsync, DropAsync,
           Registers, guest
      <3>2. Registers = yielded
        BY <2>2 DEF LoopSyscall, LoopPoll, LoopTimeout, PollAsync, DropAsync,
           EveryAttemptSeesTheArguments
      <3> QED
        BY <3>1, <3>2 DEF EveryAttemptSeesTheArguments
    <2> QED
      BY <1>3, <2>1, <2>2
  <1>4. CASE LoopAnswer \/ LoopInterrupt
    <2>1. call' = "idle" /\ last'.tag \in {"Done", "HostError", "InterruptNotEnabled"}
      BY <1>4 DEF LoopAnswer, LoopInterrupt, CompleteAsync, SyscallReturn, HInterrupt, Interrupt,
         Return, Result
    <2> QED
      BY <2>1 DEF EveryAttemptSeesTheArguments, Unwrap
  <1> QED
    BY <1>1, <1>2, <1>3, <1>4 DEF LNext

(* syscall_async: every attempt at a system call is given the arguments of *)
(* the guest, however often its future was dropped.                        *)
THEOREM Attempts == LSpec => []EveryAttemptSeesTheArguments
  <1>1. LInit => EveryAttemptSeesTheArguments
    BY DEF LInit, EveryAttemptSeesTheArguments
  <1> QED
    BY <1>1, AttemptInductive, PTL DEF LSpec

=============================================================================
