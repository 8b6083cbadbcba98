------------------------------- MODULE HostLoop ------------------------------
(***************************************************************************)
(* The host loop of examples/embassy.rs (and, with a synchronous system    *)
(* call, of README.md): run until ebreak, answer every ecall with an       *)
(* asynchronous system call, every wfi with an interrupt, and run again    *)
(* after every yield.  An error, or a system call function that fails, is  *)
(* unwrapped: the loop stops there.  The host may also put a timeout on    *)
(* the system call: it drops the future and makes the call again.          *)
(***************************************************************************)
EXTENDS InterpreterHistory

CONSTANTS InterruptValue,     \* 10 in the example
          MaxDrops            \* bound on the timeouts of a session

ASSUME HostLoopAssumption == InterruptValue \in Word /\ MaxDrops \in Nat

VARIABLES drops,              \* timeouts so far
          yielded             \* history: the registers after the last instruction

lvars == <<hvars, drops, yielded>>

Unwrap(tags) == Idle /\ last.tag \in tags

Registers == <<pc, x, csr>>

LoopRun       == /\ Unwrap({"Done", "Running"}) /\ HCall /\ call' = "run"
                 /\ UNCHANGED <<drops, yielded>>
LoopSyscall   == /\ Unwrap({"Called", "Dropped"}) /\ SyscallAsync
                 /\ UNCHANGED <<frame, lr, executed, drops, yielded>>
LoopPoll      == PollAsync /\ UNCHANGED <<frame, lr, executed, drops, yielded>>
LoopAnswer    == CompleteAsync /\ UNCHANGED <<frame, lr, executed, drops, yielded>>
LoopTimeout   == /\ drops < MaxDrops /\ DropAsync /\ drops' = drops + 1
                 /\ UNCHANGED <<frame, lr, executed, yielded>>
LoopInterrupt == /\ Unwrap({"Waiting"}) /\ HInterrupt(InterruptValue)
                 /\ UNCHANGED <<drops, yielded>>

LoopStops == Unwrap({"Halted", "HostError"} \cup ErrorTag)

LStep == HStep /\ yielded' = Registers' /\ UNCHANGED drops

LInit == HInit /\ drops = 0 /\ yielded = Registers

LNext == LStep \/ LoopRun \/ LoopSyscall \/ LoopPoll \/ LoopAnswer \/ LoopTimeout
         \/ LoopInterrupt

\* The host program runs, and the system call's future completes if polled:
\* neither the loop nor the guest stops by itself.
LSpec == /\ LInit /\ [][LNext]_lvars
         /\ WF_lvars(LStep \/ LoopRun \/ LoopSyscall \/ LoopInterrupt)
         /\ WF_lvars(LoopAnswer)

-----------------------------------------------------------------------------

(* syscall_async: from the ecall to its answer, over any number of polls   *)
(* and of attempts whose future was dropped, the guest stays as it was     *)
(* when it yielded: every attempt is given the arguments the guest put     *)
(* into its registers, and only the answer changes them.                   *)
EveryAttemptSeesTheArguments ==
  call = "async" \/ Unwrap({"Called", "Dropped"}) => Registers = yielded

(* examples/embassy.rs, run and syscall_async: every session comes to its  *)
(* end; no yield, system call or wait keeps the guest from its ebreak.     *)
SessionEnds == <>LoopStops

(* wfi, interrupt() and trap_entry: a guest that waits is served: its      *)
(* trap handler is entered, with the value the host passed.                *)
WaitIsServed ==
  (Unwrap({"Waiting"}) /\ InterruptEnabled(csr))
     ~> (frame # {} /\ csr.mtval = InterruptValue /\ pc = TrapVector(csr))

=============================================================================
