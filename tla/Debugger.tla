------------------------------- MODULE Debugger ------------------------------
(***************************************************************************)
(* The GDB debugger (debugger.rs, debugger/gdb.rs): an interpreter owned   *)
(* by a Debugger, the gdbstub session that drives it, and the client at    *)
(* the other end of the connection.                                        *)
(*                                                                         *)
(* gdbstub is external and modelled from how the Debugger uses it.  While  *)
(* the target is stopped it executes the client's packets one by one;      *)
(* after a resume it calls wait_for_stop_reason until that reports a stop, *)
(* feeding it no packet meanwhile: a byte read while running is either the *)
(* break request (ctrl-C), answered with on_interrupt, or ignored.  A      *)
(* break request read while stopped is kept for the next resume.           *)
(***************************************************************************)
EXTENDS InterpreterHistory, Sequences, FiniteSets

CONSTANTS SLOTS,         \* N: the number of breakpoints (4 by default)
          PERIOD,        \* instructions between two looks at the connection (1024)
          CYCLES,        \* values of the i32 that counts them (2^32; it wraps)
          BreakAddrs,    \* addresses at which the client sets breakpoints
          MaxInput,      \* bytes the client sends without waiting for an answer
          MaxWrites      \* times the client writes to the guest

ASSUME DebuggerAssumption ==
         /\ SLOTS \in Nat
         /\ PERIOD \in Nat \ {0}
         /\ CYCLES \in Nat \ {0} /\ CYCLES % PERIOD = 0
         /\ BreakAddrs \subseteq Word
         /\ MaxInput \in Nat /\ MaxWrites \in Nat

VARIABLES breakpoints,   \* slot |-> None or Some(address), as {} or {address}
          exec_mode,     \* "Step" or "Run"
          loop,          \* where the session is: see Loop
          cycles,        \* the counter of wait_for_stop_reason
          stop,          \* what wait_for_stop_reason, or the session, ended with
          input,         \* bytes sent by the client and not yet read
          conn,          \* "up", or "broken" for the rest of the session
          deferred,      \* a break request was read while the target was stopped
          wanted,        \* history: address |-> breakpoints added and not removed
          ran,           \* history: instructions since the last resume (2: or more)
          writes         \* history: writes by the client to the guest

session == <<stop, input, conn, deferred>>
client  == <<breakpoints, exec_mode, wanted, writes>>
dvars   == <<hvars, loop, cycles, ran, session, client>>

\* Inside wait_for_stop_reason: before, during and after step(), and after
\* the system call or interrupt; otherwise with the client, or over.
InWait == {"step", "exec", "handle", "check"}
Loop   == InWait \cup {"stopped", "ended"}
Stops  == {"None", "SwBreak", "DoneStep", "SIGINT", "Terminated", "TargetError",
           "ConnectionError", "Disconnected"}
Bytes  == {"ctrl-c", "data"}

Debugging == loop \in InWait

\* Debugger::new, then the start of the session.
DInit ==
  /\ HInit /\ limit = 0
  /\ breakpoints = [i \in 1..SLOTS |-> {}]
  /\ exec_mode = "Run"
  /\ loop = "stopped" /\ cycles = 0 /\ stop = "None"
  /\ input = <<>> /\ conn = "up" /\ deferred = FALSE
  /\ wanted = [a \in BreakAddrs |-> 0] /\ ran = 0 /\ writes = 0

Stopped(reason) == loop' = "stopped" /\ stop' = reason
Ended(reason)   == loop' = "ended" /\ stop' = reason
Goto(place)     == loop' = place /\ UNCHANGED stop

-----------------------------------------------------------------------------
(* wait_for_stop_reason                                                    *)

WaitStep ==
  /\ loop = "step" /\ HCall /\ call' = "step"
  /\ Goto("exec") /\ UNCHANGED <<cycles, ran, input, conn, deferred, client>>

WaitExec ==
  /\ loop = "exec" /\ HStep
  /\ \/ last'.tag = "Running" /\ Goto("check")
     \/ last'.tag \in {"Called", "Waiting"} /\ Goto("handle")
     \/ last'.tag = "Halted" /\ Ended("Terminated")
     \/ last'.tag \in ErrorTag /\ Ended("TargetError")
  /\ ran' = IF ran = 2 THEN 2 ELSE ran + 1
  /\ UNCHANGED <<cycles, input, conn, deferred, client>>

\* Mutant: a single step does not answer the ecall.
Handles_NotInStep ==
  \/ last.tag = "Called" /\ exec_mode = "Run" /\ Syscall /\ UNCHANGED <<frame, lr, executed>>
  \/ last.tag = "Called" /\ exec_mode = "Step" /\ Return(Result("Done", 0))
     /\ UNCHANGED <<guest, reservation, limit, frame, lr, executed>>
  \/ last.tag = "Waiting" /\ HInterrupt(0)

\* syscall(syscall_fn) after an ecall, interrupt(0) after a wfi.
Handles ==
  \/ last.tag = "Called" /\ Syscall /\ UNCHANGED <<frame, lr, executed>>
  \/ last.tag = "Waiting" /\ HInterrupt(0)

WaitHandle ==
  /\ loop = "handle" /\ Handles
  /\ \/ last'.tag = "Done" /\ Goto("check")
     \/ last'.tag # "Done" /\ Ended("TargetError")
  /\ UNCHANGED <<cycles, ran, input, conn, deferred, client>>

AtBreakpoint == \E i \in 1..SLOTS : breakpoints[i] = {pc}

\* Mutant: an error of peek() counts as no data.
HasData_IgnoresError == input # <<>>

\* conn.peek().map(is_some).unwrap_or(true)
HasData == input # <<>> \/ conn = "broken"

\* Mutant: the connection is looked at once per resume.
LooksAtInput_Once == ran = 1 /\ HasData

LooksAtInput == cycles % PERIOD = 0 /\ HasData

\* Mutant: the counter does not wrap.
NextCycle_NoWrap == cycles + 1

NextCycle == (cycles + 1) % CYCLES

\* Mutant: the end of a single step is reported before the breakpoint.
CheckStop_StepFirst ==
  \/ exec_mode = "Step" /\ Stopped("DoneStep")
  \/ exec_mode # "Step" /\ AtBreakpoint /\ Stopped("SwBreak")

CheckStop ==
  \/ AtBreakpoint /\ Stopped("SwBreak")
  \/ ~AtBreakpoint /\ exec_mode = "Step" /\ Stopped("DoneStep")

WaitStops == /\ loop = "check" /\ CheckStop
             /\ UNCHANGED <<hvars, cycles, ran, input, conn, deferred, client>>

Runs == loop = "check" /\ ~AtBreakpoint /\ exec_mode = "Run"

\* conn.read(), and what gdbstub does with the byte.
WaitReads ==
  /\ Runs /\ LooksAtInput
  /\ \/ input = <<>> /\ Ended("ConnectionError") /\ UNCHANGED <<input, cycles>>
     \/ /\ input # <<>> /\ Head(input) = "ctrl-c"
        /\ Stopped("SIGINT") /\ input' = Tail(input) /\ UNCHANGED cycles
     \/ /\ input # <<>> /\ Head(input) = "data"
        /\ Goto("step") /\ input' = Tail(input) /\ cycles' = 0
  /\ UNCHANGED <<hvars, ran, conn, deferred, client>>

WaitContinues ==
  /\ Runs /\ ~LooksAtInput
  /\ Goto("step") /\ cycles' = NextCycle
  /\ UNCHANGED <<hvars, ran, input, conn, deferred, client>>

-----------------------------------------------------------------------------
(* The session while the target is stopped                                 *)

\* What the client sent while the target ran is read before any packet.
ReadsStray ==
  /\ loop = "stopped"
  /\ \/ /\ input # <<>>
        /\ deferred' = (deferred \/ Head(input) = "ctrl-c") /\ input' = Tail(input)
        /\ UNCHANGED <<loop, stop>>
     \/ /\ input = <<>> /\ conn = "broken"
        /\ Ended("ConnectionError") /\ UNCHANGED <<input, deferred>>
  /\ UNCHANGED <<hvars, cycles, ran, conn, client>>

Packet == loop = "stopped" /\ input = <<>> /\ conn = "up"

\* resume() and step() of the target.
Resume(mode) ==
  /\ Packet
  /\ exec_mode' = mode
  /\ \/ deferred /\ Stopped("SIGINT") /\ deferred' = FALSE /\ UNCHANGED <<cycles, ran>>
     \/ /\ ~deferred /\ loop' = "step" /\ stop' = "None"
        /\ cycles' = 0 /\ ran' = 0 /\ UNCHANGED deferred
  /\ UNCHANGED <<hvars, input, conn, breakpoints, wanted, writes>>

Position(option) ==
  {i \in 1..SLOTS : breakpoints[i] = option /\ \A j \in 1..(i - 1) : breakpoints[j] # option}

\* add_sw_breakpoint: refused when every slot is taken.
AddBreakpoint(a) ==
  /\ Packet
  /\ \E i \in Position({}) : breakpoints' = [breakpoints EXCEPT ![i] = {a}]
  /\ wanted' = [wanted EXCEPT ![a] = @ + 1]
  /\ UNCHANGED <<hvars, loop, cycles, ran, session, exec_mode, writes>>

\* Mutant: every slot after the one removed is freed.
RemoveBreakpoint_Truncates(a) ==
  /\ Packet
  /\ \E i \in Position({a}) :
       breakpoints' = [j \in 1..SLOTS |-> IF j < i THEN breakpoints[j] ELSE {}]
  /\ wanted' = [wanted EXCEPT ![a] = @ - 1]
  /\ UNCHANGED <<hvars, loop, cycles, ran, session, exec_mode, writes>>

\* remove_sw_breakpoint: frees one slot that holds a.
RemoveBreakpoint(a) ==
  /\ Packet
  /\ \E i \in Position({a}) : breakpoints' = [breakpoints EXCEPT ![i] = {}]
  /\ wanted' = [wanted EXCEPT ![a] = @ - 1]
  /\ UNCHANGED <<hvars, loop, cycles, ran, session, exec_mode, writes>>

\* write_registers and write_register (pc, gpr); write_register (csr);
\* write_addrs.
ClientWrites ==
  \/ \E regs \in HostRegisters, target \in HostPcs :
       /\ x' = regs /\ pc' = target
       /\ UNCHANGED <<csr, mem, reservation, limit, call, budget, last, frame, lr, executed>>
  \/ \E o \in HostCsrOps, v \in HostValues :
       o[1] = "write" /\ o[2] # "unsupported" /\ HHostCsr(o[1], v, o[2])
  \/ HostStore /\ mem' # mem /\ UNCHANGED <<frame, lr, executed>>

Write ==
  /\ Packet /\ writes < MaxWrites /\ ClientWrites
  /\ writes' = writes + 1
  /\ UNCHANGED <<loop, cycles, ran, session, breakpoints, exec_mode, wanted>>

\* Mutant: the read writes the operand that is not there.
ReadCsr_Writes ==
  /\ Packet
  /\ \E o \in HostCsrOps : o[1] = "none" /\ HHostCsr("write", 0, o[2])
  /\ UNCHANGED <<loop, cycles, ran, session, client>>

\* read_register (csr), an operation without operand.  The other reads leave
\* everything as it is.
ReadCsr ==
  /\ Packet
  /\ \E o \in HostCsrOps : o[1] = "none" /\ HHostCsr(o[1], 0, o[2])
  /\ UNCHANGED <<loop, cycles, ran, session, client>>

\* A request for an address outside the memory, for an unsupported CSR or
\* for a floating-point register is a fatal error of the target: the session
\* ends.
BadRequest ==
  /\ Packet /\ Ended("TargetError")
  /\ UNCHANGED <<hvars, cycles, ran, input, conn, deferred, client>>

Disconnect ==
  /\ Packet /\ Ended("Disconnected")
  /\ UNCHANGED <<hvars, cycles, ran, input, conn, deferred, client>>

-----------------------------------------------------------------------------
(* The client and the connection while the target runs                     *)

Send(byte) ==
  /\ Debugging /\ conn = "up" /\ Len(input) < MaxInput
  /\ input' = Append(input, byte)
  /\ UNCHANGED <<hvars, loop, cycles, ran, stop, conn, deferred, client>>

Hangup ==
  /\ loop # "ended" /\ conn' = "broken"
  /\ UNCHANGED <<hvars, loop, cycles, ran, stop, input, deferred, client>>

-----------------------------------------------------------------------------

Wait == WaitStep \/ WaitExec \/ WaitHandle \/ WaitStops \/ WaitReads \/ WaitContinues

DNext ==
  \/ Wait \/ ReadsStray
  \/ \E mode \in {"Step", "Run"} : Resume(mode)
  \/ \E a \in BreakAddrs : AddBreakpoint(a) \/ RemoveBreakpoint(a)
  \/ Write \/ ReadCsr \/ BadRequest \/ Disconnect
  \/ \E byte \in Bytes : Send(byte)
  \/ Hangup

\* The thread that runs the session runs: it is never blocked inside
\* wait_for_stop_reason, nor while there is something to read.
DSpec == DInit /\ [][DNext]_dvars /\ WF_dvars(Wait) /\ WF_dvars(ReadsStray)

-----------------------------------------------------------------------------
(* Properties                                                              *)

(* Debugger: the state of the session is well formed, the counter of the   *)
(* instructions included, however long the guest runs.                     *)
DebuggerTypeOK ==
  /\ breakpoints \in [1..SLOTS -> {{}} \cup {{a} : a \in BreakAddrs}]
  /\ exec_mode \in {"Step", "Run"}
  /\ loop \in Loop /\ stop \in Stops
  /\ cycles \in 0..(CYCLES - 1)
  /\ input \in Seq(Bytes) /\ Len(input) <= MaxInput
  /\ conn \in {"up", "broken"} /\ deferred \in BOOLEAN
  /\ wanted \in [BreakAddrs -> Nat]
  /\ ran \in 0..2 /\ writes \in 0..MaxWrites

Slots(a) == {i \in 1..SLOTS : breakpoints[i] = {a}}

\* The slots hold an address as often as the client added it and did not
\* remove it.
SlotsCounted == \A a \in BreakAddrs : wanted[a] = Cardinality(Slots(a))

\* The interpreter is inside step() exactly where wait_for_stop_reason is.
CallMatchesLoop == call = IF loop = "exec" THEN "step" ELSE "idle"

\* A single step: before it no instruction has run since the resume, after
\* it one.
StepIsOne ==
  exec_mode = "Step" => /\ loop \in {"step", "exec"} => ran = 0
                        /\ loop \in {"handle", "check"} => ran = 1

\* The loop goes round only away from every breakpoint.
AwayFromBreakpoints == loop \in {"step", "exec"} /\ ran > 0 => ~AtBreakpoint

(* The parts of a session agree, whatever the client added, removed,       *)
(* resumed or interrupted in between: no add or remove touches another     *)
(* breakpoint, a single step is one instruction, also when the client      *)
(* changes from one mode to the other, and the interpreter is left inside  *)
(* no call.                                                                *)
SessionConsistent == SlotsCounted /\ CallMatchesLoop /\ StepIsOne /\ AwayFromBreakpoints

(* wait_for_stop_reason and the breakpoint slots: no instruction is        *)
(* executed at an address where the client has a breakpoint, except the    *)
(* one at which it resumed; whatever breakpoints were added, removed or    *)
(* added twice before, and whichever way the program arrives there: by a   *)
(* jump, by the trap that follows a wfi, or from a system call.            *)
NeverPassesBreakpoint ==
  [][loop = "exec" /\ loop' # "exec" /\ ran > 0 =>
       \A a \in BreakAddrs : wanted[a] > 0 => pc # a]_dvars

(* wait_for_stop_reason: what it reports is what happened.  A breakpoint   *)
(* is reported exactly when the program stands at one the client set, and  *)
(* a single step ends after exactly one instruction.                       *)
StopReasonIsTrue ==
  [][loop = "check" /\ loop' = "stopped" =>
       /\ (stop' = "SwBreak") <=> (\E a \in BreakAddrs : wanted[a] > 0 /\ pc = a)
       /\ exec_mode = "Step" => ran = 1
       /\ stop' = "DoneStep" => exec_mode = "Step"]_dvars

(* Debugger: a session is transparent.  Between the client's writes the    *)
(* interpreter goes through what a plain loop takes it through, and        *)
(* nothing else: step(), the answer to an ecall, and interrupt(0) after a  *)
(* wfi.  Breakpoints, stops, break requests and also reads of the CSRs     *)
(* leave it as it is, although those go through operation(), which writes  *)
(* what it read back through its mask.  The exception is an odd mepc,      *)
(* which a trap taken at an odd pc leaves and a read makes even.           *)
SessionIsTransparent ==
  [][writes' = writes /\ csr.mepc % 2 = 0 =>
       \/ loop = "step" /\ HCall
       \/ loop = "exec" /\ HStep
       \/ loop = "handle" /\ Handles]_hvars

(* wait_for_stop_reason, "Every 1024 instructions, check for incoming      *)
(* data": a break request reaches even a program that never stops.         *)
BreakRequestServed ==
  (Debugging /\ \E i \in 1..Len(input) : input[i] = "ctrl-c") ~> ~Debugging

(* wait_for_stop_reason, peek() and read(): when the connection breaks the *)
(* session ends; the thread that runs it does not run the guest for ever.  *)
HangupEndsSession == conn = "broken" ~> loop = "ended"

=============================================================================
