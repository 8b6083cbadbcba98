------------------------------ MODULE MCDebugger -----------------------------
(***************************************************************************)
(* The debugger with a guest that makes a system call, waits for its       *)
(* interrupt and halts, and with one that spins for ever.  Breakpoints are *)
(* set after the system call, at 20, and at the trap handler, at 28, which *)
(* is reached by the trap alone; the spinning guest visits both.           *)
(***************************************************************************)
EXTENDS Debugger, Alu, Assembler

Handler == 28

Guest == <<
  Imm("add", 5, 0, Handler),             \*  0
  Csr("csrrw", 0, "mtvec", 5),           \*  4
  Csr("csrrsi", 0, "mie", 16),           \*  8
  Csr("csrrsi", 0, "mstatus", 8),        \* 12
  Sys("ecall"),                          \* 16
  Sys("wfi"),                            \* 20
  Sys("ebreak"),                         \* 24
  Compressed("CAddi", 6, 0, 0, 1),       \* 28  counts the traps
  Csr("csrrw", 0, "mip", 0),             \* 30
  Sys("mret") >>                         \* 34

Spins == <<
  Up("Jal", 0, 0, 20), Invalid, Invalid, Invalid, Invalid,
  Br("beq", 0, 0, 8), Invalid,           \* 20
  Br("beq", 0, 0, -8) >>                 \* 28

CompOps == <<Illegal, Compressed("CAddi", 6, 0, 0, 1)>>
FullOps == SelectSeq(Guest \o Spins, LAMBDA i : ~Contains(CompOps, i))

MCTable    == MakeDecode(CompOps, FullOps)
MCDecode   == MCTable
MCPrograms == {Assemble(CompOps, FullOps, p, CodeLen) : p \in {Guest, Spins}}
MCRams     == {[i \in 0..(RamLen - 1) |-> 0]}

\* What the client writes: registers and pc, mstatus, and (as the system
\* call does) a byte of RAM.  It reads four CSRs.
MCRegisters == {[r \in Reg |-> 0]}
MCCsrOps    == {<<"write", "mstatus">>} \cup {"none"} \X {"mepc", "mtvec", "mstatus", "mie"}
MCStores    == {<<RAM_OFFSET, 1>>}

(* Debugger: stopping, stepping, breakpoints and break requests are        *)
(* invisible to the guest.  Unless the client wrote to it, a program that  *)
(* terminates has taken exactly one trap, the one that answers its wfi,    *)
(* and ends with interrupts enabled, no trap open, and the answer to its   *)
(* system call in a0 and a1.                                               *)
DebuggingIsInvisible ==
  stop = "Terminated" /\ writes = 0 =>
    /\ x[6] = 1 /\ csr.mepc = 24 /\ frame = {}
    /\ csr.MIE /\ ~csr.mip
    /\ (x[A0] = 0) # (x[A1] = 0)
    /\ pc = Handler

=============================================================================
