------------------------------ MODULE MCHostLoop -----------------------------
(***************************************************************************)
(* The host loop with the guest program of MCSession.                      *)
(***************************************************************************)
EXTENDS MCSession, HostLoop

\* The example's system calls read memory only; this host also writes the
\* word after the counter.
LoopStores == {<<Counter + 5, 1>>}

(* run() and its instruction limit: yields are invisible to the guest.     *)
(* Whatever the limit, when the program halts the lr/sc loop has counted   *)
(* once, the handler has stored the interrupt value, interrupts are        *)
(* enabled again, and a0/a1 hold the answer to the system call, the error  *)
(* code or the value, however often the call was dropped and made again.   *)
HaltsWithTheSameResult ==
  last.tag = "Halted" =>
    /\ mem.ram[0] = 1 /\ mem.ram[4] = InterruptValue % BASE
    /\ x[7] = 0 /\ x[9] = InterruptValue
    /\ csr.MIE /\ ~csr.mip /\ frame = {}
    /\ (x[A0] = 0) # (x[A1] = 0)
    /\ pc = Handler

=============================================================================
