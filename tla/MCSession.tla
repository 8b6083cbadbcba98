------------------------------ MODULE MCSession ------------------------------
(***************************************************************************)
(* One guest program under every behaviour of its host.  The program       *)
(* installs a trap handler, increments a RAM word with an lr/sc loop,      *)
(* makes a system call, waits for an interrupt and halts; the handler      *)
(* reads its trap frame, counts in RAM and returns.                        *)
(***************************************************************************)
EXTENDS InterpreterHistory, Alu, Assembler

Counter == RAM_OFFSET
Handler == 52

Main == <<
  Imm("add", 8, 0, Counter),             \*  0  x8 = &counter
  Imm("add", 5, 0, Handler),             \*  4
  Csr("csrrw", 0, "mtvec", 5),           \*  8
  Csr("csrrsi", 0, "mie", 16),           \* 12  bit EMBIVE_INTERRUPT_CODE
  Csr("csrrsi", 0, "mstatus", 8),        \* 16  MIE
  R("lr", 6, 8, 0),                      \* 20
  Compressed("CAddi", 6, 0, 0, 1),       \* 24
  Compressed("CAndi", 6, 0, 0, 1),       \* 26  modulo 2
  R("sc", 7, 8, 6),                      \* 28
  Br("bne", 7, 0, -12),                  \* 32  retry from 20
  Compressed("CLi", A0, 0, 0, 0),        \* 36  the arguments
  Compressed("CLi", A1, 0, 0, 8),        \* 38
  Sys("ecall"),                          \* 40
  Sys("wfi"),                            \* 44
  Sys("ebreak") >>                       \* 48

TrapHandler == <<
  Csr("csrrs", 9, "mepc", 0),            \* 52  reads mepc
  Csr("csrrs", 9, "mtval", 0),           \* 56
  Mem("sb", 9, 8, 4),                    \* 60  counter + 4
  Csr("csrrw", 0, "mip", 0),             \* 64
  Sys("mret") >>                         \* 68

Program == Main \o TrapHandler

CompOps == <<Illegal, Compressed("CAddi", 6, 0, 0, 1), Compressed("CAndi", 6, 0, 0, 1),
             Compressed("CLi", A0, 0, 0, 0), Compressed("CLi", A1, 0, 0, 8)>>
FullOps == SelectSeq(Program, LAMBDA i : ~Contains(CompOps, i))

MCTable == MakeDecode(CompOps, FullOps)
MCDecode == MCTable
MCPrograms == {Assemble(CompOps, FullOps, Program, CodeLen)}
MCRams     == {[i \in 0..(RamLen - 1) |-> 0]}

\* The lr/sc loop alone, under a host that also writes the counter.
AtomicProgram == <<Main[1]>> \o SubSeq(Main, 6, 10) \o <<Br("beq", 0, 0, -24)>>
AtomicFull == <<Br("beq", 0, 0, -24)>> \o FullOps
AtomicTable == MakeDecode(CompOps, AtomicFull)
AtomicDecode == AtomicTable
AtomicPrograms == {Assemble(CompOps, AtomicFull, AtomicProgram, CodeLen)}

\* The host writes the counter, and reads or disables interrupts itself.
MCHostStores == {<<Counter, 4>>}
MCHostCsrOps == {<<"none", "mepc">>, <<"clear", "mstatus">>, <<"write", "unsupported">>}

=============================================================================
