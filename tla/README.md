# Embive verification

TLA+ modules for Embive, a `no_std` RISC-V interpreter in Rust: an embedded host
creates an interpreter over a code slice and a RAM slice, runs a guest program
in it, answers its system calls and delivers interrupts to it. The guest is a
RISC-V ELF file that the crate's transpiler turns into an image with the same
instructions in another encoding. Paths below are
relative to `src/`; "the code" is `src/src/**`, the crate.

## 1. Inventory

| Component | Source | State | Operations |
|---|---|---|---|
| Interpreter core | `src/interpreter.rs` | `program_counter`, `memory_reservation`, `instruction_limit`, registers, memory | `new`, `reset`, `run`, `step`, `fetch` |
| Instruction execution | `src/interpreter/decode_execute/**` | none of its own | one handler per opcode, 32 of them |
| Memory | `src/interpreter/memory.rs`, `memory/memory_type.rs` | code slice (read only) and RAM slice | `load_bytes`, `store_bytes`, typed `load` and `store` |
| CSRs and traps | `src/interpreter/registers/control_status.rs` | `mstatus`, `mie`, `mip`, `mtvec`, `mscratch`, `mepc`, `mcause`, `mtval` | `operation`, `interrupt_enabled`, `set_interrupt`, `trap_entry`, `trap_return` |
| CPU registers | `src/interpreter/registers/cpu.rs` | 32 words | `get`, `get_mut` |
| Host interface | `src/interpreter.rs` | a pending asynchronous system call | `interrupt`, `syscall`, `syscall_async`, public fields |
| Host loop | `examples/embassy.rs`, `README.md` | where the host is in its loop | run, answer, interrupt, repeat |
| Instruction formats | `src/format.rs`, `src/instruction/**` | none | `from_riscv`, `from_embive`, `to_embive` of each format, `decode_instruction!` |
| Conversion | `src/transpiler/convert/**` | none | `convert`, one `Convert` per RISC-V opcode |
| Transpiler | `src/transpiler.rs` | output buffer, size so far, need for padding | `transpile_raw`, `transpile_elf`, `transpile_elf_vec` |
| Debugger | `src/interpreter/debugger/**` | breakpoints, execution mode | GDB event loop, single step, breakpoints, memory access |

**Interaction.** Everything is a method of one `Interpreter` that takes
`&mut self`: there is no thread beside a call. What interleaves is the *host*
with the *guest*: `run()` may yield between any two instructions (instruction
limit), after which the host may call any method in any order, assign the public
fields, write guest memory, or reset; `syscall_async` stays pending over several
polls and its future may be dropped. The guest in turn changes the CSRs on which
the host's next `interrupt()` depends. The transpiler runs before all this and is
sequential; it meets the interpreter in two places, the encoding (what `to_embive`
writes is what `from_embive` reads) and the fetch (four bytes, whatever the size of
the instruction).

**What is hard.** An interrupt between any two instructions of the guest, its
handler included; the frame it saves must survive whatever the handler and the
host do before `mret`. `lr`/`sc` pairs separated by interrupts, system calls that
write memory and resets. An instruction that fails halfway. The instruction
limit, at 1 and at the moment the guest stops by itself. Address arithmetic at
the end of a slice, at the end of a region and at the end of the address space
on a host whose `usize` is 32 bits. Signed corner cases of arithmetic. Immediates
whose bits two encodings scatter differently. Sections that are empty, unaligned,
out of order, or end the image with half a fetch. The hazards
in `PROJECT.json` give each at its line.

**What makes each part correct.** Memory: a flat address space with two windows.
Arithmetic: exact integers, reduced. CSRs: masked read-modify-write of one
register. Traps: saved frame intact, return to the interrupted instruction.
Atomics: `sc` succeeds exactly after its `lr`. `run`: at most the limit, and a
yield is invisible to the guest. Errors: precise. Host loop: every session ends,
every waiting guest is served, a call made again sees its arguments. Conversion: the
same operation on the same operands. Transpiler: every byte at its address, every
instruction converted once and fetchable, sound files translated, a defective section
never returned as a binary, and no panic.

## 2. Modules

| Module | Models | Correspondence |
|---|---|---|
| `Words` | `u32`, `i32`, bytes | A word is four bytes in base `BASE` (256 in the code), little endian; `Wrap`, `Signed` and `SignExtend` are the wrapping operations and casts. |
| `SliceMemory` | `memory.rs`, `memory_type.rs` | `Load` and `Store` go through `checked_slice_range` as the code does, `usize` overflow (`checked_add`) included. Results are records `[tag, arg]` for `Ok` and each `Error` variant. |
| `FlatMemory` | what the trait `Memory` promises | One byte per mapped address; an access succeeds, or fails and changes nothing. No slices, offsets or wrap-around. |
| `MemoryClient` | a `SliceMemory` and its callers | Any sequence of loads and stores; the refinement mapping to `FlatMemory`. |
| `Format` | `format.rs` | `from_riscv`, `from_embive` and `to_embive` of each format. A word is the set of its one bits, so the shifts and masks of the code are operations on sets. |
| `Convert` | `convert.rs`, `convert/*`, `instruction.rs`, the macros | `ConvertInstruction` by opcode, one operator per `Convert`; `DecodeInstruction` is `decode_instruction!`. |
| `RiscvManual` | the reference for conversion | The instruction listings of the RISC-V manual as a table of rows: opcode, fixed fields, registers, layout of the immediate. Written from the manual, not from the code. |
| `ConvertUnit` | the conversion of one word | Any word is converted; `Executed` says which operation the handlers make of the decoded fields. |
| `Transpiler` | `transpiler.rs` | One action per section and per way to leave it, one per converted instruction, one for the padding. |
| `CSRegisters` | `control_status.rs` | `mstatus`, `mie` and `mip` kept as the separate fields the code stores; `Operation` by the CSR's kind; trap entry and return. |
| `MulDiv` | the M extension's part of `op_amo.rs` | `MulDivOp`, with `MulHigh` for a product in twice the width, and signed and unsigned division and remainder with their exceptional cases. |
| `MulDivUnit` | one M instruction by itself | Any pair of operands, and the exact results it is compared with. |
| `Alu` | the other arithmetic of `op_imm.rs`, `op_amo.rs`, `compressed/*` | `Compute(f, a, b)`, with the M extension from `MulDiv`. It uses `Bitwise`, on which the prover cannot reason; `MulDiv` does not, and is apart for that reason. |
| `Interpreter` | `interpreter.rs`, `decode_execute/**`, `cpu.rs` | One action per opcode, one per host method or field. |
| `InterpreterHistory` | the same, with history variables | `frame` (an accepted interrupt whose frame is untouched), `lr` (the last `lr` not followed by an `sc`), `executed` (instructions of this call). The properties about sequences of steps are stated here. `AnySpec` is the interpreter under any owner: every method with every word, and several public fields assigned at once (`HAssign`). |
| `CompressedForms` | what a compressed instruction promises | Its 32-bit expansion in the C extension (`Expansion`), and the effect of that one. |
| `HostLoop` | `examples/embassy.rs` | The loop, with fairness, and a timeout: the host may drop the future of a system call between polls and make the call again. `yielded` remembers the registers the guest's last instruction left. |
| `Debugger` | `debugger.rs`, `debugger/gdb.rs` | `wait_for_stop_reason` as four places in its loop (before, in and after `step()`, and after the system call or interrupt); one action per packet handler of `gdb.rs`; the client and the connection beside it. `gdbstub` is external. |
| `Assembler` | code images for TLC | Lays out a guest program as bytes and gives the decoder that recognises it. |
| `MC*` | instances for TLC | Programs, operands, references. |
| `MemoryLemmas`, `MemoryProofs`, `InterpreterProofs`, `HostLoopProofs`, `DebuggerProofs`, `MulDivProofs`, `TranspilerProofs`, `ConvertProofs` | theorems | See section 5. |

`Interpreter` EXTENDS `SliceMemory` and `CSRegisters`; `InterpreterHistory`
EXTENDS it; `HostLoop` EXTENDS that and restricts the host to one program, and
`Debugger` makes the debugger the host. The
MC modules add `Alu` as the value of the constant operator `AluOp`: the proofs
need only that it returns a word, and of addition that it wraps, and `Alu` uses `Bitwise`.

How a call is modelled: `CallRun` or `CallStep` sets `call`, every `Step`
executes one instruction, and its result either ends the call (`call' = "idle"`,
`last'` the returned value) or, for `run()` with `Running` and an unspent budget,
leaves it in progress. `budget` is what is left of the loop
`for _ in 0..instruction_limit`; a limit of 0 is the endless loop. A fetch reads
four bytes whatever the instruction's size, as in the code. Each handler is
translated with the order of its reads, failures and writes.

Decoding is a constant function `Decode` from words to records of fields, so a
program is still bytes in memory and a jump into the middle of an instruction
decodes whatever is there. The bit layout of the fields is modelled apart, in
`Format` and `Convert`, on words of 32 bits: the interpreter's handlers depend on the
fields, the layout on nothing the handlers do, and 8-bit words (see the bounds) have
no room for it.

`MemoryClient` maps a `SliceMemory` to a `FlatMemory`: `bytes` is the code slice at
0 and the RAM slice at `RAM_OFFSET` joined to one function, `access` the request,
`ok` and `value` what the call returned. It assumes (`ClientAssumption`) that each slice
fits in its half of the address space, which `SliceMemory::new` does not check.

In `Transpiler` an ELF file is a record of what the `elf` crate reports (external). A
byte of the output is known by the section and index it comes from and by how often an
instruction conversion rewrote it; a byte of a section carries only what kind of
instruction starts there (16-bit, 32-bit, invalid), since what conversion does to the bits
is the subject of `Convert`. `u32` arithmetic wraps at `U32`. A panic of every build is the
status `Panic`; wherever `u32` arithmetic would overflow, the model may also end with
`Overflow`, the panic of a build with overflow checks.
`Mode` selects the append function of `transpile_elf` or of `transpile_elf_vec`.

## 3. Runs

| Run | Question and answer |
|---|---|
| `memory` | Is every sequence of loads and stores, of 1, 2 and 4 bytes, around every boundary, one of a flat memory (`ImplementsFlatMemory`, a refinement)? Yes, also where `offset + length` overflows a 32-bit `usize`. |
| `registers` | Do multiplication, division, remainder and shifts of *every* pair of words agree with exact integers and with bits? After any sequence of CSR operations, trap entries and returns, is an operation a masked read-modify-write of one register? Yes. |
| `session` | A guest with a trap handler, an `lr`/`sc` loop, a system call and a `wfi`, under a host that runs, interrupts, answers, resets and accesses CSRs in any order: is the trap frame intact until it is replaced, does `mret` return to the interrupted code, is the limit respected? Yes. |
| `atomic` | The `lr`/`sc` loop under a host that steps, writes the word, resets, moves the program counter and makes asynchronous system calls between any two instructions: does `sc` succeed exactly after its `lr`? Yes. |
| `exec` | Every instruction on boundary operands, one or two of them in a call: do errors leave the guest unchanged, does a compressed instruction do what its 32-bit expansion does? Yes. |
| `host_loop` | Does the loop of `examples/embassy.rs` bring the guest to its `ebreak`, with the same result for every instruction limit, is a waiting guest served, and is all this so when system calls time out and are made again, each attempt with the registers as the guest left them? Yes. |
| `debugger` | A client that adds and removes breakpoints (twice at one address, too), steps, continues, breaks in, reads, writes and hangs up at any moment, on a guest that halts and on one that spins: do loop, call, mode and slots agree with one another and with what the client asked for, is no breakpoint passed, is every stop reason true, does what the debugger does between instructions change nothing but what the client writes, is debugging invisible to the guest, does a break request reach a spinning guest, does a broken connection end the session? Yes. |
| `convert` | Is every RISC-V instruction converted, to a word of its size from which the interpreter decodes the same operation, registers and immediate, whatever bits follow it? Yes. |
| `transpile` | Does `transpile_elf` put every loaded byte at its address, convert code once and data never, leave four bytes to fetch at every instruction (`ImageFaithful`, `EveryInstructionFetchable`)? Is a sound file always translated into a buffer that holds it (`SoundIsTranslated`)? Is a binary returned only for a file whose loaded sections are all valid (`OkOnlyWhenValid`)? And whatever the file, is every byte that was written at every moment, also when it fails, at its section's offset and converted once or never (`SliceImage`), and is there no panic but the two of section 4 (`OnlyTwoPanics`)? Yes, with the exceptions that the properties state: files without an alignment, and files on which the test for empty sections goes wrong (section 4). |
| `x0` | Is `x0` always 0? No (finding 1). |
| `transpile_vec` | Does `transpile_elf_vec` put every byte at its address? No (finding 2). |
| `transpile_panic` | Does `transpile_elf` never panic in a release build? No (finding 3). |

### Bounds

`BASE = 4`: a byte has two bits and a word eight (`XLEN = 8`). The code treats a
word as four bytes and as a signed and unsigned integer; nothing depends on a
byte having eight bits, and all 65,536 operand pairs become checkable. The
constants of the code that are bit positions are scaled with it:
`EMBIVE_INTERRUPT_CODE` (16 in the code) is 4, and `MISA` any word. The proofs
hold for every even `BASE` of at least 4.

- `convert` uses the real widths: all 49,152 16-bit words, and for each of the 256
  combinations of a 32-bit opcode and funct3 the other 22 bits all clear, all set,
  with one bit set, one bit clear, or one bit and the sign bit set; every funct7 of the
  opcodes that have one and every system immediate. A conversion moves bits and never
  combines them, so that one bit at a time shows where each goes; the proofs are about all
  2^32 words. The reference (`Rows16`, `Rows32` in `RiscvManual`) is written from the
  instruction listings of the RISC-V manual, not from the code.
- `transpile`: files of one to three sections (code that ends in a compressed or an
  uncompressed instruction, read-only data, data with another virtual address, `bss`, empty
  sections), alignments 1 to 8, entry 0 and 8, laid out as a linker does; one defect at a time
  in files with entry 0 and 16; in such files, too, a second section (code or data) that begins
  inside the first, so that converted bytes are overwritten and converted again; buffers
  from empty to ten bytes more than the image.
  `U32 = 64` is above all addresses but those that are to overflow. The files with entry 8
  include ones on which the test for empty sections goes wrong, among them one whose first
  section is dropped although it holds eight bytes of invalid code (`DroppedCode`).
- `transpile_panic`: four files with alignment 0 beside the two without a defect.
- `MaxDrops = 2` timeouts of a session in `host_loop`: a call is dropped, made again and
  dropped again.
- Memory: a code slice of 6 bytes and a RAM slice of 4, with all addresses
  within two bytes of the start and end of a slice, of a region, and of the
  address space. Sizes are larger than one access, so an access can begin inside
  and end outside at every offset.
- `exec`: three images with 72 instructions between them. An eight-bit word numbers
  few 16-bit instructions, so fifteen of them are encoded in 32 bits: the second
  half word, where the next instruction begins, is executed as what it stands for.
  Operands: zero, one, the code and RAM addresses around the
  boundaries, the largest positive word, the smallest negative one, all ones.
- `Limits`: 0 (no limit), and in `session` also 1 and 2, which let `run()` yield at different
  points depending on where the host put the interrupt; `host_loop` takes eight
  limits, from 0 over 1 to one larger than the program.
- `HostValues`, `HostPcs`, `HostRegisters`, `HostCsrOps`, `HostStores`, `HostCalls`
  say what the host may do in a run. Each run enables the actions its question is
  about; between them all are enabled.
- `debugger`: two slots for two addresses (so slots run out and hold duplicates),
  `PERIOD = 2` and `CYCLES = 4` for 1024 and 2^32 (the counter wraps, and more
  often than the client needs to break in), one byte in flight (`MaxInput`), one
  write by the client (`MaxWrites`; the property of a write is that the
  session goes on, and the invisibility is stated for sessions without one).
- Nothing else is cut off: no state constraint is used, the state spaces are finite
  because the guest's data is (the counter of the guest program is kept modulo 2
  by the guest itself).

`CHECK_DEADLOCK FALSE` appears only where the instance is meant to stop: `registers`
and `convert` evaluate and stop, `exec` and `x0` execute one call, and the host loop and the
debugging session end when the guest halts.

### Fairness

`HostLoop` assumes weak fairness of the loop's own steps (the host
program keeps running, and a call of `run()` keeps executing instructions: both
are sequential code with nothing to wait for), and weak fairness of
`LoopAnswer`: the future of the system call completes once it is polled, which
the example's function does immediately. Polling again without completing is
allowed any finite number of times, and so are `MaxDrops` timeouts, after which the
loop calls again. Nothing is assumed of the guest: that it
reaches its `ebreak` is what is checked, for this guest program.

`Debugger` assumes weak fairness of `Wait`, the steps of `wait_for_stop_reason`,
and of `ReadsStray`, reading what has already arrived (or the end of the
connection): one thread executes both and neither blocks. The client is not
assumed to do anything.

### Mutants

Every property of a passing run has a mutant, an operator `<Name>_<Change>` next to
the definition it changes: a plausible slip in that code (a range check off by
one, a store address masked instead of subtracted, division rounding down, a
missing mask, a limit tested too late, a reservation not taken or not cleared
by `reset`, the link register written before the target is
read, `a1` left over after a failed system call, a failing `peek()` taken for
silence, an `ecall` not answered in a single step, a CSR read that writes back, a
conversion that stops before the last instruction, two bits of an immediate exchanged,
the aq and rl bits kept, an offset taken from address 0, a section's start taken for its end, an end of the buffer
that is unchecked, one byte too early or one too late). TLC finds each property violated
under its mutant.

## 4. Findings

1. Loads, `c.lwsp`, `c.mv` and `c.add` write `x0` when it is their destination,
   and later reads return what was written; `cpu.rs:11` says "x0 register,
   hardwired to 0 (read-only)." (`cpu.rs:105` admits for `get_mut` that the rule is
   not enforced.) The instructions with the `rd != 0` test keep it.
2. The append function of `transpile_elf_vec` (`transpiler.rs:209`) ignores the offset. A
   section that follows an alignment gap is appended right after the previous one and so
   lies before its address, and `output[offset..end_offset]`, which is then converted, is
   not it; `transpiler.rs:11` says "Write the section data to the output buffer (handling
   the alignment and address translation)". `transpile_elf` handles both.
3. `README.md:12` promises "no panics on release builds", and
   `fuzz/fuzz_targets/transpiler.rs` gives `transpile_elf` any bytes and takes a panic for a
   failure. A loaded section whose alignment is 0, which ELF allows and means no constraint,
   makes `div_ceil` divide by zero (`transpiler.rs:119`), in every build. There is one other
   panic: of code that ends in the first half of a 32-bit instruction, two bytes are
   converted, and if they make an instruction, it is copied back past the end of the slice
   (`transpiler.rs:64`). `OnlyTwoPanics`, checked and proved, says that there is no third.

Divergences without a run of their own, met while modelling:

- `memory.rs:37` returns `InvalidMemoryAddress` with the *end* of the range,
  relative to its slice; `error.rs:8` says "The memory address is provided."
- `jalr` does not clear bit 0 of its target and `trap_entry` copies the program
  counter unmasked, so an interrupt after such a jump saves an odd `mepc`;
  `control_status.rs:161` says "Bit 0 is always 0". `TrapFrameIntact` is
  therefore stated for even program counters: after a handler reads and writes
  back an odd `mepc`, it would return elsewhere.
- `transpiler.rs:125` ("Ignore empty sections") compares an offset from the entry with an
  absolute address. With an entry other than 0, an empty section is not recognised (an
  executable one then resets the need for padding), and a section whose size is the entry
  address, at an aligned offset, is taken for empty and dropped, invalid code included: with
  entry 8, eight bytes of code at address 8 are skipped and the result is `Ok`. The files of
  `transpile` include both cases. `OkOnlyWhenValid` names the dropped sections
  (`TakenForEmpty`; with entry 0 only empty ones are). `ImageFaithful` and `SoundIsTranslated` are
  stated for the files on which the test is right (`EmptyFound`); TLC finds either
  violated without that condition.
- `needs_padding` (`transpiler.rs:145`) is about the section the loop was last at, wherever it
  lies: of a file whose headers are not in the order of their addresses, the last
  instruction may be left without four bytes to fetch. `EveryInstructionFetchable` is
  therefore stated for files in that order (`AddressOrder`).
- `transpiler.rs:119` aligns a section's distance from the entry, not its address: with an
  entry that is not a multiple of a section's alignment, the section is moved off its load
  address. The files of the runs have aligned entries.
- `convert/system.rs:30` keeps a system immediate it does not know. RISC-V's `uret`
  (immediate 2) so becomes Embive's `fence.i` instead of an error; `convert.rs:100` says of
  the error "The RISC-V instruction is invalid."

## 5. Proofs

Each theorem holds for every value of the constants its assumptions allow.

| Theorem | Statement | For every |
|---|---|---|
| `TypeCorrect` | `Spec => []TypeOK` | word width, memory size, program, decoder, arithmetic and host |
| `HostIsAnOwner` | `HSpec => AnySpec` | same |
| `AnyTypeCorrect` | `AnySpec => []TypeOK` | same |
| `TrapFrame` | `AnySpec => []TrapFrameIntact` | same |
| `TrapReturns` | `AnySpec => TrapReturnsToInterruptedCode` | same |
| `PreciseErrors` | `AnySpec => ErrorIsPrecise` | same |
| `LimitRespected` | `AnySpec => RunRespectsLimit` | same |
| `ScExact` | `AnySpec => ScSucceedsExactlyAfterLr` | same |
| `LoopIsAnOwner` | `LSpec => AnySpec` | guest, limit, number of timeouts |
| `LoopGuest` | `LSpec` implies all of the above | same |
| `Attempts` | `LSpec => []EveryAttemptSeesTheArguments` | same |
| `DebuggerTypes` | `DSpec => []DebuggerTypeOK` | guest, client, number of slots, polling period |
| `SessionAgrees` | `DSpec => []SessionConsistent` | same |
| `BreakpointsStop` | `DSpec => NeverPassesBreakpoint` | same |
| `StopReasons` | `DSpec => StopReasonIsTrue` | same |
| `Transparency` | `DSpec => SessionIsTransparent` | same |
| `DebuggerIsAnOwner` | `DSpec => AnySpec` | same |
| `DebuggedGuest` | `DSpec` implies the guest's properties | same |
| `SliceMemoryIsFlat` | `Spec => ImplementsFlatMemory` (of `MemoryClient`) | word width, pair of slices, client |
| `Division` | `UnitSpec => []DivisionIsExact` | word width, operands |
| `Product` | `UnitSpec => []ProductIsExact` | word width, operands |
| `TranspilerTypes` | `Spec => []TranspilerTypeOK` (of `Transpiler`) | ELF file, buffer, both append functions |
| `SliceIsFaithful` | `Spec => []SliceImage` | ELF file, buffer |
| `OnlyValidFiles` | `Spec => []OkOnlyWhenValid`: every loaded section is valid, or dropped as empty; with entry 0 and no address that wraps around, only empty ones are dropped | ELF file, buffer |
| `PanicsExplained` | `Spec => []OnlyTwoPanics` | ELF file, buffer |
| `BinaryIsFetchable` | `Spec => []EveryInstructionFetchable` | ELF file, buffer |
| `CompressedExpands` | `AnySpec => CompressedMatchesExpansion` | word width, memory size, program, decoder, arithmetic and host |
| `MeaningIsPreserved` | `Spec => []ConversionPreservesMeaning` (of `ConvertUnit`) | 32-bit word |
| `InstructionsAreConverted` | `Spec => []EveryInstructionIsConverted` | 32-bit word |
| `FollowersAreIgnored` | `Spec => []NextInstructionIsIgnored` | 32-bit word, and what follows it |

**Assumptions.** `BaseAssumption` (the base is even and at least 4),
`SliceAssumption` (slice lengths are naturals, `usize` has at least 32 bits),
`AluAssumption` (arithmetic returns words, and `add` is the wrapping sum), `CsrAssumption` (the interrupt code
is a bit position of a word), `DecodeAssumption` (decoding gives fields in
range, and a function the opcode's format can hold), `HostAssumption` (the host
passes values of Rust's types), `HostLoopAssumption` and `DebuggerAssumption` (types, and
a counter of instructions that wraps at a multiple of the polling period, as 2^32 is of
1024); for the memory `ClientAssumption` (each slice fits in its half of the address space;
addresses and stored values are words); for the transpiler `TranspilerAssumption` and
`ElfAssumption` (addresses, sizes and alignments are `u32`; what the `elf` crate reports has
its type). `ElfAssumption` says nothing of where sections and segments lie: they may be in any
order, overlap, or lie before the entry. For the conversion `WordsAssumption`: words have 32
bits, and what follows a 16-bit instruction is in the other sixteen. TLC evaluates them all on the runs of their modules.

**Argument.**

- *Types.* `TypeOK` is inductive. The lemmas on words (`Wrap`, byte composition,
  sign extension), on `Load`, `Store` and on the CSR operations say each returns a
  value of its type; one lemma per action follows.
- *Owners.* A promise to the guest should not depend on who drives the interpreter, so the
  guest's theorems are about `AnySpec`, and `HSpec`, `LSpec` and `DSpec` are each shown to
  implement it, step by step. For the debugger this needs its invariant: `step()` is called
  only from the loop's first place, and the client's packets are served only when no
  call is under way.
- *Traps.* `TrapFrameIntact` is inductive relative to `TypeOK`. A frame appears
  only by `trap_entry`, which establishes it; every other step either clears
  `frame` or leaves MIE, MPIE and `mepc` alone. That needs two facts about CSR
  operations, that one on another register and one that only reads keep these
  fields; the latter rests on `mepc` being re-masked when read back, hence the
  evenness. `TrapReturns` uses the invariant in the state before the step: with a
  frame outstanding MIE is clear, so no interrupt is accepted.
- *Errors.* Each action's error branches are `Fail`, which keeps the guest's state;
  no induction is needed, but every branch of every handler is visited.
- *Limit.* `RunRespectsLimit` is not inductive. The strengthening `LimitSplit`
  says that during a limited `run()`, `executed + budget = limit` and
  `budget >= 1`.
- *Reservations.* `ScSucceedsExactlyAfterLr` speaks of the history variable `lr`,
  the code of `memory_reservation`; `ReservationIsLr` (they are equal) is the
  inductive invariant that connects them.
- *Host loop.* `EveryAttemptSeesTheArguments` is inductive: an instruction sets
  `yielded` as it yields, and no poll, drop or repeated call writes a register before the
  answer does.
- *Debugger.* Neither `NeverPassesBreakpoint` nor `StopReasonIsTrue` is inductive. The
  invariant is `DebuggerInv`: the types and `SessionConsistent`, whose parts are that an
  address is in as many slots as the client added and did not remove (`SlotsCounted`), that a
  call is under way exactly while the loop is in `step()` (`CallMatchesLoop`), that a single
  step has executed at most one instruction (`StepIsOne`), and that the loop never comes
  back to `step()` on a breakpoint (`AwayFromBreakpoints`). `SlotsCounted` connects the slots the
  code searches with what the client asked for. `Transparency` also needs that reading a CSR,
  which the code does by an operation that sets no bits, writes back what was there; that is so
  for `mtvec` because it is always aligned (`MtvecAligned`, an invariant of its own), and for
  `mepc` only when it is even, which is the exception `SessionIsTransparent` states (see the
  odd `mepc` of section 4).
- *Memory.* `SliceMemoryIsFlat` is step simulation: `InitImplements`, and
  `NextImplements` under the invariant that the slices hold bytes. A load is a `Read`
  (`LoadIsRead`): `LoadSucceeds` shows that `checked_slice_range` accepts exactly the
  spans inside one region, for a RAM access through the wrapped subtraction (`RamIndex`: it is
  past every RAM slice for a code address), and `LoadReads` that `from_le_bytes` is the
  sum of the weighted bytes (Horner's rule, `WeightedSum`). A store is a `Write`
  (`StoreIsWrite`): `StoredIsWritten` compares the memories byte by byte.
  `MemoryLemmas` holds the facts on words and slices that the proof modules use.
- *Multiplication and division.* For division, the truncated quotient and its remainder
  satisfy the defining equation with the remainder's sign and size (`TruncDivExact`), and the
  quotient is an `i32` except for the smallest number by -1 (`SignedDivision`,
  `OverflowDivision`), so wrapping loses nothing. For products, the
  operands read as signed and as unsigned differ by multiples of `MOD`, so the low word does not
  depend on it (`LowWord`); the high word is the quotient by `MOD`, within range because the
  product is (`ProductFits`, `HighWord`).
- *Transpiler.* `SliceImage` is not inductive. `TranspilerInv` adds `Converting`, that while
  `transpile_raw` runs its slice is the section just copied, inside the buffer, converted
  exactly up to where it is; and `InOrder`, that bytes in the buffer come from sections the loop
  has passed. The former makes each conversion the first of its bytes, the latter lets
  the copy of a section replace an earlier one and never a later one. `OkOnlyWhenValid` and
  `EveryInstructionFetchable` need two more invariants on top of it. `ValidInv`: the sections
  passed are valid or were dropped as empty (`Examined`), and the instructions of the current one that begin before `i` have been
  converted. The starts of instructions are defined as the least set closed under following
  the sizes (`Starts`), so that the positions the loop has visited, being closed, contain them
  all without an induction (`StartsVisited`). `FetchInv`: of the code passed, every instruction
  has its four bytes below `binary_size`, or `needs_padding` is set and two bytes are missing at
  most. That only empty sections are dropped with entry 0 is `OnlyEmptyIgnored`: rounding up
  never lowers an address (`MultipleAbove`). `OnlyTwoPanics` needs `StartInv`, that `i` is always
  at the start of an instruction of the section as it was in the file; so a conversion that
  would pass the end is one of truncated code. That `output[offset..end_offset]` is in range is
  `CopyInRange`.
- *Compressed instructions.* One lemma per handler: both instructions are unfolded to the new
  registers, program counter and memory. `c.mv` and `c.li` are an addition to `x0` in the
  manual and a copy in the code, which is where the assumption on `add` is used.
- *Conversion.* A word is a set of bits, so that the facts about shifts and masks are facts about
  membership, checked for each bit. `RoundTrip`: for each of the 19 Embive formats and every
  record of fields that fits it, `from_embive` reads what `to_embive` wrote, whatever is in the
  bits above it; with the opcode, `Decodes`. `FromI` to `FromCJ`: `from_riscv` finds the registers
  where the manual has them, its immediate is the manual's, and the fields fit the format the word
  is converted to. `HalfwordRows` and `LoadAgrees` to `OtherAgrees` visit the rows of the
  manual: a word with the row's fixed fields takes the branch of `convert` for that
  instruction, and the function it is renumbered to has the row's name in Embive's table
  (`ArmsConvert`). `HalfwordReturns` and `WordReturns` say what `convert` returns for words that
  are no instruction, and `LowConverts` that no 16-bit format looks at the high half.

**Model-checked only.**

- Liveness (`SessionEnds`, `WaitIsServed`, `BreakRequestServed`, `HangupEndsSession`), which
  needs fairness.
- `DebuggingIsInvisible` and `HaltsWithTheSameResult`, which compare the result with that of one
  given guest program. `Transparency` is the step-by-step form of the former, for every guest.
- `ShiftsMoveBits` and `OperationIsMasked`, about the bits of a word: the prover does
  not interpret bitwise operators.
- `ImageFaithful` and `SoundIsTranslated`, stated against files laid out by a fold over their
  pieces, of which each section knows the load address that the transpiler has to find: an
  induction over the data. `SliceImage` and `OkOnlyWhenValid` are what is proved in their place,
  for every file. That a sound file is always translated is left to TLC.

## 6. Not modelled

- User implementations of the `Memory` trait, and `MemoryType` for `u64`, `u128`,
  `f32`, `f64` and `bool`, which the interpreter itself never uses.
- A host that replaces `registers.control_status` wholesale with another value.
- `Error` variants the modelled code cannot produce: `InvalidCPURegister`
  (a decoded register field has five bits), `InvalidProgramCounter` and
  `NoSyscallFunction` (never constructed), the error arms of `LoadStore` and
  `OpImm`, whose three-bit function field is fully defined.
- `from_embive` and `to_embive` of `TypeS`, which nothing calls: stores are converted to
  `TypeI`.
- The `elf` crate: what it reports is the input of `Transpiler`, any error of it included.
  Section headers out of address order are not among the files TLC checks (`SliceIsFaithful`
  and `OnlyValidFiles` cover them); nor are overlapping segments.
- A host of the transpiler whose `usize` has 32 bits, on which `offset + size`
  (`transpiler.rs:122`) could overflow: the model takes `usize` to be wider than `u32`.
- In the debugger, the client's writes in full: it writes a register together with the program
  counter, and memory in a few sizes. No property depends on which it chooses.
- In the debugger, the replies to the client and the byte encoding of registers
  (a short buffer is a non-fatal error without effect), and a build with overflow
  checks, in which `cycles += 1` (an `i32`) panics after 2^31 instructions of one
  uninterrupted run; the model is the release build, where it wraps.
- `likely`/`unlikely` (compiler hints) and the fuzz targets (test harnesses).

## 7. Plan

Done: every component of section 1, the refinement of the memory, and the theorems above. What
would come next:

1. An abstract machine over `FlatMemory`, one atomic transition per instruction, that
   `Interpreter` implements.
2. The bitwise operators as sets of bits, as in `Format`, so that `OperationIsMasked` and
   `ShiftsMoveBits` come within reach of the prover.
3. That every sound file is translated, for every file: from `SliceImage` and the absence of
   overflow.
