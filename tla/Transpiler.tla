----------------------------- MODULE Transpiler -----------------------------
(***************************************************************************)
(* The translation of a RISC-V ELF file to an Embive binary                *)
(* (transpiler.rs), into a caller's buffer (transpile_elf) or a growing    *)
(* vector (transpile_elf_vec).  A byte is known by where it comes from and *)
(* by how often an instruction conversion has rewritten it; what convert   *)
(* does to the bits of one instruction is module Convert.                  *)
(***************************************************************************)
EXTENDS Integers, Sequences, FiniteSets, FiniteSetsExt

CONSTANTS U32,      \* the number of u32 values
          Mode,     \* "slice": transpile_elf; "vec": transpile_elf_vec
          Elfs,     \* the ELF files to translate
          Capacities(_) \* the sizes of the output buffer tried with a file

ASSUME TranspilerAssumption == U32 \in Nat \ {0} /\ Mode \in {"slice", "vec"}

Errors == {"ErrorParsingELF", "NoProgramHeader", "NoSectionHeader", "InvalidPlatform",
           "NoSegmentForSection", "UnsupportedCompression", "BufferTooSmall",
           "InvalidInstruction"}

(***************************************************************************)
(* An ELF file is a record: header, "Ok" or the error the headers give;    *)
(* entry; segments, with vaddr, paddr and memsz; and sections, with load   *)
(* (ProgBits and Alloc), exec, addr, size, align, read ("Ok" or the error  *)
(* section_data gives) and data.  data[j] says what an instruction that    *)
(* starts at byte j is: "half" (16-bit), "word" (32-bit) or "bad".         *)
(* Addresses, sizes and alignments are what `as u32` leaves of them; where *)
(* a section or a segment lies is otherwise up to the file.                *)
(***************************************************************************)
ASSUME ElfAssumption ==
  \A f \in Elfs :
    /\ Capacities(f) \subseteq Nat
    /\ f.header \in {"Ok"} \cup Errors /\ f.entry \in 0..(U32 - 1)
    /\ f.segments \in Seq([vaddr : 0..(U32 - 1), paddr : 0..(U32 - 1), memsz : 0..(U32 - 1)])
    /\ Len(f.sections) \in Nat
    /\ \A k \in 1..Len(f.sections) :
         LET s == f.sections[k]
         IN  /\ s.load \in BOOLEAN /\ s.exec \in BOOLEAN /\ s.read \in {"Ok"} \cup Errors
             /\ s.addr \in 0..(U32 - 1) /\ s.size \in 0..(U32 - 1) /\ s.align \in 0..(U32 - 1)

VARIABLES elf,
          out,            \* output: a function from 0 .. length - 1 to bytes
          sec,            \* the section the loop is at
          offset, end_offset, i,        \* the code being converted, and where
          binary_size, needs_padding,
          status          \* "Parse", "Sections", "Raw", or how it ended: "Panic"
                          \* in every build, "Overflow" in one that checks for it

vars == <<elf, out, sec, offset, end_offset, i, binary_size, needs_padding, status>>

\* The caller's byte, the j-th byte of section s converted c times, and a 0.
Blank == [sec |-> 0, idx |-> 0, conv |-> 0]
Byte(s, j, c) == [sec |-> s, idx |-> j, conv |-> c]
PadByte == [sec |-> -1, idx |-> 0, conv |-> 0]

Init == /\ elf \in Elfs
        /\ \E n \in IF Mode = "slice" THEN Capacities(elf) ELSE {0} :
             out = [p \in 0..(n - 1) |-> Blank]
        /\ sec = 1 /\ offset = 0 /\ end_offset = 0 /\ i = 0
        /\ binary_size = 0 /\ needs_padding = FALSE
        /\ status = "Parse"

Length == Cardinality(DOMAIN out)

-----------------------------------------------------------------------------
(* Address arithmetic                                                      *)

Plus(a, b) == (a + b) % U32
Minus(a, b) == (a - b) % U32
NextMultiple(a, n) == ((a + n - 1) \div n) * n

\* Every operator below is about one section of the file.
SegmentContains(g, s) == s.addr >= g.vaddr /\ Plus(s.addr, s.size) <= Plus(g.vaddr, g.memsz)
Containing(s) == {k \in DOMAIN elf.segments : SegmentContains(elf.segments[k], s)}
Segment(s) == elf.segments[Min(Containing(s))]
Paddr(s) == Plus(Minus(s.addr, Segment(s).vaddr), Segment(s).paddr)

\* Mutant: the offset is taken from address 0.
Offset_Absolute(s) == NextMultiple(Paddr(s), s.align) % U32

\* The section's offset from the entry point, at the next aligned address.
Offset(s) == NextMultiple(Minus(Paddr(s), elf.entry), s.align) % U32

\* usize is taken to be wider than u32, as on a 64-bit host.
EndOffset(s) == Offset(s) + s.size

\* Where a build with overflow checks panics; a release build wraps around.
SearchOverflows(s) ==
  \E k \in DOMAIN elf.segments :
    LET g == elf.segments[k]
    IN  /\ \A j \in Containing(s) : k <= j
        /\ s.addr >= g.vaddr
        /\ s.addr + s.size >= U32 \/ g.vaddr + g.memsz >= U32

OffsetOverflows(s) == \/ s.addr - Segment(s).vaddr + Segment(s).paddr >= U32
                      \/ Paddr(s) < elf.entry
                      \/ s.align # 0 /\ NextMultiple(Minus(Paddr(s), elf.entry), s.align) >= U32

-----------------------------------------------------------------------------
(* append_fn: the slice is written at the offset, the vector at its end    *)

\* Mutants: the end of the buffer is not checked; it is taken for one byte
\* less, or for one byte more.
Fits_Unchecked(at, data) == TRUE
Fits_Strict(at, data) == Mode = "vec" \/ at + Len(data) < Length
Fits_Loose(at, data) == Mode = "vec" \/ at + Len(data) <= Length + 1

Fits(at, data) == Mode = "vec" \/ at + Len(data) <= Length

Appended(at, data) ==
  LET first == IF Mode = "vec" THEN Length ELSE at
      n == IF Mode = "vec" THEN Length + Len(data) ELSE Length
  IN  [p \in 0..(n - 1) |-> IF p \in first..(first + Len(data) - 1) THEN data[p - first + 1]
                            ELSE out[p]]

-----------------------------------------------------------------------------
(* elf_transpiler_impl                                                     *)

\* Return with an error, or panic: nothing else of the state is used after.
Return(result) == /\ status' = result
                  /\ UNCHANGED <<elf, out, sec, offset, end_offset, i, binary_size, needs_padding>>

Parse == /\ status = "Parse"
         /\ IF elf.header = "Ok" THEN status' = "Sections" ELSE status' = elf.header
         /\ UNCHANGED <<elf, out, sec, offset, end_offset, i, binary_size, needs_padding>>

AtSection == status = "Sections" /\ sec <= Len(elf.sections)
Current == elf.sections[sec]

\* Mutant: where the section begins is taken for where it ends.
Ignored_Offset(s) == Offset(s) = Paddr(s)

\* "Ignore empty sections"
Ignored(s) == EndOffset(s) = Paddr(s)

SkipSection == /\ AtSection
               /\ ~Current.load \/ (/\ Containing(Current) # {}
                                    /\ Current.align # 0
                                    /\ Ignored(Current))
               /\ sec' = sec + 1
               /\ UNCHANGED <<elf, out, offset, end_offset, i, binary_size, needs_padding, status>>

NoSegment == /\ AtSection /\ Current.load
             /\ Containing(Current) = {}
             /\ Return("NoSegmentForSection")

\* div_ceil by zero.
PanicAtSection == /\ AtSection /\ Current.load
                  /\ Containing(Current) # {} /\ Current.align = 0
                  /\ Return("Panic")

OverflowAtSection == /\ AtSection /\ Current.load
                     /\ \/ SearchOverflows(Current)
                        \/ Containing(Current) # {} /\ OffsetOverflows(Current)
                     /\ Return("Overflow")

\* Mutant: any section after the code ends the need for padding.
CoversFetch_Any(data) == TRUE

\* A section that gives the fetch of the previous one its four bytes.
CoversFetch(data) == Len(data) >= 2

CopySection ==
  /\ AtSection /\ Current.load
  /\ Containing(Current) # {} /\ Current.align # 0
  /\ ~Ignored(Current)
  /\ LET data == [j \in 1..Current.size |-> Byte(sec, j, 0)]
         at == Offset(Current)
         end == EndOffset(Current)
     IN  IF Current.read # "Ok" THEN Return(Current.read)
         ELSE IF ~Fits(at, data) THEN Return("BufferTooSmall")
         ELSE /\ out' = Appended(at, data)
              /\ binary_size' = Max({binary_size, end})
              /\ IF Current.exec
                 THEN /\ status' = IF end <= Cardinality(DOMAIN out') THEN "Raw" ELSE "Panic"
                      /\ offset' = at /\ end_offset' = end /\ i' = 0
                      /\ needs_padding' = FALSE
                      /\ UNCHANGED <<elf, sec>>
                 ELSE /\ needs_padding' = (needs_padding /\ ~CoversFetch(data))
                      /\ sec' = sec + 1
                      /\ UNCHANGED <<elf, offset, end_offset, i, status>>

-----------------------------------------------------------------------------
(* transpile_raw, on output[offset..end_offset]                            *)

\* What stands at a byte of the output; a converted byte may read as anything.
KindsOf(b) == IF b.sec > 0 /\ b.conv = 0 THEN {elf.sections[b.sec].data[b.idx]}
              ELSE {"half", "word", "bad"}

InstSize(kind) == IF kind = "word" THEN 4 ELSE 2

\* The instruction at a position, converted and copied back.
Converted(at, size) ==
  [p \in DOMAIN out |-> IF p \in at..(at + size - 1) THEN [out[p] EXCEPT !.conv = @ + 1]
                       ELSE out[p]]

ConvertNext ==
  /\ status = "Raw" /\ offset + i + 2 <= end_offset
  /\ \E kind \in KindsOf(out[offset + i]) :
       LET here == offset + i
           next == here + InstSize(kind)
       IN  \/ /\ kind = "bad"
              /\ Return("InvalidInstruction")
           \/ \* half of a 32-bit instruction: an error or an index out of range
              /\ kind = "word" /\ next > end_offset
              /\ \E result \in {"InvalidInstruction", "Panic"} : Return(result)
           \/ /\ kind # "bad" /\ next <= end_offset
              /\ out' = Converted(here, InstSize(kind))
              /\ i' = i + InstSize(kind)
              /\ needs_padding' = (needs_padding \/ here + 4 > end_offset)
              /\ UNCHANGED <<elf, sec, offset, end_offset, binary_size, status>>

\* Mutant: the loop stops before a 16-bit instruction at the end.
RawDone_Early == /\ status = "Raw" /\ offset + i + 4 > end_offset
                 /\ sec' = sec + 1 /\ status' = "Sections"
                 /\ UNCHANGED <<elf, out, offset, end_offset, i, binary_size, needs_padding>>

RawDone == /\ status = "Raw" /\ offset + i + 2 > end_offset
           /\ sec' = sec + 1 /\ status' = "Sections"
           /\ UNCHANGED <<elf, out, offset, end_offset, i, binary_size, needs_padding>>

-----------------------------------------------------------------------------
Padding == <<PadByte, PadByte>>

\* "Add padding if needed", and the return.
Finish == /\ status = "Sections" /\ sec > Len(elf.sections)
          /\ \/ /\ needs_padding /\ ~Fits(binary_size, Padding)
                /\ Return("BufferTooSmall")
             \/ /\ needs_padding /\ Fits(binary_size, Padding)
                /\ out' = Appended(binary_size, Padding)
                /\ binary_size' = binary_size + 2
                /\ status' = "Ok"
                /\ UNCHANGED <<elf, sec, offset, end_offset, i, needs_padding>>
             \/ /\ ~needs_padding
                /\ Return("Ok")

\* The caller has its answer.
Returned == status \in {"Ok", "Panic", "Overflow"} \cup Errors
Stop == Returned /\ UNCHANGED vars

Next == \/ Parse \/ SkipSection \/ NoSegment \/ PanicAtSection \/ OverflowAtSection
        \/ CopySection \/ ConvertNext \/ RawDone \/ Finish \/ Stop

Spec == Init /\ [][Next]_vars

\* The binary: as many bytes of the buffer as transpile_elf returns, or all
\* of the vector.
Size == IF Mode = "vec" THEN Length ELSE binary_size

OutByte == [sec : -1..Len(elf.sections), idx : Nat, conv : Nat]

(* Types, and: an offset is a u32, and what is said to be the size of the  *)
(* binary never passes the end of the caller's buffer.                     *)
TranspilerTypeOK ==
  /\ elf \in Elfs
  /\ Length \in Nat /\ out \in [0..(Length - 1) -> OutByte]
  /\ sec \in 1..(Len(elf.sections) + 1)
  /\ offset \in 0..(U32 - 1) /\ end_offset \in Nat /\ i \in 0..U32
  /\ binary_size \in Nat /\ (Mode = "slice" => binary_size <= Length)
  /\ needs_padding \in BOOLEAN
  /\ status \in {"Parse", "Sections", "Raw", "Ok", "Panic", "Overflow"} \cup Errors

\* The sections the loop has copied.
Copied == {k \in 1..(sec - 1) : elf.sections[k].load /\ ~Ignored(elf.sections[k])}

\* A byte b at p that comes from a section is at the section's offset; code
\* is converted once, of the sections before the n-th all but the last byte
\* of an odd number.
InPlace(b, p, n) ==
  LET s == elf.sections[b.sec]
  IN  IF b.sec <= 0 THEN b.conv = 0
      ELSE /\ s.load /\ b.idx \in 1..s.size /\ p = Offset(s) + b.idx - 1
           /\ b.conv \in 0..1 /\ (b.conv = 1 => s.exec)
           /\ s.exec /\ b.sec < n /\ b.idx < s.size => b.conv = 1

BytesInPlace == \A p \in DOMAIN out : InPlace(out[p], p, sec)

\* Where a section was copied there is that section, or a later one over it.
NothingLost ==
  \A k \in Copied :
    \A p \in Offset(elf.sections[k])..(EndOffset(elf.sections[k]) - 1) :
      p \in DOMAIN out /\ p < binary_size /\ out[p].sec >= k

(* transpile_elf and transpile_raw, for sections in any order and however  *)
(* they overlap: at every moment, and also when the translation fails,     *)
(* each byte of the caller's buffer that was written is the byte of a      *)
(* loaded section at that section's offset, or padding; code is converted  *)
(* exactly once (copying a section over another one starts over), data     *)
(* never; and no section that was copied is lost to the padding, to the    *)
(* end of the buffer or to an earlier section.                             *)
SliceImage == Mode = "slice" => BytesInPlace /\ NothingLost

-----------------------------------------------------------------------------
(* Fetching from the binary                                                *)

\* Where the instructions of a code section start: the first is at byte 1,
\* and each starts where the one before it ends.  Instructions are the ones
\* that the section holds to their last byte.
Follows(S, s) == /\ s.size > 0 => 1 \in S
                 /\ \A j \in S : LET next == j + InstSize(s.data[j])
                                 IN  next <= s.size => next \in S
Starts(s) == {j \in 1..s.size : \A S \in SUBSET (1..s.size) : Follows(S, s) => j \in S}
Instructions(s) == {j \in Starts(s) : j + InstSize(s.data[j]) - 1 <= s.size}

\* The file lists its sections in the order of their addresses, and every code
\* section that is copied holds an instruction.
AddressOrder ==
  \A k \in 1..Len(elf.sections) :
    LET s == elf.sections[k]
    IN  s.load /\ ~Ignored(s) =>
          /\ s.exec => s.size >= 2
          /\ \A j \in 1..(k - 1) :
               LET r == elf.sections[j]
               IN  r.load /\ ~Ignored(r) => EndOffset(r) <= Offset(s)

\* From every instruction of s there are four bytes below size.
Fetchable(s, size) == \A j \in Instructions(s) : Offset(s) + (j - 1) + 4 <= size

(* fetch loads four bytes even for a 16-bit instruction ("Interpreter      *)
(* fetches 4 bytes at a time"): from every instruction of a binary that    *)
(* transpile_elf returns there are four bytes to fetch, whatever section   *)
(* comes last and however small it is.  needs_padding is about the section *)
(* the loop was last at, so the sections have to come in the order of      *)
(* their addresses, as linkers put them.                                   *)
EveryInstructionFetchable ==
  status = "Ok" /\ Mode = "slice" /\ AddressOrder =>
    \A k \in Copied : elf.sections[k].exec => Fetchable(elf.sections[k], Size)

-----------------------------------------------------------------------------
(* How a translation ends                                                  *)

\* Read and converted to the last byte (but for an odd one).
Valid(s) == /\ s.read = "Ok"
            /\ s.exec => \A j \in Starts(s) :
                           j < s.size => s.data[j] # "bad" /\ j \in Instructions(s)

\* A section that the loop drops as empty.  It is empty if the entry point is
\* 0; with another one the test is off by the entry (transpiler.rs:125), and
\* where addresses wrap around, by that.
TakenForEmpty(s) == Ignored(s) /\ (s.size = 0 \/ elf.entry # 0 \/ OffsetOverflows(s))

(* transpile_elf: a binary is returned only for a file with valid headers, *)
(* of which every loaded section has its segment and is read and converted *)
(* to its end, in whatever section the fault is: no binary holds code that *)
(* was converted in part.  That goes for every section that has bytes if   *)
(* the entry point is 0.  With another entry it does not go for the        *)
(* sections TakenForEmpty: the code drops them unread, bytes and all.      *)
OkOnlyWhenValid ==
  status = "Ok" /\ Mode = "slice" =>
    /\ elf.header = "Ok"
    /\ \A k \in 1..Len(elf.sections) :
         LET s == elf.sections[k]
         IN  s.load => /\ Containing(s) # {} /\ s.align # 0
                       /\ Valid(s) \/ TakenForEmpty(s)

\* Code that ends in the first half of a 32-bit instruction.
Truncated(s) == \E j \in Starts(s) : j < s.size /\ j \notin Instructions(s)

(* README.md:12 promises "no panics on release builds".                    *)
NoPanic == status # "Panic"

(* What is true of that: transpile_elf panics in a release build only for  *)
(* a section with alignment 0 (div_ceil) or with truncated code (the slice *)
(* transpile_raw copies back to).  In particular output[offset..end_offset] *)
(* and every other access to the buffer is in range, for every file and    *)
(* buffer: what does not fit is an error.                                  *)
OnlyTwoPanics ==
  status = "Panic" /\ Mode = "slice" =>
    \E k \in 1..Len(elf.sections) :
      LET s == elf.sections[k]
      IN  s.load /\ (s.align = 0 \/ (s.exec /\ Truncated(s)))

=============================================================================
