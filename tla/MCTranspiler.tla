---------------------------- MODULE MCTranspiler ----------------------------
(***************************************************************************)
(* Model checking of the ELF translation.  Files are laid out the way      *)
(* linkers do: sections one after another in load memory from the entry    *)
(* point on, each at a multiple of its alignment, the data sections with a *)
(* virtual address in another segment.  Each section carries its load      *)
(* address lma, which the transpiler does not see and has to find.         *)
(***************************************************************************)
EXTENDS Transpiler, SequencesExt

H == <<"half", "bad">>
W == <<"word", "bad", "bad", "bad">>
Junk(n) == [j \in 1..n |-> "bad"]

\* What a linker is asked to place.  size is Len(data).
Piece(role, align, data) == [role |-> role, align |-> align, data |-> data]

RamBase == 32

\* Section of a piece at load address a.
Section(piece, a) ==
  [load |-> piece.role # "bss", exec |-> piece.role = "text", read |-> "Ok",
   addr |-> IF piece.role = "data" THEN RamBase + a ELSE a, size |-> Len(piece.data),
   align |-> piece.align, data |-> piece.data, lma |-> a]

\* Load addresses: a bss section takes no room in load memory.
Place(placed, piece) ==
  LET a == NextMultiple(placed.at, piece.align)
  IN  [at |-> IF piece.role = "bss" THEN placed.at ELSE a + Len(piece.data),
       sections |-> Append(placed.sections, Section(piece, a))]

\* The first segment is an empty one (a stack note), as in the test file.
Linked(entry, pieces) ==
  LET placed == FoldLeft(Place, [at |-> entry, sections |-> <<>>], pieces)
      size == placed.at - entry
  IN  [header |-> "Ok", entry |-> entry, sections |-> placed.sections,
       segments |-> << [vaddr |-> 0, paddr |-> 0, memsz |-> 0],
                       [vaddr |-> entry, paddr |-> entry, memsz |-> size],
                       [vaddr |-> RamBase + entry, paddr |-> entry, memsz |-> size] >>]

-----------------------------------------------------------------------------
(* What a translation has to produce                                       *)

Loaded == {k \in DOMAIN elf.sections : elf.sections[k].load}
Code == {k \in Loaded : elf.sections[k].exec}

\* An empty section has no place.
NonEmpty == {k \in Loaded : elf.sections[k].size > 0}
ImageEnd == Max({0} \cup {elf.sections[k].lma - elf.entry + elf.sections[k].size : k \in NonEmpty})

\* The byte of the file that belongs at position p of the binary, if any.
Expected(p) == {Byte(k, p - (elf.sections[k].lma - elf.entry) + 1, IF k \in Code THEN 1 ELSE 0) :
                  k \in {s \in Loaded : p - (elf.sections[s].lma - elf.entry) \in 0..(elf.sections[s].size - 1)}}

\* The test for empty sections finds exactly those.  It does if the entry
\* point is 0; otherwise it is off by the entry (transpiler.rs:125).
EmptyFound == \A k \in Loaded : Ignored(elf.sections[k]) <=> k \notin NonEmpty

(* transpile_elf and transpile_elf_vec: "Write the section data to the     *)
(* output buffer (handling the alignment and address translation)". In a   *)
(* returned binary every loaded byte has its place, at its load address    *)
(* relative to the entry point, code is converted exactly once and data    *)
(* never; what is between sections was not touched, and after the last     *)
(* only zeros are added.  Not so for the files on which the test for empty *)
(* sections is wrong: there it drops bytes, or pads beyond an empty section. *)
ImageFaithful ==
  status = "Ok" /\ EmptyFound =>
    /\ \A k \in NonEmpty : elf.sections[k].lma >= elf.entry
    /\ ImageEnd <= Size /\ Size <= Length
    /\ \A p \in DOMAIN out : CASE Expected(p) # {} -> out[p] \in Expected(p)
                               [] p < ImageEnd \/ p >= Size -> out[p] = Blank
                               [] OTHER -> out[p] = PadByte

\* Something is wrong with the file.  An alignment of 0 is not: ELF has it
\* mean no constraint.
Defective ==
  \/ elf.header # "Ok"
  \/ \E k \in Loaded : LET s == elf.sections[k]
                       IN  \/ s.read # "Ok" \/ s.lma < elf.entry
                           \/ \A n \in DOMAIN elf.segments : ~SegmentContains(elf.segments[n], s)
  \/ \E k \in Code : LET s == elf.sections[k]
                     IN  \E j \in Starts(s) : s.data[j] = "bad" \/ j \notin Instructions(s)

\* What the code panics on although ELF allows it (transpiler.rs:119).
WithoutAlignment == \E k \in Loaded : elf.sections[k].align = 0

(* elf_transpiler_impl: a sound file is always translated, with no error   *)
(* and no panic in any build, into a buffer that holds the image and two   *)
(* bytes of padding.  Two kinds of sound files are left out, with which    *)
(* the code is at fault: a section without alignment, on which it panics,  *)
(* and a section on which the test for empty ones is wrong.                *)
SoundIsTranslated ==
  Returned /\ ~Defective /\ ~WithoutAlignment /\ EmptyFound /\ Length >= ImageEnd + 2
    => status = "Ok"

-----------------------------------------------------------------------------
(* The files                                                               *)

Texts == {Piece("text", 2, d) : d \in {H, W \o H}}
           \cup {Piece("text", 4, d) : d \in {H, W, H \o W, H \o H}}
EmptyText == Piece("text", 4, <<>>)
Datas == {Piece("rodata", 1, Junk(1)), Piece("rodata", 4, Junk(4)), Piece("data", 1, Junk(1)),
          Piece("data", 4, Junk(2)), Piece("data", 8, Junk(3)), Piece("data", 4, <<>>),
          Piece("bss", 4, Junk(4))}

Pieces == {<<t>> : t \in Texts}
            \cup {<<t, u>> : t \in Texts, u \in Datas \cup Texts \cup {EmptyText}}
            \cup {<<t, u, v>> : t \in Texts, u \in Datas \cup Texts \cup {EmptyText}, v \in Datas}

Sound == {Linked(e, ps) : e \in {0, 8}, ps \in Pieces}

\* Eight bytes of code at the entry, which is 8: taken for empty.
DroppedCode == Linked(8, <<Piece("text", 4, Junk(8)), Piece("text", 4, W)>>)

\* One thing wrong with a file of two sections.
Base == {Linked(e, <<Piece("text", 4, W \o H), Piece("data", 4, Junk(3))>>) : e \in {0, 16}}
Spoiled(f) ==
  {[f EXCEPT !.header = e] : e \in {"ErrorParsingELF", "NoProgramHeader", "NoSectionHeader",
                                    "InvalidPlatform"}}
  \cup {[f EXCEPT !.sections[2].read = e] : e \in {"ErrorParsingELF", "UnsupportedCompression"}}
  \cup {[f EXCEPT !.sections[k].align = 0] : k \in 1..2}
  \cup {[f EXCEPT !.segments[3].memsz = 1], [f EXCEPT !.segments[3].memsz = U32 - 1]}
  \cup {[f EXCEPT !.sections[1].data[5] = "bad"], [f EXCEPT !.sections[1].data[5] = "word"]}
BelowEntry == [Linked(8, <<Piece("text", 4, W), Piece("data", 4, Junk(3))>>) EXCEPT
                 !.segments[3].paddr = 0, !.sections[2].lma = 4]

\* A second section that overlaps the first.
Overlapping ==
  {[Linked(e, <<Piece("text", 4, W \o H), q>>) EXCEPT !.sections[2].addr = e + q.align,
                                                     !.sections[2].lma = e + q.align] :
     e \in {0, 16}, q \in {Piece("text", 4, W), Piece("text", 4, H \o H \o H),
                          Piece("text", 2, H \o W), Piece("rodata", 1, Junk(1))}}

AllFiles == Sound \cup {DroppedCode, BelowEntry} \cup UNION {Spoiled(f) : f \in Base}
              \cup Overlapping
MCElfs == AllFiles

\* Files as they should be, and with alignment 0, which ELF allows.
PanicFiles == Base \cup {[f EXCEPT !.sections[k].align = 0] : f \in Base, k \in 1..2}

\* Buffers around the size of the image, which ends at End.
End(f) == IF f.segments[2].memsz > 40 THEN 0 ELSE f.segments[2].memsz
SomeCapacities(f) == {0, End(f) - 1, End(f), End(f) + 1, End(f) + 2, End(f) + 10} \cap Nat

\* Files of two sections with and without room between them.
VecFiles == {Linked(0, <<t, u>>) : t \in Texts, u \in Datas}

=============================================================================
