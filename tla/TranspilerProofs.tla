--------------------------- MODULE TranspilerProofs --------------------------
(***************************************************************************)
(* Theorems about the ELF translation, for every file and every buffer.    *)
(***************************************************************************)
EXTENDS Transpiler, FiniteSetTheorems, SequenceTheorems, WellFoundedInduction, TLAPS

-----------------------------------------------------------------------------
(* The inductive invariant                                                 *)

\* While transpile_raw runs, its slice is the section just copied, inside
\* the buffer, converted up to the instruction it is at.
Converting ==
  status = "Raw" =>
    /\ sec <= Len(elf.sections)
    /\ Current.load /\ Current.exec /\ ~Ignored(Current)
    /\ offset = Offset(Current) /\ end_offset = EndOffset(Current)
    /\ end_offset <= Length /\ end_offset <= binary_size
    /\ offset + i <= end_offset
    /\ Mode = "slice" =>
         \A p \in offset..(end_offset - 1) :
           out[p] = Byte(sec, p - offset + 1, IF p < offset + i THEN 1 ELSE 0)

\* The sections are copied in their order.
InOrder ==
  \A p \in DOMAIN out :
    /\ out[p].sec <= sec
    /\ status \in {"Parse", "Sections"} => out[p].sec < sec

TranspilerInv == TranspilerTypeOK /\ Converting /\ InOrder /\ SliceImage

-----------------------------------------------------------------------------
(* The file                                                                *)

(* A nonempty set of naturals has a least element.                         *)
LEMMA MinIsMember ==
  ASSUME NEW S \in SUBSET Nat, S # {}
  PROVE  Min(S) \in S
  <1> DEFINE R == OpToRel(<, Nat)
  <1>1. IsWellFoundedOn(R, Nat)
    BY NatLessThanWellFounded
  <1>2. \A x, y \in Nat : y < x => <<y, x>> \in R
    BY DEF OpToRel
  <1> HIDE DEF R
  <1>3. PICK x \in S : \A y \in S : <<y, x>> \notin R
    BY <1>1, WFMin
  <1>4. \A y \in S : x <= y
    <2> SUFFICES ASSUME NEW y \in S PROVE x <= y
      OBVIOUS
    <2>1. x \in Nat /\ y \in Nat
      OBVIOUS
    <2>2. ~(y < x)
      BY <1>2, <1>3, <2>1
    <2> QED
      BY <2>1, <2>2
  <1> QED
    BY <1>4 DEF Min

(* What an ELF file holds.                                                 *)
LEMMA FileType ==
  ASSUME NEW f \in Elfs
  PROVE  /\ f.header \in {"Ok"} \cup Errors /\ f.entry \in Int
         /\ Len(f.sections) \in Nat /\ Len(f.segments) \in Nat
         /\ DOMAIN f.segments = 1..Len(f.segments)
         /\ \A k \in DOMAIN f.segments : f.segments[k].vaddr \in Int /\ f.segments[k].paddr \in Int
         /\ \A k \in 1..Len(f.sections) :
              /\ f.sections[k].load \in BOOLEAN /\ f.sections[k].exec \in BOOLEAN
              /\ f.sections[k].read \in {"Ok"} \cup Errors
              /\ f.sections[k].addr \in Int /\ f.sections[k].align \in Nat
              /\ f.sections[k].size \in 0..(U32 - 1)
  <1> DEFINE SEG == [vaddr : 0..(U32 - 1), paddr : 0..(U32 - 1), memsz : 0..(U32 - 1)]
  <1>1. f.segments \in Seq(SEG)
    BY ElfAssumption
  <1>2. \A g \in SEG : g.vaddr \in Int /\ g.paddr \in Int
    BY TranspilerAssumption
  <1> HIDE DEF SEG
  <1>3. /\ Len(f.segments) \in Nat /\ DOMAIN f.segments = 1..Len(f.segments)
        /\ \A k \in DOMAIN f.segments : f.segments[k] \in SEG
    BY <1>1
  <1>4. \A k \in 1..Len(f.sections) :
          /\ f.sections[k].load \in BOOLEAN /\ f.sections[k].exec \in BOOLEAN
          /\ f.sections[k].read \in {"Ok"} \cup Errors
          /\ f.sections[k].addr \in 0..(U32 - 1) /\ f.sections[k].align \in 0..(U32 - 1)
          /\ f.sections[k].size \in 0..(U32 - 1)
    BY ElfAssumption
  <1>5. 0..(U32 - 1) \subseteq Nat
    BY TranspilerAssumption
  <1>6. f.header \in {"Ok"} \cup Errors /\ f.entry \in 0..(U32 - 1) /\ Len(f.sections) \in Nat
    BY ElfAssumption
  <1> QED
    BY <1>2, <1>3, <1>4, <1>5, <1>6

(* The length of a buffer.                                                 *)
LEMMA BufferLength ==
  ASSUME NEW n \in Nat
  PROVE  Cardinality(0..(n - 1)) = n
  BY FS_Interval

(* The length of a section's data.                                         *)
LEMMA DataLength ==
  ASSUME NEW S, NEW n \in Nat, NEW data \in [1..n -> S]
  PROVE  Len(data) = n
  <1>1. data \in Seq(S)
    BY SeqDef
  <1>2. Len(data) \in Nat /\ DOMAIN data = 1..Len(data)
    BY <1>1, LenProperties
  <1>3. DOMAIN data = 1..n
    OBVIOUS
  <1>4. \A k \in Nat : Cardinality(1..k) = k
    BY FS_Interval
  <1> QED
    BY <1>2, <1>3, <1>4

(* Addresses and aligned offsets are u32s, and the end offset lies after.  *)
LEMMA OffsetType ==
  ASSUME elf \in Elfs, NEW k \in 1..Len(elf.sections),
         Containing(elf.sections[k]) # {}, elf.sections[k].align # 0
  PROVE  /\ Paddr(elf.sections[k]) \in 0..(U32 - 1)
         /\ Offset(elf.sections[k]) \in 0..(U32 - 1)
         /\ EndOffset(elf.sections[k]) = Offset(elf.sections[k]) + elf.sections[k].size
  <1> DEFINE s == elf.sections[k]
             g == Segment(s)
  <1>0. U32 \in Nat \ {0}
    BY TranspilerAssumption
  <1>1. s.addr \in Int /\ s.align \in Nat \ {0} /\ elf.entry \in Int
    BY FileType
  <1>2. Containing(s) \subseteq DOMAIN elf.segments /\ DOMAIN elf.segments \subseteq Nat
    BY FileType DEF Containing
  <1>3. Min(Containing(s)) \in DOMAIN elf.segments
    BY <1>2, MinIsMember
  <1>4. g.vaddr \in Int /\ g.paddr \in Int
    BY <1>3, FileType DEF Segment
  <1> HIDE DEF s, g
  <1>5. Minus(s.addr, g.vaddr) \in Int
    BY <1>0, <1>1, <1>4 DEF Minus
  <1>6. Paddr(s) \in 0..(U32 - 1)
    BY <1>0, <1>4, <1>5 DEF Paddr, Plus, g
  <1>7. Minus(Paddr(s), elf.entry) \in Int
    BY <1>0, <1>1, <1>6 DEF Minus
  <1>8. NextMultiple(Minus(Paddr(s), elf.entry), s.align) \in Int
    <2> DEFINE m == Minus(Paddr(s), elf.entry)
               n == s.align
    <2>1. m \in Int /\ n \in Nat \ {0}
      BY <1>1, <1>7
    <2> HIDE DEF m, n
    <2>2. NextMultiple(m, n) \in Int
      BY <2>1 DEF NextMultiple
    <2> QED
      BY <2>2 DEF m, n
  <1>9. Offset(s) \in 0..(U32 - 1)
    BY <1>0, <1>8 DEF Offset
  <1> QED
    BY <1>6, <1>9 DEF EndOffset, s

(* Where a section goes depends on the file alone.                         *)
LEMMA FileSame ==
  ASSUME elf' = elf
  PROVE  \A s : /\ Offset(s)' = Offset(s) /\ EndOffset(s)' = EndOffset(s)
               /\ Ignored(s)' = Ignored(s)
  <1> SUFFICES ASSUME NEW s
               PROVE  /\ Offset(s)' = Offset(s) /\ EndOffset(s)' = EndOffset(s)
                      /\ Ignored(s)' = Ignored(s)
    OBVIOUS
  <1>1. Containing(s)' = Containing(s)
    BY DEF Containing
  <1>2. Segment(s)' = Segment(s)
    BY <1>1 DEF Segment
  <1>3. Paddr(s)' = Paddr(s)
    BY <1>2 DEF Paddr
  <1>4. Offset(s)' = Offset(s)
    BY <1>3 DEF Offset
  <1>5. EndOffset(s)' = EndOffset(s)
    BY <1>4 DEF EndOffset
  <1>6. Ignored(s)' = Ignored(s)
    BY <1>3, <1>5 DEF Ignored
  <1> QED
    BY <1>4, <1>5, <1>6

LEMMA PlaceSame ==
  ASSUME elf' = elf
  PROVE  \A b, p, n : InPlace(b, p, n)' <=> InPlace(b, p, n)
  BY FileSame DEF InPlace

-----------------------------------------------------------------------------
(* The initial state                                                       *)

LEMMA InitInv == Init => TranspilerInv
  <1> SUFFICES ASSUME Init PROVE TranspilerInv
    OBVIOUS
  <1>1. PICK n \in IF Mode = "slice" THEN Capacities(elf) ELSE {0} : out = [p \in 0..(n - 1) |-> Blank]
    BY DEF Init
  <1>2. n \in Nat /\ elf \in Elfs /\ Len(elf.sections) \in Nat
    BY ElfAssumption DEF Init
  <1>3. DOMAIN out = 0..(n - 1) /\ \A p \in DOMAIN out : out[p] = Blank
    BY <1>1
  <1>4. Length = n
    BY <1>2, <1>3, BufferLength DEF Length
  <1>5. Blank \in OutByte /\ Blank.sec = 0 /\ Blank.conv = 0
    BY <1>2 DEF Blank, OutByte
  <1>6. out \in [0..(Length - 1) -> OutByte]
    BY <1>1, <1>4, <1>5
  <1>7. TranspilerTypeOK
    <2>1. /\ sec = 1 /\ offset = 0 /\ end_offset = 0 /\ i = 0 /\ binary_size = 0
          /\ needs_padding = FALSE /\ status = "Parse"
      BY DEF Init
    <2>2. sec \in 1..(Len(elf.sections) + 1) /\ offset \in 0..(U32 - 1) /\ i \in 0..U32
      BY <1>2, <2>1, TranspilerAssumption
    <2>3. end_offset \in Nat /\ binary_size \in Nat /\ Length \in Nat /\ binary_size <= Length
      BY <1>2, <1>4, <2>1
    <2>4. needs_padding \in BOOLEAN
      BY <2>1
    <2> QED
      BY <1>2, <1>6, <2>1, <2>2, <2>3, <2>4 DEF TranspilerTypeOK
  <1>8. Converting
    BY DEF Converting, Init
  <1>9. InOrder
    BY <1>3, <1>5 DEF InOrder, Init
  <1>10. BytesInPlace
    BY <1>3, <1>5 DEF BytesInPlace, InPlace
  <1>11. NothingLost
    BY DEF NothingLost, Copied, Init
  <1> QED
    BY <1>7, <1>8, <1>9, <1>10, <1>11 DEF TranspilerInv, SliceImage

-----------------------------------------------------------------------------
(* Steps that leave the buffer alone                                       *)

(* A return, or going on to the first section.                             *)
LEMMA StatusInv ==
  ASSUME TranspilerInv, status' \in {"Sections", "Ok", "Panic", "Overflow"} \cup Errors,
         status' = "Sections" => status = "Parse",
         UNCHANGED <<elf, out, sec, offset, end_offset, i, binary_size, needs_padding>>
  PROVE  TranspilerInv'
  <1>1. status' # "Raw" /\ status' # "Parse"
    BY DEF Errors
  <1>2. TranspilerTypeOK'
    BY DEF TranspilerInv, TranspilerTypeOK, Length, OutByte
  <1>3. Converting' /\ InOrder'
    BY <1>1 DEF TranspilerInv, Converting, InOrder
  <1>4. BytesInPlace => BytesInPlace'
    BY PlaceSame DEF BytesInPlace
  <1>5. NothingLost => NothingLost'
    BY FileSame DEF NothingLost, Copied
  <1> QED
    BY <1>2, <1>3, <1>4, <1>5 DEF TranspilerInv, SliceImage

LEMMA ReturnInv ==
  ASSUME TranspilerInv, NEW result \in {"Ok", "Panic", "Overflow"} \cup Errors, Return(result)
  PROVE  TranspilerInv'
  <1>1. result # "Sections"
    BY DEF Errors
  <1> QED
    BY <1>1, StatusInv DEF Return

LEMMA ParseInv == TranspilerInv /\ Parse => TranspilerInv'
  <1> SUFFICES ASSUME TranspilerInv, Parse PROVE TranspilerInv'
    OBVIOUS
  <1>1. elf.header \in {"Ok"} \cup Errors
    BY FileType DEF TranspilerInv, TranspilerTypeOK
  <1>2. status' \in {"Sections"} \cup Errors
    BY <1>1 DEF Parse
  <1> QED
    BY <1>2, StatusInv DEF Parse

LEMMA SkipSectionInv == TranspilerInv /\ SkipSection => TranspilerInv'
  <1> SUFFICES ASSUME TranspilerInv, SkipSection PROVE TranspilerInv'
    OBVIOUS
  <1>1. /\ status = "Sections" /\ status' = status /\ sec <= Len(elf.sections) /\ sec' = sec + 1
        /\ elf' = elf /\ out' = out /\ binary_size' = binary_size
        /\ offset' = offset /\ end_offset' = end_offset /\ i' = i
        /\ needs_padding' = needs_padding
        /\ ~Current.load \/ Ignored(Current)
    BY DEF SkipSection, AtSection
  <1>2. sec \in Nat \ {0} /\ elf \in Elfs /\ Len(elf.sections) \in Nat
        /\ \A p \in DOMAIN out : out[p].sec \in Int
    BY FileType DEF TranspilerInv, TranspilerTypeOK, OutByte
  <1>3. TranspilerTypeOK'
    BY <1>1, <1>2 DEF TranspilerInv, TranspilerTypeOK, Length, OutByte
  <1>4. Converting'
    BY <1>1 DEF Converting
  <1>5. \A p \in DOMAIN out : out[p].sec < sec
    <2>1. status \in {"Parse", "Sections"}
      BY <1>1
    <2> QED
      BY <2>1 DEF TranspilerInv, InOrder
  <1>6. InOrder'
    BY <1>1, <1>2, <1>5 DEF InOrder
  <1>7. BytesInPlace => BytesInPlace'
    <2>1. ASSUME BytesInPlace, NEW p \in DOMAIN out PROVE InPlace(out[p], p, sec + 1)
      BY <1>2, <1>5, <2>1 DEF BytesInPlace, InPlace
    <2> QED
      BY <1>1, <2>1, PlaceSame DEF BytesInPlace
  <1>8. Copied' = Copied
    <2>1. Copied' = {k \in 1..sec : elf.sections[k].load /\ ~Ignored(elf.sections[k])}
      BY <1>1, <1>2, FileSame DEF Copied
    <2>2. ~(elf.sections[sec].load /\ ~Ignored(elf.sections[sec]))
      BY <1>1 DEF Current
    <2>3. \A k \in 1..sec : k = sec \/ k \in 1..(sec - 1)
      BY <1>2
    <2>4. 1..(sec - 1) \subseteq 1..sec
      BY <1>2
    <2> QED
      BY <2>1, <2>2, <2>3, <2>4 DEF Copied
  <1>9. NothingLost => NothingLost'
    BY <1>1, <1>8, FileSame DEF NothingLost
  <1> QED
    BY <1>3, <1>4, <1>6, <1>7, <1>9 DEF TranspilerInv, SliceImage

-----------------------------------------------------------------------------
(* Steps that write the buffer                                             *)

\* What append_fn makes of the buffer.
Wrote(at, n, data) ==
  /\ Length' \in Nat /\ Length' >= Length /\ OutByte' = OutByte
  /\ out' \in [0..(Length' - 1) -> OutByte]
  /\ \A p \in DOMAIN out' :
       \/ \E j \in 1..n : out'[p] = data[j]
       \/ p \in DOMAIN out /\ out'[p] = out[p]
  /\ Mode = "slice" =>
       /\ Length' = Length /\ at + n <= Length /\ DOMAIN out' = DOMAIN out
       /\ \A p \in DOMAIN out : IF p \in at..(at + n - 1) THEN out'[p] = data[p - at + 1]
                                                         ELSE out'[p] = out[p]

(* append_fn leaves the buffer so.                                         *)
LEMMA AppendedBuffer ==
  ASSUME TranspilerTypeOK, NEW at \in Nat, NEW n \in Nat, NEW data \in [1..n -> OutByte],
         Len(data) = n, Fits(at, data), elf' = elf, out' = Appended(at, data)
  PROVE  Wrote(at, n, data)
  <1> DEFINE L == Length
             first == IF Mode = "vec" THEN L ELSE at
             m == IF Mode = "vec" THEN L + n ELSE L
  <1>1. L \in Nat /\ out \in [0..(L - 1) -> OutByte]
    BY DEF TranspilerTypeOK
  <1>2. OutByte' = OutByte
    BY DEF OutByte
  <1>3. out' = [p \in 0..(m - 1) |-> IF p \in first..(first + n - 1) THEN data[p - first + 1] ELSE out[p]]
    BY DEF Appended
  <1>4. Mode \in {"slice", "vec"} /\ (Mode = "slice" => at + n <= L)
    BY TranspilerAssumption DEF Fits
  <1>5. Length' = Cardinality(DOMAIN out')
    BY DEF Length
  <1> HIDE DEF L
  <1>6. m \in Nat /\ m >= L /\ first \in Nat
    BY <1>1
  <1>7. \A p \in 0..(m - 1) :
          \/ p \in first..(first + n - 1) /\ p - first + 1 \in 1..n
          \/ p \notin first..(first + n - 1) /\ p \in 0..(L - 1)
    BY <1>1, <1>4, <1>6
  <1> HIDE DEF first, m
  <1>8. DOMAIN out' = 0..(m - 1)
    BY <1>3
  <1>9. Length' = m
    BY <1>5, <1>6, <1>8, BufferLength
  <1>10. \A p \in 0..(m - 1) :
           \/ \E j \in 1..n : out'[p] = data[j]
           \/ p \in DOMAIN out /\ out'[p] = out[p]
    BY <1>1, <1>3, <1>7
  <1>11. \A p \in 0..(m - 1) : out'[p] \in OutByte
    BY <1>1, <1>10
  <1>12. out' \in [0..(m - 1) -> OutByte]
    BY <1>3, <1>11
  <1>13. ASSUME Mode = "slice"
         PROVE  /\ m = L /\ first = at
    BY <1>13 DEF m, first
  <1>14. Mode = "slice" =>
           /\ DOMAIN out' = DOMAIN out
           /\ \A p \in DOMAIN out : IF p \in at..(at + n - 1) THEN out'[p] = data[p - at + 1]
                                                             ELSE out'[p] = out[p]
    BY <1>1, <1>3, <1>8, <1>13
  <1>15. Mode = "slice" => Length' = Length /\ at + n <= Length
    BY <1>4, <1>9, <1>13 DEF L
  <1>16. Length' \in Nat /\ Length' >= Length /\ out' \in [0..(Length' - 1) -> OutByte]
    BY <1>6, <1>9, <1>12 DEF L
  <1> QED
    BY <1>2, <1>8, <1>10, <1>14, <1>15, <1>16 DEF Wrote

(* One section is copied.                                                  *)
LEMMA CopyInv ==
  ASSUME TranspilerInv, AtSection, Current.load, Containing(Current) # {}, Current.align # 0,
         ~Ignored(Current),
         NEW data, data = [j \in 1..Current.size |-> Byte(sec, j, 0)],
         Fits(Offset(Current), data), out' = Appended(Offset(Current), data),
         elf' = elf, binary_size' = Max({binary_size, EndOffset(Current)}),
         \/ /\ Current.exec
            /\ status' = IF EndOffset(Current) <= Length' THEN "Raw" ELSE "Panic"
            /\ offset' = Offset(Current) /\ end_offset' = EndOffset(Current) /\ i' = 0
            /\ needs_padding' = FALSE /\ sec' = sec
         \/ /\ ~Current.exec
            /\ needs_padding' \in BOOLEAN
            /\ sec' = sec + 1
            /\ offset' = offset /\ end_offset' = end_offset /\ i' = i /\ status' = status
  PROVE  TranspilerInv'
  <1>0. PICK s : s = Current
    OBVIOUS
  <1> DEFINE at == Offset(s)
             n == s.size
             end == EndOffset(s)
  <1>1. TranspilerTypeOK /\ status = "Sections" /\ sec \in 1..Len(elf.sections) /\ elf \in Elfs
    BY FileType DEF TranspilerInv, TranspilerTypeOK, AtSection
  <1>2. Len(elf.sections) \in Nat /\ n \in 0..(U32 - 1) /\ s.exec \in BOOLEAN /\ U32 \in Nat
    BY <1>0, <1>1, FileType, TranspilerAssumption DEF Current
  <1>3. at \in 0..(U32 - 1) /\ end = at + n
    BY <1>0, <1>1, OffsetType DEF Current
  <1>4. at \in Nat /\ n \in Nat /\ end \in Nat
    BY <1>2, <1>3
  <1>5. s = elf.sections[sec]
    BY <1>0 DEF Current
  <1>6. Len(data) = n /\ data \in [1..n -> OutByte] /\ \A j \in 1..n : data[j] = Byte(sec, j, 0)
    <2>1. \A j \in 1..n : Byte(sec, j, 0) \in OutByte
      BY <1>1, <1>2, <1>4 DEF Byte, OutByte
    <2> HIDE DEF n
    <2>2. data = [j \in 1..n |-> Byte(sec, j, 0)]
      BY <1>0 DEF n
    <2>3. data \in [1..n -> OutByte]
      BY <2>1, <2>2
    <2>4. Len(data) = n
      BY <1>4, <2>3, DataLength
    <2> QED
      BY <2>2, <2>3, <2>4
  <1>7. Fits(at, data) /\ out' = Appended(at, data)
    BY <1>0
  <1> HIDE DEF at, n, end
  <1>8. Wrote(at, n, data)
    BY <1>1, <1>4, <1>6, <1>7, AppendedBuffer
  <1>20. /\ Length' \in Nat /\ Length' >= Length /\ OutByte' = OutByte
         /\ out' \in [0..(Length' - 1) -> OutByte]
         /\ Mode = "slice" => Length' = Length /\ at + n <= Length /\ DOMAIN out' = DOMAIN out
    BY <1>8 DEF Wrote
  <1>21. ASSUME Mode = "slice", NEW p \in DOMAIN out, p \in at..(at + n - 1)
         PROVE  out'[p] = Byte(sec, p - at + 1, 0) /\ out'[p].sec = sec
    <2>1. out'[p] = data[p - at + 1] /\ p - at + 1 \in 1..n
      BY <1>4, <1>8, <1>21 DEF Wrote
    <2> QED
      BY <1>6, <2>1 DEF Byte
  <1>22. ASSUME Mode = "slice", NEW p \in DOMAIN out, p \notin at..(at + n - 1)
         PROVE  out'[p] = out[p]
    BY <1>8, <1>22 DEF Wrote
  <1>9. /\ binary_size' \in Nat /\ binary_size' >= binary_size /\ binary_size' >= end
        /\ binary_size' \in {binary_size, end}
    <2>1. binary_size \in Nat
      BY <1>1 DEF TranspilerTypeOK
    <2>2. \E x \in {binary_size, end} : \A y \in {binary_size, end} : x >= y
      BY <1>4, <2>1
    <2>3. /\ Max({binary_size, end}) \in {binary_size, end}
          /\ \A y \in {binary_size, end} : Max({binary_size, end}) >= y
      BY <2>2 DEF Max
    <2>4. binary_size' = Max({binary_size, end})
      BY <1>0 DEF end
    <2> HIDE DEF Max
    <2> QED
      BY <1>4, <2>1, <2>3, <2>4
  <1>10. \/ /\ s.exec /\ status' = IF end <= Length' THEN "Raw" ELSE "Panic"
            /\ offset' = at /\ end_offset' = end /\ i' = 0 /\ needs_padding' = FALSE
            /\ sec' = sec
         \/ /\ ~s.exec /\ needs_padding' \in BOOLEAN /\ sec' = sec + 1 /\ offset' = offset
            /\ end_offset' = end_offset /\ i' = i /\ status' = status
    BY <1>0 DEF end, at
  <1>11. TranspilerTypeOK'
    <2>1. Mode = "slice" => binary_size' <= Length'
      BY <1>1, <1>3, <1>20, <1>9 DEF TranspilerTypeOK
    <2>2. elf' \in Elfs
      BY <1>1
    <2>3. sec' \in 1..(Len(elf.sections) + 1)
      BY <1>1, <1>2, <1>10
    <2>4. offset' \in 0..(U32 - 1) /\ end_offset' \in Nat /\ i' \in 0..U32
      BY <1>1, <1>2, <1>3, <1>4, <1>10 DEF TranspilerTypeOK
    <2>5. needs_padding' \in BOOLEAN
      BY <1>10
    <2>6. status' \in {"Sections", "Raw", "Panic"}
      BY <1>1, <1>10
    <2> QED
      BY <1>20, <1>9, <2>1, <2>2, <2>3, <2>4, <2>5, <2>6 DEF TranspilerTypeOK
  <1>12. \A j \in 1..n : data[j] = Byte(sec, j, 0) /\ data[j].sec = sec /\ data[j].conv = 0
    BY <1>6 DEF Byte
  <1>13. \A p \in DOMAIN out : out[p].sec < sec
    <2>1. status \in {"Parse", "Sections"}
      BY <1>1
    <2> QED
      BY <2>1 DEF TranspilerInv, InOrder
  <1>14. \A p \in DOMAIN out : out[p].sec \in Int
    BY <1>1 DEF TranspilerTypeOK, OutByte
  <1>15. InOrder'
    <2> SUFFICES ASSUME NEW p \in DOMAIN out'
                 PROVE  /\ out'[p].sec <= sec'
                        /\ status' \in {"Parse", "Sections"} => out'[p].sec < sec'
      BY DEF InOrder
    <2>1. out'[p].sec \in Int /\ out'[p].sec <= sec
      <3>1. CASE \E j \in 1..n : out'[p] = data[j]
        <4>1. PICK j \in 1..n : out'[p] = data[j]
          BY <3>1
        <4>2. out'[p].sec = sec
          BY <1>12, <4>1
        <4> QED
          BY <1>1, <4>2
      <3>2. CASE p \in DOMAIN out /\ out'[p] = out[p]
        BY <1>1, <1>13, <1>14, <3>2
      <3> QED
        BY <1>8, <3>1, <3>2 DEF Wrote
    <2>2. sec \in Int /\ ((sec' = sec /\ status' \in {"Raw", "Panic"}) \/ sec' = sec + 1)
      BY <1>1, <1>10
    <2> QED
      BY <2>1, <2>2
  <1>16. ASSUME Mode = "slice", status' = "Raw", NEW p \in at..(end - 1)
         PROVE  out'[p] = Byte(sec, p - at + 1, 0)
    <2>1. p \in 0..(Length - 1) /\ p \in at..(at + n - 1) /\ p - at + 1 \in 1..n
      BY <1>3, <1>4, <1>20, <1>16
    <2>2. p \in DOMAIN out
      BY <1>1, <2>1 DEF TranspilerTypeOK
    <2> QED
      BY <1>16, <1>21, <2>1, <2>2
  <1>17. Converting'
    <2> SUFFICES ASSUME status' = "Raw" PROVE Converting'
      BY DEF Converting
    <2>1. s.exec /\ sec' = sec /\ offset' = at /\ end_offset' = end /\ i' = 0 /\ end <= Length'
      BY <1>1, <1>10
    <2>2. Current' = s
      BY <1>5, <2>1 DEF Current
    <2>3. Offset(s)' = at /\ EndOffset(s)' = end /\ ~Ignored(s)' /\ s.load
      BY <1>0, FileSame DEF at, end
    <2>4. \A p \in at..(end - 1) : ~(p < at + 0)
      BY <1>4
    <2> QED
      BY <1>1, <1>3, <1>4, <1>9, <1>16, <2>1, <2>2, <2>3, <2>4 DEF Converting
  <1>18. Mode = "slice" => BytesInPlace'
    <2> SUFFICES ASSUME Mode = "slice", NEW p \in DOMAIN out
                 PROVE  InPlace(out'[p], p, sec')
      BY <1>20, PlaceSame DEF BytesInPlace
    <2>1. InPlace(out[p], p, sec)
      BY DEF TranspilerInv, SliceImage, BytesInPlace
    <2>2. CASE p \in at..(at + n - 1)
      <3>1. p - at + 1 \in 1..n /\ p = at + (p - at + 1) - 1
        BY <1>4, <2>2
      <3>2. out'[p] = Byte(sec, p - at + 1, 0)
        BY <1>21, <2>2
      <3>3. out'[p].sec = sec /\ out'[p].idx = p - at + 1 /\ out'[p].conv = 0 /\ ~(sec <= 0)
        BY <1>1, <3>2 DEF Byte
      <3>4. s.load /\ Offset(s) = at /\ elf.sections[sec] = s /\ s.size = n
        BY <1>0, <1>5 DEF at, n
      <3>5. s.exec => ~(sec < sec')
        BY <1>1, <1>10
      <3> QED
        BY <3>1, <3>3, <3>4, <3>5 DEF InPlace
    <2>3. CASE p \notin at..(at + n - 1)
      <3>1. out'[p] = out[p]
        BY <1>22, <2>3
      <3>2. out[p].sec < sec /\ out[p].sec \in Int
        BY <1>13, <1>14
      <3> QED
        BY <2>1, <3>1, <3>2 DEF InPlace
    <2> QED
      BY <2>2, <2>3
  <1>19. Mode = "slice" => NothingLost'
    <2> SUFFICES ASSUME Mode = "slice", NEW k \in Copied',
                        NEW p \in Offset(elf.sections[k])..(EndOffset(elf.sections[k]) - 1)
                 PROVE  p \in DOMAIN out /\ p < binary_size' /\ out'[p].sec >= k
      BY <1>20, FileSame DEF NothingLost
    <2>1. /\ k \in 1..(sec' - 1) /\ elf.sections[k].load /\ ~Ignored(elf.sections[k])
      BY FileSame DEF Copied
    <2>2. k \in 1..(sec - 1) \/ (k = sec /\ sec' = sec + 1)
      BY <1>1, <1>10, <2>1
    <2>3. CASE k \in 1..(sec - 1)
      <3>1. k \in Copied
        BY <2>1, <2>3 DEF Copied
      <3>2. p \in DOMAIN out /\ p < binary_size /\ out[p].sec >= k
        BY <3>1 DEF TranspilerInv, SliceImage, NothingLost
      <3>3. p \in Int
        BY <1>1, <3>2 DEF TranspilerTypeOK
      <3>4. p < binary_size'
        BY <1>1, <1>9, <3>2, <3>3 DEF TranspilerTypeOK
      <3>5. out'[p].sec = sec \/ out'[p] = out[p]
        BY <1>21, <1>22, <3>2
      <3> QED
        BY <1>1, <2>3, <3>2, <3>4, <3>5
    <2>4. CASE k = sec
      <3>1. p \in at..(end - 1)
        BY <1>5, <2>4 DEF at, end
      <3>2. p \in 0..(Length - 1) /\ p \in at..(at + n - 1) /\ p - at + 1 \in 1..n /\ p < binary_size'
        BY <1>3, <1>4, <1>20, <1>9, <3>1
      <3>3. p \in DOMAIN out
        BY <1>1, <3>2 DEF TranspilerTypeOK
      <3>4. out'[p].sec = sec
        BY <1>21, <3>2, <3>3
      <3> QED
        BY <1>1, <2>4, <3>2, <3>3, <3>4
    <2> QED
      BY <2>2, <2>3, <2>4
  <1> QED
    BY <1>11, <1>15, <1>17, <1>18, <1>19 DEF TranspilerInv, SliceImage

LEMMA CopySectionInv == TranspilerInv /\ CopySection => TranspilerInv'
  <1> SUFFICES ASSUME TranspilerInv, CopySection PROVE TranspilerInv'
    OBVIOUS
  <1> DEFINE data == [j \in 1..Current.size |-> Byte(sec, j, 0)]
             at == Offset(Current)
             end == EndOffset(Current)
  <1>1. /\ AtSection /\ Current.load /\ Containing(Current) # {} /\ Current.align # 0
        /\ ~Ignored(Current)
    BY DEF CopySection
  <1>2. Current.read \in {"Ok"} \cup Errors
    BY <1>1, FileType DEF TranspilerInv, TranspilerTypeOK, AtSection, Current
  <1>3. CASE Current.read # "Ok"
    <2>1. Return(Current.read)
      BY <1>3 DEF CopySection
    <2>2. PICK result : result = Current.read
      OBVIOUS
    <2> QED
      BY <1>2, <1>3, <2>1, <2>2, ReturnInv
  <1>4. CASE Current.read = "Ok" /\ ~Fits(at, data)
    <2>1. Return("BufferTooSmall")
      BY <1>4 DEF CopySection
    <2> QED
      BY <2>1, ReturnInv DEF Errors
  <1>5. CASE Current.read = "Ok" /\ Fits(at, data)
    <2>1. /\ out' = Appended(at, data) /\ binary_size' = Max({binary_size, end})
          /\ IF Current.exec
             THEN /\ status' = IF end <= Cardinality(DOMAIN out') THEN "Raw" ELSE "Panic"
                  /\ offset' = at /\ end_offset' = end /\ i' = 0
                  /\ needs_padding' = FALSE
                  /\ UNCHANGED <<elf, sec>>
             ELSE /\ needs_padding' = (needs_padding /\ ~CoversFetch(data))
                  /\ sec' = sec + 1
                  /\ UNCHANGED <<elf, offset, end_offset, i, status>>
      BY <1>5 DEF CopySection
    <2>2. elf' = elf
      BY <2>1
    <2>3. PICK d : d = data
      OBVIOUS
    <2> HIDE DEF data, at, end
    <2>4. \/ /\ Current.exec
             /\ status' = IF EndOffset(Current) <= Length' THEN "Raw" ELSE "Panic"
             /\ offset' = Offset(Current) /\ end_offset' = EndOffset(Current) /\ i' = 0
             /\ needs_padding' = FALSE /\ sec' = sec
          \/ /\ ~Current.exec
             /\ needs_padding' \in BOOLEAN
             /\ sec' = sec + 1
             /\ offset' = offset /\ end_offset' = end_offset /\ i' = i /\ status' = status
      BY <2>1 DEF Length, at, end
    <2>5. /\ d = [j \in 1..Current.size |-> Byte(sec, j, 0)] /\ Fits(Offset(Current), d)
          /\ out' = Appended(Offset(Current), d)
          /\ binary_size' = Max({binary_size, EndOffset(Current)})
      BY <1>5, <2>1, <2>3 DEF data, at, end
    <2> QED
      BY <1>1, <2>2, <2>4, <2>5, CopyInv
  <1> QED
    BY <1>3, <1>4, <1>5

-----------------------------------------------------------------------------
(* transpile_raw                                                           *)

(* One instruction is converted.                                           *)
LEMMA ConvertInv ==
  ASSUME TranspilerInv, status = "Raw", NEW size \in {2, 4}, offset + i + size <= end_offset,
         out' = Converted(offset + i, size), i' = i + size, needs_padding' \in BOOLEAN,
         UNCHANGED <<elf, sec, offset, end_offset, binary_size, status>>
  PROVE  TranspilerInv'
  <1> DEFINE here == offset + i
  <1>1. /\ TranspilerTypeOK /\ elf \in Elfs /\ sec \in Int /\ sec >= 1
        /\ sec <= Len(elf.sections) /\ Len(elf.sections) \in Nat
    BY FileType DEF TranspilerInv, TranspilerTypeOK, Converting
  <1>2. Length \in Nat /\ out \in [0..(Length - 1) -> OutByte] /\ U32 \in Nat
    BY <1>1, TranspilerAssumption DEF TranspilerTypeOK
  <1>3. /\ Current.load /\ Current.exec /\ ~Ignored(Current)
        /\ offset = Offset(Current) /\ end_offset = offset + Current.size
        /\ end_offset = EndOffset(Current)
        /\ end_offset <= Length /\ end_offset <= binary_size
        /\ Mode = "slice" =>
             \A p \in offset..(end_offset - 1) :
               out[p] = Byte(sec, p - offset + 1, IF p < offset + i THEN 1 ELSE 0)
    BY DEF TranspilerInv, Converting, EndOffset
  <1>4. Current.size \in 0..(U32 - 1)
    BY <1>1, FileType DEF Current
  <1>5. offset \in Nat /\ i \in Nat /\ end_offset \in Nat /\ binary_size \in Nat
    BY <1>1 DEF TranspilerTypeOK
  <1>6. here \in Nat /\ here >= offset /\ here + size <= end_offset
    BY <1>5
  <1>7. DOMAIN out' = DOMAIN out /\ Length' = Length /\ OutByte' = OutByte
    BY DEF Length, OutByte, Converted
  <1>8. \A p \in DOMAIN out : out[p] \in OutByte
    BY <1>2
  <1>9. ASSUME NEW p \in DOMAIN out, p \in here..(here + size - 1)
        PROVE  out'[p] = [out[p] EXCEPT !.conv = @ + 1]
    BY <1>9 DEF Converted
  <1>10. ASSUME NEW p \in DOMAIN out, p \notin here..(here + size - 1)
         PROVE  out'[p] = out[p]
    BY <1>10 DEF Converted
  <1>11. ASSUME NEW b \in OutByte
         PROVE  /\ [b EXCEPT !.conv = @ + 1] \in OutByte
                /\ [b EXCEPT !.conv = @ + 1].sec = b.sec
    BY DEF OutByte
  <1>12. \A p \in DOMAIN out : out'[p] \in OutByte /\ out'[p].sec = out[p].sec
    BY <1>8, <1>9, <1>10, <1>11
  <1>13. ASSUME Mode = "slice", NEW p \in DOMAIN out, p \in here..(here + size - 1)
         PROVE  /\ p \in offset..(end_offset - 1) /\ out[p] = Byte(sec, p - offset + 1, 0)
                /\ out'[p] = Byte(sec, p - offset + 1, 1)
    <2>1. p \in offset..(end_offset - 1) /\ ~(p < offset + i)
      BY <1>5, <1>6, <1>13
    <2>2. out[p] = Byte(sec, p - offset + 1, 0)
      BY <1>3, <1>13, <2>1
    <2>3. out'[p] = [Byte(sec, p - offset + 1, 0) EXCEPT !.conv = @ + 1]
      BY <1>9, <1>13, <2>2
    <2>4. out'[p] = Byte(sec, p - offset + 1, 1)
      BY <2>3 DEF Byte
    <2> QED
      BY <2>1, <2>2, <2>4
  <1>14. i + size \in 0..U32
    <2> DEFINE c == Current.size
    <2>1. c \in 0..(U32 - 1) /\ end_offset = offset + c
      BY <1>3, <1>4
    <2> HIDE DEF c
    <2> QED
      BY <1>2, <1>5, <2>1
  <1> HIDE DEF here
  <1>15. TranspilerTypeOK'
    <2>1. out' = [p \in DOMAIN out |-> out'[p]]
      BY DEF Converted
    <2>2. DOMAIN out = 0..(Length' - 1)
      BY <1>2, <1>7
    <2>3. out' \in [0..(Length' - 1) -> OutByte]
      BY <1>12, <2>1, <2>2
    <2> QED
      BY <1>1, <1>7, <1>14, <2>3 DEF TranspilerTypeOK
  <1>16. InOrder'
    BY <1>7, <1>12 DEF TranspilerInv, InOrder
  <1>17. Converting'
    <2>1. Current' = Current
      BY DEF Current
    <2>2. Offset(Current)' = Offset(Current) /\ EndOffset(Current)' = EndOffset(Current)
          /\ ~Ignored(Current)'
      <3>1. PICK s : s = Current
        OBVIOUS
      <3>2. Offset(s)' = Offset(s) /\ EndOffset(s)' = EndOffset(s) /\ Ignored(s)' = Ignored(s)
        BY FileSame
      <3> QED
        BY <1>3, <2>1, <3>1, <3>2
    <2>3. offset' + i' <= end_offset'
      BY <1>5
    <2>4. ASSUME Mode = "slice", NEW p \in offset..(end_offset - 1)
          PROVE  out'[p] = Byte(sec, p - offset + 1, IF p < offset + i' THEN 1 ELSE 0)
      <3>1. p \in DOMAIN out
        <4>1. end_offset <= Length
          BY <1>3
        <4>2. /\ offset \in Nat /\ end_offset \in Nat /\ Length \in Nat
              /\ DOMAIN out = 0..(Length - 1)
          BY <1>2, <1>5
        <4> QED
          BY <4>1, <4>2
      <3>2. CASE p \in here..(here + size - 1)
        <4>1. p < offset + i'
          BY <1>5, <3>2 DEF here
        <4> QED
          BY <1>13, <2>4, <3>1, <3>2, <4>1
      <3>3. CASE p \notin here..(here + size - 1)
        <4>1. p < offset + i' <=> p < offset + i
          BY <1>5, <3>3 DEF here
        <4> QED
          BY <1>3, <1>10, <2>4, <3>1, <3>3, <4>1
      <3> QED
        BY <3>2, <3>3
    <2> QED
      BY <1>1, <1>3, <1>7, <2>1, <2>2, <2>3, <2>4 DEF Converting
  <1>18. Mode = "slice" => BytesInPlace'
    <2> SUFFICES ASSUME Mode = "slice", NEW p \in DOMAIN out PROVE InPlace(out'[p], p, sec)
      BY <1>7, PlaceSame DEF BytesInPlace
    <2>1. InPlace(out[p], p, sec)
      BY DEF TranspilerInv, SliceImage, BytesInPlace
    <2>2. CASE p \in here..(here + size - 1)
      <3>1. /\ out[p] = Byte(sec, p - offset + 1, 0) /\ out'[p] = Byte(sec, p - offset + 1, 1)
        BY <1>13, <2>2
      <3>2. /\ out[p].sec = sec /\ out[p].idx = p - offset + 1
            /\ out'[p].sec = sec /\ out'[p].idx = p - offset + 1 /\ out'[p].conv = 1
        BY <3>1 DEF Byte
      <3>3. elf.sections[sec].exec /\ ~(sec <= 0)
        BY <1>1, <1>3 DEF Current
      <3> QED
        BY <2>1, <3>2, <3>3 DEF InPlace
    <2>3. CASE p \notin here..(here + size - 1)
      BY <1>10, <2>1, <2>3
    <2> QED
      BY <2>2, <2>3
  <1>19. Mode = "slice" => NothingLost'
    <2>1. Copied' = Copied
      BY FileSame DEF Copied
    <2>2. Mode = "slice" => NothingLost
      BY DEF TranspilerInv, SliceImage
    <2> QED
      BY <1>7, <1>12, <2>1, <2>2, FileSame DEF NothingLost
  <1> QED
    BY <1>15, <1>16, <1>17, <1>18, <1>19 DEF TranspilerInv, SliceImage

LEMMA ConvertNextInv == TranspilerInv /\ ConvertNext => TranspilerInv'
  <1> SUFFICES ASSUME TranspilerInv, ConvertNext PROVE TranspilerInv'
    OBVIOUS
  <1> DEFINE
      Bad(kind) == /\ kind = "bad"
                   /\ Return("InvalidInstruction")
      Half(kind) == /\ kind = "word" /\ offset + i + InstSize(kind) > end_offset
                    /\ \E result \in {"InvalidInstruction", "Panic"} : Return(result)
      Good(kind) == /\ kind # "bad" /\ offset + i + InstSize(kind) <= end_offset
                    /\ out' = Converted(offset + i, InstSize(kind))
                    /\ i' = i + InstSize(kind)
                    /\ needs_padding' = (needs_padding \/ offset + i + 4 > end_offset)
                    /\ UNCHANGED <<elf, sec, offset, end_offset, binary_size, status>>
  <1>1. status = "Raw"
    BY DEF ConvertNext
  <1>2. PICK kind \in KindsOf(out[offset + i]) : Bad(kind) \/ Half(kind) \/ Good(kind)
    BY DEF ConvertNext
  <1>3. Bad(kind) \/ Half(kind) => \E result \in {"InvalidInstruction", "Panic"} : Return(result)
    OBVIOUS
  <1>4. ASSUME NEW result \in {"InvalidInstruction", "Panic"}, Return(result)
        PROVE  TranspilerInv'
    BY <1>4, ReturnInv DEF Errors
  <1>5. CASE Good(kind)
    <2>1. PICK size \in {2, 4} : size = InstSize(kind)
      BY DEF InstSize
    <2>2. needs_padding' \in BOOLEAN
      BY <1>5
    <2>3. out' = Converted(offset + i, size) /\ i' = i + size /\ offset + i + size <= end_offset
      BY <1>5, <2>1
    <2> QED
      BY <1>1, <1>5, <2>2, <2>3, ConvertInv
  <1> HIDE DEF Bad, Half, Good
  <1> QED
    BY <1>2, <1>3, <1>4, <1>5

LEMMA RawDoneInv == TranspilerInv /\ RawDone => TranspilerInv'
  <1> SUFFICES ASSUME TranspilerInv, RawDone PROVE TranspilerInv'
    OBVIOUS
  <1>1. /\ status = "Raw" /\ status' = "Sections" /\ sec' = sec + 1 /\ offset + i + 2 > end_offset
        /\ elf' = elf /\ out' = out /\ binary_size' = binary_size
        /\ offset' = offset /\ end_offset' = end_offset /\ i' = i
        /\ needs_padding' = needs_padding
    BY DEF RawDone
  <1>2. /\ TranspilerTypeOK /\ elf \in Elfs /\ sec \in Int /\ sec >= 1
        /\ sec <= Len(elf.sections) /\ Len(elf.sections) \in Nat
    BY <1>1, FileType DEF TranspilerInv, TranspilerTypeOK, Converting
  <1>3. /\ Current.load /\ Current.exec /\ ~Ignored(Current)
        /\ offset = Offset(Current) /\ end_offset = offset + Current.size
        /\ end_offset <= Length /\ end_offset <= binary_size
        /\ Mode = "slice" =>
             \A p \in offset..(end_offset - 1) :
               out[p] = Byte(sec, p - offset + 1, IF p < offset + i THEN 1 ELSE 0)
    BY <1>1 DEF TranspilerInv, Converting, EndOffset
  <1>4. offset \in Nat /\ i \in Nat /\ end_offset \in Nat /\ binary_size \in Nat
        /\ Length \in Nat /\ DOMAIN out = 0..(Length - 1)
    BY <1>2 DEF TranspilerTypeOK
  <1>11. \A p \in DOMAIN out : out[p].sec \in Int
    BY <1>2 DEF TranspilerTypeOK, OutByte
  <1>12. ASSUME Mode = "slice", NEW p \in offset..(end_offset - 1)
         PROVE  out[p].sec = sec /\ (p < offset + i => out[p].conv = 1)
    <2>1. out[p] = Byte(sec, p - offset + 1, IF p < offset + i THEN 1 ELSE 0)
      BY <1>3, <1>12
    <2> QED
      BY <2>1 DEF Byte
  <1>5. TranspilerTypeOK'
    BY <1>1, <1>2 DEF TranspilerTypeOK, Length, OutByte
  <1>6. Converting'
    BY <1>1 DEF Converting
  <1>7. \A p \in DOMAIN out : out[p].sec <= sec
    BY DEF TranspilerInv, InOrder
  <1>8. InOrder'
    BY <1>1, <1>2, <1>7, <1>11 DEF InOrder
  <1>9. Mode = "slice" => BytesInPlace'
    <2> SUFFICES ASSUME Mode = "slice", NEW p \in DOMAIN out PROVE InPlace(out[p], p, sec + 1)
      BY <1>1, PlaceSame DEF BytesInPlace
    <2>1. InPlace(out[p], p, sec)
      BY DEF TranspilerInv, SliceImage, BytesInPlace
    <2>2. CASE out[p].sec < sec
      BY <1>2, <1>11, <2>1, <2>2 DEF InPlace
    <2>3. CASE out[p].sec = sec
      <3>1. out[p].idx \in 1..Current.size /\ p = offset + out[p].idx - 1
        BY <1>2, <1>3, <2>1, <2>3 DEF InPlace, Current
      <3>2. Current.size \in Nat
        BY <1>2, FileType, TranspilerAssumption DEF Current
      <3>3. p \in offset..(end_offset - 1)
        BY <1>3, <1>4, <3>1, <3>2
      <3>4. out[p].idx < Current.size => p < offset + i
        <4> DEFINE c == Current.size
                   x == out[p].idx
        <4>1. c \in Nat /\ x \in 1..c /\ p = offset + x - 1 /\ end_offset = offset + c
          BY <1>3, <3>1, <3>2
        <4> HIDE DEF c, x
        <4>2. x < c => p < offset + i
          BY <1>1, <1>4, <4>1
        <4> QED
          BY <4>2 DEF c, x
      <3>5. out[p].idx < Current.size => out[p].conv = 1
        BY <1>12, <3>3, <3>4
      <3> QED
        BY <2>1, <2>3, <3>5 DEF InPlace, Current
    <2> QED
      BY <1>2, <1>7, <1>11, <2>2, <2>3
  <1>10. Mode = "slice" => NothingLost'
    <2> SUFFICES ASSUME Mode = "slice", NEW k \in Copied',
                        NEW p \in Offset(elf.sections[k])..(EndOffset(elf.sections[k]) - 1)
                 PROVE  p \in DOMAIN out /\ p < binary_size /\ out[p].sec >= k
      BY <1>1, FileSame DEF NothingLost
    <2>1. k \in 1..sec /\ elf.sections[k].load /\ ~Ignored(elf.sections[k])
      BY <1>1, <1>2, FileSame DEF Copied
    <2>2. CASE k \in 1..(sec - 1)
      <3>1. k \in Copied
        BY <2>1, <2>2 DEF Copied
      <3> QED
        BY <3>1 DEF TranspilerInv, SliceImage, NothingLost
    <2>3. CASE k = sec
      <3>1. p \in offset..(end_offset - 1)
        BY <1>3, <2>3 DEF Current, EndOffset
      <3>2. p \in DOMAIN out /\ p < binary_size
        BY <1>3, <1>4, <3>1
      <3>3. out[p].sec = sec
        BY <1>12, <3>1
      <3> QED
        BY <1>2, <2>3, <3>2, <3>3
    <2> QED
      BY <1>2, <2>1, <2>2, <2>3
  <1> QED
    BY <1>5, <1>6, <1>8, <1>9, <1>10 DEF TranspilerInv, SliceImage

-----------------------------------------------------------------------------
(* The end                                                                 *)

(* The padding is added.                                                   *)
LEMMA PadInv ==
  ASSUME TranspilerInv, Fits(binary_size, Padding), out' = Appended(binary_size, Padding),
         binary_size' = binary_size + 2, status' = "Ok",
         UNCHANGED <<elf, sec, offset, end_offset, i, needs_padding>>
  PROVE  TranspilerInv'
  <1>1. /\ TranspilerTypeOK /\ elf \in Elfs /\ sec \in Int /\ sec >= 1
        /\ Len(elf.sections) \in Nat /\ binary_size \in Nat
    BY FileType DEF TranspilerInv, TranspilerTypeOK
  <1>2. PadByte \in OutByte /\ PadByte.sec = -1 /\ PadByte.conv = 0
    BY <1>1 DEF PadByte, OutByte
  <1>3. Padding \in [1..2 -> OutByte] /\ Len(Padding) = 2 /\ \A j \in 1..2 : Padding[j] = PadByte
    BY <1>2 DEF Padding
  <1>4. PICK at : at = binary_size
    OBVIOUS
  <1>5. PICK data : data = Padding
    OBVIOUS
  <1>6. Wrote(at, 2, data)
    BY <1>1, <1>3, <1>4, <1>5, AppendedBuffer
  <1>7. /\ Length' \in Nat /\ Length' >= Length /\ OutByte' = OutByte
        /\ out' \in [0..(Length' - 1) -> OutByte]
        /\ Mode = "slice" => Length' = Length /\ at + 2 <= Length /\ DOMAIN out' = DOMAIN out
    BY <1>6 DEF Wrote
  <1>8. \A p \in DOMAIN out' : out'[p] = PadByte \/ (p \in DOMAIN out /\ out'[p] = out[p])
    BY <1>3, <1>5, <1>6 DEF Wrote
  <1>9. TranspilerTypeOK'
    <2>1. binary_size' \in Nat /\ (Mode = "slice" => binary_size' <= Length')
      BY <1>1, <1>4, <1>7
    <2> QED
      BY <1>1, <1>7, <2>1 DEF TranspilerTypeOK
  <1>10. Converting'
    BY DEF Converting
  <1>11. InOrder'
    <2> SUFFICES ASSUME NEW p \in DOMAIN out' PROVE out'[p].sec <= sec
      BY DEF InOrder
    <2>1. CASE out'[p] = PadByte
      BY <1>1, <1>2, <2>1
    <2>2. CASE p \in DOMAIN out /\ out'[p] = out[p]
      BY <2>2 DEF TranspilerInv, InOrder
    <2> QED
      BY <1>8, <2>1, <2>2
  <1>12. Mode = "slice" => BytesInPlace'
    <2> SUFFICES ASSUME Mode = "slice", NEW p \in DOMAIN out' PROVE InPlace(out'[p], p, sec)
      BY PlaceSame DEF BytesInPlace
    <2>1. CASE out'[p] = PadByte
      BY <1>2, <2>1 DEF InPlace
    <2>2. CASE p \in DOMAIN out /\ out'[p] = out[p]
      BY <2>2 DEF TranspilerInv, SliceImage, BytesInPlace
    <2> QED
      BY <1>8, <2>1, <2>2
  <1>13. Mode = "slice" => NothingLost'
    <2>1. Copied' = Copied
      BY FileSame DEF Copied
    <2> SUFFICES ASSUME Mode = "slice", NEW k \in Copied,
                        NEW p \in Offset(elf.sections[k])..(EndOffset(elf.sections[k]) - 1)
                 PROVE  p \in DOMAIN out /\ p < binary_size' /\ out'[p].sec >= k
      BY <1>7, <2>1, FileSame DEF NothingLost
    <2>2. p \in DOMAIN out /\ p < binary_size /\ out[p].sec >= k
      BY DEF TranspilerInv, SliceImage, NothingLost
    <2>3. p \in Int
      BY <1>1, <2>2 DEF TranspilerTypeOK
    <2>4. p \notin at..(at + 2 - 1) /\ p < binary_size'
      BY <1>1, <1>4, <2>2, <2>3
    <2>5. out'[p] = out[p]
      BY <1>6, <2>2, <2>4 DEF Wrote
    <2> QED
      BY <2>2, <2>4, <2>5
  <1> QED
    BY <1>9, <1>10, <1>11, <1>12, <1>13 DEF TranspilerInv, SliceImage

LEMMA FinishInv == TranspilerInv /\ Finish => TranspilerInv'
  <1> SUFFICES ASSUME TranspilerInv, Finish PROVE TranspilerInv'
    OBVIOUS
  <1>1. CASE Return("BufferTooSmall") \/ Return("Ok")
    BY <1>1, ReturnInv DEF Errors
  <1>2. CASE /\ Fits(binary_size, Padding) /\ out' = Appended(binary_size, Padding)
             /\ binary_size' = binary_size + 2 /\ status' = "Ok"
             /\ UNCHANGED <<elf, sec, offset, end_offset, i, needs_padding>>
    BY <1>2, PadInv
  <1> QED
    BY <1>1, <1>2 DEF Finish

-----------------------------------------------------------------------------
(* The theorems                                                            *)

LEMMA NextInv == TranspilerInv /\ [Next]_vars => TranspilerInv'
  <1> SUFFICES ASSUME TranspilerInv, [Next]_vars PROVE TranspilerInv'
    OBVIOUS
  <1>1. CASE NoSegment \/ PanicAtSection \/ OverflowAtSection
    <2>1. \E result \in {"NoSegmentForSection", "Panic", "Overflow"} : Return(result)
      BY <1>1 DEF NoSegment, PanicAtSection, OverflowAtSection
    <2> QED
      BY <2>1, ReturnInv DEF Errors
  <1>2. CASE Stop \/ UNCHANGED vars
    <2>1. UNCHANGED vars
      BY <1>2 DEF Stop
    <2>2. TranspilerTypeOK'
      BY <2>1 DEF vars, TranspilerInv, TranspilerTypeOK, Length, OutByte
    <2>3. Converting'
      <3>1. PICK s : s = Current
        OBVIOUS
      <3>2. Current' = Current /\ Length' = Length
        BY <2>1 DEF vars, Current, Length
      <3>3. /\ Offset(s)' = Offset(s) /\ EndOffset(s)' = EndOffset(s) /\ Ignored(s)' = Ignored(s)
        BY <2>1, FileSame DEF vars
      <3>4. /\ Offset(Current)' = Offset(Current) /\ EndOffset(Current)' = EndOffset(Current)
            /\ Ignored(Current)' = Ignored(Current)
        BY <3>1, <3>2, <3>3
      <3> QED
        BY <2>1, <3>2, <3>4 DEF vars, TranspilerInv, Converting
    <2>4. InOrder'
      BY <2>1 DEF vars, TranspilerInv, InOrder
    <2>5. BytesInPlace => BytesInPlace'
      BY <2>1, PlaceSame DEF vars, BytesInPlace
    <2>6. NothingLost => NothingLost'
      BY <2>1, FileSame DEF vars, NothingLost, Copied
    <2> QED
      BY <2>2, <2>3, <2>4, <2>5, <2>6 DEF TranspilerInv, SliceImage
  <1> QED
    BY <1>1, <1>2, ParseInv, SkipSectionInv, CopySectionInv, ConvertNextInv, RawDoneInv, FinishInv
    DEF Next

LEMMA TranspilerInductive == Spec => []TranspilerInv
  BY InitInv, NextInv, PTL DEF Spec

(* transpile_elf and transpile_elf_vec, for every ELF file and every       *)
(* buffer: offsets are u32, and in the caller's buffer the size of the     *)
(* binary never passes the end.                                            *)
THEOREM TranspilerTypes == Spec => []TranspilerTypeOK
  <1>1. TranspilerInv => TranspilerTypeOK
    BY DEF TranspilerInv
  <1> QED
    BY <1>1, TranspilerInductive, PTL

(* transpile_elf, for every ELF file, whatever its sections' number,       *)
(* order, size, alignment and overlaps, and for every buffer: each byte    *)
(* written is at its section's offset, code is converted exactly once and  *)
(* data never, and no copied section is lost.                              *)
THEOREM SliceIsFaithful == Spec => []SliceImage
  <1>1. TranspilerInv => SliceImage
    BY DEF TranspilerInv
  <1> QED
    BY <1>1, TranspilerInductive, PTL

-----------------------------------------------------------------------------
(* Valid files and fetching from the binary                                *)

\* V holds the instructions that transpile_raw has converted in the first n
\* bytes of s; pad tells whether one of them is in the last three bytes.
Visited(V, s, n, pad) ==
  /\ V \subseteq 1..n
  /\ n > 0 => 1 \in V
  /\ \A j \in V : j + InstSize(s.data[j]) \in V \cup {n + 1}
  /\ \A j \in V : s.data[j] # "bad" /\ j + InstSize(s.data[j]) <= n + 1
  /\ \A j \in V : j + 3 > s.size => pad

\* What the loop makes sure of before it goes on to the next section.
Placed(s) == s.load => Containing(s) # {} /\ s.align # 0
Examined(s) == s.load /\ ~Ignored(s) => Valid(s)

\* What the loop has been through is valid.
ValidInv ==
  Mode = "slice" =>
    /\ status = "Parse" => sec = 1
    /\ status \in {"Sections", "Raw", "Ok"} =>
         /\ elf.header = "Ok"
         /\ \A k \in 1..(sec - 1) : Placed(elf.sections[k]) /\ Examined(elf.sections[k])
    /\ status = "Raw" => /\ Placed(Current) /\ Current.read = "Ok"
                         /\ \E V \in SUBSET Nat : Visited(V, Current, i, needs_padding)
    /\ status = "Ok" => sec > Len(elf.sections)

\* A copied code section whose instructions can be fetched from a binary of
\* the given size, or from one with two bytes more, when there will be padding.
CoveredBy(s, size, pad) ==
  /\ Offset(s) \in Nat /\ s.size \in Nat /\ EndOffset(s) <= size
  /\ pad \/ EndOffset(s) + 2 <= size \/ Fetchable(s, EndOffset(s))

AllCovered(size, pad) ==
  \A k \in Copied : elf.sections[k].exec => CoveredBy(elf.sections[k], size, pad)

FetchInv ==
  Mode = "slice" /\ AddressOrder =>
    /\ status \in {"Parse", "Sections", "Raw"} => AllCovered(binary_size, needs_padding)
    /\ status = "Ok" =>
         \A k \in Copied : elf.sections[k].exec => Fetchable(elf.sections[k], binary_size)

(* These depend on the file alone.                                         *)
LEMMA FetchSame ==
  ASSUME elf' = elf
  PROVE  /\ AddressOrder' = AddressOrder
         /\ \A s, n : Fetchable(s, n)' = Fetchable(s, n)
         /\ \A s, n, pad : CoveredBy(s, n, pad)' = CoveredBy(s, n, pad)
         /\ \A s : Placed(s)' = Placed(s) /\ Examined(s)' = Examined(s)
  <1>1. AddressOrder' = AddressOrder
    BY FileSame DEF AddressOrder
  <1>2. \A s, n : Fetchable(s, n)' = Fetchable(s, n)
    <2> SUFFICES ASSUME NEW s, NEW n PROVE Fetchable(s, n)' = Fetchable(s, n)
      OBVIOUS
    <2>1. Offset(s)' = Offset(s)
      BY FileSame
    <2> QED
      BY <2>1 DEF Fetchable, Instructions, Starts, Follows, InstSize
  <1>3. \A s, n, pad : CoveredBy(s, n, pad)' = CoveredBy(s, n, pad)
    <2> SUFFICES ASSUME NEW s, NEW n, NEW pad PROVE CoveredBy(s, n, pad)' = CoveredBy(s, n, pad)
      OBVIOUS
    <2>1. PICK e : e = EndOffset(s)
      OBVIOUS
    <2>2. Fetchable(s, e)' = Fetchable(s, e)
      BY <1>2
    <2>3. Offset(s)' = Offset(s) /\ EndOffset(s)' = EndOffset(s)
      BY FileSame
    <2> QED
      BY <2>1, <2>2, <2>3 DEF CoveredBy
  <1>4. \A s : Placed(s)' = Placed(s) /\ Examined(s)' = Examined(s)
    <2> SUFFICES ASSUME NEW s PROVE Placed(s)' = Placed(s) /\ Examined(s)' = Examined(s)
      OBVIOUS
    <2>1. Containing(s)' = Containing(s)
      BY DEF Containing
    <2>2. Ignored(s)' = Ignored(s)
      BY FileSame
    <2> QED
      BY <2>1, <2>2 DEF Placed, Examined, Valid, Instructions, Starts, Follows, InstSize
  <1> QED
    BY <1>1, <1>2, <1>3, <1>4

(* The greater of two sizes.                                               *)
LEMMA MaxOfTwo ==
  ASSUME NEW a \in Nat, NEW b \in Nat
  PROVE  Max({a, b}) \in Nat /\ Max({a, b}) >= a /\ Max({a, b}) >= b
  <1>1. \E m \in {a, b} : \A y \in {a, b} : m >= y
    OBVIOUS
  <1>2. Max({a, b}) \in {a, b} /\ \A y \in {a, b} : Max({a, b}) >= y
    BY <1>1 DEF Max
  <1> HIDE DEF Max
  <1> QED
    BY <1>2

(* An instruction has two bytes in its section.                            *)
LEMMA InstructionBytes ==
  ASSUME NEW s, s.size \in Nat, NEW j \in Instructions(s)
  PROVE  j \in Nat /\ j >= 1 /\ j + 1 <= s.size
  <1>1. j \in 1..s.size /\ j + InstSize(s.data[j]) - 1 <= s.size
    BY DEF Instructions, Starts
  <1>2. InstSize(s.data[j]) \in {2, 4}
    BY DEF InstSize
  <1> QED
    BY <1>1, <1>2

(* The padding covers what was left to cover.                              *)
LEMMA CoveredFetchable ==
  ASSUME NEW s, NEW size \in Nat, NEW pad \in BOOLEAN, CoveredBy(s, size, pad)
  PROVE  Fetchable(s, IF pad THEN size + 2 ELSE size)
  <1> DEFINE n == IF pad THEN size + 2 ELSE size
  <1> SUFFICES ASSUME NEW j \in Instructions(s) PROVE Offset(s) + (j - 1) + 4 <= n
    BY DEF Fetchable
  <1>1. /\ Offset(s) \in Nat /\ s.size \in Nat /\ EndOffset(s) = Offset(s) + s.size
        /\ EndOffset(s) <= size
    BY DEF CoveredBy, EndOffset
  <1>2. j \in Nat /\ j >= 1 /\ j + 1 <= s.size
    BY <1>1, InstructionBytes
  <1>3. CASE pad \/ EndOffset(s) + 2 <= size
    BY <1>1, <1>2, <1>3
  <1>4. CASE Fetchable(s, EndOffset(s))
    <2>1. Offset(s) + (j - 1) + 4 <= EndOffset(s)
      BY <1>4 DEF Fetchable
    <2> QED
      BY <1>1, <1>2, <2>1
  <1> QED
    BY <1>3, <1>4 DEF CoveredBy

(* More bytes and more padding cover no less.                              *)
LEMMA CoveredMore ==
  ASSUME NEW s, NEW size \in Nat, NEW more \in Nat, size <= more, NEW pad, NEW newpad,
         CoveredBy(s, size, pad), pad => newpad \/ EndOffset(s) + 2 <= more
  PROVE  CoveredBy(s, more, newpad)
  <1>1. EndOffset(s) \in Int
    BY DEF CoveredBy, EndOffset
  <1> QED
    BY <1>1 DEF CoveredBy

(* What transpile_raw has been through are the instructions of the section. *)
LEMMA StartsVisited ==
  ASSUME NEW s, s.size \in Nat, NEW n \in Nat, n + 2 > s.size, NEW V \in SUBSET Nat, NEW pad,
         Visited(V, s, n, pad), NEW j \in Starts(s), j < s.size
  PROVE  j \in V
  <1>1. j \in Nat /\ j >= 1
    BY DEF Starts
  <1> DEFINE S == {x \in 1..s.size : x \in V \/ x > n}
  <1>2. Follows(S, s)
    <2>1. s.size > 0 => 1 \in S
      BY DEF Visited
    <2>2. ASSUME NEW x \in S, x + InstSize(s.data[x]) <= s.size
          PROVE  x + InstSize(s.data[x]) \in S
      <3>1. InstSize(s.data[x]) \in {2, 4} /\ x \in Nat
        BY DEF InstSize
      <3>2. CASE x \in V
        <4>1. x + InstSize(s.data[x]) \in V \cup {n + 1}
          BY <3>2 DEF Visited
        <4> QED
          BY <2>2, <3>1, <4>1
      <3>3. CASE x > n
        BY <2>2, <3>1, <3>3
      <3> QED
        BY <3>2, <3>3
    <2> QED
      BY <2>1, <2>2 DEF Follows
  <1>3. S \in SUBSET (1..s.size)
    OBVIOUS
  <1>4. j \in S
    BY <1>2, <1>3 DEF Starts
  <1> QED
    BY <1>1, <1>4

LEMMA VisitedFetchable ==
  ASSUME NEW s, s.size \in Nat, NEW n \in Nat, n + 2 > s.size, NEW V \in SUBSET Nat,
         Visited(V, s, n, FALSE), Offset(s) \in Nat
  PROVE  Fetchable(s, EndOffset(s))
  <1> SUFFICES ASSUME NEW j \in Instructions(s) PROVE Offset(s) + (j - 1) + 4 <= EndOffset(s)
    BY DEF Fetchable
  <1>1. j \in Nat /\ j >= 1 /\ j + 1 <= s.size
    BY InstructionBytes
  <1>2. j \in Starts(s) /\ j < s.size
    BY <1>1 DEF Instructions
  <1>3. j \in V
    BY <1>2, StartsVisited
  <1>4. j + 3 <= s.size
    BY <1>1, <1>3 DEF Visited
  <1> QED
    BY <1>1, <1>4 DEF EndOffset

LEMMA VisitedValid ==
  ASSUME NEW s, s.size \in Nat, NEW n \in Nat, n <= s.size, n + 2 > s.size, NEW V \in SUBSET Nat,
         NEW pad, Visited(V, s, n, pad), s.read = "Ok"
  PROVE  Valid(s)
  <1> SUFFICES ASSUME NEW j \in Starts(s), j < s.size
               PROVE  s.data[j] # "bad" /\ j \in Instructions(s)
    BY DEF Valid
  <1>1. j \in V /\ j \in Nat
    BY StartsVisited
  <1>2. s.data[j] # "bad" /\ j + InstSize(s.data[j]) <= n + 1 /\ InstSize(s.data[j]) \in {2, 4}
    BY <1>1 DEF Visited, InstSize
  <1> QED
    BY <1>1, <1>2 DEF Instructions

(* A section is copied: data is done with, code is to be gone through.     *)
LEMMA CopyValid == TranspilerInv /\ ValidInv /\ CopySection => ValidInv'
  <1> SUFFICES ASSUME TranspilerInv, ValidInv, CopySection, Mode = "slice" PROVE ValidInv'
    BY DEF ValidInv
  <1>1. /\ status = "Sections" /\ sec <= Len(elf.sections)
        /\ Current.load /\ Containing(Current) # {} /\ Current.align # 0 /\ ~Ignored(Current)
    BY DEF CopySection, AtSection
  <1>2. elf \in Elfs /\ sec \in Nat \ {0} /\ Current.read \in {"Ok"} \cup Errors
    BY <1>1, FileType DEF TranspilerInv, TranspilerTypeOK, Current
  <1>3. CASE \E result \in Errors \cup {"Panic"} : status' = result
    BY <1>3 DEF Errors, ValidInv
  <1>4. CASE /\ Current.exec /\ status' = "Raw" /\ i' = 0 /\ sec' = sec /\ elf' = elf
             /\ Current.read = "Ok"
    <2>1. Current' = Current
      BY <1>4 DEF Current
    <2>2. Visited({}, Current, i, needs_padding)'
      BY <1>4 DEF Visited
    <2>3. PICK s : s = Current
      OBVIOUS
    <2>4. Placed(s)'
      BY <1>1, <1>4, <2>3, FetchSame DEF Placed
    <2> QED
      BY <1>1, <1>4, <2>1, <2>2, <2>3, <2>4, FetchSame DEF ValidInv
  <1>5. CASE /\ ~Current.exec /\ status' = "Sections" /\ sec' = sec + 1 /\ elf' = elf
             /\ Current.read = "Ok"
    <2>1. Placed(Current) /\ Examined(Current)
      BY <1>1, <1>5 DEF Placed, Examined, Valid
    <2>2. \A k \in 1..(sec' - 1) : Placed(elf.sections[k]) /\ Examined(elf.sections[k])
      BY <1>1, <1>2, <1>5, <2>1 DEF ValidInv, Current
    <2> QED
      BY <1>1, <1>5, <2>2, FetchSame DEF ValidInv
  <1> QED
    <2>1. CASE Current.read # "Ok"
      BY <1>2, <1>3, <2>1 DEF CopySection, Return
    <2>2. CASE Current.read = "Ok" /\ status' = "BufferTooSmall"
      BY <1>3, <2>2 DEF Errors
    <2>3. CASE Current.read = "Ok" /\ status' # "BufferTooSmall"
      BY <1>1, <1>3, <1>4, <1>5, <2>3 DEF CopySection, Return
    <2> QED
      BY <2>1, <2>2, <2>3

(* One instruction more is converted.                                      *)
LEMMA ConvertValid == TranspilerInv /\ ValidInv /\ ConvertNext => ValidInv'
  <1> SUFFICES ASSUME TranspilerInv, ValidInv, ConvertNext, Mode = "slice",
                      status' \in {"Parse", "Sections", "Raw", "Ok"}
               PROVE  ValidInv'
    BY DEF ValidInv
  <1>1. PICK kind \in KindsOf(out[offset + i]) :
          /\ kind # "bad" /\ offset + i + InstSize(kind) <= end_offset
          /\ i' = i + InstSize(kind)
          /\ needs_padding' = (needs_padding \/ offset + i + 4 > end_offset)
          /\ UNCHANGED <<elf, sec, offset, end_offset, binary_size, status>>
    BY DEF ConvertNext, Return
  <1>2. status = "Raw" /\ offset + i + 2 <= end_offset
    BY DEF ConvertNext
  <1>3. /\ elf \in Elfs /\ sec \in Nat \ {0} /\ needs_padding \in BOOLEAN
        /\ offset \in Nat /\ i \in Nat /\ end_offset \in Nat
    BY TranspilerAssumption DEF TranspilerInv, TranspilerTypeOK
  <1>4. /\ end_offset = offset + Current.size /\ sec <= Len(elf.sections)
        /\ \A p \in offset..(end_offset - 1) :
             out[p] = Byte(sec, p - offset + 1, IF p < offset + i THEN 1 ELSE 0)
    BY <1>2 DEF TranspilerInv, Converting, EndOffset
  <1>5. kind = Current.data[i + 1]
    <2>1. offset + i \in offset..(end_offset - 1) /\ ~(offset + i < offset + i)
          /\ (offset + i) - offset + 1 = i + 1
      BY <1>2, <1>3
    <2>2. out[offset + i] = Byte(sec, i + 1, 0)
      BY <1>4, <2>1
    <2>3. KindsOf(out[offset + i]) = {elf.sections[sec].data[i + 1]}
      BY <1>3, <2>2 DEF KindsOf, Byte
    <2> QED
      BY <1>1, <2>3 DEF Current
  <1>6. Current.size \in Nat
    BY <1>3, <1>4, FileType, TranspilerAssumption DEF Current
  <1>7. PICK V \in SUBSET Nat : Visited(V, Current, i, needs_padding)
    BY <1>2 DEF ValidInv
  <1>8. InstSize(kind) \in {2, 4}
    BY DEF InstSize
  <1>9. Visited(V \cup {i + 1}, Current, i', needs_padding')
    <2>1. V \cup {i + 1} \subseteq 1..i' /\ 1 \in V \cup {i + 1}
      <3>1. V \subseteq 1..i /\ (i > 0 => 1 \in V)
        BY <1>7 DEF Visited
      <3>2. i' \in Nat /\ i' >= i + 1
        BY <1>1, <1>3, <1>8
      <3> QED
        BY <1>3, <3>1, <3>2
    <2>2. ASSUME NEW j \in V \cup {i + 1}
          PROVE  j + InstSize(Current.data[j]) \in (V \cup {i + 1}) \cup {i' + 1}
      BY <1>1, <1>3, <1>5, <1>7, <1>8 DEF Visited
    <2>3. ASSUME NEW j \in V \cup {i + 1}
          PROVE  Current.data[j] # "bad" /\ j + InstSize(Current.data[j]) <= i' + 1
      <3>1. CASE j \in V
        <4>1. Current.data[j] # "bad" /\ j + InstSize(Current.data[j]) <= i + 1 /\ j \in Nat
          BY <1>7, <3>1 DEF Visited
        <4>2. InstSize(Current.data[j]) \in Nat
          BY DEF InstSize
        <4> QED
          BY <1>1, <1>3, <1>8, <4>1, <4>2
      <3>2. CASE j = i + 1
        BY <1>1, <1>3, <1>5, <1>8, <3>2
      <3> QED
        BY <3>1, <3>2
    <2>4. ASSUME NEW j \in V \cup {i + 1}, j + 3 > Current.size PROVE needs_padding'
      <3>1. CASE j \in V
        BY <1>1, <1>7, <2>4, <3>1 DEF Visited
      <3>2. CASE j = i + 1
        <4>1. PICK c \in Nat : c = Current.size
          BY <1>6
        <4>2. offset + i + 4 > end_offset
          BY <1>3, <1>4, <2>4, <3>2, <4>1
        <4> QED
          BY <1>1, <4>2
      <3> QED
        BY <3>1, <3>2
    <2> QED
      BY <2>1, <2>2, <2>3, <2>4 DEF Visited
  <1>10. PICK W \in SUBSET Nat : W = V \cup {i + 1}
    <2>1. V \cup {i + 1} \in SUBSET Nat
      BY <1>3
    <2> QED
      BY <2>1
  <1>11. Current' = Current
    BY <1>1 DEF Current
  <1>12. Visited(W, Current, i, needs_padding)'
    BY <1>9, <1>10, <1>11 DEF Visited, InstSize
  <1>13. PICK s : s = Current
    OBVIOUS
  <1>14. Placed(s)' = Placed(s)
    BY <1>1, FetchSame
  <1> QED
    BY <1>1, <1>2, <1>11, <1>12, <1>13, <1>14, FetchSame DEF ValidInv

(* The section is done.                                                    *)
LEMMA RawDoneValid == TranspilerInv /\ ValidInv /\ RawDone => ValidInv'
  <1> SUFFICES ASSUME TranspilerInv, ValidInv, RawDone, Mode = "slice" PROVE ValidInv'
    BY DEF ValidInv
  <1>1. /\ status = "Raw" /\ status' = "Sections" /\ offset + i + 2 > end_offset
        /\ sec' = sec + 1 /\ elf' = elf
    BY DEF RawDone
  <1>2. /\ elf \in Elfs /\ sec \in Nat \ {0} /\ offset \in Nat /\ i \in Nat
    BY TranspilerAssumption DEF TranspilerInv, TranspilerTypeOK
  <1>3. end_offset = offset + Current.size /\ offset + i <= end_offset /\ sec <= Len(elf.sections)
    BY <1>1 DEF TranspilerInv, Converting, EndOffset
  <1>4. Current.size \in Nat
    BY <1>2, <1>3, FileType, TranspilerAssumption DEF Current
  <1>5. PICK s : s = Current
    OBVIOUS
  <1>6. PICK V \in SUBSET Nat : Visited(V, s, i, needs_padding)
    BY <1>1, <1>5 DEF ValidInv
  <1>7. i <= s.size /\ i + 2 > s.size /\ s.size \in Nat
    BY <1>1, <1>2, <1>3, <1>4, <1>5
  <1>8. Placed(s) /\ s.read = "Ok"
    BY <1>1, <1>5 DEF ValidInv
  <1>9. Examined(s)
    BY <1>2, <1>6, <1>7, <1>8, VisitedValid DEF Examined
  <1>10. \A k \in 1..(sec' - 1) : Placed(elf.sections[k]) /\ Examined(elf.sections[k])
    BY <1>1, <1>2, <1>5, <1>8, <1>9 DEF ValidInv, Current
  <1> QED
    BY <1>1, <1>10, FetchSame DEF ValidInv

LEMMA ValidNext == TranspilerInv /\ ValidInv /\ [Next]_vars => ValidInv'
  <1> SUFFICES ASSUME TranspilerInv, ValidInv, [Next]_vars, Mode = "slice" PROVE ValidInv'
    BY DEF ValidInv
  <1>1. CASE NoSegment \/ PanicAtSection \/ OverflowAtSection
    BY <1>1 DEF NoSegment, PanicAtSection, OverflowAtSection, Return, ValidInv
  <1>2. CASE Parse
    <2>1. elf.header \in {"Ok"} \cup Errors /\ sec \in Nat
      BY FileType DEF TranspilerInv, TranspilerTypeOK
    <2>2. sec = 1
      BY <1>2 DEF Parse, ValidInv
    <2> QED
      BY <1>2, <2>1, <2>2 DEF Parse, Errors, ValidInv
  <1>3. CASE SkipSection
    <2>1. /\ elf' = elf /\ sec' = sec + 1 /\ status = "Sections" /\ status' = "Sections"
          /\ ~Current.load \/ (Containing(Current) # {} /\ Current.align # 0 /\ Ignored(Current))
      BY <1>3 DEF SkipSection, AtSection
    <2>2. sec \in Nat \ {0}
      BY DEF TranspilerInv, TranspilerTypeOK
    <2>3. Placed(Current) /\ Examined(Current)
      BY <2>1 DEF Placed, Examined, Valid
    <2>4. \A k \in 1..(sec' - 1) : Placed(elf.sections[k]) /\ Examined(elf.sections[k])
      BY <2>1, <2>2, <2>3 DEF ValidInv, Current
    <2> QED
      BY <2>1, <2>4, FetchSame DEF ValidInv
  <1>4. CASE Finish
    <2>1. elf' = elf /\ sec' = sec /\ sec > Len(elf.sections) /\ status = "Sections"
          /\ status' \in {"Ok", "BufferTooSmall"}
      BY <1>4 DEF Finish, Return
    <2> QED
      BY <2>1, FetchSame DEF ValidInv
  <1>5. CASE Stop \/ UNCHANGED vars
    <2>1. UNCHANGED vars
      BY <1>5 DEF Stop
    <2>2. Current' = Current
      BY <2>1 DEF vars, Current
    <2>3. PICK s : s = Current
      OBVIOUS
    <2>4. Placed(s)' = Placed(s)
      BY <2>1, FetchSame DEF vars
    <2>5. \A V : Visited(V, Current, i, needs_padding)' = Visited(V, Current, i, needs_padding)
      BY <2>1, <2>2 DEF vars, Visited, InstSize
    <2>6. \A k : Placed(elf.sections[k])' = Placed(elf.sections[k])
                 /\ Examined(elf.sections[k])' = Examined(elf.sections[k])
      BY <2>1, FetchSame DEF vars
    <2> QED
      BY <2>1, <2>2, <2>3, <2>4, <2>5, <2>6 DEF vars, ValidInv
  <1> QED
    BY <1>1, <1>2, <1>3, <1>4, <1>5, CopyValid, ConvertValid, RawDoneValid DEF Next

LEMMA ValidInductive == Spec => []ValidInv
  <1>1. Init => ValidInv
    BY DEF Init, ValidInv
  <1> QED
    BY <1>1, ValidNext, TranspilerInductive, PTL DEF Spec

(* Rounding up to a multiple.                                              *)
LEMMA MultipleAbove ==
  ASSUME NEW a \in Nat, NEW n \in Nat \ {0}
  PROVE  NextMultiple(a, n) \in Nat /\ NextMultiple(a, n) >= a
  <1> DEFINE b == a + n - 1
             q == b \div n
  <1>1. b \in Nat /\ q \in Int /\ b = n * q + (b % n) /\ b % n \in 0..(n - 1)
    OBVIOUS
  <1>2. PICK m \in Int : m = n * q /\ m = q * n
    BY <1>1
  <1>3. m > a - 1
    BY <1>1, <1>2
  <1> QED
    BY <1>2, <1>3 DEF NextMultiple

(* At entry 0 only an empty section ends where it is loaded.               *)
LEMMA OnlyEmptyIgnored ==
  ASSUME elf.entry = 0, NEW s, Paddr(s) \in 0..(U32 - 1), s.align \in Nat \ {0}, s.size \in Nat,
         Ignored(s), ~OffsetOverflows(s)
  PROVE  s.size = 0
  <1> DEFINE n == NextMultiple(Paddr(s), s.align)
  <1>1. Minus(Paddr(s), elf.entry) = Paddr(s)
    BY TranspilerAssumption DEF Minus
  <1>2. n \in Nat /\ n >= Paddr(s)
    BY MultipleAbove
  <1>3. n < U32
    BY <1>1, <1>2, TranspilerAssumption DEF OffsetOverflows
  <1>4. Offset(s) = n
    BY <1>1, <1>2, <1>3, TranspilerAssumption DEF Offset
  <1> QED
    BY <1>2, <1>4 DEF Ignored, EndOffset

(* transpile_elf, for every ELF file: a binary is returned only when the   *)
(* headers are valid and every loaded section has its segment, and is read *)
(* and converted to its end or dropped as empty, wherever in the file the  *)
(* fault is.  With entry 0, and addresses that do not wrap around, what is *)
(* dropped is empty.                                                       *)
THEOREM OnlyValidFiles == Spec => []OkOnlyWhenValid
  <1>1. TranspilerInv /\ ValidInv => OkOnlyWhenValid
    <2> SUFFICES ASSUME TranspilerInv, ValidInv, status = "Ok", Mode = "slice",
                        NEW k \in 1..Len(elf.sections), elf.sections[k].load
                 PROVE  /\ Containing(elf.sections[k]) # {} /\ elf.sections[k].align # 0
                        /\ Valid(elf.sections[k]) \/ TakenForEmpty(elf.sections[k])
      BY DEF OkOnlyWhenValid, ValidInv
    <2>1. sec \in Nat /\ Len(elf.sections) \in Nat /\ sec > Len(elf.sections) /\ elf \in Elfs
      BY FileType DEF TranspilerInv, TranspilerTypeOK, ValidInv
    <2>2. k \in 1..(sec - 1)
      BY <2>1
    <2>3. PICK s : s = elf.sections[k]
      OBVIOUS
    <2>4. Containing(s) # {} /\ s.align # 0 /\ Examined(s) /\ s.load
      BY <2>2, <2>3 DEF ValidInv, Placed
    <2>5. ASSUME Ignored(s), elf.entry = 0, ~OffsetOverflows(s) PROVE s.size = 0
      <3>1. s.align \in Nat \ {0} /\ s.size \in Nat
        BY <2>1, <2>3, <2>4, FileType, TranspilerAssumption
      <3>2. Paddr(s) \in 0..(U32 - 1)
        BY <2>1, <2>3, <2>4, OffsetType
      <3> QED
        BY <2>5, <3>1, <3>2, OnlyEmptyIgnored
    <2> QED
      BY <2>3, <2>4, <2>5 DEF Examined, TakenForEmpty
  <1> QED
    BY <1>1, TranspilerInductive, ValidInductive, PTL

-----------------------------------------------------------------------------
(* The panics of a release build                                           *)

\* transpile_raw is at the start of an instruction.
StartInv == Mode = "slice" /\ status = "Raw" /\ i + 1 <= Current.size => i + 1 \in Starts(Current)

(* The first instruction starts at the first byte.                         *)
LEMMA FirstStart ==
  ASSUME NEW s, s.size \in Nat \ {0}
  PROVE  1 \in Starts(s)
  BY DEF Starts, Follows

(* The next instruction starts where one ends.                             *)
LEMMA NextStart ==
  ASSUME NEW s, s.size \in Nat, NEW j \in Starts(s), NEW next, next = j + InstSize(s.data[j]),
         next <= s.size
  PROVE  next \in Starts(s)
  <1>1. j \in 1..s.size /\ InstSize(s.data[j]) \in {2, 4}
    BY DEF Starts, InstSize
  <1>2. next \in 1..s.size
    BY <1>1
  <1>3. ASSUME NEW S \in SUBSET (1..s.size), Follows(S, s) PROVE next \in S
    BY <1>3 DEF Starts, Follows
  <1> QED
    BY <1>2, <1>3 DEF Starts

(* What transpile_raw is at is an instruction of the section, as it was in *)
(* the file.                                                               *)
LEMMA AtInstruction ==
  ASSUME TranspilerInv, StartInv, Mode = "slice", status = "Raw", offset + i + 2 <= end_offset
  PROVE  /\ sec \in 1..Len(elf.sections) /\ Current.load /\ Current.exec
         /\ offset \in Nat /\ i \in Nat /\ Current.size \in Nat
         /\ end_offset = offset + Current.size
         /\ i + 1 \in Starts(Current) /\ KindsOf(out[offset + i]) = {Current.data[i + 1]}
  <1>1. /\ elf \in Elfs /\ sec \in Nat \ {0} /\ offset \in Nat /\ i \in Nat /\ end_offset \in Nat
    BY TranspilerAssumption DEF TranspilerInv, TranspilerTypeOK
  <1>2. /\ end_offset = offset + Current.size /\ sec <= Len(elf.sections)
        /\ Current.load /\ Current.exec
        /\ \A p \in offset..(end_offset - 1) :
             out[p] = Byte(sec, p - offset + 1, IF p < offset + i THEN 1 ELSE 0)
    BY DEF TranspilerInv, Converting, EndOffset
  <1>3. Current.size \in Nat /\ sec \in 1..Len(elf.sections)
    BY <1>1, <1>2, FileType, TranspilerAssumption DEF Current
  <1>4. i + 1 \in Starts(Current)
    <2>1. PICK c \in Nat : c = Current.size
      BY <1>3
    <2>2. i + 1 <= c
      BY <1>1, <1>2, <2>1
    <2> QED
      BY <2>1, <2>2 DEF StartInv
  <1>5. KindsOf(out[offset + i]) = {Current.data[i + 1]}
    <2>1. offset + i \in offset..(end_offset - 1) /\ ~(offset + i < offset + i)
          /\ (offset + i) - offset + 1 = i + 1
      BY <1>1
    <2>2. out[offset + i] = Byte(sec, i + 1, 0)
      BY <1>2, <2>1
    <2> QED
      BY <1>1, <2>2 DEF KindsOf, Byte, Current
  <1> QED
    BY <1>1, <1>2, <1>3, <1>4, <1>5

(* From one instruction to the next.                                       *)
LEMMA StartNext == TranspilerInv /\ StartInv /\ [Next]_vars => StartInv'
  <1> SUFFICES ASSUME TranspilerInv, StartInv, [Next]_vars, Mode = "slice", status' = "Raw",
                      (i + 1 <= Current.size)'
               PROVE  (i + 1 \in Starts(Current))'
    BY DEF StartInv
  <1>1. CASE CopySection
    <2>1. status = "Sections" /\ sec \in 1..Len(elf.sections) /\ elf \in Elfs
      BY <1>1, FileType DEF CopySection, AtSection, TranspilerInv, TranspilerTypeOK
    <2>2. Current.read \in {"Ok"} \cup Errors
      BY <2>1, FileType DEF Current
    <2>3. i' = 0 /\ sec' = sec /\ elf' = elf
      BY <1>1, <2>1, <2>2 DEF CopySection, Return, Errors
    <2>4. PICK s : s = Current
      OBVIOUS
    <2>5. Current' = s
      BY <2>3, <2>4 DEF Current
    <2>6. s.size \in Nat
      BY <2>1, <2>4, FileType, TranspilerAssumption DEF Current
    <2>7. 1 <= s.size
      BY <2>3, <2>5
    <2>8. 1 \in Starts(s)
      BY <2>6, <2>7, FirstStart
    <2> QED
      BY <2>3, <2>5, <2>8
  <1>2. CASE ConvertNext
    <2>1. PICK kind \in KindsOf(out[offset + i]) :
            i' = i + InstSize(kind) /\ elf' = elf /\ sec' = sec /\ status = "Raw"
            /\ offset + i + 2 <= end_offset
      BY <1>2 DEF ConvertNext, Return
    <2>2. PICK s : s = Current
      OBVIOUS
    <2>3. kind = s.data[i + 1] /\ i + 1 \in Starts(s) /\ i \in Nat /\ s.size \in Nat
      BY <2>1, <2>2, AtInstruction
    <2>4. Current' = s
      BY <2>1, <2>2 DEF Current
    <2>5. InstSize(kind) \in Nat
      BY DEF InstSize
    <2>6. PICK next : next = i' + 1
      OBVIOUS
    <2>7. next = (i + 1) + InstSize(s.data[i + 1]) /\ next <= s.size
      BY <2>1, <2>3, <2>4, <2>5, <2>6
    <2>8. next \in Starts(s)
      BY <2>3, <2>7, NextStart
    <2> QED
      BY <2>4, <2>6, <2>8
  <1>3. CASE Parse
    BY <1>3, FileType DEF Parse, TranspilerInv, TranspilerTypeOK, Errors
  <1>4. CASE Stop \/ UNCHANGED vars
    <2>1. UNCHANGED vars
      BY <1>4 DEF Stop
    <2>2. PICK s : s = Current
      OBVIOUS
    <2>3. Current' = s /\ i' = i /\ status = "Raw"
      BY <2>1, <2>2 DEF vars, Current
    <2> QED
      BY <2>2, <2>3 DEF StartInv
  <1>5. CASE SkipSection \/ NoSegment \/ PanicAtSection \/ OverflowAtSection \/ RawDone \/ Finish
    BY <1>5 DEF SkipSection, AtSection, NoSegment, PanicAtSection, OverflowAtSection, RawDone,
                Finish, Return
  <1> QED
    BY <1>1, <1>2, <1>3, <1>4, <1>5 DEF Next

(* A section that fits leaves its end in the buffer.                       *)
LEMMA CopyInRange == TranspilerInv /\ CopySection /\ Mode = "slice" => status' # "Panic"
  <1> SUFFICES ASSUME TranspilerInv, CopySection, Mode = "slice", status' = "Panic" PROVE FALSE
    OBVIOUS
  <1> DEFINE data == [j \in 1..Current.size |-> Byte(sec, j, 0)]
             at == Offset(Current)
             end == EndOffset(Current)
  <1>1. /\ status = "Sections" /\ sec \in 1..Len(elf.sections) /\ elf \in Elfs /\ Length \in Nat
        /\ Containing(Current) # {} /\ Current.align # 0
    BY FileType DEF CopySection, AtSection, TranspilerInv, TranspilerTypeOK
  <1>2. Current.read \in {"Ok"} \cup Errors
    BY <1>1, FileType DEF Current
  <1>3. /\ Fits(at, data) /\ out' = Appended(at, data)
        /\ ~(end <= Cardinality(DOMAIN out'))
    BY <1>1, <1>2 DEF CopySection, Return, Errors
  <1>4. PICK c : c = Current.size
    OBVIOUS
  <1>5. c \in Nat /\ at \in Nat /\ end = at + c
    <2>1. U32 \in Nat
      BY TranspilerAssumption
    <2>2. Offset(elf.sections[sec]) \in 0..(U32 - 1) /\ elf.sections[sec].size \in 0..(U32 - 1)
      BY <1>1, OffsetType, FileType DEF Current
    <2> QED
      BY <1>4, <2>1, <2>2 DEF Current, EndOffset
  <1>6. Len(data) = c
    <2>1. PICK S : S = {Byte(sec, j, 0) : j \in 1..c}
      OBVIOUS
    <2>2. data \in [1..c -> S]
      BY <1>4, <2>1
    <2> QED
      BY <1>5, <2>2, DataLength
  <1>7. at + c <= Length
    BY <1>3, <1>6 DEF Fits
  <1>8. Cardinality(DOMAIN out') = Length
    <2>1. DOMAIN out' = 0..(Length - 1)
      BY <1>3 DEF Appended
    <2> QED
      BY <1>1, <2>1, BufferLength
  <1> QED
    BY <1>1, <1>3, <1>5, <1>7, <1>8

(* A step into a panic has its reason in the section the loop is at.       *)
LEMMA PanicNext == TranspilerInv /\ StartInv /\ OnlyTwoPanics /\ [Next]_vars => OnlyTwoPanics'
  <1> SUFFICES ASSUME TranspilerInv, StartInv, OnlyTwoPanics, [Next]_vars,
                      status' = "Panic", Mode = "slice"
               PROVE  OnlyTwoPanics'
    BY DEF OnlyTwoPanics
  <1> DEFINE Reason(k) == /\ elf.sections[k].load
                          /\ \/ elf.sections[k].align = 0
                             \/ elf.sections[k].exec /\ Truncated(elf.sections[k])
  <1>1. ASSUME elf' = elf, NEW k \in 1..Len(elf.sections), Reason(k)
        PROVE  OnlyTwoPanics'
    <2>1. PICK s : s = elf.sections[k]
      OBVIOUS
    <2>2. k \in 1..Len(elf'.sections) /\ elf'.sections[k] = s
      BY <1>1, <2>1
    <2>3. s.load /\ (s.align = 0 \/ (s.exec /\ Truncated(s)))
      BY <1>1, <2>1
    <2>4. Truncated(elf.sections[k])' <=> Truncated(s)
      BY <1>1, <2>1 DEF Truncated, Instructions, Starts, Follows, InstSize
    <2> QED
      BY <2>2, <2>3, <2>4 DEF OnlyTwoPanics
  <1> HIDE DEF Reason
  <1>2. sec \in Nat \ {0} /\ Len(elf.sections) \in Nat
    BY FileType DEF TranspilerInv, TranspilerTypeOK
  <1>3. CASE PanicAtSection
    <2>1. elf' = elf /\ sec \in 1..Len(elf.sections) /\ Reason(sec)
      BY <1>2, <1>3 DEF PanicAtSection, AtSection, Current, Return, Reason
    <2> QED
      BY <1>1, <2>1
  <1>4. CASE ConvertNext
    <2>1. PICK kind \in KindsOf(out[offset + i]) :
            /\ kind = "word" /\ offset + i + InstSize(kind) > end_offset
            /\ elf' = elf /\ status = "Raw" /\ offset + i + 2 <= end_offset
      BY <1>4 DEF ConvertNext, Return
    <2>2. PICK s : s = Current
      OBVIOUS
    <2>3. /\ sec \in 1..Len(elf.sections) /\ s.load /\ s.exec /\ offset \in Nat /\ i \in Nat
          /\ s.size \in Nat /\ end_offset = offset + s.size
          /\ i + 1 \in Starts(s) /\ kind = s.data[i + 1]
      BY <2>1, <2>2, AtInstruction
    <2>4. i + 1 < s.size /\ i + 1 + InstSize(s.data[i + 1]) - 1 > s.size
      <3>1. InstSize(kind) = 4
        BY <2>1 DEF InstSize
      <3>2. PICK c \in Nat : c = s.size
        BY <2>3
      <3>3. i + 1 < c /\ i + 1 + 4 - 1 > c
        BY <2>1, <2>3, <3>1, <3>2
      <3> QED
        BY <2>3, <3>1, <3>2, <3>3
    <2>5. i + 1 \notin Instructions(s)
      <3>1. PICK c \in Nat : c = s.size
        BY <2>3
      <3>2. PICK n \in Nat : n = InstSize(s.data[i + 1])
        BY DEF InstSize
      <3>3. ~(i + 1 + n - 1 <= c)
        BY <2>3, <2>4, <3>1, <3>2
      <3> QED
        BY <3>1, <3>2, <3>3 DEF Instructions
    <2>6. Truncated(s)
      BY <2>3, <2>4, <2>5 DEF Truncated
    <2>7. Reason(sec)
      BY <2>2, <2>3, <2>6 DEF Current, Reason
    <2> QED
      BY <1>1, <2>1, <2>3, <2>7
  <1>5. CASE Stop \/ UNCHANGED vars
    <2>1. elf' = elf /\ status = "Panic"
      BY <1>5 DEF Stop, vars
    <2>2. PICK k \in 1..Len(elf.sections) : Reason(k)
      BY <2>1 DEF OnlyTwoPanics, Reason
    <2> QED
      BY <1>1, <2>1, <2>2
  <1>6. CASE CopySection
    BY <1>6, CopyInRange
  <1>7. CASE Parse
    BY <1>7, FileType DEF Parse, TranspilerInv, TranspilerTypeOK, Errors
  <1>8. CASE SkipSection \/ NoSegment \/ OverflowAtSection \/ RawDone \/ Finish
    BY <1>8 DEF SkipSection, AtSection, NoSegment, OverflowAtSection, RawDone, Finish, Return
  <1> QED
    BY <1>3, <1>4, <1>5, <1>6, <1>7, <1>8 DEF Next

(* transpile_elf, for every ELF file and every buffer: a release build     *)
(* panics only for a section with alignment 0 or with truncated code; every *)
(* access to the buffer is in range.                                       *)
THEOREM PanicsExplained == Spec => []OnlyTwoPanics
  <1>1. Init => StartInv /\ OnlyTwoPanics
    BY DEF Init, StartInv, OnlyTwoPanics
  <1>2. TranspilerInv /\ (StartInv /\ OnlyTwoPanics) /\ [Next]_vars => (StartInv /\ OnlyTwoPanics)'
    BY StartNext, PanicNext
  <1> QED
    BY <1>1, <1>2, TranspilerInductive, PTL DEF Spec

-----------------------------------------------------------------------------
(* Fetching                                                                *)

(* A section is copied: behind the ones before it.                         *)
LEMMA CopyFetch == TranspilerInv /\ TranspilerInv' /\ FetchInv /\ CopySection => FetchInv'
  <1> SUFFICES ASSUME TranspilerInv, TranspilerInv', FetchInv, CopySection PROVE FetchInv'
    OBVIOUS
  <1>0. status' \notin {"Parse", "Ok"}
    <2>1. TranspilerTypeOK /\ AtSection
      BY DEF CopySection, TranspilerInv
    <2>2. Current.read \in {"Ok"} \cup Errors
      BY <2>1, FileType DEF TranspilerTypeOK, AtSection, Current
    <2> QED
      BY <2>1, <2>2 DEF CopySection, AtSection, Return, Errors
  <1> SUFFICES ASSUME Mode = "slice", AddressOrder', status' \in {"Sections", "Raw"}
               PROVE  AllCovered(binary_size, needs_padding)'
    BY <1>0 DEF FetchInv
  <1> DEFINE data == [j \in 1..Current.size |-> Byte(sec, j, 0)]
             at == Offset(Current)
             end == EndOffset(Current)
  <1>1. /\ status = "Sections" /\ sec <= Len(elf.sections)
        /\ Current.load /\ Containing(Current) # {} /\ Current.align # 0 /\ ~Ignored(Current)
    BY DEF CopySection, AtSection
  <1>2. /\ elf \in Elfs /\ sec \in Nat \ {0} /\ Len(elf.sections) \in Nat /\ binary_size \in Nat
        /\ needs_padding \in BOOLEAN
    BY FileType DEF TranspilerInv, TranspilerTypeOK
  <1>3. Current.read = "Ok" /\ Fits(at, data)
    <2>1. Current.read \in {"Ok"} \cup Errors
      BY <1>1, <1>2, FileType DEF Current
    <2> QED
      BY <2>1 DEF CopySection, Return, Errors
  <1>4. /\ binary_size' = Max({binary_size, end}) /\ elf' = elf
        /\ \/ /\ Current.exec /\ status' = "Raw" /\ i' = 0 /\ needs_padding' = FALSE
              /\ sec' = sec
           \/ /\ ~Current.exec /\ needs_padding' = (needs_padding /\ ~CoversFetch(data))
              /\ sec' = sec + 1 /\ status' = status
    BY <1>3 DEF CopySection
  <1>5. at \in Nat /\ Current.size \in Nat /\ end = at + Current.size
    <2>1. sec \in 1..Len(elf.sections) /\ U32 \in Nat
      BY <1>1, <1>2, TranspilerAssumption
    <2>2. Offset(elf.sections[sec]) \in 0..(U32 - 1) /\ elf.sections[sec].size \in 0..(U32 - 1)
      BY <1>1, <1>2, <2>1, OffsetType, FileType DEF Current
    <2> QED
      BY <2>1, <2>2 DEF Current, EndOffset
  <1>6. Len(data) = Current.size
    <2>1. PICK n : n = Current.size
      OBVIOUS
    <2>2. PICK S : S = {Byte(sec, j, 0) : j \in 1..n}
      OBVIOUS
    <2>3. data \in [1..n -> S] /\ n \in Nat
      BY <1>5, <2>1, <2>2
    <2> QED
      BY <2>1, <2>3, DataLength
  <1>7. PICK more : more = binary_size'
    OBVIOUS
  <1>8. PICK newpad : newpad = needs_padding'
    OBVIOUS
  <1>9. more \in Nat /\ more >= binary_size /\ more >= end
    BY <1>2, <1>4, <1>5, <1>7, MaxOfTwo
  <1>10. AddressOrder /\ AllCovered(binary_size, needs_padding)
    <2>1. AddressOrder
      BY <1>4, FetchSame
    <2> QED
      BY <1>1, <2>1 DEF FetchInv
  <1>11. ASSUME NEW k \in Copied, elf.sections[k].exec
         PROVE  CoveredBy(elf.sections[k], more, newpad)
    <2>1. PICK s : s = elf.sections[k]
      OBVIOUS
    <2>2. CoveredBy(s, binary_size, needs_padding)
      BY <1>10, <1>11, <2>1 DEF AllCovered
    <2>3. EndOffset(s) <= at
      <3>1. k \in 1..(sec - 1) /\ sec \in 1..Len(elf.sections) /\ s.load /\ ~Ignored(s)
        BY <1>1, <1>2, <2>1 DEF Copied
      <3> QED
        BY <1>1, <1>10, <2>1, <3>1 DEF AddressOrder, Current
    <2>4. EndOffset(s) \in Nat
      BY <2>2 DEF CoveredBy, EndOffset
    <2>5. needs_padding => newpad \/ EndOffset(s) + 2 <= more
      <3>1. Current.exec => Current.size >= 2
        BY <1>1, <1>2, <1>10 DEF AddressOrder, Current
      <3>2. newpad \/ ~needs_padding \/ Current.size >= 2
        BY <1>4, <1>6, <1>8, <3>1 DEF CoversFetch
      <3>3. Current.size >= 2 => EndOffset(s) + 2 <= more
        <4>1. PICK c : c = Current.size
          OBVIOUS
        <4>2. c >= 2 => EndOffset(s) + 2 <= at + c
          BY <1>5, <2>3, <2>4, <4>1
        <4> QED
          BY <1>5, <1>9, <2>4, <4>1, <4>2
      <3> QED
        BY <3>2, <3>3
    <2>6. CoveredBy(s, more, newpad)
      BY <1>2, <1>9, <2>2, <2>5, CoveredMore
    <2> QED
      BY <2>1, <2>6
  <1>12. \A k \in Copied' : k \in Copied \/ ~elf.sections[k].exec
    <2>1. Copied' \subseteq Copied \cup {k \in {sec} : sec' = sec + 1}
      BY <1>2, <1>4, FileSame DEF Copied
    <2> QED
      BY <1>4, <2>1 DEF Current
  <1> QED
    BY <1>4, <1>7, <1>8, <1>11, <1>12, FetchSame DEF AllCovered

(* One instruction more is converted.                                      *)
LEMMA ConvertFetch == TranspilerInv /\ FetchInv /\ ConvertNext => FetchInv'
  <1> SUFFICES ASSUME TranspilerInv, FetchInv, ConvertNext, Mode = "slice", AddressOrder',
                      status' \in {"Parse", "Sections", "Raw", "Ok"}
               PROVE  status' = "Raw" /\ AllCovered(binary_size, needs_padding)'
    BY DEF FetchInv
  <1>1. /\ status = "Raw" /\ status' = "Raw" /\ elf' = elf /\ sec' = sec
        /\ binary_size' = binary_size /\ (needs_padding => needs_padding')
    BY DEF ConvertNext, Return
  <1>2. AddressOrder
    BY <1>1, FetchSame
  <1>3. PICK newpad : newpad = needs_padding'
    OBVIOUS
  <1>4. ASSUME NEW k \in Copied, elf.sections[k].exec
        PROVE  CoveredBy(elf.sections[k], binary_size, newpad)
    <2>1. CoveredBy(elf.sections[k], binary_size, needs_padding)
      BY <1>1, <1>2, <1>4 DEF FetchInv, AllCovered
    <2> QED
      BY <1>1, <1>3, <2>1 DEF CoveredBy
  <1>5. Copied' = Copied
    BY <1>1, FileSame DEF Copied
  <1> QED
    BY <1>1, <1>3, <1>4, <1>5, FetchSame DEF AllCovered

(* The section is done.                                                    *)
LEMMA RawDoneFetch == TranspilerInv /\ ValidInv /\ FetchInv /\ RawDone => FetchInv'
  <1> SUFFICES ASSUME TranspilerInv, ValidInv, FetchInv, RawDone, Mode = "slice", AddressOrder'
               PROVE  AllCovered(binary_size, needs_padding)'
    BY DEF FetchInv, RawDone
  <1>1. /\ status = "Raw" /\ offset + i + 2 > end_offset /\ sec' = sec + 1
        /\ elf' = elf /\ binary_size' = binary_size /\ needs_padding' = needs_padding
    BY DEF RawDone
  <1>2. /\ elf \in Elfs /\ sec \in Nat \ {0} /\ binary_size \in Nat /\ needs_padding \in BOOLEAN
        /\ offset \in Nat /\ i \in Nat
    BY TranspilerAssumption DEF TranspilerInv, TranspilerTypeOK
  <1>3. /\ offset = Offset(Current) /\ end_offset = EndOffset(Current)
        /\ end_offset = offset + Current.size /\ end_offset <= binary_size
        /\ sec <= Len(elf.sections)
    BY <1>1 DEF TranspilerInv, Converting, EndOffset
  <1>4. Current.size \in Nat
    BY <1>2, <1>3, FileType, TranspilerAssumption DEF Current
  <1>5. AddressOrder
    BY <1>1, FetchSame
  <1>6. PICK V \in SUBSET Nat : Visited(V, Current, i, needs_padding)
    BY <1>1 DEF ValidInv
  <1>7. CoveredBy(Current, binary_size, needs_padding)
    <2>1. PICK s : s = Current
      OBVIOUS
    <2>2. ~needs_padding => Fetchable(s, EndOffset(s))
      <3>1. ~needs_padding => Visited(V, s, i, FALSE)
        BY <1>6, <2>1 DEF Visited
      <3>2. i + 2 > s.size /\ s.size \in Nat /\ Offset(s) \in Nat
        BY <1>1, <1>2, <1>3, <1>4, <2>1
      <3> QED
        BY <1>2, <3>1, <3>2, VisitedFetchable
    <2>3. CoveredBy(s, binary_size, needs_padding)
      BY <1>2, <1>3, <1>4, <2>1, <2>2 DEF CoveredBy
    <2> QED
      BY <2>1, <2>3
  <1>8. Copied' \subseteq Copied \cup {sec}
    BY <1>1, <1>2, FileSame DEF Copied
  <1>9. AllCovered(binary_size, needs_padding)
    BY <1>1, <1>5 DEF FetchInv
  <1>10. ASSUME NEW k \in Copied', elf.sections[k].exec
         PROVE  CoveredBy(elf.sections[k], binary_size, needs_padding)
    BY <1>7, <1>8, <1>9, <1>10 DEF AllCovered, Current
  <1> QED
    BY <1>1, <1>10, FetchSame DEF AllCovered

(* The padding makes up for what is missing.                               *)
LEMMA FinishFetch == TranspilerInv /\ FetchInv /\ Finish => FetchInv'
  <1> SUFFICES ASSUME TranspilerInv, FetchInv, Finish, Mode = "slice", AddressOrder', status' = "Ok",
                      NEW k \in Copied', elf'.sections[k].exec
               PROVE  Fetchable(elf.sections[k], binary_size)'
    BY DEF FetchInv, Finish, Return
  <1>1. /\ status = "Sections" /\ elf' = elf /\ sec' = sec
        /\ binary_size' = IF needs_padding THEN binary_size + 2 ELSE binary_size
    BY DEF Finish, Return
  <1>2. binary_size \in Nat /\ needs_padding \in BOOLEAN
    BY DEF TranspilerInv, TranspilerTypeOK
  <1>3. Copied' = Copied /\ AddressOrder
    BY <1>1, FileSame, FetchSame DEF Copied
  <1>4. PICK s : s = elf.sections[k]
    OBVIOUS
  <1>5. CoveredBy(s, binary_size, needs_padding)
    BY <1>1, <1>3, <1>4 DEF FetchInv, AllCovered
  <1>6. PICK n : n = binary_size'
    OBVIOUS
  <1>7. Fetchable(s, n)
    BY <1>1, <1>2, <1>5, <1>6, CoveredFetchable
  <1> QED
    BY <1>1, <1>4, <1>6, <1>7, FetchSame

LEMMA FetchNext == TranspilerInv /\ TranspilerInv' /\ ValidInv /\ FetchInv /\ [Next]_vars => FetchInv'
  <1> SUFFICES ASSUME TranspilerInv, TranspilerInv', ValidInv, FetchInv, [Next]_vars PROVE FetchInv'
    OBVIOUS
  <1>1. CASE NoSegment \/ PanicAtSection \/ OverflowAtSection
    BY <1>1 DEF NoSegment, PanicAtSection, OverflowAtSection, Return, FetchInv
  <1>2. CASE Parse
    <2>1. /\ elf' = elf /\ sec' = sec /\ binary_size' = binary_size
          /\ needs_padding' = needs_padding /\ status = "Parse" /\ status' \notin {"Raw", "Ok"}
      <3>1. elf.header \in {"Ok"} \cup Errors
        BY FileType DEF TranspilerInv, TranspilerTypeOK
      <3> QED
        BY <1>2, <3>1 DEF Parse, Errors
    <2>2. Copied' = Copied
      BY <2>1, FileSame DEF Copied
    <2> QED
      BY <2>1, <2>2, FetchSame DEF FetchInv, AllCovered
  <1>3. CASE SkipSection
    <2>1. /\ elf' = elf /\ sec' = sec + 1 /\ binary_size' = binary_size
          /\ needs_padding' = needs_padding /\ status = "Sections" /\ status' = "Sections"
          /\ ~Current.load \/ Ignored(Current)
      BY <1>3 DEF SkipSection, AtSection
    <2>2. sec \in Nat \ {0}
      BY DEF TranspilerInv, TranspilerTypeOK
    <2>3. Copied' \subseteq Copied
      BY <2>1, <2>2, FileSame DEF Copied, Current
    <2> QED
      BY <2>1, <2>3, FetchSame DEF FetchInv, AllCovered
  <1>4. CASE Stop \/ UNCHANGED vars
    <2>1. UNCHANGED vars
      BY <1>4 DEF Stop
    <2>2. Copied' = Copied
      BY <2>1, FileSame DEF vars, Copied
    <2>3. /\ \A k \in Copied : /\ CoveredBy(elf.sections[k], binary_size, needs_padding)' =
                                 CoveredBy(elf.sections[k], binary_size, needs_padding)
                               /\ Fetchable(elf.sections[k], binary_size)' =
                                 Fetchable(elf.sections[k], binary_size)
          /\ AddressOrder' = AddressOrder
      BY <2>1, FetchSame DEF vars
    <2> QED
      BY <2>1, <2>2, <2>3 DEF vars, FetchInv, AllCovered
  <1> QED
    BY <1>1, <1>2, <1>3, <1>4, CopyFetch, ConvertFetch, RawDoneFetch, FinishFetch DEF Next

(* transpile_elf, for every ELF file whose sections come in the order of   *)
(* their addresses and for every buffer: from each instruction of the      *)
(* binary it returns there are the four bytes that fetch loads.            *)
THEOREM BinaryIsFetchable == Spec => []EveryInstructionFetchable
  <1>1. Init => FetchInv
    <2> SUFFICES ASSUME Init PROVE FetchInv
      OBVIOUS
    <2>1. status = "Parse" /\ Copied = {}
      BY DEF Init, Copied
    <2> QED
      BY <2>1 DEF FetchInv, AllCovered
  <1>2. FetchInv => EveryInstructionFetchable
    BY DEF FetchInv, EveryInstructionFetchable, Size
  <1> QED
    BY <1>1, <1>2, FetchNext, TranspilerInductive, ValidInductive, PTL DEF Spec

=============================================================================
