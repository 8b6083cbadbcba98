----------------------------- MODULE SliceMemory -----------------------------
(***************************************************************************)
(* SliceMemory (interpreter/memory.rs): a read-only code slice mapped at   *)
(* address 0 and a RAM slice mapped at RAM_OFFSET, and the little-endian   *)
(* loads and stores of MemoryType (memory/memory_type.rs).                 *)
(*                                                                         *)
(* A memory is a record of two functions from slice indexes to bytes.  An  *)
(* access yields Result("Ok", value) or the error the code returns.        *)
(***************************************************************************)
EXTENDS Words

CONSTANTS CodeLen,    \* length of the code slice
          RamLen,     \* length of the RAM slice
          USIZE       \* number of values of usize: MOD on a 32-bit host

ASSUME SliceAssumption ==
         /\ CodeLen \in Nat
         /\ RamLen \in Nat
         /\ USIZE \in Nat /\ USIZE >= MOD

RAM_OFFSET == SIGN

CodeImage == [0..(CodeLen - 1) -> Byte]
RamImage  == [0..(RamLen - 1) -> Byte]
Memory    == [code : CodeImage, ram : RamImage]

AccessSize == {1, 2, 4}

\* checked_slice_range: the start of a valid range of n bytes, or an error.
CheckedSliceRange(len, start, n) ==
  CASE start + n >= USIZE -> Result("InvalidMemoryAccessLength", n)
    [] start + n < USIZE /\ start + n > len ->
         Result("InvalidMemoryAddress", Wrap(start + n))
    [] OTHER -> Result("Ok", start)

InRam(a) == a >= RAM_OFFSET

\* load_bytes: the index, in the slice that holds a, of the n bytes at a.
LoadRange(a, n) ==
  IF InRam(a) THEN CheckedSliceRange(RamLen, Wrap(a - RAM_OFFSET), n)
              ELSE CheckedSliceRange(CodeLen, a, n)

\* Mutant: the offset is masked off instead of subtracted.
StoreRange_Masked(a, n) == CheckedSliceRange(RamLen, a % RAM_OFFSET, n)

\* store_bytes and mut_bytes: only the RAM slice is ever written.
StoreRange(a, n) == CheckedSliceRange(RamLen, Wrap(a - RAM_OFFSET), n)

\* from_le_bytes of the n bytes of slice s that start at index i.
FromLe(s, i, n) ==
  CASE n = 1 -> s[i]
    [] n = 2 -> s[i] + BASE * s[i + 1]
    [] OTHER -> s[i] + BASE * (s[i + 1] + BASE * (s[i + 2] + BASE * s[i + 3]))

\* Byte k of to_le_bytes of v.
LeByte(v, k) ==
  (CASE k = 0 -> v
     [] k = 1 -> v \div BASE
     [] k = 2 -> v \div (BASE * BASE)
     [] OTHER -> v \div (BASE * (BASE * BASE))) % BASE

\* MemoryType::load of an n-byte unsigned integer.
Load(m, a, n) ==
  LET r == LoadRange(a, n)
  IN  IF r.tag = "Ok"
      THEN Result("Ok", FromLe(IF InRam(a) THEN m.ram ELSE m.code, r.arg, n))
      ELSE r

\* MemoryType::store: the status of the call ...
Store(a, n) == LET r == StoreRange(a, n)
               IN  IF r.tag = "Ok" THEN Result("Ok", 0) ELSE r

\* ... and the memory after a store that succeeds (copy_from_slice).
Stored(m, a, n, v) ==
  LET s == StoreRange(a, n).arg
  IN  [m EXCEPT !.ram = [i \in 0..(RamLen - 1) |->
                           IF s <= i /\ i < s + n THEN LeByte(v, i - s)
                                                  ELSE m.ram[i]]]

=============================================================================
