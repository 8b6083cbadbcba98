---------------------------- MODULE MemoryLemmas ----------------------------
(***************************************************************************)
(* Facts about machine words and about the loads and stores of a           *)
(* SliceMemory, for every word width, slice length and usize.              *)
(***************************************************************************)
EXTENDS SliceMemory, TLAPS

-----------------------------------------------------------------------------
(* Words                                                                   *)

(* The word size (u32 in the code) is large enough for the constants that  *)
(* are compared with words: mstatus bits, access sizes, register numbers.  *)
LEMMA WordSize == /\ MOD \in Nat /\ MOD >= 256
                  /\ SIGN \in Nat /\ SIGN >= 128 /\ SIGN < MOD /\ SIGN + SIGN <= MOD
  <1> DEFINE h == BASE * BASE
  <1>1. BASE \in Nat /\ BASE >= 4
    BY BaseAssumption
  <1>2. h \in Nat /\ h >= 16 /\ h >= 4 * BASE
    BY <1>1, SMT
  <1> DEFINE c == BASE * h
  <1>3. c \in Nat /\ c >= 64
    BY <1>1, <1>2, SMT
  <1> HIDE DEF h
  <1>4. BASE * c \in Nat /\ BASE * c >= 256
    BY <1>1, <1>3, SMT
  <1>5. MOD = BASE * c
    BY DEF MOD, c, h
  <1> HIDE DEF c
  <1>6. MOD \in Nat /\ MOD >= 256
    BY <1>4, <1>5
  <1>7. /\ MOD \div 2 \in Nat /\ MOD \div 2 >= 128 /\ MOD \div 2 < MOD
        /\ (MOD \div 2) + (MOD \div 2) <= MOD
    BY <1>6, SMT
  <1> QED
    BY <1>6, <1>7 DEF SIGN

(* wrapping_add, wrapping_sub: the result of wrapping arithmetic is a word. *)
LEMMA WrapType == ASSUME NEW i \in Int PROVE Wrap(i) \in Word
  <1>1. MOD \in Nat /\ MOD >= 256
    BY WordSize
  <1>2. i % MOD \in 0..(MOD - 1)
    BY <1>1, SMT
  <1> QED
    BY <1>2 DEF Wrap, Word

(* Words as integers.                                                      *)
LEMMA WordIsInt == \A w \in Word : w \in Int /\ w >= 0 /\ w < MOD
  BY WordSize DEF Word

(* Wrapping arithmetic leaves a word as it is.                             *)
LEMMA WrapId == \A w \in Word : Wrap(w) = w
  <1> SUFFICES ASSUME NEW w \in Word PROVE Wrap(w) = w
    OBVIOUS
  <1>1. MOD \in Nat /\ MOD >= 256 /\ w \in Nat /\ w < MOD
    BY WordSize, WordIsInt
  <1>2. w % MOD = w
    BY <1>1, SMT
  <1> QED
    BY <1>2 DEF Wrap

(* The constants of the code (register numbers, mstatus bits, CSR          *)
(* immediates) are words.                                                  *)
LEMMA SmallWords == 0..255 \subseteq Word
  BY WordSize DEF Word

(* A digit in front of a number below K is a number below BASE * K.        *)
LEMMA Horner ==
  ASSUME NEW K \in Nat, NEW d \in Byte, NEW v \in Nat, v < K
  PROVE  d + BASE * v \in Nat /\ d + BASE * v < BASE * K
  <1>1. BASE \in Nat /\ d \in Nat /\ d < BASE
    BY BaseAssumption DEF Byte
  <1>2. v + 1 <= K
    OBVIOUS
  <1>3. BASE * (v + 1) <= BASE * K
    BY <1>1, <1>2, SMT
  <1>4. BASE * (v + 1) = BASE * v + BASE
    BY <1>1, SMT
  <1>5. BASE * v \in Nat /\ BASE * K \in Nat
    BY <1>1, SMT
  <1> QED
    BY <1>1, <1>3, <1>4, <1>5, SMT

(* The values of n-byte integers are words.                                *)
LEMMA ValuesBound ==
  ASSUME NEW n \in AccessSize
  PROVE  Values(n) \in Nat /\ Values(n) > 0 /\ Values(n) <= MOD
  <1>1. BASE \in Nat /\ BASE >= 4
    BY BaseAssumption
  <1> DEFINE h == BASE * BASE
  <1>2. h \in Nat /\ h >= BASE /\ h > 0
    BY <1>1, SMT
  <1> DEFINE c == BASE * h
  <1>3. c \in Nat /\ c >= h
    BY <1>1, <1>2, SMT
  <1>4. MOD = BASE * c
    BY DEF MOD
  <1> HIDE DEF h, c
  <1>5. MOD >= c
    BY <1>1, <1>3, <1>4, SMT
  <1>6. Values(n) \in {BASE, h, MOD}
    BY DEF Values, h
  <1> QED
    BY <1>1, <1>2, <1>3, <1>5, <1>6, WordSize

(* i8 and i16 loads: sign extension yields a word.                         *)
LEMMA SignExtendType ==
  ASSUME NEW n \in AccessSize, NEW v \in Nat, v < Values(n)
  PROVE  SignExtend(v, n) \in Word
  <1>1. Values(n) \in Nat /\ Values(n) > 0 /\ Values(n) <= MOD
    BY ValuesBound
  <1>2. MOD \in Nat
    BY WordSize
  <1> QED
    BY <1>1, <1>2 DEF SignExtend, Word

-----------------------------------------------------------------------------
(* Memory                                                                  *)

(* checked_slice_range: an error carries a word; a valid range lies within *)
(* the slice, so the indexing that follows cannot panic.                   *)
LEMMA RangeType ==
  ASSUME NEW len \in Nat, NEW start \in Word, NEW n \in AccessSize
  PROVE  LET r == CheckedSliceRange(len, start, n)
         IN  /\ r.tag \in {"Ok", "InvalidMemoryAddress", "InvalidMemoryAccessLength"}
             /\ r.arg \in Word
             /\ r = [tag |-> r.tag, arg |-> r.arg]
             /\ r.tag = "Ok" => r.arg = start /\ start + n <= len
  <1>1. start \in Int /\ n \in Nat /\ USIZE \in Nat
    BY WordIsInt, SliceAssumption DEF AccessSize
  <1>2. Wrap(start + n) \in Word
    BY <1>1, WrapType
  <1>3. n \in Word
    BY SmallWords DEF AccessSize
  <1> QED
    BY <1>1, <1>2, <1>3 DEF CheckedSliceRange, Result

(* address.wrapping_sub(RAM_OFFSET) is a word.                             *)
LEMMA OffsetIsWord == \A a \in Word : Wrap(a - RAM_OFFSET) \in Word
  BY WordIsInt, WordSize, WrapType DEF RAM_OFFSET

(* load_bytes: a range that is returned lies within the slice it indexes.  *)
LEMMA LoadRangeType ==
  ASSUME NEW a \in Word, NEW n \in AccessSize
  PROVE  LET r == LoadRange(a, n)
         IN  /\ r.tag \in {"Ok", "InvalidMemoryAddress", "InvalidMemoryAccessLength"}
             /\ r.arg \in Word
             /\ r = [tag |-> r.tag, arg |-> r.arg]
             /\ r.tag = "Ok" => r.arg + n <= IF InRam(a) THEN RamLen ELSE CodeLen
  <1>1. CASE InRam(a)
    BY <1>1, RangeType, OffsetIsWord, SliceAssumption DEF LoadRange
  <1>2. CASE ~InRam(a)
    BY <1>2, RangeType, SliceAssumption DEF LoadRange
  <1> QED
    BY <1>1, <1>2

(* from_le_bytes: n bytes make a number below the number of n-byte values. *)
LEMMA FromLeType ==
  ASSUME NEW len \in Nat, NEW s \in [0..(len - 1) -> Byte], NEW i \in Nat,
         NEW n \in AccessSize, i + n <= len
  PROVE  FromLe(s, i, n) \in Nat /\ FromLe(s, i, n) < Values(n)
  <1>1. BASE \in Nat /\ BASE >= 4
    BY BaseAssumption
  <1>2. \A k \in 0..(n - 1) : s[i + k] \in Byte
    BY DEF AccessSize
  <1>3. \A d \in Byte : d \in Nat /\ d < BASE
    BY <1>1 DEF Byte
  <1>4. CASE n = 1
    <2>1. s[i] \in Byte
      BY <1>2, <1>4
    <2> QED
      BY <1>4, <2>1, <1>3 DEF FromLe, Values
  <1>5. CASE n = 2
    <2>1. s[i] \in Byte /\ s[i + 1] \in Byte
      BY <1>2, <1>5
    <2>2. s[i] + BASE * s[i + 1] \in Nat /\ s[i] + BASE * s[i + 1] < BASE * BASE
      BY <2>1, <1>1, <1>3, Horner
    <2> QED
      BY <1>5, <2>2 DEF FromLe, Values
  <1>6. CASE n = 4
    <2>1. s[i] \in Byte /\ s[i + 1] \in Byte /\ s[i + 2] \in Byte /\ s[i + 3] \in Byte
      BY <1>2, <1>6
    <2> DEFINE u == s[i + 2] + BASE * s[i + 3]
               v == s[i + 1] + BASE * u
               w == s[i] + BASE * v
    <2>2. BASE * BASE \in Nat /\ BASE * (BASE * BASE) \in Nat
      BY <1>1, SMT
    <2>3. u \in Nat /\ u < BASE * BASE
      BY <2>1, <1>1, <1>3, Horner
    <2> HIDE DEF u
    <2>4. v \in Nat /\ v < BASE * (BASE * BASE)
      BY <2>1, <2>2, <2>3, Horner
    <2> HIDE DEF v
    <2>5. w \in Nat /\ w < BASE * (BASE * (BASE * BASE))
      BY <2>1, <2>2, <2>4, Horner
    <2> QED
      BY <1>6, <2>5 DEF FromLe, Values, MOD, u, v
  <1> QED
    BY <1>4, <1>5, <1>6 DEF AccessSize

(* A load returns an n-byte value or one of the two memory errors.         *)
LEMMA LoadType ==
  ASSUME NEW m \in Memory, NEW a \in Word, NEW n \in AccessSize
  PROVE  LET r == Load(m, a, n)
         IN  /\ r.tag \in {"Ok", "InvalidMemoryAddress", "InvalidMemoryAccessLength"}
             /\ r.arg \in Word
             /\ r = [tag |-> r.tag, arg |-> r.arg]
             /\ r.tag = "Ok" => r.arg \in Nat /\ r.arg < Values(n)
  <1> DEFINE r == LoadRange(a, n)
             len == IF InRam(a) THEN RamLen ELSE CodeLen
             s == IF InRam(a) THEN m.ram ELSE m.code
  <1>1. /\ r.tag \in {"Ok", "InvalidMemoryAddress", "InvalidMemoryAccessLength"}
        /\ r.arg \in Word
        /\ r = [tag |-> r.tag, arg |-> r.arg]
        /\ r.tag = "Ok" => r.arg + n <= len
    BY LoadRangeType
  <1>2. len \in Nat /\ s \in [0..(len - 1) -> Byte]
    BY SliceAssumption DEF Memory, CodeImage, RamImage
  <1>3. r.arg \in Nat
    BY <1>1, WordIsInt
  <1> HIDE DEF r, len, s
  <1>4. CASE r.tag = "Ok"
    <2>1. FromLe(s, r.arg, n) \in Nat /\ FromLe(s, r.arg, n) < Values(n)
      BY <1>1, <1>2, <1>3, <1>4, FromLeType
    <2>2. FromLe(s, r.arg, n) \in Word
      BY <2>1, ValuesBound, WordSize DEF Word
    <2>3. Load(m, a, n) = [tag |-> "Ok", arg |-> FromLe(s, r.arg, n)]
      BY <1>4 DEF Load, Result, r, s
    <2> QED
      BY <2>1, <2>2, <2>3
  <1>5. CASE r.tag # "Ok"
    <2>1. Load(m, a, n) = r
      BY <1>5 DEF Load, r
    <2> QED
      BY <2>1, <1>1, <1>5
  <1> QED
    BY <1>4, <1>5

(* to_le_bytes yields bytes.                                               *)
LEMMA LeByteType == ASSUME NEW v \in Int, NEW k \in Int PROVE LeByte(v, k) \in Byte
  <1>1. BASE \in Nat /\ BASE >= 4
    BY BaseAssumption
  <1> DEFINE h == BASE * BASE
  <1>2. h \in Nat /\ h > 0
    BY <1>1, SMT
  <1> DEFINE c == BASE * h
  <1>3. c \in Nat /\ c > 0
    BY <1>1, <1>2, SMT
  <1> HIDE DEF h, c
  <1>4. v \div BASE \in Int /\ v \div h \in Int /\ v \div c \in Int
    BY <1>1, <1>2, <1>3, SMT
  <1> DEFINE d == CASE k = 0 -> v [] k = 1 -> v \div BASE [] k = 2 -> v \div h
                    [] OTHER -> v \div c
  <1>5. d \in Int
    BY <1>4
  <1> HIDE DEF d
  <1>6. d % BASE \in 0..(BASE - 1)
    BY <1>1, <1>5, SMT
  <1>7. LeByte(v, k) = d % BASE
    BY DEF LeByte, d, h, c
  <1> QED
    BY <1>6, <1>7 DEF Byte

(* store_bytes: a store leaves a memory, and never touches the code.       *)
LEMMA StoredType ==
  ASSUME NEW m \in Memory, NEW a \in Word, NEW n \in AccessSize, NEW v \in Word
  PROVE  Stored(m, a, n, v) \in Memory
  <1> DEFINE s == StoreRange(a, n).arg
  <1>1. s \in Int
    BY RangeType, OffsetIsWord, WordIsInt, SliceAssumption DEF StoreRange
  <1>2. v \in Int
    BY WordIsInt
  <1> HIDE DEF s
  <1>3. \A i \in 0..(RamLen - 1) : LeByte(v, i - s) \in Byte
    BY <1>1, <1>2, LeByteType, SliceAssumption
  <1> DEFINE ram == [i \in 0..(RamLen - 1) |->
                       IF s <= i /\ i < s + n THEN LeByte(v, i - s) ELSE m.ram[i]]
  <1>4. m.code \in CodeImage /\ m.ram \in RamImage /\ m = [code |-> m.code, ram |-> m.ram]
    BY DEF Memory
  <1>5. ram \in RamImage
    BY <1>3, <1>4 DEF RamImage
  <1>6. Stored(m, a, n, v) = [m EXCEPT !.ram = ram]
    BY DEF Stored, s
  <1> HIDE DEF ram
  <1> QED
    BY <1>4, <1>5, <1>6 DEF Memory

(* A store succeeds or returns one of the two memory errors.               *)
LEMMA StoreType ==
  ASSUME NEW a \in Word, NEW n \in AccessSize
  PROVE  LET r == Store(a, n)
         IN  /\ r.tag \in {"Ok", "InvalidMemoryAddress", "InvalidMemoryAccessLength"}
             /\ r.arg \in Word
             /\ r = [tag |-> r.tag, arg |-> r.arg]
  <1> DEFINE r == StoreRange(a, n)
  <1>1. /\ r.tag \in {"Ok", "InvalidMemoryAddress", "InvalidMemoryAccessLength"}
        /\ r.arg \in Word
        /\ r = [tag |-> r.tag, arg |-> r.arg]
    BY RangeType, OffsetIsWord, SliceAssumption DEF StoreRange
  <1>2. 0 \in Word
    BY SmallWords
  <1> HIDE DEF r
  <1>3. Store(a, n) = IF r.tag = "Ok" THEN [tag |-> "Ok", arg |-> 0] ELSE r
    BY DEF Store, Result, r
  <1> QED
    BY <1>1, <1>2, <1>3

=============================================================================
