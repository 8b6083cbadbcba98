---------------------------- MODULE MemoryProofs ----------------------------
(***************************************************************************)
(* A SliceMemory implements the flat memory, for every word width, every   *)
(* pair of slices that fit in their half of the address space, and every   *)
(* client.                                                                 *)
(***************************************************************************)
EXTENDS MemoryClient, MemoryLemmas

(* Addresses as integers, and the lengths compared with them.              *)
LEMMA ClientNumbers ==
  /\ MOD \in Nat /\ SIGN \in Nat /\ RAM_OFFSET = SIGN /\ SIGN > 0 /\ SIGN + SIGN <= MOD
  /\ USIZE \in Nat /\ USIZE >= MOD
  /\ CodeLen \in Nat /\ CodeLen <= SIGN
  /\ RamLen \in Nat /\ RamLen <= SIGN
  /\ MOD >= SIGN + 4
  BY WordSize, SliceAssumption, ClientAssumption DEF RAM_OFFSET

(* address.wrapping_sub(RAM_OFFSET): the index of a RAM address, and a     *)
(* number past every RAM slice for a code address.                         *)
LEMMA RamIndex ==
  ASSUME NEW a \in Word
  PROVE  /\ a >= SIGN => Wrap(a - RAM_OFFSET) = a - SIGN
         /\ a < SIGN => Wrap(a - RAM_OFFSET) >= SIGN
  <1>1. MOD \in Nat /\ SIGN \in Nat /\ RAM_OFFSET = SIGN /\ SIGN + SIGN <= MOD /\ SIGN > 0
    BY ClientNumbers
  <1>2. a \in Int /\ a >= 0 /\ a < MOD
    BY WordIsInt
  <1>3. a >= SIGN => (a - SIGN) % MOD = a - SIGN
    BY <1>1, <1>2, SMT
  <1>4. a < SIGN => (a - SIGN) % MOD = a - SIGN + MOD
    BY <1>1, <1>2, SMT
  <1> QED
    BY <1>1, <1>2, <1>3, <1>4 DEF Wrap

(* checked_slice_range succeeds exactly when the range lies in the slice:  *)
(* the check for overflow refuses nothing that would fit.                  *)
LEMMA RangeFits ==
  ASSUME NEW len \in Nat, len <= SIGN, NEW start \in Word, NEW n \in AccessSize
  PROVE  LET r == CheckedSliceRange(len, start, n)
         IN  /\ r.tag = "Ok" <=> start + n <= len
             /\ r.tag = "Ok" => r.arg = start
  <1>1. start \in Int /\ start >= 0 /\ n \in Nat
    BY WordIsInt DEF AccessSize
  <1>2. start + n <= len => start + n < USIZE
    BY <1>1, ClientNumbers
  <1> QED
    BY <1>1, <1>2, ClientNumbers DEF CheckedSliceRange, Result

(* The addresses of an access lie in an interval exactly when the first    *)
(* and the last one do.                                                    *)
LEMMA SpanWithin ==
  ASSUME NEW a \in Int, NEW n \in AccessSize, NEW lo \in Int, NEW hi \in Int
  PROVE  Flat!Span(a, n) \subseteq lo..hi <=> lo <= a /\ a + n - 1 <= hi
  <1>1. n \in Nat /\ n >= 1
    BY DEF AccessSize
  <1>2. ASSUME Flat!Span(a, n) \subseteq lo..hi
        PROVE  lo <= a /\ a + n - 1 <= hi
    <2>1. a \in Flat!Span(a, n) /\ a + n - 1 \in Flat!Span(a, n)
      BY <1>1 DEF Flat!Span
    <2>2. a \in lo..hi /\ a + n - 1 \in lo..hi
      BY <1>2, <2>1
    <2> QED
      BY <1>1, <2>2
  <1>3. ASSUME lo <= a, a + n - 1 <= hi
        PROVE  Flat!Span(a, n) \subseteq lo..hi
    BY <1>1, <1>3 DEF Flat!Span
  <1> QED
    BY <1>2, <1>3

(* Which spans are code, and which are RAM.                                *)
LEMMA SpanInRegion ==
  ASSUME NEW a \in Word, NEW n \in AccessSize
  PROVE  /\ Flat!Span(a, n) \subseteq CodeAddresses <=> a + n <= CodeLen
         /\ Flat!Span(a, n) \subseteq RamAddresses <=> SIGN <= a /\ a + n <= SIGN + RamLen
  <1>1. a \in Int /\ a >= 0 /\ n \in Nat
    BY WordIsInt DEF AccessSize
  <1> DEFINE lc == 0
             hc == CodeLen - 1
             hr == SIGN + RamLen - 1
  <1>2. lc \in Int /\ hc \in Int /\ hr \in Int /\ SIGN \in Int /\ lc <= a
    BY <1>1, ClientNumbers
  <1>3. CodeAddresses = lc..hc /\ RamAddresses = SIGN..hr
    BY ClientNumbers DEF CodeAddresses, RamAddresses
  <1>4. a + n - 1 <= hc <=> a + n <= CodeLen
    BY <1>1, ClientNumbers
  <1>5. a + n - 1 <= hr <=> a + n <= SIGN + RamLen
    BY <1>1, ClientNumbers
  <1> HIDE DEF lc, hc, hr
  <1>6. Flat!Span(a, n) \subseteq lc..hc <=> lc <= a /\ a + n - 1 <= hc
    BY <1>1, <1>2, SpanWithin
  <1>7. Flat!Span(a, n) \subseteq SIGN..hr <=> SIGN <= a /\ a + n - 1 <= hr
    BY <1>1, <1>2, SpanWithin
  <1> QED
    BY <1>2, <1>3, <1>4, <1>5, <1>6, <1>7

-----------------------------------------------------------------------------
(* Loads                                                                   *)

(* load_bytes: which accesses succeed, and at which index of which slice.  *)
LEMMA LoadSucceeds ==
  ASSUME NEW a \in Word, NEW n \in AccessSize
  PROVE  LET r == LoadRange(a, n)
         IN  /\ r.tag = "Ok" <=> \/ Flat!Span(a, n) \subseteq CodeAddresses
                                 \/ Flat!Span(a, n) \subseteq RamAddresses
             /\ r.tag = "Ok" /\ InRam(a) => r.arg = a - SIGN /\ a - SIGN + n <= RamLen
             /\ r.tag = "Ok" /\ ~InRam(a) => r.arg = a /\ a + n <= CodeLen
  <1>1. a \in Int /\ a >= 0 /\ n \in Nat /\ n >= 1
    BY WordIsInt DEF AccessSize
  <1>2. CASE InRam(a)
    <2>1. a >= SIGN
      BY <1>2, ClientNumbers DEF InRam
    <2>2. Wrap(a - RAM_OFFSET) = a - SIGN
      BY <2>1, RamIndex
    <2>3. LoadRange(a, n) = CheckedSliceRange(RamLen, Wrap(a - RAM_OFFSET), n)
      BY <1>2 DEF LoadRange
    <2>4. Wrap(a - RAM_OFFSET) \in Word
      BY OffsetIsWord
    <2>5. /\ LoadRange(a, n).tag = "Ok" <=> a - SIGN + n <= RamLen
          /\ LoadRange(a, n).tag = "Ok" => LoadRange(a, n).arg = a - SIGN
      BY <2>2, <2>3, <2>4, RangeFits, ClientNumbers
    <2>6. ~(a + n <= CodeLen)
      BY <1>1, <2>1, ClientNumbers
    <2> QED
      BY <1>1, <1>2, <2>1, <2>5, <2>6, SpanInRegion, ClientNumbers
  <1>3. CASE ~InRam(a)
    <2>1. a < SIGN
      BY <1>1, <1>3, ClientNumbers DEF InRam
    <2>2. LoadRange(a, n) = CheckedSliceRange(CodeLen, a, n)
      BY <1>3 DEF LoadRange
    <2>3. /\ LoadRange(a, n).tag = "Ok" <=> a + n <= CodeLen
          /\ LoadRange(a, n).tag = "Ok" => LoadRange(a, n).arg = a
      BY <2>2, RangeFits, ClientNumbers
    <2> QED
      BY <1>1, <1>3, <2>1, <2>3, SpanInRegion, ClientNumbers
  <1> QED
    BY <1>2, <1>3

(* The byte of a slice, at the flat address it is mapped to.               *)
LEMMA FlatIsSlice ==
  ASSUME NEW m \in Memory, NEW b \in Int
  PROVE  /\ SIGN <= b /\ b < SIGN + RamLen => FlatBytes(m)[b] = m.ram[b - SIGN]
         /\ 0 <= b /\ b < CodeLen => FlatBytes(m)[b] = m.code[b]
  <1>1. SIGN <= b /\ b < SIGN + RamLen => b \in RamAddresses
    BY ClientNumbers DEF RamAddresses
  <1>2. 0 <= b /\ b < CodeLen => b \in CodeAddresses /\ b \notin RamAddresses
    BY ClientNumbers DEF CodeAddresses, RamAddresses
  <1>3. b \in CodeAddresses \cup RamAddresses => FlatBytes(m)[b] = At(m, b)
    BY DEF FlatBytes
  <1> QED
    BY <1>1, <1>2, <1>3, ClientNumbers DEF At

\* A number of four digits, nested as from_le_bytes computes it here, and as
\* the sum of its weighted digits.
Nested(u, v, w, t) == u + BASE * (v + BASE * (w + BASE * t))
Weighted(u, v, w, t) == u + BASE * v + (BASE * BASE) * w + (BASE * (BASE * BASE)) * t

(* Horner's rule for four digits.                                          *)
LEMMA WeightedSum == \A u, v, w, t \in Nat : Nested(u, v, w, t) = Weighted(u, v, w, t)
  <1> TAKE u, v, w, t \in Nat
  <1> DEFINE B == BASE
  <1>0. B \in Nat
    BY BaseAssumption
  <1> HIDE DEF B
  <1>1. \A p, q, r \in Nat : p * (q + r) = p * q + p * r /\ p * (q * r) = (p * q) * r
    BY SMT
  <1>2. \A p, q \in Nat : p * q \in Nat
    BY SMT
  <1> DEFINE bt == B * t
             bw == B * w
             bb == B * B
             bbt == B * bt
  <1>3. bt \in Nat /\ bw \in Nat /\ bb \in Nat /\ bbt \in Nat
    BY <1>0, <1>2
  <1>4. B * (w + bt) = bw + bbt
    BY <1>0, <1>1, <1>3
  <1>5. bbt = bb * t /\ B * bw = bb * w
    BY <1>0, <1>1
  <1>6. B * bbt = (B * bb) * t
    BY <1>0, <1>1, <1>3, <1>5
  <1> HIDE DEF bw, bbt
  <1>7. B * (v + (bw + bbt)) = B * v + (B * bw + B * bbt)
    BY <1>0, <1>1, <1>2, <1>3
  <1>8. B * v \in Nat /\ B * bw \in Nat /\ B * bbt \in Nat
    BY <1>0, <1>2, <1>3
  <1>9. u + B * (v + B * (w + B * t)) = u + B * v + (B * B) * w + (B * (B * B)) * t
    BY <1>4, <1>5, <1>6, <1>7, <1>8
  <1> QED
    BY <1>9 DEF B, Nested, Weighted

\* The n bytes of slice s from index i on are those at flat address a, and
\* the slice holds them all.
Mapped(m, a, n, s, len, i) ==
  /\ len \in Nat /\ i \in Nat /\ i + n <= len /\ s \in [0..(len - 1) -> Byte]
  /\ \A k \in 0..3 : k < n => FlatBytes(m)[a + k] = s[i + k]

(* from_le_bytes of n bytes of a slice is the number the flat memory gives *)
(* for the address they are mapped to.                                     *)
LEMMA LoadReads ==
  ASSUME NEW m \in Memory, NEW a \in Word, NEW n \in AccessSize, mem = m,
         NEW len, NEW s, NEW i, Mapped(m, a, n, s, len, i)
  PROVE  FromLe(s, i, n) = Flat!Number(a, n)
  <1>0. /\ len \in Nat /\ i \in Nat /\ i + n <= len /\ s \in [0..(len - 1) -> Byte]
        /\ \A k \in 0..3 : k < n => FlatBytes(m)[a + k] = s[i + k]
    BY DEF Mapped
  <1>1. a \in Int /\ BASE \in Nat
    BY WordIsInt, BaseAssumption
  <1>2. \A k \in 0..3 : k < n => s[i + k] \in Nat
    BY <1>0, BaseAssumption DEF Byte, AccessSize
  <1>3. FlatWeight(1) = BASE /\ FlatWeight(2) = BASE * BASE /\ FlatWeight(3) = BASE * (BASE * BASE)
    BY DEF FlatWeight
  <1>4. FlatBytes(m)[a] = s[i] /\ s[i] \in Nat
    <2>0. 0 \in 0..3 /\ 0 < n
      BY DEF AccessSize
    <2>1. FlatBytes(m)[a + 0] = s[i + 0] /\ s[i + 0] \in Nat
      BY <1>0, <1>2, <2>0, Zenon
    <2> QED
      BY <1>0, <1>1, <2>1
  <1>5. CASE n = 1
    BY <1>4, <1>5 DEF FromLe, Flat!Number
  <1>6. CASE n = 2
    <2>1. FlatBytes(m)[a + 1] = s[i + 1] /\ s[i + 1] \in Nat
      BY <1>0, <1>2, <1>6
    <2> QED
      BY <1>1, <1>3, <1>4, <1>6, <2>1 DEF FromLe, Flat!Number
  <1>7. CASE n = 4
    <2>1. /\ FlatBytes(m)[a + 1] = s[i + 1] /\ s[i + 1] \in Nat
          /\ FlatBytes(m)[a + 2] = s[i + 2] /\ s[i + 2] \in Nat
          /\ FlatBytes(m)[a + 3] = s[i + 3] /\ s[i + 3] \in Nat
      BY <1>0, <1>2, <1>7
    <2>2. Nested(s[i], s[i + 1], s[i + 2], s[i + 3]) = Weighted(s[i], s[i + 1], s[i + 2], s[i + 3])
      BY <1>4, <2>1, WeightedSum
    <2>3. FromLe(s, i, n) = Nested(s[i], s[i + 1], s[i + 2], s[i + 3])
      BY <1>7 DEF FromLe, Nested
    <2>4. Flat!Number(a, n) = Weighted(s[i], s[i + 1], s[i + 2], s[i + 3])
      BY <1>3, <1>4, <1>7, <2>1 DEF Flat!Number, Weighted
    <2> QED
      BY <2>2, <2>3, <2>4
  <1> QED
    BY <1>5, <1>6, <1>7 DEF AccessSize

(* A load, successful or not, is a read of the flat memory.                *)
LEMMA LoadIsRead ==
  ASSUME mem \in Memory, NEW a \in Addresses, NEW n \in AccessSize, DoLoad(a, n)
  PROVE  Flat!Read
  <1> DEFINE r == LoadRange(a, n)
             ok == \/ Flat!Span(a, n) \subseteq CodeAddresses
                   \/ Flat!Span(a, n) \subseteq RamAddresses
  <1>1. a \in Word /\ a \in Int /\ a >= 0 /\ n \in Nat
    BY ClientAssumption, WordIsInt DEF AccessSize
  <1>2. mem.ram \in [0..(RamLen - 1) -> Byte] /\ mem.code \in [0..(CodeLen - 1) -> Byte]
    BY DEF Memory, CodeImage, RamImage
  <1>3. /\ r.tag = "Ok" <=> ok
        /\ r.tag = "Ok" /\ InRam(a) => r.arg = a - SIGN /\ a - SIGN + n <= RamLen
        /\ r.tag = "Ok" /\ ~InRam(a) => r.arg = a /\ a + n <= CodeLen
    BY <1>1, LoadSucceeds
  <1>4. res' = Load(mem, a, n) /\ req' = [op |-> "load", a |-> a, n |-> n, v |-> 0] /\ mem' = mem
    BY DEF DoLoad
  <1> HIDE DEF r, ok
  <1>5. Succeeded(res') = ok
    <2>1. Load(mem, a, n).tag = "Ok" <=> r.tag = "Ok"
      BY DEF Load, Result, r
    <2> QED
      BY <1>3, <1>4, <2>1 DEF Succeeded, ok
  <1>6. Answer(res') = IF ok THEN Flat!Number(a, n) ELSE 0
    <2>1. CASE ok /\ InRam(a)
      <3>1. r.tag = "Ok" /\ r.arg = a - SIGN /\ a - SIGN + n <= RamLen /\ a >= SIGN
        BY <1>1, <1>3, <2>1, ClientNumbers DEF InRam
      <3>2. \A k \in 0..3 : k < n => FlatBytes(mem)[a + k] = mem.ram[(a - SIGN) + k]
        <4> TAKE k \in 0..3
        <4> HAVE k < n
        <4>1. a + k \in Int /\ SIGN <= a + k /\ a + k < SIGN + RamLen
          BY <1>1, <3>1, ClientNumbers
        <4>2. FlatBytes(mem)[a + k] = mem.ram[(a + k) - SIGN]
          BY <4>1, FlatIsSlice
        <4>3. (a + k) - SIGN = (a - SIGN) + k
          BY <1>1, ClientNumbers
        <4> QED
          BY <4>2, <4>3
      <3> DEFINE i == a - SIGN
      <3>3. i \in Nat /\ i + n <= RamLen /\ RamLen \in Nat
        BY <1>1, <3>1, ClientNumbers
      <3>4. \A k \in 0..3 : k < n => FlatBytes(mem)[a + k] = mem.ram[i + k]
        BY <3>2
      <3> HIDE DEF i
      <3>5. FromLe(mem.ram, i, n) = Flat!Number(a, n)
        <4>1. Mapped(mem, a, n, mem.ram, RamLen, i)
          BY <1>2, <3>3, <3>4 DEF Mapped
        <4> QED
          BY <1>1, <4>1, LoadReads
      <3>6. Load(mem, a, n) = [tag |-> "Ok", arg |-> FromLe(mem.ram, i, n)]
        BY <2>1, <3>1 DEF Load, Result, r, i
      <3> QED
        BY <1>4, <2>1, <3>5, <3>6 DEF Answer
    <2>2. CASE ok /\ ~InRam(a)
      <3>1. r.tag = "Ok" /\ r.arg = a /\ a + n <= CodeLen
        BY <1>3, <2>2
      <3>2. \A k \in 0..3 : k < n => FlatBytes(mem)[a + k] = mem.code[a + k]
        <4> TAKE k \in 0..3
        <4> HAVE k < n
        <4>1. a + k \in Int /\ 0 <= a + k /\ a + k < CodeLen
          BY <1>1, <3>1, ClientNumbers
        <4> QED
          BY <4>1, FlatIsSlice
      <3>3. a \in Nat /\ CodeLen \in Nat
        BY <1>1, ClientNumbers
      <3>4. FromLe(mem.code, a, n) = Flat!Number(a, n)
        <4>1. Mapped(mem, a, n, mem.code, CodeLen, a)
          BY <1>2, <3>1, <3>2, <3>3 DEF Mapped
        <4> QED
          BY <1>1, <4>1, LoadReads
      <3>5. Load(mem, a, n) = [tag |-> "Ok", arg |-> FromLe(mem.code, a, n)]
        BY <2>2, <3>1 DEF Load, Result, r
      <3> QED
        BY <1>4, <2>2, <3>4, <3>5 DEF Answer
    <2>3. CASE ~ok
      BY <1>3, <1>4, <2>3 DEF Answer, Load, r
    <2> QED
      BY <2>1, <2>2, <2>3
  <1>7. req' \in Flat!Loads
    BY <1>4 DEF Flat!Loads
  <1>8. req'.a = a /\ req'.n = n
    BY <1>4
  <1> QED
    BY <1>4, <1>5, <1>6, <1>7, <1>8 DEF Flat!Read, ok

-----------------------------------------------------------------------------
(* Stores                                                                  *)

(* store_bytes: which stores succeed, and at which index.                  *)
LEMMA StoreSucceeds ==
  ASSUME NEW a \in Word, NEW n \in AccessSize
  PROVE  /\ Store(a, n).tag = "Ok" <=> Flat!Span(a, n) \subseteq RamAddresses
         /\ Store(a, n).tag = "Ok" => StoreRange(a, n).arg = a - SIGN /\ Store(a, n).arg = 0
  <1>1. a \in Int /\ a >= 0 /\ n \in Nat /\ n >= 1
    BY WordIsInt DEF AccessSize
  <1> DEFINE i == Wrap(a - RAM_OFFSET)
  <1>2. i \in Word /\ i \in Int
    BY OffsetIsWord, WordIsInt
  <1>3. (a >= SIGN => i = a - SIGN) /\ (a < SIGN => i >= SIGN)
    BY RamIndex
  <1> HIDE DEF i
  <1>4. /\ StoreRange(a, n).tag = "Ok" <=> i + n <= RamLen
        /\ StoreRange(a, n).tag = "Ok" => StoreRange(a, n).arg = i
    BY <1>2, RangeFits, ClientNumbers DEF StoreRange, i
  <1>5. i + n <= RamLen <=> SIGN <= a /\ a + n <= SIGN + RamLen
    BY <1>1, <1>2, <1>3, ClientNumbers
  <1>6. /\ Store(a, n).tag = "Ok" <=> StoreRange(a, n).tag = "Ok"
        /\ Store(a, n).tag = "Ok" => Store(a, n).arg = 0
    BY DEF Store, Result
  <1> QED
    BY <1>1, <1>3, <1>4, <1>5, <1>6, SpanInRegion, ClientNumbers

(* to_le_bytes: byte k is the digit of weight BASE^k.                      *)
LEMMA LeByteIsDigit ==
  ASSUME NEW v \in Word, NEW k \in 0..3
  PROVE  LeByte(v, k) = Flat!ByteOf(v, k)
  <1>1. v \in Int /\ v \div 1 = v
    BY WordIsInt, SMT
  <1>2. FlatWeight(1) = BASE
    BY DEF FlatWeight
  <1>3. CASE k = 0
    BY <1>1, <1>2, <1>3 DEF LeByte, Flat!ByteOf, FlatWeight
  <1>4. CASE k # 0
    BY <1>2, <1>4 DEF LeByte, Flat!ByteOf, FlatWeight
  <1> QED
    BY <1>3, <1>4

(* copy_from_slice: the bytes of the span are replaced, and no other.      *)
LEMMA StoredIsWritten ==
  ASSUME NEW m \in Memory, NEW a \in Word, NEW n \in AccessSize, NEW v \in Word,
         Store(a, n).tag = "Ok", NEW b \in CodeAddresses \cup RamAddresses
  PROVE  At(Stored(m, a, n, v), b) = IF b \in Flat!Span(a, n) THEN Flat!ByteOf(v, b - a)
                                                              ELSE At(m, b)
  <1>1. a \in Int /\ n \in Nat /\ n <= 4 /\ b \in Int
    BY WordIsInt, ClientNumbers DEF AccessSize, CodeAddresses, RamAddresses
  <1>2. StoreRange(a, n).arg = a - SIGN /\ Flat!Span(a, n) \subseteq RamAddresses
    BY StoreSucceeds
  <1> DEFINE ram == [i \in 0..(RamLen - 1) |->
                       IF a - SIGN <= i /\ i < a - SIGN + n THEN LeByte(v, i - (a - SIGN))
                                                            ELSE m.ram[i]]
  <1>3. m = [code |-> m.code, ram |-> m.ram]
    BY DEF Memory
  <1>4. Stored(m, a, n, v).ram = ram /\ Stored(m, a, n, v).code = m.code
    BY <1>2, <1>3 DEF Stored
  <1>5. CASE b \notin RamAddresses
    BY <1>2, <1>4, <1>5 DEF At
  <1>6. CASE b \in RamAddresses
    <2> DEFINE i == b - SIGN
    <2>1. i \in 0..(RamLen - 1) /\ i \in Int
      BY <1>1, <1>6, ClientNumbers DEF RamAddresses
    <2>2. At(Stored(m, a, n, v), b) = ram[i] /\ At(m, b) = m.ram[i]
      BY <1>4, <1>6, ClientNumbers DEF At
    <2>3. a - SIGN <= i /\ i < a - SIGN + n <=> b \in Flat!Span(a, n)
      BY <1>1, ClientNumbers DEF Flat!Span
    <2>4. i - (a - SIGN) = b - a
      BY <1>1, ClientNumbers
    <2>5. b \in Flat!Span(a, n) => b - a \in 0..3
      BY <1>1 DEF Flat!Span
    <2>6. ram[i] = IF b \in Flat!Span(a, n) THEN LeByte(v, b - a) ELSE m.ram[i]
      BY <2>1, <2>3, <2>4
    <2> QED
      BY <2>2, <2>5, <2>6, LeByteIsDigit
  <1> QED
    BY <1>5, <1>6

(* A store, successful or not, is a write of the flat memory.              *)
LEMMA StoreIsWrite ==
  ASSUME mem \in Memory, NEW a \in Addresses, NEW n \in AccessSize, NEW v \in StoreValues,
         DoStore(a, n, v)
  PROVE  Flat!Write
  <1>1. a \in Word /\ v \in Word
    BY ClientAssumption
  <1> DEFINE ok == Flat!Span(a, n) \subseteq RamAddresses
  <1>2. /\ Store(a, n).tag = "Ok" <=> ok
        /\ Store(a, n).tag = "Ok" => Store(a, n).arg = 0
    BY <1>1, StoreSucceeds
  <1>3. /\ req' = [op |-> "store", a |-> a, n |-> n, v |-> v]
        /\ res' = Store(a, n)
        /\ mem' = IF ok THEN Stored(mem, a, n, v) ELSE mem
    BY <1>2 DEF DoStore
  <1>4. Succeeded(res') = ok /\ Answer(res') = 0
    BY <1>2, <1>3 DEF Succeeded, Answer
  <1>5. \A b \in CodeAddresses \cup RamAddresses :
          At(mem', b) = IF ok /\ b \in Flat!Span(a, n) THEN Flat!ByteOf(v, b - a)
                                                        ELSE FlatBytes(mem)[b]
    BY <1>1, <1>2, <1>3, StoredIsWritten DEF FlatBytes
  <1>6. FlatBytes(mem') = [b \in CodeAddresses \cup RamAddresses |->
                             IF ok /\ b \in Flat!Span(a, n) THEN Flat!ByteOf(v, b - a)
                                                             ELSE FlatBytes(mem)[b]]
    BY <1>5 DEF FlatBytes
  <1>7. req' \in Flat!Stores
    BY <1>3 DEF Flat!Stores
  <1>8. req'.a = a /\ req'.n = n /\ req'.v = v
    BY <1>3
  <1> HIDE DEF ok
  <1> QED
    BY <1>4, <1>6, <1>7, <1>8 DEF Flat!Write, ok

-----------------------------------------------------------------------------
(* The refinement                                                          *)

\* The two slices are slices of bytes.
MemoryOK == mem \in Memory

LEMMA InitImplements == Init => Flat!FInit
  <1> SUFFICES ASSUME Init PROVE Flat!FInit
    OBVIOUS
  <1>1. mem \in Memory
    BY ClientAssumption DEF Init
  <1>2. \A b \in CodeAddresses \cup RamAddresses : At(mem, b) \in Byte
    BY <1>1, ClientNumbers
       DEF At, CodeAddresses, RamAddresses, Memory, CodeImage, RamImage
  <1>3. FlatBytes(mem) \in [CodeAddresses \cup RamAddresses -> Byte]
    BY <1>2 DEF FlatBytes
  <1> QED
    BY <1>3 DEF Init, Flat!FInit, Succeeded, Answer, Result

(* The slices stay slices of bytes.                                        *)
LEMMA MemoryInductive == MemoryOK /\ [Next]_vars => MemoryOK'
  <1> SUFFICES ASSUME mem \in Memory, [Next]_vars PROVE mem' \in Memory
    BY DEF MemoryOK
  <1>1. CASE Next
    BY <1>1, StoredType, ClientAssumption DEF Next, DoLoad, DoStore
  <1>2. CASE UNCHANGED vars
    BY <1>2 DEF vars
  <1> QED
    BY <1>1, <1>2

LEMMA NextImplements == MemoryOK /\ [Next]_vars => [Flat!FNext]_Flat!flat
  <1> SUFFICES ASSUME mem \in Memory, [Next]_vars PROVE [Flat!FNext]_Flat!flat
    BY DEF MemoryOK
  <1>1. CASE Next
    BY <1>1, LoadIsRead, StoreIsWrite DEF Next, Flat!FNext
  <1>2. CASE UNCHANGED vars
    BY <1>2 DEF vars, Flat!flat
  <1> QED
    BY <1>1, <1>2

(* SliceMemory implements the flat memory: for every width, all slices of  *)
(* at most half the address space and any sequence of loads and stores, an *)
(* access succeeds exactly when all its bytes are mapped (writable, for a  *)
(* store), reads the bytes at its address, and changes no others.          *)
THEOREM SliceMemoryIsFlat == Spec => ImplementsFlatMemory
  <1>1. Init => MemoryOK
    BY ClientAssumption DEF Init, MemoryOK
  <1>2. Spec => []MemoryOK
    BY <1>1, MemoryInductive, PTL DEF Spec
  <1> QED
    BY <1>2, InitImplements, NextImplements, PTL DEF Spec, ImplementsFlatMemory, Flat!FSpec

=============================================================================
