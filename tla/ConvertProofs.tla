---------------------------- MODULE ConvertProofs ----------------------------
(***************************************************************************)
(* Theorems about the conversion, for every 32-bit word: what to_embive    *)
(* writes is what from_embive reads (RoundTrip, Decodes), from_riscv finds *)
(* the registers and immediates of the manual (FromI ... FromCJ), convert  *)
(* takes the branch of the manual's row and renumbers its function         *)
(* (HalfwordRows, LoadAgrees ... OtherAgrees), and the high half of the    *)
(* word does not matter to a 16-bit instruction (LowConverts).             *)
(***************************************************************************)
EXTENDS ConvertUnit, TLAPS

-----------------------------------------------------------------------------
(* Numbers and their bits                                                  *)

(* The bits of a number, one by one.                                       *)
LEMMA BitAt ==
  ASSUME NEW n \in Nat
  PROVE  /\ BitsOf(n) \subseteq 0..11
         /\ 0 \in BitsOf(n) <=> n % 2 = 1
         /\ 1 \in BitsOf(n) <=> (n \div 2) % 2 = 1
         /\ 2 \in BitsOf(n) <=> (n \div 4) % 2 = 1
         /\ 3 \in BitsOf(n) <=> (n \div 8) % 2 = 1
         /\ 4 \in BitsOf(n) <=> (n \div 16) % 2 = 1
         /\ 5 \in BitsOf(n) <=> (n \div 32) % 2 = 1
         /\ 6 \in BitsOf(n) <=> (n \div 64) % 2 = 1
         /\ 7 \in BitsOf(n) <=> (n \div 128) % 2 = 1
         /\ 8 \in BitsOf(n) <=> (n \div 256) % 2 = 1
         /\ 9 \in BitsOf(n) <=> (n \div 512) % 2 = 1
         /\ 10 \in BitsOf(n) <=> (n \div 1024) % 2 = 1
         /\ 11 \in BitsOf(n) <=> (n \div 2048) % 2 = 1
  BY DEF BitsOf

(* A register number has five bits, a short one and funct3 have three.     *)
LEMMA FiveBits ==
  /\ \A v \in 0..31 : BitsOf(v) \subseteq 0..4 /\ Number(BitsOf(v)) = v
  /\ \A w \in SUBSET (0..4) : Number(w) \in 0..31
  <1>1. ASSUME NEW v \in 0..31 PROVE BitsOf(v) \subseteq 0..4
    BY BitAt
  <1>2. ASSUME NEW v \in 0..31 PROVE Number(BitsOf(v)) = v
    BY BitAt DEF Number, Bit
  <1>3. ASSUME NEW w \in SUBSET (0..4) PROVE Number(w) \in 0..31
    BY DEF Number, Bit
  <1> QED
    BY <1>1, <1>2, <1>3

LEMMA ThreeBits ==
  /\ \A v \in 0..7 : BitsOf(v) \subseteq 0..2 /\ Number(BitsOf(v)) = v
  /\ \A w \in SUBSET (0..2) : Number(w) \in 0..7
  <1>1. ASSUME NEW v \in 0..7 PROVE BitsOf(v) \subseteq 0..2
    BY BitAt
  <1>2. ASSUME NEW v \in 0..7 PROVE Number(BitsOf(v)) = v
    BY BitAt DEF Number, Bit
  <1>3. ASSUME NEW w \in SUBSET (0..2) PROVE Number(w) \in 0..7
    BY DEF Number, Bit
  <1> QED
    BY <1>1, <1>2, <1>3

-----------------------------------------------------------------------------
(* to_embive and from_embive                                               *)

\* A sign-extended immediate whose sign is bit n, and whose lowest bit is lo.
Signed(imm, n, lo) == /\ imm \in SUBSET (lo..31)
                      /\ \A b \in n..31 : b \in imm <=> n \in imm

(* A field holds the number that was put there.                            *)
LEMMA FieldIs ==
  ASSUME NEW w, NEW lo, NEW n, NEW v \in 0..31, (Masked(w, lo, n) \gg lo) = BitsOf(v)
  PROVE  Field(w, lo, n) = v
  BY FiveBits DEF Field

(* Words are equal when their bits are.                                    *)
LEMMA SameBits ==
  ASSUME NEW v \in SUBSET (0..31), NEW w \in SUBSET (0..31), \A b \in 0..31 : b \in v <=> b \in w
  PROVE  v = w
  OBVIOUS

\* The word fetched at an instruction with the bits t and the opcode bits c, and,
\* when it is a 16-bit one, with what follows it.
Fullword(t, c) == t \cup c
Halfword(t, c, junk) == Masked(t \cup c, 0, 16) \cup junk

(* The round trip of each format.                                          *)
LEMMA RoundR ==
  ASSUME NEW rd \in 0..31, NEW rs1 \in 0..31, NEW rs2 \in 0..31, NEW func \in 0..31,
         NEW c \in SUBSET (0..4)
  PROVE  LET f == Fields(rd, rs1, rs2, func, {})
             w == Fullword(TypeR_to_embive(f), c)
         IN  TypeR_from_embive(w) = f /\ Masked(w, 0, 5) = c
  <1>1. PICK d \in SUBSET (0..4), s \in SUBSET (0..4), t \in SUBSET (0..4), k \in SUBSET (0..4) :
           d = BitsOf(rd) /\ s = BitsOf(rs1) /\ t = BitsOf(rs2) /\ k = BitsOf(func)
    BY FiveBits, ThreeBits
  <1> DEFINE w == (d \ll 17) \cup (s \ll 22) \cup (t \ll 27) \cup (k \ll 7) \cup c
  <1>2. \A b \in 0..31 :
          /\ b \in (Masked(w, 17, 5) \gg 17) <=> b \in d
          /\ b \in (Masked(w, 22, 5) \gg 22) <=> b \in s
          /\ b \in (Masked(w, 27, 5) \gg 27) <=> b \in t
          /\ b \in (Masked(w, 7, 10) \gg 7) <=> b \in k
          /\ b \in Masked(w, 0, 5) <=> b \in c
    BY DEF Masked, \ll, \gg, Bits
  <1>3. /\ (Masked(w, 17, 5) \gg 17) \in SUBSET (0..31)
        /\ (Masked(w, 22, 5) \gg 22) \in SUBSET (0..31)
        /\ (Masked(w, 27, 5) \gg 27) \in SUBSET (0..31)
        /\ (Masked(w, 7, 10) \gg 7) \in SUBSET (0..31)
        /\ Masked(w, 0, 5) \in SUBSET (0..31)
    BY DEF Masked, \ll, \gg, Bits
  <1> HIDE DEF w
  <1>4. /\ (Masked(w, 17, 5) \gg 17) = d
        /\ (Masked(w, 22, 5) \gg 22) = s
        /\ (Masked(w, 27, 5) \gg 27) = t
        /\ (Masked(w, 7, 10) \gg 7) = k
        /\ Masked(w, 0, 5) = c
    BY <1>2, <1>3, SameBits
  <1>5. /\ Field(w, 17, 5) = rd
        /\ Field(w, 22, 5) = rs1
        /\ Field(w, 27, 5) = rs2
        /\ Field(w, 7, 10) = func
    BY <1>1, <1>4, FieldIs
  <1>6. Fullword(TypeR_to_embive(Fields(rd, rs1, rs2, func, {})), c) = w
    BY <1>1 DEF TypeR_to_embive, Fields, Put, w, Fullword
  <1> QED
    BY <1>4, <1>5, <1>6 DEF TypeR_from_embive

LEMMA RoundI ==
  ASSUME NEW rd \in 0..31, NEW func \in 0..7, NEW rs1 \in 0..31,
         NEW imm \in SUBSET (0..31), Signed(imm, 11, 0), NEW c \in SUBSET (0..4)
  PROVE  LET f == Fields(rd, rs1, 0, func, imm)
             w == Fullword(TypeI_to_embive(f), c)
         IN  TypeI_from_embive(w) = f /\ Masked(w, 0, 5) = c
  <1>1. PICK d \in SUBSET (0..4), k \in SUBSET (0..2), s \in SUBSET (0..4) :
           d = BitsOf(rd) /\ k = BitsOf(func) /\ s = BitsOf(rs1)
    BY FiveBits, ThreeBits
  <1> DEFINE w == (d \ll 10) \cup (k \ll 7) \cup (s \ll 15) \cup (Masked(imm, 0, 12) \ll 20) \cup c
  <1>2. \A b \in 0..31 :
          /\ b \in (Masked(w, 10, 5) \gg 10) <=> b \in d
          /\ b \in (Masked(w, 7, 3) \gg 7) <=> b \in k
          /\ b \in (Masked(w, 15, 5) \gg 15) <=> b \in s
          /\ b \in Sar(Masked(w, 20, 12), 20) <=> b \in imm
          /\ b \in Masked(w, 0, 5) <=> b \in c
    BY DEF Masked, Sar, Signed, \ll, \gg, Bits
  <1>3. /\ (Masked(w, 10, 5) \gg 10) \in SUBSET (0..31)
        /\ (Masked(w, 7, 3) \gg 7) \in SUBSET (0..31)
        /\ (Masked(w, 15, 5) \gg 15) \in SUBSET (0..31)
        /\ Sar(Masked(w, 20, 12), 20) \in SUBSET (0..31)
        /\ Masked(w, 0, 5) \in SUBSET (0..31)
        /\ imm \in SUBSET (0..31)
    BY DEF Masked, Sar, Signed, \ll, \gg, Bits
  <1> HIDE DEF w
  <1>4. /\ (Masked(w, 10, 5) \gg 10) = d
        /\ (Masked(w, 7, 3) \gg 7) = k
        /\ (Masked(w, 15, 5) \gg 15) = s
        /\ Sar(Masked(w, 20, 12), 20) = imm
        /\ Masked(w, 0, 5) = c
    BY <1>2, <1>3, SameBits
  <1>5. /\ Field(w, 10, 5) = rd
        /\ Field(w, 7, 3) = func
        /\ Field(w, 15, 5) = rs1
    BY <1>1, <1>4, FieldIs
  <1>6. Fullword(TypeI_to_embive(Fields(rd, rs1, 0, func, imm)), c) = w
    BY <1>1 DEF TypeI_to_embive, Fields, Put, w, Fullword
  <1> QED
    BY <1>4, <1>5, <1>6 DEF TypeI_from_embive

LEMMA RoundB ==
  ASSUME NEW func \in 0..7, NEW rs1 \in 0..31, NEW rs2 \in 0..31,
         NEW imm \in SUBSET (0..31), Signed(imm, 12, 1), NEW c \in SUBSET (0..4)
  PROVE  LET f == Fields(0, rs1, rs2, func, imm)
             w == Fullword(TypeB_to_embive(f), c)
         IN  TypeB_from_embive(w) = f /\ Masked(w, 0, 5) = c
  <1>1. PICK k \in SUBSET (0..2), s \in SUBSET (0..4), t \in SUBSET (0..4) :
           k = BitsOf(func) /\ s = BitsOf(rs1) /\ t = BitsOf(rs2)
    BY FiveBits, ThreeBits
  <1> DEFINE w == (k \ll 7) \cup (s \ll 10) \cup (t \ll 15) \cup (imm \ll 19) \cup c
  <1>2. \A b \in 0..31 :
          /\ b \in (Masked(w, 7, 3) \gg 7) <=> b \in k
          /\ b \in (Masked(w, 10, 5) \gg 10) <=> b \in s
          /\ b \in (Masked(w, 15, 5) \gg 15) <=> b \in t
          /\ b \in Sar(Masked(w, 20, 12), 19) <=> b \in imm
          /\ b \in Masked(w, 0, 5) <=> b \in c
    BY DEF Masked, Sar, Signed, \ll, \gg, Bits
  <1>3. /\ (Masked(w, 7, 3) \gg 7) \in SUBSET (0..31)
        /\ (Masked(w, 10, 5) \gg 10) \in SUBSET (0..31)
        /\ (Masked(w, 15, 5) \gg 15) \in SUBSET (0..31)
        /\ Sar(Masked(w, 20, 12), 19) \in SUBSET (0..31)
        /\ Masked(w, 0, 5) \in SUBSET (0..31)
        /\ imm \in SUBSET (0..31)
    BY DEF Masked, Sar, Signed, \ll, \gg, Bits
  <1> HIDE DEF w
  <1>4. /\ (Masked(w, 7, 3) \gg 7) = k
        /\ (Masked(w, 10, 5) \gg 10) = s
        /\ (Masked(w, 15, 5) \gg 15) = t
        /\ Sar(Masked(w, 20, 12), 19) = imm
        /\ Masked(w, 0, 5) = c
    BY <1>2, <1>3, SameBits
  <1>5. /\ Field(w, 7, 3) = func
        /\ Field(w, 10, 5) = rs1
        /\ Field(w, 15, 5) = rs2
    BY <1>1, <1>4, FieldIs
  <1>6. Fullword(TypeB_to_embive(Fields(0, rs1, rs2, func, imm)), c) = w
    BY <1>1 DEF TypeB_to_embive, Fields, Put, w, Fullword
  <1> QED
    BY <1>4, <1>5, <1>6 DEF TypeB_from_embive

LEMMA RoundU ==
  ASSUME NEW rd \in 0..31, NEW imm \in SUBSET (12..31), NEW c \in SUBSET (0..4)
  PROVE  LET f == Fields(rd, 0, 0, 0, imm)
             w == Fullword(TypeU_to_embive(f), c)
         IN  TypeU_from_embive(w) = f /\ Masked(w, 0, 5) = c
  <1>1. PICK d \in SUBSET (0..4) :
           d = BitsOf(rd)
    BY FiveBits, ThreeBits
  <1> DEFINE w == (d \ll 7) \cup Masked(imm, 12, 20) \cup c
  <1>2. \A b \in 0..31 :
          /\ b \in (Masked(w, 7, 5) \gg 7) <=> b \in d
          /\ b \in Masked(w, 12, 20) <=> b \in imm
          /\ b \in Masked(w, 0, 5) <=> b \in c
    BY DEF Masked, \ll, \gg, Bits
  <1>3. /\ (Masked(w, 7, 5) \gg 7) \in SUBSET (0..31)
        /\ Masked(w, 12, 20) \in SUBSET (0..31)
        /\ Masked(w, 0, 5) \in SUBSET (0..31)
        /\ imm \in SUBSET (0..31)
    BY DEF Masked, \ll, \gg, Bits
  <1> HIDE DEF w
  <1>4. /\ (Masked(w, 7, 5) \gg 7) = d
        /\ Masked(w, 12, 20) = imm
        /\ Masked(w, 0, 5) = c
    BY <1>2, <1>3, SameBits
  <1>5. /\ Field(w, 7, 5) = rd
    BY <1>1, <1>4, FieldIs
  <1>6. Fullword(TypeU_to_embive(Fields(rd, 0, 0, 0, imm)), c) = w
    BY <1>1 DEF TypeU_to_embive, Fields, Put, w, Fullword
  <1> QED
    BY <1>4, <1>5, <1>6 DEF TypeU_from_embive, TypeU_from_riscv

LEMMA RoundJ ==
  ASSUME NEW rd \in 0..31, NEW imm \in SUBSET (0..31), Signed(imm, 20, 1),
         NEW c \in SUBSET (0..4)
  PROVE  LET f == Fields(rd, 0, 0, 0, imm)
             w == Fullword(TypeJ_to_embive(f), c)
         IN  TypeJ_from_embive(w) = f /\ Masked(w, 0, 5) = c
  <1>1. PICK d \in SUBSET (0..4) :
           d = BitsOf(rd)
    BY FiveBits, ThreeBits
  <1> DEFINE w == (d \ll 7) \cup (imm \ll 11) \cup c
  <1>2. \A b \in 0..31 :
          /\ b \in (Masked(w, 7, 5) \gg 7) <=> b \in d
          /\ b \in Sar(Masked(w, 12, 20), 11) <=> b \in imm
          /\ b \in Masked(w, 0, 5) <=> b \in c
    BY DEF Masked, Sar, Signed, \ll, \gg, Bits
  <1>3. /\ (Masked(w, 7, 5) \gg 7) \in SUBSET (0..31)
        /\ Sar(Masked(w, 12, 20), 11) \in SUBSET (0..31)
        /\ Masked(w, 0, 5) \in SUBSET (0..31)
        /\ imm \in SUBSET (0..31)
    BY DEF Masked, Sar, Signed, \ll, \gg, Bits
  <1> HIDE DEF w
  <1>4. /\ (Masked(w, 7, 5) \gg 7) = d
        /\ Sar(Masked(w, 12, 20), 11) = imm
        /\ Masked(w, 0, 5) = c
    BY <1>2, <1>3, SameBits
  <1>5. /\ Field(w, 7, 5) = rd
    BY <1>1, <1>4, FieldIs
  <1>6. Fullword(TypeJ_to_embive(Fields(rd, 0, 0, 0, imm)), c) = w
    BY <1>1 DEF TypeJ_to_embive, Fields, Put, w, Fullword
  <1> QED
    BY <1>4, <1>5, <1>6 DEF TypeJ_from_embive

LEMMA RoundCIW ==
  ASSUME NEW rd \in 8..15, NEW imm \in SUBSET (2..9), NEW c \in SUBSET (0..4),
         NEW junk \in SUBSET (16..31)
  PROVE  LET f == Fields(rd, 0, 0, 0, imm)
             w == Halfword(TypeCIW_to_embive(f), c, junk)
         IN  TypeCIW_from_embive(w) = f /\ Masked(w, 0, 5) = c
  <1>1. PICK d \in SUBSET (0..2) :
           d = BitsOf(ShortReg(rd))
    BY FiveBits, ThreeBits DEF ShortReg, COMPRESSED_REGISTER_OFFSET
  <1> DEFINE w == Masked((d \ll 5) \cup Masked(imm \ll 6, 8, 8) \cup c, 0, 16) \cup junk
  <1>2. \A b \in 0..31 :
          /\ b \in (Masked(w, 5, 3) \gg 5) <=> b \in d
          /\ b \in (Masked(w, 8, 8) \gg 6) <=> b \in imm
          /\ b \in Masked(w, 0, 5) <=> b \in c
    BY DEF Masked, \ll, \gg, Bits
  <1>3. /\ (Masked(w, 5, 3) \gg 5) \in SUBSET (0..31)
        /\ (Masked(w, 8, 8) \gg 6) \in SUBSET (0..31)
        /\ Masked(w, 0, 5) \in SUBSET (0..31)
        /\ imm \in SUBSET (0..31)
    BY DEF Masked, \ll, \gg, Bits
  <1> HIDE DEF w
  <1>4. /\ (Masked(w, 5, 3) \gg 5) = d
        /\ (Masked(w, 8, 8) \gg 6) = imm
        /\ Masked(w, 0, 5) = c
    BY <1>2, <1>3, SameBits
  <1>5. /\ Field(w, 5, 3) = ShortReg(rd)
    BY <1>1, <1>4, FieldIs DEF ShortReg, COMPRESSED_REGISTER_OFFSET
  <1>6. Halfword(TypeCIW_to_embive(Fields(rd, 0, 0, 0, imm)), c, junk) = w
    BY <1>1 DEF TypeCIW_to_embive, Fields, Put, w, Halfword
  <1> QED
    BY <1>4, <1>5, <1>6 DEF TypeCIW_from_embive, FullReg, ShortReg, COMPRESSED_REGISTER_OFFSET

LEMMA RoundCL ==
  ASSUME NEW rd \in 8..15, NEW rs1 \in 8..15, NEW imm \in SUBSET (2..6),
         NEW c \in SUBSET (0..4), NEW junk \in SUBSET (16..31)
  PROVE  LET f == Fields(rd, rs1, 0, 0, imm)
             w == Halfword(TypeCL_to_embive(f), c, junk)
         IN  TypeCL_from_embive(w) = f /\ Masked(w, 0, 5) = c
  <1>1. PICK d \in SUBSET (0..2), s \in SUBSET (0..2) :
           d = BitsOf(ShortReg(rd)) /\ s = BitsOf(ShortReg(rs1))
    BY FiveBits, ThreeBits DEF ShortReg, COMPRESSED_REGISTER_OFFSET
  <1> DEFINE w == Masked((d \ll 5) \cup (s \ll 8) \cup (imm \ll 9) \cup c, 0, 16) \cup junk
  <1>2. \A b \in 0..31 :
          /\ b \in (Masked(w, 5, 3) \gg 5) <=> b \in d
          /\ b \in (Masked(w, 8, 3) \gg 8) <=> b \in s
          /\ b \in (Masked(w, 11, 5) \gg 9) <=> b \in imm
          /\ b \in Masked(w, 0, 5) <=> b \in c
    BY DEF Masked, \ll, \gg, Bits
  <1>3. /\ (Masked(w, 5, 3) \gg 5) \in SUBSET (0..31)
        /\ (Masked(w, 8, 3) \gg 8) \in SUBSET (0..31)
        /\ (Masked(w, 11, 5) \gg 9) \in SUBSET (0..31)
        /\ Masked(w, 0, 5) \in SUBSET (0..31)
        /\ imm \in SUBSET (0..31)
    BY DEF Masked, \ll, \gg, Bits
  <1> HIDE DEF w
  <1>4. /\ (Masked(w, 5, 3) \gg 5) = d
        /\ (Masked(w, 8, 3) \gg 8) = s
        /\ (Masked(w, 11, 5) \gg 9) = imm
        /\ Masked(w, 0, 5) = c
    BY <1>2, <1>3, SameBits
  <1>5. /\ Field(w, 5, 3) = ShortReg(rd)
        /\ Field(w, 8, 3) = ShortReg(rs1)
    BY <1>1, <1>4, FieldIs DEF ShortReg, COMPRESSED_REGISTER_OFFSET
  <1>6. Halfword(TypeCL_to_embive(Fields(rd, rs1, 0, 0, imm)), c, junk) = w
    BY <1>1 DEF TypeCL_to_embive, Fields, Put, w, Halfword
  <1> QED
    BY <1>4, <1>5, <1>6 DEF TypeCL_from_embive, FullReg, ShortReg, COMPRESSED_REGISTER_OFFSET

LEMMA RoundCI1 ==
  ASSUME NEW rd \in 0..31, NEW imm \in SUBSET (0..31), Signed(imm, 5, 0),
         NEW c \in SUBSET (0..4), NEW junk \in SUBSET (16..31)
  PROVE  LET f == Fields(rd, 0, 0, 0, imm)
             w == Halfword(TypeCI1_to_embive(f), c, junk)
         IN  TypeCI1_from_embive(w) = f /\ Masked(w, 0, 5) = c
  <1>1. PICK d \in SUBSET (0..4) :
           d = BitsOf(rd)
    BY FiveBits, ThreeBits
  <1> DEFINE w == Masked((d \ll 5) \cup Masked(imm \ll 10, 10, 6) \cup c, 0, 16) \cup junk
  <1>2. \A b \in 0..31 :
          /\ b \in (Masked(w, 5, 5) \gg 5) <=> b \in d
          /\ b \in Sar(AsSigned(Masked(w, 10, 6), 16), 10) <=> b \in imm
          /\ b \in Masked(w, 0, 5) <=> b \in c
    BY DEF Masked, Sar, AsSigned, Signed, \ll, \gg, Bits
  <1>3. /\ (Masked(w, 5, 5) \gg 5) \in SUBSET (0..31)
        /\ Sar(AsSigned(Masked(w, 10, 6), 16), 10) \in SUBSET (0..31)
        /\ Masked(w, 0, 5) \in SUBSET (0..31)
        /\ imm \in SUBSET (0..31)
    BY DEF Masked, Sar, AsSigned, Signed, \ll, \gg, Bits
  <1> HIDE DEF w
  <1>4. /\ (Masked(w, 5, 5) \gg 5) = d
        /\ Sar(AsSigned(Masked(w, 10, 6), 16), 10) = imm
        /\ Masked(w, 0, 5) = c
    BY <1>2, <1>3, SameBits
  <1>5. /\ Field(w, 5, 5) = rd
    BY <1>1, <1>4, FieldIs
  <1>6. Halfword(TypeCI1_to_embive(Fields(rd, 0, 0, 0, imm)), c, junk) = w
    BY <1>1 DEF TypeCI1_to_embive, Fields, Put, w, Halfword
  <1> QED
    BY <1>4, <1>5, <1>6 DEF TypeCI1_from_embive

LEMMA RoundCI2 ==
  ASSUME NEW rd \in 0..31, NEW imm \in SUBSET (0..31), Signed(imm, 9, 4),
         NEW c \in SUBSET (0..4), NEW junk \in SUBSET (16..31)
  PROVE  LET f == Fields(rd, 0, 0, 0, imm)
             w == Halfword(TypeCI2_to_embive(f), c, junk)
         IN  TypeCI2_from_embive(w) = f /\ Masked(w, 0, 5) = c
  <1>1. PICK d \in SUBSET (0..4) :
           d = BitsOf(rd)
    BY FiveBits, ThreeBits
  <1> DEFINE w == Masked((d \ll 5) \cup Masked(imm \ll 6, 10, 6) \cup c, 0, 16) \cup junk
  <1>2. \A b \in 0..31 :
          /\ b \in (Masked(w, 5, 5) \gg 5) <=> b \in d
          /\ b \in Sar(AsSigned(Masked(w, 10, 6), 16), 6) <=> b \in imm
          /\ b \in Masked(w, 0, 5) <=> b \in c
    BY DEF Masked, Sar, AsSigned, Signed, \ll, \gg, Bits
  <1>3. /\ (Masked(w, 5, 5) \gg 5) \in SUBSET (0..31)
        /\ Sar(AsSigned(Masked(w, 10, 6), 16), 6) \in SUBSET (0..31)
        /\ Masked(w, 0, 5) \in SUBSET (0..31)
        /\ imm \in SUBSET (0..31)
    BY DEF Masked, Sar, AsSigned, Signed, \ll, \gg, Bits
  <1> HIDE DEF w
  <1>4. /\ (Masked(w, 5, 5) \gg 5) = d
        /\ Sar(AsSigned(Masked(w, 10, 6), 16), 6) = imm
        /\ Masked(w, 0, 5) = c
    BY <1>2, <1>3, SameBits
  <1>5. /\ Field(w, 5, 5) = rd
    BY <1>1, <1>4, FieldIs
  <1>6. Halfword(TypeCI2_to_embive(Fields(rd, 0, 0, 0, imm)), c, junk) = w
    BY <1>1 DEF TypeCI2_to_embive, Fields, Put, w, Halfword
  <1> QED
    BY <1>4, <1>5, <1>6 DEF TypeCI2_from_embive

LEMMA RoundCI3 ==
  ASSUME NEW rd \in 0..31, NEW imm \in SUBSET (0..31), Signed(imm, 17, 12),
         NEW c \in SUBSET (0..4), NEW junk \in SUBSET (16..31)
  PROVE  LET f == Fields(rd, 0, 0, 0, imm)
             w == Halfword(TypeCI3_to_embive(f), c, junk)
         IN  TypeCI3_from_embive(w) = f /\ Masked(w, 0, 5) = c
  <1>1. PICK d \in SUBSET (0..4) :
           d = BitsOf(rd)
    BY FiveBits, ThreeBits
  <1> DEFINE w == Masked((d \ll 5) \cup Masked(imm \gg 2, 10, 6) \cup c, 0, 16) \cup junk
  <1>2. \A b \in 0..31 :
          /\ b \in (Masked(w, 5, 5) \gg 5) <=> b \in d
          /\ b \in (AsSigned(Masked(w, 10, 6), 16) \ll 2) <=> b \in imm
          /\ b \in Masked(w, 0, 5) <=> b \in c
    BY DEF Masked, AsSigned, Signed, \ll, \gg, Bits
  <1>3. /\ (Masked(w, 5, 5) \gg 5) \in SUBSET (0..31)
        /\ (AsSigned(Masked(w, 10, 6), 16) \ll 2) \in SUBSET (0..31)
        /\ Masked(w, 0, 5) \in SUBSET (0..31)
        /\ imm \in SUBSET (0..31)
    BY DEF Masked, AsSigned, Signed, \ll, \gg, Bits
  <1> HIDE DEF w
  <1>4. /\ (Masked(w, 5, 5) \gg 5) = d
        /\ (AsSigned(Masked(w, 10, 6), 16) \ll 2) = imm
        /\ Masked(w, 0, 5) = c
    BY <1>2, <1>3, SameBits
  <1>5. /\ Field(w, 5, 5) = rd
    BY <1>1, <1>4, FieldIs
  <1>6. Halfword(TypeCI3_to_embive(Fields(rd, 0, 0, 0, imm)), c, junk) = w
    BY <1>1 DEF TypeCI3_to_embive, Fields, Put, w, Halfword
  <1> QED
    BY <1>4, <1>5, <1>6 DEF TypeCI3_from_embive

LEMMA RoundCI4 ==
  ASSUME NEW rd \in 0..31, NEW imm \in SUBSET (0..5), NEW c \in SUBSET (0..4),
         NEW junk \in SUBSET (16..31)
  PROVE  LET f == Fields(rd, 0, 0, 0, imm)
             w == Halfword(TypeCI4_to_embive(f), c, junk)
         IN  TypeCI4_from_embive(w) = f /\ Masked(w, 0, 5) = c
  <1>1. PICK d \in SUBSET (0..4) :
           d = BitsOf(rd)
    BY FiveBits, ThreeBits
  <1> DEFINE w == Masked((d \ll 5) \cup (imm \ll 10) \cup c, 0, 16) \cup junk
  <1>2. \A b \in 0..31 :
          /\ b \in (Masked(w, 5, 5) \gg 5) <=> b \in d
          /\ b \in (Masked(w, 10, 6) \gg 10) <=> b \in imm
          /\ b \in Masked(w, 0, 5) <=> b \in c
    BY DEF Masked, \ll, \gg, Bits
  <1>3. /\ (Masked(w, 5, 5) \gg 5) \in SUBSET (0..31)
        /\ (Masked(w, 10, 6) \gg 10) \in SUBSET (0..31)
        /\ Masked(w, 0, 5) \in SUBSET (0..31)
        /\ imm \in SUBSET (0..31)
    BY DEF Masked, \ll, \gg, Bits
  <1> HIDE DEF w
  <1>4. /\ (Masked(w, 5, 5) \gg 5) = d
        /\ (Masked(w, 10, 6) \gg 10) = imm
        /\ Masked(w, 0, 5) = c
    BY <1>2, <1>3, SameBits
  <1>5. /\ Field(w, 5, 5) = rd
    BY <1>1, <1>4, FieldIs
  <1>6. Halfword(TypeCI4_to_embive(Fields(rd, 0, 0, 0, imm)), c, junk) = w
    BY <1>1 DEF TypeCI4_to_embive, Fields, Put, w, Halfword
  <1> QED
    BY <1>4, <1>5, <1>6 DEF TypeCI4_from_embive

LEMMA RoundCI5 ==
  ASSUME NEW rd \in 0..31, NEW imm \in SUBSET (2..7), NEW c \in SUBSET (0..4),
         NEW junk \in SUBSET (16..31)
  PROVE  LET f == Fields(rd, 0, 0, 0, imm)
             w == Halfword(TypeCI5_to_embive(f), c, junk)
         IN  TypeCI5_from_embive(w) = f /\ Masked(w, 0, 5) = c
  <1>1. PICK d \in SUBSET (0..4) :
           d = BitsOf(rd)
    BY FiveBits, ThreeBits
  <1> DEFINE w == Masked((d \ll 5) \cup (imm \ll 8) \cup c, 0, 16) \cup junk
  <1>2. \A b \in 0..31 :
          /\ b \in (Masked(w, 5, 5) \gg 5) <=> b \in d
          /\ b \in (Masked(w, 10, 6) \gg 8) <=> b \in imm
          /\ b \in Masked(w, 0, 5) <=> b \in c
    BY DEF Masked, \ll, \gg, Bits
  <1>3. /\ (Masked(w, 5, 5) \gg 5) \in SUBSET (0..31)
        /\ (Masked(w, 10, 6) \gg 8) \in SUBSET (0..31)
        /\ Masked(w, 0, 5) \in SUBSET (0..31)
        /\ imm \in SUBSET (0..31)
    BY DEF Masked, \ll, \gg, Bits
  <1> HIDE DEF w
  <1>4. /\ (Masked(w, 5, 5) \gg 5) = d
        /\ (Masked(w, 10, 6) \gg 8) = imm
        /\ Masked(w, 0, 5) = c
    BY <1>2, <1>3, SameBits
  <1>5. /\ Field(w, 5, 5) = rd
    BY <1>1, <1>4, FieldIs
  <1>6. Halfword(TypeCI5_to_embive(Fields(rd, 0, 0, 0, imm)), c, junk) = w
    BY <1>1 DEF TypeCI5_to_embive, Fields, Put, w, Halfword
  <1> QED
    BY <1>4, <1>5, <1>6 DEF TypeCI5_from_embive

LEMMA RoundCB1 ==
  ASSUME NEW rd \in 0..31, NEW imm \in SUBSET (0..5), NEW c \in SUBSET (0..4),
         NEW junk \in SUBSET (16..31)
  PROVE  LET f == Fields(rd, 0, 0, 0, imm)
             w == Halfword(TypeCB1_to_embive(f), c, junk)
         IN  TypeCB1_from_embive(w) = f /\ Masked(w, 0, 5) = c
  <1>1. PICK d \in SUBSET (0..4) :
           d = BitsOf(rd)
    BY FiveBits, ThreeBits
  <1> DEFINE w == Masked((d \ll 5) \cup (imm \ll 10) \cup c, 0, 16) \cup junk
  <1>2. \A b \in 0..31 :
          /\ b \in (Masked(w, 5, 5) \gg 5) <=> b \in d
          /\ b \in (Masked(w, 10, 6) \gg 10) <=> b \in imm
          /\ b \in Masked(w, 0, 5) <=> b \in c
    BY DEF Masked, \ll, \gg, Bits
  <1>3. /\ (Masked(w, 5, 5) \gg 5) \in SUBSET (0..31)
        /\ (Masked(w, 10, 6) \gg 10) \in SUBSET (0..31)
        /\ Masked(w, 0, 5) \in SUBSET (0..31)
        /\ imm \in SUBSET (0..31)
    BY DEF Masked, \ll, \gg, Bits
  <1> HIDE DEF w
  <1>4. /\ (Masked(w, 5, 5) \gg 5) = d
        /\ (Masked(w, 10, 6) \gg 10) = imm
        /\ Masked(w, 0, 5) = c
    BY <1>2, <1>3, SameBits
  <1>5. /\ Field(w, 5, 5) = rd
    BY <1>1, <1>4, FieldIs
  <1>6. Halfword(TypeCB1_to_embive(Fields(rd, 0, 0, 0, imm)), c, junk) = w
    BY <1>1 DEF TypeCB1_to_embive, Fields, Put, w, Halfword
  <1> QED
    BY <1>4, <1>5, <1>6 DEF TypeCB1_from_embive

LEMMA RoundCB2 ==
  ASSUME NEW rd \in 0..31, NEW imm \in SUBSET (0..31), Signed(imm, 5, 0),
         NEW c \in SUBSET (0..4), NEW junk \in SUBSET (16..31)
  PROVE  LET f == Fields(rd, 0, 0, 0, imm)
             w == Halfword(TypeCB2_to_embive(f), c, junk)
         IN  TypeCB2_from_embive(w) = f /\ Masked(w, 0, 5) = c
  <1>1. PICK d \in SUBSET (0..4) :
           d = BitsOf(rd)
    BY FiveBits, ThreeBits
  <1> DEFINE w == Masked((d \ll 5) \cup Masked(imm \ll 10, 10, 6) \cup c, 0, 16) \cup junk
  <1>2. \A b \in 0..31 :
          /\ b \in (Masked(w, 5, 5) \gg 5) <=> b \in d
          /\ b \in Sar(AsSigned(Masked(w, 10, 6), 16), 10) <=> b \in imm
          /\ b \in Masked(w, 0, 5) <=> b \in c
    BY DEF Masked, Sar, AsSigned, Signed, \ll, \gg, Bits
  <1>3. /\ (Masked(w, 5, 5) \gg 5) \in SUBSET (0..31)
        /\ Sar(AsSigned(Masked(w, 10, 6), 16), 10) \in SUBSET (0..31)
        /\ Masked(w, 0, 5) \in SUBSET (0..31)
        /\ imm \in SUBSET (0..31)
    BY DEF Masked, Sar, AsSigned, Signed, \ll, \gg, Bits
  <1> HIDE DEF w
  <1>4. /\ (Masked(w, 5, 5) \gg 5) = d
        /\ Sar(AsSigned(Masked(w, 10, 6), 16), 10) = imm
        /\ Masked(w, 0, 5) = c
    BY <1>2, <1>3, SameBits
  <1>5. /\ Field(w, 5, 5) = rd
    BY <1>1, <1>4, FieldIs
  <1>6. Halfword(TypeCB2_to_embive(Fields(rd, 0, 0, 0, imm)), c, junk) = w
    BY <1>1 DEF TypeCB2_to_embive, Fields, Put, w, Halfword
  <1> QED
    BY <1>4, <1>5, <1>6 DEF TypeCB2_from_embive

LEMMA RoundCB4 ==
  ASSUME NEW rs1 \in 8..15, NEW imm \in SUBSET (0..31), Signed(imm, 8, 1),
         NEW c \in SUBSET (0..4), NEW junk \in SUBSET (16..31)
  PROVE  LET f == Fields(0, rs1, 0, 0, imm)
             w == Halfword(TypeCB4_to_embive(f), c, junk)
         IN  TypeCB4_from_embive(w) = f /\ Masked(w, 0, 5) = c
  <1>1. PICK s \in SUBSET (0..2) :
           s = BitsOf(ShortReg(rs1))
    BY FiveBits, ThreeBits DEF ShortReg, COMPRESSED_REGISTER_OFFSET
  <1> DEFINE w == Masked((s \ll 5) \cup Masked(imm \ll 7, 8, 8) \cup c, 0, 16) \cup junk
  <1>2. \A b \in 0..31 :
          /\ b \in (Masked(w, 5, 3) \gg 5) <=> b \in s
          /\ b \in Sar(AsSigned(Masked(w, 8, 8), 16), 7) <=> b \in imm
          /\ b \in Masked(w, 0, 5) <=> b \in c
    BY DEF Masked, Sar, AsSigned, Signed, \ll, \gg, Bits
  <1>3. /\ (Masked(w, 5, 3) \gg 5) \in SUBSET (0..31)
        /\ Sar(AsSigned(Masked(w, 8, 8), 16), 7) \in SUBSET (0..31)
        /\ Masked(w, 0, 5) \in SUBSET (0..31)
        /\ imm \in SUBSET (0..31)
    BY DEF Masked, Sar, AsSigned, Signed, \ll, \gg, Bits
  <1> HIDE DEF w
  <1>4. /\ (Masked(w, 5, 3) \gg 5) = s
        /\ Sar(AsSigned(Masked(w, 8, 8), 16), 7) = imm
        /\ Masked(w, 0, 5) = c
    BY <1>2, <1>3, SameBits
  <1>5. /\ Field(w, 5, 3) = ShortReg(rs1)
    BY <1>1, <1>4, FieldIs DEF ShortReg, COMPRESSED_REGISTER_OFFSET
  <1>6. Halfword(TypeCB4_to_embive(Fields(0, rs1, 0, 0, imm)), c, junk) = w
    BY <1>1 DEF TypeCB4_to_embive, Fields, Put, w, Halfword
  <1> QED
    BY <1>4, <1>5, <1>6 DEF TypeCB4_from_embive, FullReg, ShortReg, COMPRESSED_REGISTER_OFFSET

LEMMA RoundCR ==
  ASSUME NEW rd \in 0..31, NEW rs2 \in 0..31, NEW c \in SUBSET (0..4),
         NEW junk \in SUBSET (16..31)
  PROVE  LET f == Fields(rd, 0, rs2, 0, {})
             w == Halfword(TypeCR_to_embive(f), c, junk)
         IN  TypeCR_from_embive(w) = f /\ Masked(w, 0, 5) = c
  <1>1. PICK d \in SUBSET (0..4), t \in SUBSET (0..4) :
           d = BitsOf(rd) /\ t = BitsOf(rs2)
    BY FiveBits, ThreeBits
  <1> DEFINE w == Masked((d \ll 5) \cup (t \ll 10) \cup c, 0, 16) \cup junk
  <1>2. \A b \in 0..31 :
          /\ b \in (Masked(w, 5, 5) \gg 5) <=> b \in d
          /\ b \in (Masked(w, 10, 5) \gg 10) <=> b \in t
          /\ b \in Masked(w, 0, 5) <=> b \in c
    BY DEF Masked, \ll, \gg, Bits
  <1>3. /\ (Masked(w, 5, 5) \gg 5) \in SUBSET (0..31)
        /\ (Masked(w, 10, 5) \gg 10) \in SUBSET (0..31)
        /\ Masked(w, 0, 5) \in SUBSET (0..31)
    BY DEF Masked, \ll, \gg, Bits
  <1> HIDE DEF w
  <1>4. /\ (Masked(w, 5, 5) \gg 5) = d
        /\ (Masked(w, 10, 5) \gg 10) = t
        /\ Masked(w, 0, 5) = c
    BY <1>2, <1>3, SameBits
  <1>5. /\ Field(w, 5, 5) = rd
        /\ Field(w, 10, 5) = rs2
    BY <1>1, <1>4, FieldIs
  <1>6. Halfword(TypeCR_to_embive(Fields(rd, 0, rs2, 0, {})), c, junk) = w
    BY <1>1 DEF TypeCR_to_embive, Fields, Put, w, Halfword
  <1> QED
    BY <1>4, <1>5, <1>6 DEF TypeCR_from_embive

LEMMA RoundCS ==
  ASSUME NEW rd \in 0..31, NEW rs2 \in 0..31, NEW c \in SUBSET (0..4),
         NEW junk \in SUBSET (16..31)
  PROVE  LET f == Fields(rd, 0, rs2, 0, {})
             w == Halfword(TypeCS_to_embive(f), c, junk)
         IN  TypeCS_from_embive(w) = f /\ Masked(w, 0, 5) = c
  <1>1. PICK d \in SUBSET (0..4), t \in SUBSET (0..4) :
           d = BitsOf(rd) /\ t = BitsOf(rs2)
    BY FiveBits, ThreeBits
  <1> DEFINE w == Masked((d \ll 5) \cup (t \ll 10) \cup c, 0, 16) \cup junk
  <1>2. \A b \in 0..31 :
          /\ b \in (Masked(w, 5, 5) \gg 5) <=> b \in d
          /\ b \in (Masked(w, 10, 5) \gg 10) <=> b \in t
          /\ b \in Masked(w, 0, 5) <=> b \in c
    BY DEF Masked, \ll, \gg, Bits
  <1>3. /\ (Masked(w, 5, 5) \gg 5) \in SUBSET (0..31)
        /\ (Masked(w, 10, 5) \gg 10) \in SUBSET (0..31)
        /\ Masked(w, 0, 5) \in SUBSET (0..31)
    BY DEF Masked, \ll, \gg, Bits
  <1> HIDE DEF w
  <1>4. /\ (Masked(w, 5, 5) \gg 5) = d
        /\ (Masked(w, 10, 5) \gg 10) = t
        /\ Masked(w, 0, 5) = c
    BY <1>2, <1>3, SameBits
  <1>5. /\ Field(w, 5, 5) = rd
        /\ Field(w, 10, 5) = rs2
    BY <1>1, <1>4, FieldIs
  <1>6. Halfword(TypeCS_to_embive(Fields(rd, 0, rs2, 0, {})), c, junk) = w
    BY <1>1 DEF TypeCS_to_embive, Fields, Put, w, Halfword
  <1> QED
    BY <1>4, <1>5, <1>6 DEF TypeCS_from_embive

LEMMA RoundCSS ==
  ASSUME NEW rs2 \in 0..31, NEW imm \in SUBSET (2..7), NEW c \in SUBSET (0..4),
         NEW junk \in SUBSET (16..31)
  PROVE  LET f == Fields(0, 0, rs2, 0, imm)
             w == Halfword(TypeCSS_to_embive(f), c, junk)
         IN  TypeCSS_from_embive(w) = f /\ Masked(w, 0, 5) = c
  <1>1. PICK t \in SUBSET (0..4) :
           t = BitsOf(rs2)
    BY FiveBits, ThreeBits
  <1> DEFINE w == Masked((t \ll 5) \cup (imm \ll 8) \cup c, 0, 16) \cup junk
  <1>2. \A b \in 0..31 :
          /\ b \in (Masked(w, 5, 5) \gg 5) <=> b \in t
          /\ b \in (Masked(w, 10, 6) \gg 8) <=> b \in imm
          /\ b \in Masked(w, 0, 5) <=> b \in c
    BY DEF Masked, \ll, \gg, Bits
  <1>3. /\ (Masked(w, 5, 5) \gg 5) \in SUBSET (0..31)
        /\ (Masked(w, 10, 6) \gg 8) \in SUBSET (0..31)
        /\ Masked(w, 0, 5) \in SUBSET (0..31)
        /\ imm \in SUBSET (0..31)
    BY DEF Masked, \ll, \gg, Bits
  <1> HIDE DEF w
  <1>4. /\ (Masked(w, 5, 5) \gg 5) = t
        /\ (Masked(w, 10, 6) \gg 8) = imm
        /\ Masked(w, 0, 5) = c
    BY <1>2, <1>3, SameBits
  <1>5. /\ Field(w, 5, 5) = rs2
    BY <1>1, <1>4, FieldIs
  <1>6. Halfword(TypeCSS_to_embive(Fields(0, 0, rs2, 0, imm)), c, junk) = w
    BY <1>1 DEF TypeCSS_to_embive, Fields, Put, w, Halfword
  <1> QED
    BY <1>4, <1>5, <1>6 DEF TypeCSS_from_embive

LEMMA RoundCJ ==
  ASSUME NEW imm \in SUBSET (0..31), Signed(imm, 11, 1), NEW c \in SUBSET (0..4),
         NEW junk \in SUBSET (16..31)
  PROVE  LET f == Fields(0, 0, 0, 0, imm)
             w == Halfword(TypeCJ_to_embive(f), c, junk)
         IN  TypeCJ_from_embive(w) = f /\ Masked(w, 0, 5) = c
  <1> DEFINE w == Masked(Masked(imm \ll 4, 5, 11) \cup c, 0, 16) \cup junk
  <1>2. \A b \in 0..31 :
          /\ b \in Sar(AsSigned(Masked(w, 5, 11), 16), 4) <=> b \in imm
          /\ b \in Masked(w, 0, 5) <=> b \in c
    BY DEF Masked, Sar, AsSigned, Signed, \ll, \gg, Bits
  <1>3. /\ Sar(AsSigned(Masked(w, 5, 11), 16), 4) \in SUBSET (0..31)
        /\ Masked(w, 0, 5) \in SUBSET (0..31)
        /\ imm \in SUBSET (0..31)
    BY DEF Masked, Sar, AsSigned, Signed, \ll, \gg, Bits
  <1> HIDE DEF w
  <1>4. /\ Sar(AsSigned(Masked(w, 5, 11), 16), 4) = imm
        /\ Masked(w, 0, 5) = c
    BY <1>2, <1>3, SameBits
  <1>5. Halfword(TypeCJ_to_embive(Fields(0, 0, 0, 0, imm)), c, junk) = w
    BY DEF TypeCJ_to_embive, Fields, Put, w, Halfword
  <1> QED
    BY <1>4, <1>5 DEF TypeCJ_from_embive

-----------------------------------------------------------------------------
(* Decode and encode                                                       *)

OpNames ==
  {"CAddi4spn", "CLw", "CSw", "CAddi", "CJal", "CLi", "CAddi16sp", "CLui", "CSrli",
   "CSrai", "CAndi", "CSub", "CXor", "COr", "CAnd", "CJ", "CBeqz", "CBnez", "CSlli",
   "CLwsp", "CJrMv", "CEbreakJalrAdd", "CSwsp", "Auipc", "Branch", "Jal", "Jalr",
   "LoadStore", "Lui", "OpImm", "OpAmo", "SystemMiscMem"}

\* The fields that an instruction of each format can hold.
Encodable(fmt, f) ==
  \/ fmt = "R" /\ \E rd, rs1, rs2, func \in 0..31 : f = Fields(rd, rs1, rs2, func, {})
  \/ fmt = "I" /\ \E rd, rs1 \in 0..31, func \in 0..7, imm \in SUBSET (0..31) :
          f = Fields(rd, rs1, 0, func, imm) /\ Signed(imm, 11, 0)
  \/ fmt = "B" /\ \E rs1, rs2 \in 0..31, func \in 0..7, imm \in SUBSET (0..31) :
          f = Fields(0, rs1, rs2, func, imm) /\ Signed(imm, 12, 1)
  \/ fmt = "U" /\ \E rd \in 0..31, imm \in SUBSET (12..31) : f = Fields(rd, 0, 0, 0, imm)
  \/ fmt = "J" /\ \E rd \in 0..31, imm \in SUBSET (0..31) :
          f = Fields(rd, 0, 0, 0, imm) /\ Signed(imm, 20, 1)
  \/ fmt = "CIW" /\ \E rd \in 8..15, imm \in SUBSET (2..9) : f = Fields(rd, 0, 0, 0, imm)
  \/ fmt = "CL" /\ \E rd, rs1 \in 8..15, imm \in SUBSET (2..6) : f = Fields(rd, rs1, 0, 0, imm)
  \/ fmt \in {"CI1", "CB2"} /\ \E rd \in 0..31, imm \in SUBSET (0..31) :
          f = Fields(rd, 0, 0, 0, imm) /\ Signed(imm, 5, 0)
  \/ fmt = "CI2" /\ \E rd \in 0..31, imm \in SUBSET (0..31) :
          f = Fields(rd, 0, 0, 0, imm) /\ Signed(imm, 9, 4)
  \/ fmt = "CI3" /\ \E rd \in 0..31, imm \in SUBSET (0..31) :
          f = Fields(rd, 0, 0, 0, imm) /\ Signed(imm, 17, 12)
  \/ fmt \in {"CI4", "CB1"} /\ \E rd \in 0..31, imm \in SUBSET (0..5) : f = Fields(rd, 0, 0, 0, imm)
  \/ fmt = "CI5" /\ \E rd \in 0..31, imm \in SUBSET (2..7) : f = Fields(rd, 0, 0, 0, imm)
  \/ fmt = "CB4" /\ \E rs1 \in 8..15, imm \in SUBSET (0..31) :
          f = Fields(0, rs1, 0, 0, imm) /\ Signed(imm, 8, 1)
  \/ fmt \in {"CR", "CS"} /\ \E rd, rs2 \in 0..31 : f = Fields(rd, 0, rs2, 0, {})
  \/ fmt = "CSS" /\ \E rs2 \in 0..31, imm \in SUBSET (2..7) : f = Fields(0, 0, rs2, 0, imm)
  \/ fmt = "CJ" /\ \E imm \in SUBSET (0..31) : f = Fields(0, 0, 0, 0, imm) /\ Signed(imm, 11, 1)

\* The word whose first bytes are those of an instruction with opcode bits c.
Word(fmt, f, c, junk) == Masked(ToEmbive(fmt, f) \cup c, 0, 8 * Size(fmt)) \cup junk

(* An instruction is read back from memory as it was written there,        *)
(* whatever follows it.                                                    *)
LEMMA RoundTrip32 ==
  ASSUME NEW fmt \in {"R", "I", "B", "U", "J"}, NEW f, Encodable(fmt, f), NEW c \in SUBSET (0..4)
  PROVE  LET w == Fullword(ToEmbive(fmt, f), c)
         IN  w \in SUBSET (0..31) /\ FromEmbive(fmt, w) = f /\ Masked(w, 0, 5) = c
  <1>1. Fullword(ToEmbive(fmt, f), c) \in SUBSET (0..31)
    BY DEF ToEmbive, TypeR_to_embive, TypeI_to_embive, TypeB_to_embive, TypeU_to_embive,
       TypeJ_to_embive, Put, Masked, \ll, Bits, Fullword
  <1>2. CASE fmt = "R"
    <2>1. PICK rd, rs1, rs2, func \in 0..31 :
           f = Fields(rd, rs1, rs2, func, {})
      BY <1>2 DEF Encodable
    <2>2. /\ \A w : FromEmbive(fmt, w) = TypeR_from_embive(w)
          /\ ToEmbive(fmt, f) = TypeR_to_embive(f)
      BY <1>2 DEF FromEmbive, ToEmbive
    <2>3. LET w == Fullword(TypeR_to_embive(Fields(rd, rs1, rs2, func, {})), c)
          IN  TypeR_from_embive(w) = Fields(rd, rs1, rs2, func, {}) /\ Masked(w, 0, 5) = c
      BY <2>1, RoundR
    <2> QED
      BY <1>1, <2>1, <2>2, <2>3
  <1>3. CASE fmt = "I"
    <2>1. PICK rd, rs1 \in 0..31, func \in 0..7, imm \in SUBSET (0..31) :
           f = Fields(rd, rs1, 0, func, imm) /\ Signed(imm, 11, 0)
      BY <1>3 DEF Encodable
    <2>2. /\ \A w : FromEmbive(fmt, w) = TypeI_from_embive(w)
          /\ ToEmbive(fmt, f) = TypeI_to_embive(f)
      BY <1>3 DEF FromEmbive, ToEmbive
    <2>3. LET w == Fullword(TypeI_to_embive(Fields(rd, rs1, 0, func, imm)), c)
          IN  TypeI_from_embive(w) = Fields(rd, rs1, 0, func, imm) /\ Masked(w, 0, 5) = c
      BY <2>1, RoundI
    <2> QED
      BY <1>1, <2>1, <2>2, <2>3
  <1>4. CASE fmt = "B"
    <2>1. PICK rs1, rs2 \in 0..31, func \in 0..7, imm \in SUBSET (0..31) :
           f = Fields(0, rs1, rs2, func, imm) /\ Signed(imm, 12, 1)
      BY <1>4 DEF Encodable
    <2>2. /\ \A w : FromEmbive(fmt, w) = TypeB_from_embive(w)
          /\ ToEmbive(fmt, f) = TypeB_to_embive(f)
      BY <1>4 DEF FromEmbive, ToEmbive
    <2>3. LET w == Fullword(TypeB_to_embive(Fields(0, rs1, rs2, func, imm)), c)
          IN  TypeB_from_embive(w) = Fields(0, rs1, rs2, func, imm) /\ Masked(w, 0, 5) = c
      BY <2>1, RoundB
    <2> QED
      BY <1>1, <2>1, <2>2, <2>3
  <1>5. CASE fmt = "U"
    <2>1. PICK rd \in 0..31, imm \in SUBSET (12..31) :
           f = Fields(rd, 0, 0, 0, imm)
      BY <1>5 DEF Encodable
    <2>2. /\ \A w : FromEmbive(fmt, w) = TypeU_from_embive(w)
          /\ ToEmbive(fmt, f) = TypeU_to_embive(f)
      BY <1>5 DEF FromEmbive, ToEmbive
    <2> QED
      BY <1>1, <2>1, <2>2, RoundU
  <1>6. CASE fmt = "J"
    <2>1. PICK rd \in 0..31, imm \in SUBSET (0..31) :
           f = Fields(rd, 0, 0, 0, imm) /\ Signed(imm, 20, 1)
      BY <1>6 DEF Encodable
    <2>2. /\ \A w : FromEmbive(fmt, w) = TypeJ_from_embive(w)
          /\ ToEmbive(fmt, f) = TypeJ_to_embive(f)
      BY <1>6 DEF FromEmbive, ToEmbive
    <2> QED
      BY <1>1, <2>1, <2>2, RoundJ
  <1> QED
    BY <1>2, <1>3, <1>4, <1>5, <1>6

LEMMA RoundTrip16 ==
  ASSUME NEW fmt, NEW f, Encodable(fmt, f), fmt \notin {"R", "I", "B", "U", "J"},
         NEW c \in SUBSET (0..4), NEW junk \in SUBSET (16..31)
  PROVE  LET w == Halfword(ToEmbive(fmt, f), c, junk)
         IN  FromEmbive(fmt, w) = f /\ Masked(w, 0, 5) = c
  <1>1. CASE fmt = "CIW"
    <2>1. PICK rd \in 8..15, imm \in SUBSET (2..9) :
           f = Fields(rd, 0, 0, 0, imm)
      BY <1>1 DEF Encodable
    <2>2. /\ \A w : FromEmbive(fmt, w) = TypeCIW_from_embive(w)
          /\ ToEmbive(fmt, f) = TypeCIW_to_embive(f)
      BY <1>1 DEF FromEmbive, ToEmbive
    <2> QED
      BY <2>1, <2>2, RoundCIW
  <1>2. CASE fmt = "CL"
    <2>1. PICK rd, rs1 \in 8..15, imm \in SUBSET (2..6) :
           f = Fields(rd, rs1, 0, 0, imm)
      BY <1>2 DEF Encodable
    <2>2. /\ \A w : FromEmbive(fmt, w) = TypeCL_from_embive(w)
          /\ ToEmbive(fmt, f) = TypeCL_to_embive(f)
      BY <1>2 DEF FromEmbive, ToEmbive
    <2> QED
      BY <2>1, <2>2, RoundCL
  <1>3. CASE fmt = "CI1"
    <2>1. PICK rd \in 0..31, imm \in SUBSET (0..31) :
           f = Fields(rd, 0, 0, 0, imm) /\ Signed(imm, 5, 0)
      BY <1>3 DEF Encodable
    <2>2. /\ \A w : FromEmbive(fmt, w) = TypeCI1_from_embive(w)
          /\ ToEmbive(fmt, f) = TypeCI1_to_embive(f)
      BY <1>3 DEF FromEmbive, ToEmbive
    <2> QED
      BY <2>1, <2>2, RoundCI1
  <1>4. CASE fmt = "CI2"
    <2>1. PICK rd \in 0..31, imm \in SUBSET (0..31) :
           f = Fields(rd, 0, 0, 0, imm) /\ Signed(imm, 9, 4)
      BY <1>4 DEF Encodable
    <2>2. /\ \A w : FromEmbive(fmt, w) = TypeCI2_from_embive(w)
          /\ ToEmbive(fmt, f) = TypeCI2_to_embive(f)
      BY <1>4 DEF FromEmbive, ToEmbive
    <2> QED
      BY <2>1, <2>2, RoundCI2
  <1>5. CASE fmt = "CI3"
    <2>1. PICK rd \in 0..31, imm \in SUBSET (0..31) :
           f = Fields(rd, 0, 0, 0, imm) /\ Signed(imm, 17, 12)
      BY <1>5 DEF Encodable
    <2>2. /\ \A w : FromEmbive(fmt, w) = TypeCI3_from_embive(w)
          /\ ToEmbive(fmt, f) = TypeCI3_to_embive(f)
      BY <1>5 DEF FromEmbive, ToEmbive
    <2> QED
      BY <2>1, <2>2, RoundCI3
  <1>6. CASE fmt = "CI4"
    <2>1. PICK rd \in 0..31, imm \in SUBSET (0..5) :
           f = Fields(rd, 0, 0, 0, imm)
      BY <1>6 DEF Encodable
    <2>2. /\ \A w : FromEmbive(fmt, w) = TypeCI4_from_embive(w)
          /\ ToEmbive(fmt, f) = TypeCI4_to_embive(f)
      BY <1>6 DEF FromEmbive, ToEmbive
    <2> QED
      BY <2>1, <2>2, RoundCI4
  <1>7. CASE fmt = "CI5"
    <2>1. PICK rd \in 0..31, imm \in SUBSET (2..7) :
           f = Fields(rd, 0, 0, 0, imm)
      BY <1>7 DEF Encodable
    <2>2. /\ \A w : FromEmbive(fmt, w) = TypeCI5_from_embive(w)
          /\ ToEmbive(fmt, f) = TypeCI5_to_embive(f)
      BY <1>7 DEF FromEmbive, ToEmbive
    <2> QED
      BY <2>1, <2>2, RoundCI5
  <1>8. CASE fmt = "CB1"
    <2>1. PICK rd \in 0..31, imm \in SUBSET (0..5) :
           f = Fields(rd, 0, 0, 0, imm)
      BY <1>8 DEF Encodable
    <2>2. /\ \A w : FromEmbive(fmt, w) = TypeCB1_from_embive(w)
          /\ ToEmbive(fmt, f) = TypeCB1_to_embive(f)
      BY <1>8 DEF FromEmbive, ToEmbive
    <2> QED
      BY <2>1, <2>2, RoundCB1
  <1>9. CASE fmt = "CB2"
    <2>1. PICK rd \in 0..31, imm \in SUBSET (0..31) :
           f = Fields(rd, 0, 0, 0, imm) /\ Signed(imm, 5, 0)
      BY <1>9 DEF Encodable
    <2>2. /\ \A w : FromEmbive(fmt, w) = TypeCB2_from_embive(w)
          /\ ToEmbive(fmt, f) = TypeCB2_to_embive(f)
      BY <1>9 DEF FromEmbive, ToEmbive
    <2> QED
      BY <2>1, <2>2, RoundCB2
  <1>10. CASE fmt = "CB4"
    <2>1. PICK rs1 \in 8..15, imm \in SUBSET (0..31) :
           f = Fields(0, rs1, 0, 0, imm) /\ Signed(imm, 8, 1)
      BY <1>10 DEF Encodable
    <2>2. /\ \A w : FromEmbive(fmt, w) = TypeCB4_from_embive(w)
          /\ ToEmbive(fmt, f) = TypeCB4_to_embive(f)
      BY <1>10 DEF FromEmbive, ToEmbive
    <2> QED
      BY <2>1, <2>2, RoundCB4
  <1>11. CASE fmt = "CR"
    <2>1. PICK rd, rs2 \in 0..31 :
           f = Fields(rd, 0, rs2, 0, {})
      BY <1>11 DEF Encodable
    <2>2. /\ \A w : FromEmbive(fmt, w) = TypeCR_from_embive(w)
          /\ ToEmbive(fmt, f) = TypeCR_to_embive(f)
      BY <1>11 DEF FromEmbive, ToEmbive
    <2>3. LET w == Halfword(TypeCR_to_embive(Fields(rd, 0, rs2, 0, {})), c, junk)
          IN  TypeCR_from_embive(w) = Fields(rd, 0, rs2, 0, {}) /\ Masked(w, 0, 5) = c
      BY <2>1, RoundCR
    <2> QED
      BY <2>1, <2>2, <2>3
  <1>12. CASE fmt = "CS"
    <2>1. PICK rd, rs2 \in 0..31 :
           f = Fields(rd, 0, rs2, 0, {})
      BY <1>12 DEF Encodable
    <2>2. /\ \A w : FromEmbive(fmt, w) = TypeCS_from_embive(w)
          /\ ToEmbive(fmt, f) = TypeCS_to_embive(f)
      BY <1>12 DEF FromEmbive, ToEmbive
    <2>3. LET w == Halfword(TypeCS_to_embive(Fields(rd, 0, rs2, 0, {})), c, junk)
          IN  TypeCS_from_embive(w) = Fields(rd, 0, rs2, 0, {}) /\ Masked(w, 0, 5) = c
      BY <2>1, RoundCS
    <2> QED
      BY <2>1, <2>2, <2>3
  <1>13. CASE fmt = "CSS"
    <2>1. PICK rs2 \in 0..31, imm \in SUBSET (2..7) :
           f = Fields(0, 0, rs2, 0, imm)
      BY <1>13 DEF Encodable
    <2>2. /\ \A w : FromEmbive(fmt, w) = TypeCSS_from_embive(w)
          /\ ToEmbive(fmt, f) = TypeCSS_to_embive(f)
      BY <1>13 DEF FromEmbive, ToEmbive
    <2> QED
      BY <2>1, <2>2, RoundCSS
  <1>14. CASE fmt = "CJ"
    <2>1. PICK imm \in SUBSET (0..31) :
           f = Fields(0, 0, 0, 0, imm) /\ Signed(imm, 11, 1)
      BY <1>14 DEF Encodable
    <2>2. /\ \A w : FromEmbive(fmt, w) = TypeCJ_from_embive(w)
          /\ ToEmbive(fmt, f) = TypeCJ_to_embive(f)
      BY <1>14 DEF FromEmbive, ToEmbive
    <2> QED
      BY <2>1, <2>2, RoundCJ
  <1> QED
    BY <1>1, <1>2, <1>3, <1>4, <1>5, <1>6, <1>7, <1>8, <1>9, <1>10, <1>11, <1>12, <1>13,
       <1>14 DEF Encodable

LEMMA RoundTrip ==
  ASSUME NEW fmt, NEW f, Encodable(fmt, f), NEW c \in SUBSET (0..4),
         NEW junk \in SUBSET ((8 * Size(fmt))..31)
  PROVE  LET w == Word(fmt, f, c, junk)
         IN  FromEmbive(fmt, w) = f /\ Masked(w, 0, 5) = c
  <1>1. CASE fmt \in {"R", "I", "B", "U", "J"}
    <2>1. 8 * Size(fmt) = 32 /\ junk = {}
      BY <1>1 DEF Size
    <2>2. PICK w \in SUBSET (0..31) : w = Fullword(ToEmbive(fmt, f), c)
      BY <1>1, RoundTrip32
    <2>3. \A b \in 0..31 : b \in Masked(w, 0, 32) \cup {} <=> b \in w
      BY DEF Masked
    <2>4. Masked(w, 0, 32) \cup {} \in SUBSET (0..31)
      BY DEF Masked
    <2>5. Masked(w, 0, 32) \cup {} = w
      BY <2>3, <2>4, SameBits
    <2>6. Word(fmt, f, c, junk) = w
      BY <2>1, <2>2, <2>5 DEF Word, Fullword
    <2> QED
      BY <1>1, <2>2, <2>6, RoundTrip32
  <1>2. CASE fmt \notin {"R", "I", "B", "U", "J"}
    <2>1. fmt # "S"
      BY DEF Encodable
    <2>2. Size(fmt) = 2 /\ junk \in SUBSET (16..31)
      BY <1>2, <2>1 DEF Size
    <2>3. Word(fmt, f, c, junk) = Halfword(ToEmbive(fmt, f), c, junk)
      BY <2>2 DEF Word, Halfword
    <2> QED
      BY <1>2, <2>2, <2>3, RoundTrip16
  <1> QED
    BY <1>1, <1>2

(* The table of the instructions.                                          *)
LEMMA Opcodes ==
  ASSUME NEW op \in OpNames
  PROVE  OpcodeOf(op) \in 0..31 /\ Instructions[OpcodeOf(op) + 1][1] = op
  <1>1. DOMAIN Instructions = 1..32
    BY DEF Instructions
  <1>2. \E k \in DOMAIN Instructions : Instructions[k][1] = op
    BY DEF OpNames, Instructions
  <1>3. PICK k : k = CHOOSE j \in DOMAIN Instructions : Instructions[j][1] = op
    OBVIOUS
  <1>4. k \in DOMAIN Instructions /\ Instructions[k][1] = op
    BY <1>2, <1>3
  <1>5. OpcodeOf(op) = k - 1
    BY <1>3 DEF OpcodeOf
  <1> QED
    BY <1>1, <1>4, <1>5

LEMMA FormatsOf ==
  /\ FormatOf("CAddi4spn") = "CIW" /\ FormatOf("CLw") = "CL" /\ FormatOf("CSw") = "CL"
  /\ FormatOf("CAddi") = "CI1" /\ FormatOf("CJal") = "CJ" /\ FormatOf("CLi") = "CI1"
  /\ FormatOf("CAddi16sp") = "CI2" /\ FormatOf("CLui") = "CI3" /\ FormatOf("CSrli") = "CB1"
  /\ FormatOf("CSrai") = "CB1" /\ FormatOf("CAndi") = "CB2" /\ FormatOf("CSub") = "CS"
  /\ FormatOf("CXor") = "CS" /\ FormatOf("COr") = "CS" /\ FormatOf("CAnd") = "CS"
  /\ FormatOf("CJ") = "CJ" /\ FormatOf("CBeqz") = "CB4" /\ FormatOf("CBnez") = "CB4"
  /\ FormatOf("CSlli") = "CI4" /\ FormatOf("CLwsp") = "CI5" /\ FormatOf("CJrMv") = "CR"
  /\ FormatOf("CEbreakJalrAdd") = "CR" /\ FormatOf("CSwsp") = "CSS" /\ FormatOf("Auipc") = "U"
  /\ FormatOf("Branch") = "B" /\ FormatOf("Jal") = "J" /\ FormatOf("Jalr") = "I"
  /\ FormatOf("LoadStore") = "I" /\ FormatOf("Lui") = "U" /\ FormatOf("OpImm") = "I"
  /\ FormatOf("OpAmo") = "R" /\ FormatOf("SystemMiscMem") = "I"
  <1>1. \A j, k \in 1..32 : Instructions[j][1] = Instructions[k][1] => j = k
    BY DEF Instructions
  <1>2. ASSUME NEW k \in 1..32 PROVE FormatOf(Instructions[k][1]) = Instructions[k][2]
    <2>1. Instructions[k][1] \in OpNames
      BY DEF Instructions, OpNames
    <2>2. PICK j \in 1..32 : j = OpcodeOf(Instructions[k][1]) + 1
      BY <2>1, Opcodes
    <2>3. j = k
      BY <1>1, <2>1, <2>2, Opcodes
    <2> QED
      BY <2>2, <2>3 DEF FormatOf
  <1>3. /\ Instructions[1] = <<"CAddi4spn", "CIW">> /\ Instructions[2] = <<"CLw", "CL">>
        /\ Instructions[3] = <<"CSw", "CL">> /\ Instructions[4] = <<"CAddi", "CI1">>
        /\ Instructions[5] = <<"CJal", "CJ">> /\ Instructions[6] = <<"CLi", "CI1">>
        /\ Instructions[7] = <<"CAddi16sp", "CI2">> /\ Instructions[8] = <<"CLui", "CI3">>
        /\ Instructions[9] = <<"CSrli", "CB1">> /\ Instructions[10] = <<"CSrai", "CB1">>
        /\ Instructions[11] = <<"CAndi", "CB2">> /\ Instructions[12] = <<"CSub", "CS">>
        /\ Instructions[13] = <<"CXor", "CS">> /\ Instructions[14] = <<"COr", "CS">>
        /\ Instructions[15] = <<"CAnd", "CS">> /\ Instructions[16] = <<"CJ", "CJ">>
        /\ Instructions[17] = <<"CBeqz", "CB4">> /\ Instructions[18] = <<"CBnez", "CB4">>
        /\ Instructions[19] = <<"CSlli", "CI4">> /\ Instructions[20] = <<"CLwsp", "CI5">>
        /\ Instructions[21] = <<"CJrMv", "CR">> /\ Instructions[22] = <<"CEbreakJalrAdd", "CR">>
        /\ Instructions[23] = <<"CSwsp", "CSS">> /\ Instructions[24] = <<"Auipc", "U">>
        /\ Instructions[25] = <<"Branch", "B">> /\ Instructions[26] = <<"Jal", "J">>
        /\ Instructions[27] = <<"Jalr", "I">> /\ Instructions[28] = <<"LoadStore", "I">>
        /\ Instructions[29] = <<"Lui", "U">> /\ Instructions[30] = <<"OpImm", "I">>
        /\ Instructions[31] = <<"OpAmo", "R">> /\ Instructions[32] = <<"SystemMiscMem", "I">>
    BY DEF Instructions
  <1> QED
    BY <1>2, <1>3

(* decode_instruction! of what embive_raw! makes.                          *)
LEMMA Decodes ==
  ASSUME NEW op \in OpNames, NEW f, Encodable(FormatOf(op), f),
         NEW junk \in SUBSET ((8 * EmbiveRaw(op, f).size)..31)
  PROVE  DecodeInstruction(Masked(EmbiveRaw(op, f).data, 0, 8 * EmbiveRaw(op, f).size) \cup junk)
           = [op |-> op, fields |-> f]
  <1> DEFINE fmt == FormatOf(op)
             c == BitsOf(OpcodeOf(op))
             w == Word(fmt, f, c, junk)
  <1>1. EmbiveRaw(op, f).size = Size(fmt) /\ EmbiveRaw(op, f).data = ToEmbive(fmt, f) \cup c
    BY DEF EmbiveRaw
  <1>2. OpcodeOf(op) \in 0..31 /\ Instructions[OpcodeOf(op) + 1][1] = op
    BY Opcodes
  <1>3. c \in SUBSET (0..4) /\ Number(c) = OpcodeOf(op)
    BY <1>2, FiveBits
  <1>4. FromEmbive(fmt, w) = f /\ Masked(w, 0, 5) = c
    BY <1>1, <1>3, RoundTrip
  <1>5. Field(w, 0, 5) = OpcodeOf(op)
    <2>1. PICK v \in SUBSET (0..4) : v = c
      BY <1>3
    <2>2. \A b \in 0..31 : b \in (v \gg 0) <=> b \in v
      BY DEF \gg, Bits
    <2>3. (v \gg 0) \in SUBSET (0..31)
      BY DEF \gg, Bits
    <2>4. (v \gg 0) = v
      BY <2>2, <2>3, SameBits
    <2> QED
      BY <1>3, <1>4, <2>1, <2>4 DEF Field
  <1>6. DecodeInstruction(w) = [op |-> op, fields |-> f]
    BY <1>2, <1>4, <1>5 DEF DecodeInstruction, FormatOf
  <1> QED
    BY <1>1, <1>6 DEF Word

-----------------------------------------------------------------------------
(* from_riscv                                                              *)

(* Fields of five and of three bits.                                       *)
LEMMA FieldRange ==
  ASSUME NEW w \in SUBSET (0..31), NEW lo \in 0..31
  PROVE  Field(w, lo, 5) \in 0..31 /\ Field(w, lo, 3) \in 0..7
  <1>1. (Masked(w, lo, 5) \gg lo) \in SUBSET (0..4) /\ (Masked(w, lo, 3) \gg lo) \in SUBSET (0..2)
    BY DEF Masked, \gg, Bits
  <1> QED
    BY <1>1, FiveBits, ThreeBits DEF Field

(* The fields of the formats, and the immediates that the manual lays out. *)
LEMMA FromI ==
  ASSUME NEW w \in SUBSET (0..31)
  PROVE  LET f == Fields(Field(w, 7, 5), Field(w, 15, 5), 0, Field(w, 12, 3), Imm("I", w))
         IN  TypeI_from_riscv(w) = f /\ Encodable("I", f)
  <1> DEFINE m == Extended(Part(w, 31, 20, 0), 11)
             n == Sar(Masked(w, 20, 12), 20)
  <1>1. Imm("I", w) = m
    BY DEF Imm
  <1>2. \A b \in 0..31 : b \in n <=> b \in m
    BY DEF Part, Extended, Masked, Sar, \gg, Bits
  <1>3. n \in SUBSET (0..31) /\ m \in SUBSET (0..31)
    BY DEF Part, Extended, Masked, Sar, \gg, Bits
  <1>4. Signed(m, 11, 0)
    BY DEF Signed, Part, Extended
  <1> HIDE DEF m, n
  <1>5. n = m
    BY <1>2, <1>3, SameBits
  <1> DEFINE f == Fields(Field(w, 7, 5), Field(w, 15, 5), 0, Field(w, 12, 3), Imm("I", w))
  <1>6. TypeI_from_riscv(w) = f
    BY <1>1, <1>5 DEF TypeI_from_riscv, n
  <1>7. /\ Field(w, 7, 5) \in 0..31
        /\ Field(w, 15, 5) \in 0..31
        /\ Field(w, 12, 3) \in 0..7
    BY FieldRange
  <1>8. \E rd, rs1 \in 0..31, func \in 0..7, imm \in SUBSET (0..31) :
          f = Fields(rd, rs1, 0, func, imm) /\ Signed(imm, 11, 0)
    BY <1>7, <1>1, <1>3, <1>4
  <1> HIDE DEF f
  <1> QED
    BY <1>6, <1>8 DEF Encodable, f

LEMMA FromS ==
  ASSUME NEW w \in SUBSET (0..31)
  PROVE  LET f == Fields(0, Field(w, 15, 5), Field(w, 20, 5), Field(w, 12, 3), Imm("S", w))
         IN  TypeS_from_riscv(w) = f
  <1> DEFINE m == Extended(Part(w, 31, 25, 5) \cup Part(w, 11, 7, 0), 11)
             n == Sar(Masked(w, 25, 7) \cup (Masked(w, 7, 5) \ll 13), 20)
  <1>1. Imm("S", w) = m
    BY DEF Imm
  <1>2. \A b \in 0..31 : b \in n <=> b \in m
    BY DEF Part, Extended, Masked, Sar, \ll, \gg, Bits
  <1>3. n \in SUBSET (0..31) /\ m \in SUBSET (0..31)
    BY DEF Part, Extended, Masked, Sar, \ll, \gg, Bits
  <1> HIDE DEF m, n
  <1>5. n = m
    BY <1>2, <1>3, SameBits
  <1> DEFINE f == Fields(0, Field(w, 15, 5), Field(w, 20, 5), Field(w, 12, 3), Imm("S", w))
  <1>6. TypeS_from_riscv(w) = f
    BY <1>1, <1>5 DEF TypeS_from_riscv, n
  <1> QED
    BY <1>6

LEMMA FromB ==
  ASSUME NEW w \in SUBSET (0..31)
  PROVE  LET f == Fields(0, Field(w, 15, 5), Field(w, 20, 5), Field(w, 12, 3), Imm("B", w))
         IN  TypeB_from_riscv(w) = f /\ Encodable("B", f)
  <1> DEFINE m == Extended(Part(w, 31, 31, 12) \cup Part(w, 30, 25, 5) \cup Part(w, 11, 8, 1)
                    \cup Part(w, 7, 7, 11), 12)
             n == Sar(Masked(w, 31, 1) \cup (Masked(w, 7, 1) \ll 23) \cup (Masked(w, 25, 6) \gg 1)
                    \cup (Masked(w, 8, 4) \ll 12), 19)
  <1>1. Imm("B", w) = m
    BY DEF Imm
  <1>2. \A b \in 0..31 : b \in n <=> b \in m
    BY DEF Part, Extended, Masked, Sar, \ll, \gg, Bits
  <1>3. n \in SUBSET (0..31) /\ m \in SUBSET (0..31)
    BY DEF Part, Extended, Masked, Sar, \ll, \gg, Bits
  <1>4. Signed(m, 12, 1)
    BY DEF Signed, Part, Extended
  <1> HIDE DEF m, n
  <1>5. n = m
    BY <1>2, <1>3, SameBits
  <1> DEFINE f == Fields(0, Field(w, 15, 5), Field(w, 20, 5), Field(w, 12, 3), Imm("B", w))
  <1>6. TypeB_from_riscv(w) = f
    BY <1>1, <1>5 DEF TypeB_from_riscv, n
  <1>7. /\ Field(w, 15, 5) \in 0..31
        /\ Field(w, 20, 5) \in 0..31
        /\ Field(w, 12, 3) \in 0..7
    BY FieldRange
  <1>8. \E rs1, rs2 \in 0..31, func \in 0..7, imm \in SUBSET (0..31) :
          f = Fields(0, rs1, rs2, func, imm) /\ Signed(imm, 12, 1)
    BY <1>7, <1>1, <1>3, <1>4
  <1> HIDE DEF f
  <1> QED
    BY <1>6, <1>8 DEF Encodable, f

LEMMA FromU ==
  ASSUME NEW w \in SUBSET (0..31)
  PROVE  LET f == Fields(Field(w, 7, 5), 0, 0, 0, Imm("U", w))
         IN  TypeU_from_riscv(w) = f /\ Encodable("U", f)
  <1> DEFINE m == Part(w, 31, 12, 12)
             n == Masked(w, 12, 20)
  <1>1. Imm("U", w) = m
    BY DEF Imm
  <1>2. \A b \in 0..31 : b \in n <=> b \in m
    BY DEF Part, Masked, Bits
  <1>3. n \in SUBSET (0..31) /\ m \in SUBSET (0..31)
    BY DEF Part, Masked, Bits
  <1>4. m \in SUBSET (12..31)
    BY DEF Part
  <1> HIDE DEF m, n
  <1>5. n = m
    BY <1>2, <1>3, SameBits
  <1> DEFINE f == Fields(Field(w, 7, 5), 0, 0, 0, Imm("U", w))
  <1>6. TypeU_from_riscv(w) = f
    BY <1>1, <1>5 DEF TypeU_from_riscv, n
  <1>7. /\ Field(w, 7, 5) \in 0..31
    BY FieldRange
  <1>8. \E rd \in 0..31, imm \in SUBSET (12..31) :
          f = Fields(rd, 0, 0, 0, imm)
    BY <1>7, <1>1, <1>3, <1>4
  <1> HIDE DEF f
  <1> QED
    BY <1>6, <1>8 DEF Encodable, f

LEMMA FromJ ==
  ASSUME NEW w \in SUBSET (0..31)
  PROVE  LET f == Fields(Field(w, 7, 5), 0, 0, 0, Imm("J", w))
         IN  TypeJ_from_riscv(w) = f /\ Encodable("J", f)
  <1> DEFINE m == Extended(Part(w, 31, 31, 20) \cup Part(w, 30, 21, 1) \cup Part(w, 20, 20, 11)
                    \cup Part(w, 19, 12, 12), 20)
             n == Sar(Masked(w, 31, 1) \cup (Masked(w, 12, 8) \ll 11)
                    \cup (Masked(w, 20, 1) \ll 2) \cup (Masked(w, 21, 10) \gg 9), 11)
  <1>1. Imm("J", w) = m
    BY DEF Imm
  <1>2. \A b \in 0..31 : b \in n <=> b \in m
    BY DEF Part, Extended, Masked, Sar, \ll, \gg, Bits
  <1>3. n \in SUBSET (0..31) /\ m \in SUBSET (0..31)
    BY DEF Part, Extended, Masked, Sar, \ll, \gg, Bits
  <1>4. Signed(m, 20, 1)
    BY DEF Signed, Part, Extended
  <1> HIDE DEF m, n
  <1>5. n = m
    BY <1>2, <1>3, SameBits
  <1> DEFINE f == Fields(Field(w, 7, 5), 0, 0, 0, Imm("J", w))
  <1>6. TypeJ_from_riscv(w) = f
    BY <1>1, <1>5 DEF TypeJ_from_riscv, n
  <1>7. /\ Field(w, 7, 5) \in 0..31
    BY FieldRange
  <1>8. \E rd \in 0..31, imm \in SUBSET (0..31) :
          f = Fields(rd, 0, 0, 0, imm) /\ Signed(imm, 20, 1)
    BY <1>7, <1>1, <1>3, <1>4
  <1> HIDE DEF f
  <1> QED
    BY <1>6, <1>8 DEF Encodable, f

LEMMA FromCIW ==
  ASSUME NEW w \in SUBSET (0..31)
  PROVE  LET f == Fields(Field(w, 2, 3) + 8, 0, 0, 0, Imm("CIW", w))
         IN  TypeCIW_from_riscv(w) = f /\ Encodable("CIW", f)
  <1> DEFINE m == Part(w, 12, 11, 4) \cup Part(w, 10, 7, 6) \cup Part(w, 6, 6, 2)
                    \cup Part(w, 5, 5, 3)
             n == (Masked(w, 6, 1) \gg 4) \cup (Masked(w, 5, 1) \gg 2)
                    \cup (Masked(w, 11, 2) \gg 7) \cup (Masked(w, 7, 4) \gg 1)
  <1>1. Imm("CIW", w) = m
    BY DEF Imm
  <1>2. \A b \in 0..31 : b \in n <=> b \in m
    BY DEF Part, Masked, \gg, Bits
  <1>3. n \in SUBSET (0..31) /\ m \in SUBSET (0..31)
    BY DEF Part, Masked, \gg, Bits
  <1>4. m \in SUBSET (2..9)
    BY DEF Part
  <1> HIDE DEF m, n
  <1>5. n = m
    BY <1>2, <1>3, SameBits
  <1> DEFINE f == Fields(Field(w, 2, 3) + 8, 0, 0, 0, Imm("CIW", w))
  <1>6. TypeCIW_from_riscv(w) = f
    BY <1>1, <1>5 DEF TypeCIW_from_riscv, FullReg, COMPRESSED_REGISTER_OFFSET, n
  <1>7. /\ Field(w, 2, 3) + 8 \in 8..15
    BY FieldRange
  <1>8. \E rd \in 8..15, imm \in SUBSET (2..9) :
          f = Fields(rd, 0, 0, 0, imm)
    BY <1>7, <1>1, <1>3, <1>4
  <1> HIDE DEF f
  <1> QED
    BY <1>6, <1>8 DEF Encodable, f

LEMMA FromCL ==
  ASSUME NEW w \in SUBSET (0..31)
  PROVE  LET f == Fields(Field(w, 2, 3) + 8, Field(w, 7, 3) + 8, 0, 0, Imm("CL", w))
         IN  TypeCL_from_riscv(w) = f /\ Encodable("CL", f)
  <1> DEFINE m == Part(w, 12, 10, 3) \cup Part(w, 6, 6, 2) \cup Part(w, 5, 5, 6)
             n == (Masked(w, 5, 1) \ll 1) \cup (Masked(w, 10, 3) \gg 7)
                    \cup (Masked(w, 6, 1) \gg 4)
  <1>1. Imm("CL", w) = m
    BY DEF Imm
  <1>2. \A b \in 0..31 : b \in n <=> b \in m
    BY DEF Part, Masked, \ll, \gg, Bits
  <1>3. n \in SUBSET (0..31) /\ m \in SUBSET (0..31)
    BY DEF Part, Masked, \ll, \gg, Bits
  <1>4. m \in SUBSET (2..6)
    BY DEF Part
  <1> HIDE DEF m, n
  <1>5. n = m
    BY <1>2, <1>3, SameBits
  <1> DEFINE f == Fields(Field(w, 2, 3) + 8, Field(w, 7, 3) + 8, 0, 0, Imm("CL", w))
  <1>6. TypeCL_from_riscv(w) = f
    BY <1>1, <1>5 DEF TypeCL_from_riscv, FullReg, COMPRESSED_REGISTER_OFFSET, n
  <1>7. /\ Field(w, 2, 3) + 8 \in 8..15
        /\ Field(w, 7, 3) + 8 \in 8..15
    BY FieldRange
  <1>8. \E rd, rs1 \in 8..15, imm \in SUBSET (2..6) :
          f = Fields(rd, rs1, 0, 0, imm)
    BY <1>7, <1>1, <1>3, <1>4
  <1> HIDE DEF f
  <1> QED
    BY <1>6, <1>8 DEF Encodable, f

LEMMA FromCI1 ==
  ASSUME NEW w \in SUBSET (0..31)
  PROVE  LET f == Fields(Field(w, 7, 5), 0, 0, 0, Imm("CI", w))
         IN  TypeCI1_from_riscv(w) = f /\ Encodable("CI1", f)
  <1> DEFINE m == Extended(Part(w, 12, 12, 5) \cup Part(w, 6, 2, 0), 5)
             n == Sar(AsSigned(Imm6(w), 8), 2)
  <1>1. Imm("CI", w) = m
    BY DEF Imm
  <1>2. \A b \in 0..31 : b \in n <=> b \in m
    BY DEF Part, Extended, Imm6, Masked, Sar, AsSigned, \gg, Bits
  <1>3. n \in SUBSET (0..31) /\ m \in SUBSET (0..31)
    BY DEF Part, Extended, Imm6, Masked, Sar, AsSigned, \gg, Bits
  <1>4. Signed(m, 5, 0)
    BY DEF Signed, Part, Extended
  <1> HIDE DEF m, n
  <1>5. n = m
    BY <1>2, <1>3, SameBits
  <1> DEFINE f == Fields(Field(w, 7, 5), 0, 0, 0, Imm("CI", w))
  <1>6. TypeCI1_from_riscv(w) = f
    BY <1>1, <1>5 DEF TypeCI1_from_riscv, n
  <1>7. /\ Field(w, 7, 5) \in 0..31
    BY FieldRange
  <1>8. \E rd \in 0..31, imm \in SUBSET (0..31) :
          f = Fields(rd, 0, 0, 0, imm) /\ Signed(imm, 5, 0)
    BY <1>7, <1>1, <1>3, <1>4
  <1> HIDE DEF f
  <1> QED
    BY <1>6, <1>8 DEF Encodable, f

LEMMA FromCI2 ==
  ASSUME NEW w \in SUBSET (0..31)
  PROVE  LET f == Fields(Field(w, 7, 5), 0, 0, 0, Imm("addi16sp", w))
         IN  TypeCI2_from_riscv(w) = f /\ Encodable("CI2", f)
  <1> DEFINE m == Extended(Part(w, 12, 12, 9) \cup Part(w, 6, 6, 4) \cup Part(w, 5, 5, 6)
                    \cup Part(w, 4, 3, 7) \cup Part(w, 2, 2, 5), 9)
             n == AsSigned((Masked(w, 12, 1) \gg 5) \cup (Masked(w, 3, 2) \ll 2)
                    \cup (Masked(w, 5, 1) \gg 1) \cup (Masked(w, 2, 1) \ll 1)
                    \cup (Masked(w, 6, 1) \gg 4), 8) \ll 2
  <1>1. Imm("addi16sp", w) = m
    BY DEF Imm
  <1>2. \A b \in 0..31 : b \in n <=> b \in m
    BY DEF Part, Extended, Masked, AsSigned, \ll, \gg, Bits
  <1>3. n \in SUBSET (0..31) /\ m \in SUBSET (0..31)
    BY DEF Part, Extended, Masked, AsSigned, \ll, \gg, Bits
  <1>4. Signed(m, 9, 4)
    BY DEF Signed, Part, Extended
  <1> HIDE DEF m, n
  <1>5. n = m
    BY <1>2, <1>3, SameBits
  <1> DEFINE f == Fields(Field(w, 7, 5), 0, 0, 0, Imm("addi16sp", w))
  <1>6. TypeCI2_from_riscv(w) = f
    BY <1>1, <1>5 DEF TypeCI2_from_riscv, n
  <1>7. /\ Field(w, 7, 5) \in 0..31
    BY FieldRange
  <1>8. \E rd \in 0..31, imm \in SUBSET (0..31) :
          f = Fields(rd, 0, 0, 0, imm) /\ Signed(imm, 9, 4)
    BY <1>7, <1>1, <1>3, <1>4
  <1> HIDE DEF f
  <1> QED
    BY <1>6, <1>8 DEF Encodable, f

LEMMA FromCI3 ==
  ASSUME NEW w \in SUBSET (0..31)
  PROVE  LET f == Fields(Field(w, 7, 5), 0, 0, 0, Imm("lui", w))
         IN  TypeCI3_from_riscv(w) = f /\ Encodable("CI3", f)
  <1> DEFINE m == Extended(Part(w, 12, 12, 17) \cup Part(w, 6, 2, 12), 17)
             n == AsSigned(Imm6(w), 8) \ll 10
  <1>1. Imm("lui", w) = m
    BY DEF Imm
  <1>2. \A b \in 0..31 : b \in n <=> b \in m
    BY DEF Part, Extended, Imm6, Masked, AsSigned, \ll, \gg, Bits
  <1>3. n \in SUBSET (0..31) /\ m \in SUBSET (0..31)
    BY DEF Part, Extended, Imm6, Masked, AsSigned, \ll, \gg, Bits
  <1>4. Signed(m, 17, 12)
    BY DEF Signed, Part, Extended
  <1> HIDE DEF m, n
  <1>5. n = m
    BY <1>2, <1>3, SameBits
  <1> DEFINE f == Fields(Field(w, 7, 5), 0, 0, 0, Imm("lui", w))
  <1>6. TypeCI3_from_riscv(w) = f
    BY <1>1, <1>5 DEF TypeCI3_from_riscv, n
  <1>7. /\ Field(w, 7, 5) \in 0..31
    BY FieldRange
  <1>8. \E rd \in 0..31, imm \in SUBSET (0..31) :
          f = Fields(rd, 0, 0, 0, imm) /\ Signed(imm, 17, 12)
    BY <1>7, <1>1, <1>3, <1>4
  <1> HIDE DEF f
  <1> QED
    BY <1>6, <1>8 DEF Encodable, f

LEMMA FromCI4 ==
  ASSUME NEW w \in SUBSET (0..31)
  PROVE  LET f == Fields(Field(w, 7, 5), 0, 0, 0, Imm("shift", w))
         IN  TypeCI4_from_riscv(w) = f /\ Encodable("CI4", f)
  <1> DEFINE m == Part(w, 12, 12, 5) \cup Part(w, 6, 2, 0)
             n == Imm6(w) \gg 2
  <1>1. Imm("shift", w) = m
    BY DEF Imm
  <1>2. \A b \in 0..31 : b \in n <=> b \in m
    BY DEF Part, Imm6, Masked, \gg, Bits
  <1>3. n \in SUBSET (0..31) /\ m \in SUBSET (0..31)
    BY DEF Part, Imm6, Masked, \gg, Bits
  <1>4. m \in SUBSET (0..5)
    BY DEF Part
  <1> HIDE DEF m, n
  <1>5. n = m
    BY <1>2, <1>3, SameBits
  <1> DEFINE f == Fields(Field(w, 7, 5), 0, 0, 0, Imm("shift", w))
  <1>6. TypeCI4_from_riscv(w) = f
    BY <1>1, <1>5 DEF TypeCI4_from_riscv, n
  <1>7. /\ Field(w, 7, 5) \in 0..31
    BY FieldRange
  <1>8. \E rd \in 0..31, imm \in SUBSET (0..5) :
          f = Fields(rd, 0, 0, 0, imm)
    BY <1>7, <1>1, <1>3, <1>4
  <1> HIDE DEF f
  <1> QED
    BY <1>6, <1>8 DEF Encodable, f

LEMMA FromCI5 ==
  ASSUME NEW w \in SUBSET (0..31)
  PROVE  LET f == Fields(Field(w, 7, 5), 0, 0, 0, Imm("lwsp", w))
         IN  TypeCI5_from_riscv(w) = f /\ Encodable("CI5", f)
  <1> DEFINE m == Part(w, 12, 12, 5) \cup Part(w, 6, 4, 2) \cup Part(w, 3, 2, 6)
             n == Sar((Masked(w, 2, 2) \ll 11) \cup Masked(w, 12, 1)
                    \cup (Masked(w, 4, 3) \ll 5), 7)
  <1>1. Imm("lwsp", w) = m
    BY DEF Imm
  <1>2. \A b \in 0..31 : b \in n <=> b \in m
    BY DEF Part, Masked, Sar, \ll, \gg, Bits
  <1>3. n \in SUBSET (0..31) /\ m \in SUBSET (0..31)
    BY DEF Part, Masked, Sar, \ll, \gg, Bits
  <1>4. m \in SUBSET (2..7)
    BY DEF Part
  <1> HIDE DEF m, n
  <1>5. n = m
    BY <1>2, <1>3, SameBits
  <1> DEFINE f == Fields(Field(w, 7, 5), 0, 0, 0, Imm("lwsp", w))
  <1>6. TypeCI5_from_riscv(w) = f
    BY <1>1, <1>5 DEF TypeCI5_from_riscv, n
  <1>7. /\ Field(w, 7, 5) \in 0..31
    BY FieldRange
  <1>8. \E rd \in 0..31, imm \in SUBSET (2..7) :
          f = Fields(rd, 0, 0, 0, imm)
    BY <1>7, <1>1, <1>3, <1>4
  <1> HIDE DEF f
  <1> QED
    BY <1>6, <1>8 DEF Encodable, f

LEMMA FromCB1 ==
  ASSUME NEW w \in SUBSET (0..31)
  PROVE  LET f == Fields(Field(w, 7, 3) + 8, 0, 0, 0, Imm("shift", w))
         IN  TypeCB1_from_riscv(w) = f /\ Encodable("CB1", f)
  <1> DEFINE m == Part(w, 12, 12, 5) \cup Part(w, 6, 2, 0)
             n == Imm6(w) \gg 2
  <1>1. Imm("shift", w) = m
    BY DEF Imm
  <1>2. \A b \in 0..31 : b \in n <=> b \in m
    BY DEF Part, Imm6, Masked, \gg, Bits
  <1>3. n \in SUBSET (0..31) /\ m \in SUBSET (0..31)
    BY DEF Part, Imm6, Masked, \gg, Bits
  <1>4. m \in SUBSET (0..5)
    BY DEF Part
  <1> HIDE DEF m, n
  <1>5. n = m
    BY <1>2, <1>3, SameBits
  <1> DEFINE f == Fields(Field(w, 7, 3) + 8, 0, 0, 0, Imm("shift", w))
  <1>6. TypeCB1_from_riscv(w) = f
    BY <1>1, <1>5 DEF TypeCB1_from_riscv, FullReg, COMPRESSED_REGISTER_OFFSET, n
  <1>7. /\ Field(w, 7, 3) + 8 \in 8..15
    BY FieldRange
  <1>8. \E rd \in 0..31, imm \in SUBSET (0..5) :
          f = Fields(rd, 0, 0, 0, imm)
    BY <1>7, <1>1, <1>3, <1>4
  <1> HIDE DEF f
  <1> QED
    BY <1>6, <1>8 DEF Encodable, f

LEMMA FromCB2 ==
  ASSUME NEW w \in SUBSET (0..31)
  PROVE  LET f == Fields(Field(w, 7, 3) + 8, 0, 0, 0, Imm("CI", w))
         IN  TypeCB2_from_riscv(w) = f /\ Encodable("CB2", f)
  <1> DEFINE m == Extended(Part(w, 12, 12, 5) \cup Part(w, 6, 2, 0), 5)
             n == Sar(AsSigned(Imm6(w), 8), 2)
  <1>1. Imm("CI", w) = m
    BY DEF Imm
  <1>2. \A b \in 0..31 : b \in n <=> b \in m
    BY DEF Part, Extended, Imm6, Masked, Sar, AsSigned, \gg, Bits
  <1>3. n \in SUBSET (0..31) /\ m \in SUBSET (0..31)
    BY DEF Part, Extended, Imm6, Masked, Sar, AsSigned, \gg, Bits
  <1>4. Signed(m, 5, 0)
    BY DEF Signed, Part, Extended
  <1> HIDE DEF m, n
  <1>5. n = m
    BY <1>2, <1>3, SameBits
  <1> DEFINE f == Fields(Field(w, 7, 3) + 8, 0, 0, 0, Imm("CI", w))
  <1>6. TypeCB2_from_riscv(w) = f
    BY <1>1, <1>5 DEF TypeCB2_from_riscv, FullReg, COMPRESSED_REGISTER_OFFSET, n
  <1>7. /\ Field(w, 7, 3) + 8 \in 8..15
    BY FieldRange
  <1>8. \E rd \in 0..31, imm \in SUBSET (0..31) :
          f = Fields(rd, 0, 0, 0, imm) /\ Signed(imm, 5, 0)
    BY <1>7, <1>1, <1>3, <1>4
  <1> HIDE DEF f
  <1> QED
    BY <1>6, <1>8 DEF Encodable, f

LEMMA FromCB4 ==
  ASSUME NEW w \in SUBSET (0..31)
  PROVE  LET f == Fields(0, Field(w, 7, 3) + 8, 0, 0, Imm("CB", w))
         IN  TypeCB4_from_riscv(w) = f /\ Encodable("CB4", f)
  <1> DEFINE m == Extended(Part(w, 12, 12, 8) \cup Part(w, 11, 10, 3) \cup Part(w, 6, 5, 6)
                    \cup Part(w, 4, 3, 1) \cup Part(w, 2, 2, 5), 8)
             n == AsSigned((Masked(w, 12, 1) \gg 5) \cup Masked(w, 5, 2)
                    \cup (Masked(w, 2, 1) \ll 2) \cup (Masked(w, 10, 2) \gg 8)
                    \cup (Masked(w, 3, 2) \gg 3), 8) \ll 1
  <1>1. Imm("CB", w) = m
    BY DEF Imm
  <1>2. \A b \in 0..31 : b \in n <=> b \in m
    BY DEF Part, Extended, Masked, AsSigned, \ll, \gg, Bits
  <1>3. n \in SUBSET (0..31) /\ m \in SUBSET (0..31)
    BY DEF Part, Extended, Masked, AsSigned, \ll, \gg, Bits
  <1>4. Signed(m, 8, 1)
    BY DEF Signed, Part, Extended
  <1> HIDE DEF m, n
  <1>5. n = m
    BY <1>2, <1>3, SameBits
  <1> DEFINE f == Fields(0, Field(w, 7, 3) + 8, 0, 0, Imm("CB", w))
  <1>6. TypeCB4_from_riscv(w) = f
    BY <1>1, <1>5 DEF TypeCB4_from_riscv, FullReg, COMPRESSED_REGISTER_OFFSET, n
  <1>7. /\ Field(w, 7, 3) + 8 \in 8..15
    BY FieldRange
  <1>8. \E rs1 \in 8..15, imm \in SUBSET (0..31) :
          f = Fields(0, rs1, 0, 0, imm) /\ Signed(imm, 8, 1)
    BY <1>7, <1>1, <1>3, <1>4
  <1> HIDE DEF f
  <1> QED
    BY <1>6, <1>8 DEF Encodable, f

LEMMA FromCR ==
  ASSUME NEW w \in SUBSET (0..31)
  PROVE  LET f == Fields(Field(w, 7, 5), 0, Field(w, 2, 5), 0, {})
         IN  TypeCR_from_riscv(w) = f /\ Encodable("CR", f)
  <1> DEFINE f == Fields(Field(w, 7, 5), 0, Field(w, 2, 5), 0, {})
  <1>6. TypeCR_from_riscv(w) = f
    BY DEF TypeCR_from_riscv
  <1>7. /\ Field(w, 7, 5) \in 0..31
        /\ Field(w, 2, 5) \in 0..31
    BY FieldRange
  <1>8. \E rd, rs2 \in 0..31 :
          f = Fields(rd, 0, rs2, 0, {})
    BY <1>7
  <1> HIDE DEF f
  <1> QED
    BY <1>6, <1>8 DEF Encodable, f

LEMMA FromCS ==
  ASSUME NEW w \in SUBSET (0..31)
  PROVE  LET f == Fields(Field(w, 7, 3) + 8, 0, Field(w, 2, 3) + 8, 0, {})
         IN  TypeCS_from_riscv(w) = f /\ Encodable("CS", f)
  <1> DEFINE f == Fields(Field(w, 7, 3) + 8, 0, Field(w, 2, 3) + 8, 0, {})
  <1>6. TypeCS_from_riscv(w) = f
    BY DEF TypeCS_from_riscv, FullReg, COMPRESSED_REGISTER_OFFSET
  <1>7. /\ Field(w, 7, 3) + 8 \in 8..15
        /\ Field(w, 2, 3) + 8 \in 8..15
    BY FieldRange
  <1>8. \E rd, rs2 \in 0..31 :
          f = Fields(rd, 0, rs2, 0, {})
    BY <1>7
  <1> HIDE DEF f
  <1> QED
    BY <1>6, <1>8 DEF Encodable, f

LEMMA FromCSS ==
  ASSUME NEW w \in SUBSET (0..31)
  PROVE  LET f == Fields(0, 0, Field(w, 2, 5), 0, Imm("CSS", w))
         IN  TypeCSS_from_riscv(w) = f /\ Encodable("CSS", f)
  <1> DEFINE m == Part(w, 12, 9, 2) \cup Part(w, 8, 7, 6)
             n == (Masked(w, 7, 2) \cup (Masked(w, 9, 4) \gg 6)) \gg 1
  <1>1. Imm("CSS", w) = m
    BY DEF Imm
  <1>2. \A b \in 0..31 : b \in n <=> b \in m
    BY DEF Part, Masked, \gg, Bits
  <1>3. n \in SUBSET (0..31) /\ m \in SUBSET (0..31)
    BY DEF Part, Masked, \gg, Bits
  <1>4. m \in SUBSET (2..7)
    BY DEF Part
  <1> HIDE DEF m, n
  <1>5. n = m
    BY <1>2, <1>3, SameBits
  <1> DEFINE f == Fields(0, 0, Field(w, 2, 5), 0, Imm("CSS", w))
  <1>6. TypeCSS_from_riscv(w) = f
    BY <1>1, <1>5 DEF TypeCSS_from_riscv, n
  <1>7. /\ Field(w, 2, 5) \in 0..31
    BY FieldRange
  <1>8. \E rs2 \in 0..31, imm \in SUBSET (2..7) :
          f = Fields(0, 0, rs2, 0, imm)
    BY <1>7, <1>1, <1>3, <1>4
  <1> HIDE DEF f
  <1> QED
    BY <1>6, <1>8 DEF Encodable, f

LEMMA FromCJ ==
  ASSUME NEW w \in SUBSET (0..31)
  PROVE  LET f == Fields(0, 0, 0, 0, Imm("CJ", w))
         IN  TypeCJ_from_riscv(w) = f /\ Encodable("CJ", f)
  <1> DEFINE m == Extended(Part(w, 12, 12, 11) \cup Part(w, 11, 11, 4) \cup Part(w, 10, 9, 8)
                    \cup Part(w, 8, 8, 10) \cup Part(w, 7, 7, 6) \cup Part(w, 6, 6, 7)
                    \cup Part(w, 5, 3, 1) \cup Part(w, 2, 2, 5), 11)
             n == Sar(AsSigned((Masked(w, 12, 1) \ll 3) \cup (Masked(w, 8, 1) \ll 6)
                    \cup (Masked(w, 9, 2) \ll 3) \cup (Masked(w, 6, 1) \ll 5)
                    \cup (Masked(w, 7, 1) \ll 3) \cup (Masked(w, 2, 1) \ll 7)
                    \cup (Masked(w, 11, 1) \gg 3) \cup (Masked(w, 3, 3) \ll 2), 16), 4)
  <1>1. Imm("CJ", w) = m
    BY DEF Imm
  <1>2. \A b \in 0..31 : b \in n <=> b \in m
    BY DEF Part, Extended, Masked, Sar, AsSigned, \ll, \gg, Bits
  <1>3. n \in SUBSET (0..31) /\ m \in SUBSET (0..31)
    BY DEF Part, Extended, Masked, Sar, AsSigned, \ll, \gg, Bits
  <1>4. Signed(m, 11, 1)
    BY DEF Signed, Part, Extended
  <1> HIDE DEF m, n
  <1>5. n = m
    BY <1>2, <1>3, SameBits
  <1> DEFINE f == Fields(0, 0, 0, 0, Imm("CJ", w))
  <1>6. TypeCJ_from_riscv(w) = f
    BY <1>1, <1>5 DEF TypeCJ_from_riscv, n
  <1>8. \E imm \in SUBSET (0..31) :
          f = Fields(0, 0, 0, 0, imm) /\ Signed(imm, 11, 1)
    BY <1>1, <1>3, <1>4
  <1> HIDE DEF f
  <1> QED
    BY <1>6, <1>8 DEF Encodable, f

-----------------------------------------------------------------------------
(* convert                                                                 *)

\* The instruction that a row of the manual's listings gives to a word.
MeaningOf(r, w) ==
  Meaning(r.op, r.func, Register(w, r.regs[1]), Register(w, r.regs[2]), Register(w, r.regs[3]),
          Imm(r.layout, w))

\* The instruction, of one of Embive's formats, that a word is converted to.
Becomes(w, op, f) == /\ ConvertInstruction(w) = EmbiveRaw(op, f)
                     /\ op \in OpNames
                     /\ Encodable(FormatOf(op), f)

\* The size of an instruction, by its two low bits.
Width(w) == IF {0, 1} \subseteq w THEN 4 ELSE 2

\* The conversion agrees with a row.
Agrees(w, r) == \E op, f : /\ Becomes(w, op, f)
                          /\ Size(FormatOf(op)) = Width(w)
                          /\ Executed(op, f) = MeaningOf(r, w)

(* The bits that a field is made of.                                       *)
LEMMA FieldBits ==
  ASSUME NEW w \in SUBSET (0..31)
  PROVE  /\ Field(w, 0, 7) \in 0..127
         /\ Field(w, 0, 7) % 4 = Bit(w, 0) + 2 * Bit(w, 1)
         /\ Field(w, 10, 2) \in 0..3 /\ Field(w, 5, 2) \in 0..3
         /\ Field(w, 10, 3) = Field(w, 10, 2) + 4 * Bit(w, 12)
         /\ Field(w, 12, 1) = Bit(w, 12)
  BY DEF Field, Number, Bit, Masked, \gg, Bits

(* Where the manual's rows find the registers.                             *)
LEMMA RegisterAt ==
  ASSUME NEW w \in SUBSET (0..31)
  PROVE  /\ Register(w, No) = 0
         /\ Register(w, RR) = Field(w, 7, 5) /\ Register(w, S1) = Field(w, 15, 5)
         /\ Register(w, S2) = Field(w, 20, 5) /\ Register(w, Q2) = Field(w, 2, 5)
         /\ Register(w, P1) = Field(w, 7, 3) + 8 /\ Register(w, P2) = Field(w, 2, 3) + 8
  BY FieldRange DEF Register, No, RR, S1, S2, Q2, P1, P2

(* An instruction without a function executes with the fields it has.      *)
LEMMA ExecutedPlain ==
  ASSUME NEW op \in OpNames \ {"Branch", "LoadStore", "OpAmo", "OpImm", "SystemMiscMem"},
         NEW rd, NEW rs1, NEW rs2, NEW imm
  PROVE  Executed(op, Fields(rd, rs1, rs2, 0, imm)) = Meaning(op, "", rd, rs1, rs2, imm)
  BY DEF Executed, Fields

LEMMA LuiRd ==
  ASSUME NEW w \in SUBSET (0..31)
  PROVE  TypeCI3_from_riscv(w).rd = Field(w, 7, 5)
  BY DEF TypeCI3_from_riscv, Fields

(* The 16-bit instructions, row by row.                                    *)
LEMMA HalfwordRows ==
  ASSUME NEW w \in SUBSET (0..31), NEW r \in Rows16,
         Field(w, 0, 7) % 4 # 3, r.opcode = Field(w, 0, 7) % 4,
         \A f \in r.is : Has(w, f), \A f \in r.isnt : ~Has(w, f)
  PROVE  Agrees(w, r)
  <1>0. Width(w) = 2
    BY FieldBits DEF Width, Bit
  <1>1. CASE r = Row("CAddi4spn", "", "CIW", 0, <<P2, No, No>>, {C3(0)}, {<<5, 8, 0>>})
    <2>1. /\ Field(w, 0, 7) % 4 = 0 /\ Field(w, 13, 3) = 0
          /\ Field(w, 5, 8) # 0
      BY <1>1 DEF Row, C3, Has
    <2>2. ConvertInstruction(w) = EmbiveRaw("CAddi4spn", TypeCIW_from_riscv(w))
      BY <2>1 DEF ConvertInstruction, C0
    <2>3. MeaningOf(r, w) = Meaning("CAddi4spn", "", Field(w, 2, 3) + 8, 0, 0, Imm("CIW", w))
      BY <1>1, RegisterAt DEF MeaningOf, Row
    <2>4. /\ "CAddi4spn" \in OpNames /\ FormatOf("CAddi4spn") = "CIW"
          /\ Size(FormatOf("CAddi4spn")) = 2
      BY FormatsOf DEF OpNames, Size
    <2>5. Executed("CAddi4spn", Fields(Field(w, 2, 3) + 8, 0, 0, 0, Imm("CIW", w)))
            = MeaningOf(r, w)
      BY <2>3, <2>4, ExecutedPlain
    <2> QED
      BY <1>0, <2>2, <2>4, <2>5, FromCIW DEF Agrees, Becomes
  <1>2. CASE r = Row("CAddi4spn", "", "CIW", 0, <<P2, No, No>>,
                      {C3(0), <<5, 8, 0>>, <<2, 3, 0>>}, {})
    <2>1. /\ Field(w, 0, 7) % 4 = 0 /\ Field(w, 13, 3) = 0
          /\ Field(w, 5, 8) = 0
          /\ Field(w, 2, 3) = 0
      BY <1>2 DEF Row, C3, Has
    <2>2. ConvertInstruction(w) = EmbiveRaw("CAddi4spn", TypeCIW_from_riscv(w))
      BY <2>1 DEF ConvertInstruction, C0
    <2>3. MeaningOf(r, w) = Meaning("CAddi4spn", "", Field(w, 2, 3) + 8, 0, 0, Imm("CIW", w))
      BY <1>2, RegisterAt DEF MeaningOf, Row
    <2>4. /\ "CAddi4spn" \in OpNames /\ FormatOf("CAddi4spn") = "CIW"
          /\ Size(FormatOf("CAddi4spn")) = 2
      BY FormatsOf DEF OpNames, Size
    <2>5. Executed("CAddi4spn", Fields(Field(w, 2, 3) + 8, 0, 0, 0, Imm("CIW", w)))
            = MeaningOf(r, w)
      BY <2>3, <2>4, ExecutedPlain
    <2> QED
      BY <1>0, <2>2, <2>4, <2>5, FromCIW DEF Agrees, Becomes
  <1>3. CASE r = Row("CLw", "", "CL", 0, <<P2, P1, No>>, {C3(2)}, {})
    <2>1. /\ Field(w, 0, 7) % 4 = 0 /\ Field(w, 13, 3) = 2
      BY <1>3 DEF Row, C3, Has
    <2>2. ConvertInstruction(w) = EmbiveRaw("CLw", TypeCL_from_riscv(w))
      BY <2>1 DEF ConvertInstruction, C0
    <2>3. MeaningOf(r, w) = Meaning("CLw", "", Field(w, 2, 3) + 8, Field(w, 7, 3) + 8, 0,
                                     Imm("CL", w))
      BY <1>3, RegisterAt DEF MeaningOf, Row
    <2>4. /\ "CLw" \in OpNames /\ FormatOf("CLw") = "CL"
          /\ Size(FormatOf("CLw")) = 2
      BY FormatsOf DEF OpNames, Size
    <2>5. Executed("CLw", Fields(Field(w, 2, 3) + 8, Field(w, 7, 3) + 8, 0, 0, Imm("CL", w)))
            = MeaningOf(r, w)
      BY <2>3, <2>4, ExecutedPlain
    <2> QED
      BY <1>0, <2>2, <2>4, <2>5, FromCL DEF Agrees, Becomes
  <1>4. CASE r = Row("CSw", "", "CL", 0, <<P2, P1, No>>, {C3(6)}, {})
    <2>1. /\ Field(w, 0, 7) % 4 = 0 /\ Field(w, 13, 3) = 6
      BY <1>4 DEF Row, C3, Has
    <2>2. ConvertInstruction(w) = EmbiveRaw("CSw", TypeCL_from_riscv(w))
      BY <2>1 DEF ConvertInstruction, C0
    <2>3. MeaningOf(r, w) = Meaning("CSw", "", Field(w, 2, 3) + 8, Field(w, 7, 3) + 8, 0,
                                     Imm("CL", w))
      BY <1>4, RegisterAt DEF MeaningOf, Row
    <2>4. /\ "CSw" \in OpNames /\ FormatOf("CSw") = "CL"
          /\ Size(FormatOf("CSw")) = 2
      BY FormatsOf DEF OpNames, Size
    <2>5. Executed("CSw", Fields(Field(w, 2, 3) + 8, Field(w, 7, 3) + 8, 0, 0, Imm("CL", w)))
            = MeaningOf(r, w)
      BY <2>3, <2>4, ExecutedPlain
    <2> QED
      BY <1>0, <2>2, <2>4, <2>5, FromCL DEF Agrees, Becomes
  <1>5. CASE r = Row("CAddi", "", "CI", 1, <<RR, No, No>>, {C3(0)}, {})
    <2>1. /\ Field(w, 0, 7) % 4 = 1 /\ Field(w, 13, 3) = 0
      BY <1>5 DEF Row, C3, Has
    <2>2. ConvertInstruction(w) = EmbiveRaw("CAddi", TypeCI1_from_riscv(w))
      BY <2>1 DEF ConvertInstruction, C1
    <2>3. MeaningOf(r, w) = Meaning("CAddi", "", Field(w, 7, 5), 0, 0, Imm("CI", w))
      BY <1>5, RegisterAt DEF MeaningOf, Row
    <2>4. /\ "CAddi" \in OpNames /\ FormatOf("CAddi") = "CI1"
          /\ Size(FormatOf("CAddi")) = 2
      BY FormatsOf DEF OpNames, Size
    <2>5. Executed("CAddi", Fields(Field(w, 7, 5), 0, 0, 0, Imm("CI", w))) = MeaningOf(r, w)
      BY <2>3, <2>4, ExecutedPlain
    <2> QED
      BY <1>0, <2>2, <2>4, <2>5, FromCI1 DEF Agrees, Becomes
  <1>6. CASE r = Row("CJal", "", "CJ", 1, <<No, No, No>>, {C3(1)}, {})
    <2>1. /\ Field(w, 0, 7) % 4 = 1 /\ Field(w, 13, 3) = 1
      BY <1>6 DEF Row, C3, Has
    <2>2. ConvertInstruction(w) = EmbiveRaw("CJal", TypeCJ_from_riscv(w))
      BY <2>1 DEF ConvertInstruction, C1
    <2>3. MeaningOf(r, w) = Meaning("CJal", "", 0, 0, 0, Imm("CJ", w))
      BY <1>6, RegisterAt DEF MeaningOf, Row
    <2>4. /\ "CJal" \in OpNames /\ FormatOf("CJal") = "CJ"
          /\ Size(FormatOf("CJal")) = 2
      BY FormatsOf DEF OpNames, Size
    <2>5. Executed("CJal", Fields(0, 0, 0, 0, Imm("CJ", w))) = MeaningOf(r, w)
      BY <2>3 DEF Executed, Fields
    <2> QED
      BY <1>0, <2>2, <2>4, <2>5, FromCJ DEF Agrees, Becomes
  <1>7. CASE r = Row("CLi", "", "CI", 1, <<RR, No, No>>, {C3(2)}, {})
    <2>1. /\ Field(w, 0, 7) % 4 = 1 /\ Field(w, 13, 3) = 2
      BY <1>7 DEF Row, C3, Has
    <2>2. ConvertInstruction(w) = EmbiveRaw("CLi", TypeCI1_from_riscv(w))
      BY <2>1 DEF ConvertInstruction, C1
    <2>3. MeaningOf(r, w) = Meaning("CLi", "", Field(w, 7, 5), 0, 0, Imm("CI", w))
      BY <1>7, RegisterAt DEF MeaningOf, Row
    <2>4. /\ "CLi" \in OpNames /\ FormatOf("CLi") = "CI1"
          /\ Size(FormatOf("CLi")) = 2
      BY FormatsOf DEF OpNames, Size
    <2>5. Executed("CLi", Fields(Field(w, 7, 5), 0, 0, 0, Imm("CI", w))) = MeaningOf(r, w)
      BY <2>3, <2>4, ExecutedPlain
    <2> QED
      BY <1>0, <2>2, <2>4, <2>5, FromCI1 DEF Agrees, Becomes
  <1>8. CASE r = Row("CAddi16sp", "", "addi16sp", 1, <<RR, No, No>>, {C3(3), <<7, 5, 2>>}, {})
    <2>1. /\ Field(w, 0, 7) % 4 = 1 /\ Field(w, 13, 3) = 3
          /\ Field(w, 7, 5) = 2
      BY <1>8 DEF Row, C3, Has
    <2>2. ConvertInstruction(w) = EmbiveRaw("CAddi16sp", TypeCI2_from_riscv(w))
      BY <2>1, LuiRd DEF ConvertInstruction, C1
    <2>3. MeaningOf(r, w) = Meaning("CAddi16sp", "", Field(w, 7, 5), 0, 0, Imm("addi16sp", w))
      BY <1>8, RegisterAt DEF MeaningOf, Row
    <2>4. /\ "CAddi16sp" \in OpNames /\ FormatOf("CAddi16sp") = "CI2"
          /\ Size(FormatOf("CAddi16sp")) = 2
      BY FormatsOf DEF OpNames, Size
    <2>5. Executed("CAddi16sp", Fields(Field(w, 7, 5), 0, 0, 0, Imm("addi16sp", w)))
            = MeaningOf(r, w)
      BY <2>3, <2>4, ExecutedPlain
    <2> QED
      BY <1>0, <2>2, <2>4, <2>5, FromCI2 DEF Agrees, Becomes
  <1>9. CASE r = Row("CLui", "", "lui", 1, <<RR, No, No>>, {C3(3)}, {<<7, 5, 2>>})
    <2>1. /\ Field(w, 0, 7) % 4 = 1 /\ Field(w, 13, 3) = 3
          /\ Field(w, 7, 5) # 2
      BY <1>9 DEF Row, C3, Has
    <2>2. ConvertInstruction(w) = EmbiveRaw("CLui", TypeCI3_from_riscv(w))
      BY <2>1, LuiRd DEF ConvertInstruction, C1
    <2>3. MeaningOf(r, w) = Meaning("CLui", "", Field(w, 7, 5), 0, 0, Imm("lui", w))
      BY <1>9, RegisterAt DEF MeaningOf, Row
    <2>4. /\ "CLui" \in OpNames /\ FormatOf("CLui") = "CI3"
          /\ Size(FormatOf("CLui")) = 2
      BY FormatsOf DEF OpNames, Size
    <2>5. Executed("CLui", Fields(Field(w, 7, 5), 0, 0, 0, Imm("lui", w))) = MeaningOf(r, w)
      BY <2>3, <2>4, ExecutedPlain
    <2> QED
      BY <1>0, <2>2, <2>4, <2>5, FromCI3 DEF Agrees, Becomes
  <1>10. CASE r = Row("CSrli", "", "shift", 1, <<P1, No, No>>, {C3(4), <<10, 3, 0>>}, {})
    <2>1. /\ Field(w, 0, 7) % 4 = 1 /\ Field(w, 13, 3) = 4
          /\ Field(w, 10, 3) = 0
      BY <1>10 DEF Row, C3, Has
    <2>2. ConvertInstruction(w) = EmbiveRaw("CSrli", TypeCB1_from_riscv(w))
      BY <2>1, FieldBits DEF ConvertInstruction, C1, C1Arithmetic, Bit
    <2>3. MeaningOf(r, w) = Meaning("CSrli", "", Field(w, 7, 3) + 8, 0, 0, Imm("shift", w))
      BY <1>10, RegisterAt DEF MeaningOf, Row
    <2>4. /\ "CSrli" \in OpNames /\ FormatOf("CSrli") = "CB1"
          /\ Size(FormatOf("CSrli")) = 2
      BY FormatsOf DEF OpNames, Size
    <2>5. Executed("CSrli", Fields(Field(w, 7, 3) + 8, 0, 0, 0, Imm("shift", w)))
            = MeaningOf(r, w)
      BY <2>3, <2>4, ExecutedPlain
    <2> QED
      BY <1>0, <2>2, <2>4, <2>5, FromCB1 DEF Agrees, Becomes
  <1>11. CASE r = Row("CSrai", "", "shift", 1, <<P1, No, No>>, {C3(4), <<10, 3, 1>>}, {})
    <2>1. /\ Field(w, 0, 7) % 4 = 1 /\ Field(w, 13, 3) = 4
          /\ Field(w, 10, 3) = 1
      BY <1>11 DEF Row, C3, Has
    <2>2. ConvertInstruction(w) = EmbiveRaw("CSrai", TypeCB1_from_riscv(w))
      BY <2>1, FieldBits DEF ConvertInstruction, C1, C1Arithmetic, Bit
    <2>3. MeaningOf(r, w) = Meaning("CSrai", "", Field(w, 7, 3) + 8, 0, 0, Imm("shift", w))
      BY <1>11, RegisterAt DEF MeaningOf, Row
    <2>4. /\ "CSrai" \in OpNames /\ FormatOf("CSrai") = "CB1"
          /\ Size(FormatOf("CSrai")) = 2
      BY FormatsOf DEF OpNames, Size
    <2>5. Executed("CSrai", Fields(Field(w, 7, 3) + 8, 0, 0, 0, Imm("shift", w)))
            = MeaningOf(r, w)
      BY <2>3, <2>4, ExecutedPlain
    <2> QED
      BY <1>0, <2>2, <2>4, <2>5, FromCB1 DEF Agrees, Becomes
  <1>12. CASE r = Row("CAndi", "", "CI", 1, <<P1, No, No>>, {C3(4), <<10, 2, 2>>}, {})
    <2>1. /\ Field(w, 0, 7) % 4 = 1 /\ Field(w, 13, 3) = 4
          /\ Field(w, 10, 2) = 2
      BY <1>12 DEF Row, C3, Has
    <2>2. ConvertInstruction(w) = EmbiveRaw("CAndi", TypeCB2_from_riscv(w))
      BY <2>1, FieldBits DEF ConvertInstruction, C1, C1Arithmetic, Bit
    <2>3. MeaningOf(r, w) = Meaning("CAndi", "", Field(w, 7, 3) + 8, 0, 0, Imm("CI", w))
      BY <1>12, RegisterAt DEF MeaningOf, Row
    <2>4. /\ "CAndi" \in OpNames /\ FormatOf("CAndi") = "CB2"
          /\ Size(FormatOf("CAndi")) = 2
      BY FormatsOf DEF OpNames, Size
    <2>5. Executed("CAndi", Fields(Field(w, 7, 3) + 8, 0, 0, 0, Imm("CI", w))) = MeaningOf(r, w)
      BY <2>3, <2>4, ExecutedPlain
    <2> QED
      BY <1>0, <2>2, <2>4, <2>5, FromCB2 DEF Agrees, Becomes
  <1>13. CASE r = Row("CSub", "", "none", 1, <<P1, No, P2>>,
                      {C3(4), <<10, 3, 3>>, <<5, 2, 0>>}, {})
    <2>1. /\ Field(w, 0, 7) % 4 = 1 /\ Field(w, 13, 3) = 4
          /\ Field(w, 10, 3) = 3
          /\ Field(w, 5, 2) = 0
      BY <1>13 DEF Row, C3, Has
    <2>2. ConvertInstruction(w) = EmbiveRaw("CSub", TypeCS_from_riscv(w))
      BY <2>1, FieldBits DEF ConvertInstruction, C1, C1Arithmetic, Bit
    <2>3. MeaningOf(r, w) = Meaning("CSub", "", Field(w, 7, 3) + 8, 0, Field(w, 2, 3) + 8, {})
      BY <1>13, RegisterAt DEF MeaningOf, Row, Imm
    <2>4. /\ "CSub" \in OpNames /\ FormatOf("CSub") = "CS"
          /\ Size(FormatOf("CSub")) = 2
      BY FormatsOf DEF OpNames, Size
    <2>5. Executed("CSub", Fields(Field(w, 7, 3) + 8, 0, Field(w, 2, 3) + 8, 0, {}))
            = MeaningOf(r, w)
      BY <2>3 DEF Executed, Fields
    <2> QED
      BY <1>0, <2>2, <2>4, <2>5, FromCS DEF Agrees, Becomes
  <1>14. CASE r = Row("CXor", "", "none", 1, <<P1, No, P2>>,
                      {C3(4), <<10, 3, 3>>, <<5, 2, 1>>}, {})
    <2>1. /\ Field(w, 0, 7) % 4 = 1 /\ Field(w, 13, 3) = 4
          /\ Field(w, 10, 3) = 3
          /\ Field(w, 5, 2) = 1
      BY <1>14 DEF Row, C3, Has
    <2>2. ConvertInstruction(w) = EmbiveRaw("CXor", TypeCS_from_riscv(w))
      BY <2>1, FieldBits DEF ConvertInstruction, C1, C1Arithmetic, Bit
    <2>3. MeaningOf(r, w) = Meaning("CXor", "", Field(w, 7, 3) + 8, 0, Field(w, 2, 3) + 8, {})
      BY <1>14, RegisterAt DEF MeaningOf, Row, Imm
    <2>4. /\ "CXor" \in OpNames /\ FormatOf("CXor") = "CS"
          /\ Size(FormatOf("CXor")) = 2
      BY FormatsOf DEF OpNames, Size
    <2>5. Executed("CXor", Fields(Field(w, 7, 3) + 8, 0, Field(w, 2, 3) + 8, 0, {}))
            = MeaningOf(r, w)
      BY <2>3 DEF Executed, Fields
    <2> QED
      BY <1>0, <2>2, <2>4, <2>5, FromCS DEF Agrees, Becomes
  <1>15. CASE r = Row("COr", "", "none", 1, <<P1, No, P2>>,
                      {C3(4), <<10, 3, 3>>, <<5, 2, 2>>}, {})
    <2>1. /\ Field(w, 0, 7) % 4 = 1 /\ Field(w, 13, 3) = 4
          /\ Field(w, 10, 3) = 3
          /\ Field(w, 5, 2) = 2
      BY <1>15 DEF Row, C3, Has
    <2>2. ConvertInstruction(w) = EmbiveRaw("COr", TypeCS_from_riscv(w))
      BY <2>1, FieldBits DEF ConvertInstruction, C1, C1Arithmetic, Bit
    <2>3. MeaningOf(r, w) = Meaning("COr", "", Field(w, 7, 3) + 8, 0, Field(w, 2, 3) + 8, {})
      BY <1>15, RegisterAt DEF MeaningOf, Row, Imm
    <2>4. /\ "COr" \in OpNames /\ FormatOf("COr") = "CS"
          /\ Size(FormatOf("COr")) = 2
      BY FormatsOf DEF OpNames, Size
    <2>5. Executed("COr", Fields(Field(w, 7, 3) + 8, 0, Field(w, 2, 3) + 8, 0, {}))
            = MeaningOf(r, w)
      BY <2>3 DEF Executed, Fields
    <2> QED
      BY <1>0, <2>2, <2>4, <2>5, FromCS DEF Agrees, Becomes
  <1>16. CASE r = Row("CAnd", "", "none", 1, <<P1, No, P2>>,
                      {C3(4), <<10, 3, 3>>, <<5, 2, 3>>}, {})
    <2>1. /\ Field(w, 0, 7) % 4 = 1 /\ Field(w, 13, 3) = 4
          /\ Field(w, 10, 3) = 3
          /\ Field(w, 5, 2) = 3
      BY <1>16 DEF Row, C3, Has
    <2>2. ConvertInstruction(w) = EmbiveRaw("CAnd", TypeCS_from_riscv(w))
      BY <2>1, FieldBits DEF ConvertInstruction, C1, C1Arithmetic, Bit
    <2>3. MeaningOf(r, w) = Meaning("CAnd", "", Field(w, 7, 3) + 8, 0, Field(w, 2, 3) + 8, {})
      BY <1>16, RegisterAt DEF MeaningOf, Row, Imm
    <2>4. /\ "CAnd" \in OpNames /\ FormatOf("CAnd") = "CS"
          /\ Size(FormatOf("CAnd")) = 2
      BY FormatsOf DEF OpNames, Size
    <2>5. Executed("CAnd", Fields(Field(w, 7, 3) + 8, 0, Field(w, 2, 3) + 8, 0, {}))
            = MeaningOf(r, w)
      BY <2>3 DEF Executed, Fields
    <2> QED
      BY <1>0, <2>2, <2>4, <2>5, FromCS DEF Agrees, Becomes
  <1>17. CASE r = Row("CJ", "", "CJ", 1, <<No, No, No>>, {C3(5)}, {})
    <2>1. /\ Field(w, 0, 7) % 4 = 1 /\ Field(w, 13, 3) = 5
      BY <1>17 DEF Row, C3, Has
    <2>2. ConvertInstruction(w) = EmbiveRaw("CJ", TypeCJ_from_riscv(w))
      BY <2>1 DEF ConvertInstruction, C1
    <2>3. MeaningOf(r, w) = Meaning("CJ", "", 0, 0, 0, Imm("CJ", w))
      BY <1>17, RegisterAt DEF MeaningOf, Row
    <2>4. /\ "CJ" \in OpNames /\ FormatOf("CJ") = "CJ"
          /\ Size(FormatOf("CJ")) = 2
      BY FormatsOf DEF OpNames, Size
    <2>5. Executed("CJ", Fields(0, 0, 0, 0, Imm("CJ", w))) = MeaningOf(r, w)
      BY <2>3 DEF Executed, Fields
    <2> QED
      BY <1>0, <2>2, <2>4, <2>5, FromCJ DEF Agrees, Becomes
  <1>18. CASE r = Row("CBeqz", "", "CB", 1, <<No, P1, No>>, {C3(6)}, {})
    <2>1. /\ Field(w, 0, 7) % 4 = 1 /\ Field(w, 13, 3) = 6
      BY <1>18 DEF Row, C3, Has
    <2>2. ConvertInstruction(w) = EmbiveRaw("CBeqz", TypeCB4_from_riscv(w))
      BY <2>1 DEF ConvertInstruction, C1
    <2>3. MeaningOf(r, w) = Meaning("CBeqz", "", 0, Field(w, 7, 3) + 8, 0, Imm("CB", w))
      BY <1>18, RegisterAt DEF MeaningOf, Row
    <2>4. /\ "CBeqz" \in OpNames /\ FormatOf("CBeqz") = "CB4"
          /\ Size(FormatOf("CBeqz")) = 2
      BY FormatsOf DEF OpNames, Size
    <2>5. Executed("CBeqz", Fields(0, Field(w, 7, 3) + 8, 0, 0, Imm("CB", w))) = MeaningOf(r, w)
      BY <2>3, <2>4, ExecutedPlain
    <2> QED
      BY <1>0, <2>2, <2>4, <2>5, FromCB4 DEF Agrees, Becomes
  <1>19. CASE r = Row("CBnez", "", "CB", 1, <<No, P1, No>>, {C3(7)}, {})
    <2>1. /\ Field(w, 0, 7) % 4 = 1 /\ Field(w, 13, 3) = 7
      BY <1>19 DEF Row, C3, Has
    <2>2. ConvertInstruction(w) = EmbiveRaw("CBnez", TypeCB4_from_riscv(w))
      BY <2>1 DEF ConvertInstruction, C1
    <2>3. MeaningOf(r, w) = Meaning("CBnez", "", 0, Field(w, 7, 3) + 8, 0, Imm("CB", w))
      BY <1>19, RegisterAt DEF MeaningOf, Row
    <2>4. /\ "CBnez" \in OpNames /\ FormatOf("CBnez") = "CB4"
          /\ Size(FormatOf("CBnez")) = 2
      BY FormatsOf DEF OpNames, Size
    <2>5. Executed("CBnez", Fields(0, Field(w, 7, 3) + 8, 0, 0, Imm("CB", w))) = MeaningOf(r, w)
      BY <2>3, <2>4, ExecutedPlain
    <2> QED
      BY <1>0, <2>2, <2>4, <2>5, FromCB4 DEF Agrees, Becomes
  <1>20. CASE r = Row("CSlli", "", "shift", 2, <<RR, No, No>>, {C3(0), <<12, 1, 0>>}, {})
    <2>1. /\ Field(w, 0, 7) % 4 = 2 /\ Field(w, 13, 3) = 0
          /\ Field(w, 12, 1) = 0
      BY <1>20 DEF Row, C3, Has
    <2>2. ConvertInstruction(w) = EmbiveRaw("CSlli", TypeCI4_from_riscv(w))
      BY <2>1, FieldBits DEF ConvertInstruction, C2, Bit
    <2>3. MeaningOf(r, w) = Meaning("CSlli", "", Field(w, 7, 5), 0, 0, Imm("shift", w))
      BY <1>20, RegisterAt DEF MeaningOf, Row
    <2>4. /\ "CSlli" \in OpNames /\ FormatOf("CSlli") = "CI4"
          /\ Size(FormatOf("CSlli")) = 2
      BY FormatsOf DEF OpNames, Size
    <2>5. Executed("CSlli", Fields(Field(w, 7, 5), 0, 0, 0, Imm("shift", w))) = MeaningOf(r, w)
      BY <2>3, <2>4, ExecutedPlain
    <2> QED
      BY <1>0, <2>2, <2>4, <2>5, FromCI4 DEF Agrees, Becomes
  <1>21. CASE r = Row("CLwsp", "", "lwsp", 2, <<RR, No, No>>, {C3(2)}, {<<7, 5, 0>>})
    <2>1. /\ Field(w, 0, 7) % 4 = 2 /\ Field(w, 13, 3) = 2
          /\ Field(w, 7, 5) # 0
      BY <1>21 DEF Row, C3, Has
    <2>2. ConvertInstruction(w) = EmbiveRaw("CLwsp", TypeCI5_from_riscv(w))
      BY <2>1, FieldBits DEF ConvertInstruction, C2, Bit
    <2>3. MeaningOf(r, w) = Meaning("CLwsp", "", Field(w, 7, 5), 0, 0, Imm("lwsp", w))
      BY <1>21, RegisterAt DEF MeaningOf, Row
    <2>4. /\ "CLwsp" \in OpNames /\ FormatOf("CLwsp") = "CI5"
          /\ Size(FormatOf("CLwsp")) = 2
      BY FormatsOf DEF OpNames, Size
    <2>5. Executed("CLwsp", Fields(Field(w, 7, 5), 0, 0, 0, Imm("lwsp", w))) = MeaningOf(r, w)
      BY <2>3, <2>4, ExecutedPlain
    <2> QED
      BY <1>0, <2>2, <2>4, <2>5, FromCI5 DEF Agrees, Becomes
  <1>22. CASE r = Row("CJrMv", "", "none", 2, <<RR, No, Q2>>, {C3(4), <<12, 1, 0>>},
                      {<<2, 10, 0>>})
    <2>1. /\ Field(w, 0, 7) % 4 = 2 /\ Field(w, 13, 3) = 4
          /\ Field(w, 12, 1) = 0
          /\ Field(w, 2, 10) # 0
      BY <1>22 DEF Row, C3, Has
    <2>2. ConvertInstruction(w) = EmbiveRaw("CJrMv", TypeCR_from_riscv(w))
      BY <2>1, FieldBits DEF ConvertInstruction, C2, Bit
    <2>3. MeaningOf(r, w) = Meaning("CJrMv", "", Field(w, 7, 5), 0, Field(w, 2, 5), {})
      BY <1>22, RegisterAt DEF MeaningOf, Row, Imm
    <2>4. /\ "CJrMv" \in OpNames /\ FormatOf("CJrMv") = "CR"
          /\ Size(FormatOf("CJrMv")) = 2
      BY FormatsOf DEF OpNames, Size
    <2>5. Executed("CJrMv", Fields(Field(w, 7, 5), 0, Field(w, 2, 5), 0, {})) = MeaningOf(r, w)
      BY <2>3 DEF Executed, Fields
    <2> QED
      BY <1>0, <2>2, <2>4, <2>5, FromCR DEF Agrees, Becomes
  <1>23. CASE r = Row("CEbreakJalrAdd", "", "none", 2, <<RR, No, Q2>>, {C3(4), <<12, 1, 1>>}, {})
    <2>1. /\ Field(w, 0, 7) % 4 = 2 /\ Field(w, 13, 3) = 4
          /\ Field(w, 12, 1) = 1
      BY <1>23 DEF Row, C3, Has
    <2>2. ConvertInstruction(w) = EmbiveRaw("CEbreakJalrAdd", TypeCR_from_riscv(w))
      BY <2>1, FieldBits DEF ConvertInstruction, C2, Bit
    <2>3. MeaningOf(r, w) = Meaning("CEbreakJalrAdd", "", Field(w, 7, 5), 0, Field(w, 2, 5), {})
      BY <1>23, RegisterAt DEF MeaningOf, Row, Imm
    <2>4. /\ "CEbreakJalrAdd" \in OpNames /\ FormatOf("CEbreakJalrAdd") = "CR"
          /\ Size(FormatOf("CEbreakJalrAdd")) = 2
      BY FormatsOf DEF OpNames, Size
    <2>5. Executed("CEbreakJalrAdd", Fields(Field(w, 7, 5), 0, Field(w, 2, 5), 0, {}))
            = MeaningOf(r, w)
      BY <2>3 DEF Executed, Fields
    <2> QED
      BY <1>0, <2>2, <2>4, <2>5, FromCR DEF Agrees, Becomes
  <1>24. CASE r = Row("CSwsp", "", "CSS", 2, <<No, No, Q2>>, {C3(6)}, {})
    <2>1. /\ Field(w, 0, 7) % 4 = 2 /\ Field(w, 13, 3) = 6
      BY <1>24 DEF Row, C3, Has
    <2>2. ConvertInstruction(w) = EmbiveRaw("CSwsp", TypeCSS_from_riscv(w))
      BY <2>1, FieldBits DEF ConvertInstruction, C2, Bit
    <2>3. MeaningOf(r, w) = Meaning("CSwsp", "", 0, 0, Field(w, 2, 5), Imm("CSS", w))
      BY <1>24, RegisterAt DEF MeaningOf, Row
    <2>4. /\ "CSwsp" \in OpNames /\ FormatOf("CSwsp") = "CSS"
          /\ Size(FormatOf("CSwsp")) = 2
      BY FormatsOf DEF OpNames, Size
    <2>5. Executed("CSwsp", Fields(0, 0, Field(w, 2, 5), 0, Imm("CSS", w))) = MeaningOf(r, w)
      BY <2>3, <2>4, ExecutedPlain
    <2> QED
      BY <1>0, <2>2, <2>4, <2>5, FromCSS DEF Agrees, Becomes
  <1> QED
    BY <1>1, <1>2, <1>3, <1>4, <1>5, <1>6, <1>7, <1>8, <1>9, <1>10, <1>11, <1>12, <1>13,
       <1>14, <1>15, <1>16, <1>17, <1>18, <1>19, <1>20, <1>21, <1>22, <1>23, <1>24 DEF
       Rows16

(* The 32-bit instructions                                                 *)

\* A table of names, each with one number.
IsTable(T, n) == n \in Nat /\ DOMAIN T = 1..n /\ \A i, j \in 1..n : T[i] = T[j] => i = j

(* The *_FUNC and *_IMM constants are different numbers.                   *)
LEMMA Tables ==
  /\ IsTable(BRANCH_FUNC, 6) /\ IsTable(LOAD_STORE_FUNC, 8) /\ IsTable(OP_IMM_FUNC, 8)
  /\ IsTable(OP_AMO_FUNC, 29) /\ IsTable(SYSTEM_FUNC, 7) /\ IsTable(SYSTEM_IMM, 5)
  <1>1. IsTable(BRANCH_FUNC, 6)
    BY DEF IsTable, BRANCH_FUNC
  <1>2. IsTable(LOAD_STORE_FUNC, 8)
    BY DEF IsTable, LOAD_STORE_FUNC
  <1>3. IsTable(OP_IMM_FUNC, 8)
    BY DEF IsTable, OP_IMM_FUNC
  <1>4. IsTable(OP_AMO_FUNC, 29)
    BY DEF IsTable, OP_AMO_FUNC
  <1>5. IsTable(SYSTEM_FUNC, 7)
    BY DEF IsTable, SYSTEM_FUNC
  <1>6. IsTable(SYSTEM_IMM, 5)
    BY DEF IsTable, SYSTEM_IMM
  <1> QED
    BY <1>1, <1>2, <1>3, <1>4, <1>5, <1>6

(* A name is read back from its number.                                    *)
LEMMA NumberNamed ==
  ASSUME NEW n, NEW T, IsTable(T, n), NEW j \in 1..n
  PROVE  NumberIn(T, T[j]) = j - 1 /\ Named(T, j - 1) = T[j]
  <1>1. PICK k : k = CHOOSE i \in DOMAIN T : T[i] = T[j]
    OBVIOUS
  <1>2. k \in DOMAIN T /\ T[k] = T[j]
    BY <1>1 DEF IsTable
  <1>3. k = j
    BY <1>2 DEF IsTable
  <1>4. NumberIn(T, T[j]) = j - 1
    BY <1>1, <1>3 DEF NumberIn
  <1>5. Named(T, j - 1) = T[j]
    BY DEF Named, IsTable
  <1> QED
    BY <1>4, <1>5

\* The arms of a match on a function code, each with a name of the table T.
Distinct(arms) == \A a, b \in arms : a[1] = b[1] => a[2] = b[2]
IsArms(arms, T, n) == /\ Distinct(arms)
                      /\ \A a \in arms : \E j \in 1..n : T[j] = a[2]

HasArm(arms, code, name) == \E a \in arms : a[1] = code /\ a[2] = name

(* The arms of each conversion have different codes and known functions.   *)
LEMMA ArmsOf ==
  /\ IsArms(LoadArms, LOAD_STORE_FUNC, 8) /\ IsArms(StoreArms, LOAD_STORE_FUNC, 8)
  /\ IsArms(BranchArms, BRANCH_FUNC, 6) /\ IsArms(OpImmArms, OP_IMM_FUNC, 8)
  /\ IsArms(OpArms, OP_AMO_FUNC, 29) /\ IsArms(AmoArms, OP_AMO_FUNC, 29)
  /\ IsArms(CsrArms, SYSTEM_FUNC, 7)
  <1>1. IsArms(LoadArms, LOAD_STORE_FUNC, 8)
    BY DEF IsArms, Distinct, LoadArms, LOAD_STORE_FUNC
  <1>2. IsArms(StoreArms, LOAD_STORE_FUNC, 8)
    BY DEF IsArms, Distinct, StoreArms, LOAD_STORE_FUNC
  <1>3. IsArms(BranchArms, BRANCH_FUNC, 6)
    BY DEF IsArms, Distinct, BranchArms, BRANCH_FUNC
  <1>4. IsArms(OpImmArms, OP_IMM_FUNC, 8)
    BY DEF IsArms, Distinct, OpImmArms
  <1>5. IsArms(OpArms, OP_AMO_FUNC, 29)
    <2>1. Distinct(OpArms)
      BY DEF Distinct, OpArms, Funct10, SUB_SRA_FUNCT7, M_EXT_FUNCT7
    <2>2. \A a \in OpArms : \E j \in 1..29 : OP_AMO_FUNC[j] = a[2]
      BY DEF OpArms, OP_AMO_FUNC
    <2> QED
      BY <2>1, <2>2 DEF IsArms
  <1>6. IsArms(AmoArms, OP_AMO_FUNC, 29)
    <2>1. Distinct(AmoArms)
      BY DEF Distinct, AmoArms
    <2>2. \A a \in AmoArms : \E j \in 1..29 : OP_AMO_FUNC[j] = a[2]
      BY DEF AmoArms, OP_AMO_FUNC
    <2> QED
      BY <2>1, <2>2 DEF IsArms
  <1>7. IsArms(CsrArms, SYSTEM_FUNC, 7)
    BY DEF IsArms, Distinct, CsrArms, SYSTEM_FUNC
  <1> QED
    BY <1>1, <1>2, <1>3, <1>4, <1>5, <1>6, <1>7

(* A function code with an arm becomes the number of the arm's function.   *)
LEMMA ArmNumber ==
  ASSUME NEW n, NEW T, IsTable(T, n), NEW arms, IsArms(arms, T, n),
         NEW code, NEW name, HasArm(arms, code, name)
  PROVE  NumberIn(T, name) \in 0..(n - 1) /\ Named(T, NumberIn(T, name)) = name
  <1>1. PICK j \in 1..n : T[j] = name
    BY DEF IsArms, HasArm
  <1>2. NumberIn(T, name) = j - 1 /\ Named(T, j - 1) = name
    BY <1>1, NumberNamed
  <1> QED
    BY <1>2 DEF IsTable

LEMMA WithFuncIs ==
  ASSUME NEW w, NEW op, NEW rd, NEW rs1, NEW rs2, NEW imm,
         NEW arms, Distinct(arms), NEW code, NEW name, HasArm(arms, code, name)
  PROVE  WithFunc(w, op, Fields(rd, rs1, rs2, code, imm), arms)
           = EmbiveRaw(op, Fields(rd, rs1, rs2, NumberIn(FuncTable(op), name), imm))
  <1>1. PICK f : f = Fields(rd, rs1, rs2, code, imm)
    OBVIOUS
  <1>2. f.func = code /\ \A k : [f EXCEPT !.func = k] = Fields(rd, rs1, rs2, k, imm)
    BY <1>1 DEF Fields
  <1>3. PICK arm : arm = CHOOSE a \in arms : a[1] = code
    OBVIOUS
  <1>4. arm \in arms /\ arm[1] = code
    BY <1>3 DEF HasArm
  <1>5. arm[2] = name
    BY <1>4 DEF Distinct, HasArm
  <1>6. \E a \in arms : a[1] = f.func
    BY <1>2, <1>4
  <1>7. WithFunc(w, op, f, arms)
          = EmbiveRaw(op, [f EXCEPT !.func = NumberIn(FuncTable(op), name)])
    BY <1>2, <1>3, <1>5, <1>6 DEF WithFunc
  <1> QED
    BY <1>1, <1>2, <1>7

(* The function tables of the instructions.                                *)
LEMMA FuncTables ==
  /\ FuncTable("Branch") = BRANCH_FUNC /\ FuncTable("LoadStore") = LOAD_STORE_FUNC
  /\ FuncTable("OpImm") = OP_IMM_FUNC /\ FuncTable("OpAmo") = OP_AMO_FUNC
  /\ FuncTable("SystemMiscMem") = SYSTEM_FUNC
  BY DEF FuncTable

\* The match replaces code by the number of name, a function of op.
Renumbers(w, op, arms, n, code, name) ==
  \E k \in 0..(n - 1) :
    /\ Named(FuncTable(op), k) = name
    /\ \A rd, rs1, rs2, imm : WithFunc(w, op, Fields(rd, rs1, rs2, code, imm), arms)
                                = EmbiveRaw(op, Fields(rd, rs1, rs2, k, imm))

LEMMA ArmConverts ==
  ASSUME NEW w, NEW op, NEW n, NEW arms, IsTable(FuncTable(op), n), IsArms(arms, FuncTable(op), n),
         NEW code, NEW name, HasArm(arms, code, name)
  PROVE  Renumbers(w, op, arms, n, code, name)
  <1>1. PICK T : T = FuncTable(op) /\ IsTable(T, n) /\ IsArms(arms, T, n)
    OBVIOUS
  <1>2. NumberIn(T, name) \in 0..(n - 1) /\ Named(T, NumberIn(T, name)) = name
    BY <1>1, ArmNumber
  <1>3. Distinct(arms)
    BY <1>1 DEF IsArms
  <1>4. \A rd, rs1, rs2, imm :
          WithFunc(w, op, Fields(rd, rs1, rs2, code, imm), arms)
            = EmbiveRaw(op, Fields(rd, rs1, rs2, NumberIn(FuncTable(op), name), imm))
    BY <1>3, WithFuncIs
  <1> QED
    BY <1>1, <1>2, <1>4 DEF Renumbers

LEMMA ArmsConvert ==
  ASSUME NEW w, NEW code, NEW name
  PROVE  /\ HasArm(LoadArms, code, name) => Renumbers(w, "LoadStore", LoadArms, 8, code, name)
         /\ HasArm(StoreArms, code, name) => Renumbers(w, "LoadStore", StoreArms, 8, code, name)
         /\ HasArm(BranchArms, code, name) => Renumbers(w, "Branch", BranchArms, 6, code, name)
         /\ HasArm(OpImmArms, code, name) => Renumbers(w, "OpImm", OpImmArms, 8, code, name)
         /\ HasArm(OpArms, code, name) => Renumbers(w, "OpAmo", OpArms, 29, code, name)
         /\ HasArm(AmoArms, code, name) => Renumbers(w, "OpAmo", AmoArms, 29, code, name)
         /\ HasArm(CsrArms, code, name) => Renumbers(w, "SystemMiscMem", CsrArms, 7, code, name)
  BY FuncTables, Tables, ArmsOf, ArmConverts

(* The 32-bit instructions, their formats and sizes.                       *)
LEMMA WordOps ==
  /\ "Branch" \in OpNames /\ FormatOf("Branch") = "B"
  /\ \A op \in {"LoadStore", "OpImm", "SystemMiscMem", "Jalr"} : op \in OpNames /\ FormatOf(op) = "I"
  /\ "OpAmo" \in OpNames /\ FormatOf("OpAmo") = "R"
  /\ \A op \in {"Auipc", "Lui"} : op \in OpNames /\ FormatOf(op) = "U"
  /\ "Jal" \in OpNames /\ FormatOf("Jal") = "J"
  /\ \A fmt \in {"R", "I", "B", "U", "J"} : Size(fmt) = 4
  BY FormatsOf DEF OpNames, Size

LEMMA WordWidth ==
  ASSUME NEW w \in SUBSET (0..31), Field(w, 0, 7) % 4 = 3
  PROVE  Width(w) = 4
  BY FieldBits DEF Width, Bit

(* The fields an instruction with a function has after conversion.         *)
LEMMA EncodableI ==
  ASSUME NEW rd \in 0..31, NEW rs1 \in 0..31, NEW k \in 0..7, NEW imm \in SUBSET (0..31),
         Signed(imm, 11, 0)
  PROVE  Encodable("I", Fields(rd, rs1, 0, k, imm))
  <1>1. \E a, b \in 0..31, c \in 0..7, d \in SUBSET (0..31) :
          Fields(rd, rs1, 0, k, imm) = Fields(a, b, 0, c, d) /\ Signed(d, 11, 0)
    OBVIOUS
  <1>2. PICK f : f = Fields(rd, rs1, 0, k, imm)
    OBVIOUS
  <1> QED
    BY <1>1, <1>2 DEF Encodable

LEMMA EncodableB ==
  ASSUME NEW rs1 \in 0..31, NEW rs2 \in 0..31, NEW k \in 0..7, NEW imm \in SUBSET (0..31),
         Signed(imm, 12, 1)
  PROVE  Encodable("B", Fields(0, rs1, rs2, k, imm))
  <1>1. \E a, b \in 0..31, c \in 0..7, d \in SUBSET (0..31) :
          Fields(0, rs1, rs2, k, imm) = Fields(0, a, b, c, d) /\ Signed(d, 12, 1)
    OBVIOUS
  <1>2. PICK f : f = Fields(0, rs1, rs2, k, imm)
    OBVIOUS
  <1> QED
    BY <1>1, <1>2 DEF Encodable

LEMMA EncodableR ==
  ASSUME NEW rd \in 0..31, NEW rs1 \in 0..31, NEW rs2 \in 0..31, NEW k \in 0..31
  PROVE  Encodable("R", Fields(rd, rs1, rs2, k, {}))
  <1>1. \E a, b, c, d \in 0..31 : Fields(rd, rs1, rs2, k, {}) = Fields(a, b, c, d, {})
    OBVIOUS
  <1> QED
    BY <1>1 DEF Encodable

(* The immediates of the manual are of their formats.                      *)
LEMMA ImmSigned ==
  ASSUME NEW w \in SUBSET (0..31)
  PROVE  /\ Imm("I", w) \in SUBSET (0..31) /\ Signed(Imm("I", w), 11, 0)
         /\ Imm("S", w) \in SUBSET (0..31) /\ Signed(Imm("S", w), 11, 0)
         /\ Imm("B", w) \in SUBSET (0..31) /\ Signed(Imm("B", w), 12, 1)
  <1>1. Imm("I", w) = Extended(Part(w, 31, 20, 0), 11)
    BY DEF Imm
  <1>2. Imm("I", w) \in SUBSET (0..31) /\ Signed(Imm("I", w), 11, 0)
    BY <1>1 DEF Extended, Part, Signed
  <1>3. Imm("S", w) = Extended(Part(w, 31, 25, 5) \cup Part(w, 11, 7, 0), 11)
    BY DEF Imm
  <1>4. Imm("S", w) \in SUBSET (0..31) /\ Signed(Imm("S", w), 11, 0)
    BY <1>3 DEF Extended, Part, Signed
  <1>5. Imm("B", w) = Extended(Part(w, 31, 31, 12) \cup Part(w, 30, 25, 5) \cup Part(w, 11, 8, 1)
                                 \cup Part(w, 7, 7, 11), 12)
    BY DEF Imm
  <1>6. Imm("B", w) \in SUBSET (0..31) /\ Signed(Imm("B", w), 12, 1)
    BY <1>5 DEF Extended, Part, Signed
  <1> QED
    BY <1>2, <1>4, <1>6

(* Instructions whose function names the operation.                        *)
LEMMA ExecutedFunc ==
  ASSUME NEW op \in {"Branch", "LoadStore", "OpAmo"}, NEW rd, NEW rs1, NEW rs2, NEW k, NEW imm
  PROVE  Executed(op, Fields(rd, rs1, rs2, k, imm))
           = Meaning(op, Named(FuncTable(op), k), rd, rs1, rs2, imm)
  BY DEF Executed, Fields

(* The rows of each opcode.                                                *)
LEMMA LoadAgrees ==
  ASSUME NEW w \in SUBSET (0..31), NEW r \in LoadRows, r.opcode = Field(w, 0, 7),
         \A f \in r.is : Has(w, f)
  PROVE  Agrees(w, r)
  <1>1. PICK code, name :
          /\ HasArm(LoadArms, code, name)
          /\ r = Row("LoadStore", name, "I", 3, <<RR, S1, No>>, {} \cup {F3(code)}, {})
    <2>1. PICK a \in LoadArms :
            r = Row("LoadStore", a[2], "I", 3, <<RR, S1, No>>, {} \cup {F3(a[1])}, {})
      BY DEF LoadRows, ByF3, LoadArms
    <2> QED
      BY <2>1 DEF HasArm
  <1>2. Field(w, 0, 7) = 3 /\ Field(w, 12, 3) = code
    <2>1. r.opcode = 3 /\ r.is = {} \cup {F3(code)}
      BY <1>1 DEF Row
    <2>2. Has(w, F3(code))
      BY <2>1
    <2> QED
      BY <2>1, <2>2 DEF Has, F3
  <1>3. MeaningOf(r, w)
          = Meaning("LoadStore", name, Field(w, 7, 5), Field(w, 15, 5), 0, Imm("I", w))
    BY <1>1, RegisterAt DEF MeaningOf, Row
  <1>4. ConvertInstruction(w)
          = WithFunc(w, "LoadStore",
                     Fields(Field(w, 7, 5), Field(w, 15, 5), 0, code, Imm("I", w)), LoadArms)
    <2>1. ConvertInstruction(w) = Load(w)
      BY <1>2 DEF ConvertInstruction
    <2> QED
      BY <1>2, <2>1, FromI DEF Load
  <1>5. PICK k \in 0..(8 - 1) :
          /\ Named(FuncTable("LoadStore"), k) = name
          /\ \A rd, rs1, rs2, imm :
               WithFunc(w, "LoadStore", Fields(rd, rs1, rs2, code, imm), LoadArms)
                                      = EmbiveRaw("LoadStore", Fields(rd, rs1, rs2, k, imm))
    <2>1. Renumbers(w, "LoadStore", LoadArms, 8, code, name)
      BY <1>1, ArmsConvert
    <2> QED
      BY <2>1 DEF Renumbers
  <1>6. Executed("LoadStore", Fields(Field(w, 7, 5), Field(w, 15, 5), 0, k, Imm("I", w)))
          = MeaningOf(r, w)
    BY <1>3, <1>5, ExecutedFunc
  <1>7. Encodable("I", Fields(Field(w, 7, 5), Field(w, 15, 5), 0, k, Imm("I", w)))
    <2>1. Field(w, 7, 5) \in 0..31 /\ Field(w, 15, 5) \in 0..31 /\ k \in 0..7
      BY <1>5, FieldRange
    <2> QED
      BY <2>1, ImmSigned, EncodableI, Zenon
  <1>8. Width(w) = 4
    BY <1>2, WordWidth
  <1> QED
    BY <1>4, <1>5, <1>6, <1>7, <1>8, WordOps DEF Agrees, Becomes

LEMMA StoreAgrees ==
  ASSUME NEW w \in SUBSET (0..31), NEW r \in StoreRows, r.opcode = Field(w, 0, 7),
         \A f \in r.is : Has(w, f)
  PROVE  Agrees(w, r)
  <1>1. PICK code, name :
          /\ HasArm(StoreArms, code, name)
          /\ r = Row("LoadStore", name, "S", 35, <<S2, S1, No>>, {} \cup {F3(code)}, {})
    <2>1. PICK a \in StoreArms :
            r = Row("LoadStore", a[2], "S", 35, <<S2, S1, No>>, {} \cup {F3(a[1])}, {})
      BY DEF StoreRows, ByF3, StoreArms
    <2> QED
      BY <2>1 DEF HasArm
  <1>2. Field(w, 0, 7) = 35 /\ Field(w, 12, 3) = code
    <2>1. r.opcode = 35 /\ r.is = {} \cup {F3(code)}
      BY <1>1 DEF Row
    <2>2. Has(w, F3(code))
      BY <2>1
    <2> QED
      BY <2>1, <2>2 DEF Has, F3
  <1>3. MeaningOf(r, w)
          = Meaning("LoadStore", name, Field(w, 20, 5), Field(w, 15, 5), 0, Imm("S", w))
    BY <1>1, RegisterAt DEF MeaningOf, Row
  <1>4. ConvertInstruction(w)
          = WithFunc(w, "LoadStore",
                     Fields(Field(w, 20, 5), Field(w, 15, 5), 0, code, Imm("S", w)), StoreArms)
    <2>1. ConvertInstruction(w) = Store(w)
      BY <1>2 DEF ConvertInstruction
    <2> QED
      BY <1>2, <2>1, FromS DEF Store, Fields
  <1>5. PICK k \in 0..(8 - 1) :
          /\ Named(FuncTable("LoadStore"), k) = name
          /\ \A rd, rs1, rs2, imm :
               WithFunc(w, "LoadStore", Fields(rd, rs1, rs2, code, imm), StoreArms)
                                      = EmbiveRaw("LoadStore", Fields(rd, rs1, rs2, k, imm))
    <2>1. Renumbers(w, "LoadStore", StoreArms, 8, code, name)
      BY <1>1, ArmsConvert
    <2> QED
      BY <2>1 DEF Renumbers
  <1>6. Executed("LoadStore", Fields(Field(w, 20, 5), Field(w, 15, 5), 0, k, Imm("S", w)))
          = MeaningOf(r, w)
    BY <1>3, <1>5, ExecutedFunc
  <1>7. Encodable("I", Fields(Field(w, 20, 5), Field(w, 15, 5), 0, k, Imm("S", w)))
    <2>1. Field(w, 20, 5) \in 0..31 /\ Field(w, 15, 5) \in 0..31 /\ k \in 0..7
      BY <1>5, FieldRange
    <2> QED
      BY <2>1, ImmSigned, EncodableI, Zenon
  <1>8. Width(w) = 4
    BY <1>2, WordWidth
  <1> QED
    BY <1>4, <1>5, <1>6, <1>7, <1>8, WordOps DEF Agrees, Becomes

LEMMA BranchAgrees ==
  ASSUME NEW w \in SUBSET (0..31), NEW r \in BranchRows, r.opcode = Field(w, 0, 7),
         \A f \in r.is : Has(w, f)
  PROVE  Agrees(w, r)
  <1>1. PICK code, name :
          /\ HasArm(BranchArms, code, name)
          /\ r = Row("Branch", name, "B", 99, <<No, S1, S2>>, {} \cup {F3(code)}, {})
    <2>1. PICK a \in BranchArms :
            r = Row("Branch", a[2], "B", 99, <<No, S1, S2>>, {} \cup {F3(a[1])}, {})
      BY DEF BranchRows, ByF3, BranchArms
    <2> QED
      BY <2>1 DEF HasArm
  <1>2. Field(w, 0, 7) = 99 /\ Field(w, 12, 3) = code
    <2>1. r.opcode = 99 /\ r.is = {} \cup {F3(code)}
      BY <1>1 DEF Row
    <2>2. Has(w, F3(code))
      BY <2>1
    <2> QED
      BY <2>1, <2>2 DEF Has, F3
  <1>3. MeaningOf(r, w)
          = Meaning("Branch", name, 0, Field(w, 15, 5), Field(w, 20, 5), Imm("B", w))
    BY <1>1, RegisterAt DEF MeaningOf, Row
  <1>4. ConvertInstruction(w)
          = WithFunc(w, "Branch",
                     Fields(0, Field(w, 15, 5), Field(w, 20, 5), code, Imm("B", w)), BranchArms)
    <2>1. ConvertInstruction(w) = Branch(w)
      BY <1>2 DEF ConvertInstruction
    <2> QED
      BY <1>2, <2>1, FromB DEF Branch
  <1>5. PICK k \in 0..(6 - 1) :
          /\ Named(FuncTable("Branch"), k) = name
          /\ \A rd, rs1, rs2, imm :
               WithFunc(w, "Branch", Fields(rd, rs1, rs2, code, imm), BranchArms)
                                      = EmbiveRaw("Branch", Fields(rd, rs1, rs2, k, imm))
    <2>1. Renumbers(w, "Branch", BranchArms, 6, code, name)
      BY <1>1, ArmsConvert
    <2> QED
      BY <2>1 DEF Renumbers
  <1>6. Executed("Branch", Fields(0, Field(w, 15, 5), Field(w, 20, 5), k, Imm("B", w)))
          = MeaningOf(r, w)
    BY <1>3, <1>5, ExecutedFunc
  <1>7. Encodable("B", Fields(0, Field(w, 15, 5), Field(w, 20, 5), k, Imm("B", w)))
    <2>1. Field(w, 15, 5) \in 0..31 /\ Field(w, 20, 5) \in 0..31 /\ k \in 0..7
      BY <1>5, FieldRange
    <2> QED
      BY <2>1, ImmSigned, EncodableB, Zenon
  <1>8. Width(w) = 4
    BY <1>2, WordWidth
  <1> QED
    BY <1>4, <1>5, <1>6, <1>7, <1>8, WordOps DEF Agrees, Becomes

(* The fields of Op and Amo: funct7 and funct3 side by side.               *)
LEMMA FromR ==
  ASSUME NEW w \in SUBSET (0..31)
  PROVE  /\ TypeR_from_riscv(w) = Fields(Field(w, 7, 5), Field(w, 15, 5), Field(w, 20, 5),
                                         8 * Field(w, 25, 7) + Field(w, 12, 3), {})
         /\ Field(w, 25, 7) \in 0..127
         /\ Field(w, 27, 5) = Field(w, 25, 7) \div 4
  <1>1. Number(Masked(w \gg 22, 3, 7) \cup Masked(w \gg 12, 0, 3))
          = 8 * Field(w, 25, 7) + Field(w, 12, 3)
    BY DEF Field, Number, Bit, Masked, \gg, Bits
  <1>2. Field(w, 25, 7) \in 0..127
    BY DEF Field, Number, Bit, Masked, \gg, Bits
  <1>3. Field(w, 27, 5) = Field(w, 25, 7) \div 4
    BY DEF Field, Number, Bit, Masked, \gg, Bits
  <1> QED
    BY <1>1, <1>2, <1>3 DEF TypeR_from_riscv

(* The rows of Op have arms for their funct7 and funct3.                   *)
LEMMA OpRowArms ==
  ASSUME NEW r \in OpRows
  PROVE  \E f7, f3, code, name :
           /\ code = 8 * f7 + f3 /\ HasArm(OpArms, code, name)
           /\ r = Row("OpAmo", name, "none", 51, <<RR, S1, S2>>, {F7(f7)} \cup {F3(f3)}, {})
  <1> DEFINE Arm(f7, a) == HasArm(OpArms, 8 * f7 + a[1], a[2])
             Is(f7, a) == r = Row("OpAmo", a[2], "none", 51, <<RR, S1, S2>>,
                                  {F7(f7)} \cup {F3(a[1])}, {})
  <1>1. \/ \E a \in {<<0, "add">>, <<1, "sll">>, <<2, "slt">>, <<3, "sltu">>, <<4, "xor">>,
                     <<5, "srl">>, <<6, "or">>, <<7, "and">>} : Is(0, a)
        \/ \E a \in {<<0, "sub">>, <<5, "sra">>} : Is(32, a)
        \/ \E a \in {<<0, "mul">>, <<1, "mulh">>, <<2, "mulhsu">>, <<3, "mulhu">>, <<4, "div">>,
                     <<5, "divu">>, <<6, "rem">>, <<7, "remu">>} : Is(1, a)
    BY DEF OpRows, ByF3
  <1>2. \A a \in {<<0, "add">>, <<1, "sll">>, <<2, "slt">>, <<3, "sltu">>, <<4, "xor">>,
                  <<5, "srl">>, <<6, "or">>, <<7, "and">>} : Arm(0, a)
    BY DEF OpArms, HasArm
  <1>3. \A a \in {<<0, "sub">>, <<5, "sra">>} : Arm(32, a)
    BY DEF OpArms, HasArm, Funct10, SUB_SRA_FUNCT7
  <1>4. \A a \in {<<0, "mul">>, <<1, "mulh">>, <<2, "mulhsu">>, <<3, "mulhu">>, <<4, "div">>,
                  <<5, "divu">>, <<6, "rem">>, <<7, "remu">>} : Arm(1, a)
    BY DEF OpArms, HasArm, Funct10, M_EXT_FUNCT7
  <1>5. PICK f7, a : Is(f7, a) /\ Arm(f7, a)
    BY <1>1, <1>2, <1>3, <1>4
  <1> QED
    BY <1>5

LEMMA OpAgrees ==
  ASSUME NEW w \in SUBSET (0..31), NEW r \in OpRows, r.opcode = Field(w, 0, 7),
         \A f \in r.is : Has(w, f)
  PROVE  Agrees(w, r)
  <1>1. PICK f7, f3, code, name :
          /\ code = 8 * f7 + f3 /\ HasArm(OpArms, code, name)
          /\ r = Row("OpAmo", name, "none", 51, <<RR, S1, S2>>, {F7(f7)} \cup {F3(f3)}, {})
    BY OpRowArms
  <1>2. Field(w, 0, 7) = 51 /\ Field(w, 12, 3) = f3 /\ Field(w, 25, 7) = f7
    <2>1. r.opcode = 51 /\ r.is = {F7(f7)} \cup {F3(f3)}
      BY <1>1 DEF Row
    <2>2. Has(w, F3(f3)) /\ Has(w, F7(f7))
      BY <2>1
    <2> QED
      BY <2>1, <2>2 DEF Has, F3, F7
  <1>3. MeaningOf(r, w)
          = Meaning("OpAmo", name, Field(w, 7, 5), Field(w, 15, 5), Field(w, 20, 5), {})
    BY <1>1, RegisterAt DEF MeaningOf, Row, Imm
  <1>4. ConvertInstruction(w)
          = WithFunc(w, "OpAmo", Fields(Field(w, 7, 5), Field(w, 15, 5), Field(w, 20, 5), code, {}),
                     OpArms)
    <2>1. ConvertInstruction(w) = Op(w)
      BY <1>2 DEF ConvertInstruction
    <2> QED
      BY <1>1, <1>2, <2>1, FromR DEF Op
  <1>5. PICK k \in 0..(29 - 1) :
          /\ Named(FuncTable("OpAmo"), k) = name
          /\ \A rd, rs1, rs2, imm : WithFunc(w, "OpAmo", Fields(rd, rs1, rs2, code, imm), OpArms)
                                      = EmbiveRaw("OpAmo", Fields(rd, rs1, rs2, k, imm))
    <2>1. Renumbers(w, "OpAmo", OpArms, 29, code, name)
      BY <1>1, ArmsConvert
    <2> QED
      BY <2>1 DEF Renumbers
  <1> DEFINE f == Fields(Field(w, 7, 5), Field(w, 15, 5), Field(w, 20, 5), k, {})
  <1>6. Executed("OpAmo", f) = MeaningOf(r, w)
    BY <1>3, <1>5 DEF Executed, Fields
  <1>7. Encodable("R", f)
    <2>1. Field(w, 7, 5) \in 0..31 /\ Field(w, 15, 5) \in 0..31 /\ Field(w, 20, 5) \in 0..31
          /\ k \in 0..31
      BY <1>5, FieldRange
    <2> QED
      BY <2>1, EncodableR, Zenon
  <1>8. Width(w) = 4
    BY <1>2, WordWidth
  <1>9. ConvertInstruction(w) = EmbiveRaw("OpAmo", f)
    BY <1>4, <1>5
  <1> HIDE DEF f
  <1> QED
    BY <1>6, <1>7, <1>8, <1>9, WordOps DEF Agrees, Becomes

LEMMA AmoAgrees ==
  ASSUME NEW w \in SUBSET (0..31), NEW r \in AmoRows, r.opcode = Field(w, 0, 7),
         \A f \in r.is : Has(w, f)
  PROVE  Agrees(w, r)
  <1>1. PICK code, name :
          /\ HasArm(AmoArms, code, name)
          /\ r.op = "OpAmo" /\ r.func = name /\ r.layout = "none" /\ r.opcode = 47
          /\ r.regs = <<RR, S1, S2>> /\ F3(2) \in r.is /\ <<27, 5, code>> \in r.is
    <2>1. CASE r = Row("OpAmo", "lr", "none", 47, <<RR, S1, S2>>,
                       {F3(2), <<27, 5, 2>>, <<20, 5, 0>>}, {})
      <3>1. HasArm(AmoArms, 2, "lr")
        BY DEF HasArm, AmoArms
      <3> QED
        BY <2>1, <3>1 DEF Row
    <2>2. CASE \E a \in AmoArms : r = Row("OpAmo", a[2], "none", 47, <<RR, S1, S2>>,
                                          {F3(2), <<27, 5, a[1]>>}, {})
      <3>1. PICK a \in AmoArms : r = Row("OpAmo", a[2], "none", 47, <<RR, S1, S2>>,
                                         {F3(2), <<27, 5, a[1]>>}, {})
        BY <2>2
      <3>2. HasArm(AmoArms, a[1], a[2])
        BY <3>1 DEF HasArm
      <3> QED
        BY <3>1, <3>2 DEF Row
    <2> QED
      BY <2>1, <2>2 DEF AmoRows, AmoArms
  <1>2. Field(w, 0, 7) = 47 /\ Field(w, 12, 3) = 2 /\ Field(w, 27, 5) = code
    BY <1>1 DEF Has, F3
  <1>3. MeaningOf(r, w)
          = Meaning("OpAmo", name, Field(w, 7, 5), Field(w, 15, 5), Field(w, 20, 5), {})
    BY <1>1, RegisterAt DEF MeaningOf, Imm
  <1>4. ConvertInstruction(w)
          = WithFunc(w, "OpAmo", Fields(Field(w, 7, 5), Field(w, 15, 5), Field(w, 20, 5), code, {}),
                     AmoArms)
    <2>1. ConvertInstruction(w) = Amo(w)
      BY <1>2 DEF ConvertInstruction
    <2>2. PICK f, m : /\ f = TypeR_from_riscv(w) /\ m = {}
                      /\ f = Fields(Field(w, 7, 5), Field(w, 15, 5), Field(w, 20, 5),
                                    8 * Field(w, 25, 7) + Field(w, 12, 3), m)
      BY FromR
    <2>3. f.func % 8 = WORD_WIDTH /\ AmoFunct5(f.func) = code
      <3>1. f.func = 8 * Field(w, 25, 7) + Field(w, 12, 3)
        BY <2>2 DEF Fields
      <3> QED
        BY <1>2, <3>1, FromR DEF WORD_WIDTH, AmoFunct5
    <2>4. \A k : [f EXCEPT !.func = k]
                   = Fields(Field(w, 7, 5), Field(w, 15, 5), Field(w, 20, 5), k, m)
      BY <2>2 DEF Fields
    <2>5. Amo(w) = WithFunc(w, "OpAmo", [f EXCEPT !.func = code], AmoArms)
      BY <2>2, <2>3 DEF Amo
    <2> QED
      BY <2>1, <2>2, <2>4, <2>5
  <1>5. PICK k \in 0..(29 - 1) :
          /\ Named(FuncTable("OpAmo"), k) = name
          /\ \A rd, rs1, rs2, imm : WithFunc(w, "OpAmo", Fields(rd, rs1, rs2, code, imm), AmoArms)
                                      = EmbiveRaw("OpAmo", Fields(rd, rs1, rs2, k, imm))
    <2>1. Renumbers(w, "OpAmo", AmoArms, 29, code, name)
      BY <1>1, ArmsConvert
    <2> QED
      BY <2>1 DEF Renumbers
  <1> DEFINE f == Fields(Field(w, 7, 5), Field(w, 15, 5), Field(w, 20, 5), k, {})
  <1>6. Executed("OpAmo", f) = MeaningOf(r, w)
    BY <1>3, <1>5 DEF Executed, Fields
  <1>7. Encodable("R", f)
    <2>1. Field(w, 7, 5) \in 0..31 /\ Field(w, 15, 5) \in 0..31 /\ Field(w, 20, 5) \in 0..31
          /\ k \in 0..31
      BY <1>5, FieldRange
    <2> QED
      BY <2>1, EncodableR, Zenon
  <1>8. Width(w) = 4
    BY <1>2, WordWidth
  <1>9. ConvertInstruction(w) = EmbiveRaw("OpAmo", f)
    BY <1>4, <1>5
  <1> HIDE DEF f
  <1> QED
    BY <1>6, <1>7, <1>8, <1>9, WordOps DEF Agrees, Becomes

(* execute of op_imm.rs.                                                   *)
LEMMA ExecutedOpImm ==
  ASSUME NEW rd, NEW rs1, NEW k, NEW imm, NEW name, Named(FuncTable("OpImm"), k) = name
  PROVE  LET f == Fields(rd, rs1, 0, k, imm)
         IN  /\ name \notin {"slli", "srli_srai"} =>
                  Executed("OpImm", f) = Meaning("OpImm", name, rd, rs1, 0, imm)
             /\ name = "slli" =>
                  Executed("OpImm", f) = Meaning("OpImm", "slli", rd, rs1, 0, Masked(imm, 0, 5))
             /\ name = "srli_srai" =>
                  Executed("OpImm", f) = Meaning("OpImm", IF 10 \in imm THEN "srai" ELSE "srli",
                                                 rd, rs1, 0, Masked(imm, 0, 5))
  BY DEF Executed, Fields

(* What OpImm makes of a word, whatever its function.                      *)
LEMMA OpImmConverts ==
  ASSUME NEW w \in SUBSET (0..31), Field(w, 0, 7) = 19, NEW name,
         HasArm(OpImmArms, Field(w, 12, 3), name)
  PROVE  \E k : LET f == Fields(Field(w, 7, 5), Field(w, 15, 5), 0, k, Imm("I", w))
                IN  /\ Named(FuncTable("OpImm"), k) = name
                    /\ Becomes(w, "OpImm", f)
  <1>1. ConvertInstruction(w)
          = WithFunc(w, "OpImm", Fields(Field(w, 7, 5), Field(w, 15, 5), 0, Field(w, 12, 3),
                                        Imm("I", w)), OpImmArms)
    <2>1. ConvertInstruction(w) = OpImm(w)
      BY DEF ConvertInstruction
    <2> QED
      BY <2>1, FromI DEF OpImm
  <1>2. PICK k \in 0..(8 - 1) :
          /\ Named(FuncTable("OpImm"), k) = name
          /\ \A rd, rs1, rs2, imm :
               WithFunc(w, "OpImm", Fields(rd, rs1, rs2, Field(w, 12, 3), imm), OpImmArms)
                 = EmbiveRaw("OpImm", Fields(rd, rs1, rs2, k, imm))
    <2>1. Renumbers(w, "OpImm", OpImmArms, 8, Field(w, 12, 3), name)
      BY ArmsConvert
    <2> QED
      BY <2>1 DEF Renumbers
  <1>3. Encodable("I", Fields(Field(w, 7, 5), Field(w, 15, 5), 0, k, Imm("I", w)))
    <2>1. Field(w, 7, 5) \in 0..31 /\ Field(w, 15, 5) \in 0..31 /\ k \in 0..7
      BY <1>2, FieldRange
    <2> QED
      BY <2>1, ImmSigned, EncodableI, Zenon
  <1> QED
    BY <1>1, <1>2, <1>3, WordOps DEF Becomes

LEMMA OpImmAgrees ==
  ASSUME NEW w \in SUBSET (0..31), NEW r \in OpImmRows, r.opcode = Field(w, 0, 7),
         \A f \in r.is : Has(w, f)
  PROVE  Agrees(w, r)
  <1>1. PICK code, name :
          /\ HasArm(OpImmArms, code, name) /\ name \notin {"slli", "srli_srai"}
          /\ r = Row("OpImm", name, "I", 19, <<RR, S1, No>>, {} \cup {F3(code)}, {})
    <2>1. PICK a \in {<<0, "addi">>, <<2, "slti">>, <<3, "sltiu">>, <<4, "xori">>, <<6, "ori">>,
                      <<7, "andi">>} :
            r = Row("OpImm", a[2], "I", 19, <<RR, S1, No>>, {} \cup {F3(a[1])}, {})
      BY DEF OpImmRows, ByF3
    <2>2. HasArm(OpImmArms, a[1], a[2]) /\ a[2] \notin {"slli", "srli_srai"}
      BY DEF HasArm, OpImmArms, OP_IMM_FUNC
    <2> QED
      BY <2>1, <2>2
  <1>2. Field(w, 0, 7) = 19 /\ Field(w, 12, 3) = code
    <2>1. r.opcode = 19 /\ r.is = {} \cup {F3(code)}
      BY <1>1 DEF Row
    <2>2. Has(w, F3(code))
      BY <2>1
    <2> QED
      BY <2>1, <2>2 DEF Has, F3
  <1>3. MeaningOf(r, w)
          = Meaning("OpImm", name, Field(w, 7, 5), Field(w, 15, 5), 0, Imm("I", w))
    BY <1>1, RegisterAt DEF MeaningOf, Row
  <1>4. PICK k : LET f == Fields(Field(w, 7, 5), Field(w, 15, 5), 0, k, Imm("I", w))
                 IN  Named(FuncTable("OpImm"), k) = name /\ Becomes(w, "OpImm", f)
    BY <1>1, <1>2, OpImmConverts
  <1>5. Width(w) = 4
    BY <1>2, WordWidth
  <1> QED
    BY <1>1, <1>3, <1>4, <1>5, ExecutedOpImm, WordOps DEF Agrees

(* The shifts: the count is in the low five bits, and bit 30 of the word,  *)
(* which selects srai, is bit 10 of the immediate.                         *)
LEMMA ShiftImm ==
  ASSUME NEW w \in SUBSET (0..31)
  PROVE  /\ Masked(Imm("I", w), 0, 5) = Imm("shamt", w)
         /\ Field(w, 25, 7) = 0 => 10 \notin Imm("I", w)
         /\ Field(w, 25, 7) = 32 => 10 \in Imm("I", w)
  <1>1. /\ Imm("I", w) = Extended(Part(w, 31, 20, 0), 11)
        /\ Imm("shamt", w) = Part(w, 24, 20, 0)
    BY DEF Imm
  <1>2. \A b \in 0..31 : b \in Masked(Imm("I", w), 0, 5) <=> b \in Imm("shamt", w)
    BY <1>1 DEF Masked, Extended, Part
  <1>3. Masked(Imm("I", w), 0, 5) \in SUBSET (0..31) /\ Imm("shamt", w) \in SUBSET (0..31)
    BY <1>1 DEF Masked, Part
  <1>4. 10 \in Imm("I", w) <=> 30 \in w
    BY <1>1 DEF Extended, Part
  <1>5. (Field(w, 25, 7) = 0 => 30 \notin w) /\ (Field(w, 25, 7) = 32 => 30 \in w)
    BY DEF Field, Number, Bit, Masked, \gg, Bits
  <1>6. Masked(Imm("I", w), 0, 5) = Imm("shamt", w)
    BY <1>2, <1>3, SameBits
  <1> QED
    BY <1>4, <1>5, <1>6

LEMMA ShiftAgrees ==
  ASSUME NEW w \in SUBSET (0..31), NEW r \in ShiftRows, r.opcode = Field(w, 0, 7),
         \A f \in r.is : Has(w, f)
  PROVE  Agrees(w, r)
  <1>1. PICK f7, code, name :
          /\ \/ f7 = 0 /\ code = 1 /\ name = "slli"
             \/ f7 = 0 /\ code = 5 /\ name = "srli"
             \/ f7 = 32 /\ code = 5 /\ name = "srai"
          /\ r = Row("OpImm", name, "shamt", 19, <<RR, S1, No>>, {F7(f7)} \cup {F3(code)}, {})
    <2>1. \/ \E a \in {<<1, "slli">>, <<5, "srli">>} :
               r = Row("OpImm", a[2], "shamt", 19, <<RR, S1, No>>, {F7(0)} \cup {F3(a[1])}, {})
          \/ \E a \in {<<5, "srai">>} :
               r = Row("OpImm", a[2], "shamt", 19, <<RR, S1, No>>, {F7(32)} \cup {F3(a[1])}, {})
      BY DEF ShiftRows, ByF3
    <2>2. \/ r = Row("OpImm", "slli", "shamt", 19, <<RR, S1, No>>, {F7(0)} \cup {F3(1)}, {})
          \/ r = Row("OpImm", "srli", "shamt", 19, <<RR, S1, No>>, {F7(0)} \cup {F3(5)}, {})
          \/ r = Row("OpImm", "srai", "shamt", 19, <<RR, S1, No>>, {F7(32)} \cup {F3(5)}, {})
      BY <2>1
    <2> QED
      BY <2>2, Zenon
  <1>2. Field(w, 0, 7) = 19 /\ Field(w, 12, 3) = code /\ Field(w, 25, 7) = f7
    <2>1. r.opcode = 19 /\ r.is = {F7(f7)} \cup {F3(code)}
      BY <1>1 DEF Row
    <2>2. Has(w, F3(code)) /\ Has(w, F7(f7))
      BY <2>1
    <2> QED
      BY <2>1, <2>2 DEF Has, F3, F7
  <1>3. MeaningOf(r, w)
          = Meaning("OpImm", name, Field(w, 7, 5), Field(w, 15, 5), 0, Imm("shamt", w))
    BY <1>1, RegisterAt DEF MeaningOf, Row
  <1>4. PICK arm : HasArm(OpImmArms, code, arm) /\ arm = IF code = 1 THEN "slli" ELSE "srli_srai"
    <2>1. \A a \in {<<1, "slli">>, <<5, "srli_srai">>} : HasArm(OpImmArms, a[1], a[2])
      BY DEF HasArm, OpImmArms, OP_IMM_FUNC
    <2>2. HasArm(OpImmArms, 1, "slli") /\ HasArm(OpImmArms, 5, "srli_srai")
      BY <2>1
    <2> QED
      BY <1>1, <2>2
  <1>5. PICK k : LET f == Fields(Field(w, 7, 5), Field(w, 15, 5), 0, k, Imm("I", w))
                 IN  Named(FuncTable("OpImm"), k) = arm /\ Becomes(w, "OpImm", f)
    BY <1>2, <1>4, OpImmConverts
  <1> DEFINE f == Fields(Field(w, 7, 5), Field(w, 15, 5), 0, k, Imm("I", w))
  <1>6. Executed("OpImm", f)
          = Meaning("OpImm", name, Field(w, 7, 5), Field(w, 15, 5), 0, Masked(Imm("I", w), 0, 5))
    BY <1>1, <1>2, <1>4, <1>5, ExecutedOpImm, ShiftImm
  <1>7. Executed("OpImm", f) = MeaningOf(r, w)
    BY <1>3, <1>6, ShiftImm
  <1>8. Width(w) = 4
    BY <1>2, WordWidth
  <1> HIDE DEF f
  <1> QED
    BY <1>5, <1>7, <1>8, WordOps DEF Agrees, f

(* execute of system_misc_mem.rs.                                          *)
LEMMA SystemImms ==
  /\ SystemImm("ecall") = BitsOf(0) /\ SystemImm("ebreak") = BitsOf(1)
  /\ SystemImm("fencei") = BitsOf(2) /\ SystemImm("wfi") = BitsOf(3)
  /\ SystemImm("mret") = BitsOf(4)
  <1>1. /\ SYSTEM_IMM[1] = "ecall" /\ SYSTEM_IMM[2] = "ebreak" /\ SYSTEM_IMM[3] = "fencei"
        /\ SYSTEM_IMM[4] = "wfi" /\ SYSTEM_IMM[5] = "mret"
    BY DEF SYSTEM_IMM
  <1>2. \A j \in 1..5 : NumberIn(SYSTEM_IMM, SYSTEM_IMM[j]) = j - 1
    BY Tables, NumberNamed
  <1>3. /\ NumberIn(SYSTEM_IMM, "ecall") = 0 /\ NumberIn(SYSTEM_IMM, "ebreak") = 1
        /\ NumberIn(SYSTEM_IMM, "fencei") = 2 /\ NumberIn(SYSTEM_IMM, "wfi") = 3
        /\ NumberIn(SYSTEM_IMM, "mret") = 4
    BY <1>1, <1>2
  <1> QED
    BY <1>3 DEF SystemImm

LEMMA SystemFunc ==
  /\ Named(FuncTable("SystemMiscMem"), 0) = "misc"
  /\ NumberIn(SYSTEM_FUNC, "misc") = 0
  <1>1. SYSTEM_FUNC[1] = "misc"
    BY DEF SYSTEM_FUNC
  <1>2. \A j \in 1..7 : /\ NumberIn(SYSTEM_FUNC, SYSTEM_FUNC[j]) = j - 1
                        /\ Named(SYSTEM_FUNC, j - 1) = SYSTEM_FUNC[j]
    BY Tables, NumberNamed
  <1>3. NumberIn(SYSTEM_FUNC, SYSTEM_FUNC[1]) = 0 /\ Named(SYSTEM_FUNC, 0) = SYSTEM_FUNC[1]
    BY <1>2
  <1> QED
    BY <1>1, <1>3, FuncTables

LEMMA ExecutedMisc ==
  ASSUME NEW rd, NEW rs1, NEW v \in 0..4
  PROVE  Executed("SystemMiscMem", Fields(rd, rs1, 0, 0, BitsOf(v)))
           = Meaning("SystemMiscMem", SYSTEM_IMM[v + 1], 0, 0, 0, {})
  <1>1. PICK imm : imm = BitsOf(v)
    OBVIOUS
  <1>2. imm \subseteq 0..11 /\ Number(imm) = v
    BY <1>1, FiveBits
  <1>3. Named(SYSTEM_IMM, v) = SYSTEM_IMM[v + 1]
    BY Tables DEF Named, IsTable
  <1>4. PICK f : f = Fields(rd, rs1, 0, 0, imm)
    OBVIOUS
  <1>5. f.func = 0 /\ f.imm = imm
    BY <1>4 DEF Fields
  <1>6. Executed("SystemMiscMem", f)
          = Meaning("SystemMiscMem", IF f.imm \subseteq 0..11 THEN Named(SYSTEM_IMM, Number(f.imm))
                                     ELSE "invalid", 0, 0, 0, {})
    BY <1>5, SystemFunc DEF Executed
  <1> QED
    BY <1>1, <1>2, <1>3, <1>4, <1>5, <1>6

LEMMA MiscEncodable ==
  ASSUME NEW w \in SUBSET (0..31), NEW v \in 0..4
  PROVE  Encodable("I", Fields(Field(w, 7, 5), Field(w, 15, 5), 0, 0, BitsOf(v)))
  <1>1. PICK imm : imm = BitsOf(v) /\ imm \in SUBSET (0..4)
    BY FiveBits
  <1>2. imm \in SUBSET (0..31) /\ Signed(imm, 11, 0)
    BY <1>1 DEF Signed
  <1>3. Field(w, 7, 5) \in 0..31 /\ Field(w, 15, 5) \in 0..31 /\ 0 \in 0..7
    BY FieldRange
  <1> QED
    BY <1>1, <1>2, <1>3, EncodableI, Zenon

(* A word converted to a system instruction without operands.              *)
LEMMA MiscAgrees ==
  ASSUME NEW w \in SUBSET (0..31), Field(w, 0, 7) % 4 = 3, NEW v \in 0..4, NEW r,
         ConvertInstruction(w)
           = EmbiveRaw("SystemMiscMem", Fields(Field(w, 7, 5), Field(w, 15, 5), 0, 0, BitsOf(v))),
         MeaningOf(r, w) = Meaning("SystemMiscMem", SYSTEM_IMM[v + 1], 0, 0, 0, {})
  PROVE  Agrees(w, r)
  <1>1. PICK f : f = Fields(Field(w, 7, 5), Field(w, 15, 5), 0, 0, BitsOf(v))
    OBVIOUS
  <1>2. Encodable("I", f)
    BY <1>1, MiscEncodable
  <1>3. Executed("SystemMiscMem", f) = MeaningOf(r, w)
    BY <1>1, ExecutedMisc
  <1> QED
    BY <1>1, <1>2, <1>3, WordWidth, WordOps DEF Agrees, Becomes

LEMMA FenceAgrees ==
  ASSUME NEW w \in SUBSET (0..31), NEW r \in FenceRows, r.opcode = Field(w, 0, 7)
  PROVE  Agrees(w, r)
  <1>1. /\ r.op = "SystemMiscMem" /\ r.func = "fencei" /\ r.layout = "none" /\ r.opcode = 15
        /\ r.regs = <<No, No, No>>
    BY DEF FenceRows, ByF3, Row
  <1>2. MeaningOf(r, w) = Meaning("SystemMiscMem", SYSTEM_IMM[2 + 1], 0, 0, 0, {})
    <2>1. SYSTEM_IMM[2 + 1] = "fencei"
      BY DEF SYSTEM_IMM
    <2> QED
      BY <1>1, <2>1, RegisterAt DEF MeaningOf, Imm
  <1>3. ConvertInstruction(w) = MiscMem(w)
    BY <1>1 DEF ConvertInstruction
  <1>4. PICK i, imm, rd, rs1, k : i = TypeI_from_riscv(w) /\ i = Fields(rd, rs1, 0, k, imm)
                                  /\ rd = Field(w, 7, 5) /\ rs1 = Field(w, 15, 5)
    BY FromI
  <1>5. \A m : [i EXCEPT !.func = 0, !.imm = m] = Fields(rd, rs1, 0, 0, m)
    <2>1. PICK j : j = [i EXCEPT !.func = 0]
      OBVIOUS
    <2>2. j = Fields(rd, rs1, 0, 0, imm)
      BY <1>4, <2>1 DEF Fields
    <2>3. \A m : [j EXCEPT !.imm = m] = Fields(rd, rs1, 0, 0, m)
      BY <2>2 DEF Fields
    <2> QED
      BY <2>1, <2>3
  <1>6. MiscMem(w) = EmbiveRaw("SystemMiscMem", [i EXCEPT !.func = 0, !.imm = BitsOf(2)])
    BY <1>4, SystemImms DEF MiscMem
  <1>7. ConvertInstruction(w)
          = EmbiveRaw("SystemMiscMem", Fields(Field(w, 7, 5), Field(w, 15, 5), 0, 0, BitsOf(2)))
    BY <1>3, <1>4, <1>5, <1>6
  <1>8. Field(w, 0, 7) % 4 = 3 /\ 2 \in 0..4
    BY <1>1
  <1> QED
    BY <1>2, <1>7, <1>8, MiscAgrees

(* The immediates of the system instructions.                              *)
LEMMA SystemBits ==
  /\ BitsOf(0) = {} /\ BitsOf(1) = {0} /\ BitsOf(261) = {0, 2, 8} /\ BitsOf(770) = {1, 8, 9}
  <1>1. BitsOf(0) = {}
    BY BitAt
  <1>2. BitsOf(1) = {0}
    BY BitAt
  <1>3. BitsOf(261) = {0, 2, 8}
    BY BitAt
  <1>4. BitsOf(770) = {1, 8, 9}
    BY BitAt
  <1> QED
    BY <1>1, <1>2, <1>3, <1>4

LEMMA SystemWord ==
  ASSUME NEW w \in SUBSET (0..31), NEW v \in {0, 1, 261, 770}, Field(w, 20, 12) = v
  PROVE  Imm("I", w) = BitsOf(v)
  <1>1. Imm("I", w) = Extended(Part(w, 31, 20, 0), 11)
    BY DEF Imm
  <1>2. Imm("I", w) \in SUBSET (0..31)
    BY ImmSigned
  <1>3. \A b \in 20..31 : b \in w <=> b - 20 \in BitsOf(v)
    <2>1. Bit(w, 20) + 2 * Bit(w, 21) + 4 * Bit(w, 22) + 8 * Bit(w, 23) + 16 * Bit(w, 24)
            + 32 * Bit(w, 25) + 64 * Bit(w, 26) + 128 * Bit(w, 27) + 256 * Bit(w, 28)
            + 512 * Bit(w, 29) + 1024 * Bit(w, 30) + 2048 * Bit(w, 31) = v
      BY DEF Field, Number, Bit, Masked, \gg, Bits
    <2>2. CASE v = 0
      BY <2>1, <2>2, SystemBits DEF Bit
    <2>3. CASE v = 1
      BY <2>1, <2>3, SystemBits DEF Bit
    <2>4. CASE v = 261
      BY <2>1, <2>4, SystemBits DEF Bit
    <2>5. CASE v = 770
      BY <2>1, <2>5, SystemBits DEF Bit
    <2> QED
      BY <2>2, <2>3, <2>4, <2>5
  <1>4. BitsOf(v) \in SUBSET (0..10)
    BY SystemBits
  <1>5. PICK m : m = BitsOf(v) /\ m \in SUBSET (0..10) /\ m \in SUBSET (0..31)
    BY <1>4
  <1>6. \A b \in 0..31 : b \in Imm("I", w) <=> b \in m
    BY <1>1, <1>3, <1>5 DEF Extended, Part
  <1> QED
    BY <1>2, <1>5, <1>6, SameBits

LEMMA SystemAgrees ==
  ASSUME NEW w \in SUBSET (0..31), NEW r \in SystemRows, r.opcode = Field(w, 0, 7),
         \A f \in r.is : Has(w, f)
  PROVE  Agrees(w, r)
  <1>1. PICK v, name :
          /\ \/ v = 0 /\ name = "ecall"
             \/ v = 1 /\ name = "ebreak"
             \/ v = 261 /\ name = "wfi"
             \/ v = 770 /\ name = "mret"
          /\ r = Row("SystemMiscMem", name, "none", 115, <<No, No, No>>,
                     {F3(0), <<7, 5, 0>>, <<15, 5, 0>>, <<20, 12, v>>}, {})
    <2>1. PICK a \in {<<0, "ecall">>, <<1, "ebreak">>, <<261, "wfi">>, <<770, "mret">>} :
            r = Row("SystemMiscMem", a[2], "none", 115, <<No, No, No>>,
                    {F3(0), <<7, 5, 0>>, <<15, 5, 0>>, <<20, 12, a[1]>>}, {})
      BY DEF SystemRows
    <2>2. PICK v, name : v = a[1] /\ name = a[2]
      OBVIOUS
    <2>3. \/ v = 0 /\ name = "ecall"
          \/ v = 1 /\ name = "ebreak"
          \/ v = 261 /\ name = "wfi"
          \/ v = 770 /\ name = "mret"
      BY <2>2
    <2>4. r = Row("SystemMiscMem", name, "none", 115, <<No, No, No>>,
                  {F3(0), <<7, 5, 0>>, <<15, 5, 0>>, <<20, 12, v>>}, {})
      BY <2>1, <2>2
    <2> QED
      BY <2>3, <2>4, Zenon
  <1>2. Field(w, 0, 7) = 115 /\ Field(w, 12, 3) = 0 /\ Field(w, 20, 12) = v
    <2>1. r.opcode = 115 /\ F3(0) \in r.is /\ <<20, 12, v>> \in r.is
      BY <1>1 DEF Row
    <2> QED
      BY <2>1 DEF Has, F3
  <1>3. MeaningOf(r, w) = Meaning("SystemMiscMem", name, 0, 0, 0, {})
    BY <1>1, RegisterAt DEF MeaningOf, Row, Imm
  <1>4. ConvertInstruction(w) = System(w)
    BY <1>2 DEF ConvertInstruction
  <1>5. PICK j \in 0..4 : ConvertedImm(BitsOf(v)) = BitsOf(j) /\ SYSTEM_IMM[j + 1] = name
    <2>1. /\ ConvertedImm(BitsOf(0)) = BitsOf(0) /\ ConvertedImm(BitsOf(1)) = BitsOf(1)
          /\ ConvertedImm(BitsOf(261)) = BitsOf(3) /\ ConvertedImm(BitsOf(770)) = BitsOf(4)
      <3>1. /\ BitsOf(0) # BitsOf(1) /\ BitsOf(0) # BitsOf(261) /\ BitsOf(0) # BitsOf(770)
            /\ BitsOf(1) # BitsOf(261) /\ BitsOf(1) # BitsOf(770) /\ BitsOf(261) # BitsOf(770)
        BY SystemBits
      <3> QED
        BY <3>1, SystemImms DEF ConvertedImm
    <2>2. /\ SYSTEM_IMM[0 + 1] = "ecall" /\ SYSTEM_IMM[1 + 1] = "ebreak"
          /\ SYSTEM_IMM[3 + 1] = "wfi" /\ SYSTEM_IMM[4 + 1] = "mret"
      BY DEF SYSTEM_IMM
    <2> QED
      BY <1>1, <2>1, <2>2
  <1>6. PICK i, imm, rd, rs1 : /\ i = TypeI_from_riscv(w) /\ i = Fields(rd, rs1, 0, 0, imm)
                               /\ rd = Field(w, 7, 5) /\ rs1 = Field(w, 15, 5)
                               /\ imm = BitsOf(v)
    BY <1>1, <1>2, FromI, SystemWord
  <1>7. i.func = 0 /\ i.imm = imm /\ \A m : [i EXCEPT !.imm = m] = Fields(rd, rs1, 0, 0, m)
    BY <1>6 DEF Fields
  <1>8. System(w) = EmbiveRaw("SystemMiscMem", [i EXCEPT !.imm = BitsOf(j)])
    BY <1>5, <1>6, <1>7, SystemFunc DEF System
  <1> QED
    BY <1>2, <1>3, <1>4, <1>5, <1>6, <1>7, <1>8, MiscAgrees

LEMMA CsrImm ==
  ASSUME NEW w \in SUBSET (0..31)
  PROVE  Masked(Imm("I", w), 0, 12) = Imm("csr", w)
  <1>1. /\ Imm("I", w) = Extended(Part(w, 31, 20, 0), 11)
        /\ Imm("csr", w) = Part(w, 31, 20, 0)
    BY DEF Imm
  <1>2. \A b \in 0..31 : b \in Masked(Imm("I", w), 0, 12) <=> b \in Imm("csr", w)
    BY <1>1 DEF Masked, Extended, Part
  <1>3. Masked(Imm("I", w), 0, 12) \in SUBSET (0..31) /\ Imm("csr", w) \in SUBSET (0..31)
    BY <1>1 DEF Masked, Part
  <1> QED
    BY <1>2, <1>3, SameBits

LEMMA ExecutedCsr ==
  ASSUME NEW rd, NEW rs1, NEW k, NEW imm, NEW name,
         Named(FuncTable("SystemMiscMem"), k) = name, name # "misc"
  PROVE  Executed("SystemMiscMem", Fields(rd, rs1, 0, k, imm))
           = Meaning("SystemMiscMem", name, rd, rs1, 0, Masked(imm, 0, 12))
  BY DEF Executed, Fields

LEMMA CsrAgrees ==
  ASSUME NEW w \in SUBSET (0..31), NEW r \in CsrRows, r.opcode = Field(w, 0, 7),
         \A f \in r.is : Has(w, f)
  PROVE  Agrees(w, r)
  <1>1. PICK code, name :
          /\ HasArm(CsrArms, code, name) /\ name # "misc" /\ code # 0
          /\ r = Row("SystemMiscMem", name, "csr", 115, <<RR, S1, No>>, {} \cup {F3(code)}, {})
    <2>1. PICK a \in CsrArms :
            r = Row("SystemMiscMem", a[2], "csr", 115, <<RR, S1, No>>, {} \cup {F3(a[1])}, {})
      BY DEF CsrRows, ByF3, CsrArms
    <2>2. HasArm(CsrArms, a[1], a[2])
      BY DEF HasArm
    <2>3. a[2] # "misc" /\ a[1] # 0
      BY DEF CsrArms
    <2> QED
      BY <2>1, <2>2, <2>3
  <1>2. Field(w, 0, 7) = 115 /\ Field(w, 12, 3) = code
    <2>1. r.opcode = 115 /\ r.is = {} \cup {F3(code)}
      BY <1>1 DEF Row
    <2>2. Has(w, F3(code))
      BY <2>1
    <2> QED
      BY <2>1, <2>2 DEF Has, F3
  <1>3. MeaningOf(r, w)
          = Meaning("SystemMiscMem", name, Field(w, 7, 5), Field(w, 15, 5), 0, Imm("csr", w))
    BY <1>1, RegisterAt DEF MeaningOf, Row
  <1>4. ConvertInstruction(w)
          = WithFunc(w, "SystemMiscMem", Fields(Field(w, 7, 5), Field(w, 15, 5), 0, code,
                                                Imm("I", w)), CsrArms)
    <2>1. ConvertInstruction(w) = System(w)
      BY <1>2 DEF ConvertInstruction
    <2>2. PICK i : /\ i = TypeI_from_riscv(w)
                   /\ i = Fields(Field(w, 7, 5), Field(w, 15, 5), 0, code, Imm("I", w))
      BY <1>2, FromI
    <2>3. i.func = code
      BY <2>2 DEF Fields
    <2>4. System(w) = WithFunc(w, "SystemMiscMem", i, CsrArms)
      BY <1>1, <2>2, <2>3, SystemFunc DEF System
    <2> QED
      BY <2>1, <2>2, <2>4
  <1>5. PICK k \in 0..(7 - 1) :
          /\ Named(FuncTable("SystemMiscMem"), k) = name
          /\ \A rd, rs1, rs2, imm :
               WithFunc(w, "SystemMiscMem", Fields(rd, rs1, rs2, code, imm), CsrArms)
                 = EmbiveRaw("SystemMiscMem", Fields(rd, rs1, rs2, k, imm))
    <2>1. Renumbers(w, "SystemMiscMem", CsrArms, 7, code, name)
      BY <1>1, ArmsConvert
    <2> QED
      BY <2>1 DEF Renumbers
  <1> DEFINE f == Fields(Field(w, 7, 5), Field(w, 15, 5), 0, k, Imm("I", w))
  <1>6. Executed("SystemMiscMem", f) = MeaningOf(r, w)
    BY <1>1, <1>3, <1>5, ExecutedCsr, CsrImm
  <1>7. Encodable("I", f)
    <2>1. Field(w, 7, 5) \in 0..31 /\ Field(w, 15, 5) \in 0..31 /\ k \in 0..7
      BY <1>5, FieldRange
    <2> QED
      BY <2>1, ImmSigned, EncodableI, Zenon
  <1>8. Width(w) = 4
    BY <1>2, WordWidth
  <1>9. ConvertInstruction(w) = EmbiveRaw("SystemMiscMem", f)
    BY <1>4, <1>5
  <1> HIDE DEF f
  <1> QED
    BY <1>6, <1>7, <1>8, <1>9, WordOps DEF Agrees, Becomes

LEMMA OtherAgrees ==
  ASSUME NEW w \in SUBSET (0..31), NEW r \in OtherRows, r.opcode = Field(w, 0, 7),
         \A f \in r.is : Has(w, f)
  PROVE  Agrees(w, r)
  <1>1. CASE r = Row("Auipc", "", "U", 23, <<RR, No, No>>, {}, {})
    <2>1. Field(w, 0, 7) = 23
      BY <1>1 DEF Row
    <2>2. ConvertInstruction(w) = EmbiveRaw("Auipc", TypeU_from_riscv(w))
      BY <2>1 DEF ConvertInstruction
    <2>3. MeaningOf(r, w) = Meaning("Auipc", "", Field(w, 7, 5), 0, 0, Imm("U", w))
      BY <1>1, RegisterAt DEF MeaningOf, Row
    <2>4. Executed("Auipc", Fields(Field(w, 7, 5), 0, 0, 0, Imm("U", w))) = MeaningOf(r, w)
      BY <2>3, WordOps, ExecutedPlain
    <2>5. Width(w) = 4
      BY <2>1, WordWidth
    <2> QED
      BY <2>2, <2>4, <2>5, FromU, WordOps DEF Agrees, Becomes
  <1>2. CASE r = Row("Lui", "", "U", 55, <<RR, No, No>>, {}, {})
    <2>1. Field(w, 0, 7) = 55
      BY <1>2 DEF Row
    <2>2. ConvertInstruction(w) = EmbiveRaw("Lui", TypeU_from_riscv(w))
      BY <2>1 DEF ConvertInstruction
    <2>3. MeaningOf(r, w) = Meaning("Lui", "", Field(w, 7, 5), 0, 0, Imm("U", w))
      BY <1>2, RegisterAt DEF MeaningOf, Row
    <2>4. Executed("Lui", Fields(Field(w, 7, 5), 0, 0, 0, Imm("U", w))) = MeaningOf(r, w)
      BY <2>3, WordOps, ExecutedPlain
    <2>5. Width(w) = 4
      BY <2>1, WordWidth
    <2> QED
      BY <2>2, <2>4, <2>5, FromU, WordOps DEF Agrees, Becomes
  <1>3. CASE r = Row("Jal", "", "J", 111, <<RR, No, No>>, {}, {})
    <2>1. Field(w, 0, 7) = 111
      BY <1>3 DEF Row
    <2>2. ConvertInstruction(w) = EmbiveRaw("Jal", TypeJ_from_riscv(w))
      BY <2>1 DEF ConvertInstruction
    <2>3. MeaningOf(r, w) = Meaning("Jal", "", Field(w, 7, 5), 0, 0, Imm("J", w))
      BY <1>3, RegisterAt DEF MeaningOf, Row
    <2>4. Executed("Jal", Fields(Field(w, 7, 5), 0, 0, 0, Imm("J", w))) = MeaningOf(r, w)
      BY <2>3, WordOps, ExecutedPlain
    <2>5. Width(w) = 4
      BY <2>1, WordWidth
    <2> QED
      BY <2>2, <2>4, <2>5, FromJ, WordOps DEF Agrees, Becomes
  <1>4. CASE r = Row("Jalr", "", "I", 103, <<RR, S1, No>>, {F3(0)}, {})
    <2>1. Field(w, 0, 7) = 103 /\ Field(w, 12, 3) = 0
      BY <1>4 DEF Row, F3, Has
    <2>2. ConvertInstruction(w) = EmbiveRaw("Jalr", TypeI_from_riscv(w))
      BY <2>1 DEF ConvertInstruction
    <2>3. MeaningOf(r, w) = Meaning("Jalr", "", Field(w, 7, 5), Field(w, 15, 5), 0, Imm("I", w))
      BY <1>4, RegisterAt DEF MeaningOf, Row
    <2>4. Executed("Jalr", Fields(Field(w, 7, 5), Field(w, 15, 5), 0, 0, Imm("I", w)))
            = MeaningOf(r, w)
      BY <2>3, WordOps, ExecutedPlain
    <2>5. Width(w) = 4
      BY <2>1, WordWidth
    <2>6. /\ TypeI_from_riscv(w) = Fields(Field(w, 7, 5), Field(w, 15, 5), 0, 0, Imm("I", w))
          /\ Encodable("I", Fields(Field(w, 7, 5), Field(w, 15, 5), 0, 0, Imm("I", w)))
      BY <2>1, FromI
    <2> QED
      BY <2>2, <2>4, <2>5, <2>6, WordOps DEF Agrees, Becomes
  <1> QED
    BY <1>1, <1>2, <1>3, <1>4 DEF OtherRows

(* Every row of the manual's listings that applies to a word.              *)
LEMMA RowsAgree ==
  ASSUME NEW w \in SUBSET (0..31), NEW r \in RowsFor(w)
  PROVE  Agrees(w, r)
  <1>1. Field(w, 0, 7) \in 0..127
    BY FieldBits
  <1>2. /\ r \in RowsOf[Field(w, 0, 7)]
        /\ \A f \in r.is : Has(w, f)
        /\ \A f \in r.isnt : ~Has(w, f)
    BY DEF RowsFor
  <1>3. \/ r \in Rows32 /\ r.opcode = Field(w, 0, 7)
        \/ r \in Rows16 /\ Field(w, 0, 7) % 4 < 3 /\ r.opcode = Field(w, 0, 7) % 4
    BY <1>1, <1>2 DEF RowsOf
  <1>4. CASE r \in Rows16 /\ Field(w, 0, 7) % 4 < 3 /\ r.opcode = Field(w, 0, 7) % 4
    <2>1. Field(w, 0, 7) % 4 # 3
      BY <1>1, <1>4
    <2> QED
      BY <1>2, <1>4, <2>1, HalfwordRows
  <1>5. CASE r \in Rows32 /\ r.opcode = Field(w, 0, 7)
    <2>1. \/ r \in LoadRows \/ r \in StoreRows \/ r \in BranchRows \/ r \in OpImmRows
          \/ r \in ShiftRows \/ r \in OpRows \/ r \in AmoRows \/ r \in FenceRows
          \/ r \in SystemRows \/ r \in CsrRows \/ r \in OtherRows
      BY <1>5 DEF Rows32
    <2> QED
      BY <1>2, <1>5, <2>1, LoadAgrees, StoreAgrees, BranchAgrees, OpImmAgrees, ShiftAgrees,
         OpAgrees, AmoAgrees, FenceAgrees, SystemAgrees, CsrAgrees, OtherAgrees
  <1> QED
    BY <1>3, <1>4, <1>5

-----------------------------------------------------------------------------
(* What convert returns for any word                                       *)

(* from_riscv of the 16-bit formats.                                       *)
LEMMA FromHalfword ==
  ASSUME NEW w \in SUBSET (0..31)
  PROVE  /\ Encodable("CIW", TypeCIW_from_riscv(w)) /\ Encodable("CL", TypeCL_from_riscv(w))
         /\ Encodable("CI1", TypeCI1_from_riscv(w)) /\ Encodable("CI2", TypeCI2_from_riscv(w))
         /\ Encodable("CI3", TypeCI3_from_riscv(w)) /\ Encodable("CI4", TypeCI4_from_riscv(w))
         /\ Encodable("CI5", TypeCI5_from_riscv(w)) /\ Encodable("CB1", TypeCB1_from_riscv(w))
         /\ Encodable("CB2", TypeCB2_from_riscv(w)) /\ Encodable("CB4", TypeCB4_from_riscv(w))
         /\ Encodable("CR", TypeCR_from_riscv(w)) /\ Encodable("CS", TypeCS_from_riscv(w))
         /\ Encodable("CSS", TypeCSS_from_riscv(w)) /\ Encodable("CJ", TypeCJ_from_riscv(w))
  BY FromCIW, FromCL, FromCI1, FromCI2, FromCI3, FromCI4, FromCI5, FromCB1, FromCB2, FromCB4,
     FromCR, FromCS, FromCSS, FromCJ

\* A word converted to a 32-bit instruction, or refused.
Returned32(x) == \/ x.tag = "InvalidInstruction"
                 \/ x.tag = "Ok" /\ x.size = 4

(* embive_raw! gives the size of the format.                               *)
LEMMA RawTags ==
  ASSUME NEW op, NEW f
  PROVE  EmbiveRaw(op, f).tag = "Ok" /\ EmbiveRaw(op, f).size = Size(FormatOf(op))
  BY DEF EmbiveRaw

LEMMA WithFuncReturns ==
  ASSUME NEW w, NEW f, NEW arms,
         NEW op \in {"Branch", "LoadStore", "OpImm", "OpAmo", "SystemMiscMem"}
  PROVE  Returned32(WithFunc(w, op, f, arms))
  <1>1. Size(FormatOf(op)) = 4
    BY WordOps
  <1>2. CASE \E a \in arms : a[1] = f.func
    <2>1. PICK g : WithFunc(w, op, f, arms) = EmbiveRaw(op, g)
      BY <1>2 DEF WithFunc
    <2> QED
      BY <1>1, <2>1, RawTags DEF Returned32
  <1>3. CASE ~\E a \in arms : a[1] = f.func
    <2>1. WithFunc(w, op, f, arms) = InvalidInstruction(w)
      BY <1>3 DEF WithFunc
    <2> QED
      BY <2>1 DEF Returned32, InvalidInstruction
  <1> QED
    BY <1>2, <1>3

(* A word whose two low bits are set.                                      *)
LEMMA WordReturns ==
  ASSUME NEW w \in SUBSET (0..31), Field(w, 0, 7) % 4 = 3
  PROVE  Returned32(ConvertInstruction(w))
  <1>1. \A op \in {"SystemMiscMem", "Auipc", "Lui", "Jalr", "Jal"} :
          \A f : Returned32(EmbiveRaw(op, f))
    BY RawTags, WordOps DEF Returned32
  <1>2. Returned32(InvalidInstruction(w))
    BY DEF Returned32, InvalidInstruction
  <1>3. Returned32(Load(w)) /\ Returned32(Store(w)) /\ Returned32(Branch(w))
    BY WithFuncReturns DEF Load, Store, Branch
  <1>4. Returned32(OpImm(w)) /\ Returned32(Op(w))
    BY WithFuncReturns DEF OpImm, Op
  <1>5. Returned32(Amo(w))
    BY <1>2, WithFuncReturns DEF Amo
  <1>6. Returned32(MiscMem(w))
    BY <1>1 DEF MiscMem
  <1>7. Returned32(System(w))
    BY <1>1, WithFuncReturns DEF System
  <1>8. PICK k : k = Field(w, 0, 7) /\ k % 4 # 0 /\ k % 4 # 1 /\ k % 4 # 2
    OBVIOUS
  <1>9. \/ ConvertInstruction(w) \in {Load(w), MiscMem(w), OpImm(w), Store(w), Amo(w), Op(w),
                                     Branch(w), System(w), InvalidInstruction(w)}
        \/ \E op \in {"Auipc", "Lui", "Jalr", "Jal"} :
             \E f : ConvertInstruction(w) = EmbiveRaw(op, f)
    BY <1>8 DEF ConvertInstruction
  <1> QED
    BY <1>1, <1>2, <1>3, <1>4, <1>5, <1>6, <1>7, <1>9

\* A 16-bit instruction of Embive, with fields that its format can hold.
Short(x) == \E op, f : /\ op \in OpNames /\ x = EmbiveRaw(op, f)
                       /\ Encodable(FormatOf(op), f)
                       /\ Size(FormatOf(op)) = 2

Returned16(x) == x.tag = "InvalidInstruction" \/ Short(x)

(* A word whose two low bits are not both set.                             *)
LEMMA HalfwordReturns ==
  ASSUME NEW w \in SUBSET (0..31), Field(w, 0, 7) % 4 # 3
  PROVE  Returned16(ConvertInstruction(w))
  <1>1. \A x : Returned16(InvalidInstruction(x))
    BY DEF Returned16, InvalidInstruction
  <1>2. \A op \in OpNames :
          \A f : Encodable(FormatOf(op), f) /\ Size(FormatOf(op)) = 2
                  => Returned16(EmbiveRaw(op, f))
    BY DEF Returned16, Short
  <1>3. /\ Field(w, 13, 3) \in 0..7 /\ Field(w, 10, 2) \in 0..3 /\ Field(w, 5, 2) \in 0..3
        /\ Field(w, 0, 7) \in 0..127
    BY FieldBits, FieldRange
  <1>4. Returned16(C0(w))
    <2>1. /\ Returned16(EmbiveRaw("CAddi4spn", TypeCIW_from_riscv(w)))
          /\ Returned16(EmbiveRaw("CLw", TypeCL_from_riscv(w)))
          /\ Returned16(EmbiveRaw("CSw", TypeCL_from_riscv(w)))
      BY <1>2, FromHalfword, FormatsOf DEF OpNames, Size
    <2> QED
      BY <1>1, <2>1 DEF C0
  <1>5. Returned16(C1Arithmetic(w))
    <2>1. /\ Returned16(EmbiveRaw("CSrli", TypeCB1_from_riscv(w)))
          /\ Returned16(EmbiveRaw("CSrai", TypeCB1_from_riscv(w)))
          /\ Returned16(EmbiveRaw("CAndi", TypeCB2_from_riscv(w)))
      BY <1>2, FromHalfword, FormatsOf DEF OpNames, Size
    <2>2. \A op \in {"CSub", "CXor", "COr", "CAnd"} :
            Returned16(EmbiveRaw(op, TypeCS_from_riscv(w)))
      BY <1>2, FromHalfword, FormatsOf DEF OpNames, Size
    <2>3. <<"CSub", "CXor", "COr", "CAnd">>[Field(w, 5, 2) + 1] \in {"CSub", "CXor", "COr", "CAnd"}
      BY <1>3
    <2> QED
      BY <1>1, <2>1, <2>2, <2>3 DEF C1Arithmetic
  <1>6. Returned16(C1(w))
    <2>1. /\ Returned16(EmbiveRaw("CAddi", TypeCI1_from_riscv(w)))
          /\ Returned16(EmbiveRaw("CJal", TypeCJ_from_riscv(w)))
          /\ Returned16(EmbiveRaw("CLi", TypeCI1_from_riscv(w)))
          /\ Returned16(EmbiveRaw("CAddi16sp", TypeCI2_from_riscv(w)))
          /\ Returned16(EmbiveRaw("CLui", TypeCI3_from_riscv(w)))
      BY <1>2, FromHalfword, FormatsOf DEF OpNames, Size
    <2>2. /\ Returned16(EmbiveRaw("CJ", TypeCJ_from_riscv(w)))
          /\ Returned16(EmbiveRaw("CBeqz", TypeCB4_from_riscv(w)))
          /\ Returned16(EmbiveRaw("CBnez", TypeCB4_from_riscv(w)))
      BY <1>2, FromHalfword, FormatsOf DEF OpNames, Size
    <2> QED
      BY <1>3, <1>5, <2>1, <2>2 DEF C1
  <1>7. Returned16(C2(w))
    <2>1. /\ Returned16(EmbiveRaw("CSlli", TypeCI4_from_riscv(w)))
          /\ Returned16(EmbiveRaw("CLwsp", TypeCI5_from_riscv(w)))
          /\ Returned16(EmbiveRaw("CJrMv", TypeCR_from_riscv(w)))
          /\ Returned16(EmbiveRaw("CEbreakJalrAdd", TypeCR_from_riscv(w)))
          /\ Returned16(EmbiveRaw("CSwsp", TypeCSS_from_riscv(w)))
      BY <1>2, FromHalfword, FormatsOf DEF OpNames, Size
    <2> QED
      BY <1>1, <2>1 DEF C2
  <1>8. Field(w, 0, 7) % 4 \in {0, 1, 2}
    BY <1>3
  <1> QED
    BY <1>4, <1>6, <1>7, <1>8 DEF ConvertInstruction

\* Two words with the same low half.
SameLow(w, v) == \A b \in 0..15 : b \in v <=> b \in w

LEMMA LowMasked ==
  ASSUME NEW w \in SUBSET (0..31), NEW v \in SUBSET (0..31), SameLow(w, v),
         NEW lo \in 0..15, NEW n \in 0..16, lo + n <= 16
  PROVE  Masked(v, lo, n) = Masked(w, lo, n) /\ Field(v, lo, n) = Field(w, lo, n)
  <1>1. \A b \in 0..31 : b \in Masked(v, lo, n) <=> b \in Masked(w, lo, n)
    BY DEF Masked, SameLow
  <1>2. Masked(v, lo, n) \in SUBSET (0..31) /\ Masked(w, lo, n) \in SUBSET (0..31)
    BY DEF Masked
  <1>3. Masked(v, lo, n) = Masked(w, lo, n)
    BY <1>1, <1>2, SameBits
  <1> QED
    BY <1>3 DEF Field

(* The fields of the 16-bit formats are in the low half of the word.       *)
LEMMA LowFields ==
  ASSUME NEW w \in SUBSET (0..31), NEW v \in SUBSET (0..31), SameLow(w, v)
  PROVE  /\ TypeCIW_from_riscv(v) = TypeCIW_from_riscv(w)
         /\ TypeCL_from_riscv(v) = TypeCL_from_riscv(w)
         /\ TypeCI1_from_riscv(v) = TypeCI1_from_riscv(w)
         /\ TypeCI2_from_riscv(v) = TypeCI2_from_riscv(w)
         /\ TypeCI3_from_riscv(v) = TypeCI3_from_riscv(w)
         /\ TypeCI4_from_riscv(v) = TypeCI4_from_riscv(w)
         /\ TypeCI5_from_riscv(v) = TypeCI5_from_riscv(w)
         /\ TypeCB1_from_riscv(v) = TypeCB1_from_riscv(w)
         /\ TypeCB2_from_riscv(v) = TypeCB2_from_riscv(w)
         /\ TypeCB4_from_riscv(v) = TypeCB4_from_riscv(w)
         /\ TypeCR_from_riscv(v) = TypeCR_from_riscv(w)
         /\ TypeCS_from_riscv(v) = TypeCS_from_riscv(w)
         /\ TypeCSS_from_riscv(v) = TypeCSS_from_riscv(w)
         /\ TypeCJ_from_riscv(v) = TypeCJ_from_riscv(w)
  <1>1. \A lo \in 0..15, n \in 0..16 :
          lo + n <= 16 => Masked(v, lo, n) = Masked(w, lo, n) /\ Field(v, lo, n) = Field(w, lo, n)
    BY LowMasked
  <1>2. TypeCIW_from_riscv(v) = TypeCIW_from_riscv(w)
    <2>1. /\ Masked(v, 6, 1) = Masked(w, 6, 1) /\ Masked(v, 5, 1) = Masked(w, 5, 1)
          /\ Masked(v, 11, 2) = Masked(w, 11, 2) /\ Masked(v, 7, 4) = Masked(w, 7, 4)
          /\ Field(v, 2, 3) = Field(w, 2, 3)
      BY <1>1
    <2> QED
      BY <2>1 DEF TypeCIW_from_riscv
  <1>3. TypeCL_from_riscv(v) = TypeCL_from_riscv(w)
    <2>1. /\ Masked(v, 5, 1) = Masked(w, 5, 1) /\ Masked(v, 10, 3) = Masked(w, 10, 3)
          /\ Masked(v, 6, 1) = Masked(w, 6, 1) /\ Field(v, 2, 3) = Field(w, 2, 3)
          /\ Field(v, 7, 3) = Field(w, 7, 3)
      BY <1>1
    <2> QED
      BY <2>1 DEF TypeCL_from_riscv
  <1>4. TypeCI1_from_riscv(v) = TypeCI1_from_riscv(w)
    <2>1. /\ Masked(v, 2, 5) = Masked(w, 2, 5) /\ Masked(v, 12, 1) = Masked(w, 12, 1)
          /\ Field(v, 7, 5) = Field(w, 7, 5)
      BY <1>1
    <2> QED
      BY <2>1 DEF TypeCI1_from_riscv, Imm6
  <1>5. TypeCI2_from_riscv(v) = TypeCI2_from_riscv(w)
    <2>1. /\ Masked(v, 12, 1) = Masked(w, 12, 1) /\ Masked(v, 3, 2) = Masked(w, 3, 2)
          /\ Masked(v, 5, 1) = Masked(w, 5, 1) /\ Masked(v, 2, 1) = Masked(w, 2, 1)
          /\ Masked(v, 6, 1) = Masked(w, 6, 1) /\ Field(v, 7, 5) = Field(w, 7, 5)
      BY <1>1
    <2> QED
      BY <2>1 DEF TypeCI2_from_riscv
  <1>6. TypeCI3_from_riscv(v) = TypeCI3_from_riscv(w)
    <2>1. /\ Masked(v, 2, 5) = Masked(w, 2, 5) /\ Masked(v, 12, 1) = Masked(w, 12, 1)
          /\ Field(v, 7, 5) = Field(w, 7, 5)
      BY <1>1
    <2> QED
      BY <2>1 DEF TypeCI3_from_riscv, Imm6
  <1>7. TypeCI4_from_riscv(v) = TypeCI4_from_riscv(w)
    <2>1. /\ Masked(v, 2, 5) = Masked(w, 2, 5) /\ Masked(v, 12, 1) = Masked(w, 12, 1)
          /\ Field(v, 7, 5) = Field(w, 7, 5)
      BY <1>1
    <2> QED
      BY <2>1 DEF TypeCI4_from_riscv, Imm6
  <1>8. TypeCI5_from_riscv(v) = TypeCI5_from_riscv(w)
    <2>1. /\ Masked(v, 2, 2) = Masked(w, 2, 2) /\ Masked(v, 12, 1) = Masked(w, 12, 1)
          /\ Masked(v, 4, 3) = Masked(w, 4, 3) /\ Field(v, 7, 5) = Field(w, 7, 5)
      BY <1>1
    <2> QED
      BY <2>1 DEF TypeCI5_from_riscv
  <1>9. TypeCB1_from_riscv(v) = TypeCB1_from_riscv(w)
    <2>1. /\ Masked(v, 2, 5) = Masked(w, 2, 5) /\ Masked(v, 12, 1) = Masked(w, 12, 1)
          /\ Field(v, 7, 3) = Field(w, 7, 3)
      BY <1>1
    <2> QED
      BY <2>1 DEF TypeCB1_from_riscv, Imm6
  <1>10. TypeCB2_from_riscv(v) = TypeCB2_from_riscv(w)
    <2>1. /\ Masked(v, 2, 5) = Masked(w, 2, 5) /\ Masked(v, 12, 1) = Masked(w, 12, 1)
          /\ Field(v, 7, 3) = Field(w, 7, 3)
      BY <1>1
    <2> QED
      BY <2>1 DEF TypeCB2_from_riscv, Imm6
  <1>11. TypeCB4_from_riscv(v) = TypeCB4_from_riscv(w)
    <2>1. /\ Masked(v, 12, 1) = Masked(w, 12, 1) /\ Masked(v, 5, 2) = Masked(w, 5, 2)
          /\ Masked(v, 2, 1) = Masked(w, 2, 1) /\ Masked(v, 10, 2) = Masked(w, 10, 2)
          /\ Masked(v, 3, 2) = Masked(w, 3, 2) /\ Field(v, 7, 3) = Field(w, 7, 3)
      BY <1>1
    <2> QED
      BY <2>1 DEF TypeCB4_from_riscv
  <1>12. TypeCR_from_riscv(v) = TypeCR_from_riscv(w)
    <2>1. /\ Field(v, 7, 5) = Field(w, 7, 5) /\ Field(v, 2, 5) = Field(w, 2, 5)
      BY <1>1
    <2> QED
      BY <2>1 DEF TypeCR_from_riscv
  <1>13. TypeCS_from_riscv(v) = TypeCS_from_riscv(w)
    <2>1. /\ Field(v, 7, 3) = Field(w, 7, 3) /\ Field(v, 2, 3) = Field(w, 2, 3)
      BY <1>1
    <2> QED
      BY <2>1 DEF TypeCS_from_riscv
  <1>14. TypeCSS_from_riscv(v) = TypeCSS_from_riscv(w)
    <2>1. /\ Masked(v, 7, 2) = Masked(w, 7, 2) /\ Masked(v, 9, 4) = Masked(w, 9, 4)
          /\ Field(v, 2, 5) = Field(w, 2, 5)
      BY <1>1
    <2> QED
      BY <2>1 DEF TypeCSS_from_riscv
  <1>15. TypeCJ_from_riscv(v) = TypeCJ_from_riscv(w)
    <2>1. /\ Masked(v, 12, 1) = Masked(w, 12, 1) /\ Masked(v, 8, 1) = Masked(w, 8, 1)
          /\ Masked(v, 9, 2) = Masked(w, 9, 2) /\ Masked(v, 6, 1) = Masked(w, 6, 1)
          /\ Masked(v, 7, 1) = Masked(w, 7, 1) /\ Masked(v, 2, 1) = Masked(w, 2, 1)
          /\ Masked(v, 11, 1) = Masked(w, 11, 1) /\ Masked(v, 3, 3) = Masked(w, 3, 3)
      BY <1>1
    <2> QED
      BY <2>1 DEF TypeCJ_from_riscv
  <1> QED
    BY <1>2, <1>3, <1>4, <1>5, <1>6, <1>7, <1>8, <1>9, <1>10, <1>11, <1>12, <1>13, <1>14, <1>15

(* convert of a 16-bit instruction does not depend on what follows it.     *)
LEMMA LowConverts ==
  ASSUME NEW w \in SUBSET (0..31), NEW v \in SUBSET (0..31), SameLow(w, v),
         Field(w, 0, 7) % 4 # 3
  PROVE  ConvertInstruction(v) = ConvertInstruction(w)
  <1>1. /\ Field(v, 0, 7) = Field(w, 0, 7) /\ Field(v, 13, 3) = Field(w, 13, 3)
        /\ Field(v, 10, 2) = Field(w, 10, 2) /\ Field(v, 5, 2) = Field(w, 5, 2)
        /\ Masked(v, 0, 16) = Masked(w, 0, 16)
    BY LowMasked
  <1>2. 12 \notin v <=> 12 \notin w
    BY DEF SameLow
  <1>3. C0(v) = C0(w)
    BY <1>1, LowFields DEF C0
  <1>4. C1Arithmetic(v) = C1Arithmetic(w)
    BY <1>1, <1>2, LowFields DEF C1Arithmetic
  <1>5. C1(v) = C1(w)
    BY <1>1, <1>4, LowFields DEF C1
  <1>6. C2(v) = C2(w)
    BY <1>1, <1>2, LowFields DEF C2
  <1>7. Field(w, 0, 7) % 4 \in {0, 1, 2}
    BY FieldBits
  <1> QED
    BY <1>1, <1>3, <1>5, <1>6, <1>7 DEF ConvertInstruction

-----------------------------------------------------------------------------
(* The conversion of a word, as a specification                            *)

\* A word to convert, and what convert returned for it.
Inv == /\ data \in SUBSET (0..31)
       /\ \/ result = Pending /\ data \in Heads
          \/ result # Pending /\ result = ConvertInstruction(data)

LEMMA NeverPending ==
  ASSUME NEW w \in SUBSET (0..31)
  PROVE  ConvertInstruction(w) # Pending
  <1>1. \A x : Returned32(x) => x.tag # "Pending"
    BY DEF Returned32
  <1>2. \A x : Returned16(x) => x.tag # "Pending"
    BY RawTags DEF Returned16, Short
  <1>3. ConvertInstruction(w).tag # "Pending"
    BY <1>1, <1>2, WordReturns, HalfwordReturns
  <1> QED
    BY <1>3 DEF Pending

LEMMA InvHolds == Spec => []Inv
  <1>1. Init => Inv
    BY WordsAssumption DEF Init, Inv, Bits
  <1>2. Inv /\ [Next]_vars => Inv'
    <2> SUFFICES ASSUME Inv, [Next]_vars PROVE Inv'
      OBVIOUS
    <2>1. CASE UNCHANGED vars
      BY <2>1 DEF Inv, vars, Pending
    <2>2. CASE Next
      <3>1. PICK t \in Tails(data) : /\ data' = data \cup t
                                     /\ result' = ConvertInstruction(data \cup t)
        BY <2>2 DEF Next
      <3>2. data \in Heads
        BY <2>2 DEF Inv, Next
      <3>3. data \cup t \in SUBSET (0..31)
        BY <3>1, <3>2, WordsAssumption DEF Bits
      <3>4. data' \in SUBSET (0..31) /\ result' = ConvertInstruction(data')
        BY <3>1, <3>3
      <3>5. result' # Pending
        BY <3>4, NeverPending
      <3> QED
        BY <3>4, <3>5 DEF Inv, Pending
    <2> QED
      BY <2>1, <2>2
  <1> QED
    BY <1>1, <1>2, PTL DEF Spec

LEMMA NoneAdded ==
  ASSUME NEW s
  PROVE  s \cup {} = s
  OBVIOUS

\* The bytes that are kept of what convert returns.
Kept(x) == Masked(x.data, 0, 8 * x.size)

LEMMA RowsMeaning ==
  ASSUME NEW w, NEW m \in RiscvMeanings(w)
  PROVE  \E r \in RowsFor(w) : m = MeaningOf(r, w)
  BY DEF RiscvMeanings, MeaningOf

(* A word that agrees with a row is decoded as that row says.              *)
LEMMA AgreesMeans ==
  ASSUME NEW w \in SUBSET (0..31), NEW r, Agrees(w, r)
  PROVE  /\ ConvertInstruction(w).tag = "Ok" /\ ConvertInstruction(w).size = Width(w)
         /\ EmbiveMeaning(Kept(ConvertInstruction(w))) = MeaningOf(r, w)
  <1>1. PICK op, f : /\ Becomes(w, op, f)
                     /\ Size(FormatOf(op)) = Width(w)
                     /\ Executed(op, f) = MeaningOf(r, w)
    BY DEF Agrees
  <1>2. op \in OpNames /\ Encodable(FormatOf(op), f) /\ ConvertInstruction(w) = EmbiveRaw(op, f)
    BY <1>1 DEF Becomes
  <1>3. PICK x : x = EmbiveRaw(op, f)
    OBVIOUS
  <1>4. x.tag = "Ok" /\ x.size = Width(w)
    BY <1>1, <1>3, RawTags
  <1>5. PICK k, none : k = Kept(x) /\ none = {} /\ k \cup none = k
    BY NoneAdded
  <1>6. none \in SUBSET ((8 * EmbiveRaw(op, f).size)..31)
    BY <1>5
  <1>7. DecodeInstruction(Masked(EmbiveRaw(op, f).data, 0, 8 * EmbiveRaw(op, f).size) \cup none)
          = [op |-> op, fields |-> f]
    BY <1>2, <1>6, Decodes
  <1>8. DecodeInstruction(k) = [op |-> op, fields |-> f]
    BY <1>3, <1>5, <1>7 DEF Kept
  <1>9. EmbiveMeaning(k) = Executed(op, f)
    BY <1>8 DEF EmbiveMeaning
  <1> QED
    BY <1>1, <1>2, <1>3, <1>4, <1>5, <1>9

(* convert.rs, format.rs and instruction.rs: for every word that is a      *)
(* RISC-V instruction, the interpreter decodes from the converted word the *)
(* same operation, registers and immediate, for all 2^32 words.            *)
THEOREM MeaningIsPreserved == Spec => []ConversionPreservesMeaning
  <1>1. Inv => ConversionPreservesMeaning
    <2> SUFFICES ASSUME Inv, Converted, NEW m \in RiscvMeanings(data)
                 PROVE  EmbiveMeaning(Written) = m
      BY DEF ConversionPreservesMeaning
    <2>1. data \in SUBSET (0..31) /\ result = ConvertInstruction(data)
      BY DEF Inv, Converted, Pending
    <2>2. PICK r \in RowsFor(data) : m = MeaningOf(r, data)
      BY RowsMeaning
    <2>3. Agrees(data, r)
      BY <2>1, <2>2, RowsAgree
    <2>4. EmbiveMeaning(Kept(ConvertInstruction(data))) = MeaningOf(r, data)
      BY <2>1, <2>3, AgreesMeans
    <2> QED
      BY <2>1, <2>2, <2>4 DEF Kept, Written
  <1> QED
    BY <1>1, InvHolds, PTL

(* convert.rs: no RISC-V instruction is refused, and its size is the one   *)
(* it has in RISC-V, so that transpile_raw stays on the boundaries.        *)
THEOREM InstructionsAreConverted == Spec => []EveryInstructionIsConverted
  <1>1. Inv => EveryInstructionIsConverted
    <2> SUFFICES ASSUME Inv, result # Pending, RiscvMeanings(data) # {}
                 PROVE  Converted /\ result.size = IF {0, 1} \subseteq data THEN 4 ELSE 2
      BY DEF EveryInstructionIsConverted
    <2>1. data \in SUBSET (0..31) /\ result = ConvertInstruction(data)
      BY DEF Inv
    <2>2. PICK m : m \in RiscvMeanings(data)
      OBVIOUS
    <2>3. PICK r \in RowsFor(data) : m = MeaningOf(r, data)
      BY <2>2, RowsMeaning
    <2>4. Agrees(data, r)
      BY <2>1, <2>3, RowsAgree
    <2> QED
      BY <2>1, <2>4, AgreesMeans DEF Width, Converted
  <1> QED
    BY <1>1, InvHolds, PTL

(* fetch and transpile_raw read four bytes at a 16-bit instruction:        *)
(* neither what the interpreter decodes nor what convert returns depends   *)
(* on what follows the instruction.                                        *)
THEOREM FollowersAreIgnored == Spec => []NextInstructionIsIgnored
  <1>1. Inv => NextInstructionIsIgnored
    <2> SUFFICES ASSUME Inv, Converted, result.size = 2, NEW junk \in Followers
                 PROVE  /\ DecodeInstruction(Written \cup junk) = DecodeInstruction(Written)
                        /\ ConvertInstruction(data \cup junk) = result
      BY DEF NextInstructionIsIgnored
    <2>1. PICK w, x, k : w = data /\ x = result /\ k = Written
      OBVIOUS
    <2>2. w \in SUBSET (0..31) /\ x = ConvertInstruction(w) /\ x.tag = "Ok" /\ x.size = 2
      BY <2>1 DEF Inv, Converted, Pending
    <2>3. junk \in SUBSET (16..31)
      BY WordsAssumption
    <2>4. Field(w, 0, 7) % 4 # 3
      BY <2>2, WordReturns DEF Returned32
    <2>5. PICK op, f : /\ op \in OpNames /\ x = EmbiveRaw(op, f)
                       /\ Encodable(FormatOf(op), f)
                       /\ Size(FormatOf(op)) = 2
      BY <2>2, <2>4, HalfwordReturns DEF Returned16, Short
    <2>6. EmbiveRaw(op, f).size = 2
      BY <2>5, RawTags
    <2>7. k = Masked(EmbiveRaw(op, f).data, 0, 8 * EmbiveRaw(op, f).size)
      BY <2>1, <2>5 DEF Written
    <2>8. \A j \in SUBSET (16..31) : DecodeInstruction(k \cup j) = [op |-> op, fields |-> f]
      BY <2>5, <2>6, <2>7, Decodes
    <2>9. PICK none : none = {} /\ none \in SUBSET (16..31) /\ k \cup none = k
      BY NoneAdded
    <2>10. DecodeInstruction(k \cup junk) = DecodeInstruction(k)
      BY <2>3, <2>8, <2>9
    <2>11. PICK v : v = w \cup junk
      OBVIOUS
    <2>12. v \in SUBSET (0..31) /\ SameLow(w, v)
      BY <2>2, <2>3, <2>11 DEF SameLow
    <2>13. ConvertInstruction(v) = x
      BY <2>2, <2>4, <2>12, LowConverts
    <2> QED
      BY <2>1, <2>10, <2>11, <2>13
  <1> QED
    BY <1>1, InvHolds, PTL

=============================================================================
