----------------------------- MODULE MulDivProofs ----------------------------
(***************************************************************************)
(* Theorems about multiplication and division, for every word width.       *)
(***************************************************************************)
EXTENDS MulDivUnit, TLAPS

-----------------------------------------------------------------------------
(* Integer division                                                        *)

(* Division by a positive number: quotient and remainder.                  *)
LEMMA DivMod ==
  ASSUME NEW i \in Int, NEW m \in Nat \ {0}
  PROVE  /\ i \div m \in Int /\ i % m \in 0..(m - 1)
         /\ i = m * (i \div m) + (i % m)
  BY SMT

(* A multiple of m between -m and m is 0.                                  *)
LEMMA SmallMultiple ==
  ASSUME NEW m \in Nat \ {0}, NEW k \in Int, m * k < m, m * k > -m
  PROVE  k = 0
  <1>1. k >= 1 => m * k >= m
    BY SMT
  <1>2. k <= -1 => m * k <= -m
    BY SMT
  <1> QED
    BY <1>1, <1>2

(* They are unique.                                                        *)
LEMMA DivUnique ==
  ASSUME NEW m \in Nat \ {0}, NEW q \in Int, NEW r \in 0..(m - 1)
  PROVE  (m * q + r) \div m = q /\ (m * q + r) % m = r
  <1> DEFINE i == m * q + r
             d == i \div m
             e == i % m
  <1>1. i \in Int /\ d \in Int /\ e \in 0..(m - 1) /\ i = m * d + e
    BY DivMod
  <1>2. m * (d - q) = r - e
    BY <1>1
  <1>3. r - e < m /\ r - e > -m
    BY <1>1
  <1> HIDE DEF i, d, e
  <1>4. d - q = 0
    BY <1>1, <1>2, <1>3, SmallMultiple
  <1>5. d = q /\ e = r
    BY <1>1, <1>2, <1>4
  <1> QED
    BY <1>5 DEF i, d, e

(* Adding a multiple of m does not change the remainder.                   *)
LEMMA ModShift ==
  ASSUME NEW m \in Nat \ {0}, NEW i \in Int, NEW k \in Int
  PROVE  (i + m * k) % m = i % m
  <1> DEFINE d == i \div m
             e == i % m
  <1>1. d \in Int /\ e \in 0..(m - 1) /\ i = m * d + e
    BY DivMod
  <1> HIDE DEF d, e
  <1>2. i + m * k = m * (d + k) + e
    BY <1>1
  <1>3. (m * (d + k) + e) % m = e
    BY <1>1, DivUnique
  <1> QED
    BY <1>2, <1>3 DEF e

-----------------------------------------------------------------------------
(* Words                                                                   *)

(* A word has an even number of values.                                    *)
LEMMA Width == /\ MOD \in Nat \ {0} /\ SIGN \in Nat /\ SIGN >= 2 /\ MOD = 2 * SIGN
  <1> DEFINE two == BASE * BASE
             three == BASE * two
             h == BASE \div 2
  <1>1. BASE \in Nat /\ BASE >= 4 /\ BASE % 2 = 0
    BY BaseAssumption
  <1>2. h \in Nat /\ BASE = 2 * h
    BY <1>1
  <1>3. two \in Nat /\ two >= 4 /\ three \in Nat /\ three >= 4
    <2>1. two \in Nat /\ two >= 4
      BY <1>1
    <2> HIDE DEF two
    <2> QED
      BY <1>1, <2>1
  <1>4. MOD = BASE * three
    BY DEF MOD
  <1> HIDE DEF two, three, h
  <1>5. h >= 2 /\ BASE * three = 2 * (h * three) /\ h * three \in Nat /\ h * three >= 4
    BY <1>1, <1>2, <1>3
  <1>6. SIGN = h * three
    BY <1>4, <1>5 DEF SIGN
  <1> QED
    BY <1>4, <1>5, <1>6

(* The two views of a word.                                                *)
LEMMA SignedType ==
  ASSUME NEW w \in Word
  PROVE  /\ w \in Int /\ w >= 0 /\ w < MOD
         /\ Signed(w) \in Int /\ Signed(w) >= -SIGN /\ Signed(w) < SIGN
         /\ \E k \in {0, 1} : w = Signed(w) + MOD * k
         /\ Signed(w) = 0 <=> w = 0
  <1>1. w \in Int /\ w >= 0 /\ w < MOD
    BY Width DEF Word
  <1>2. CASE w >= SIGN
    <2>1. Signed(w) = w - MOD
      BY <1>2 DEF Signed
    <2>2. w = Signed(w) + MOD * 1
      BY <1>1, <2>1, Width
    <2> QED
      BY <1>1, <1>2, <2>1, <2>2, Width
  <1>3. CASE ~(w >= SIGN)
    <2>1. Signed(w) = w
      BY <1>3 DEF Signed
    <2>2. w = Signed(w) + MOD * 0
      BY <1>1, <2>1, Width
    <2> QED
      BY <1>1, <1>3, <2>1, <2>2, Width
  <1> QED
    BY <1>2, <1>3

(* as i32 after a wrapping operation is exact for what an i32 holds.       *)
LEMMA SignedWrap ==
  ASSUME NEW t \in Int, t >= -SIGN, t < SIGN
  PROVE  Signed(Wrap(t)) = t
  <1>1. CASE t >= 0
    <2>1. t = MOD * 0 + t /\ t \in 0..(MOD - 1) /\ MOD \in Nat \ {0}
      BY <1>1, Width
    <2>2. (MOD * 0 + t) % MOD = t
      BY <2>1, DivUnique
    <2>3. Wrap(t) = t
      BY <2>1, <2>2 DEF Wrap
    <2> QED
      BY <2>3, Width DEF Signed
  <1>2. CASE t < 0
    <2>1. t = MOD * (-1) + (t + MOD) /\ t + MOD \in 0..(MOD - 1) /\ MOD \in Nat \ {0}
      BY <1>2, Width
    <2>2. (MOD * (-1) + (t + MOD)) % MOD = t + MOD
      BY <2>1, DivUnique
    <2>3. Wrap(t) = t + MOD
      BY <2>1, <2>2 DEF Wrap
    <2> QED
      BY <1>2, <2>3, Width DEF Signed
  <1> QED
    BY <1>1, <1>2

-----------------------------------------------------------------------------
(* Division                                                                *)

(* Truncated division leaves a remainder smaller than the divisor, with    *)
(* the sign of the dividend; the quotient is no larger than the dividend,  *)
(* and at most half of it unless the divisor is 1 or -1.                   *)
LEMMA TruncDivExact ==
  ASSUME NEW i \in Int, NEW j \in Int, j # 0
  PROVE  /\ TruncDiv(i, j) \in Int
         /\ Abs(i - j * TruncDiv(i, j)) < Abs(j)
         /\ i - j * TruncDiv(i, j) # 0 => (i - j * TruncDiv(i, j) < 0 <=> i < 0)
         /\ Abs(TruncDiv(i, j)) <= Abs(i)
         /\ Abs(j) >= 2 => 2 * Abs(TruncDiv(i, j)) <= Abs(i)
         /\ (i < 0) = (j < 0) => TruncDiv(i, j) >= 0
         /\ (i < 0) # (j < 0) => TruncDiv(i, j) <= 0
  <1> DEFINE m == Abs(i)
             n == Abs(j)
             d == m \div n
             e == m % n
             t == TruncDiv(i, j)
  <1>1. m \in Nat /\ n \in Nat \ {0}
    BY DEF Abs
  <1>2. d \in Int /\ e \in 0..(n - 1) /\ m = n * d + e
    <2> HIDE DEF m, n
    <2>1. m \in Int
      BY <1>1
    <2> QED
      BY <1>1, <2>1, DivMod
  <1>3. t = IF (i < 0) = (j < 0) THEN d ELSE -d
    BY DEF TruncDiv
  <1>4. (i = IF i < 0 THEN -m ELSE m) /\ (j = IF j < 0 THEN -n ELSE n)
    BY DEF Abs
  <1> HIDE DEF m, n, d, e, t
  <1>5. d >= 0
    <2>1. d <= -1 => n * d <= -n
      BY <1>1, <1>2
    <2> QED
      BY <1>1, <1>2, <2>1
  <1>6. d <= m /\ (n >= 2 => 2 * d <= m)
    <2>1. n * d >= d /\ (n >= 2 => n * d >= 2 * d)
      BY <1>1, <1>2, <1>5
    <2> QED
      BY <1>1, <1>2, <2>1
  <1>7. t \in Int /\ Abs(t) = d
    BY <1>2, <1>3, <1>5 DEF Abs
  <1>8. i - j * t = IF i < 0 THEN -e ELSE e
    <2> DEFINE p == n * d
    <2>1. j * t = IF i < 0 THEN -p ELSE p
      BY <1>1, <1>2, <1>3, <1>4
    <2>2. p \in Int /\ m = p + e
      BY <1>1, <1>2
    <2> HIDE DEF p
    <2> QED
      BY <1>1, <1>2, <1>4, <2>1, <2>2
  <1>9. Abs(i - j * t) < n /\ (i - j * t # 0 => (i - j * t < 0 <=> i < 0))
    BY <1>1, <1>2, <1>8 DEF Abs
  <1>10. /\ (i < 0) = (j < 0) => t >= 0
         /\ (i < 0) # (j < 0) => t <= 0
    BY <1>2, <1>3, <1>5
  <1> QED
    BY <1>6, <1>7, <1>9, <1>10 DEF m, n, t

(* DIV and REM of an i32 that do not divide by zero or overflow.           *)
LEMMA SignedDivision ==
  ASSUME NEW v \in Word, NEW w \in Word, w # 0, ~(v = SIGN /\ Signed(w) = -1)
  PROVE  LET q == Signed(DivSigned(v, w))  r == Signed(RemSigned(v, w)) IN
         /\ q * Signed(w) + r = Signed(v)
         /\ Abs(r) < Abs(Signed(w))
         /\ r # 0 => (r < 0 <=> Signed(v) < 0)
  <1> DEFINE i == Signed(v)
             j == Signed(w)
             t == TruncDiv(i, j)
             z == i - j * t
  <1>1. i \in Int /\ i >= -SIGN /\ i < SIGN /\ j \in Int /\ j >= -SIGN /\ j < SIGN /\ j # 0
    BY SignedType
  <1>3. i = -SIGN => j # -1
    BY SignedType, Width DEF Signed
  <1>4. DivSigned(v, w) = Wrap(t) /\ RemSigned(v, w) = Wrap(z)
    BY DEF DivSigned, RemSigned
  <1> HIDE DEF i, j
  <1>2. /\ t \in Int /\ z \in Int /\ Abs(z) < Abs(j) /\ (z # 0 => (z < 0 <=> i < 0))
        /\ Abs(t) <= Abs(i) /\ (Abs(j) >= 2 => 2 * Abs(t) <= Abs(i))
        /\ (i < 0) = (j < 0) => t >= 0
        /\ (i < 0) # (j < 0) => t <= 0
    <2>1. t \in Int
      BY <1>1, TruncDivExact
    <2>2. z \in Int
      <3> HIDE DEF t
      <3> QED
        BY <1>1, <2>1
    <2> QED
      BY <1>1, <2>1, <2>2, TruncDivExact
  <1> HIDE DEF t
  <1>5. j * t = i - z
    BY <1>1, <1>2
  <1> HIDE DEF z
  <1>6. t >= -SIGN /\ t < SIGN
    <2>1. CASE i > -SIGN
      BY <1>1, <1>2, <2>1, Width DEF Abs
    <2>2. CASE i = -SIGN /\ j > 0
      BY <1>1, <1>2, <2>2, Width DEF Abs
    <2>3. CASE i = -SIGN /\ j < -1
      BY <1>1, <1>2, <2>3, Width DEF Abs
    <2> QED
      BY <1>1, <1>3, <2>1, <2>2, <2>3, Width
  <1>7. z >= -SIGN /\ z < SIGN
    BY <1>1, <1>2, Width DEF Abs
  <1>8. Signed(Wrap(t)) = t /\ Signed(Wrap(z)) = z
    BY <1>2, <1>6, <1>7, SignedWrap
  <1>9. t * j + z = i
    BY <1>1, <1>2, <1>5
  <1> QED
    BY <1>2, <1>4, <1>8, <1>9 DEF i, j

(* The overflow -2^31 / -1 wraps to -2^31, remainder 0.                    *)
LEMMA OverflowDivision ==
  ASSUME NEW v \in Word, NEW w \in Word, v = SIGN, Signed(w) = -1
  PROVE  w # 0 /\ Signed(DivSigned(v, w)) = Signed(v) /\ Signed(RemSigned(v, w)) = 0
  <1> DEFINE i == Signed(v)
             j == Signed(w)
  <1>1. i \in Int /\ i + SIGN = 0 /\ i < 0 /\ j \in Int /\ j + 1 = 0 /\ j < 0 /\ w # 0
    BY SignedType, Width DEF Signed
  <1>2. DivSigned(v, w) = Wrap(TruncDiv(i, j)) /\ RemSigned(v, w) = Wrap(i - j * TruncDiv(i, j))
    BY <1>1 DEF DivSigned, RemSigned
  <1> HIDE DEF i, j
  <1>3. Abs(i) = SIGN /\ Abs(j) = 1 /\ i < 0 /\ j < 0
    BY <1>1, Width DEF Abs
  <1>4. TruncDiv(i, j) = SIGN /\ i - j * SIGN = 0
    BY <1>1, <1>3, Width DEF TruncDiv
  <1>5. Wrap(SIGN) = SIGN
    <2>1. SIGN = MOD * 0 + SIGN /\ SIGN \in 0..(MOD - 1) /\ MOD \in Nat \ {0}
      BY Width
    <2>2. (MOD * 0 + SIGN) % MOD = SIGN
      BY <2>1, DivUnique
    <2> QED
      BY <2>1, <2>2 DEF Wrap
  <1>6. Signed(Wrap(0)) = 0
    BY Width, SignedWrap
  <1> QED
    BY <1>1, <1>2, <1>4, <1>5, <1>6 DEF i

(* Division by zero.                                                       *)
LEMMA ZeroDivision ==
  ASSUME NEW v \in Word
  PROVE  /\ Signed(DivSigned(v, 0)) = -1 /\ RemSigned(v, 0) = v
         /\ DivUnsigned(v, 0) = MOD - 1 /\ RemUnsigned(v, 0) = v
  BY Width DEF DivSigned, RemSigned, DivUnsigned, RemUnsigned, Signed

(* DIVU and REMU.                                                          *)
LEMMA UnsignedDivision ==
  ASSUME NEW v \in Word, NEW w \in Word, w # 0
  PROVE  /\ DivUnsigned(v, w) * w + RemUnsigned(v, w) = v
         /\ RemUnsigned(v, w) \in 0..(w - 1)
  <1> DEFINE d == v \div w
             e == v % w
  <1>1. v \in Int /\ w \in Nat \ {0}
    BY SignedType
  <1>2. d \in Int /\ e \in 0..(w - 1) /\ v = w * d + e
    BY <1>1, DivMod
  <1>3. DivUnsigned(v, w) = d /\ RemUnsigned(v, w) = e
    BY DEF DivUnsigned, RemUnsigned
  <1> HIDE DEF d, e
  <1>4. d * w + e = v
    BY <1>1, <1>2
  <1> QED
    BY <1>2, <1>3, <1>4

-----------------------------------------------------------------------------
(* Multiplication                                                          *)

(* A quotient lies where its dividend does.                                *)
LEMMA QuotientBounds ==
  ASSUME NEW m \in Nat \ {0}, NEW p \in Int, NEW l \in Int, NEW u \in Int,
         m * l <= p, p < m * u
  PROVE  p \div m \in Int /\ p \div m >= l /\ p \div m < u
  <1> DEFINE d == p \div m
             e == p % m
  <1>1. d \in Int /\ e \in 0..(m - 1) /\ p = m * d + e
    BY DivMod
  <1> HIDE DEF d, e
  <1>2. d <= l - 1 => m * d <= m * l - m
    BY <1>1
  <1>3. d >= u => m * d >= m * u
    BY <1>1
  <1>4. m * d \in Int /\ m * l \in Int /\ m * u \in Int
    BY <1>1
  <1>5. d >= l /\ d < u
    <2> DEFINE md == m * d
               ml == m * l
               mu == m * u
    <2>1. /\ md \in Int /\ ml \in Int /\ mu \in Int /\ p = md + e /\ ml <= p /\ p < mu
          /\ (d <= l - 1 => md <= ml - m) /\ (d >= u => md >= mu)
      BY <1>1, <1>2, <1>3, <1>4
    <2> HIDE DEF md, ml, mu
    <2> QED
      BY <1>1, <2>1
  <1> QED
    BY <1>1, <1>5 DEF d

(* The product of two operands, one of them signed, fits a double word.    *)
LEMMA ProductFits ==
  ASSUME NEW i \in Int, i >= -SIGN, i < SIGN, NEW j \in Int, j > -MOD, j < MOD
  PROVE  i * j \in Int /\ MOD * (-SIGN) <= i * j /\ i * j < MOD * SIGN
  <1> DEFINE s == SIGN
             m == MOD
             sj == s * j
             ms == m * s
  <1>0. s \in Nat /\ s >= 2 /\ m \in Nat
    BY Width
  <1> HIDE DEF s, m
  <1>1. i >= -s /\ i < s /\ j > -m /\ j < m
    BY DEF s, m
  <1>2. /\ i * j \in Int /\ sj \in Int /\ ms \in Int /\ m * (-s) = -ms
    BY <1>0
  <1>3. j >= 0 => i * j >= -sj /\ i * j <= sj
    <2> SUFFICES ASSUME j >= 0 PROVE i * j >= -sj /\ i * j <= sj
      OBVIOUS
    <2>1. (s - i) * j >= 0 /\ (s + i) * j >= 0
      BY <1>0, <1>1
    <2>2. (s - i) * j = sj - i * j /\ (s + i) * j = sj + i * j
      BY <1>0
    <2> QED
      BY <1>2, <2>1, <2>2
  <1>4. j < 0 => i * j <= -sj /\ i * j >= sj
    <2> SUFFICES ASSUME j < 0 PROVE i * j <= -sj /\ i * j >= sj
      OBVIOUS
    <2>1. (s - i) * j <= 0 /\ (s + i) * j <= 0
      BY <1>0, <1>1
    <2>2. (s - i) * j = sj - i * j /\ (s + i) * j = sj + i * j
      BY <1>0
    <2> QED
      BY <1>2, <2>1, <2>2
  <1>5. sj < ms /\ -ms < sj
    <2>1. s * (m - j) > 0 /\ s * (m + j) > 0
      BY <1>0, <1>1
    <2>2. s * (m - j) = ms - sj /\ s * (m + j) = ms + sj
      BY <1>0
    <2> QED
      BY <1>2, <2>1, <2>2
  <1>6. -ms <= i * j /\ i * j < ms
    <2> DEFINE x == i * j
    <2>1. x \in Int /\ (j >= 0 => x >= -sj /\ x <= sj) /\ (j < 0 => x <= -sj /\ x >= sj)
      BY <1>2, <1>3, <1>4
    <2> HIDE DEF x, sj, ms
    <2>2. -ms <= x /\ x < ms
      BY <1>2, <1>5, <2>1
    <2> QED
      BY <2>2 DEF x
  <1> QED
    BY <1>2, <1>6 DEF s, m

(* The low word of the product does not depend on the signedness.          *)
LEMMA LowWord ==
  ASSUME NEW v \in Word, NEW w \in Word
  PROVE  /\ Wrap(v * w) = Wrap(Signed(v) * w)
         /\ Wrap(v * w) = Wrap(Signed(v) * Signed(w))
  <1> DEFINE i == Signed(v)
             j == Signed(w)
  <1>1. v \in Int /\ w \in Int /\ i \in Int /\ j \in Int /\ MOD \in Nat \ {0}
    BY SignedType, Width
  <1>2. PICK k \in {0, 1} : v = i + MOD * k
    BY SignedType
  <1>3. PICK l \in {0, 1} : w = j + MOD * l
    BY SignedType
  <1> HIDE DEF i, j
  <1>4. k * w \in Int /\ i * l \in Int /\ i * w \in Int /\ i * j \in Int
    BY <1>1
  <1>5. v * w = i * w + MOD * (k * w)
    BY <1>1, <1>2
  <1>6. i * w = i * j + MOD * (i * l)
    BY <1>1, <1>3
  <1>7. (i * w + MOD * (k * w)) % MOD = (i * w) % MOD
    BY <1>1, <1>4, ModShift
  <1>8. (i * j + MOD * (i * l)) % MOD = (i * j) % MOD
    BY <1>1, <1>4, ModShift
  <1> QED
    BY <1>5, <1>6, <1>7, <1>8 DEF Wrap, i, j

(* The high word of a product with a signed operand.                       *)
LEMMA HighWord ==
  ASSUME NEW i \in Int, i >= -SIGN, i < SIGN, NEW j \in Int, j > -MOD, j < MOD
  PROVE  Signed(MulHigh(i, j)) * MOD + Wrap(i * j) = i * j
  <1> DEFINE p == i * j
             h == p \div MOD
             e == p % MOD
  <1>1. p \in Int /\ MOD * (-SIGN) <= p /\ p < MOD * SIGN
    BY ProductFits
  <1>2. MulHigh(i, j) = Wrap(h) /\ Wrap(i * j) = e
    BY DEF MulHigh, Wrap
  <1> HIDE DEF p
  <1>3. MOD \in Nat \ {0} /\ -SIGN \in Int /\ SIGN \in Int
    BY Width
  <1>4. h \in Int /\ h >= -SIGN /\ h < SIGN
    BY <1>1, <1>3, QuotientBounds
  <1>5. e \in Int /\ p = MOD * h + e
    BY <1>1, <1>3, DivMod
  <1> HIDE DEF h, e
  <1>6. Signed(Wrap(h)) = h
    BY <1>4, SignedWrap
  <1>7. h * MOD + e = p
    BY <1>3, <1>4, <1>5
  <1> QED
    BY <1>2, <1>6, <1>7 DEF p

(* The high word of the unsigned product.                                  *)
LEMMA HighWordUnsigned ==
  ASSUME NEW v \in Word, NEW w \in Word
  PROVE  MulHigh(v, w) * MOD + Wrap(v * w) = v * w
  <1> DEFINE m == MOD
             p == v * w
             h == p \div m
             e == p % m
  <1>1. v \in Int /\ v >= 0 /\ v < m /\ w \in Int /\ w >= 0 /\ w < m /\ m \in Nat \ {0}
    BY SignedType, Width
  <1>2. MulHigh(v, w) = h % m /\ Wrap(v * w) = e
    BY DEF MulHigh, Wrap
  <1> HIDE DEF m
  <1>3. p \in Int /\ m * 0 <= p /\ p < m * m
    <2>1. p \in Int /\ p >= 0
      BY <1>1
    <2>2. v * (m - w) >= 0 /\ v * (m - w) = v * m - p /\ v * m \in Int
      BY <1>1
    <2>3. (m - v) * m > 0 /\ (m - v) * m = m * m - v * m /\ m * m \in Int
      BY <1>1
    <2> QED
      BY <1>1, <2>1, <2>2, <2>3
  <1> HIDE DEF p
  <1>4. h \in Int /\ h >= 0 /\ h < m
    <2>1. m \in Int /\ 0 \in Int
      BY <1>1
    <2> QED
      BY <1>1, <1>3, <2>1, QuotientBounds
  <1>5. e \in Int /\ p = m * h + e
    BY <1>1, <1>3, DivMod
  <1> HIDE DEF h, e
  <1>6. h % m = h
    <2>1. h \in 0..(m - 1) /\ h = m * 0 + h
      BY <1>1, <1>4
    <2>2. (m * 0 + h) % m = h
      BY <1>1, <2>1, DivUnique
    <2> QED
      BY <2>1, <2>2
  <1>7. h * m + e = p
    BY <1>1, <1>4, <1>5
  <1> QED
    BY <1>2, <1>6, <1>7 DEF p, m

-----------------------------------------------------------------------------
(* The unit                                                                *)

\* What the unit holds after every instruction.
UnitInv == a \in Word /\ b \in Word /\ out = Results(a, b)

LEMMA UnitInductive == UnitSpec => []UnitInv
  <1>1. UnitInit => UnitInv
    BY DEF UnitInit, UnitInv
  <1>2. UnitInv /\ [Execute]_<<a, b, out>> => UnitInv'
    BY DEF UnitInv, Execute
  <1> QED
    BY <1>1, <1>2, PTL DEF UnitSpec

(* Which operator computes which result.                                   *)
LEMMA UnitResults ==
  ASSUME UnitInv
  PROVE  /\ out["div"] = DivSigned(a, b) /\ out["rem"] = RemSigned(a, b)
         /\ out["divu"] = DivUnsigned(a, b) /\ out["remu"] = RemUnsigned(a, b)
         /\ out["mul"] = Wrap(a * b) /\ out["mulh"] = MulHigh(Signed(a), Signed(b))
         /\ out["mulhsu"] = MulHigh(Signed(a), b) /\ out["mulhu"] = MulHigh(a, b)
  <1>1. \A f \in MFunc : out[f] = MulDivOp(f, a, b)
    BY DEF UnitInv, Results
  <1>2. \A f \in {"div", "rem", "divu", "remu", "mul", "mulh", "mulhsu", "mulhu"} : f \in MFunc
    BY DEF MFunc
  <1>3. /\ MulDivOp("div", a, b) = DivSigned(a, b) /\ MulDivOp("rem", a, b) = RemSigned(a, b)
        /\ MulDivOp("divu", a, b) = DivUnsigned(a, b)
        /\ MulDivOp("remu", a, b) = RemUnsigned(a, b)
    BY DEF MulDivOp
  <1>4. /\ MulDivOp("mul", a, b) = Wrap(a * b)
        /\ MulDivOp("mulh", a, b) = MulHigh(Signed(a), Signed(b))
        /\ MulDivOp("mulhsu", a, b) = MulHigh(Signed(a), b)
        /\ MulDivOp("mulhu", a, b) = MulHigh(a, b)
    BY DEF MulDivOp
  <1> QED
    BY <1>1, <1>2, <1>3, <1>4

(* op_amo.rs DIV, DIVU, REM, REMU: for words of every width, quotient and  *)
(* remainder are exact, and a division by zero or the overflow -2^31 / -1  *)
(* has the result the M extension prescribes.                              *)
THEOREM Division == UnitSpec => []DivisionIsExact
  <1>1. UnitInv => DivisionIsExact
    <2> SUFFICES ASSUME UnitInv PROVE DivisionIsExact
      OBVIOUS
    <2>1. a \in Word /\ b \in Word
      BY DEF UnitInv
    <2>2. b = 0 => /\ Signed(DivSigned(a, b)) = -1 /\ RemSigned(a, b) = a
                   /\ DivUnsigned(a, b) = MOD - 1 /\ RemUnsigned(a, b) = a
      BY <2>1, ZeroDivision
    <2>3. b # 0 => /\ DivUnsigned(a, b) * b + RemUnsigned(a, b) = a
                   /\ RemUnsigned(a, b) \in 0..(b - 1)
      BY <2>1, UnsignedDivision
    <2>4. a = SIGN /\ Signed(b) = -1 =>
            Signed(DivSigned(a, b)) = Signed(a) /\ Signed(RemSigned(a, b)) = 0
      BY <2>1, OverflowDivision
    <2>5. b # 0 /\ ~(a = SIGN /\ Signed(b) = -1) =>
            /\ Signed(DivSigned(a, b)) * Signed(b) + Signed(RemSigned(a, b)) = Signed(a)
            /\ Abs(Signed(RemSigned(a, b))) < Abs(Signed(b))
            /\ Signed(RemSigned(a, b)) # 0 =>
                 (Signed(RemSigned(a, b)) < 0 <=> Signed(a) < 0)
      BY <2>1, SignedDivision
    <2> QED
      BY <2>2, <2>3, <2>4, <2>5, UnitResults DEF DivisionIsExact
  <1> QED
    BY <1>1, UnitInductive, PTL

(* op_amo.rs MUL, MULH, MULHSU, MULHU: for words of every width, the high  *)
(* and the low word are the exact product, for each choice of signedness.  *)
THEOREM Product == UnitSpec => []ProductIsExact
  <1>1. UnitInv => ProductIsExact
    <2> SUFFICES ASSUME UnitInv PROVE ProductIsExact
      OBVIOUS
    <2>1. a \in Word /\ b \in Word
      BY DEF UnitInv
    <2>2. /\ Signed(a) \in Int /\ Signed(a) >= -SIGN /\ Signed(a) < SIGN
          /\ Signed(b) \in Int /\ Signed(b) > -MOD /\ Signed(b) < MOD
          /\ b \in Int /\ b > -MOD /\ b < MOD
      BY <2>1, SignedType, Width
    <2>3. Signed(MulHigh(Signed(a), Signed(b))) * MOD + Wrap(Signed(a) * Signed(b))
            = Signed(a) * Signed(b)
      BY <2>2, HighWord
    <2>4. Signed(MulHigh(Signed(a), b)) * MOD + Wrap(Signed(a) * b) = Signed(a) * b
      BY <2>2, HighWord
    <2>5. MulHigh(a, b) * MOD + Wrap(a * b) = a * b
      BY <2>1, HighWordUnsigned
    <2>6. /\ Wrap(a * b) = Wrap(Signed(a) * b)
          /\ Wrap(a * b) = Wrap(Signed(a) * Signed(b))
      BY <2>1, LowWord
    <2> QED
      BY <2>3, <2>4, <2>5, <2>6, UnitResults DEF ProductIsExact
  <1> QED
    BY <1>1, UnitInductive, PTL

=============================================================================
