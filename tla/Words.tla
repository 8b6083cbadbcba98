-------------------------------- MODULE Words --------------------------------
(***************************************************************************)
(* Machine words.  The code works on bytes with 256 values; here a byte    *)
(* has BASE values and a word four bytes, so that the width is a parameter *)
(* and TLC can enumerate words (BASE = 4 gives 8-bit words).  A word is    *)
(* kept unsigned (the `as u32` view); Signed is the `as i32` view.         *)
(***************************************************************************)
EXTENDS Integers

CONSTANT BASE      \* number of values of a byte: 256 in the code

ASSUME BaseAssumption == BASE \in Nat /\ BASE >= 4 /\ BASE % 2 = 0

Byte == 0..(BASE - 1)

MOD  == BASE * (BASE * (BASE * BASE))     \* 2^32 in the code

Word == 0..(MOD - 1)

SIGN == MOD \div 2                        \* 2^31: the sign bit

\* wrapping_add, wrapping_sub, ... : arithmetic modulo the word size.
Wrap(i) == i % MOD

\* The `as i32` view of a word.
Signed(w) == IF w >= SIGN THEN w - MOD ELSE w

\* The number of values an n-byte integer has (n = 1, 2 or 4).
Values(n) == IF n = 1 THEN BASE ELSE IF n = 2 THEN BASE * BASE ELSE MOD

\* Sign extension of an n-byte integer to a word (`as i32` of i8 and i16).
SignExtend(v, n) == IF v >= Values(n) \div 2 THEN v + MOD - Values(n) ELSE v

\* What a call returns: Ok(..) or Err(..), with the one number it carries.
Result(tag, arg) == [tag |-> tag, arg |-> arg]

=============================================================================
