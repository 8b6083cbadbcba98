----------------------------- MODULE FlatMemory -----------------------------
(***************************************************************************)
(* What a memory promises (trait Memory, memory.rs): one byte per mapped   *)
(* address, read-only code and writable RAM, and accesses of one, two or   *)
(* four bytes that succeed, or fail and change nothing.  No slices, no     *)
(* offsets, no wrap-around.                                                *)
(***************************************************************************)
EXTENDS Integers

CONSTANTS Code, Ram,      \* the two sets of mapped addresses
          Bytes,          \* byte values
          Addresses, Sizes, WordValues,    \* what clients access and store
          Weight(_)       \* Weight(k): the weight of byte k of a number

VARIABLES bytes,          \* the byte at each mapped address
          access,         \* the last access: op, address, size, value to store
          ok,             \* whether the last access succeeded
          value           \* what it read, if it was a load that did

flat == <<bytes, access, ok, value>>

Span(a, n) == a..(a + n - 1)

\* Little-endian: byte k of v, and the number read at a.
ByteOf(v, k) == (v \div Weight(k)) % Weight(1)
Number(a, n) == CASE n = 1 -> bytes[a]
                  [] n = 2 -> bytes[a] + Weight(1) * bytes[a + 1]
                  [] OTHER -> bytes[a] + Weight(1) * bytes[a + 1]
                                + Weight(2) * bytes[a + 2] + Weight(3) * bytes[a + 3]

Loads  == [op : {"load"}, a : Addresses, n : Sizes, v : {0}]
Stores == [op : {"store"}, a : Addresses, n : Sizes, v : WordValues]

FInit == /\ bytes \in [Code \cup Ram -> Bytes]
         /\ access = [op |-> "none", a |-> 0, n |-> 1, v |-> 0]
         /\ ok = TRUE /\ value = 0

Read == /\ access' \in Loads
        /\ LET span == Span(access'.a, access'.n)
           IN  ok' = (span \subseteq Code \/ span \subseteq Ram)
        /\ value' = IF ok' THEN Number(access'.a, access'.n) ELSE 0
        /\ UNCHANGED bytes

Write == /\ access' \in Stores
         /\ LET span == Span(access'.a, access'.n)
            IN  /\ ok' = (span \subseteq Ram)
                /\ bytes' = [b \in Code \cup Ram |->
                               IF ok' /\ b \in span THEN ByteOf(access'.v, b - access'.a)
                                                     ELSE bytes[b]]
         /\ value' = 0

FNext == Read \/ Write

FSpec == FInit /\ [][FNext]_flat

=============================================================================
