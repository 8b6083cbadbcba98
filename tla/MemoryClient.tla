---------------------------- MODULE MemoryClient ----------------------------
(***************************************************************************)
(* A SliceMemory and a client that performs any sequence of loads and      *)
(* stores, and the flat memory that it implements.                         *)
(***************************************************************************)
EXTENDS SliceMemory

CONSTANTS Addresses,   \* addresses the client accesses
          StoreValues, \* values it stores
          InitMems     \* the slices SliceMemory::new may be given

\* Slices that fit in their half of the address space.  SliceMemory::new does
\* not check this: beyond it, accesses run from one region into the other.
ASSUME ClientAssumption ==
         /\ CodeLen <= RAM_OFFSET /\ RamLen <= RAM_OFFSET
         /\ Addresses \subseteq Word /\ StoreValues \subseteq Word
         /\ InitMems \subseteq Memory

VARIABLES mem,         \* the memory
          req,         \* the last access: [op, a, n, v]
          res          \* what it returned

vars == <<mem, req, res>>

Init == /\ mem \in InitMems
        /\ req = [op |-> "none", a |-> 0, n |-> 1, v |-> 0]
        /\ res = Result("Ok", 0)

DoLoad(a, n) ==
  /\ req' = [op |-> "load", a |-> a, n |-> n, v |-> 0]
  /\ res' = Load(mem, a, n)
  /\ UNCHANGED mem

DoStore(a, n, v) ==
  /\ req' = [op |-> "store", a |-> a, n |-> n, v |-> v]
  /\ res' = Store(a, n)
  /\ mem' = IF Store(a, n).tag = "Ok" THEN Stored(mem, a, n, v) ELSE mem

Next == \E a \in Addresses, n \in AccessSize :
          \/ DoLoad(a, n)
          \/ \E v \in StoreValues : DoStore(a, n, v)

Spec == Init /\ [][Next]_vars

-----------------------------------------------------------------------------
CodeAddresses == 0..(CodeLen - 1)
RamAddresses  == RAM_OFFSET..(RAM_OFFSET + RamLen - 1)

\* The byte at a mapped address.
At(m, a) == IF a \in RamAddresses THEN m.ram[a - RAM_OFFSET] ELSE m.code[a]

\* The slices seen as one address space.
FlatBytes(m) == [a \in CodeAddresses \cup RamAddresses |-> At(m, a)]

FlatWeight(k) == CASE k = 0 -> 1
                   [] k = 1 -> BASE
                   [] k = 2 -> BASE * BASE
                   [] OTHER -> BASE * (BASE * BASE)

Succeeded(r) == r.tag = "Ok"
Answer(r) == IF r.tag = "Ok" THEN r.arg ELSE 0

Flat == INSTANCE FlatMemory WITH
          Code <- CodeAddresses, Ram <- RamAddresses, Bytes <- Byte, Sizes <- AccessSize,
          WordValues <- StoreValues, Weight <- FlatWeight,
          bytes <- FlatBytes(mem), access <- req, ok <- Succeeded(res), value <- Answer(res)

(* SliceMemory (load_bytes, store_bytes, checked_slice_range) implements   *)
(* the flat memory: however a client mixes loads and stores of any size at *)
(* any address, an access succeeds exactly when all its bytes are mapped   *)
(* (writable, for a store), no access that straddles the end of a slice,   *)
(* the code/RAM boundary or the top of the address space is answered with  *)
(* bytes of another region, and a store, wherever wrapping_sub puts its    *)
(* index, changes the bytes of its span and no other.                      *)
ImplementsFlatMemory == Flat!FSpec

=============================================================================
