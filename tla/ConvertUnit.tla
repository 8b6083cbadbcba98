----------------------------- MODULE ConvertUnit -----------------------------
(***************************************************************************)
(* The conversion of one word (convert, as transpile_raw calls it), and    *)
(* what it promises: that the interpreter decodes from the converted word  *)
(* the instruction that the RISC-V manual gives to the original.           *)
(***************************************************************************)
EXTENDS Convert, RiscvManual

CONSTANTS Heads,        \* the parts of an instruction word chosen first
          Tails(_),     \* the parts that complete a head
          Followers     \* what may follow a 16-bit instruction in memory

ASSUME WordsAssumption ==
  /\ Heads \subseteq SUBSET Bits /\ \A h \in Heads : Tails(h) \subseteq SUBSET Bits
  /\ Followers \subseteq SUBSET (16..31)

VARIABLES data,         \* the RISC-V word handed to convert
          result        \* what it returned

vars == <<data, result>>

Pending == [tag |-> "Pending", size |-> 0, data |-> {}]

Init == data \in Heads /\ result = Pending

Next == /\ result = Pending
        /\ \E t \in Tails(data) :
             /\ data' = data \cup t
             /\ result' = ConvertInstruction(data \cup t)

Spec == Init /\ [][Next]_vars

-----------------------------------------------------------------------------
(* What the interpreter makes of an Embive word.                           *)

Named(table, k) == IF k + 1 \in DOMAIN table THEN table[k + 1] ELSE "invalid"

\* execute of the instructions with a function: op_imm.rs splits
\* srli/srai by bit 10 and masks the shift count, and system_misc_mem.rs
\* selects by the immediate or takes it as a CSR address.
Executed(op, f) ==
  LET name == Named(FuncTable(op), f.func)
  IN  CASE op \in {"Branch", "LoadStore", "OpAmo"} ->
             Meaning(op, name, f.rd, f.rs1, f.rs2, f.imm)
        [] op = "OpImm" ->
             Meaning(op, IF name = "srli_srai" THEN IF 10 \in f.imm THEN "srai" ELSE "srli"
                         ELSE name,
                     f.rd, f.rs1, 0,
                     IF name \in {"slli", "srli_srai"} THEN Masked(f.imm, 0, 5) ELSE f.imm)
        [] op = "SystemMiscMem" /\ name = "misc" ->
             Meaning(op, IF f.imm \subseteq 0..11 THEN Named(SYSTEM_IMM, Number(f.imm))
                         ELSE "invalid", 0, 0, 0, {})
        [] op = "SystemMiscMem" /\ name # "misc" ->
             Meaning(op, name, f.rd, f.rs1, 0, Masked(f.imm, 0, 12))
        [] OTHER -> Meaning(op, "", f.rd, f.rs1, f.rs2, f.imm)

EmbiveMeaning(w) == LET d == DecodeInstruction(w) IN Executed(d.op, d.fields)

\* The bytes transpile_raw writes: the first `size` ones.
Written == Masked(result.data, 0, 8 * result.size)

Converted == result.tag = "Ok"

(* convert, to_embive and from_embive: for every word that is a RISC-V     *)
(* instruction, the interpreter decodes from the converted word the same   *)
(* operation on the same registers with the same immediate.                *)
ConversionPreservesMeaning ==
  Converted => \A r \in RiscvMeanings(data) : EmbiveMeaning(Written) = r

(* convert: the error InvalidInstruction is never returned for a RISC-V    *)
(* instruction, and a size is what the instruction has in RISC-V, so that  *)
(* transpile_raw stays on instruction boundaries.                          *)
EveryInstructionIsConverted ==
  result # Pending /\ RiscvMeanings(data) # {} =>
    Converted /\ result.size = IF {0, 1} \subseteq data THEN 4 ELSE 2

(* fetch loads four bytes whatever the instruction: a 16-bit instruction   *)
(* decodes the same whatever bits follow it, and conversion does not       *)
(* depend on them either.                                                  *)
NextInstructionIsIgnored ==
  Converted /\ result.size = 2 =>
    \A junk \in Followers :
      /\ DecodeInstruction(Written \cup junk) = DecodeInstruction(Written)
      /\ ConvertInstruction(data \cup junk) = result

=============================================================================
