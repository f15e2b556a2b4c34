------------------------------- MODULE Memory -------------------------------
(***************************************************************************)
(* The memory of a call frame (core/memory.rs): how it grows, and what     *)
(* that costs.  Its contents are left out.                                 *)
(*                                                                         *)
(* Sizes are in bytes.  The largest, 0x1fffffffe0, is a whole number of    *)
(* words, whose square still fits in 64 bits, so nothing overflows below   *)
(* it; the branch of to_word_size for sizes near 2^64 is never taken.      *)
(***************************************************************************)
EXTENDS Integers

CONSTANTS
  WordBytes,    \* 32
  MemWordGas,   \* GAS_MEM_RESIZE_WORD
  QuadCoefDiv,  \* QUAD_COEF_DIV
  MaxMem        \* MAX_MEM_SIZE

ASSUME MemoryAssumption ==
  /\ WordBytes \in Nat \ {0} /\ QuadCoefDiv \in Nat \ {0}
  /\ MemWordGas \in Nat /\ MaxMem \in Nat
  /\ MaxMem % WordBytes = 0

NewMemory == [len |-> 0, lastGas |-> 0]

ToWordSize(size) == (size + WordBytes - 1) \div WordBytes

TooLarge(size) == size > MaxMem       \* OutOfMemory

MemGas(words) == words * MemWordGas + (words * words) \div QuadCoefDiv

(* resize to a size that is not too large, and the fee it returns. *)
ResizedUnbilled(m, size) ==        \* mutant: last_gas is not kept up to date
  IF size > m.len THEN [m EXCEPT !.len = ToWordSize(size) * WordBytes] ELSE m
Resized(m, size) ==
  IF size > m.len
  THEN [len |-> ToWordSize(size) * WordBytes, lastGas |-> MemGas(ToWordSize(size))]
  ELSE m

ResizeFee(m, size) ==
  IF size > m.len THEN MemGas(ToWordSize(size)) - m.lastGas ELSE 0
=============================================================================
