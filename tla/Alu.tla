--------------------------------- MODULE Alu --------------------------------
(***************************************************************************)
(* The signed operations, the shifts and the operations on bytes of the    *)
(* machine (core/alu.rs), on words of NBytes bytes of ByteBits bits; the   *)
(* code has 32 bytes of 8.  What depends on a size depends on it here in   *)
(* the same way: 31 is the number of the last byte, 256 the number of      *)
(* bits, usize a type smaller than a word.  The rest of the file is one    *)
(* call of the library each.                                               *)
(***************************************************************************)
EXTENDS Integers

CONSTANTS
  ByteBits, NBytes,
  UsizeMax     \* what a shift amount may be at most before it is converted

Pow2[n \in Nat] == IF n = 0 THEN 1 ELSE 2 * Pow2[n - 1]

Bits    == ByteBits * NBytes
Size    == Pow2[Bits]
Word    == 0 .. Size - 1
MaxWord == Size - 1
Top     == Bits - 1           \* the sign bit

NoWord == -1                  \* in place of a word: the code panics

ASSUME AluAssumption ==
  /\ ByteBits \in Nat \ {0} /\ NBytes \in Nat \ {0}
  /\ UsizeMax \in Bits .. MaxWord

Bit(x, i) == (x \div Pow2[i]) % 2 = 1
BoolToWord(t) == IF t THEN 1 ELSE 0

(* U256's shifts: the amount is converted to usize, and a shift by the     *)
(* whole width or more gives zero.                                         *)
ShiftLeft(x, s)  == IF s >= Bits THEN 0 ELSE (x * Pow2[s]) % Size
ShiftRight(x, s) == IF s >= Bits THEN 0 ELSE x \div Pow2[s]

(* Its `|`: the word with the bits of both. *)
Or(x, y) == CHOOSE z \in Word : \A i \in 0 .. Top : Bit(z, i) <=> Bit(x, i) \/ Bit(y, i)

-----------------------------------------------------------------------------
Sub(a, b) == (a - b) % Size
Mul(a, b) == (a * b) % Size
Neg(a)    == MaxWord - Sub(a, 1)              \* (a - 1) ^ MAX

IsNegative(x) == Bit(x, Top)
Abs(x)        == IF IsNegative(x) THEN Neg(x) ELSE x    \* get_sign_abs

SDiv(a, b) ==
  IF Abs(b) = 0 THEN 0
  ELSE IF IsNegative(a) # IsNegative(b) THEN Neg(Abs(a) \div Abs(b)) ELSE Abs(a) \div Abs(b)

SModUnsigned(a, b) == IF b = 0 THEN 0 ELSE a % b       \* mutant: no signs
SMod(a, b) == IF b = 0 THEN 0 ELSE Sub(a, Mul(b, SDiv(a, b)))

SignExtend(back, x) ==
  LET shift == ((IF back > NBytes - 1 THEN NBytes - 1 ELSE back) + 1) * ByteBits
  IN  IF Bit(x, shift - 1)
      THEN Or(x, ShiftLeft(ShiftLeft(1, Bits - shift) - 1, shift))
      ELSE x

SLt(a, b) ==
  BoolToWord(IF IsNegative(a) # IsNegative(b) THEN IsNegative(a)
             ELSE Abs(a) # Abs(b) /\ (Abs(a) < Abs(b)) # IsNegative(a))
SGt(a, b) ==
  BoolToWord(IF IsNegative(a) # IsNegative(b) THEN IsNegative(b)
             ELSE Abs(a) # Abs(b) /\ (Abs(a) > Abs(b)) # IsNegative(b))

(* The number of the byte is cut off at the last one. *)
ByteOf(i, x) ==
  LET n == IF i > NBytes - 1 THEN NBytes - 1 ELSE i
  IN  ShiftRight(x, Bits - ByteBits - n * ByteBits) % Pow2[ByteBits]

Shl(s, val) == IF s < Bits THEN ShiftLeft(val, s) ELSE 0

(* Shifting by a word converts it to usize first. *)
Shr(s, val) == IF s > UsizeMax THEN NoWord ELSE ShiftRight(val, s)

SarWide(s, val) ==             \* mutant: without the wrap-around for s = Bits
  IF s > Bits THEN (IF IsNegative(val) THEN MaxWord ELSE 0)
  ELSE IF IsNegative(val) /\ s < Bits
       THEN Or(ShiftRight(val, s), ShiftLeft(Sub(ShiftLeft(1, s), 1), Bits - s))
       ELSE ShiftRight(val, s)
Sar(s, val) ==
  IF s > Bits THEN (IF IsNegative(val) THEN MaxWord ELSE 0)
  ELSE IF IsNegative(val)
       THEN Or(ShiftRight(val, s), ShiftLeft(Sub(ShiftLeft(1, s), 1), Bits - s))
       ELSE ShiftRight(val, s)
=============================================================================
