-------------------------------- MODULE Code --------------------------------
(***************************************************************************)
(* The code of a contract and the way through it of one frame: which bytes *)
(* are instructions (gen_code_bitmap in common.rs), where a jump may go    *)
(* (PlainCode in core/exec.rs), and which positions the loop of exec comes *)
(* to.  A byte is one of a few kinds; the data of a push may look like any *)
(* of them.  Positions are counted from 0.                                 *)
(***************************************************************************)
EXTENDS Integers, Sequences

(* "Stop" stands for every byte that ends the way of the frame: STOP,      *)
(* RETURN, an error, or the panic of 0xb0, a push without data.            *)
Bytes == {"Other", "Stop", "JumpDest", "Jump", "JumpI", "Push1", "Push2"}

(* How many bytes of data follow. *)
PushLen(b) == CASE b = "Push1" -> 1 [] b = "Push2" -> 2 [] OTHER -> 0

Positions(code) == 0 .. Len(code) - 1
ByteAt(code, i) == code[i + 1]

(* The positions that are no data of a push. *)
GenCodeBitmapShort(code) ==     \* mutant: one byte less is skipped
  LET nskip[i \in 0 .. Len(code)] ==
        IF i = 0 THEN 0
        ELSE LET before == nskip[i - 1]
                 n == PushLen(ByteAt(code, i - 1))
             IN  IF before > 0 THEN before - 1 ELSE IF n > 0 THEN n - 1 ELSE 0
  IN  {i \in Positions(code) : nskip[i] = 0}
GenCodeBitmap(code) ==
  LET nskip[i \in 0 .. Len(code)] ==
        IF i = 0 THEN 0
        ELSE LET before == nskip[i - 1]
             IN  IF before > 0 THEN before - 1 ELSE PushLen(ByteAt(code, i - 1))
  IN  {i \in Positions(code) : nskip[i] = 0}

IsValidJumpdest(code, dest) ==
  dest \in GenCodeBitmap(code) /\ ByteAt(code, dest) = "JumpDest"

-----------------------------------------------------------------------------
(* One iteration of the loop, on position pc: where the frame may be next. *)
(* Beyond the end there is nothing but STOP.  The data of a push must lie  *)
(* within the code, else the slice panics.  A jump stores its destination  *)
(* less one, to which the loop adds one again; for destination 0 that      *)
(* panics in a build with overflow checks, and else wraps around twice.    *)
Jumps(code, checked) ==
  {d \in Positions(code) : IsValidJumpdest(code, d) /\ (d = 0 => ~checked)}

NextPcs(code, pc, checked) ==
  IF pc \notin Positions(code) THEN {}
  ELSE LET b == ByteAt(code, pc) IN
       CASE b = "Stop"     -> {}
         [] b = "Jump"     -> Jumps(code, checked)
         [] b = "JumpI"    -> Jumps(code, checked) \cup {pc + 1}
         [] PushLen(b) > 0 -> IF pc + PushLen(b) \in Positions(code)
                              THEN {pc + 1 + PushLen(b)} ELSE {}
         [] OTHER          -> {pc + 1}

(* All positions it can come to.  (As many rounds as there are positions.) *)
Reached(code, checked) ==
  LET reached[n \in 0 .. Len(code) + 1] ==
        IF n = 0 THEN {0}
        ELSE LET before == reached[n - 1]
             IN  before \cup UNION {NextPcs(code, pc, checked) : pc \in before}
  IN  reached[Len(code) + 1]
=============================================================================
