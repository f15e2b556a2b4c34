-------------------------------- MODULE Pure --------------------------------
(***************************************************************************)
(* Five algorithms at the limits of their ranges, each run on every input  *)
(* of a bounded set and compared with a definition of what it is to        *)
(* compute: the estimate of gas, one execution of the call at a time, the  *)
(* check of a signature's v, an operation of the operand stack, the way of *)
(* a frame through its code, and the operations on a pair of words.        *)
(***************************************************************************)
EXTENDS Estimate, Signature, OperandStack, Code, Alu

CONSTANTS
  Limits,     \* gas a request asks for, and gas limits of blocks
  ChainIds,   \* chain ids of nodes and of transactions
  MaxCodeLen  \* bound on the length of code

ASSUME PureAssumption ==
  Limits \subseteq Nat /\ ChainIds \subseteq 0 .. WordMod - 1 /\ MaxCodeLen \in Nat

VARIABLES input, out

vars == <<input, out>>

None == [kind |-> "None"]

(* `allowed` is the balance divided by the fee, `cap` RPC_GAS_CAP. *)
EstimateInputs ==
  [kind : {"Estimate"}, ok : SUBSET GasRange, asked : Limits, limit : Limits,
   allowed : GasRange, cap : GasRange]

SignatureInputs ==
  [kind : {"Signature"}, v : 0 .. WordMod - 1, own : ChainIds, chainId : ChainIds,
   checked : BOOLEAN]

(* DUP and SWAP have positions from 1, or 0 for the codes 0xb1 and 0xb2,   *)
(* which the decoder takes for a DUP and a SWAP without number.            *)
StackInputs ==
  [kind : {"Stack"}, st : Stacks,
   op   : ({"push"} \X Operands) \cup ({"dup", "swap"} \X (0 .. MaxStackDepth + 1))
            \cup ({"consume"} \X (1 .. 4))]

CodeInputs ==
  [kind : {"Code"}, code : UNION {[1 .. n -> Bytes] : n \in 0 .. MaxCodeLen}, checked : BOOLEAN]

AluInputs == [kind : {"Alu"}, a : Word, b : Word]

Init ==
  /\ input \in EstimateInputs \cup SignatureInputs \cup StackInputs \cup CodeInputs \cup AluInputs
  /\ out = None

HighOf(i) == HighStart(i.asked, i.limit, i.allowed, i.cap)

(* No such block, two kinds of fee, or not enough money. *)
RefuseEstimate ==
  /\ input.kind = "Estimate" /\ out = None
  /\ UNCHANGED input
  /\ out' = [kind |-> "Refused"]

BeginEstimate ==
  /\ input.kind = "Estimate" /\ out = None
  /\ UNCHANGED input
  /\ out' = [kind |-> "Search", low |-> LowStart, high |-> HighOf(input)]

Probe ==
  /\ out.kind = "Search" /\ Wide(out.low, out.high)
  /\ UNCHANGED input
  /\ out' = [kind |-> "Search",
             low  |-> NewLow(input.ok, out.low, out.high),
             high |-> NewHigh(input.ok, out.low, out.high)]

EndEstimate ==
  /\ out.kind = "Search" /\ ~Wide(out.low, out.high)
  /\ UNCHANGED input
  /\ out' = [kind |-> "Estimate", gas |-> Confirm(input.ok, HighOf(input), out.high)]

RunSignature ==
  /\ input.kind = "Signature" /\ out = None
  /\ UNCHANGED input
  /\ out' = [kind   |-> "Signature",
             legacy |-> RecoverLegacy(input.v, input.chainId, input.checked),
             typed  |-> RecoverTyped(input.v, input.own, input.chainId, input.checked)]

RunStack ==
  /\ input.kind = "Stack" /\ out = None
  /\ UNCHANGED input
  /\ LET n == input.op[2] IN
     out' = [kind |-> "Stack",
             res  |-> CASE input.op[1] = "push"    -> Push(input.st, n)
                        [] input.op[1] = "dup"     -> Dup(input.st, n)
                        [] input.op[1] = "swap"    -> Swap(input.st, n)
                        [] input.op[1] = "consume" -> Consume(input.st, n)]

RunCode ==
  /\ input.kind = "Code" /\ out = None
  /\ UNCHANGED input
  /\ out' = [kind    |-> "Code",
             bitmap  |-> GenCodeBitmap(input.code),
             reached |-> Reached(input.code, input.checked)]

RunAlu ==
  /\ input.kind = "Alu" /\ out = None
  /\ UNCHANGED input
  /\ LET a == input.a  b == input.b IN
     out' = [kind |-> "Alu", sdiv |-> SDiv(a, b), smod |-> SMod(a, b), slt |-> SLt(a, b),
             sgt |-> SGt(a, b), shl |-> Shl(a, b), shr |-> Shr(a, b), sar |-> Sar(a, b),
             ext |-> SignExtend(a, b), byte |-> ByteOf(a, b)]

Next ==
  \/ RefuseEstimate \/ BeginEstimate \/ Probe \/ EndEstimate
  \/ RunSignature \/ RunStack \/ RunCode \/ RunAlu

Spec == Init /\ [][Next]_vars

-----------------------------------------------------------------------------
(* Properties.                                                             *)

(* The estimate is an amount the call was seen to succeed with, and no     *)
(* limit is exceeded, even where more gas can make it fail.                *)
EstimateSound ==
  out.kind = "Estimate" /\ out.gas # NoGas =>
    /\ out.gas \in input.ok
    /\ out.gas <= HighOf(input)
    /\ input.cap # 0 => out.gas <= input.cap

(* When more gas never hurts, it is the least amount that is enough, and   *)
(* there is one whenever the highest amount is enough.                     *)
EstimateLeast ==
  out.kind = "Estimate" =>
    LET high == HighOf(input)
        good == input.ok \cap (GasTx .. high)
    IN  high >= GasTx /\ (\A g \in good : g .. high \subseteq good) =>
          IF good = {} THEN out.gas = NoGas
          ELSE out.gas \in good /\ \A g \in good : out.gas <= g

(* Only a transaction made for this chain is accepted: on a chain with an  *)
(* id other than 0 a legacy one must have v = 35 or 36 + 2 * id, so that   *)
(* the id is part of what was signed, in a build with overflow checks and  *)
(* in one without.                                                         *)
ReplayProtection ==
  out.kind = "Signature" =>
    /\ out.legacy \in {0, 1} /\ input.chainId # 0
         => Protected(input.v) /\ input.v = 35 + 2 * input.chainId + out.legacy
    /\ out.typed \in {0, 1} => input.own = input.chainId /\ input.v = out.typed

(* What a wallet signs for this chain is accepted with the recovery id it  *)
(* was signed with; v between 2 and 34 other than 27 and 28 underflows     *)
(* (tx.rs:175), and panics where overflow is checked.                      *)
SignersAccepted ==
  out.kind = "Signature" =>
    /\ \A y \in {0, 1} :
         /\ input.v = 35 + 2 * input.chainId + y => out.legacy = y
         /\ input.v = y /\ input.own = input.chainId => out.typed = y
    /\ out.legacy = Panicked /\ input.checked /\ input.chainId < (U64Mod - 35) \div 2
         => input.v < 35

(* The slots in use are a stack: every operation does to them what it does *)
(* to a sequence, at both limits too, and never looks at what was popped   *)
(* before (a DUP numbered 0 excepted, which does).                         *)
InUse(st) == [i \in 1 .. st.top |-> st.slots[i - 1]]
StackIsSequence ==
  out.kind = "Stack" =>
    LET s   == InUse(input.st)
        t   == InUse(out.res.st)
        n   == input.op[2]
        top == Len(s)
    IN  CASE input.op[1] = "push" ->
               IF top < MaxStackDepth THEN t = Append(s, n) ELSE out.res.kind = "Refused" /\ t = s
          [] input.op[1] = "dup" ->
               n > 0 => IF n <= top /\ top < MaxStackDepth THEN t = Append(s, s[top + 1 - n])
                        ELSE out.res.kind = "Refused" /\ t = s
          [] input.op[1] = "swap" ->
               IF n < top
               THEN /\ Len(t) = top /\ t[top] = s[top - n] /\ t[top - n] = s[top]
                    /\ \A i \in DOMAIN s \ {top, top - n} : t[i] = s[i]
               ELSE out.res.kind = "Refused" /\ t = s
          [] input.op[1] = "consume" ->
               IF n <= top
               THEN /\ t = SubSeq(s, 1, top - n)
                    /\ \A i \in 1 .. n : out.res.out[i] = s[top + 1 - i]
               ELSE out.res.kind = "Refused" /\ t = s

(* A frame never executes the data of a push, whatever its code and        *)
(* wherever it jumps: the bitmap marks the least set of positions that has *)
(* the first one and, with each, the one behind it and its data; and every *)
(* position the frame comes to is marked or past the end.  (That holds of  *)
(* a frame on its own: what run tx_pc shows can break it.)                 *)
Follows(code, S) ==
  /\ {0} \cap Positions(code) \subseteq S
  /\ \A i \in S : {i + 1 + PushLen(ByteAt(code, i))} \cap Positions(code) \subseteq S
NeverRunsData ==
  out.kind = "Code" =>
    LET code == input.code
        sets == {S \in SUBSET Positions(code) : Follows(code, S)}
    IN  /\ out.bitmap = {i \in Positions(code) : \A S \in sets : i \in S}
        /\ \A pc \in out.reached : pc \in out.bitmap \/ pc >= Len(code)

Signed(x) == IF Bit(x, Top) THEN x - Size ELSE x
Magnitude(n) == IF n < 0 THEN -n ELSE n

(* SDIV, SMOD, SLT and SGT are two's complement: the remainder is smaller  *)
(* than the divisor and has the sign of the dividend, quotient and         *)
(* remainder give back the dividend (modulo the size, for the smallest     *)
(* number by -1), and the order is that of the signed numbers.             *)
SignedArithmetic ==
  out.kind = "Alu" =>
    LET p == Signed(input.a)
        q == Signed(input.b)
        r == Signed(out.smod)
    IN  /\ q = 0 => out.sdiv = 0 /\ out.smod = 0
        /\ q # 0 => /\ Magnitude(r) < Magnitude(q)
                    /\ r = 0 \/ (r < 0) = (p < 0)
                    /\ (p - (q * Signed(out.sdiv) + r)) % Size = 0
                    /\ Signed(out.sdiv) # 0 /\ p # -(Size \div 2) =>
                         (Signed(out.sdiv) < 0) = ((p < 0) # (q < 0))
        /\ out.slt = BoolToWord(p < q) /\ out.sgt = BoolToWord(p > q)

(* Every bit of a shifted or extended word is the right one of the         *)
(* operand, whatever the amount: one width, more than a width, or a number *)
(* of bytes beyond the word.  Three exceptions are the code's: SHR panics  *)
(* beyond usize, BYTE gives the last byte instead of 0 for any number past *)
(* it, and SIGNEXTEND of a positive number keeps what is above its sign.   *)
BitPlacement ==
  out.kind = "Alu" =>
    LET s == input.a
        x == input.b
        sign == IF s >= NBytes THEN Top ELSE (s + 1) * ByteBits - 1
    IN  /\ \A i \in 0 .. Top :
             /\ Bit(out.shl, i) <=> i >= s /\ Bit(x, i - s)
             /\ s <= UsizeMax => (Bit(out.shr, i) <=> i + s <= Top /\ Bit(x, i + s))
             /\ Bit(out.sar, i) <=> Bit(x, IF i + s > Top THEN Top ELSE i + s)
             /\ Bit(out.ext, i) <=> Bit(x, i) \/ (i > sign /\ Bit(x, sign))
        /\ s > UsizeMax <=> out.shr = NoWord
        /\ \A i \in 0 .. ByteBits - 1 :
             s < NBytes => (Bit(out.byte, i) <=> Bit(x, Bits - (s + 1) * ByteBits + i))
=============================================================================
