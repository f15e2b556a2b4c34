----------------------------- MODULE PureProofs -----------------------------
(***************************************************************************)
(* Proofs that the estimate of gas, the check of a signature's v, the      *)
(* operations of the operand stack, the bitmap of a code and the           *)
(* operations on words compute what they are to, for every input, width    *)
(* and limit.                                                              *)
(***************************************************************************)
EXTENDS Pure, AnySeqProofs

-----------------------------------------------------------------------------
(* Arithmetic at a width.                                                  *)

LEMMA ModOfSmall ==
  ASSUME NEW m \in Nat, NEW x \in 0 .. m - 1
  PROVE  x % m = x
OBVIOUS

LEMMA ModOfNegative ==
  ASSUME NEW m \in Nat \ {0}, NEW x \in Int, x < 0, x + m >= 0
  PROVE  x % m = x + m
OBVIOUS

LEMMA Halves ==
  ASSUME NEW x \in Nat
  PROVE  x \div 2 \in Nat /\ x - 2 * (x \div 2) \in {0, 1}
OBVIOUS

-----------------------------------------------------------------------------
(* Signatures.                                                             *)

LEMMA PlainFrom27 ==
  ASSUME NEW vb \in 27 .. 28, NEW checked
  PROVE  RecoverPlain(vb, checked) = vb - 27
BY SignatureAssumption DEF RecoverPlain, SubU64, Panicked

(* A legacy v that has a chain id in it. *)
LEMMA LegacyFrom35 ==
  ASSUME NEW v \in 35 .. WordMod - 1, NEW c \in 0 .. WordMod - 1, NEW checked
  PROVE  RecoverLegacy(v, c, checked) =
           IF c = (v - 35) \div 2 THEN v - 35 - 2 * c ELSE Rejected
<1> DEFINE h == (v - 35) \div 2
<1>1. v - 35 \in Nat /\ v \in Nat /\ WordMod \in Nat
  BY SignatureAssumption
<1>2. h \in Nat /\ v - 35 - 2 * h \in {0, 1}
  BY <1>1, Halves
<1>3. DeriveChainId(v, checked) = h
  BY <1>1 DEF DeriveChainId, SubU64, SubWord, Panicked
<1> HIDE DEF h
<1>4. h # Panicked
  BY <1>2 DEF Panicked
<1>5. CASE c # h
  BY <1>3, <1>4, <1>5 DEF RecoverLegacy, h
<1>6. CASE c = h
  <2>1. Protected(v)
    BY DEF Protected
  <2>2. (2 * c) % WordMod = 2 * c
    <3>1. 2 * c \in 0 .. WordMod - 1
      BY <1>1, <1>2, <1>6
    <3> QED BY <1>1, <3>1, ModOfSmall
  <2>3. v - 2 * c \in Nat /\ v - 2 * c - 8 \in 27 .. 28 /\ v - 2 * c >= 8 /\ v >= 2 * c
    BY <1>1, <1>2, <1>6
  <2>4. LegacyV(v, c) = v - 2 * c - 8
    BY <2>2, <2>3 DEF LegacyV, SubWord, Panicked
  <2>5. RecoverPlain(v - 2 * c - 8, checked) = v - 35 - 2 * c
    <3> DEFINE w == v - 2 * c - 8
    <3>1. w \in 27 .. 28 /\ w - 27 = v - 35 - 2 * c
      BY <1>1, <2>3
    <3> HIDE DEF w
    <3>2. RecoverPlain(w, checked) = w - 27
      BY <3>1, PlainFrom27
    <3> QED BY <3>1, <3>2 DEF w
  <2>6. v - 2 * c - 8 # Panicked
    BY <2>3 DEF Panicked
  <2> QED BY <1>3, <1>4, <1>6, <2>1, <2>4, <2>5, <2>6 DEF RecoverLegacy, h
<1> QED BY <1>5, <1>6

(* One that has none, or is malformed. *)
LEMMA LegacyBelow35 ==
  ASSUME NEW v \in 0 .. 34, NEW c \in 0 .. WordMod - 1, c # 0, NEW checked \in BOOLEAN
  PROVE  RecoverLegacy(v, c, checked) \notin {0, 1}
<1>1. U64Mod \in Nat /\ U64Mod > 35 /\ WordMod \in Nat /\ U64Mod <= WordMod /\ ByteMod > 35
      /\ v < U64Mod /\ v < ByteMod
  BY SignatureAssumption
<1>2. CASE v \in {27, 28}
  <2>1. DeriveChainId(v, checked) = 0
    BY <1>1, <1>2 DEF DeriveChainId
  <2> QED BY <2>1 DEF RecoverLegacy, Panicked, Rejected
<1>3. CASE v \notin {27, 28} /\ checked
  <2>1. DeriveChainId(v, checked) = Panicked
    BY <1>1, <1>3 DEF DeriveChainId, SubU64
  <2> QED BY <2>1 DEF RecoverLegacy, Panicked
<1>4. CASE v \notin {27, 28} /\ ~checked
  <2> DEFINE d == v - 35 + U64Mod
             h == d \div 2
  <2>1. (v - 35) % U64Mod = d /\ d \in Nat /\ d < U64Mod
    BY <1>1, ModOfNegative
  <2>2. DeriveChainId(v, checked) = h
    BY <1>1, <1>4, <2>1 DEF DeriveChainId, SubU64, Panicked
  <2> HIDE DEF d
  <2>3. h \in Nat /\ d - 2 * h \in {0, 1}
    BY <2>1, Halves
  <2> HIDE DEF h
  <2>4. CASE c # h
    BY <2>2, <2>3, <2>4 DEF RecoverLegacy, Panicked, Rejected
  <2>5. CASE c = h /\ v \in {0, 1}
    <3>1. ~Protected(v)
      BY <1>1, <2>5 DEF Protected
    <3>2. (v - 27) % U64Mod = v - 27 + U64Mod
      BY <1>1, <2>5, ModOfNegative
    <3>3. SubU64(v, 27, checked) = v - 27 + U64Mod
      BY <1>4, <2>5, <3>2 DEF SubU64
    <3>4. RecoverPlain(v, checked) = Rejected
      BY <1>1, <2>5, <3>3 DEF RecoverPlain, Panicked
    <3> QED BY <2>2, <2>3, <2>5, <3>1, <3>4 DEF RecoverLegacy, Panicked, Rejected
  <2>6. CASE c = h /\ v \notin {0, 1}
    <3>1. Protected(v)
      BY <1>4, <2>6 DEF Protected
    <3>2. 2 * c \in 0 .. WordMod - 1
      BY <1>1, <2>1, <2>3, <2>6
    <3>3. (2 * c) % WordMod = 2 * c
      BY <1>1, <3>2, ModOfSmall
    <3>4. v - 2 * c < 8
      BY <1>1, <2>1, <2>3, <2>6 DEF d
    <3>5. LegacyV(v, c) = Panicked
      BY <3>2, <3>3, <3>4 DEF LegacyV, SubWord, Panicked
    <3> QED BY <2>2, <2>3, <2>6, <3>1, <3>5 DEF RecoverLegacy, Panicked
  <2> QED BY <2>4, <2>5, <2>6
<1> QED BY <1>2, <1>3, <1>4

LEMMA TypedRecovers ==
  ASSUME NEW v \in 0 .. WordMod - 1, NEW own, NEW c, NEW checked \in BOOLEAN
  PROVE  /\ RecoverTyped(v, own, c, checked) \in {0, 1}
              => own = c /\ v = RecoverTyped(v, own, c, checked)
         /\ own = c /\ v \in {0, 1} => RecoverTyped(v, own, c, checked) = v
<1>1. WordMod \in Nat /\ WordMod > 35 /\ v + 27 \in Nat /\ v + 27 >= 27
  BY SignatureAssumption
<1>2. RecoverPlain(v + 27, checked) = IF v \in {0, 1} THEN v ELSE Rejected
  BY <1>1, SignatureAssumption DEF RecoverPlain, SubU64, Panicked, Rejected
<1>3. CASE own = c /\ v \in {0, 1}
  BY <1>1, <1>2, <1>3, SignatureAssumption DEF RecoverTyped
<1>4. CASE ~(own = c /\ v \in {0, 1})
  BY <1>2, <1>4 DEF RecoverTyped, Panicked, Rejected
<1> QED BY <1>3, <1>4

-----------------------------------------------------------------------------
(* The operand stack.                                                      *)

LEMMA StackFacts ==
  ASSUME NEW st \in Stacks
  PROVE  /\ st.slots \in [0 .. MaxStackDepth - 1 -> Operands]
         /\ st.top \in 0 .. MaxStackDepth /\ MaxStackDepth \in Nat \ {0}
         /\ DOMAIN st = {"slots", "top"}
BY StackAssumption DEF Stacks

LEMMA InUseFacts ==
  ASSUME NEW st \in Stacks
  PROVE  /\ InUse(st) \in Seq(Operands) /\ Len(InUse(st)) = st.top
         /\ DOMAIN InUse(st) = 1 .. st.top
         /\ \A i \in 1 .. st.top : InUse(st)[i] = st.slots[i - 1]
<1>1. /\ st.slots \in [0 .. MaxStackDepth - 1 -> Operands]
      /\ st.top \in 0 .. MaxStackDepth /\ MaxStackDepth \in Nat
  BY StackFacts
<1>2. \A i \in 1 .. st.top : i - 1 \in 0 .. MaxStackDepth - 1
  BY <1>1
<1>3. \A i \in 1 .. st.top : st.slots[i - 1] \in Operands
  BY <1>1, <1>2
<1>4. st.top \in Nat
  BY <1>1
<1>5. InUse(st) \in [1 .. st.top -> Operands]
  BY <1>3 DEF InUse
<1>6. InUse(st) \in Seq(Operands)
  BY <1>4, <1>5, SeqDef
<1>7. DOMAIN InUse(st) = 1 .. st.top /\ \A i \in 1 .. st.top : InUse(st)[i] = st.slots[i - 1]
  BY DEF InUse
<1>8. Len(InUse(st)) = st.top
  BY <1>4, <1>6, <1>7, LenProperties
<1> QED BY <1>6, <1>7, <1>8

(* A stack with one more word. *)
LEMMA PushSeq ==
  ASSUME NEW st \in Stacks, NEW x \in Operands
  PROVE  IF st.top < MaxStackDepth
         THEN InUse(Push(st, x).st) = Append(InUse(st), x)
         ELSE Push(st, x) = Refused(st)
<1>1. /\ st.slots \in [0 .. MaxStackDepth - 1 -> Operands]
      /\ st.top \in 0 .. MaxStackDepth /\ MaxStackDepth \in Nat
  BY StackFacts
<1>2. CASE st.top = MaxStackDepth
  BY <1>1, <1>2 DEF Push
<1>3. CASE st.top # MaxStackDepth
  <2> DEFINE k == [st.slots EXCEPT ![st.top] = x]
             r == [slots |-> k, top |-> st.top + 1]
             s == InUse(st)
  <2>1. Push(st, x).st = r
    BY <1>3 DEF Push, Done
  <2>2. st.top \in 0 .. MaxStackDepth - 1 /\ st.top + 1 \in 0 .. MaxStackDepth
    BY <1>1, <1>3
  <2>3. /\ k \in [0 .. MaxStackDepth - 1 -> Operands]
        /\ \A i \in 0 .. MaxStackDepth - 1 : k[i] = IF i = st.top THEN x ELSE st.slots[i]
    BY <1>1, <2>2
  <2> HIDE DEF k
  <2>4. r \in Stacks /\ r.top = st.top + 1 /\ r.slots = k
    BY <2>2, <2>3 DEF Stacks
  <2> HIDE DEF r
  <2>5. /\ InUse(r) \in Seq(Operands) /\ Len(InUse(r)) = st.top + 1
        /\ \A i \in 1 .. st.top + 1 : InUse(r)[i] = k[i - 1]
    BY <2>4, InUseFacts
  <2>6. /\ s \in Seq(Operands) /\ Len(s) = st.top
        /\ \A i \in 1 .. st.top : s[i] = st.slots[i - 1]
    BY InUseFacts
  <2> HIDE DEF s
  <2>7. /\ Append(s, x) \in Seq(Operands) /\ Len(Append(s, x)) = st.top + 1
        /\ \A i \in 1 .. st.top : Append(s, x)[i] = s[i]
        /\ Append(s, x)[st.top + 1] = x
    BY <2>6, AppendProperties
  <2>8. ASSUME NEW i \in 1 .. st.top + 1 PROVE InUse(r)[i] = Append(s, x)[i]
    <3>1. i - 1 \in 0 .. MaxStackDepth - 1
      BY <1>1, <2>2
    <3>2. CASE i = st.top + 1
      <4>1. i - 1 = st.top
        BY <1>1, <3>2
      <4> QED BY <2>3, <2>5, <2>7, <3>1, <3>2, <4>1
    <3>3. CASE i # st.top + 1
      <4>1. i \in 1 .. st.top /\ i - 1 # st.top
        BY <1>1, <3>3
      <4> QED BY <2>3, <2>5, <2>6, <2>7, <3>1, <4>1
    <3> QED BY <3>2, <3>3
  <2>9. InUse(r) = Append(s, x)
    BY <2>5, <2>7, <2>8, SeqEqual
  <2> QED BY <1>1, <1>3, <2>1, <2>9 DEF s
<1> QED BY <1>2, <1>3

LEMMA DupSeq ==
  ASSUME NEW st \in Stacks, NEW n \in Nat \ {0}
  PROVE  IF n <= st.top /\ st.top < MaxStackDepth
         THEN InUse(Dup(st, n).st) = Append(InUse(st), InUse(st)[st.top + 1 - n])
         ELSE Dup(st, n) = Refused(st)
<1>1. /\ st.slots \in [0 .. MaxStackDepth - 1 -> Operands]
      /\ st.top \in 0 .. MaxStackDepth /\ MaxStackDepth \in Nat
  BY StackFacts
<1>2. CASE n > st.top
  BY <1>1, <1>2 DEF Dup
<1>3. CASE n <= st.top
  <2> DEFINE x == st.slots[st.top - n]
  <2>1. st.top - n \in 0 .. MaxStackDepth - 1 /\ st.top + 1 - n \in 1 .. st.top
        /\ st.top + 1 - n - 1 = st.top - n
    BY <1>1, <1>3
  <2>2. x \in Operands /\ InUse(st)[st.top + 1 - n] = x
    BY <1>1, <2>1, InUseFacts
  <2>3. Dup(st, n) = Push(st, x)
    BY <1>1, <1>3, <2>1 DEF Dup
  <2> HIDE DEF x
  <2> QED BY <1>3, <2>2, <2>3, PushSeq
<1> QED BY <1>1, <1>2, <1>3

LEMMA SwapSeq ==
  ASSUME NEW st \in Stacks, NEW n \in Nat
  PROVE  LET s == InUse(st)
             t == InUse(Swap(st, n).st)
             top == st.top
         IN  IF n < top
             THEN /\ Len(t) = top /\ t[top] = s[top - n] /\ t[top - n] = s[top]
                  /\ \A i \in DOMAIN s \ {top, top - n} : t[i] = s[i]
             ELSE Swap(st, n) = Refused(st)
<1> DEFINE top == st.top
           last == top - 1
           s == InUse(st)
<1>1. /\ st.slots \in [0 .. MaxStackDepth - 1 -> Operands]
      /\ top \in 0 .. MaxStackDepth /\ MaxStackDepth \in Nat
      /\ DOMAIN st = {"slots", "top"}
  BY StackFacts
<1>2. CASE ~(n < top)
  BY <1>1, <1>2 DEF Swap
<1>3. CASE n < top
  <2> DEFINE a == st.slots[last]
             b == st.slots[last - n]
             k == [st.slots EXCEPT ![last] = b, ![last - n] = a]
             r == [st EXCEPT !.slots = k]
             t == InUse(r)
  <2>1. Swap(st, n).st = r
    BY <1>1, <1>3 DEF Swap, Done
  <2>2. last \in 0 .. MaxStackDepth - 1 /\ last - n \in 0 .. MaxStackDepth - 1
    BY <1>1, <1>3
  <2>3. /\ k \in [0 .. MaxStackDepth - 1 -> Operands]
        /\ k[last] = b /\ k[last - n] = a
        /\ \A i \in 0 .. MaxStackDepth - 1 \ {last, last - n} : k[i] = st.slots[i]
    BY <1>1, <2>2
  <2> HIDE DEF k
  <2>4. r \in Stacks /\ r.top = top /\ r.slots = k
    BY <1>1, <2>3 DEF Stacks
  <2> HIDE DEF r
  <2>5. /\ Len(t) = top
        /\ \A i \in 1 .. top : t[i] = k[i - 1]
    BY <2>4, InUseFacts
  <2>6. /\ DOMAIN s = 1 .. top
        /\ \A i \in 1 .. top : s[i] = st.slots[i - 1]
    BY InUseFacts
  <2> HIDE DEF s, t
  <2>7. top \in 1 .. top /\ top - n \in 1 .. top /\ top - n - 1 = last - n
    BY <1>1, <1>3
  <2>8. t[top] = s[top - n] /\ t[top - n] = s[top]
    BY <2>3, <2>5, <2>6, <2>7
  <2>9. ASSUME NEW i \in DOMAIN s \ {top, top - n} PROVE t[i] = s[i]
    <3>1. i \in 1 .. top
      BY <2>6
    <3>2. i - 1 \in (0 .. MaxStackDepth - 1) \ {last, last - n}
      BY <1>1, <1>3, <2>7, <3>1
    <3> QED BY <2>3, <2>5, <2>6, <3>1, <3>2
  <2> QED BY <1>3, <2>1, <2>5, <2>8, <2>9 DEF s, t
<1> QED BY <1>2, <1>3

LEMMA ConsumeSeq ==
  ASSUME NEW st \in Stacks, NEW n \in Nat \ {0}
  PROVE  LET s == InUse(st)
             r == Consume(st, n)
             top == st.top
         IN  IF n <= top
             THEN /\ InUse(r.st) = SubSeq(s, 1, top - n)
                  /\ \A i \in 1 .. n : r.out[i] = s[top + 1 - i]
             ELSE r = Refused(st)
<1> DEFINE top == st.top
           s == InUse(st)
<1>1. /\ st.slots \in [0 .. MaxStackDepth - 1 -> Operands]
      /\ top \in 0 .. MaxStackDepth /\ MaxStackDepth \in Nat
      /\ DOMAIN st = {"slots", "top"}
  BY StackFacts
<1>2. CASE ~(n <= top)
  BY <1>1, <1>2 DEF Consume
<1>3. CASE n <= top
  <2> DEFINE r == [st EXCEPT !.top = top - n]
             p == [i \in 1 .. n |-> st.slots[top - i]]
             t == InUse(r)
  <2>1. Consume(st, n) = Done(r, p)
    BY <1>1, <1>3 DEF Consume
  <2>2. Consume(st, n).st = r /\ Consume(st, n).out = p
    BY <2>1 DEF Done
  <2>3. top - n \in 0 .. MaxStackDepth /\ top - n \in Nat
    BY <1>1, <1>3
  <2>4. r \in Stacks /\ r.top = top - n /\ r.slots = st.slots
    BY <1>1, <2>3 DEF Stacks
  <2> HIDE DEF r
  <2>5. /\ s \in Seq(Operands) /\ Len(s) = top
        /\ \A i \in 1 .. top : s[i] = st.slots[i - 1]
    BY InUseFacts
  <2>6. /\ t \in Seq(Operands) /\ Len(t) = top - n
        /\ \A i \in 1 .. top - n : t[i] = st.slots[i - 1]
    BY <2>4, InUseFacts
  <2> HIDE DEF s, t
  <2>7. \A i \in 1 .. n : p[i] = s[top + 1 - i]
    <3>1. ASSUME NEW i \in 1 .. n PROVE top + 1 - i \in 1 .. top /\ top + 1 - i - 1 = top - i
      BY <1>1, <1>3
    <3>2. ASSUME NEW i \in 1 .. n PROVE p[i] = s[top + 1 - i]
      <4>1. p[i] = st.slots[top - i]
        OBVIOUS
      <4> DEFINE j == top + 1 - i
      <4> HIDE DEF p
      <4>2. j \in 1 .. top /\ j - 1 = top - i
        BY <1>1, <1>3
      <4> HIDE DEF j
      <4>3. s[j] = st.slots[j - 1]
        BY <2>5, <4>2
      <4> QED BY <4>1, <4>2, <4>3 DEF j
    <3> HIDE DEF p
    <3> QED BY <3>2
  <2>8. /\ SubSeq(s, 1, top - n) \in Seq(Operands)
        /\ Len(SubSeq(s, 1, top - n)) = top - n
        /\ \A i \in 1 .. top - n : SubSeq(s, 1, top - n)[i] = s[i]
    BY <1>1, <1>3, <2>3, <2>5
  <2>9. t = SubSeq(s, 1, top - n)
    <3>1. \A i \in 1 .. top - n : i \in 1 .. top
      BY <1>1, <1>3
    <3>2. \A i \in 1 .. Len(t) : t[i] = SubSeq(s, 1, top - n)[i]
      BY <2>5, <2>6, <2>8, <3>1
    <3> QED BY <2>6, <2>8, <3>2, SeqEqual
  <2> HIDE DEF p
  <2> QED BY <1>3, <2>2, <2>7, <2>9 DEF s, t
<1> QED BY <1>2, <1>3

-----------------------------------------------------------------------------
(* The search for the least gas.                                           *)

(* The least amount lies above low and, if there is any, not above high;   *)
(* high is enough unless it is still the highest amount, which has not     *)
(* been tried.                                                             *)
SearchOK(i, low, high) ==
  /\ low \in Nat /\ high \in Nat /\ low >= GasTx - 1 /\ high <= HighOf(i)
  /\ low < high \/ (low = GasTx - 1 /\ high = HighOf(i))
  /\ high = HighOf(i) \/ high \in i.ok
  /\ low = GasTx - 1 \/ low \notin i.ok

LEMMA HighTypes ==
  ASSUME NEW i \in EstimateInputs
  PROVE  HighOf(i) \in Nat /\ (i.cap # 0 => HighOf(i) <= i.cap)
<1>1. i.asked \in Nat /\ i.limit \in Nat /\ i.allowed \in Nat /\ i.cap \in Nat
  <2>1. i.asked \in Limits /\ i.limit \in Limits /\ i.allowed \in GasRange /\ i.cap \in GasRange
    BY DEF EstimateInputs
  <2>2. Limits \subseteq Nat /\ GasRange \subseteq Nat
    BY PureAssumption, EstimateAssumption DEF GasRange
  <2> QED BY <2>1, <2>2
<1>2. \A a, b \in Nat : Capped(a, b) \in Nat /\ Capped(a, b) <= b
  BY DEF Capped
<1> DEFINE h == Capped(IF i.asked >= GasTx THEN i.asked ELSE i.limit, i.allowed)
<1>3. h \in Nat
  BY <1>1, <1>2
<1>4. HighOf(i) = IF i.cap # 0 THEN Capped(h, i.cap) ELSE h
  BY DEF HighOf, HighStart
<1> HIDE DEF h
<1> QED BY <1>1, <1>2, <1>3, <1>4

LEMMA SearchBegins ==
  ASSUME NEW i \in EstimateInputs
  PROVE  SearchOK(i, LowStart, HighOf(i))
<1>1. HighOf(i) \in Nat
  BY HighTypes
<1> QED BY <1>1, EstimateAssumption DEF SearchOK, LowStart

LEMMA SearchGoesOn ==
  ASSUME NEW i \in EstimateInputs, NEW low, NEW high, SearchOK(i, low, high), Wide(low, high)
  PROVE  SearchOK(i, NewLow(i.ok, low, high), NewHigh(i.ok, low, high))
<1> DEFINE mid == Mid(low, high)
<1>1. HighOf(i) \in Nat /\ GasTx \in Nat
  BY HighTypes, EstimateAssumption
<1>2. mid \in Nat /\ low < mid /\ mid < high
  BY DEF SearchOK, Wide, Mid
<1> HIDE DEF mid
<1>3. CASE mid \in i.ok
  <2>1. NewLow(i.ok, low, high) = low /\ NewHigh(i.ok, low, high) = mid
    BY <1>3 DEF NewLow, NewHigh, mid
  <2> QED BY <1>1, <1>2, <1>3, <2>1 DEF SearchOK
<1>4. CASE mid \notin i.ok
  <2>1. NewLow(i.ok, low, high) = mid /\ NewHigh(i.ok, low, high) = high
    BY <1>4 DEF NewLow, NewHigh, mid
  <2> QED BY <1>1, <1>2, <1>4, <2>1 DEF SearchOK
<1> QED BY <1>3, <1>4

LEMMA SearchEndsSound ==
  ASSUME NEW i \in EstimateInputs, NEW low, NEW high, SearchOK(i, low, high),
         NEW g, g = Confirm(i.ok, HighOf(i), high), g # NoGas
  PROVE  g \in i.ok /\ g <= HighOf(i) /\ (i.cap # 0 => g <= i.cap)
<1>1. g = high /\ high \in i.ok
  BY DEF Confirm, SearchOK
<1>2. HighOf(i) \in Nat /\ high \in Nat /\ high <= HighOf(i) /\ i.cap \in Nat
  BY HighTypes, EstimateAssumption DEF SearchOK, EstimateInputs, GasRange
<1> QED BY <1>1, <1>2, HighTypes

LEMMA SearchEndsLeast ==
  ASSUME NEW i \in EstimateInputs, NEW low, NEW high, SearchOK(i, low, high),
         ~Wide(low, high), NEW g, g = Confirm(i.ok, HighOf(i), high),
         NEW good, good = i.ok \cap (GasTx .. HighOf(i)), HighOf(i) >= GasTx,
         \A x \in good : x .. HighOf(i) \subseteq good
  PROVE  IF good = {} THEN g = NoGas ELSE g \in good /\ \A x \in good : g <= x
<1>1. HighOf(i) \in Nat /\ GasTx \in Nat \ {0}
  BY HighTypes, EstimateAssumption
<1>2. high = low + 1 /\ low \in Nat /\ high \in GasTx .. HighOf(i)
  BY <1>1 DEF SearchOK, Wide
<1>3. CASE good = {}
  <2>1. high \notin i.ok
    BY <1>2, <1>3
  <2> QED BY <1>3, <2>1 DEF SearchOK, Confirm
<1>4. CASE good # {}
  <2>1. PICK x \in good : TRUE
    BY <1>4
  <2>2. x \in GasTx .. HighOf(i) /\ HighOf(i) \in x .. HighOf(i)
    BY <1>1
  <2>3. HighOf(i) \in good
    BY <2>2
  <2>4. high \in i.ok
    BY <2>3 DEF SearchOK
  <2>5. g = high /\ high \in good
    BY <1>2, <2>4 DEF Confirm
  <2>6. ASSUME NEW y \in good PROVE high <= y
    <3>1. y \in GasTx .. HighOf(i) /\ y .. HighOf(i) \subseteq i.ok
      OBVIOUS
    <3>2. ASSUME y <= low PROVE FALSE
      <4>1. low \in y .. HighOf(i) /\ low # GasTx - 1
        BY <1>1, <1>2, <3>1, <3>2
      <4> QED BY <3>1, <4>1 DEF SearchOK
    <3> QED BY <1>1, <1>2, <3>1, <3>2
  <2> QED BY <1>4, <2>5, <2>6
<1> QED BY <1>3, <1>4

-----------------------------------------------------------------------------
(* Instructions and data in a code.                                        *)

LEMMA CodeFacts ==
  ASSUME NEW code \in Seq(Bytes)
  PROVE  /\ Len(code) \in Nat /\ Positions(code) = 0 .. Len(code) - 1
         /\ \A i \in Positions(code) : PushLen(ByteAt(code, i)) \in 0 .. 2
<1>1. Len(code) \in Nat
  OBVIOUS
<1>2. \A b : PushLen(b) \in 0 .. 2
  BY DEF PushLen
<1> QED BY <1>1, <1>2 DEF Positions

(* How many bytes of data are still to be skipped, at each position. *)
LEMMA BitmapSkips ==
  ASSUME NEW code \in Seq(Bytes)
  PROVE  \E s : /\ s[0] = 0
                /\ \A i \in Positions(code) :
                     s[i + 1] = IF s[i] > 0 THEN s[i] - 1 ELSE PushLen(ByteAt(code, i))
                /\ GenCodeBitmap(code) = {i \in Positions(code) : s[i] = 0}
<1> DEFINE L == Len(code)
           Def(g, i) == IF i = 0 THEN 0
                        ELSE IF g[i - 1] > 0 THEN g[i - 1] - 1 ELSE PushLen(ByteAt(code, i - 1))
           Is(g, k) == g = [i \in 0 .. k |-> Def(g, i)]
           s == CHOOSE g : Is(g, L)
<1>1. L \in Nat /\ Positions(code) = 0 .. L - 1
  BY CodeFacts
<1>2. GenCodeBitmap(code) = {i \in Positions(code) : s[i] = 0}
  BY DEF GenCodeBitmap
<1>3. \A k \in Nat : \E g : Is(g, k)
  <2> DEFINE S == {k \in Nat : \E g : Is(g, k)}
  <2>1. 0 \in S
    <3>1. 0 .. 0 = {0}
      OBVIOUS
    <3>2. Is([i \in 0 .. 0 |-> 0], 0)
      BY <3>1
    <3> QED BY <3>2
  <2>2. ASSUME NEW k \in Nat, k \in S PROVE k + 1 \in S
    <3>1. PICK g : Is(g, k)
      BY <2>2
    <3> DEFINE h == [i \in 0 .. k + 1 |-> IF i = k + 1 THEN Def(g, k + 1) ELSE g[i]]
    <3>2. \A i \in 0 .. k : g[i] = Def(g, i)
      BY <3>1
    <3>3. /\ DOMAIN h = 0 .. k + 1
          /\ \A i \in 0 .. k : h[i] = g[i]
          /\ h[k + 1] = Def(g, k + 1)
          /\ h = [i \in 0 .. k + 1 |-> h[i]]
      OBVIOUS
    <3>4. (k + 1) - 1 = k /\ k + 1 # 0 /\ k \in 0 .. k
      OBVIOUS
    <3>5. \A i \in 0 .. k : i # 0 => i - 1 \in 0 .. k
      OBVIOUS
    <3>6. \A i \in 0 .. k + 1 : i \in 0 .. k \/ i = k + 1
      OBVIOUS
    <3> HIDE DEF h
    <3>7. \A i \in 0 .. k + 1 : h[i] = Def(h, i)
      BY <3>2, <3>3, <3>4, <3>5, <3>6
    <3>8. Is(h, k + 1)
      BY <3>3, <3>7
    <3> HIDE DEF Is
    <3> QED BY <3>8
  <2> HIDE DEF S
  <2>3. \A k \in Nat : k \in S
    BY <2>1, <2>2, NatInd
  <2> HIDE DEF Is
  <2> QED BY <2>3 DEF S
<1>4. Is(s, L)
  <2> HIDE DEF Is
  <2> QED BY <1>1, <1>3, Zenon
<1>5. \A i \in 0 .. L : s[i] = Def(s, i)
  BY <1>4
<1> HIDE DEF s, Is, L
<1>6. s[0] = 0
  BY <1>1, <1>5
<1>7. ASSUME NEW i \in Positions(code)
      PROVE  s[i + 1] = IF s[i] > 0 THEN s[i] - 1 ELSE PushLen(ByteAt(code, i))
  <2>1. i + 1 \in 0 .. L /\ i + 1 # 0 /\ (i + 1) - 1 = i
    BY <1>1
  <2> QED BY <1>5, <2>1
<1> QED BY <1>2, <1>6, <1>7

(* A set that has the first position and is closed under steps of the loop *)
(* has all that the frame comes to.                                        *)
LEMMA ReachedIn ==
  ASSUME NEW code \in Seq(Bytes), NEW checked, NEW T, 0 \in T,
         \A pc \in T : NextPcs(code, pc, checked) \subseteq T
  PROVE  Reached(code, checked) \subseteq T
<1> DEFINE L == Len(code) + 1
           Step(B) == B \cup UNION {NextPcs(code, pc, checked) : pc \in B}
           Def(g, i) == IF i = 0 THEN {0} ELSE Step(g[i - 1])
           Is(g, k) == g = [i \in 0 .. k |-> Def(g, i)]
           s == CHOOSE g : Is(g, L)
<1>1. L \in Nat
  BY CodeFacts
<1>2. Reached(code, checked) = s[L]
  BY DEF Reached
<1>3. \A k \in Nat : \E g : Is(g, k)
  <2> HIDE DEF Step
  <2> DEFINE S == {k \in Nat : \E g : Is(g, k)}
  <2>1. 0 \in S
    <3>1. 0 .. 0 = {0}
      OBVIOUS
    <3>2. Is([i \in 0 .. 0 |-> {0}], 0)
      BY <3>1
    <3> QED BY <3>2
  <2>2. ASSUME NEW k \in Nat, k \in S PROVE k + 1 \in S
    <3>1. PICK g : Is(g, k)
      BY <2>2
    <3> DEFINE h == [i \in 0 .. k + 1 |-> IF i = k + 1 THEN Def(g, k + 1) ELSE g[i]]
    <3>2. \A i \in 0 .. k : g[i] = Def(g, i)
      BY <3>1
    <3>3. /\ DOMAIN h = 0 .. k + 1
          /\ \A i \in 0 .. k : h[i] = g[i]
          /\ h[k + 1] = Def(g, k + 1)
          /\ h = [i \in 0 .. k + 1 |-> h[i]]
      OBVIOUS
    <3>4. (k + 1) - 1 = k /\ k + 1 # 0 /\ k \in 0 .. k
      OBVIOUS
    <3>5. \A i \in 0 .. k : i # 0 => i - 1 \in 0 .. k
      OBVIOUS
    <3>6. \A i \in 0 .. k + 1 : i \in 0 .. k \/ i = k + 1
      OBVIOUS
    <3> HIDE DEF h
    <3>7. \A i \in 0 .. k + 1 : h[i] = Def(h, i)
      BY <3>2, <3>3, <3>4, <3>5, <3>6
    <3>8. Is(h, k + 1)
      BY <3>3, <3>7
    <3> HIDE DEF Is
    <3> QED BY <3>8
  <2> HIDE DEF S
  <2>3. \A k \in Nat : k \in S
    BY <2>1, <2>2, NatInd
  <2> HIDE DEF Is
  <2> QED BY <2>3 DEF S
<1>4. Is(s, L)
  <2> HIDE DEF Is
  <2> QED BY <1>1, <1>3, Zenon
<1>5. \A i \in 0 .. L : s[i] = Def(s, i)
  BY <1>4
<1> HIDE DEF s, Is, L
<1>6. \A B : B \subseteq T => Step(B) \subseteq T
  OBVIOUS
<1> HIDE DEF Step
<1>7. \A n \in Nat : n <= L => s[n] \subseteq T
  <2> DEFINE S == {n \in Nat : n <= L => s[n] \subseteq T}
  <2>1. 0 \in S
    BY <1>1, <1>5
  <2>2. ASSUME NEW n \in Nat, n \in S PROVE n + 1 \in S
    <3> SUFFICES ASSUME n + 1 <= L PROVE s[n + 1] \subseteq T
      OBVIOUS
    <3>1. n <= L /\ n + 1 \in 0 .. L /\ (n + 1) - 1 = n /\ n + 1 # 0
      BY <1>1
    <3>2. s[n] \subseteq T
      BY <2>2, <3>1
    <3>3. s[n + 1] = Step(s[n])
      BY <1>5, <3>1
    <3> QED BY <1>6, <3>2, <3>3
  <2> HIDE DEF S
  <2>3. \A n \in Nat : n \in S
    BY <2>1, <2>2, NatInd
  <2> QED BY <2>3 DEF S
<1> QED BY <1>1, <1>2, <1>7

(* From an instruction to the next, its data is skipped. *)
LEMMA SkipsTogether ==
  ASSUME NEW code \in Seq(Bytes), NEW s,
         \A i \in Positions(code) :
           s[i + 1] = IF s[i] > 0 THEN s[i] - 1 ELSE PushLen(ByteAt(code, i)),
         NEW i \in Positions(code), s[i] = 0
  PROVE  LET n == PushLen(ByteAt(code, i)) IN
           /\ n \in 0 .. 2
           /\ \A j \in 1 .. n : i + j \in Positions(code) => s[i + j] = n - j + 1
           /\ i + n \in Positions(code) => s[i + 1 + n] = 0
<1> DEFINE n == PushLen(ByteAt(code, i))
           P == Positions(code)
<1>1. Len(code) \in Nat /\ P = 0 .. Len(code) - 1 /\ n \in 0 .. 2
  BY CodeFacts
<1>2. s[i + 1] = n
  OBVIOUS
<1> HIDE DEF n
<1>3. i + 1 \in P => s[i + 2] = IF n > 0 THEN n - 1 ELSE PushLen(ByteAt(code, i + 1))
  <2>1. (i + 1) + 1 = i + 2
    BY <1>1
  <2> QED BY <1>2, <2>1
<1>4. i + 2 \in P => s[i + 3] = IF s[i + 2] > 0 THEN s[i + 2] - 1 ELSE PushLen(ByteAt(code, i + 2))
  <2>1. (i + 2) + 1 = i + 3
    BY <1>1
  <2> QED BY <2>1
<1>5. CASE n = 0
  BY <1>1, <1>2, <1>5 DEF n
<1>6. CASE n = 1
  <2>1. 1 .. 1 = {1} /\ i + 1 + 1 = i + 2
    BY <1>1
  <2> QED BY <1>1, <1>2, <1>3, <1>6, <2>1 DEF n
<1>7. CASE n = 2
  <2>1. 1 .. 2 = {1, 2} /\ i + 1 + 2 = i + 3 /\ (i + 2 \in P => i + 1 \in P)
    BY <1>1
  <2>2. \A j \in 1 .. 2 : i + j \in P => s[i + j] = 2 - j + 1
    <3>1. i + 1 \in P => s[i + 1] = 2 - 1 + 1
      BY <1>2, <1>7
    <3>2. i + 2 \in P => s[i + 2] = 2 - 2 + 1
      BY <1>3, <1>7, <2>1
    <3> QED BY <2>1, <3>1, <3>2
  <2>3. i + 2 \in P => s[i + 1 + 2] = 0
    BY <1>3, <1>4, <1>7, <2>1
  <2> QED BY <1>1, <1>7, <2>2, <2>3 DEF n
<1> QED BY <1>1, <1>5, <1>6, <1>7

(* The bitmap marks a set that goes from each instruction to the next, and *)
(* is part of every such set.                                              *)
LEMMA BitmapFollows ==
  ASSUME NEW code \in Seq(Bytes)
  PROVE  Follows(code, GenCodeBitmap(code)) /\ GenCodeBitmap(code) \subseteq Positions(code)
<1> DEFINE B == GenCodeBitmap(code)
           P == Positions(code)
<1>1. PICK s : /\ s[0] = 0
               /\ \A i \in P : s[i + 1] = IF s[i] > 0 THEN s[i] - 1 ELSE PushLen(ByteAt(code, i))
               /\ B = {i \in P : s[i] = 0}
  BY BitmapSkips
<1>2. Len(code) \in Nat /\ P = 0 .. Len(code) - 1
  BY CodeFacts
<1> HIDE DEF B, P
<1>3. ASSUME NEW i \in B, i + 1 + PushLen(ByteAt(code, i)) \in P
      PROVE  i + 1 + PushLen(ByteAt(code, i)) \in B
  <2> DEFINE n == PushLen(ByteAt(code, i))
  <2>1. i \in P /\ s[i] = 0
    BY <1>1
  <2>2. n \in 0 .. 2 /\ (i + n \in P => s[i + 1 + n] = 0)
    BY <1>1, <2>1, SkipsTogether DEF P
  <2> HIDE DEF n
  <2>3. i + n \in P
    BY <1>2, <1>3, <2>1, <2>2 DEF n
  <2> QED BY <1>1, <1>3, <2>2, <2>3 DEF n
<1>4. 0 \in P => 0 \in B
  BY <1>1
<1> QED BY <1>1, <1>3, <1>4 DEF Follows, B, P

LEMMA BitmapLeast ==
  ASSUME NEW code \in Seq(Bytes), NEW S, Follows(code, S)
  PROVE  GenCodeBitmap(code) \subseteq S
<1> DEFINE B == GenCodeBitmap(code)
           P == Positions(code)
           L == Len(code)
<1>1. PICK s : /\ s[0] = 0
               /\ \A i \in P : s[i + 1] = IF s[i] > 0 THEN s[i] - 1 ELSE PushLen(ByteAt(code, i))
               /\ B = {i \in P : s[i] = 0}
  BY BitmapSkips
<1>2. /\ L \in Nat /\ P = 0 .. L - 1
      /\ \A i \in P : PushLen(ByteAt(code, i)) \in 0 .. 2
  BY CodeFacts
<1> HIDE DEF B, P, L
<1>3. /\ 0 \in P => 0 \in S
      /\ \A i \in S : i + 1 + PushLen(ByteAt(code, i)) \in P
                        => i + 1 + PushLen(ByteAt(code, i)) \in S
  BY DEF Follows, P
(* The next instruction, seen from anywhere, is in S. *)
<1> DEFINE Good(i) == s[i] \in Nat /\ (i + s[i] \in P => i + s[i] \in S)
           N == {i \in Nat : i \in P => Good(i)}
<1>4. 0 \in N
  BY <1>1, <1>3
<1>5. ASSUME NEW i \in Nat, i \in N PROVE i + 1 \in N
  <2> SUFFICES ASSUME i + 1 \in P PROVE Good(i + 1)
    OBVIOUS
  <2>1. i \in P
    BY <1>2
  <2>2. s[i] \in Nat /\ (i + s[i] \in P => i + s[i] \in S)
    BY <1>5, <2>1
  <2>3. s[i + 1] = IF s[i] > 0 THEN s[i] - 1 ELSE PushLen(ByteAt(code, i))
    BY <1>1, <2>1
  <2>4. CASE s[i] > 0
    <3>1. s[i + 1] = s[i] - 1 /\ s[i + 1] \in Nat /\ (i + 1) + s[i + 1] = i + s[i]
      BY <2>2, <2>3, <2>4
    <3> QED BY <2>2, <3>1
  <2>5. CASE ~(s[i] > 0)
    <3> DEFINE n == PushLen(ByteAt(code, i))
    <3>1. i + s[i] = i
      BY <2>2, <2>5
    <3>2. i \in S
      BY <2>1, <2>2, <3>1
    <3>3. s[i + 1] = n /\ n \in Nat
      BY <1>2, <2>1, <2>3, <2>5
    <3>4. i + 1 + n \in P => i + 1 + n \in S
      BY <1>3, <3>2
    <3> HIDE DEF n
    <3> QED BY <3>3, <3>4
  <2> QED BY <2>4, <2>5
<1> HIDE DEF N
<1>6. \A i \in Nat : i \in N
  BY <1>4, <1>5, NatInd
<1>7. ASSUME NEW i \in B PROVE i \in S
  <2>1. i \in P /\ s[i] = 0 /\ i \in Nat
    BY <1>1, <1>2
  <2>2. i + s[i] = i
    BY <2>1
  <2> QED BY <1>6, <2>1, <2>2 DEF N
<1> QED BY <1>7 DEF B

(* What follows an instruction is one, or lies past the end. *)
LEMMA NextPcMarked ==
  ASSUME NEW code \in Seq(Bytes), NEW checked, NEW pc \in GenCodeBitmap(code),
         NEW q \in NextPcs(code, pc, checked)
  PROVE  q \in GenCodeBitmap(code) \/ (q \in Nat /\ q >= Len(code))
<1> DEFINE B == GenCodeBitmap(code)
           P == Positions(code)
           b == ByteAt(code, pc)
           J == Jumps(code, checked)
           n == PushLen(b)
           L == Len(code)
<1>1. L \in Nat /\ P = 0 .. L - 1 /\ n \in 0 .. 2 /\ pc \in P
  BY CodeFacts, BitmapFollows
<1>2. pc + 1 + n \in P => pc + 1 + n \in B
  BY BitmapFollows DEF Follows
<1>3. J \subseteq B
  BY DEF Jumps, IsValidJumpdest
<1>4. q \in J \/ (n = 0 /\ q = pc + 1) \/ q = pc + 1 + n
  <2>1. q \in CASE b = "Stop"     -> {}
                [] b = "Jump"     -> J
                [] b = "JumpI"    -> J \cup {pc + 1}
                [] n > 0 -> IF pc + n \in P THEN {pc + 1 + n} ELSE {}
                [] OTHER          -> {pc + 1}
    BY <1>1 DEF NextPcs
  <2>2. b = "JumpI" => n = 0
    BY DEF PushLen
  <2> HIDE DEF b, n, J, P
  <2>3. CASE b = "Stop"
    BY <2>1, <2>3
  <2>4. CASE b = "Jump"
    BY <2>1, <2>4
  <2>5. CASE b = "JumpI"
    BY <2>1, <2>2, <2>5
  <2>6. CASE b \notin {"Stop", "Jump", "JumpI"} /\ n > 0
    BY <2>1, <2>6
  <2>7. CASE b \notin {"Stop", "Jump", "JumpI"} /\ ~(n > 0)
    BY <1>1, <2>1, <2>7
  <2> QED BY <2>3, <2>4, <2>5, <2>6, <2>7
<1> HIDE DEF B, P, b, J, n, L
<1>5. q \in B \/ q = pc + 1 + n
  BY <1>1, <1>3, <1>4
<1>6. pc + 1 + n \in P \/ (pc + 1 + n \in Nat /\ pc + 1 + n >= L)
  BY <1>1
<1> QED BY <1>2, <1>5, <1>6 DEF B, L

LEMMA ReachedMarked ==
  ASSUME NEW code \in Seq(Bytes), NEW checked, NEW pc \in Reached(code, checked)
  PROVE  pc \in GenCodeBitmap(code) \/ pc >= Len(code)
<1> DEFINE B == GenCodeBitmap(code)
           L == Len(code)
           T == B \cup {q \in Nat : q >= L}
<1>1. L \in Nat /\ Positions(code) = 0 .. L - 1
  BY CodeFacts
<1>2. (0 \in Positions(code) => 0 \in B) /\ B \subseteq Positions(code)
  BY BitmapFollows DEF Follows
<1>3. 0 \in T
  BY <1>1, <1>2
<1>4. ASSUME NEW q \in T, NEW r \in NextPcs(code, q, checked) PROVE r \in T
  <2>1. q \in Positions(code)
    BY <1>4 DEF NextPcs
  <2>2. q \in B
    BY <1>1, <2>1
  <2> QED BY <2>2, NextPcMarked
<1> HIDE DEF T
<1>5. Reached(code, checked) \subseteq T
  BY <1>3, <1>4, ReachedIn
<1> QED BY <1>5 DEF T

-----------------------------------------------------------------------------
(* Words.  Powers of two, quotients and remainders.                        *)

LEMMA Pow2Eq ==
  /\ Pow2[0] = 1
  /\ \A n \in Nat : Pow2[n + 1] = 2 * Pow2[n]
<1> DEFINE Def(g, i) == IF i = 0 THEN 1 ELSE 2 * g[i - 1]
           Is(g, k) == g = [i \in 0 .. k |-> Def(g, i)]
           J(k) == CHOOSE g : Is(g, k)
           Only(k) == \E g : Is(g, k) /\ \A h : Is(h, k) => h = g
<1>1. Pow2 = CHOOSE g : g = [i \in Nat |-> Def(g, i)]
  BY DEF Pow2
<1>2. Only(0)
  <2> DEFINE g == [i \in 0 .. 0 |-> 1]
  <2>1. 0 .. 0 = {0}
    OBVIOUS
  <2>2. \A h : Is(h, 0) <=> h = g
    BY <2>1
  <2> QED BY <2>2
<1>3. ASSUME NEW k \in Nat, NEW g, NEW h, Is(g, k), \A x : Is(x, k) => x = g,
             h = [i \in 0 .. k + 1 |-> IF i = k + 1 THEN Def(g, k + 1) ELSE g[i]]
      PROVE  Is(h, k + 1) /\ \A x : Is(x, k + 1) => x = h
  <2>1. /\ DOMAIN g = 0 .. k
        /\ \A i \in 0 .. k : g[i] = Def(g, i)
    BY <1>3
  <2>2. /\ DOMAIN h = 0 .. k + 1
        /\ \A i \in 0 .. k : h[i] = g[i]
        /\ h[k + 1] = Def(g, k + 1)
    BY <1>3
  <2>3. (k + 1) - 1 = k /\ k + 1 # 0 /\ k \in 0 .. k
    OBVIOUS
  <2>4. \A i \in 0 .. k : i # 0 => i - 1 \in 0 .. k
    OBVIOUS
  <2>5. \A i \in 0 .. k + 1 : i \in 0 .. k \/ i = k + 1
    OBVIOUS
  <2>6. \A i \in 0 .. k + 1 : h[i] = Def(h, i)
    BY <2>1, <2>2, <2>3, <2>4, <2>5
  <2>7. Is(h, k + 1)
    BY <1>3, <2>6
  <2>8. ASSUME NEW x, Is(x, k + 1) PROVE x = h
    <3> DEFINE y == [i \in 0 .. k |-> x[i]]
    <3>1. \A i \in 0 .. k + 1 : x[i] = Def(x, i)
      BY <2>8
    <3>2. \A i \in 0 .. k : y[i] = Def(y, i)
      BY <2>4, <3>1
    <3>3. y = g
      BY <1>3, <3>2
    <3>4. \A i \in 0 .. k : x[i] = g[i]
      BY <3>3
    <3>5. x[k + 1] = Def(g, k + 1)
      BY <2>3, <3>1, <3>4
    <3>6. x = [i \in 0 .. k + 1 |-> x[i]]
      BY <2>8
    <3>7. h = [i \in 0 .. k + 1 |-> h[i]]
      BY <1>3
    <3> HIDE DEF Def
    <3>8. \A i \in 0 .. k + 1 : x[i] = h[i]
      BY <2>2, <2>5, <3>4, <3>5
    <3> QED BY <3>6, <3>7, <3>8
  <2> QED BY <2>7, <2>8
<1> HIDE DEF Is
<1>4. \A k \in Nat : Only(k)
  <2> DEFINE S == {k \in Nat : Only(k)}
  <2>1. 0 \in S
    BY <1>2
  <2>2. ASSUME NEW k \in Nat, k \in S PROVE k + 1 \in S
    <3>1. PICK g : Is(g, k) /\ \A x : Is(x, k) => x = g
      BY <2>2
    <3>2. Only(k + 1)
      BY <1>3, <3>1
    <3> QED BY <3>2
  <2> HIDE DEF S
  <2>3. \A k \in Nat : k \in S
    BY <2>1, <2>2, NatInd
  <2> QED BY <2>3 DEF S
<1>5. ASSUME NEW k \in Nat PROVE Is(J(k), k) /\ \A h : Is(h, k) => h = J(k)
  <2>1. PICK g : Is(g, k) /\ \A x : Is(x, k) => x = g
    BY <1>4
  <2>2. Is(J(k), k)
    BY <2>1, Zenon
  <2> QED BY <2>1, <2>2
<1> HIDE DEF J
<1>6. ASSUME NEW n \in Nat PROVE J(n + 1)[n + 1] = Def(J(n), n + 1)
  <2> DEFINE h == [i \in 0 .. n + 1 |-> IF i = n + 1 THEN Def(J(n), n + 1) ELSE J(n)[i]]
  <2>1. Is(h, n + 1)
    BY <1>3, <1>5
  <2>2. J(n + 1) = h
    BY <1>5, <2>1
  <2>3. n + 1 \in 0 .. n + 1
    OBVIOUS
  <2>4. h[n + 1] = Def(J(n), n + 1)
    BY <2>3
  <2> HIDE DEF h, Def
  <2> QED BY <2>2, <2>4
<1>7. J(0)[0] = 1
  <2>1. Is(J(0), 0)
    BY <1>5
  <2> QED BY <2>1 DEF Is
<1> DEFINE f == [n \in Nat |-> J(n)[n]]
<1>8. \A n \in Nat : f[n + 1] = 2 * f[n]
  BY <1>6
<1>9. f[0] = 1
  BY <1>7
<1>10. \A n \in Nat : n # 0 => n - 1 \in Nat /\ n = (n - 1) + 1
  OBVIOUS
<1>11. f = [n \in Nat |-> f[n]]
  OBVIOUS
<1> HIDE DEF f
<1>12. \A n \in Nat : f[n] = Def(f, n)
  BY <1>8, <1>9, <1>10
<1> DEFINE IsP(g) == g = [i \in Nat |-> Def(g, i)]
<1>13. IsP(f)
  BY <1>11, <1>12
<1>14. Pow2 = CHOOSE g : IsP(g)
  BY <1>1
<1> HIDE DEF IsP
<1>15. IsP(Pow2)
  BY <1>13, <1>14, Zenon
<1>16. \A n \in Nat : Pow2[n] = Def(Pow2, n)
  BY <1>15 DEF IsP
<1>17. \A n \in Nat : n + 1 \in Nat /\ n + 1 # 0 /\ (n + 1) - 1 = n
  OBVIOUS
<1> QED BY <1>16, <1>17

LEMMA Pow2Type == \A n \in Nat : Pow2[n] \in Nat /\ Pow2[n] > 0
<1> DEFINE S == {n \in Nat : Pow2[n] \in Nat /\ Pow2[n] > 0}
<1>1. 0 \in S
  BY Pow2Eq
<1>2. ASSUME NEW n \in Nat, n \in S PROVE n + 1 \in S
  BY <1>2, Pow2Eq
<1> HIDE DEF S
<1>3. \A n \in Nat : n \in S
  BY <1>1, <1>2, NatInd
<1> QED BY <1>3 DEF S

LEMMA Distribute ==
  ASSUME NEW a \in Int, NEW b \in Int, NEW c \in Int
  PROVE  (a + b) * c = a * c + b * c /\ c * (a + b) = c * a + c * b
OBVIOUS

LEMMA Associate ==
  ASSUME NEW a \in Int, NEW b \in Int, NEW c \in Int
  PROVE  (a * b) * c = a * (b * c) /\ a * b = b * a
OBVIOUS

LEMMA Pow2Sum ==
  ASSUME NEW m \in Nat
  PROVE  \A n \in Nat : Pow2[m + n] = Pow2[m] * Pow2[n]
<1> DEFINE S == {n \in Nat : Pow2[m + n] = Pow2[m] * Pow2[n]}
<1>0. Pow2[m] \in Nat /\ Pow2[0] = 1
  BY Pow2Type, Pow2Eq
<1>1. 0 \in S
  BY <1>0
<1>2. ASSUME NEW n \in Nat, n \in S PROVE n + 1 \in S
  <2>1. Pow2[n + 1] = 2 * Pow2[n] /\ Pow2[(m + n) + 1] = 2 * Pow2[m + n] /\ m + (n + 1) = (m + n) + 1
    BY Pow2Eq
  <2> DEFINE a == Pow2[m]
             b == Pow2[n]
  <2>2. a \in Nat /\ b \in Nat /\ Pow2[m + n] = a * b
    BY <1>2, Pow2Type
  <2> HIDE DEF a, b
  <2>3. 2 * (a * b) = a * (2 * b)
    BY <2>2
  <2>4. Pow2[m + (n + 1)] = 2 * (a * b) /\ Pow2[n + 1] = 2 * b
    BY <2>1, <2>2 DEF b
  <2>5. Pow2[m + (n + 1)] = Pow2[m] * Pow2[n + 1]
    BY <2>3, <2>4 DEF a
  <2> QED BY <2>5
<1> HIDE DEF S
<1>3. \A n \in Nat : n \in S
  BY <1>1, <1>2, NatInd
<1> QED BY <1>3 DEF S

LEMMA ProductLess ==
  ASSUME NEW a \in Nat, NEW b \in Nat, NEW d \in Nat, a < b
  PROVE  a * d + d <= b * d
<1>1. b = (a + 1) + (b - a - 1) /\ b - a - 1 \in Nat
  OBVIOUS
<1> DEFINE e == b - a - 1
<1> HIDE DEF e
<1>2. e \in Nat /\ b = a + 1 + e
  BY <1>1 DEF e
<1>3. b * d = a * d + d + e * d
  BY <1>2, Distribute
<1>4. e * d \in Nat /\ a * d \in Nat
  BY <1>2
<1> QED BY <1>3, <1>4

LEMMA QuotientIs ==
  ASSUME NEW d \in Nat, d > 0, NEW q \in Nat, NEW r \in 0 .. d - 1, NEW x, x = q * d + r
  PROVE  x \div d = q /\ x % d = r /\ x \in Nat
<1>1. q * d \in Nat /\ x \in Nat
  OBVIOUS
<1> DEFINE e == x \div d
           s == x % d
<1>2. e \in Nat /\ s \in 0 .. d - 1 /\ x = e * d + s
  BY <1>1
<1> HIDE DEF e, s
<1>3. ASSUME e < q PROVE FALSE
  <2>1. e * d + d <= q * d
    BY <1>2, <1>3, ProductLess
  <2>2. e * d \in Nat
    BY <1>2
  <2> QED BY <1>1, <1>2, <2>1, <2>2
<1>4. ASSUME q < e PROVE FALSE
  <2>1. q * d + d <= e * d
    BY <1>2, <1>4, ProductLess
  <2>2. e * d \in Nat
    BY <1>2
  <2> QED BY <1>1, <1>2, <2>1, <2>2
<1>5. e = q
  BY <1>2, <1>3, <1>4
<1>6. s = r
  BY <1>1, <1>2, <1>5
<1> QED BY <1>1, <1>5, <1>6 DEF e, s

LEMMA Division ==
  ASSUME NEW d \in Nat, d > 0, NEW x \in Nat
  PROVE  x \div d \in Nat /\ x % d \in 0 .. d - 1 /\ x = (x \div d) * d + (x % d)
OBVIOUS

-----------------------------------------------------------------------------
(* The bits of a word.                                                     *)

LEMMA BitIs ==
  ASSUME NEW i \in Nat, NEW hi \in Nat, NEW b \in {0, 1}, NEW lo \in 0 .. Pow2[i] - 1,
         NEW x, x = (2 * hi + b) * Pow2[i] + lo
  PROVE  Bit(x, i) <=> b = 1
<1> DEFINE P == Pow2[i]
           q == 2 * hi + b
<1>1. P \in Nat /\ P > 0 /\ q \in Nat /\ q % 2 = b
  BY Pow2Type
<1>2. lo \in 0 .. P - 1 /\ x = q * P + lo
  OBVIOUS
<1> HIDE DEF P, q
<1>3. x \div P = q
  BY <1>1, <1>2, QuotientIs
<1> QED BY <1>1, <1>3 DEF Bit, P

LEMMA BitParts ==
  ASSUME NEW x \in Nat, NEW i \in Nat
  PROVE  \E hi \in Nat, b \in {0, 1}, lo \in 0 .. Pow2[i] - 1 :
           x = (2 * hi + b) * Pow2[i] + lo /\ (Bit(x, i) <=> b = 1)
<1> DEFINE P == Pow2[i]
           q == x \div P
           lo == x % P
           hi == q \div 2
           b == q % 2
<1>1. P \in Nat /\ P > 0
  BY Pow2Type
<1> HIDE DEF P
<1>2. q \in Nat /\ lo \in 0 .. P - 1 /\ x = q * P + lo
  BY <1>1, Division
<1> HIDE DEF q, lo
<1>3. hi \in Nat /\ b \in {0, 1} /\ q = 2 * hi + b
  BY <1>2
<1> HIDE DEF hi, b
<1>4. x = (2 * hi + b) * P + lo
  BY <1>2, <1>3
<1>5. Bit(x, i) <=> b = 1
  BY <1>2, <1>3, <1>4, BitIs DEF P
<1> QED BY <1>2, <1>3, <1>4, <1>5 DEF P

(* What is added above a bit does not change it. *)
LEMMA BitBelow ==
  ASSUME NEW x \in Nat, NEW c \in Nat, NEW k \in Nat, NEW i \in 0 .. k - 1
  PROVE  Bit(x + c * Pow2[k], i) <=> Bit(x, i)
<1> DEFINE P == Pow2[i]
           Q == Pow2[k - i - 1]
<1>1. i \in Nat /\ k - i - 1 \in Nat /\ k = (k - i - 1) + (i + 1)
  OBVIOUS
<1>2. P \in Nat /\ Q \in Nat
  BY <1>1, Pow2Type
<1>3. Pow2[k] = Q * (2 * P)
  <2>1. Pow2[i + 1] = 2 * P
    BY <1>1, Pow2Eq
  <2>2. Pow2[(k - i - 1) + (i + 1)] = Pow2[k - i - 1] * Pow2[i + 1]
    BY <1>1, Pow2Sum
  <2> QED BY <1>1, <2>1, <2>2
<1>4. PICK hi \in Nat, b \in {0, 1}, lo \in 0 .. P - 1 :
        x = (2 * hi + b) * P + lo /\ (Bit(x, i) <=> b = 1)
  BY <1>1, BitParts
<1> DEFINE H == hi + c * Q
           y == x + c * Pow2[k]
<1>5. H \in Nat
  BY <1>2
<1>6. y = (2 * H + b) * P + lo
  <2> DEFINE R == c * Q
             z == 2 * hi + b
  <2>1. R \in Nat /\ z \in Nat /\ 2 * H + b = z + 2 * R
    BY <1>2
  <2>2. c * (Q * (2 * P)) = R * (2 * P)
    BY <1>2, Associate
  <2>3. x = z * P + lo
    BY <1>4
  <2> HIDE DEF R, z, P, Q, H
  <2>4. (z + 2 * R) * P = z * P + (2 * R) * P
    BY <1>2, <2>1, Distribute
  <2>5. (2 * R) * P = R * (2 * P)
    BY <1>2, <2>1
  <2>6. y = z * P + lo + R * (2 * P)
    BY <1>3, <2>2, <2>3
  <2>7. z * P \in Nat /\ R * (2 * P) \in Nat /\ lo \in Int
    BY <1>2, <2>1
  <2> QED BY <2>1, <2>4, <2>5, <2>6, <2>7
<1> HIDE DEF H, y
<1>7. Bit(y, i) <=> b = 1
  BY <1>1, <1>5, <1>6, BitIs
<1> QED BY <1>4, <1>7 DEF y

LEMMA BitOfZero ==
  ASSUME NEW i \in Nat
  PROVE  ~Bit(0, i)
<1> DEFINE P == Pow2[i]
<1>1. P \in Nat /\ P > 0
  BY Pow2Type
<1>2. 0 = (2 * 0 + 0) * P + 0 /\ 0 \in 0 .. P - 1
  BY <1>1
<1> QED BY <1>2, BitIs

(* The bits of a multiple of a power. *)
LEMMA BitScaledLow ==
  ASSUME NEW v \in Nat, NEW s \in Nat, NEW i \in 0 .. s - 1
  PROVE  ~Bit(v * Pow2[s], i)
<1> DEFINE y == v * Pow2[s]
<1>1. y \in Nat /\ 0 + y = y /\ i \in Nat
  BY Pow2Type
<1>2. Bit(0 + v * Pow2[s], i) <=> Bit(0, i)
  BY BitBelow
<1>3. ~Bit(0, i)
  BY <1>1, BitOfZero
<1> QED BY <1>1, <1>2, <1>3

LEMMA BitScaledHigh ==
  ASSUME NEW v \in Nat, NEW s \in Nat, NEW r \in 0 .. Pow2[s] - 1, NEW i \in Nat
  PROVE  Bit(v * Pow2[s] + r, i + s) <=> Bit(v, i)
<1> DEFINE P == Pow2[i]
           S == Pow2[s]
           T == Pow2[i + s]
<1>0. Pow2[i + s] = Pow2[i] * Pow2[s] /\ i + s \in Nat
  BY Pow2Sum
<1>1. P \in Nat /\ P > 0 /\ S \in Nat /\ S > 0 /\ T = P * S /\ T \in Nat
  BY <1>0, Pow2Type
<1>2. PICK hi \in Nat, b \in {0, 1}, lo \in 0 .. P - 1 :
        v = (2 * hi + b) * P + lo /\ (Bit(v, i) <=> b = 1)
  BY BitParts
<1> DEFINE z == 2 * hi + b
           L == lo * S + r
           y == v * S + r
<1>3. z \in Nat /\ v = z * P + lo
  BY <1>2
<1>4. L \in 0 .. T - 1
  <2> HIDE DEF P, S, T
  <2>0. r \in 0 .. S - 1 /\ lo \in Nat /\ lo < P
    BY <1>1 DEF S
  <2>1. lo * S + S <= P * S
    BY <1>1, <2>0, ProductLess
  <2>2. lo * S \in Nat
    BY <1>1, <2>0
  <2> QED BY <1>1, <2>0, <2>1, <2>2
<1>5. y = z * T + L
  <2> HIDE DEF z, P, S, T
  <2>1. (z * P + lo) * S = (z * P) * S + lo * S /\ (z * P) * S = z * (P * S)
    BY <1>1, <1>3, Distribute, Associate
  <2>2. z * T \in Nat /\ lo * S \in Nat /\ r \in Int
    BY <1>1, <1>3
  <2> QED BY <1>1, <1>3, <2>1, <2>2
<1> HIDE DEF L, y
<1>6. i + s \in Nat
  OBVIOUS
<1>7. Bit(y, i + s) <=> b = 1
  BY <1>4, <1>5, <1>6, BitIs
<1> QED BY <1>2, <1>7 DEF y

LEMMA Pow2Mono ==
  ASSUME NEW k \in Nat, NEW i \in Nat, k <= i
  PROVE  Pow2[k] <= Pow2[i]
<1> DEFINE P == Pow2[k]
           Q == Pow2[i - k]
<1>1. i - k \in Nat /\ k + (i - k) = i
  OBVIOUS
<1>0. Pow2[k + (i - k)] = Pow2[k] * Pow2[i - k]
  BY <1>1, Pow2Sum
<1>2. P \in Nat /\ Q \in Nat /\ Q > 0 /\ Pow2[i] = P * Q
  BY <1>0, <1>1, Pow2Type
<1> HIDE DEF P, Q
<1>3. 0 * P + P <= Q * P /\ Q * P = P * Q
  BY <1>2, ProductLess
<1> QED BY <1>2, <1>3 DEF P

LEMMA BitBeyond ==
  ASSUME NEW k \in Nat, NEW x \in 0 .. Pow2[k] - 1, NEW i \in Nat, k <= i
  PROVE  ~Bit(x, i)
<1>1. Pow2[k] <= Pow2[i] /\ Pow2[k] \in Nat /\ Pow2[i] \in Nat
  BY Pow2Mono, Pow2Type
<1>2. x \in 0 .. Pow2[i] - 1 /\ x = (2 * 0 + 0) * Pow2[i] + x
  BY <1>1
<1> QED BY <1>2, BitIs

(* A number of ones. *)
LEMMA BitOfOnes ==
  ASSUME NEW k \in Nat, NEW i \in 0 .. k - 1
  PROVE  Bit(Pow2[k] - 1, i)
<1> DEFINE P == Pow2[i]
           Q == Pow2[k - i - 1]
<1>1. i \in Nat /\ k - i - 1 \in Nat /\ k = (k - i - 1) + (i + 1)
  OBVIOUS
<1>2. P \in Nat /\ P > 0 /\ Q \in Nat /\ Q > 0
  BY <1>1, Pow2Type
<1>3. Pow2[k] = Q * (2 * P)
  <2>1. Pow2[i + 1] = 2 * P
    BY <1>1, Pow2Eq
  <2>2. Pow2[(k - i - 1) + (i + 1)] = Pow2[k - i - 1] * Pow2[i + 1]
    BY <1>1, Pow2Sum
  <2> QED BY <1>1, <2>1, <2>2
<1> DEFINE x == Pow2[k] - 1
<1>4. x = (2 * (Q - 1) + 1) * P + (P - 1)
  <2> HIDE DEF P, Q
  <2>1. (2 * (Q - 1) + 1) * P = (2 * (Q - 1)) * P + P /\ (2 * (Q - 1)) * P = Q * (2 * P) - 2 * P
    BY <1>2, Distribute
  <2> QED BY <1>2, <1>3, <2>1
<1>5. Q - 1 \in Nat /\ P - 1 \in 0 .. P - 1
  BY <1>2
<1> HIDE DEF x, Q
<1> QED BY <1>1, <1>4, <1>5, BitIs DEF x

LEMMA AluFacts ==
  /\ ByteBits \in Nat /\ ByteBits > 0 /\ NBytes \in Nat /\ NBytes > 0
  /\ Bits \in Nat /\ Bits > 0 /\ Top \in Nat /\ Top + 1 = Bits /\ Top = Bits - 1
  /\ Bits = NBytes * ByteBits /\ ByteBits <= Bits
  /\ Size \in Nat /\ Size > 0 /\ Size = Pow2[Bits] /\ MaxWord = Size - 1
  /\ Word = 0 .. Size - 1 /\ Word \subseteq Nat
  /\ UsizeMax \in Word /\ UsizeMax >= Bits
<1>1. ByteBits \in Nat /\ ByteBits > 0 /\ NBytes \in Nat /\ NBytes > 0
  BY AluAssumption
<1>2. 0 * ByteBits + ByteBits <= NBytes * ByteBits
  BY <1>1, ProductLess
<1>3. Bits = NBytes * ByteBits /\ NBytes * ByteBits \in Nat /\ ByteBits <= NBytes * ByteBits
  BY <1>1, <1>2 DEF Bits
<1>4. Bits \in Nat /\ Bits > 0 /\ ByteBits <= Bits
  BY <1>1, <1>3
<1>5. Pow2[Bits] \in Nat /\ Pow2[Bits] > 0
  BY <1>4, Pow2Type
<1>6. Size = Pow2[Bits] /\ Size \in Nat /\ Size > 0
  BY <1>5 DEF Size
<1>7. UsizeMax \in Bits .. MaxWord
  BY AluAssumption
<1> QED BY <1>1, <1>3, <1>4, <1>6, <1>7 DEF Top, MaxWord, Word

LEMMA BitsExist ==
  ASSUME NEW B
  PROVE  \A k \in Nat : \E z \in 0 .. Pow2[k] - 1 : \A i \in 0 .. k - 1 : Bit(z, i) <=> i \in B
<1> DEFINE Has(z, k) == z \in 0 .. Pow2[k] - 1 /\ \A i \in 0 .. k - 1 : Bit(z, i) <=> i \in B
           S == {k \in Nat : \E z : Has(z, k)}
<1>1. 0 \in S
  <2>1. Has(0, 0)
    BY Pow2Eq
  <2> QED BY <2>1
<1>2. ASSUME NEW k \in Nat, k \in S PROVE k + 1 \in S
  <2>1. PICK z : Has(z, k)
    BY <1>2
  <2> DEFINE P == Pow2[k]
             c == IF k \in B THEN 1 ELSE 0
             y == z + c * P
  <2>2. P \in Nat /\ P > 0 /\ z \in 0 .. P - 1 /\ c \in {0, 1} /\ z \in Nat /\ c \in Nat
    BY <2>1, Pow2Type
  <2>3. Pow2[k + 1] = 2 * P
    BY Pow2Eq
  <2>4. ASSUME NEW i \in 0 .. k - 1 PROVE Bit(y, i) <=> i \in B
    BY <2>1, <2>2, BitBelow
  <2>5. Bit(y, k) <=> k \in B
    <3>1. c = 1 <=> k \in B
      OBVIOUS
    <3> HIDE DEF c, P
    <3>2. y = (2 * 0 + c) * P + z
      BY <2>2
    <3> HIDE DEF y
    <3>3. Bit(y, k) <=> c = 1
      BY <2>2, <3>2, BitIs DEF P
    <3> QED BY <3>1, <3>3
  <2>6. y \in 0 .. 2 * P - 1
    <3> HIDE DEF c, P
    <3>1. CASE c = 0
      BY <2>2, <3>1
    <3>2. CASE c = 1
      BY <2>2, <3>2
    <3> QED BY <2>2, <3>1, <3>2
  <2> HIDE DEF y
  <2>7. \A i \in 0 .. (k + 1) - 1 : i \in 0 .. k - 1 \/ i = k
    OBVIOUS
  <2>8. Has(y, k + 1)
    BY <2>3, <2>4, <2>5, <2>6, <2>7
  <2> QED BY <2>8
<1> HIDE DEF S
<1>3. \A k \in Nat : k \in S
  BY <1>1, <1>2, NatInd
<1> QED BY <1>3 DEF S

LEMMA OrBits ==
  ASSUME NEW x, NEW y
  PROVE  /\ Or(x, y) \in Word
         /\ \A i \in 0 .. Top : Bit(Or(x, y), i) <=> Bit(x, i) \/ Bit(y, i)
<1> DEFINE B == {i \in 0 .. Top : Bit(x, i) \/ Bit(y, i)}
           Q(z) == \A i \in 0 .. Top : Bit(z, i) <=> Bit(x, i) \/ Bit(y, i)
<1>1. \A i \in 0 .. Top : i \in B <=> Bit(x, i) \/ Bit(y, i)
  OBVIOUS
<1> HIDE DEF B
<1>2. PICK z \in 0 .. Pow2[Bits] - 1 : \A i \in 0 .. Bits - 1 : Bit(z, i) <=> i \in B
  BY AluFacts, BitsExist
<1>3. z \in Word /\ \A i \in 0 .. Top : Bit(z, i) <=> i \in B
  BY <1>2, AluFacts
<1>4. z \in Word /\ Q(z)
  BY <1>1, <1>3, Zenon
<1>5. Or(x, y) = CHOOSE w \in Word : Q(w)
  BY DEF Or
<1> HIDE DEF Q
<1>6. Or(x, y) \in Word /\ Q(Or(x, y))
  BY <1>4, <1>5
<1> QED BY <1>6 DEF Q

LEMMA ShiftRightBits ==
  ASSUME NEW x \in Word, NEW s \in Nat
  PROVE  /\ ShiftRight(x, s) \in Word
         /\ \A i \in 0 .. Top : Bit(ShiftRight(x, s), i) <=> i + s <= Top /\ Bit(x, i + s)
<1>0. x \in Nat /\ x \in 0 .. Pow2[Bits] - 1
  BY AluFacts
<1>1. CASE s >= Bits
  <2>1. ShiftRight(x, s) = 0 /\ 0 \in Word
    BY <1>1, AluFacts DEF ShiftRight
  <2>2. \A i \in 0 .. Top : ~Bit(0, i) /\ ~(i + s <= Top)
    BY <1>1, AluFacts, BitOfZero
  <2> QED BY <2>1, <2>2
<1>2. CASE ~(s >= Bits)
  <2> DEFINE P == Pow2[s]
             v == x \div P
             r == x % P
  <2>1. P \in Nat /\ P > 0
    BY Pow2Type
  <2>2. ShiftRight(x, s) = v
    BY <1>2 DEF ShiftRight
  <2> HIDE DEF P
  <2>3. v \in Nat /\ r \in 0 .. P - 1 /\ x = v * P + r
    BY <1>0, <2>1, Division
  <2>4. v <= x
    BY <1>0, <2>1
  <2> HIDE DEF v, r
  <2>5. v \in Word
    BY <1>0, <2>3, <2>4, AluFacts
  <2>6. ASSUME NEW i \in 0 .. Top PROVE Bit(v, i) <=> i + s <= Top /\ Bit(x, i + s)
    <3>1. i \in Nat /\ i + s \in Nat
      OBVIOUS
    <3>2. Bit(v * Pow2[s] + r, i + s) <=> Bit(v, i)
      BY <2>3, <3>1, BitScaledHigh DEF P
    <3>3. Bit(x, i + s) <=> Bit(v, i)
      BY <2>3, <3>2 DEF P
    <3>4. ASSUME ~(i + s <= Top) PROVE ~Bit(x, i + s)
      <4>1. Bits <= i + s
        BY <3>1, <3>4, AluFacts
      <4> QED BY <1>0, <3>1, <4>1, AluFacts, BitBeyond
    <3> QED BY <3>3, <3>4
  <2> QED BY <2>2, <2>5, <2>6
<1> QED BY <1>1, <1>2

LEMMA ShiftLeftBits ==
  ASSUME NEW x \in Nat, NEW s \in Nat
  PROVE  /\ ShiftLeft(x, s) \in Word
         /\ \A i \in 0 .. Top : Bit(ShiftLeft(x, s), i) <=> i >= s /\ Bit(x, i - s)
<1>1. CASE s >= Bits
  <2>1. ShiftLeft(x, s) = 0 /\ 0 \in Word
    BY <1>1, AluFacts DEF ShiftLeft
  <2>2. \A i \in 0 .. Top : ~Bit(0, i) /\ ~(i >= s)
    BY <1>1, AluFacts, BitOfZero
  <2> QED BY <2>1, <2>2
<1>2. CASE ~(s >= Bits)
  <2> DEFINE P == Pow2[s]
             z == x * P
             w == z \div Size
             y == z % Size
  <2>1. P \in Nat /\ P > 0
    BY Pow2Type
  <2>2. ShiftLeft(x, s) = y
    BY <1>2 DEF ShiftLeft
  <2> HIDE DEF P
  <2>3. z \in Nat
    BY <2>1
  <2> HIDE DEF z
  <2>4. w \in Nat /\ y \in 0 .. Size - 1 /\ z = w * Size + y
    BY <2>3, AluFacts, Division
  <2> HIDE DEF w, y
  <2>5. y \in Word /\ y \in Nat /\ z = y + w * Pow2[Bits]
    <3>1. w * Size \in Nat
      BY <2>4, AluFacts
    <3> QED BY <2>4, <3>1, AluFacts
  <2>6. ASSUME NEW i \in 0 .. Top PROVE Bit(y, i) <=> i >= s /\ Bit(x, i - s)
    <3>1. i \in 0 .. Bits - 1 /\ i \in Nat
      BY AluFacts
    <3>2. Bit(y + w * Pow2[Bits], i) <=> Bit(y, i)
      BY <2>4, <2>5, <3>1, AluFacts, BitBelow
    <3>3. Bit(z, i) <=> Bit(y, i)
      BY <2>5, <3>2
    <3>4. CASE i < s
      <4>1. i \in 0 .. s - 1
        BY <3>1, <3>4
      <4>2. ~Bit(x * Pow2[s], i)
        BY <4>1, BitScaledLow
      <4> QED BY <3>1, <3>3, <3>4, <4>2 DEF z, P
    <3>5. CASE i >= s
      <4>1. i - s \in Nat /\ (i - s) + s = i /\ 0 \in 0 .. Pow2[s] - 1
        BY <2>1, <3>1, <3>5 DEF P
      <4>2. Bit(x * Pow2[s] + 0, (i - s) + s) <=> Bit(x, i - s)
        BY <4>1, BitScaledHigh
      <4>3. x * Pow2[s] + 0 = z
        BY <2>3 DEF z, P
      <4> QED BY <3>3, <3>5, <4>1, <4>2, <4>3
    <3> QED BY <3>1, <3>4, <3>5
  <2> QED BY <2>2, <2>5, <2>6
<1> QED BY <1>1, <1>2

(* A power that fits in a word, shifted from 1, and the ones below it. *)
LEMMA OneShifted ==
  ASSUME NEW s \in Nat, s < Bits
  PROVE  ShiftLeft(1, s) = Pow2[s] /\ Pow2[s] \in Nat /\ Pow2[s] > 0 /\ Pow2[s] < Size
<1> DEFINE P == Pow2[s]
<1>1. P \in Nat /\ P > 0
  BY Pow2Type
<1>2. Pow2[s + 1] = 2 * P /\ Pow2[s + 1] <= Pow2[Bits]
  <2>1. s + 1 \in Nat /\ s + 1 <= Bits /\ Bits \in Nat
    BY AluFacts
  <2>2. Pow2[s + 1] <= Pow2[Bits]
    BY <2>1, Pow2Mono
  <2> QED BY <2>2, Pow2Eq
<1>3. P < Size
  BY <1>1, <1>2, AluFacts
<1>4. ShiftLeft(1, s) = (1 * P) % Size
  BY AluFacts DEF ShiftLeft
<1> HIDE DEF P
<1>5. (1 * P) % Size = P
  <2>1. Size \in Nat /\ P \in 0 .. Size - 1 /\ 1 * P = P
    BY <1>1, <1>3, AluFacts
  <2> QED BY <2>1, ModOfSmall
<1> QED BY <1>1, <1>3, <1>4, <1>5 DEF P

(* The mask of Sar: as many ones as the amount, even for a whole width.    *)
LEMMA OnesBelow ==
  ASSUME NEW s \in Nat, s <= Bits
  PROVE  Sub(ShiftLeft(1, s), 1) = Pow2[s] - 1 /\ Pow2[s] - 1 \in Nat
<1>1. CASE s < Bits
  <2>1. ShiftLeft(1, s) = Pow2[s] /\ Pow2[s] \in Nat /\ Pow2[s] > 0 /\ Pow2[s] < Size
    BY <1>1, OneShifted
  <2> DEFINE p == Pow2[s] - 1
  <2>2. p \in 0 .. Size - 1 /\ p \in Nat /\ Size \in Nat /\ Sub(ShiftLeft(1, s), 1) = p % Size
    BY <2>1, AluFacts DEF Sub
  <2> HIDE DEF p
  <2>3. p % Size = p
    BY <2>2, ModOfSmall
  <2> QED BY <2>2, <2>3 DEF p
<1>2. CASE s = Bits
  <2>1. ShiftLeft(1, s) = 0
    BY <1>2, AluFacts DEF ShiftLeft
  <2>2. (0 - 1) % Size = Size - 1
    BY AluFacts
  <2> QED BY <1>2, <2>1, <2>2, AluFacts DEF Sub
<1> QED BY <1>1, <1>2, AluFacts

LEMMA ShlPlaces ==
  ASSUME NEW s \in Word, NEW x \in Word, NEW i \in 0 .. Top
  PROVE  Bit(Shl(s, x), i) <=> i >= s /\ Bit(x, i - s)
<1>1. s \in Nat /\ x \in Nat
  BY AluFacts
<1>2. CASE s < Bits
  BY <1>1, <1>2, ShiftLeftBits DEF Shl
<1>3. CASE ~(s < Bits)
  <2>1. Shl(s, x) = 0
    BY <1>3 DEF Shl
  <2>2. ~Bit(0, i) /\ ~(i >= s)
    BY <1>1, <1>3, AluFacts, BitOfZero
  <2> QED BY <2>1, <2>2
<1> QED BY <1>2, <1>3

LEMMA ShrPlaces ==
  ASSUME NEW s \in Word, NEW x \in Word
  PROVE  /\ s <= UsizeMax =>
              \A i \in 0 .. Top : Bit(Shr(s, x), i) <=> i + s <= Top /\ Bit(x, i + s)
         /\ s > UsizeMax <=> Shr(s, x) = NoWord
<1>1. s \in Nat /\ UsizeMax \in Nat
  BY AluFacts
<1>2. CASE s <= UsizeMax
  <2>1. Shr(s, x) = ShiftRight(x, s)
    BY <1>1, <1>2 DEF Shr
  <2>2. ShiftRight(x, s) \in Word
    BY <1>1, ShiftRightBits
  <2>3. ShiftRight(x, s) # NoWord
    BY <2>2, AluFacts DEF NoWord
  <2> QED BY <1>1, <1>2, <2>1, <2>3, ShiftRightBits
<1>3. CASE ~(s <= UsizeMax)
  <2>1. s > UsizeMax /\ Shr(s, x) = NoWord
    BY <1>1, <1>3 DEF Shr
  <2> QED BY <1>3, <2>1
<1> QED BY <1>2, <1>3

LEMMA SarPlaces ==
  ASSUME NEW s \in Word, NEW x \in Word, NEW i \in 0 .. Top
  PROVE  Bit(Sar(s, x), i) <=> Bit(x, IF i + s > Top THEN Top ELSE i + s)
<1>1. s \in Nat /\ i \in Nat /\ i \in 0 .. Bits - 1
  BY AluFacts
<1>2. CASE s > Bits
  <2>1. i + s > Top
    BY <1>1, <1>2, AluFacts
  <2>2. Sar(s, x) = IF Bit(x, Top) THEN MaxWord ELSE 0
    BY <1>2 DEF Sar, IsNegative
  <2>3. Bit(MaxWord, i)
    BY <1>1, AluFacts, BitOfOnes
  <2>4. ~Bit(0, i)
    BY <1>1, BitOfZero
  <2> QED BY <2>1, <2>2, <2>3, <2>4
<1>3. CASE ~(s > Bits) /\ ~Bit(x, Top)
  <2>1. Sar(s, x) = ShiftRight(x, s)
    BY <1>3 DEF Sar, IsNegative
  <2>2. Bit(ShiftRight(x, s), i) <=> i + s <= Top /\ Bit(x, i + s)
    BY <1>1, ShiftRightBits
  <2>3. i + s <= Top <=> ~(i + s > Top)
    BY <1>1, AluFacts
  <2> QED BY <1>3, <2>1, <2>2, <2>3
<1>4. CASE ~(s > Bits) /\ Bit(x, Top)
  <2> DEFINE m == Sub(ShiftLeft(1, s), 1)
             n == ShiftLeft(m, Bits - s)
             t == Bits - s
  <2>1. t \in Nat /\ s <= Bits
    BY <1>1, <1>4, AluFacts
  <2>2. m = Pow2[s] - 1 /\ m \in Nat
    BY <1>1, <2>1, OnesBelow
  <2>3. Sar(s, x) = Or(ShiftRight(x, s), n)
    BY <1>4 DEF Sar, IsNegative
  <2> HIDE DEF m
  <2>4. Bit(n, i) <=> i >= t /\ Bit(m, i - t)
    BY <2>1, <2>2, ShiftLeftBits
  <2>5. ASSUME i >= t PROVE Bit(m, i - t)
    <3>1. i - t \in 0 .. s - 1
      BY <1>1, <2>1, <2>5, AluFacts
    <3> QED BY <1>1, <2>2, <3>1, BitOfOnes
  <2>6. i >= t <=> i + s > Top
    BY <1>1, <2>1, AluFacts
  <2> HIDE DEF n
  <2>7. Bit(Sar(s, x), i) <=> Bit(ShiftRight(x, s), i) \/ Bit(n, i)
    BY <2>3, OrBits
  <2>8. Bit(ShiftRight(x, s), i) <=> i + s <= Top /\ Bit(x, i + s)
    BY <1>1, ShiftRightBits
  <2>9. i + s <= Top <=> ~(i + s > Top)
    BY <1>1, AluFacts
  <2> QED BY <1>4, <2>4, <2>5, <2>6, <2>7, <2>8, <2>9
<1> QED BY <1>2, <1>3, <1>4

LEMMA SignExtendPlaces ==
  ASSUME NEW s \in Word, NEW x \in Word, NEW i \in 0 .. Top
  PROVE  LET sign == IF s >= NBytes THEN Top ELSE (s + 1) * ByteBits - 1
         IN  Bit(SignExtend(s, x), i) <=> Bit(x, i) \/ (i > sign /\ Bit(x, sign))
<1> DEFINE sign == IF s >= NBytes THEN Top ELSE (s + 1) * ByteBits - 1
           b == IF s > NBytes - 1 THEN NBytes - 1 ELSE s
           h == (b + 1) * ByteBits
<1>1. s \in Nat /\ i \in Nat /\ i \in 0 .. Bits - 1
  BY AluFacts
<1>2. b \in Nat /\ b < NBytes /\ (s >= NBytes => b + 1 = NBytes) /\ (~(s >= NBytes) => b = s)
  BY <1>1, AluFacts
<1>3. h - 1 = sign
  <2>1. CASE s >= NBytes
    BY <1>2, <2>1, AluFacts
  <2>2. CASE ~(s >= NBytes)
    BY <1>2, <2>2
  <2> QED BY <2>1, <2>2
<1>4. h \in 1 .. Bits
  <2> HIDE DEF b
  <2>1. b * ByteBits + ByteBits <= NBytes * ByteBits
    BY <1>2, AluFacts, ProductLess
  <2>2. h = b * ByteBits + ByteBits /\ b * ByteBits \in Nat
    BY <1>2, AluFacts, Distribute
  <2> QED BY <2>1, <2>2, AluFacts
<1> DEFINE m == ShiftLeft(1, Bits - h) - 1
           n == ShiftLeft(m, h)
<1>5. SignExtend(s, x) = IF Bit(x, h - 1) THEN Or(x, n) ELSE x
  BY DEF SignExtend
<1> HIDE DEF h, sign, b
<1>6. h \in Nat /\ Bits - h \in Nat /\ Bits - h < Bits
  BY <1>4, AluFacts
<1>7. m = Pow2[Bits - h] - 1 /\ m \in Nat
  BY <1>6, OneShifted
<1> HIDE DEF m
<1>8. Bit(n, i) <=> i >= h /\ Bit(m, i - h)
  BY <1>6, <1>7, ShiftLeftBits
<1>9. ASSUME i >= h PROVE Bit(m, i - h)
  <2>1. i - h \in 0 .. (Bits - h) - 1
    BY <1>1, <1>6, <1>9, AluFacts
  <2> QED BY <1>6, <1>7, <2>1, BitOfOnes
<1> HIDE DEF n
<1>10. Bit(Or(x, n), i) <=> Bit(x, i) \/ Bit(n, i)
  BY OrBits
<1>11. i >= h <=> i > sign
  BY <1>1, <1>3, <1>6
<1>12. Bit(SignExtend(s, x), i) <=> Bit(x, i) \/ (i > sign /\ Bit(x, sign))
  BY <1>3, <1>5, <1>8, <1>9, <1>10, <1>11
<1> QED BY <1>12 DEF sign

LEMMA ByteOfPlaces ==
  ASSUME NEW s \in Word, s < NBytes, NEW x \in Word, NEW i \in 0 .. ByteBits - 1
  PROVE  Bit(ByteOf(s, x), i) <=> Bit(x, Bits - (s + 1) * ByteBits + i)
<1> DEFINE k == s * ByteBits
           t == Bits - ByteBits - k
           P == Pow2[ByteBits]
           y == ShiftRight(x, t)
<1>1. s \in Nat /\ i \in Nat
  BY AluFacts
<1>2. k + ByteBits <= NBytes * ByteBits
  BY <1>1, AluFacts, ProductLess
<1>3. (s + 1) * ByteBits = k + ByteBits /\ k \in Nat
  BY <1>1, AluFacts, Distribute
<1>4. ~(s > NBytes - 1)
  BY <1>1, AluFacts
<1>5. ByteOf(s, x) = y % P
  BY <1>4 DEF ByteOf
<1> HIDE DEF k
<1>6. t \in Nat /\ Bits - (s + 1) * ByteBits + i = i + t /\ i + t <= Top /\ i \in 0 .. Top
  BY <1>1, <1>2, <1>3, AluFacts
<1>7. y \in Word /\ (Bit(y, i) <=> i + t <= Top /\ Bit(x, i + t))
  BY <1>6, ShiftRightBits
<1> HIDE DEF y, t
<1>8. y \in Nat /\ P \in Nat /\ P > 0
  BY <1>7, AluFacts, Pow2Type
<1> DEFINE q == y \div P
           r == y % P
<1> HIDE DEF P
<1>9. q \in Nat /\ r \in 0 .. P - 1 /\ y = q * P + r
  BY <1>8, Division
<1> HIDE DEF q, r
<1>10. r \in Nat /\ y = r + q * P
  <2>1. q * P \in Nat
    BY <1>8, <1>9
  <2> QED BY <1>8, <1>9, <2>1
<1>11. Bit(r + q * Pow2[ByteBits], i) <=> Bit(r, i)
  BY <1>9, <1>10, AluFacts, BitBelow
<1>12. Bit(y, i) <=> Bit(r, i)
  BY <1>10, <1>11 DEF P
<1> QED BY <1>5, <1>6, <1>7, <1>12 DEF r

-----------------------------------------------------------------------------
(* Words as signed numbers.                                                *)

LEMMA ModIs ==
  ASSUME NEW d \in Nat, d > 0, NEW q \in Int, NEW r \in 0 .. d - 1, NEW x, x = q * d + r
  PROVE  x % d = r
<1>1. q * d \in Int /\ x \in Int
  OBVIOUS
<1> DEFINE e == x \div d
           s == x % d
<1>2. e \in Int /\ s \in 0 .. d - 1 /\ x = e * d + s
  BY <1>1
<1> HIDE DEF e, s
<1>3. ASSUME NEW i \in Int, NEW j \in Int, i < j PROVE i * d + d <= j * d
  <2> DEFINE c == j - i - 1
  <2>1. c \in Nat /\ j = i + 1 + c
    BY <1>3
  <2> HIDE DEF c
  <2>2. j * d = i * d + d + c * d
    BY <2>1, Distribute
  <2>3. c * d \in Nat /\ i * d \in Int
    BY <2>1
  <2> QED BY <2>2, <2>3
<1>4. e * d \in Int
  BY <1>2
<1>5. ~(e < q)
  BY <1>1, <1>2, <1>3, <1>4
<1>6. ~(q < e)
  BY <1>1, <1>2, <1>3, <1>4
<1>7. e = q
  BY <1>2, <1>5, <1>6
<1>8. s = r
  BY <1>1, <1>2, <1>7
<1> QED BY <1>8 DEF s

LEMMA ModShift ==
  ASSUME NEW d \in Nat, d > 0, NEW x \in Int, NEW g \in Int
  PROVE  (x + g * d) % d = x % d
<1> DEFINE e == x \div d
           r == x % d
           y == x + g * d
<1>1. e \in Int /\ r \in 0 .. d - 1 /\ x = e * d + r
  OBVIOUS
<1> HIDE DEF e, r
<1>2. y = (e + g) * d + r
  <2>1. (e + g) * d = e * d + g * d /\ e * d \in Int /\ g * d \in Int
    BY <1>1, Distribute
  <2> QED BY <1>1, <2>1
<1> HIDE DEF y
<1>3. e + g \in Int
  BY <1>1
<1>4. y % d = r
  BY <1>1, <1>2, <1>3, ModIs
<1> QED BY <1>4 DEF y, r

(* Half of the words are negative, the smallest number has no opposite.    *)
LEMMA SignFacts ==
  ASSUME NEW x \in Word
  PROVE  LET H == Pow2[Top] IN
           /\ H \in Nat /\ H > 0 /\ Size = 2 * H
           /\ IsNegative(x) <=> x >= H
           /\ Signed(x) = IF x >= H THEN x - Size ELSE x
           /\ Signed(x) \in -H .. H - 1
           /\ IsNegative(x) <=> Signed(x) < 0
           /\ Abs(x) = Magnitude(Signed(x))
<1> DEFINE H == Pow2[Top]
<1>1. H \in Nat /\ H > 0
  BY AluFacts, Pow2Type
<1>2. Size = 2 * H
  BY AluFacts, Pow2Eq
<1>3. x \in Nat /\ x < 2 * H
  BY <1>2, AluFacts
<1>4. Bit(x, Top) <=> x >= H
  <2>1. CASE x < H
    <3>1. x = (2 * 0 + 0) * H + x /\ x \in 0 .. H - 1
      BY <1>1, <1>3, <2>1
    <3>2. ~Bit(x, Top)
      BY <3>1, AluFacts, BitIs
    <3> QED BY <1>1, <1>3, <2>1, <3>2
  <2>2. CASE x >= H
    <3>1. x = (2 * 0 + 1) * H + (x - H) /\ x - H \in 0 .. H - 1
      BY <1>1, <1>3, <2>2
    <3>2. Bit(x, Top)
      BY <3>1, AluFacts, BitIs
    <3> QED BY <2>2, <3>2
  <2> QED BY <1>1, <1>3, <2>1, <2>2
<1> HIDE DEF H
<1>5. Signed(x) = IF x >= H THEN x - Size ELSE x
  BY <1>4 DEF Signed
<1>6. Signed(x) \in -H .. H - 1 /\ (x >= H <=> Signed(x) < 0)
  BY <1>1, <1>2, <1>3, <1>5
<1>7. IsNegative(x) <=> x >= H
  BY <1>4 DEF IsNegative
<1>8. Abs(x) = Magnitude(Signed(x))
  <2>1. CASE x >= H
    <3>1. x - 1 \in 0 .. Size - 1
      BY <1>1, <1>2, <1>3, <2>1
    <3>2. (x - 1) % Size = x - 1
      BY <3>1, AluFacts, ModOfSmall
    <3>3. Abs(x) = MaxWord - (x - 1)
      BY <1>7, <2>1, <3>2 DEF Abs, Neg, Sub
    <3>4. Signed(x) = x - Size /\ Signed(x) < 0
      BY <1>5, <1>6, <2>1
    <3> QED BY <1>3, <3>3, <3>4, AluFacts DEF Magnitude
  <2>2. CASE ~(x >= H)
    <3>1. Abs(x) = x
      BY <1>7, <2>2 DEF Abs
    <3>2. Signed(x) = x /\ ~(Signed(x) < 0)
      BY <1>5, <1>6, <2>2
    <3> QED BY <3>1, <3>2 DEF Magnitude
  <2> QED BY <2>1, <2>2
<1> QED BY <1>1, <1>2, <1>5, <1>6, <1>7, <1>8 DEF H

LEMMA SignedOf ==
  ASSUME NEW n \in -Pow2[Top] .. Pow2[Top] - 1
  PROVE  n % Size \in Word /\ Signed(n % Size) = n
<1> DEFINE H == Pow2[Top]
           y == n % Size
<1>1. H \in Nat /\ H > 0 /\ Size = 2 * H
  BY AluFacts, SignFacts
<1> HIDE DEF H
<1>2. n \in -H .. H - 1
  BY DEF H
<1>3. CASE n >= 0
  <2>1. n \in 0 .. Size - 1
    BY <1>1, <1>2, <1>3
  <2>2. y = n
    BY <2>1, AluFacts, ModOfSmall
  <2>3. y \in Word /\ ~(y >= H)
    BY <1>1, <1>2, <1>3, <2>2, AluFacts
  <2> HIDE DEF y
  <2>4. Signed(y) = y
    BY <2>3, SignFacts DEF H
  <2> QED BY <2>2, <2>3, <2>4 DEF y
<1>4. CASE n < 0
  <2> DEFINE w == n + Size
             z == -1
  <2>1. w \in 0 .. Size - 1 /\ n = z * Size + w /\ z \in Int
    BY <1>1, <1>2, <1>4
  <2> HIDE DEF w, z
  <2>2. n % Size = w
    BY <2>1, AluFacts, ModIs
  <2>3. y \in Word /\ y >= H /\ y - Size = n
    BY <1>1, <1>2, <1>4, <2>2, AluFacts DEF w
  <2> HIDE DEF y
  <2>4. Signed(y) = y - Size
    BY <2>3, SignFacts DEF H
  <2> QED BY <2>3, <2>4 DEF y
<1> QED BY <1>2, <1>3, <1>4

LEMMA NegIs ==
  ASSUME NEW k \in Word
  PROVE  Neg(k) = IF k = 0 THEN 0 ELSE Size - k
<1>1. CASE k = 0
  <2>1. 0 - 1 = (-1) * Size + (Size - 1) /\ Size - 1 \in 0 .. Size - 1
    BY AluFacts
  <2>2. (0 - 1) % Size = Size - 1
    BY <2>1, AluFacts, ModIs
  <2> QED BY <1>1, <2>2, AluFacts DEF Neg, Sub
<1>2. CASE k # 0
  <2>1. k - 1 \in 0 .. Size - 1
    BY <1>2, AluFacts
  <2>2. (k - 1) % Size = k - 1
    BY <2>1, AluFacts, ModOfSmall
  <2> QED BY <1>2, <2>1, <2>2, AluFacts DEF Neg, Sub
<1> QED BY <1>1, <1>2

(* Division of signed numbers, rounded towards zero. *)
LEMMA Truncated ==
  ASSUME NEW p \in Int, NEW q \in Int, q # 0
  PROVE  LET k == Magnitude(p) \div Magnitude(q)
             s == Magnitude(p) % Magnitude(q)
             t == IF (p < 0) # (q < 0) THEN -k ELSE k
             u == IF p < 0 THEN -s ELSE s
         IN  /\ k \in 0 .. Magnitude(p) /\ s \in 0 .. Magnitude(q) - 1
             /\ p = q * t + u /\ t \in Int /\ u \in Int
<1> DEFINE m == Magnitude(p)
           n == Magnitude(q)
           k == m \div n
           s == m % n
           t == IF (p < 0) # (q < 0) THEN -k ELSE k
           u == IF p < 0 THEN -s ELSE s
<1>1. m \in Nat /\ n \in Nat /\ n > 0
  BY DEF Magnitude
<1>2. p = IF p < 0 THEN -m ELSE m
  BY DEF Magnitude
<1>3. q = IF q < 0 THEN -n ELSE n
  BY DEF Magnitude
<1> HIDE DEF m, n
<1>5. k \in Nat /\ s \in 0 .. n - 1 /\ m = k * n + s
  BY <1>1, Division
<1>6. k <= m
  BY <1>1
<1> HIDE DEF k, s
<1>7. k * n \in Nat /\ n * k = k * n /\ (-n) * k = -(k * n) /\ n * (-k) = -(k * n)
      /\ (-n) * (-k) = k * n
  BY <1>1, <1>5
<1>8. p = q * t + u
  <2>1. CASE p < 0 /\ q < 0
    <3>1. p = -m /\ q = -n /\ t = k /\ u = -s
      BY <1>2, <1>3, <2>1
    <3> QED BY <1>1, <1>5, <1>7, <3>1
  <2>2. CASE p < 0 /\ ~(q < 0)
    <3>1. p = -m /\ q = n /\ t = -k /\ u = -s
      BY <1>2, <1>3, <2>2
    <3> QED BY <1>1, <1>5, <1>7, <3>1
  <2>3. CASE ~(p < 0) /\ q < 0
    <3>1. p = m /\ q = -n /\ t = -k /\ u = s
      BY <1>2, <1>3, <2>3
    <3> QED BY <1>1, <1>5, <1>7, <3>1
  <2>4. CASE ~(p < 0) /\ ~(q < 0)
    <3>1. p = m /\ q = n /\ t = k /\ u = s
      BY <1>2, <1>3, <2>4
    <3> QED BY <1>1, <1>5, <1>7, <3>1
  <2> QED BY <2>1, <2>2, <2>3, <2>4
<1>9. t \in Int /\ u \in Int
  BY <1>5
<1> HIDE DEF t, u
<1>10. k \in 0 .. m /\ s \in 0 .. n - 1 /\ p = q * t + u /\ t \in Int /\ u \in Int
  BY <1>1, <1>5, <1>6, <1>8, <1>9
<1> QED BY <1>10 DEF m, n, k, s, t, u

LEMMA SignedQuotient ==
  ASSUME NEW a \in Word, NEW b \in Word, Signed(b) # 0
  PROVE  \E t \in Int, u \in Int, e \in Int :
           /\ Signed(a) = Signed(b) * t + u
           /\ Magnitude(u) < Magnitude(Signed(b))
           /\ u = 0 \/ (u < 0 <=> Signed(a) < 0)
           /\ SDiv(a, b) \in Word
           /\ Signed(SDiv(a, b)) = t + e * Size
           /\ Signed(a) # -Pow2[Top] => e = 0
           /\ t = 0 \/ (t < 0 <=> ~(Signed(a) < 0 <=> Signed(b) < 0))
           /\ Magnitude(u) < Pow2[Top]
<1> DEFINE H == Pow2[Top]
           p == Signed(a)
           q == Signed(b)
           m == Magnitude(p)
           n == Magnitude(q)
           k == m \div n
           s == m % n
           t == IF (p < 0) # (q < 0) THEN -k ELSE k
           u == IF p < 0 THEN -s ELSE s
<1>1. /\ H \in Nat /\ H > 0 /\ Size = 2 * H
      /\ p \in -H .. H - 1 /\ q \in -H .. H - 1 /\ p \in Int /\ q \in Int
      /\ Abs(a) = m /\ Abs(b) = n
      /\ (IsNegative(a) <=> p < 0) /\ (IsNegative(b) <=> q < 0)
  <2>1. H \in Nat /\ H > 0 /\ Size = 2 * H /\ p \in -H .. H - 1 /\ q \in -H .. H - 1
    BY SignFacts
  <2>2. Abs(a) = m /\ Abs(b) = n /\ (IsNegative(a) <=> p < 0) /\ (IsNegative(b) <=> q < 0)
    BY SignFacts
  <2> HIDE DEF H, p, q, m, n
  <2> QED BY <2>1, <2>2
<1>2. q # 0
  OBVIOUS
<1> HIDE DEF H, p, q
<1>3. /\ k \in 0 .. m /\ s \in 0 .. n - 1
      /\ p = q * t + u /\ t \in Int /\ u \in Int
  BY <1>1, <1>2, Truncated
<1>4. m \in 0 .. H /\ n \in 1 .. H /\ (p # -H => m < H)
  BY <1>1, <1>2 DEF Magnitude
<1> HIDE DEF m, n
<1>5. IsNegative(a) # IsNegative(b) <=> (p < 0) # (q < 0)
  BY <1>1 DEF IsNegative, Bit
<1>6. SDiv(a, b) = IF (p < 0) # (q < 0) THEN Neg(k) ELSE k
  BY <1>1, <1>4, <1>5 DEF SDiv
<1> HIDE DEF k, s
<1>7. k \in Word /\ k \in Nat /\ s \in Nat /\ k <= H
  BY <1>1, <1>3, <1>4, AluFacts
<1>8. Magnitude(u) = s
  BY <1>7 DEF Magnitude
<1>9. u = 0 \/ (u < 0 <=> p < 0)
  BY <1>1, <1>7
<1>10. t = 0 \/ (t < 0 <=> ~(p < 0 <=> q < 0))
  BY <1>1, <1>7
<1>11. CASE t = H
  <2>1. ~((p < 0) # (q < 0)) /\ k = H
    BY <1>1, <1>7, <1>11
  <2>2. SDiv(a, b) = H
    BY <1>6, <2>1
  <2>3. H \in Word
    BY <1>1, AluFacts
  <2>4. Signed(H) = H - Size
    BY <1>1, <2>3, SignFacts DEF H
  <2> DEFINE e == -1
  <2>5. e \in Int /\ H - Size = t + e * Size
    BY <1>1, <1>11
  <2>6. p = -H
    BY <1>1, <1>3, <1>4, <2>1
  <2> HIDE DEF e, t, u
  <2>7. s < n /\ s < H
    BY <1>1, <1>3, <1>4, <1>7
  <2> QED BY <1>3, <1>8, <1>9, <1>10, <2>2, <2>3, <2>4, <2>5, <2>6, <2>7 DEF H, p, q, n
<1>12. CASE t # H
  <2>1. t \in -H .. H - 1
    BY <1>1, <1>7, <1>12
  <2>2. SDiv(a, b) = t % Size
    <3>1. CASE (p < 0) # (q < 0)
      <4>1. SDiv(a, b) = IF k = 0 THEN 0 ELSE Size - k
        BY <1>6, <1>7, <3>1, NegIs
      <4>2. t = -k
        BY <3>1
      <4>3. CASE k = 0
        <5>1. 0 % Size = 0
          BY AluFacts
        <5> HIDE DEF t
        <5>2. t + k = 0
          BY <1>7, <4>2
        <5>3. t = 0
          BY <1>3, <4>3, <5>2
        <5> QED BY <4>1, <4>3, <5>1, <5>3
      <4>4. CASE k # 0
        <5> DEFINE w == Size - k
                   z == -1
        <5>1. w \in 0 .. Size - 1 /\ -k = z * Size + w /\ z \in Int
          BY <1>1, <1>7, <4>4
        <5> HIDE DEF w, z, t
        <5>2. t = z * Size + w
          BY <4>2, <5>1
        <5>3. t % Size = w
          BY <5>1, <5>2, AluFacts, ModIs
        <5> QED BY <4>1, <4>4, <5>3 DEF w
      <4> QED BY <4>3, <4>4
    <3>2. CASE ~((p < 0) # (q < 0))
      <4>1. SDiv(a, b) = k /\ t = k
        BY <1>6, <3>2
      <4>2. k \in 0 .. Size - 1
        BY <1>7, AluFacts
      <4> HIDE DEF t
      <4> QED BY <4>1, <4>2, AluFacts, ModOfSmall
    <3> QED BY <3>1, <3>2
  <2> HIDE DEF t, u
  <2>3. SDiv(a, b) \in Word /\ Signed(SDiv(a, b)) = t
    BY <2>1, <2>2, SignedOf DEF H
  <2>4. t = t + 0 * Size
    BY <1>3, AluFacts
  <2>5. s < n /\ s < H
    BY <1>1, <1>3, <1>4, <1>7
  <2> QED BY <1>3, <1>8, <1>9, <1>10, <2>3, <2>4, <2>5 DEF H, p, q, n
<1> QED BY <1>11, <1>12

(* Equal but for a multiple of the size. *)
Same(x, y) == x \in Int /\ y \in Int /\ \E e \in Int : x = y + e * Size

LEMMA SameMod ==
  ASSUME NEW x, NEW y, Same(x, y)
  PROVE  x % Size = y % Size
<1>1. PICK e \in Int : x = y + e * Size
  BY DEF Same
<1>2. y \in Int /\ Size \in Nat /\ Size > 0
  BY AluFacts DEF Same
<1>3. (y + e * Size) % Size = y % Size
  BY <1>2, ModShift
<1> QED BY <1>1, <1>3

LEMMA SameSelf ==
  ASSUME NEW x \in Int
  PROVE  Same(x, x)
<1>1. x = x + 0 * Size
  BY AluFacts
<1> QED BY <1>1 DEF Same

LEMMA ModSame ==
  ASSUME NEW x, NEW y, Same(x, y)
  PROVE  Same(x % Size, y)
<1>1. PICK e \in Int : x = y + e * Size
  BY DEF Same
<1> DEFINE w == x \div Size
           r == x % Size
<1>2. x \in Int /\ y \in Int /\ Size \in Nat /\ Size > 0
  BY AluFacts DEF Same
<1>3. w \in Int /\ r \in Int /\ x = w * Size + r
  BY <1>2
<1> HIDE DEF w, r
<1>4. (e - w) * Size = e * Size - w * Size /\ e * Size \in Int /\ w * Size \in Int
  BY <1>2, <1>3
<1>5. r = y + (e - w) * Size /\ e - w \in Int
  BY <1>1, <1>2, <1>3, <1>4
<1>6. Same(r, y)
  BY <1>2, <1>3, <1>5 DEF Same
<1> QED BY <1>6 DEF r

LEMMA SameDifference ==
  ASSUME NEW x, NEW y, NEW v, NEW w, Same(x, y), Same(v, w)
  PROVE  Same(x - v, y - w)
<1>1. PICK e \in Int : x = y + e * Size
  BY DEF Same
<1>2. PICK f \in Int : v = w + f * Size
  BY DEF Same
<1>3. x \in Int /\ y \in Int /\ v \in Int /\ w \in Int /\ Size \in Nat
  BY AluFacts DEF Same
<1>4. (e - f) * Size = e * Size - f * Size /\ e * Size \in Int /\ f * Size \in Int
  BY <1>3
<1>5. x - v = (y - w) + (e - f) * Size /\ e - f \in Int /\ x - v \in Int /\ y - w \in Int
  BY <1>1, <1>2, <1>3, <1>4
<1> QED BY <1>5 DEF Same

LEMMA SameProduct ==
  ASSUME NEW b, NEW q, NEW c, NEW t, Same(b, q), Same(c, t)
  PROVE  Same(b * c, q * t)
<1>0. PICK j \in Int : b = q + j * Size
  BY DEF Same
<1>1. PICK k \in Int : c = t + k * Size
  BY DEF Same
<1>2. b \in Int /\ q \in Int /\ c \in Int /\ t \in Int /\ Size \in Nat
  BY AluFacts DEF Same
<1> DEFINE J == j * Size
           K == k * Size
           z == b * c
<1>3. J \in Int /\ K \in Int /\ b = q + J /\ c = t + K
  BY <1>0, <1>1, <1>2
<1> HIDE DEF J, K
<1>4. q * t \in Int /\ z \in Int /\ z = q * t + (q * K + (J * t + J * K))
  <2>1. (q + J) * (t + K) = q * (t + K) + J * (t + K)
    BY <1>2, <1>3, Distribute
  <2>2. q * (t + K) = q * t + q * K /\ J * (t + K) = J * t + J * K
    BY <1>2, <1>3, Distribute
  <2>3. q * t \in Int /\ q * K \in Int /\ J * t \in Int /\ J * K \in Int
    BY <1>2, <1>3
  <2>4. z = q * (t + K) + J * (t + K)
    BY <1>3, <2>1
  <2> QED BY <2>2, <2>3, <2>4
<1> DEFINE f == q * k
           g == j * t
           h == j * K
<1>5. f \in Int /\ g \in Int /\ h \in Int
  BY <1>2, <1>3
<1>6. q * K = f * Size /\ J * t = g * Size /\ J * K = h * Size
  <2>1. q * (k * Size) = (q * k) * Size
    BY <1>2, Associate
  <2>2. (j * Size) * t = (j * t) * Size
    <3>1. (j * Size) * t = j * (Size * t) /\ Size * t = t * Size /\ j * (t * Size) = (j * t) * Size
      BY <1>2, Associate
    <3> QED BY <3>1
  <2>3. (j * Size) * K = (j * K) * Size
    <3>1. (j * Size) * K = j * (Size * K) /\ Size * K = K * Size /\ j * (K * Size) = (j * K) * Size
      BY <1>2, <1>3, Associate
    <3> QED BY <3>1
  <2> QED BY <2>1, <2>2, <2>3 DEF J, K
<1> HIDE DEF f, g, h
<1> DEFINE m == f + (g + h)
<1>7. m \in Int /\ z = q * t + m * Size
  <2>1. (f + (g + h)) * Size = f * Size + (g + h) * Size /\ (g + h) * Size = g * Size + h * Size
    BY <1>2, <1>5, Distribute
  <2> QED BY <1>4, <1>5, <1>6, <2>1
<1> HIDE DEF z, m
<1>8. Same(z, q * t)
  BY <1>4, <1>7 DEF Same
<1> QED BY <1>8 DEF z

(* A word and its number. *)
LEMMA SameSigned ==
  ASSUME NEW x \in Word
  PROVE  Same(x, Signed(x))
<1> DEFINE H == Pow2[Top]
<1>1. H \in Nat /\ Size = 2 * H /\ x \in Nat /\ Signed(x) = IF x >= H THEN x - Size ELSE x
  BY SignFacts, AluFacts
<1> HIDE DEF H
<1>2. CASE x >= H
  <2>1. Signed(x) = x - Size /\ Size \in Nat
    BY <1>1, <1>2
  <2>2. x = Signed(x) + 1 * Size /\ Signed(x) \in Int /\ x \in Int
    BY <1>1, <2>1
  <2> QED BY <2>2 DEF Same
<1>3. CASE ~(x >= H)
  <2>1. Signed(x) = x /\ x \in Int
    BY <1>1, <1>3
  <2> QED BY <2>1, SameSelf
<1> QED BY <1>2, <1>3

LEMMA SignedDivision ==
  ASSUME NEW a \in Word, NEW b \in Word, Signed(b) # 0
  PROVE  LET p == Signed(a)
             q == Signed(b)
             r == Signed(SMod(a, b))
             v == Signed(SDiv(a, b))
         IN  /\ Magnitude(r) < Magnitude(q)
             /\ r = 0 \/ (r < 0) = (p < 0)
             /\ (p - (q * v + r)) % Size = 0
             /\ v # 0 /\ p # -(Size \div 2) => (v < 0) = ((p < 0) # (q < 0))
<1> DEFINE H == Pow2[Top]
           p == Signed(a)
           q == Signed(b)
           d == SDiv(a, b)
           v == Signed(d)
<1>1. PICK t \in Int, u \in Int, e \in Int :
           /\ p = q * t + u
           /\ Magnitude(u) < Magnitude(q)
           /\ u = 0 \/ (u < 0 <=> p < 0)
           /\ d \in Word
           /\ v = t + e * Size
           /\ p # -Pow2[Top] => e = 0
           /\ t = 0 \/ (t < 0 <=> ~(p < 0 <=> q < 0))
           /\ Magnitude(u) < Pow2[Top]
  BY SignedQuotient
<1>2. H \in Nat /\ H > 0 /\ Size = 2 * H /\ p \in Int /\ q \in Int
  <2>1. H \in Nat /\ H > 0 /\ Size = 2 * H /\ p \in -H .. H - 1 /\ q \in -H .. H - 1
    BY SignFacts
  <2> HIDE DEF H, p, q
  <2> QED BY <2>1
<1>3. b # 0
  <2>1. Signed(0) = 0
    <3>1. 0 \in Word /\ ~(0 >= H)
      BY <1>2, AluFacts
    <3> QED BY <3>1, SignFacts
  <2> QED BY <2>1
<1>4. SMod(a, b) = (a - ((b * d) % Size)) % Size
  BY <1>3 DEF SMod, Sub, Mul
<1>5. Same(a, p) /\ Same(b, q) /\ Same(d, v)
  BY <1>1, SameSigned
<1> HIDE DEF H, p, q, d, v
<1>7. Same(d, t)
  <2>1. PICK k \in Int : d = v + k * Size
    BY <1>5 DEF Same
  <2>2. (e + k) * Size = e * Size + k * Size /\ e * Size \in Int /\ k * Size \in Int
    BY AluFacts, Distribute
  <2>3. d = t + (e + k) * Size /\ e + k \in Int /\ d \in Int
    BY <1>1, <1>5, <2>1, <2>2 DEF Same
  <2> QED BY <2>3 DEF Same
<1>8. Same((b * d) % Size, q * t)
  BY <1>5, <1>7, SameProduct, ModSame
<1>9. (a - ((b * d) % Size)) % Size = (p - q * t) % Size
  BY <1>5, <1>8, SameDifference, SameMod
<1>10. p - q * t = u /\ q * t \in Int
  <2>1. q * t \in Int
    BY <1>2
  <2> QED BY <1>1, <1>2, <2>1
<1>11. SMod(a, b) = u % Size
  BY <1>4, <1>9, <1>10
<1>12. u \in -H .. H - 1
  <2>1. Magnitude(u) < H
    BY <1>1 DEF H
  <2> QED BY <1>2, <2>1 DEF Magnitude
<1>13. Signed(SMod(a, b)) = u
  BY <1>11, <1>12, SignedOf DEF H
<1>14. (p - (q * v + u)) % Size = 0
  <2> DEFINE f == q * e
             g == -f
             y == p - (q * v + u)
  <2>1. f \in Int /\ g \in Int
    BY <1>2
  <2>2. q * (t + e * Size) = q * t + q * (e * Size) /\ q * (e * Size) = f * Size
    <3>1. e * Size \in Int
      BY AluFacts
    <3>2. q * (t + e * Size) = q * t + q * (e * Size)
      BY <1>2, <3>1, Distribute
    <3>3. q * (e * Size) = (q * e) * Size
      BY <1>2, AluFacts, Associate
    <3> QED BY <3>2, <3>3
  <2> HIDE DEF f
  <2>3. g * Size = -(f * Size) /\ f * Size \in Int
    BY <2>1, AluFacts
  <2>4. q * v = q * t + f * Size
    BY <1>1, <2>2
  <2> DEFINE A == f * Size
             B == q * t
  <2>5. A \in Int /\ B \in Int /\ q * v = B + A /\ p = B + u /\ g * Size = -A
    BY <1>1, <1>10, <2>3, <2>4
  <2> DEFINE o == 0
  <2> HIDE DEF A, B, g
  <2>6. y = g * Size + o
    BY <2>5
  <2>7. o \in 0 .. Size - 1
    BY AluFacts
  <2> HIDE DEF y, o
  <2>8. y % Size = o
    BY <2>1, <2>6, <2>7, AluFacts, ModIs
  <2> QED BY <2>8 DEF y, o
<1>15. Size \div 2 = H
  BY <1>2
<1>16. ASSUME v # 0, p # -H PROVE v < 0 <=> ~(p < 0 <=> q < 0)
  <2>1. e = 0
    BY <1>1, <1>16 DEF H
  <2>2. v = t
    BY <1>1, <2>1, AluFacts
  <2> QED BY <1>1, <1>16, <2>2
<1>17. u = 0 \/ (u < 0) = (p < 0)
  BY <1>1
<1>18. v # 0 /\ p # -(Size \div 2) => (v < 0) = ((p < 0) # (q < 0))
  BY <1>15, <1>16
<1> QED BY <1>1, <1>13, <1>14, <1>17, <1>18 DEF p, q, d, v

LEMMA ZeroDivisor ==
  ASSUME NEW a \in Word, NEW b \in Word, Signed(b) = 0
  PROVE  SDiv(a, b) = 0 /\ SMod(a, b) = 0
<1>1. Abs(b) = 0 /\ b = 0
  <2> DEFINE H == Pow2[Top]
  <2>1. /\ H \in Nat /\ H > 0 /\ Size = 2 * H
        /\ Signed(b) = IF b >= H THEN b - Size ELSE b
        /\ Abs(b) = Magnitude(Signed(b)) /\ b \in 0 .. Size - 1
    BY SignFacts, AluFacts
  <2> HIDE DEF H
  <2> QED BY <2>1 DEF Magnitude
<1> QED BY <1>1 DEF SDiv, SMod

LEMMA SignedOrder ==
  ASSUME NEW a \in Word, NEW b \in Word
  PROVE  /\ SLt(a, b) = BoolToWord(Signed(a) < Signed(b))
         /\ SGt(a, b) = BoolToWord(Signed(a) > Signed(b))
<1> DEFINE H == Pow2[Top]
           p == Signed(a)
           q == Signed(b)
<1>1. /\ p \in Int /\ q \in Int
      /\ Abs(a) = Magnitude(p) /\ Abs(b) = Magnitude(q)
      /\ (IsNegative(a) <=> p < 0) /\ (IsNegative(b) <=> q < 0)
  <2>1. H \in Nat /\ H > 0 /\ Size = 2 * H /\ p \in -H .. H - 1 /\ q \in -H .. H - 1
    BY SignFacts
  <2>2. Abs(a) = Magnitude(p) /\ Abs(b) = Magnitude(q)
        /\ (IsNegative(a) <=> p < 0) /\ (IsNegative(b) <=> q < 0)
    BY SignFacts
  <2> HIDE DEF H, p, q
  <2> QED BY <2>1, <2>2
<1> HIDE DEF p, q
<1>2. IsNegative(a) \in BOOLEAN /\ IsNegative(b) \in BOOLEAN
  BY DEF IsNegative, Bit
<1>3. CASE IsNegative(a) # IsNegative(b)
  <2>1. SLt(a, b) = BoolToWord(IsNegative(a)) /\ SGt(a, b) = BoolToWord(IsNegative(b))
    BY <1>3 DEF SLt, SGt
  <2>2. (IsNegative(a) <=> p < q) /\ (IsNegative(b) <=> p > q)
    BY <1>1, <1>2, <1>3
  <2> QED BY <1>2, <2>1, <2>2 DEF BoolToWord, p, q
<1>4. CASE IsNegative(a) = IsNegative(b)
  <2> DEFINE L == Abs(a) # Abs(b) /\ (Abs(a) < Abs(b)) # IsNegative(a)
             G == Abs(a) # Abs(b) /\ (Abs(a) > Abs(b)) # IsNegative(b)
  <2>1. SLt(a, b) = BoolToWord(L) /\ SGt(a, b) = BoolToWord(G)
    BY <1>4 DEF SLt, SGt
  <2>2. (L <=> p < q) /\ (G <=> p > q)
    <3>1. CASE p < 0
      <4>1. q < 0 /\ Abs(a) = -p /\ Abs(b) = -q
        BY <1>1, <1>2, <1>4, <3>1 DEF Magnitude
      <4>2. L <=> (Abs(a) # Abs(b) /\ ~(Abs(a) < Abs(b)))
        BY <1>1, <1>2, <3>1
      <4>3. G <=> (Abs(a) # Abs(b) /\ ~(Abs(a) > Abs(b)))
        BY <1>1, <1>2, <4>1
      <4> QED BY <1>1, <4>1, <4>2, <4>3
    <3>2. CASE ~(p < 0)
      <4>1. ~(q < 0) /\ Abs(a) = p /\ Abs(b) = q
        BY <1>1, <1>2, <1>4, <3>2 DEF Magnitude
      <4>2. L <=> (Abs(a) # Abs(b) /\ (Abs(a) < Abs(b)))
        BY <1>1, <1>2, <3>2
      <4>3. G <=> (Abs(a) # Abs(b) /\ (Abs(a) > Abs(b)))
        BY <1>1, <1>2, <4>1
      <4> QED BY <1>1, <4>1, <4>2, <4>3
    <3> QED BY <3>1, <3>2
  <2> HIDE DEF L, G
  <2> QED BY <2>1, <2>2 DEF BoolToWord, p, q
<1> QED BY <1>3, <1>4

-----------------------------------------------------------------------------
(* The inductive invariant: where the search is, and what results are.     *)
Inputs == EstimateInputs \cup SignatureInputs \cup StackInputs \cup CodeInputs \cup AluInputs

Results ==
  /\ EstimateSound /\ EstimateLeast /\ ReplayProtection /\ SignersAccepted
  /\ StackIsSequence /\ NeverRunsData /\ SignedArithmetic /\ BitPlacement

PInv ==
  /\ input \in Inputs
  /\ out.kind = "Search" => input \in EstimateInputs /\ SearchOK(input, out.low, out.high)
  /\ Results

LEMMA OfKind ==
  ASSUME NEW i \in Inputs
  PROVE  /\ i.kind = "Estimate" => i \in EstimateInputs
         /\ i.kind = "Signature" => i \in SignatureInputs
         /\ i.kind = "Stack" => i \in StackInputs
         /\ i.kind = "Code" => i \in CodeInputs
         /\ i.kind = "Alu" => i \in AluInputs
BY DEF Inputs, EstimateInputs, SignatureInputs, StackInputs, CodeInputs, AluInputs

(* Nothing is said of other kinds of results. *)
LEMMA NoResult ==
  ASSUME out'.kind \notin {"Estimate", "Signature", "Stack", "Code", "Alu"}
  PROVE  Results'
BY DEF Results, EstimateSound, EstimateLeast, ReplayProtection, SignersAccepted,
       StackIsSequence, NeverRunsData, SignedArithmetic, BitPlacement

LEMMA PureInit == ASSUME Init PROVE PInv
<1>1. out.kind = "None" /\ input \in Inputs
  BY DEF Init, None, Inputs
<1> QED BY <1>1 DEF PInv, Results, EstimateSound, EstimateLeast, ReplayProtection,
                    SignersAccepted, StackIsSequence, NeverRunsData,
                    SignedArithmetic, BitPlacement

LEMMA SearchInv ==
  ASSUME PInv, RefuseEstimate \/ BeginEstimate \/ Probe
  PROVE  PInv'
<1>1. input' = input /\ input \in Inputs
  BY DEF RefuseEstimate, BeginEstimate, Probe, PInv
<1>2. CASE RefuseEstimate
  <2>1. out'.kind = "Refused"
    BY <1>2 DEF RefuseEstimate
  <2>2. Results'
    BY <2>1, NoResult
  <2> QED BY <1>1, <2>1, <2>2 DEF PInv, Inputs
<1>3. CASE BeginEstimate
  <2> DEFINE h == HighOf(input)
  <2>1. input \in EstimateInputs
    BY <1>1, <1>3, OfKind DEF BeginEstimate
  <2>2. SearchOK(input, LowStart, h)
    BY <2>1, SearchBegins
  <2>3. out' = [kind |-> "Search", low |-> LowStart, high |-> h]
    BY <1>3 DEF BeginEstimate
  <2> HIDE DEF h
  <2>4. out'.kind = "Search" /\ out'.low = LowStart /\ out'.high = h
    BY <2>3
  <2>5. Results'
    BY <2>4, NoResult
  <2>6. SearchOK(input, out'.low, out'.high)
    BY <2>2, <2>4
  <2> QED BY <1>1, <2>1, <2>5, <2>6 DEF PInv, Inputs
<1>4. CASE Probe
  <2> DEFINE l == NewLow(input.ok, out.low, out.high)
             h == NewHigh(input.ok, out.low, out.high)
  <2>1. input \in EstimateInputs /\ SearchOK(input, out.low, out.high)
    BY <1>4 DEF PInv, Probe
  <2>2. SearchOK(input, l, h)
    BY <1>4, <2>1, SearchGoesOn DEF Probe
  <2>3. out' = [kind |-> "Search", low |-> l, high |-> h]
    BY <1>4 DEF Probe
  <2> HIDE DEF l, h
  <2>4. out'.kind = "Search" /\ out'.low = l /\ out'.high = h
    BY <2>3
  <2>5. Results'
    BY <2>4, NoResult
  <2>6. SearchOK(input, out'.low, out'.high)
    BY <2>2, <2>4
  <2> QED BY <1>1, <2>1, <2>5, <2>6 DEF PInv, Inputs
<1> QED BY <1>2, <1>3, <1>4

LEMMA EndEstimateInv ==
  ASSUME PInv, EndEstimate
  PROVE  PInv'
<1> DEFINE i == input
           g == Confirm(i.ok, HighOf(i), out.high)
           good == i.ok \cap (GasTx .. HighOf(i))
<1>1. /\ i \in EstimateInputs /\ SearchOK(i, out.low, out.high) /\ ~Wide(out.low, out.high)
      /\ input' = input /\ input \in Inputs
  BY DEF PInv, EndEstimate
<1>2. out' = [kind |-> "Estimate", gas |-> g]
  BY DEF EndEstimate
<1>3. g # NoGas => g \in i.ok /\ g <= HighOf(i) /\ (i.cap # 0 => g <= i.cap)
  BY <1>1, SearchEndsSound
<1>4. HighOf(i) >= GasTx /\ (\A x \in good : x .. HighOf(i) \subseteq good) =>
        IF good = {} THEN g = NoGas ELSE g \in good /\ \A x \in good : g <= x
  <2> SUFFICES ASSUME HighOf(i) >= GasTx, \A x \in good : x .. HighOf(i) \subseteq good
               PROVE  IF good = {} THEN g = NoGas ELSE g \in good /\ \A x \in good : g <= x
    OBVIOUS
  <2> DEFINE low == out.low
             high == out.high
             G == good
  <2>1. G = i.ok \cap (GasTx .. HighOf(i)) /\ g = Confirm(i.ok, HighOf(i), high)
        /\ (\A x \in G : x .. HighOf(i) \subseteq G)
        /\ SearchOK(i, low, high) /\ ~Wide(low, high)
    BY <1>1
  <2> HIDE DEF low, high, G, g, good
  <2>2. IF G = {} THEN g = NoGas ELSE g \in G /\ \A x \in G : g <= x
    BY <1>1, <2>1, SearchEndsLeast
  <2> QED BY <2>2 DEF G
<1> HIDE DEF g
<1>5. out'.kind = "Estimate" /\ out'.gas = g
  BY <1>2
<1>6. EstimateSound'
  BY <1>1, <1>3, <1>5 DEF EstimateSound, HighOf
<1>7. EstimateLeast'
  BY <1>1, <1>4, <1>5 DEF EstimateLeast, HighOf
<1>8. /\ ReplayProtection' /\ SignersAccepted' /\ StackIsSequence' /\ NeverRunsData'
      /\ SignedArithmetic' /\ BitPlacement'
  BY <1>5 DEF ReplayProtection, SignersAccepted, StackIsSequence, NeverRunsData,
              SignedArithmetic, BitPlacement
<1> QED BY <1>1, <1>5, <1>6, <1>7, <1>8 DEF PInv, Results, Inputs

LEMMA SignatureInv ==
  ASSUME PInv, RunSignature
  PROVE  PInv'
<1> DEFINE v == input.v
           c == input.chainId
           legacy == RecoverLegacy(v, c, input.checked)
           typed == RecoverTyped(v, input.own, c, input.checked)
<1>1. input' = input /\ input \in Inputs /\ input \in SignatureInputs
  BY OfKind DEF RunSignature, PInv
<1>2. /\ v \in 0 .. WordMod - 1 /\ c \in 0 .. WordMod - 1 /\ input.checked \in BOOLEAN
      /\ v \in Nat /\ c \in Nat
  <2>1. v \in 0 .. WordMod - 1 /\ c \in ChainIds /\ input.checked \in BOOLEAN
    BY <1>1 DEF SignatureInputs
  <2>2. ChainIds \subseteq 0 .. WordMod - 1 /\ 0 .. WordMod - 1 \subseteq Nat
    BY PureAssumption
  <2> QED BY <2>1, <2>2
<1>3. v >= 35 => legacy = IF c = (v - 35) \div 2 THEN v - 35 - 2 * c ELSE Rejected
  <2>1. v >= 35 => v \in 35 .. WordMod - 1
    BY <1>2, SignatureAssumption
  <2> QED BY <1>2, <2>1, LegacyFrom35
<1>4. v < 35 /\ c # 0 => legacy \notin {0, 1}
  <2>1. v < 35 => v \in 0 .. 34
    BY <1>2
  <2> QED BY <1>2, <2>1, LegacyBelow35
<1>5. /\ typed \in {0, 1} => input.own = c /\ v = typed
      /\ input.own = c /\ v \in {0, 1} => typed = v
  BY <1>2, TypedRecovers
<1>6. out' = [kind |-> "Signature", legacy |-> legacy, typed |-> typed]
  BY DEF RunSignature
<1> HIDE DEF legacy, typed
<1>7. out'.kind = "Signature" /\ out'.legacy = legacy /\ out'.typed = typed
  BY <1>6
<1>8. legacy \in {0, 1} /\ c # 0 => Protected(v) /\ v = 35 + 2 * c + legacy
  <2> SUFFICES ASSUME legacy \in {0, 1}, c # 0
               PROVE  Protected(v) /\ v = 35 + 2 * c + legacy
    OBVIOUS
  <2>1. v >= 35
    BY <1>2, <1>4
  <2>2. legacy = v - 35 - 2 * c
    BY <1>3, <2>1 DEF Rejected
  <2>3. Protected(v)
    BY <1>2, <2>1 DEF Protected
  <2> QED BY <1>2, <2>2, <2>3
<1>9. ReplayProtection'
  BY <1>1, <1>5, <1>7, <1>8 DEF ReplayProtection
<1>10. \A y \in {0, 1} : v = 35 + 2 * c + y => legacy = y
  <2> SUFFICES ASSUME NEW y \in {0, 1}, v = 35 + 2 * c + y PROVE legacy = y
    OBVIOUS
  <2>1. v >= 35 /\ v - 35 = 2 * c + y /\ v - 35 - 2 * c = y
    BY <1>2
  <2>2. (2 * c + y) \div 2 = c
    BY <1>2
  <2> QED BY <1>3, <2>1, <2>2
<1>11. v >= 35 => legacy # Panicked
  <2>1. v >= 35 => v - 35 - 2 * ((v - 35) \div 2) \in {0, 1}
    BY <1>2, Halves
  <2> QED BY <1>2, <1>3, <2>1 DEF Panicked, Rejected
<1>12. SignersAccepted'
  <2>1. \A y \in {0, 1} : v = y /\ input.own = c => typed = y
    BY <1>5
  <2>2. legacy = Panicked => v < 35
    BY <1>2, <1>11
  <2> QED BY <1>1, <1>7, <1>10, <2>1, <2>2 DEF SignersAccepted
<1>13. /\ EstimateSound' /\ EstimateLeast' /\ StackIsSequence' /\ NeverRunsData'
       /\ SignedArithmetic' /\ BitPlacement'
  BY <1>7 DEF EstimateSound, EstimateLeast, StackIsSequence, NeverRunsData,
              SignedArithmetic, BitPlacement
<1> QED BY <1>1, <1>7, <1>9, <1>12, <1>13 DEF PInv, Results, Inputs

LEMMA StackInv ==
  ASSUME PInv, RunStack
  PROVE  PInv'
<1> DEFINE st == input.st
           n == input.op[2]
           s == InUse(st)
           res == CASE input.op[1] = "push"    -> Push(st, n)
                    [] input.op[1] = "dup"     -> Dup(st, n)
                    [] input.op[1] = "swap"    -> Swap(st, n)
                    [] input.op[1] = "consume" -> Consume(st, n)
<1>1. input' = input /\ input \in Inputs /\ input \in StackInputs
  BY OfKind DEF RunStack, PInv
<1>2. /\ st \in Stacks
      /\ \/ input.op[1] = "push" /\ n \in Operands
         \/ input.op[1] \in {"dup", "swap"} /\ n \in 0 .. MaxStackDepth + 1
         \/ input.op[1] = "consume" /\ n \in 1 .. 4
  BY <1>1 DEF StackInputs
<1>3. Len(s) = st.top /\ st.top \in 0 .. MaxStackDepth /\ MaxStackDepth \in Nat
  BY <1>2, InUseFacts, StackFacts
<1>4. Refused(st).kind = "Refused" /\ Refused(st).st = st
  BY DEF Refused
<1>5. out' = [kind |-> "Stack", res |-> res]
  BY DEF RunStack
<1> HIDE DEF res
<1>6. out'.kind = "Stack" /\ out'.res = res
  BY <1>5
<1>7. StackIsSequence'
  <2>1. CASE input.op[1] = "push"
    <3>1. res = Push(st, n)
      BY <2>1 DEF res
    <3>2. IF st.top < MaxStackDepth THEN InUse(res.st) = Append(s, n) ELSE res = Refused(st)
      BY <1>2, <2>1, <3>1, PushSeq
    <3> HIDE DEF s
    <3>3. IF st.top < MaxStackDepth THEN InUse(res.st) = Append(s, n)
          ELSE res.kind = "Refused" /\ InUse(res.st) = s
      BY <1>4, <3>2 DEF s
    <3> QED BY <1>1, <1>3, <1>6, <2>1, <3>3 DEF StackIsSequence, s
  <2>2. CASE input.op[1] = "dup"
    <3>1. res = Dup(st, n) /\ n \in Nat
      BY <1>2, <1>3, <2>2 DEF res
    <3>2. n > 0 => IF n <= st.top /\ st.top < MaxStackDepth
                   THEN InUse(res.st) = Append(s, s[st.top + 1 - n])
                   ELSE res = Refused(st)
      BY <1>2, <3>1, DupSeq
    <3>3. n > 0 => IF n <= st.top /\ st.top < MaxStackDepth
                   THEN InUse(res.st) = Append(s, s[st.top + 1 - n])
                   ELSE res.kind = "Refused" /\ InUse(res.st) = s
      BY <1>4, <3>2
    <3> QED BY <1>1, <1>3, <1>6, <2>2, <3>3 DEF StackIsSequence, s
  <2>3. CASE input.op[1] = "swap"
    <3> DEFINE t == InUse(res.st)
    <3>1. res = Swap(st, n) /\ n \in Nat
      BY <1>2, <1>3, <2>3 DEF res
    <3>2. IF n < st.top
          THEN /\ Len(t) = st.top /\ t[st.top] = s[st.top - n] /\ t[st.top - n] = s[st.top]
               /\ \A i \in DOMAIN s \ {st.top, st.top - n} : t[i] = s[i]
          ELSE res.kind = "Refused" /\ t = s
      BY <1>2, <1>4, <3>1, SwapSeq
    <3> QED BY <1>1, <1>3, <1>6, <2>3, <3>2 DEF StackIsSequence, s, t
  <2>4. CASE input.op[1] = "consume"
    <3> DEFINE t == InUse(res.st)
    <3>1. res = Consume(st, n) /\ n \in Nat \ {0}
      BY <1>2, <2>4 DEF res
    <3>2. IF n <= st.top
          THEN /\ t = SubSeq(s, 1, st.top - n)
               /\ \A i \in 1 .. n : res.out[i] = s[st.top + 1 - i]
          ELSE res.kind = "Refused" /\ t = s
      BY <1>2, <1>4, <3>1, ConsumeSeq
    <3> QED BY <1>1, <1>3, <1>6, <2>4, <3>2 DEF StackIsSequence, s, t
  <2> QED BY <1>2, <2>1, <2>2, <2>3, <2>4
<1>8. /\ EstimateSound' /\ EstimateLeast' /\ ReplayProtection' /\ SignersAccepted'
      /\ NeverRunsData' /\ SignedArithmetic' /\ BitPlacement'
  BY <1>6 DEF EstimateSound, EstimateLeast, ReplayProtection, SignersAccepted, NeverRunsData,
              SignedArithmetic, BitPlacement
<1> QED BY <1>1, <1>6, <1>7, <1>8 DEF PInv, Results, Inputs

LEMMA CodeInv ==
  ASSUME PInv, RunCode
  PROVE  PInv'
<1> DEFINE code == input.code
           P == Positions(code)
           B == GenCodeBitmap(code)
           R == Reached(code, input.checked)
           sets == {S \in SUBSET P : Follows(code, S)}
<1>1. input' = input /\ input \in Inputs /\ input \in CodeInputs
  BY OfKind DEF RunCode, PInv
<1>2. code \in Seq(Bytes)
  <2>1. PICK n \in 0 .. MaxCodeLen : code \in [1 .. n -> Bytes]
    BY <1>1 DEF CodeInputs
  <2>2. n \in Nat
    BY PureAssumption
  <2> QED BY <2>1, <2>2, SeqDef
<1>3. out' = [kind |-> "Code", bitmap |-> B, reached |-> R]
  BY DEF RunCode
<1>4. B \subseteq P /\ Follows(code, B)
  BY <1>2, BitmapFollows
<1>5. \A S \in sets : B \subseteq S
  BY <1>2, BitmapLeast
<1>6. \A pc \in R : pc \in B \/ pc >= Len(code)
  BY <1>2, ReachedMarked
<1> HIDE DEF B, R, P
<1>7. B \in sets
  BY <1>4
<1> HIDE DEF sets
<1>8. B = {i \in P : \A S \in sets : i \in S}
  BY <1>4, <1>5, <1>7
<1>9. out'.kind = "Code" /\ out'.bitmap = B /\ out'.reached = R
  BY <1>3
<1>10. NeverRunsData'
  BY <1>1, <1>6, <1>8, <1>9 DEF NeverRunsData, P, sets
<1>11. /\ EstimateSound' /\ EstimateLeast' /\ ReplayProtection' /\ SignersAccepted'
       /\ StackIsSequence' /\ SignedArithmetic' /\ BitPlacement'
  BY <1>9 DEF EstimateSound, EstimateLeast, ReplayProtection, SignersAccepted, StackIsSequence,
              SignedArithmetic, BitPlacement
<1> QED BY <1>1, <1>9, <1>10, <1>11 DEF PInv, Results, Inputs

LEMMA AluInv ==
  ASSUME PInv, RunAlu
  PROVE  PInv'
<1> DEFINE a == input.a
           b == input.b
           p == Signed(a)
           q == Signed(b)
<1>1. input' = input /\ input \in Inputs /\ input \in AluInputs
  BY OfKind DEF RunAlu, PInv
<1>2. a \in Word /\ b \in Word
  BY <1>1 DEF AluInputs
<1>3. out' = [kind |-> "Alu", sdiv |-> SDiv(a, b), smod |-> SMod(a, b), slt |-> SLt(a, b),
              sgt |-> SGt(a, b), shl |-> Shl(a, b), shr |-> Shr(a, b), sar |-> Sar(a, b),
              ext |-> SignExtend(a, b), byte |-> ByteOf(a, b)]
  BY DEF RunAlu
<1>4. /\ out'.kind = "Alu"
      /\ out'.sdiv = SDiv(a, b) /\ out'.smod = SMod(a, b)
      /\ out'.slt = SLt(a, b) /\ out'.sgt = SGt(a, b)
      /\ out'.shl = Shl(a, b) /\ out'.shr = Shr(a, b) /\ out'.sar = Sar(a, b)
      /\ out'.ext = SignExtend(a, b) /\ out'.byte = ByteOf(a, b)
  BY <1>3
<1>5. input'.a = a /\ input'.b = b
  BY <1>1
<1>6. SignedArithmetic'
  <2> DEFINE r == Signed(SMod(a, b))
             v == Signed(SDiv(a, b))
  <2>1. q = 0 => SDiv(a, b) = 0 /\ SMod(a, b) = 0
    BY <1>2, ZeroDivisor
  <2>2. q # 0 => /\ Magnitude(r) < Magnitude(q)
                 /\ r = 0 \/ (r < 0) = (p < 0)
                 /\ (p - (q * v + r)) % Size = 0
                 /\ v # 0 /\ p # -(Size \div 2) => (v < 0) = ((p < 0) # (q < 0))
    BY <1>2, SignedDivision
  <2>3. SLt(a, b) = BoolToWord(p < q) /\ SGt(a, b) = BoolToWord(p > q)
    BY <1>2, SignedOrder
  <2> QED BY <1>4, <1>5, <2>1, <2>2, <2>3, Zenon DEF SignedArithmetic
<1>7. BitPlacement'
  <2> DEFINE sign == IF a >= NBytes THEN Top ELSE (a + 1) * ByteBits - 1
  <2>1. \A i \in 0 .. Top : Bit(Shl(a, b), i) <=> i >= a /\ Bit(b, i - a)
    BY <1>2, ShlPlaces
  <2>2. \A i \in 0 .. Top :
          a <= UsizeMax => (Bit(Shr(a, b), i) <=> i + a <= Top /\ Bit(b, i + a))
    BY <1>2, ShrPlaces
  <2>3. \A i \in 0 .. Top : Bit(Sar(a, b), i) <=> Bit(b, IF i + a > Top THEN Top ELSE i + a)
    BY <1>2, SarPlaces
  <2>4. \A i \in 0 .. Top :
          Bit(SignExtend(a, b), i) <=> Bit(b, i) \/ (i > sign /\ Bit(b, sign))
    BY <1>2, SignExtendPlaces
  <2>5. a > UsizeMax <=> Shr(a, b) = NoWord
    BY <1>2, ShrPlaces
  <2>6. \A i \in 0 .. ByteBits - 1 :
          a < NBytes => (Bit(ByteOf(a, b), i) <=> Bit(b, Bits - (a + 1) * ByteBits + i))
    BY <1>2, ByteOfPlaces
  <2> QED BY <1>4, <1>5, <2>1, <2>2, <2>3, <2>4, <2>5, <2>6, Zenon DEF BitPlacement
<1>8. /\ EstimateSound' /\ EstimateLeast' /\ ReplayProtection' /\ SignersAccepted'
      /\ StackIsSequence' /\ NeverRunsData'
  BY <1>4 DEF EstimateSound, EstimateLeast, ReplayProtection, SignersAccepted, StackIsSequence,
              NeverRunsData
<1> QED BY <1>1, <1>4, <1>6, <1>7, <1>8 DEF PInv, Results, Inputs

LEMMA PureNext == ASSUME PInv, [Next]_vars PROVE PInv'
<1>1. CASE UNCHANGED vars
  <2>1. input' = input /\ out' = out
    BY <1>1 DEF vars
  <2>2. EstimateSound' /\ EstimateLeast'
    BY <2>1 DEF PInv, Results, EstimateSound, EstimateLeast, HighOf
  <2>3. ReplayProtection' /\ SignersAccepted'
    BY <2>1 DEF PInv, Results, ReplayProtection, SignersAccepted
  <2>4. StackIsSequence'
    BY <2>1, Zenon DEF PInv, Results, StackIsSequence
  <2>5. NeverRunsData'
    BY <2>1 DEF PInv, Results, NeverRunsData
  <2>6. SignedArithmetic' /\ BitPlacement'
    BY <2>1, Zenon DEF PInv, Results, SignedArithmetic, BitPlacement
  <2> QED BY <2>1, <2>2, <2>3, <2>4, <2>5, <2>6 DEF PInv, Inputs, Results
<1>2. CASE Next
  BY <1>2, SearchInv, EndEstimateInv, SignatureInv, StackInv, CodeInv, AluInv DEF Next
<1> QED BY <1>1, <1>2

LEMMA PureAlways == Spec => []PInv
<1>1. Init => PInv
  BY PureInit
<1>2. PInv /\ [Next]_vars => PInv'
  BY PureNext
<1> QED BY <1>1, <1>2, PTL DEF Spec

(* The gas that do_estimate_gas answers was seen to be enough, and is      *)
(* within every limit, for whatever set of amounts the call succeeds with. *)
THEOREM EstimateIsSound == Spec => []EstimateSound
<1>1. PInv => EstimateSound
  BY DEF PInv, Results
<1> QED BY <1>1, PureAlways, PTL

(* When more gas never hurts, it is the least amount that is enough, and   *)
(* none is answered only if none is: the search of do_estimate_gas leaves  *)
(* out neither end.                                                        *)
THEOREM EstimateIsLeast == Spec => []EstimateLeast
<1>1. PInv => EstimateLeast
  BY DEF PInv, Results
<1> QED BY <1>1, PureAlways, PTL

(* recover_sender accepts what was signed for this chain only, for all     *)
(* widths of the integers, with and without overflow checks.               *)
THEOREM NoReplay == Spec => []ReplayProtection
<1>1. PInv => ReplayProtection
  BY DEF PInv, Results
<1> QED BY <1>1, PureAlways, PTL

(* recover_sender accepts what a wallet signs for this chain, with the     *)
(* recovery id it was signed with.                                         *)
THEOREM HonestSigners == Spec => []SignersAccepted
<1>1. PInv => SignersAccepted
  BY DEF PInv, Results
<1> QED BY <1>1, PureAlways, PTL

(* push, dup, swap and consume of stack.rs are those of a sequence, at the *)
(* limits too, whatever is left in the slots above the top.                *)
THEOREM OperandStackIsSequence == Spec => []StackIsSequence
<1>1. PInv => StackIsSequence
  BY DEF PInv, Results
<1> QED BY <1>1, PureAlways, PTL

(* gen_code_bitmap marks the instructions and nothing else, and whatever   *)
(* the code and its jumps, exec comes to no byte that is data of a push,   *)
(* for code of any length.                                                 *)
THEOREM DataNeverRun == Spec => []NeverRunsData
<1>1. PInv => NeverRunsData
  BY DEF PInv, Results
<1> QED BY <1>1, PureAlways, PTL

(* SDIV, SMOD, SLT and SGT of alu.rs are those of two's complement numbers *)
(* in words of any width, the quotient of the smallest one by -1 included. *)
THEOREM SignedAsTwosComplement == Spec => []SignedArithmetic
<1>1. PInv => SignedArithmetic
  BY DEF PInv, Results
<1> QED BY <1>1, PureAlways, PTL

(* SHL, SHR, SAR, SIGNEXTEND and BYTE of alu.rs move every bit to where it *)
(* is to be, for words and bytes of any width and every amount.            *)
THEOREM BitsInPlace == Spec => []BitPlacement
<1>1. PInv => BitPlacement
  BY DEF PInv, Results
<1> QED BY <1>1, PureAlways, PTL
=============================================================================
