---------------------------- MODULE AnySeqProofs ----------------------------
(***************************************************************************)
(* How the operations on sequences that the specifications use keep a      *)
(* sequence a sequence, whatever its elements are; and induction on the    *)
(* naturals, with the property given as the set of numbers that have it.   *)
(***************************************************************************)
EXTENDS AnySeq, Integers, SequenceTheorems, WellFoundedInduction, TLAPS

(* A property that 0 has, and n + 1 if n has it, holds of every natural:   *)
(* else there would be a least one without it.                             *)
LEMMA NatInd ==
  ASSUME NEW S, 0 \in S, \A n \in Nat : n \in S => n + 1 \in S
  PROVE  \A n \in Nat : n \in S
<1> DEFINE R == OpToRel(<, Nat)
           B == {n \in Nat : n \notin S}
<1> SUFFICES ASSUME B # {} PROVE FALSE
  OBVIOUS
<1>1. IsWellFoundedOn(R, Nat)
  BY NatLessThanWellFounded
<1>2. \A x, y \in Nat : y < x => <<y, x>> \in R
  BY DEF OpToRel
<1> HIDE DEF R
<1>3. PICK m \in B : \A y \in B : ~ (<<y, m>> \in R)
  BY <1>1, WFMin
<1>4. m - 1 \in Nat /\ m - 1 < m /\ m = (m - 1) + 1
  OBVIOUS
<1>5. m - 1 \notin B
  BY <1>2, <1>3, <1>4
<1> QED BY <1>4, <1>5


LEMMA IsSeqFacts ==
  ASSUME NEW H, IsSeq(H)
  PROVE  Len(H) \in Nat /\ DOMAIN H = 1 .. Len(H)
BY LenProperties DEF IsSeq

LEMMA IsSeqUpdate ==
  ASSUME NEW H, IsSeq(H), NEW i \in DOMAIN H, NEW x
  PROVE  LET K == [H EXCEPT ![i] = x] IN
           /\ IsSeq(K)
           /\ DOMAIN K = DOMAIN H /\ Len(K) = Len(H)
           /\ \A r \in DOMAIN H : K[r] = IF r = i THEN x ELSE H[r]
<1> DEFINE K == [H EXCEPT ![i] = x]
           S == {H[r] : r \in DOMAIN H} \cup {x}
           T == {K[r] : r \in DOMAIN K}
<1>1. Len(H) \in Nat /\ DOMAIN H = 1 .. Len(H)
  BY IsSeqFacts
<1>2. /\ DOMAIN K = 1 .. Len(H)
      /\ \A r \in DOMAIN H : K[r] = IF r = i THEN x ELSE H[r]
      /\ K = [r \in 1 .. Len(H) |-> K[r]]
  BY <1>1
<1>3. \A r \in 1 .. Len(H) : K[r] \in T
  BY <1>2
<1> HIDE DEF K, T
<1>4. K \in [1 .. Len(H) -> T]
  BY <1>2, <1>3
<1>5. K \in Seq(T)
  BY <1>1, <1>4, SeqDef
<1>6. Len(K) = Len(H)
  BY <1>1, <1>2, <1>5, LenProperties
<1> QED BY <1>1, <1>2, <1>5, <1>6 DEF K, T, IsSeq

LEMMA IsSeqAppend ==
  ASSUME NEW H, IsSeq(H), NEW x
  PROVE  LET K == Append(H, x) IN
           /\ IsSeq(K)
           /\ DOMAIN K = 1 .. Len(H) + 1 /\ Len(K) = Len(H) + 1
           /\ \A r \in DOMAIN H : K[r] = H[r]
           /\ K[Len(H) + 1] = x
<1> DEFINE K == Append(H, x)
           R == {H[r] : r \in DOMAIN H}
           S == R \cup {x}
           T == {K[r] : r \in DOMAIN K}
<1>1. Len(H) \in Nat /\ DOMAIN H = 1 .. Len(H)
  BY IsSeqFacts
<1>2. H \in Seq(S) /\ x \in S
  <2>1. H \in Seq(R) /\ R \subseteq S
    BY DEF IsSeq
  <2> HIDE DEF R, S
  <2>2. H \in Seq(S)
    BY <2>1, SeqMonotonic
  <2> QED BY <2>2 DEF S
<1> HIDE DEF R, S
<1>3. /\ DOMAIN K = 1 .. Len(H) + 1
      /\ Len(K) = Len(H) + 1
      /\ \A r \in 1 .. Len(H) : K[r] = H[r]
      /\ K[Len(H) + 1] = x
      /\ K \in Seq(S)
  BY <1>2
<1>4. \A r \in 1 .. Len(H) + 1 : K[r] \in T
  BY <1>3
<1> HIDE DEF K, T
<1>5. K \in [1 .. Len(H) + 1 -> S]
  BY <1>3, LenProperties
<1>6. K \in [1 .. Len(H) + 1 -> T]
  BY <1>4, <1>5
<1>7. K \in Seq(T)
  BY <1>1, <1>6, SeqDef
<1> QED BY <1>1, <1>3, <1>7 DEF K, T, IsSeq

LEMMA IsSeqFront ==
  ASSUME NEW H, IsSeq(H), Len(H) > 0
  PROVE  LET K == SubSeq(H, 1, Len(H) - 1) IN
           /\ IsSeq(K)
           /\ Len(K) = Len(H) - 1
           /\ \A r \in 1 .. Len(H) - 1 : K[r] = H[r]
<1> DEFINE n == Len(H) - 1
           K == SubSeq(H, 1, n)
           R == {H[r] : r \in DOMAIN H}
           T == {K[r] : r \in DOMAIN K}
<1>1. Len(H) \in Nat /\ DOMAIN H = 1 .. Len(H) /\ n \in Nat
  BY IsSeqFacts
<1>2. H \in Seq(R)
  BY DEF IsSeq
<1> HIDE DEF R
<1>3. /\ K \in Seq(R) /\ Len(K) = n
      /\ \A r \in 1 .. n : K[r] = H[r]
  BY <1>1, <1>2, SubSeqProperties
<1>4. DOMAIN K = 1 .. n /\ K \in [1 .. n -> R]
  BY <1>3, LenProperties
<1>5. \A r \in 1 .. n : K[r] \in T
  BY <1>4
<1> HIDE DEF K, T
<1>6. K \in [1 .. n -> T]
  BY <1>4, <1>5
<1>7. K \in Seq(T)
  BY <1>1, <1>6, SeqDef
<1> QED BY <1>3, <1>7 DEF K, T, IsSeq
=============================================================================
