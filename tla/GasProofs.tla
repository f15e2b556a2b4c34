------------------------------ MODULE GasProofs -----------------------------
(***************************************************************************)
(* Proofs about the gas of a transaction, for every fork, gas limit, cost, *)
(* memory size and depth, and every program.                               *)
(*                                                                         *)
(* The inductive invariant GInv says of each frame what it has, what it    *)
(* agreed on when it was pushed and what it paid for its memory, and of    *)
(* each two neighbours that what the upper one may give back was lent by   *)
(* the lower one.  Every action does one of four things to the stack: it   *)
(* changes the current frame (KeepInv), pushes one (PushInv), pops one     *)
(* (PopInv), or ends the transaction (OverInv).                            *)
(***************************************************************************)
EXTENDS Gas, AnySeqProofs

-----------------------------------------------------------------------------
(* Division.                                                               *)

LEMMA DivType ==
  ASSUME NEW x \in Nat, NEW d \in Nat \ {0}
  PROVE  x \div d \in Nat /\ d * (x \div d) <= x /\ x < d * (x \div d) + d /\ x \div d <= x
OBVIOUS

LEMMA MulMono ==
  ASSUME NEW a \in Nat, NEW b \in Nat, NEW d \in Nat, a <= b
  PROVE  a * d \in Nat /\ a * d <= b * d
OBVIOUS

LEMMA DivMono ==
  ASSUME NEW a \in Nat, NEW b \in Nat, NEW d \in Nat \ {0}, a <= b
  PROVE  a \div d <= b \div d
OBVIOUS

LEMMA DivExact ==
  ASSUME NEW k \in Nat, NEW d \in Nat \ {0}
  PROVE  k * d \in Nat /\ (k * d) \div d = k
OBVIOUS

-----------------------------------------------------------------------------
(* Memory.                                                                 *)

(* A memory is a number of words, and the gas it remembers is their price. *)
MemOK(m) ==
  /\ m \in [len : Nat, lastGas : Nat]
  /\ m.len = (m.len \div WordBytes) * WordBytes
  /\ m.lastGas = MemGas(m.len \div WordBytes)

LEMMA MemGasMono ==
  ASSUME NEW j \in Nat, NEW k \in Nat, j <= k
  PROVE  MemGas(j) \in Nat /\ MemGas(j) <= MemGas(k)
<1> USE MemoryAssumption
<1>1. j * MemWordGas \in Nat /\ k * MemWordGas \in Nat /\ j * MemWordGas <= k * MemWordGas
  BY MulMono
<1>2. j * j \in Nat /\ k * k \in Nat /\ j * j <= k * k
  <2>1. j * j \in Nat /\ j * j <= k * j
    BY MulMono
  <2>2. j * k \in Nat /\ j * k <= k * k
    BY MulMono
  <2> QED BY <2>1, <2>2
<1>3. (j * j) \div QuadCoefDiv <= (k * k) \div QuadCoefDiv
  BY <1>2, DivMono
<1>4. (j * j) \div QuadCoefDiv \in Nat /\ (k * k) \div QuadCoefDiv \in Nat
  BY <1>2, DivType
<1> QED BY <1>1, <1>3, <1>4 DEF MemGas

LEMMA NewMemoryOK == MemOK(NewMemory)
<1>1. 0 \div WordBytes = 0 /\ 0 * WordBytes = 0
  BY MemoryAssumption, DivExact
<1>2. MemGas(0) = 0
  BY MemoryAssumption DEF MemGas
<1> QED BY <1>1, <1>2 DEF MemOK, NewMemory

(* Growing keeps that so, and the fee is the difference of the prices: it  *)
(* is never negative, as u64 subtraction requires.                         *)
LEMMA ResizeFacts ==
  ASSUME NEW m, MemOK(m), NEW size \in Nat
  PROVE  /\ MemOK(Resized(m, size))
         /\ ResizeFee(m, size) \in Nat
         /\ Resized(m, size).lastGas = m.lastGas + ResizeFee(m, size)
<1> DEFINE k == m.len \div WordBytes
           w == ToWordSize(size)
<1>1. /\ m.len \in Nat /\ m.lastGas \in Nat /\ WordBytes \in Nat \ {0}
      /\ m.len = k * WordBytes /\ m.lastGas = MemGas(k)
  BY MemoryAssumption DEF MemOK
<1>2. k \in Nat /\ w \in Nat
  <2>1. size + WordBytes - 1 \in Nat
    BY <1>1
  <2> QED BY <1>1, <2>1, DivType DEF ToWordSize
<1>3. CASE size > m.len
  <2>1. k <= w
    <3>1. m.len <= size + WordBytes - 1 /\ size + WordBytes - 1 \in Nat
      BY <1>1, <1>3
    <3> QED BY <1>1, <3>1, DivMono DEF ToWordSize
  <2> HIDE DEF k, w
  <2>2. MemGas(k) \in Nat /\ MemGas(w) \in Nat /\ MemGas(k) <= MemGas(w)
    BY <1>2, <2>1, MemGasMono
  <2>3. w * WordBytes \in Nat /\ (w * WordBytes) \div WordBytes = w
    BY <1>1, <1>2, DivExact
  <2>4. Resized(m, size) = [len |-> w * WordBytes, lastGas |-> MemGas(w)]
    BY <1>3 DEF Resized, w
  <2>5. ResizeFee(m, size) = MemGas(w) - m.lastGas
    BY <1>3 DEF ResizeFee, w
  <2> QED BY <1>1, <2>2, <2>3, <2>4, <2>5 DEF MemOK
<1>4. CASE ~(size > m.len)
  BY <1>1, <1>4 DEF Resized, ResizeFee
<1> QED BY <1>3, <1>4

-----------------------------------------------------------------------------
(* The inductive invariant.                                                *)

FrameRecord ==
  [kind : {"Dummy", "TxCall", "TxCreate", "Create", "Call"}, gas : Nat,
   mem : [len : Nat, lastGas : Nat], lent : Nat, budget : Nat, base : Nat,
   paid : Nat, gratis : Nat]

FrameOK(f) == f \in FrameRecord /\ MemOK(f.mem)

(* What its memory costs is accounted for. *)
Paid(f) == f.paid + f.gratis = f.mem.lastGas

(* A running frame f, and a frame f that waits for h, which it has called. *)
Within(f, total) == f.gas <= f.budget + total - f.base
PartKept(gas, lent, fk) == fk >= TangerineWhistle => gas >= (gas + lent) \div Retained
Funded(f, h, fk) ==
  f.gas + h.budget <= f.budget + h.base - f.base /\ PartKept(f.gas, h.lent, fk)

(* The frame of the transaction is the second one, which starts with the   *)
(* limit minus TxGas; calls and creations are above it.                    *)
Stacked ==
  /\ IsSeq(frames) /\ Len(frames) >= 1
  /\ status = "Running" => Len(frames) >= 2
  /\ status \in {"Idle", "Succeeded", "Reverted"} => Len(frames) = 1 /\ succ = Ok
  /\ Len(frames) >= 2 => /\ frames[2].kind \in {"TxCall", "TxCreate"}
                         /\ frames[2].budget = TxQuota /\ frames[2].base = 0
  /\ \A i \in 3 .. Len(frames) : frames[i].kind \in {"Create", "Call"}

Scalars ==
  /\ fork \in Forks /\ limit \in Limits /\ granted \in Nat /\ unused \in Nat
  /\ succ \in {Ok, Failed}
  /\ status \in {"Idle", "Running", "Succeeded", "Reverted", "Panicked"}

GInv ==
  /\ Scalars /\ Stacked
  /\ \A i \in 1 .. Len(frames) : FrameOK(frames[i])
  /\ \A i \in 1 .. Len(frames) : i < Len(frames) \/ succ = Ok => Paid(frames[i])
  /\ Len(frames) >= 2 => Within(frames[Len(frames)], granted)
  /\ \A i \in 2 .. Len(frames) - 1 : Funded(frames[i], frames[i + 1], fork)
  /\ UnusedWithinLimit

(* g is f later on: what was agreed when it was pushed is as it was, and   *)
(* it has gained `extra` at most.                                          *)
Later(g, f, extra) ==
  /\ FrameOK(g) /\ g.gas <= f.gas + extra
  /\ g.kind = f.kind /\ g.lent = f.lent /\ g.budget = f.budget /\ g.base = f.base

LEMMA FrameTypes ==
  ASSUME NEW f, FrameOK(f)
  PROVE  /\ f.gas \in Nat /\ f.lent \in Nat /\ f.budget \in Nat /\ f.base \in Nat
         /\ f.paid \in Nat /\ f.gratis \in Nat
         /\ MemOK(f.mem) /\ f.mem.len \in Nat /\ f.mem.lastGas \in Nat
BY DEF FrameOK, FrameRecord

LEMMA ReplacedFacts ==
  ASSUME NEW H, IsSeq(H), Len(H) >= 1, NEW g
  PROVE  /\ Len(H) \in Nat \ {0}
         /\ IsSeq(Replaced(H, g)) /\ Len(Replaced(H, g)) = Len(H)
         /\ \A i \in 1 .. Len(H) : Replaced(H, g)[i] = IF i = Len(H) THEN g ELSE H[i]
<1>1. Len(H) \in Nat /\ DOMAIN H = 1 .. Len(H) /\ Len(H) \in DOMAIN H
  BY IsSeqFacts
<1>2. /\ IsSeq([H EXCEPT ![Len(H)] = g]) /\ Len([H EXCEPT ![Len(H)] = g]) = Len(H)
      /\ \A i \in DOMAIN H : [H EXCEPT ![Len(H)] = g][i] = IF i = Len(H) THEN g ELSE H[i]
  BY <1>1, IsSeqUpdate
<1>3. Replaced(H, g) = [H EXCEPT ![Len(H)] = g]
  BY DEF Replaced
<1> QED BY <1>1, <1>2, <1>3

LEMMA CallersFacts ==
  ASSUME GInv, status = "Running"
  PROVE  /\ Len(frames) \in Nat /\ Len(frames) >= 2
         /\ IsSeq(Callers) /\ Len(Callers) = Len(frames) - 1
         /\ \A i \in 1 .. Len(frames) - 1 : Callers[i] = frames[i]
<1>1. IsSeq(frames) /\ Len(frames) \in Nat /\ Len(frames) >= 2
  BY IsSeqFacts DEF GInv, Stacked
<1> QED BY <1>1, IsSeqFront DEF Callers

LEMMA AppendFacts ==
  ASSUME NEW H, IsSeq(H), NEW h
  PROVE  /\ IsSeq(Append(H, h)) /\ Len(Append(H, h)) = Len(H) + 1
         /\ \A i \in 1 .. Len(H) : Append(H, h)[i] = H[i]
         /\ Append(H, h)[Len(H) + 1] = h
<1>1. DOMAIN H = 1 .. Len(H)
  BY IsSeqFacts
<1> QED BY <1>1, IsSeqAppend

-----------------------------------------------------------------------------
(* The things that happen to the stack.                                    *)

(* The current frame has become g. *)
Kept(g) ==
  /\ IsSeq(frames') /\ Len(frames') = Len(frames)
  /\ \A i \in 1 .. Len(frames) : frames'[i] = IF i = Len(frames) THEN g ELSE frames[i]

LEMMA ReplacedKept ==
  ASSUME GInv, NEW g, frames' = Replaced(frames, g)
  PROVE  Kept(g)
BY ReplacedFacts DEF GInv, Stacked, Kept

(* An instruction spends gas, or is given as much as is granted. *)
LEMMA KeepInv ==
  ASSUME GInv, status = "Running", UNCHANGED <<fork, limit, status, unused>>,
         succ' \in {Ok, Failed}, granted' \in Nat, granted <= granted',
         NEW g, Later(g, Top, granted' - granted), succ' = Ok => Paid(g), Kept(g)
  PROVE  GInv'
<1> DEFINE n == Len(frames)
<1>1. /\ n \in Nat \ {0} /\ n >= 2
      /\ IsSeq(frames') /\ Len(frames') = n
      /\ \A i \in 1 .. n : frames'[i] = IF i = n THEN g ELSE frames[i]
  BY IsSeqFacts DEF GInv, Stacked, Kept
<1>2. \A i \in 1 .. n : FrameOK(frames[i])
  BY DEF GInv
<1>3. Top = frames[n]
  BY DEF Top
<1> HIDE DEF n
<1>4. \A i \in 1 .. n : /\ FrameOK(frames'[i])
                        /\ frames'[i].kind = frames[i].kind /\ frames'[i].lent = frames[i].lent
                        /\ frames'[i].budget = frames[i].budget /\ frames'[i].base = frames[i].base
  BY <1>1, <1>2, <1>3 DEF Later
<1>5. Stacked'
  BY <1>1, <1>4 DEF GInv, Stacked, TxQuota, n
<1>6. \A i \in 1 .. n : i < n \/ succ' = Ok => Paid(frames'[i])
  BY <1>1 DEF GInv, n
<1>7. frames'[n].gas <= frames'[n].budget + granted' - frames'[n].base
  <2>1. frames[n].gas <= frames[n].budget + granted - frames[n].base
    BY <1>1 DEF GInv, Within, n
  <2>2. g.gas <= frames[n].gas + granted' - granted /\ g.budget = frames[n].budget
        /\ g.base = frames[n].base
    BY <1>1, <1>2, <1>3, FrameTypes DEF Later, GInv, Scalars
  <2>3. /\ g.gas \in Nat /\ g.budget \in Nat /\ g.base \in Nat
        /\ frames[n].gas \in Nat /\ granted \in Nat
    BY <1>1, <1>2, FrameTypes DEF Later, GInv, Scalars
  <2>4. frames'[n] = g
    BY <1>1
  <2> QED BY <2>1, <2>2, <2>3, <2>4
<1>8. ASSUME NEW i \in 2 .. n - 1 PROVE Funded(frames'[i], frames'[i + 1], fork')
  <2>1. Funded(frames[i], frames[i + 1], fork)
    BY DEF GInv, n
  <2>2. /\ frames'[i] = frames[i]
        /\ frames'[i + 1].budget = frames[i + 1].budget
        /\ frames'[i + 1].base = frames[i + 1].base /\ frames'[i + 1].lent = frames[i + 1].lent
    BY <1>1, <1>4
  <2> QED BY <2>1, <2>2 DEF Funded
<1>9. UnusedWithinLimit'
  BY DEF UnusedWithinLimit
<1> QED BY <1>1, <1>4, <1>5, <1>6, <1>7, <1>8, <1>9 DEF GInv, Scalars, Within, n

(* h has just been pushed. *)
Fresh(h, kind, lent, stipend, base) ==
  /\ FrameOK(h) /\ Paid(h)
  /\ h.kind = kind /\ h.gas = lent + stipend /\ h.budget = lent + stipend
  /\ h.lent = lent /\ h.base = base

LEMMA NewFrame ==
  ASSUME NEW kind \in {"Dummy", "TxCall", "TxCreate", "Create", "Call"},
         NEW lent \in Nat, NEW stipend \in Nat, NEW base \in Nat
  PROVE  Fresh(Frame(kind, lent, stipend, base), kind, lent, stipend, base)
<1> DEFINE h == Frame(kind, lent, stipend, base)
<1>1. /\ h.kind = kind /\ h.gas = lent + stipend /\ h.budget = lent + stipend
      /\ h.lent = lent /\ h.base = base /\ h.mem = NewMemory /\ h.paid = 0 /\ h.gratis = 0
  BY DEF Frame
<1>2. NewMemory \in [len : Nat, lastGas : Nat] /\ NewMemory.lastGas = 0
  BY DEF NewMemory
<1>3. h \in FrameRecord
  BY <1>2 DEF Frame, FrameRecord
<1> HIDE DEF h
<1>4. Fresh(h, kind, lent, stipend, base)
  BY <1>1, <1>2, <1>3, NewMemoryOK DEF Fresh, FrameOK, Paid
<1> QED BY <1>4 DEF h

(* The current frame becomes g, and h is put on top of it. *)
Pushed(g, h) == Append(Replaced(frames, g), h)

(* A call or a creation lends a part of what the frame has. *)
LEMMA PushInv ==
  ASSUME GInv, status = "Running", succ = Ok, UNCHANGED <<fork, limit, succ, status, unused>>,
         NEW g, Later(g, Top, 0), Paid(g),
         NEW h, FrameOK(h), Paid(h), h.kind \in {"Create", "Call"},
         NEW stipend \in Nat, granted' = granted + stipend, h.base = granted',
         h.gas = h.lent + stipend, h.budget = h.lent + stipend,
         g.gas + h.lent <= Top.gas,
         PartKept(g.gas, h.lent, fork), frames' = Pushed(g, h)
  PROVE  GInv'
<1> DEFINE n == Len(frames)
           K == Replaced(frames, g)
<1>1. /\ n \in Nat \ {0} /\ n >= 2
      /\ IsSeq(K) /\ Len(K) = n
      /\ \A i \in 1 .. n : K[i] = IF i = n THEN g ELSE frames[i]
  BY ReplacedFacts DEF GInv, Stacked
<1>2. granted \in Nat /\ granted' \in Nat
  BY DEF GInv, Scalars
<1>3. frames' = Append(K, h)
  BY DEF Pushed
<1> HIDE DEF K
<1>4. /\ IsSeq(frames') /\ Len(frames') = n + 1
      /\ \A i \in 1 .. n : frames'[i] = K[i]
      /\ frames'[n + 1] = h
  BY <1>1, <1>3, AppendFacts
<1>5. /\ frames'[n] = g
      /\ \A i \in 1 .. n - 1 : frames'[i] = frames[i]
  BY <1>1, <1>4
<1>6. /\ \A i \in 1 .. n : FrameOK(frames[i])
      /\ Top = frames[n] /\ FrameOK(g)
  BY DEF GInv, Top, Later
<1>7. /\ \A i \in 1 .. n - 1 : Paid(frames[i])
      /\ Within(frames[n], granted)
      /\ \A i \in 2 .. n - 1 : Funded(frames[i], frames[i + 1], fork)
  BY <1>1 DEF GInv
<1>8. Stacked'
  <2>1. /\ frames[2].kind \in {"TxCall", "TxCreate"}
        /\ frames[2].budget = TxQuota /\ frames[2].base = 0
        /\ \A i \in 3 .. n : frames[i].kind \in {"Create", "Call"}
    BY <1>1 DEF GInv, Stacked
  <2>2. \A i \in 2 .. n : /\ frames'[i].kind = frames[i].kind
                          /\ frames'[i].budget = frames[i].budget
                          /\ frames'[i].base = frames[i].base
    BY <1>1, <1>5, <1>6 DEF Later
  <2>3. TxQuota' = TxQuota
    BY DEF TxQuota
  <2> HIDE DEF n
  <2>4. ASSUME NEW i \in 3 .. n + 1 PROVE frames'[i].kind \in {"Create", "Call"}
    <3>1. CASE i = n + 1
      BY <1>4, <3>1
    <3>2. CASE i \in 3 .. n
      BY <1>1, <2>1, <2>2, <3>2
    <3> QED BY <1>1, <3>1, <3>2
  <2> QED BY <1>1, <1>4, <2>1, <2>2, <2>3, <2>4 DEF Stacked
<1> HIDE DEF n
<1>9. \A i \in 1 .. n + 1 : FrameOK(frames'[i]) /\ Paid(frames'[i])
  BY <1>1, <1>4, <1>5, <1>6, <1>7
<1>10. Within(h, granted')
  BY <1>2, FrameTypes DEF Within
<1>11. Funded(g, h, fork)
  <2>1. frames[n].gas <= frames[n].budget + granted - frames[n].base
    BY <1>7 DEF Within
  <2>2. g.gas + h.lent <= frames[n].gas /\ g.budget = frames[n].budget /\ g.base = frames[n].base
    BY <1>6 DEF Later
  <2>3. /\ g.gas \in Nat /\ g.budget \in Nat /\ g.base \in Nat
        /\ h.lent \in Nat
    BY <1>6, FrameTypes
  <2>4. frames[n].gas \in Nat
    BY <1>1, <1>6, FrameTypes
  <2>5. g.gas + (h.lent + stipend) <= g.budget + (granted + stipend) - g.base
    BY <1>2, <2>1, <2>2, <2>3, <2>4
  <2> QED BY <2>5 DEF Funded
<1>12. ASSUME NEW i \in 2 .. n PROVE Funded(frames'[i], frames'[i + 1], fork')
  <2>1. CASE i = n
    BY <1>4, <1>5, <1>11, <2>1
  <2>2. CASE i = n - 1
    <3>1. Funded(frames[i], frames[n], fork) /\ frames'[i] = frames[i] /\ frames'[i + 1] = g
      BY <1>1, <1>5, <1>7, <2>2
    <3>2. g.budget = frames[n].budget /\ g.base = frames[n].base /\ g.lent = frames[n].lent
      BY <1>6 DEF Later
    <3> QED BY <3>1, <3>2 DEF Funded
  <2>3. CASE i < n - 1
    BY <1>1, <1>5, <1>7, <2>3
  <2> QED BY <1>1, <2>1, <2>2, <2>3
<1>13. UnusedWithinLimit'
  BY DEF UnusedWithinLimit
<1>14. Scalars'
  BY <1>2 DEF GInv, Scalars
<1> QED BY <1>1, <1>4, <1>8, <1>9, <1>10, <1>12, <1>13, <1>14 DEF GInv

(* The current frame is gone and the one below it has become g. *)
Popped(g) ==
  /\ IsSeq(frames') /\ Len(frames') = Len(frames) - 1
  /\ \A i \in 1 .. Len(frames) - 2 : frames'[i] = frames[i]
  /\ frames'[Len(frames) - 1] = g

(* A call or a creation returns what it has left at most. *)
LEMMA PopInv ==
  ASSUME GInv, status = "Running", UNCHANGED <<fork, limit, status, unused, granted>>,
         succ' \in {Ok, Failed}, Top.kind \in {"Create", "Call"},
         NEW g, Later(g, Below, Top.gas), succ' = Ok => Paid(g), Popped(g)
  PROVE  GInv'
<1> DEFINE n == Len(frames)
<1>1. n \in Nat /\ n >= 2
  BY CallersFacts
<1>2. /\ frames[2].kind \in {"TxCall", "TxCreate"}
      /\ frames[2].budget = TxQuota /\ frames[2].base = 0
      /\ \A i \in 3 .. n : frames[i].kind \in {"Create", "Call"}
  BY <1>1 DEF GInv, Stacked
<1>3. n >= 3
  BY <1>1, <1>2 DEF Top
<1>4. /\ IsSeq(frames') /\ Len(frames') = n - 1
      /\ \A i \in 1 .. n - 2 : frames'[i] = frames[i]
      /\ frames'[n - 1] = g
  BY DEF Popped
<1>5. /\ \A i \in 1 .. n : FrameOK(frames[i])
      /\ Top = frames[n] /\ Below = frames[n - 1]
      /\ \A i \in 1 .. n - 1 : Paid(frames[i])
      /\ Within(frames[n], granted)
      /\ \A i \in 2 .. n - 1 : Funded(frames[i], frames[i + 1], fork)
  BY <1>1 DEF GInv, Top, Below
<1> HIDE DEF n
<1>6. FrameOK(g) /\ g.gas <= frames[n - 1].gas + frames[n].gas
      /\ g.kind = frames[n - 1].kind /\ g.lent = frames[n - 1].lent
      /\ g.budget = frames[n - 1].budget /\ g.base = frames[n - 1].base
  BY <1>5 DEF Later
<1>7. Stacked'
  <2>1. \A i \in 2 .. n - 1 :
          /\ frames'[i].kind = frames[i].kind
          /\ frames'[i].budget = frames[i].budget /\ frames'[i].base = frames[i].base
    BY <1>1, <1>3, <1>4, <1>6
  <2>2. TxQuota' = TxQuota
    BY DEF TxQuota
  <2> QED BY <1>1, <1>2, <1>3, <1>4, <2>1, <2>2 DEF Stacked
<1>8. \A i \in 1 .. n - 1 : FrameOK(frames'[i]) /\ (i < n - 1 \/ succ' = Ok => Paid(frames'[i]))
  BY <1>1, <1>4, <1>5, <1>6
<1>9. Within(g, granted)
  <2>1. frames[n].gas <= frames[n].budget + granted - frames[n].base
    BY <1>5 DEF Within
  <2>2. frames[n - 1].gas + frames[n].budget
          <= frames[n - 1].budget + frames[n].base - frames[n - 1].base
    <3>1. Funded(frames[n - 1], frames[(n - 1) + 1], fork) /\ (n - 1) + 1 = n
      BY <1>1, <1>3, <1>5
    <3> QED BY <3>1 DEF Funded
  <2>3. n \in 1 .. n /\ n - 1 \in 1 .. n
    BY <1>1, <1>3
  <2>4. /\ frames[n].gas \in Nat /\ frames[n].budget \in Nat /\ frames[n].base \in Nat
        /\ frames[n - 1].gas \in Nat /\ frames[n - 1].budget \in Nat
        /\ frames[n - 1].base \in Nat /\ g.gas \in Nat
    BY <1>5, <1>6, <2>3, FrameTypes
  <2>5. granted \in Nat
    BY DEF GInv, Scalars
  <2>6. g.gas <= frames[n - 1].budget + granted - frames[n - 1].base
    BY <1>6, <2>1, <2>2, <2>4, <2>5
  <2> QED BY <1>6, <2>6 DEF Within
<1>10. ASSUME NEW i \in 2 .. n - 2 PROVE Funded(frames'[i], frames'[i + 1], fork')
  <2>1. Funded(frames[i], frames[i + 1], fork) /\ frames'[i] = frames[i]
    BY <1>1, <1>4, <1>5
  <2>2. CASE i = n - 2
    <3>1. frames[i + 1] = frames[n - 1] /\ frames'[i + 1] = g
      BY <1>1, <1>4, <2>2
    <3> QED BY <1>6, <2>1, <3>1 DEF Funded
  <2>3. CASE i < n - 2
    BY <1>1, <1>4, <2>1, <2>3
  <2> QED BY <1>1, <2>2, <2>3
<1>11. UnusedWithinLimit'
  BY DEF UnusedWithinLimit
<1>12. Scalars'
  BY DEF GInv, Scalars
<1> QED BY <1>1, <1>3, <1>4, <1>7, <1>8, <1>9, <1>10, <1>11, <1>12 DEF GInv

(* The transaction is over. *)
LEMMA TxQuotaFacts ==
  ASSUME limit \in Limits
  PROVE  TxQuota \in Nat /\ (limit >= TxGas => TxQuota = limit - TxGas)
<1>1. limit \in Nat /\ TxGas \in Nat /\ U64Mod \in Nat /\ limit < U64Mod /\ TxGas < U64Mod
  BY GasAssumption
<1> QED BY <1>1 DEF TxQuota

LEMMA OverInv ==
  ASSUME GInv, UNCHANGED <<fork, limit, granted>>, Len(frames) = 2,
         status' \in {"Succeeded", "Reverted"}, succ' = Ok,
         unused' \in Nat, unused' <= Top.gas,
         NEW g, FrameOK(g), Paid(g), Popped(g)
  PROVE  GInv'
<1>1. IsSeq(frames') /\ Len(frames') = 1 /\ frames'[1] = g
  BY DEF Popped
<1>2. /\ FrameOK(frames[2]) /\ Within(frames[2], granted)
      /\ frames[2].budget = TxQuota /\ frames[2].base = 0 /\ Top = frames[2]
  BY DEF GInv, Stacked, Top
<1>3. unused' <= TxQuota + granted
  <2>1. granted \in Nat /\ limit \in Limits
    BY DEF GInv, Scalars
  <2>2. Top.gas \in Nat /\ Top.gas <= TxQuota + granted - 0
    BY <1>2, FrameTypes DEF Within
  <2> QED BY <2>1, <2>2, TxQuotaFacts
<1>4. UnusedWithinLimit'
  BY <1>3, TxQuotaFacts DEF UnusedWithinLimit, GInv, Scalars
<1>5. Stacked'
  BY <1>1 DEF Stacked
<1>6. Scalars'
  BY DEF GInv, Scalars
<1> QED BY <1>1, <1>4, <1>5, <1>6 DEF GInv

-----------------------------------------------------------------------------
(* The operations that instructions are made of.                           *)

Purses == [gas : Nat, ok : BOOLEAN]

LEMMA UseGasFacts ==
  ASSUME NEW p \in Purses, NEW c \in Nat
  PROVE  /\ UseGas(p, c) \in Purses
         /\ UseGas(p, c).gas \in Nat /\ UseGas(p, c).gas <= p.gas
         /\ UseGas(p, c).ok => p.ok /\ UseGas(p, c).gas = p.gas - c
<1>1. p.gas \in Nat /\ p.ok \in BOOLEAN /\ DOMAIN p = {"gas", "ok"}
  BY DEF Purses
<1>2. CASE ~p.ok \/ p.gas < c
  <2>1. UseGas(p, c) = [p EXCEPT !.ok = FALSE]
    BY <1>2 DEF UseGas
  <2>2. /\ [p EXCEPT !.ok = FALSE] \in Purses
        /\ [p EXCEPT !.ok = FALSE].gas = p.gas /\ [p EXCEPT !.ok = FALSE].ok = FALSE
    BY DEF Purses
  <2> QED BY <1>1, <2>1, <2>2
<1>3. CASE p.ok /\ ~(p.gas < c)
  <2>1. UseGas(p, c) = [p EXCEPT !.gas = p.gas - c]
    BY <1>3 DEF UseGas
  <2>2. p.gas - c \in Nat
    BY <1>1, <1>3
  <2>3. /\ [p EXCEPT !.gas = p.gas - c] \in Purses
        /\ [p EXCEPT !.gas = p.gas - c].gas = p.gas - c /\ [p EXCEPT !.gas = p.gas - c].ok = p.ok
    BY <2>2 DEF Purses
  <2> QED BY <1>1, <1>3, <2>1, <2>2, <2>3
<1> QED BY <1>2, <1>3

LEMMA PurseFacts ==
  ASSUME NEW gas \in Nat
  PROVE  Purse(gas) \in Purses /\ Purse(gas).gas = gas /\ Purse(gas).ok
BY DEF Purse, Purses

(* Charges leave alone what was agreed, and growing memory adds its fee. *)
LEMMA HoldingFacts ==
  ASSUME NEW f, FrameOK(f), NEW p, p.gas \in Nat
  PROVE  /\ FrameOK(Holding(f, p)) /\ Holding(f, p).gas = p.gas
         /\ Paid(f) => Paid(Holding(f, p))
         /\ Holding(f, p).kind = f.kind /\ Holding(f, p).lent = f.lent
         /\ Holding(f, p).budget = f.budget /\ Holding(f, p).base = f.base
BY DEF FrameOK, FrameRecord, Holding, Paid

LEMMA GrownFacts ==
  ASSUME NEW f, FrameOK(f), NEW end \in Nat
  PROVE  LET g == Grown(f, end) IN
         /\ FrameOK(g) /\ g.gas = f.gas /\ g.paid = f.paid /\ g.gratis = f.gratis
         /\ Fee(f, end) \in Nat /\ g.mem.lastGas = f.mem.lastGas + Fee(f, end)
         /\ g.kind = f.kind /\ g.lent = f.lent /\ g.budget = f.budget /\ g.base = f.base
<1> DEFINE m == Resized(f.mem, end)
           g == [f EXCEPT !.mem = m]
<1>1. MemOK(f.mem) /\ f \in FrameRecord
  BY DEF FrameOK
<1>2. MemOK(m) /\ Fee(f, end) \in Nat /\ m.lastGas = f.mem.lastGas + Fee(f, end)
  BY <1>1, ResizeFacts DEF Fee
<1>3. m \in [len : Nat, lastGas : Nat]
  BY <1>2 DEF MemOK
<1>4. Grown(f, end) = g
  BY DEF Grown
<1> HIDE DEF m
<1>5. /\ g \in FrameRecord /\ g.mem = m
      /\ g.gas = f.gas /\ g.paid = f.paid /\ g.gratis = f.gratis
      /\ g.kind = f.kind /\ g.lent = f.lent /\ g.budget = f.budget /\ g.base = f.base
  BY <1>1, <1>3 DEF FrameRecord
<1> HIDE DEF g
<1> QED BY <1>2, <1>4, <1>5 DEF FrameOK

LEMMA BilledFacts ==
  ASSUME NEW f, FrameOK(f), NEW end \in Nat
  PROVE  LET g == Billed(Grown(f, end), Fee(f, end)) IN
         /\ FrameOK(g) /\ g.gas = f.gas /\ (Paid(f) => Paid(g))
         /\ g.kind = f.kind /\ g.lent = f.lent /\ g.budget = f.budget /\ g.base = f.base
<1> DEFINE h == Grown(f, end)
           fee == Fee(f, end)
           g == [h EXCEPT !.paid = @ + fee]
<1>1. /\ FrameOK(h) /\ h.gas = f.gas /\ h.paid = f.paid /\ h.gratis = f.gratis
      /\ fee \in Nat /\ h.mem.lastGas = f.mem.lastGas + fee
      /\ h.kind = f.kind /\ h.lent = f.lent /\ h.budget = f.budget /\ h.base = f.base
  BY GrownFacts
<1>2. Billed(Grown(f, end), Fee(f, end)) = g
  BY DEF Billed
<1>3. f.paid \in Nat /\ f.gratis \in Nat /\ f.mem.lastGas \in Nat
  BY FrameTypes
<1> HIDE DEF h, fee
<1>4. /\ FrameOK(g) /\ g.mem = h.mem /\ g.gratis = h.gratis /\ g.paid = h.paid + fee
      /\ g.gas = h.gas /\ g.kind = h.kind
      /\ g.lent = h.lent /\ g.budget = h.budget /\ g.base = h.base
  BY <1>1 DEF FrameOK, FrameRecord
<1> HIDE DEF g
<1>5. Paid(f) => Paid(g)
  BY <1>1, <1>3, <1>4 DEF Paid
<1> QED BY <1>1, <1>2, <1>4, <1>5

LEMMA TopFacts ==
  ASSUME GInv, status = "Running"
  PROVE  /\ FrameOK(Top) /\ Top.gas \in Nat /\ (succ = Ok => Paid(Top))
         /\ Later(Top, Top, 0) /\ granted \in Nat /\ fork \in Forks
<1>1. Len(frames) \in Nat /\ Len(frames) >= 2
  BY CallersFacts
<1>2. FrameOK(Top) /\ (succ = Ok => Paid(Top))
  BY <1>1 DEF GInv, Top
<1>3. granted \in Nat /\ fork \in Forks
  BY DEF GInv, Scalars
<1> QED BY <1>2, <1>3, FrameTypes DEF Later

LEMMA FailInv ==
  ASSUME GInv, status = "Running", UNCHANGED <<fork, limit>>,
         granted' \in Nat, granted <= granted', NEW f, Later(f, Top, 0), Fail(f)
  PROVE  GInv'
<1>1. Later(f, Top, granted' - granted)
  <2>1. f.gas \in Nat /\ Top.gas \in Nat /\ granted \in Nat
    BY TopFacts, FrameTypes DEF Later
  <2> QED BY <2>1 DEF Later
<1> QED BY <1>1, KeepInv, ReplacedKept DEF Fail, Failed, Ok

LEMMA SettleInv ==
  ASSUME GInv, status = "Running", UNCHANGED <<fork, limit, granted>>,
         NEW f, Later(f, Top, 0), NEW p \in Purses, p.gas <= Top.gas,
         p.ok => Paid(f), Settle(f, p)
  PROVE  GInv'
<1> DEFINE g == Holding(f, p)
<1>1. p.gas \in Nat /\ p.ok \in BOOLEAN /\ granted \in Nat /\ Top.gas \in Nat
  BY TopFacts DEF Purses
<1>2. Later(g, Top, 0) /\ (p.ok => Paid(g))
  BY <1>1, HoldingFacts DEF Later
<1>3. frames' = Replaced(frames, g) /\ UNCHANGED <<status, unused>>
      /\ succ' = IF p.ok THEN Ok ELSE Failed
  BY DEF Settle, GoOn, Fail
<1> HIDE DEF g
<1>4. Later(g, Top, granted' - granted)
  BY <1>1, <1>2
<1>5. succ' \in {Ok, Failed} /\ (succ' = Ok => p.ok)
  BY <1>1, <1>3 DEF Ok, Failed
<1> QED BY <1>1, <1>2, <1>3, <1>4, <1>5, KeepInv, ReplacedKept

-----------------------------------------------------------------------------
(* The end of a call.                                                      *)

LEMMA PostProcessedFacts ==
  ASSUME NEW gas \in Nat, NEW err \in {Ok, Reverted, Failed},
         NEW p \in PostProcessed(gas, err)
  PROVE  p.gas \in Nat /\ p.gas <= gas
<1> USE DEF Ok, Reverted, Failed
<1>1. CASE err \in {Reverted, Failed}
  BY <1>1 DEF PostProcessed
<1>2. CASE err = Ok
  <2>1. CASE p.gas = gas
    BY <2>1
  <2>2. ASSUME NEW n \in Lens, p.gas = UseGas(Purse(gas), n * DataCost).gas
        PROVE  p.gas \in Nat /\ p.gas <= gas
    <3> DEFINE c == n * DataCost
    <3>1. c \in Nat
      BY GasAssumption, MulMono
    <3>2. Purse(gas) \in Purses /\ Purse(gas).gas = gas /\ p.gas = UseGas(Purse(gas), c).gas
      BY <2>2, PurseFacts
    <3> HIDE DEF c
    <3> QED BY <3>1, <3>2, UseGasFacts
  <2>3. p.gas = gas \/ \E n \in Lens : p.gas = UseGas(Purse(gas), n * DataCost).gas
    <3> DEFINE Q(n) == UseGas(Purse(gas), n * DataCost)
    <3>1. \/ p = [gas |-> gas, ret |-> Failed]
          \/ \E n \in Lens : p = [gas |-> Q(n).gas, ret |-> IF Q(n).ok THEN Ok ELSE Failed]
      BY <1>2, Zenon DEF PostProcessed
    <3> HIDE DEF Q
    <3>2. p.gas = gas \/ \E n \in Lens : p.gas = Q(n).gas
      BY <3>1
    <3> QED BY <3>2 DEF Q
  <2> QED BY <2>1, <2>2, <2>3
<1> QED BY <1>1, <1>2

(* The frame that data and gas are returned to. *)
LEMMA CallEndFacts ==
  ASSUME NEW fs, IsSeq(fs), Len(fs) >= 1, FrameOK(fs[Len(fs)]), Paid(fs[Len(fs)]),
         NEW left \in Nat, NEW err, CallEnd(fs, left, err)
  PROVE  /\ succ' \in {Ok, Failed} /\ UNCHANGED <<status, unused>>
         /\ IsSeq(frames') /\ Len(frames') = Len(fs)
         /\ \A i \in 1 .. Len(fs) - 1 : frames'[i] = fs[i]
         /\ Later(frames'[Len(fs)], fs[Len(fs)], left) /\ Paid(frames'[Len(fs)])
<1> DEFINE n == Len(fs)
           f == fs[n]
<1>1. n \in Nat \ {0}
  BY IsSeqFacts
<1>2. succ' \in {Ok, Failed} /\ UNCHANGED <<status, unused>>
  BY DEF CallEnd
<1>3. f.gas \in Nat /\ f.paid \in Nat /\ f.gratis \in Nat /\ f.mem.lastGas \in Nat
  BY FrameTypes
<1>4. CASE frames' = fs
  BY <1>1, <1>2, <1>3, <1>4 DEF Later
<1>5. ASSUME NEW end \in Ends,
             frames' = Replaced(fs, [Grown(f, end) EXCEPT
                                       !.gas = @ + left, !.gratis = @ + Fee(f, end)])
      PROVE  /\ IsSeq(frames') /\ Len(frames') = n
             /\ \A i \in 1 .. n - 1 : frames'[i] = fs[i]
             /\ Later(frames'[n], f, left) /\ Paid(frames'[n])
  <2> DEFINE h == Grown(f, end)
             fee == Fee(f, end)
             g == [h EXCEPT !.gas = @ + left, !.gratis = @ + fee]
  <2>1. /\ FrameOK(h) /\ h.gas = f.gas /\ h.paid = f.paid /\ h.gratis = f.gratis
        /\ fee \in Nat /\ h.mem.lastGas = f.mem.lastGas + fee
        /\ h.kind = f.kind /\ h.lent = f.lent /\ h.budget = f.budget /\ h.base = f.base
    BY GrownFacts, GasAssumption
  <2>2. frames' = Replaced(fs, g)
    BY <1>5
  <2> HIDE DEF h, fee
  <2>3. /\ FrameOK(g) /\ g.mem = h.mem /\ g.gratis = h.gratis + fee /\ g.paid = h.paid
        /\ g.gas = h.gas + left /\ g.kind = h.kind
        /\ g.lent = h.lent /\ g.budget = h.budget /\ g.base = h.base
    <3> DEFINE a == h.gas + left
               b == h.gratis + fee
    <3>1. a \in Nat /\ b \in Nat /\ h \in FrameRecord /\ MemOK(h.mem)
      BY <1>3, <2>1 DEF FrameOK
    <3>2. g = [h EXCEPT !.gas = a, !.gratis = b]
      OBVIOUS
    <3> HIDE DEF a, b, g
    <3>3. /\ g \in FrameRecord /\ g.mem = h.mem /\ g.gratis = b /\ g.paid = h.paid
          /\ g.gas = a /\ g.kind = h.kind
          /\ g.lent = h.lent /\ g.budget = h.budget /\ g.base = h.base
      BY <3>1, <3>2 DEF FrameRecord
    <3> QED BY <3>1, <3>3 DEF FrameOK, a, b
  <2> HIDE DEF g
  <2>4. /\ IsSeq(frames') /\ Len(frames') = n /\ frames'[n] = g
        /\ \A i \in 1 .. n - 1 : frames'[i] = fs[i]
    BY <1>1, <2>2, ReplacedFacts
  <2>5. Paid(g)
    BY <1>3, <2>1, <2>3 DEF Paid
  <2>6. Later(g, f, left)
    BY <1>3, <2>1, <2>3 DEF Later
  <2> QED BY <2>4, <2>5, <2>6
<1> QED BY <1>2, <1>4, <1>5 DEF CallEnd

LEMMA FinishCallInv ==
  ASSUME GInv, status = "Running", UNCHANGED <<fork, limit, granted>>,
         NEW f, f.kind = Top.kind, f.gas \in Nat, f.gas <= Top.gas,
         NEW err \in {Ok, Reverted, Failed}, FinishCall(f, err)
  PROVE  GInv'
<1> DEFINE n == Len(frames)
<1>1. /\ n \in Nat /\ n >= 2 /\ IsSeq(Callers) /\ Len(Callers) = n - 1
      /\ \A i \in 1 .. n - 1 : Callers[i] = frames[i]
  BY CallersFacts
<1>2. /\ FrameOK(Below) /\ Paid(Below) /\ Callers[n - 1] = Below
      /\ Top = frames[n] /\ Top.gas \in Nat
  BY <1>1, TopFacts DEF GInv, Below, Top
<1>3. Below.gas \in Nat
  BY <1>2, FrameTypes
<1>4. /\ frames[2].kind \in {"TxCall", "TxCreate"}
      /\ \A i \in 3 .. n : frames[i].kind \in {"Create", "Call"}
  BY <1>1 DEF GInv, Stacked
<1>5. ASSUME NEW g, frames' = Replaced(Callers, g) PROVE Popped(g)
  <2>1. Len(Callers) >= 1
    BY <1>1
  <2>2. /\ IsSeq(frames') /\ Len(frames') = n - 1
        /\ \A i \in 1 .. n - 1 : frames'[i] = IF i = n - 1 THEN g ELSE Callers[i]
    BY <1>1, <1>5, <2>1, ReplacedFacts
  <2> QED BY <1>1, <2>2 DEF Popped
<1>6. ASSUME NEW p, p.gas \in Nat, p.gas <= Below.gas
      PROVE  FrameOK(Holding(Below, p)) /\ Paid(Holding(Below, p))
  BY <1>2, <1>6, HoldingFacts
<1>7. CASE f.kind = "TxCall"
  <2>1. Finished(err, f.gas) /\ frames' = Callers
    BY <1>7 DEF FinishCall
  <2>2. n = 2
    BY <1>1, <1>2, <1>4, <1>7
  <2>3. Popped(Below)
    BY <1>1, <1>2, <2>1 DEF Popped
  <2> QED BY <1>2, <2>1, <2>2, <2>3, OverInv DEF Finished
<1>8. CASE f.kind = "TxCreate"
  <2>1. PICK p \in PostProcessed(Below.gas, err) :
          Finished(p.ret, f.gas) /\ frames' = Replaced(Callers, Holding(Below, p))
    BY <1>8 DEF FinishCall
  <2>2. p.gas \in Nat /\ p.gas <= Below.gas
    BY <1>3, PostProcessedFacts
  <2>3. FrameOK(Holding(Below, p)) /\ Paid(Holding(Below, p)) /\ Popped(Holding(Below, p))
    BY <1>5, <1>6, <2>1, <2>2
  <2>4. n = 2
    BY <1>1, <1>2, <1>4, <1>8
  <2> QED BY <2>1, <2>3, <2>4, OverInv DEF Finished
<1>9. CASE f.kind = "Create"
  <2>1. CreateEnd(f.gas, err)
    BY <1>9 DEF FinishCall
  <2>2. PICK p \in PostProcessed(Below.gas, err) :
          frames' = Replaced(Callers, [Below EXCEPT !.gas = p.gas + f.gas])
    BY <2>1 DEF CreateEnd
  <2> DEFINE sum == p.gas + f.gas
             g == [Below EXCEPT !.gas = sum]
  <2>3. p.gas \in Nat /\ p.gas <= Below.gas
    BY <1>3, PostProcessedFacts
  <2>4. sum \in Nat /\ sum <= Below.gas + Top.gas
    BY <1>2, <1>3, <2>3
  <2>5. Popped(g)
    BY <1>5, <2>2
  <2> HIDE DEF sum
  <2>6. Later(g, Below, Top.gas) /\ Paid(g)
    BY <1>2, <2>4 DEF Later, FrameOK, FrameRecord, Paid
  <2>7. succ' = Ok /\ UNCHANGED <<status, unused>>
    BY <2>1 DEF CreateEnd
  <2> HIDE DEF g
  <2> QED BY <1>9, <2>5, <2>6, <2>7, PopInv
<1>10. CASE f.kind = "Call"
  <2>1. CallEnd(Callers, f.gas, err)
    BY <1>10 DEF FinishCall
  <2>2. Len(Callers) >= 1 /\ FrameOK(Callers[Len(Callers)]) /\ Paid(Callers[Len(Callers)])
    BY <1>1, <1>2
  <2>3. /\ succ' \in {Ok, Failed} /\ UNCHANGED <<status, unused>>
        /\ IsSeq(frames') /\ Len(frames') = n - 1
        /\ \A i \in 1 .. n - 2 : frames'[i] = Callers[i]
        /\ Later(frames'[n - 1], Below, f.gas) /\ Paid(frames'[n - 1])
    BY <1>1, <1>2, <2>1, <2>2, CallEndFacts
  <2> DEFINE g == frames'[n - 1]
  <2>4. Popped(g)
    BY <1>1, <2>3 DEF Popped
  <2>5. Later(g, Below, Top.gas)
    <3>1. g.gas \in Nat
      BY <2>3, FrameTypes DEF Later
    <3> QED BY <1>2, <1>3, <2>3, <3>1 DEF Later
  <2>6. Paid(g)
    BY <2>3
  <2> HIDE DEF g
  <2> QED BY <1>10, <2>3, <2>4, <2>5, <2>6, PopInv
<1> QED BY <1>7, <1>8, <1>9, <1>10 DEF FinishCall

-----------------------------------------------------------------------------
(* Instructions.                                                           *)

LEMMA HoldingLater ==
  ASSUME GInv, status = "Running", NEW f, Later(f, Top, 0), NEW p, p.gas \in Nat, p.gas <= Top.gas
  PROVE  Later(Holding(f, p), Top, 0)
<1>1. FrameOK(f) /\ Top.gas \in Nat
  BY TopFacts DEF Later
<1> QED BY <1>1, HoldingFacts DEF Later

LEMMA GrownLater ==
  ASSUME GInv, status = "Running", NEW end \in Ends
  PROVE  /\ Fee(Top, end) \in Nat
         /\ Later(Grown(Top, end), Top, 0)
         /\ Later(Billed(Grown(Top, end), Fee(Top, end)), Top, 0)
         /\ succ = Ok => Paid(Billed(Grown(Top, end), Fee(Top, end)))
<1>1. FrameOK(Top) /\ Top.gas \in Nat /\ end \in Nat /\ (succ = Ok => Paid(Top))
  BY TopFacts, GasAssumption
<1> DEFINE g == Grown(Top, end)
           h == Billed(Grown(Top, end), Fee(Top, end))
<1>2. /\ FrameOK(g) /\ g.gas = Top.gas /\ Fee(Top, end) \in Nat
      /\ g.kind = Top.kind /\ g.lent = Top.lent /\ g.budget = Top.budget /\ g.base = Top.base
  BY <1>1, GrownFacts
<1>3. /\ FrameOK(h) /\ h.gas = Top.gas /\ (Paid(Top) => Paid(h))
      /\ h.kind = Top.kind /\ h.lent = Top.lent /\ h.budget = Top.budget /\ h.base = Top.base
  BY <1>1, BilledFacts
<1> HIDE DEF g, h
<1>4. Later(g, Top, 0) /\ Later(h, Top, 0) /\ (succ = Ok => Paid(h))
  BY <1>1, <1>2, <1>3 DEF Later
<1> QED BY <1>2, <1>4 DEF g, h

LEMMA ChargeInv ==
  ASSUME GInv, NEW c \in Charges, Charge(c)
  PROVE  GInv'
<1>1. status = "Running" /\ succ = Ok
  BY DEF Charge, Running
<1>2. Top.gas \in Nat /\ c \in Nat /\ Later(Top, Top, 0) /\ Paid(Top)
  BY <1>1, TopFacts, GasAssumption
<1>3. UseGas(Purse(Top.gas), c) \in Purses /\ UseGas(Purse(Top.gas), c).gas <= Top.gas
  BY <1>2, PurseFacts, UseGasFacts
<1> QED BY <1>1, <1>2, <1>3, SettleInv DEF Charge

LEMMA ErrorInv ==
  ASSUME GInv, Error
  PROVE  GInv'
BY TopFacts, FailInv DEF Error, Running

LEMMA SStoreInv ==
  ASSUME GInv, NEW c \in Charges, SStore(c)
  PROVE  GInv'
<1> DEFINE fee == IF fork >= Constantinople THEN c ELSE 0
           p == UseGas(Purse(Top.gas), fee)
<1>1. status = "Running" /\ succ = Ok /\ UNCHANGED <<fork, limit, granted>>
  BY DEF SStore, Running
<1>2. Top.gas \in Nat /\ fee \in Nat /\ Later(Top, Top, 0) /\ Paid(Top) /\ granted \in Nat
  BY <1>1, TopFacts, GasAssumption
<1>3. Fail(Top) \/ Settle(Top, p)
  BY DEF SStore
<1> HIDE DEF fee
<1>4. p \in Purses /\ p.gas <= Top.gas
  BY <1>2, PurseFacts, UseGasFacts
<1> HIDE DEF p
<1>5. CASE Fail(Top)
  BY <1>1, <1>2, <1>5, FailInv
<1>6. CASE Settle(Top, p)
  BY <1>1, <1>2, <1>4, <1>6, SettleInv
<1> QED BY <1>3, <1>5, <1>6

LEMMA TouchInv ==
  ASSUME GInv, NEW c \in Charges, NEW end \in Ends, NEW w \in Charges, Touch(c, end, w)
  PROVE  GInv'
<1> DEFINE p == UseGas(Purse(Top.gas), c)
           fee == Fee(Top, end)
           q1 == UseGas(p, w)
           q == UseGas(q1, fee)
           f1 == Grown(Top, end)
           f2 == Billed(Grown(Top, end), Fee(Top, end))
<1>1. status = "Running" /\ succ = Ok /\ UNCHANGED <<fork, limit, granted>>
  BY DEF Touch, Running
<1>2. Top.gas \in Nat /\ c \in Nat /\ w \in Nat /\ granted \in Nat /\ Later(Top, Top, 0)
  BY <1>1, TopFacts, GasAssumption
<1>3. fee \in Nat /\ Later(f1, Top, 0) /\ Later(f2, Top, 0) /\ Paid(f2)
  BY <1>1, GrownLater
<1>4. Fail(Holding(Top, p)) \/ Settle(IF q.ok THEN f2 ELSE f1, q)
  BY DEF Touch
<1> HIDE DEF fee, f1, f2
<1>5. p \in Purses /\ p.gas \in Nat /\ p.gas <= Top.gas
  BY <1>2, PurseFacts, UseGasFacts
<1> HIDE DEF p
<1>6. q1 \in Purses /\ q1.gas \in Nat /\ q1.gas <= p.gas
  BY <1>2, <1>5, UseGasFacts
<1> HIDE DEF q1
<1>7. q \in Purses /\ q.gas \in Nat /\ q.gas <= q1.gas
  BY <1>3, <1>6, UseGasFacts
<1> HIDE DEF q
<1>8. q.gas <= Top.gas
  BY <1>2, <1>5, <1>6, <1>7
<1>9. CASE Fail(Holding(Top, p))
  <2>1. Later(Holding(Top, p), Top, 0)
    BY <1>1, <1>2, <1>5, HoldingLater
  <2> QED BY <1>1, <1>2, <1>9, <2>1, FailInv
<1>10. CASE Settle(IF q.ok THEN f2 ELSE f1, q)
  <2> DEFINE f == IF q.ok THEN f2 ELSE f1
  <2>1. Later(f, Top, 0) /\ (q.ok => Paid(f))
    BY <1>3
  <2>2. Settle(f, q)
    BY <1>10
  <2> HIDE DEF f
  <2> QED BY <1>1, <1>7, <1>8, <2>1, <2>2, SettleInv
<1> QED BY <1>4, <1>9, <1>10

LEMMA PanicInv ==
  ASSUME GInv, status' = "Panicked", UNCHANGED <<fork, limit, frames, succ, unused, granted>>
  PROVE  GInv'
<1>1. TxQuota' = TxQuota
  BY DEF TxQuota
<1>2. Stacked' /\ Scalars'
  BY <1>1 DEF GInv, Stacked, Scalars
<1>3. UnusedWithinLimit'
  BY DEF UnusedWithinLimit
<1> QED BY <1>2, <1>3 DEF GInv

LEMMA LeaveInv ==
  ASSUME GInv, NEW c \in Charges, NEW end \in Ends, NEW err \in {Ok, Reverted},
         Leave(c, end, err)
  PROVE  GInv'
<1> DEFINE p1 == UseGas(Purse(Top.gas), c)
           fee == Fee(Top, end)
           p == UseGas(p1, fee)
           f1 == Grown(Top, end)
           f2 == Billed(Grown(Top, end), Fee(Top, end))
<1>1. status = "Running" /\ succ = Ok /\ UNCHANGED <<fork, limit, granted>>
  BY DEF Leave, Running
<1>2. Top.gas \in Nat /\ c \in Nat /\ granted \in Nat /\ Later(Top, Top, 0)
  BY <1>1, TopFacts, GasAssumption
<1>3. fee \in Nat /\ Later(f1, Top, 0) /\ Later(f2, Top, 0) /\ Paid(f2)
  BY <1>1, GrownLater
<1>4. Fail(Top) \/ Fail(Holding(f1, p)) \/ FinishCall(Holding(f2, p), err)
  BY DEF Leave
<1> HIDE DEF fee, f1, f2
<1>5. p1 \in Purses /\ p1.gas \in Nat /\ p1.gas <= Top.gas
  BY <1>2, PurseFacts, UseGasFacts
<1> HIDE DEF p1
<1>6. p \in Purses /\ p.gas \in Nat /\ p.gas <= p1.gas
  BY <1>3, <1>5, UseGasFacts
<1> HIDE DEF p
<1>7. p.gas <= Top.gas
  BY <1>2, <1>5, <1>6
<1>8. CASE Fail(Top)
  BY <1>1, <1>2, <1>8, FailInv
<1>9. CASE Fail(Holding(f1, p))
  <2>1. Later(Holding(f1, p), Top, 0)
    BY <1>1, <1>3, <1>6, <1>7, HoldingLater
  <2> QED BY <1>1, <1>2, <1>9, <2>1, FailInv
<1>10. CASE FinishCall(Holding(f2, p), err)
  <2>1. Holding(f2, p).kind = Top.kind /\ Holding(f2, p).gas = p.gas
    BY <1>3, <1>6, HoldingFacts DEF Later
  <2> QED BY <1>1, <1>6, <1>7, <1>10, <2>1, FinishCallInv
<1> QED BY <1>4, <1>8, <1>9, <1>10

LEMMA UnwindInv ==
  ASSUME GInv, Unwind
  PROVE  GInv'
<1>1. Top.gas \in Nat /\ succ \in {Ok, Failed}
  BY TopFacts DEF Unwind, GInv, Scalars
<1> QED BY <1>1, FinishCallInv DEF Unwind

-----------------------------------------------------------------------------
(* Creations and calls.                                                    *)

(* What is kept of `gas` when all but its part may be lent. *)
LEMMA PartFacts ==
  ASSUME NEW gas \in Nat
  PROVE  /\ gas - gas \div Retained \in Nat /\ gas - gas \div Retained <= gas
         /\ \A quota \in Nat : quota <= gas - gas \div Retained
              => (gas - quota) + quota = gas /\ gas - quota >= gas \div Retained
<1> DEFINE part == gas \div Retained
<1>1. part \in Nat /\ part <= gas
  BY GasAssumption, DivType
<1> HIDE DEF part
<1>2. /\ gas - part \in Nat /\ gas - part <= gas
      /\ \A quota \in Nat : quota <= gas - part
           => (gas - quota) + quota = gas /\ gas - quota >= part
  BY <1>1
<1> QED BY <1>2 DEF part

LEMMA CreateQuotaFacts ==
  ASSUME NEW gas \in Nat
  PROVE  /\ CreateQuota(gas) \in Nat /\ CreateQuota(gas) <= gas
         /\ PartKept(gas - CreateQuota(gas), CreateQuota(gas), fork)
BY PartFacts DEF CreateQuota, PartKept

LEMMA GasCallCommonFacts ==
  ASSUME NEW gas \in Nat, NEW request \in Requests \cup {NoU64}, fork \in Forks,
         GasCallCommon(gas, request) # NoU64
  PROVE  /\ GasCallCommon(gas, request) \in Nat
         /\ GasCallCommon(gas, request) <= gas
              => PartKept(gas - GasCallCommon(gas, request), GasCallCommon(gas, request), fork)
<1> DEFINE quota == GasCallCommon(gas, request)
<1>1. request # NoU64 => request \in Nat
  BY GasAssumption
<1>2. fork \in Nat
  BY GasAssumption
<1>3. CASE fork >= TangerineWhistle
  <2>1. quota \in Nat /\ quota <= gas - gas \div Retained
    BY <1>1, <1>3, PartFacts DEF GasCallCommon
  <2> HIDE DEF quota
  <2>2. (gas - quota) + quota = gas /\ gas - quota >= gas \div Retained
    BY <2>1, PartFacts
  <2>3. PartKept(gas - quota, quota, fork)
    BY <2>2 DEF PartKept
  <2> QED BY <2>1, <2>3 DEF quota
<1>4. CASE ~(fork >= TangerineWhistle)
  BY <1>1, <1>4 DEF GasCallCommon, PartKept
<1> QED BY <1>3, <1>4

LEMMA CreateFromInv ==
  ASSUME GInv, status = "Running", succ = Ok, UNCHANGED <<fork, limit, granted>>,
         NEW p \in Purses, p.gas <= Top.gas, NEW end \in Ends, NEW w \in Nat,
         CreateFrom(p, end, w)
  PROVE  GInv'
<1> DEFINE fee == Fee(Top, end)
           q1 == UseGas(p, fee)
           q == UseGas(q1, w)
           quota == CreateQuota(q.gas)
           f1 == Grown(Top, end)
           f2 == Billed(Grown(Top, end), Fee(Top, end))
           g == [f2 EXCEPT !.gas = q.gas - quota]
           h == Frame("Create", quota, 0, granted)
<1>1. Top.gas \in Nat /\ granted \in Nat /\ Later(Top, Top, 0) /\ p.gas \in Nat
  BY TopFacts DEF Purses
<1>2. fee \in Nat /\ Later(f1, Top, 0) /\ Later(f2, Top, 0) /\ Paid(f2)
  BY GrownLater
<1>3. \/ Fail(Holding(Top, p)) \/ Fail(Holding(f1, q)) \/ Fail(g)
      \/ frames' = Append(Replaced(frames, g), h) /\ UNCHANGED <<succ, status, unused>>
  BY DEF CreateFrom
<1> HIDE DEF fee, f1, f2
<1>4. q1 \in Purses /\ q1.gas \in Nat /\ q1.gas <= p.gas
  BY <1>1, <1>2, UseGasFacts
<1> HIDE DEF q1
<1>5. q \in Purses /\ q.gas \in Nat /\ q.gas <= q1.gas
  BY <1>4, UseGasFacts
<1> HIDE DEF q
<1>6. q.gas <= Top.gas
  BY <1>1, <1>4, <1>5
<1>7. /\ quota \in Nat /\ quota <= q.gas
      /\ PartKept(q.gas - quota, quota, fork)
  BY <1>5, CreateQuotaFacts
<1> HIDE DEF quota
<1>8. FrameOK(h) /\ Paid(h) /\ h.kind = "Create" /\ h.gas = quota + 0 /\ h.budget = quota + 0
      /\ h.lent = quota /\ h.base = granted
  <2>1. Fresh(h, "Create", quota, 0, granted)
    BY <1>1, <1>7, NewFrame
  <2> HIDE DEF h
  <2> QED BY <2>1 DEF Fresh
<1> HIDE DEF h
<1>9. Later(g, Top, 0) /\ Paid(g) /\ g.gas = q.gas - quota
  <2> DEFINE r == [gas |-> q.gas - quota]
  <2>1. r.gas \in Nat /\ r.gas <= Top.gas /\ r.gas = q.gas - quota
    BY <1>1, <1>5, <1>6, <1>7
  <2>2. Holding(f2, r) = g
    BY DEF Holding
  <2> HIDE DEF r, g
  <2> QED BY <1>2, <2>1, <2>2, HoldingLater, HoldingFacts DEF Later
<1> HIDE DEF g
<1>10. CASE Fail(Holding(Top, p))
  <2>1. Later(Holding(Top, p), Top, 0)
    BY <1>1, HoldingLater
  <2> QED BY <1>1, <1>10, <2>1, FailInv
<1>11. CASE Fail(Holding(f1, q))
  <2>1. Later(Holding(f1, q), Top, 0)
    BY <1>2, <1>5, <1>6, HoldingLater
  <2> QED BY <1>1, <1>11, <2>1, FailInv
<1>12. CASE Fail(g)
  BY <1>1, <1>9, <1>12, FailInv
<1>13. CASE frames' = Append(Replaced(frames, g), h) /\ UNCHANGED <<succ, status, unused>>
  <2>1. g.gas + h.lent <= Top.gas /\ PartKept(g.gas, h.lent, fork)
    BY <1>1, <1>5, <1>6, <1>7, <1>8, <1>9
  <2>2. /\ h.gas = h.lent + 0 /\ h.budget = h.lent + 0
        /\ granted' = granted + 0 /\ h.base = granted' /\ 0 \in Nat
    BY <1>1, <1>7, <1>8
  <2>3. frames' = Pushed(g, h)
    BY <1>13 DEF Pushed
  <2> QED BY <1>8, <1>9, <1>13, <2>1, <2>2, <2>3, PushInv
<1> QED BY <1>3, <1>10, <1>11, <1>12, <1>13

LEMMA CreateInv ==
  ASSUME GInv, NEW end \in Ends, Create(end) \/ \E w \in Charges : Create2(end, w)
  PROVE  GInv'
<1> DEFINE p == UseGas(Purse(Top.gas), CreateCost)
<1>1. status = "Running" /\ succ = Ok /\ UNCHANGED <<fork, limit, granted>>
  BY DEF Create, Create2, Running
<1>2. \E w \in Charges \cup {0} : CreateFrom(p, end, w)
  BY DEF Create, Create2
<1>3. p \in Purses /\ p.gas <= Top.gas
  <2>1. Top.gas \in Nat /\ CreateCost \in Nat
    BY <1>1, TopFacts, GasAssumption
  <2> QED BY <2>1, PurseFacts, UseGasFacts
<1>4. Charges \cup {0} \subseteq Nat
  BY GasAssumption
<1> HIDE DEF p
<1> QED BY <1>1, <1>2, <1>3, <1>4, CreateFromInv

LEMMA LendInv ==
  ASSUME GInv, status = "Running", succ = Ok, UNCHANGED <<fork, limit>>,
         NEW g, Later(g, Top, 0), Paid(g), NEW quota \in Nat, NEW stipend \in Nat,
         g.gas + quota <= Top.gas, PartKept(g.gas, quota, fork),
         granted' = granted + stipend,
         NEW kind, NEW zero, Lend(g, quota, stipend, kind, zero)
  PROVE  GInv'
<1> DEFINE h == Frame("Call", quota, stipend, granted + stipend)
           K == Replaced(frames, g)
<1>1. /\ Top.gas \in Nat /\ granted \in Nat /\ granted' \in Nat /\ granted <= granted'
      /\ FrameOK(g) /\ g.gas \in Nat
  BY TopFacts, FrameTypes DEF Later
<1>2. \/ Fail(g)
      \/ frames' = Append(K, h) /\ UNCHANGED <<succ, status, unused>>
      \/ \E err \in {Ok, Failed} : CallEnd(K, quota + stipend, err)
  BY DEF Lend
<1>3. FrameOK(h) /\ Paid(h) /\ h.kind = "Call" /\ h.gas = quota + stipend
      /\ h.budget = quota + stipend /\ h.lent = quota /\ h.base = granted + stipend
  <2>1. granted + stipend \in Nat
    BY <1>1
  <2>2. Fresh(h, "Call", quota, stipend, granted + stipend)
    BY <2>1, NewFrame
  <2> HIDE DEF h
  <2> QED BY <2>2 DEF Fresh
<1> HIDE DEF h
<1>4. CASE Fail(g)
  BY <1>1, <1>4, FailInv
<1>5. CASE frames' = Append(K, h) /\ UNCHANGED <<succ, status, unused>>
  <2>1. frames' = Pushed(g, h)
    BY <1>5 DEF Pushed
  <2> QED BY <1>3, <1>5, <2>1, PushInv
<1>6. ASSUME NEW err \in {Ok, Failed}, CallEnd(K, quota + stipend, err)
      PROVE  GInv'
  <2> DEFINE n == Len(frames)
             x == frames'[n]
  <2>1. /\ n \in Nat \ {0} /\ IsSeq(K) /\ Len(K) = n
        /\ \A i \in 1 .. n : K[i] = IF i = n THEN g ELSE frames[i]
    BY ReplacedFacts DEF GInv, Stacked
  <2>2. quota + stipend \in Nat /\ K[Len(K)] = g /\ Len(K) >= 1
    BY <2>1
  <2> HIDE DEF K
  <2>3. /\ succ' \in {Ok, Failed} /\ UNCHANGED <<status, unused>>
        /\ IsSeq(frames') /\ Len(frames') = n
        /\ \A i \in 1 .. n - 1 : frames'[i] = K[i]
        /\ Later(x, g, quota + stipend) /\ Paid(x)
    BY <1>1, <1>6, <2>1, <2>2, CallEndFacts
  <2>4. Kept(x)
    BY <2>1, <2>3 DEF Kept
  <2> HIDE DEF x
  <2>5. Later(x, Top, granted' - granted)
    <3>1. x.gas \in Nat /\ x.gas <= g.gas + (quota + stipend)
      BY <2>3, FrameTypes DEF Later
    <3>2. x.gas <= Top.gas + (granted' - granted)
      BY <1>1, <3>1
    <3> QED BY <2>3, <3>2 DEF Later
  <2> QED BY <1>1, <2>3, <2>4, <2>5, KeepInv
<1> QED BY <1>2, <1>4, <1>5, <1>6

LEMMA CallChargedFacts ==
  ASSUME NEW p \in Purses, NEW zero, NEW cold, NEW fresh, NEW fee \in Nat
  PROVE  LET q == CallCharged(p, zero, cold, fresh, fee) IN
         q \in Purses /\ q.gas \in Nat /\ q.gas <= p.gas
<1> DEFINE c1 == IF cold THEN ColdCost ELSE 0
           c2 == IF fresh THEN NewAccountCost ELSE 0
           c3 == IF ~zero THEN ValueCost ELSE 0
           p1 == UseGas(p, c1)
           p2 == UseGas(p1, c2)
           p3 == UseGas(p2, c3)
           p4 == UseGas(p3, fee)
<1>1. c1 \in Nat /\ c2 \in Nat /\ c3 \in Nat /\ p.gas \in Nat
  BY GasAssumption DEF Purses
<1>2. CallCharged(p, zero, cold, fresh, fee) = p4
  BY DEF CallCharged
<1> HIDE DEF c1, c2, c3
<1>3. p1 \in Purses /\ p1.gas \in Nat /\ p1.gas <= p.gas
  BY <1>1, UseGasFacts
<1> HIDE DEF p1
<1>4. p2 \in Purses /\ p2.gas \in Nat /\ p2.gas <= p1.gas
  BY <1>1, <1>3, UseGasFacts
<1> HIDE DEF p2
<1>5. p3 \in Purses /\ p3.gas \in Nat /\ p3.gas <= p2.gas
  BY <1>1, <1>4, UseGasFacts
<1> HIDE DEF p3
<1>6. p4 \in Purses /\ p4.gas \in Nat /\ p4.gas <= p3.gas
  BY <1>5, UseGasFacts
<1> HIDE DEF p4
<1> QED BY <1>1, <1>2, <1>3, <1>4, <1>5, <1>6

LEMMA BaseCostType ==
  ASSUME fork \in Forks
  PROVE  BaseCost \in Nat
BY GasAssumption DEF BaseCost

LEMMA CallInv ==
  ASSUME GInv, NEW kind, NEW zero, NEW request \in Requests \cup {NoU64}, NEW cold, NEW fresh,
         NEW end \in Ends, Call(kind, zero, request, cold, fresh, end)
  PROVE  GInv'
<1> DEFINE p == UseGas(Purse(Top.gas), BaseCost)
           fee == Fee(Top, end)
           q == CallCharged(p, zero, cold, fresh, fee)
           quota == GasCallCommon(q.gas, request)
           r == QuotaTaken(q, quota)
           stipend == StipendOf(kind, zero)
           f1 == Grown(Top, end)
           f2 == Billed(f1, fee)
<1>1. status = "Running" /\ succ = Ok /\ UNCHANGED <<fork, limit>>
  BY DEF Call, Running
<1>2. \/ Fail(Holding(Top, p)) /\ UNCHANGED granted
      \/ Fail(Holding(f1, q)) /\ UNCHANGED granted
      \/ quota # NoU64 /\ Fail(Holding(f1, r)) /\ UNCHANGED granted
      \/ /\ quota # NoU64 /\ r.ok /\ granted' = granted + stipend
         /\ Lend(Holding(f2, r), quota, stipend, kind, zero)
  BY DEF Call
<1>3. Top.gas \in Nat /\ granted \in Nat /\ fork \in Forks /\ Later(Top, Top, 0)
  BY <1>1, TopFacts
<1>4. fee \in Nat /\ Later(f1, Top, 0) /\ Later(f2, Top, 0) /\ Paid(f2)
  BY <1>1, GrownLater
<1>5. stipend \in Nat
  BY GasAssumption DEF StipendOf
<1> HIDE DEF fee, f1, f2, stipend
<1>6. p \in Purses /\ p.gas \in Nat /\ p.gas <= Top.gas
  BY <1>3, BaseCostType, PurseFacts, UseGasFacts
<1> HIDE DEF p
<1>7. q \in Purses /\ q.gas \in Nat /\ q.gas <= Top.gas
  <2>1. q \in Purses /\ q.gas \in Nat /\ q.gas <= p.gas
    BY <1>4, <1>6, CallChargedFacts
  <2> QED BY <1>3, <1>6, <2>1
<1> HIDE DEF q
<1>8. quota # NoU64 => quota \in Nat /\ (quota <= q.gas => PartKept(q.gas - quota, quota, fork))
  BY <1>3, <1>7, GasCallCommonFacts
<1> HIDE DEF quota
<1>9. quota # NoU64 => /\ r \in Purses /\ r.gas \in Nat /\ r.gas <= q.gas
                       /\ r.ok => r.gas = q.gas - quota
  BY <1>7, <1>8, UseGasFacts DEF QuotaTaken
<1> HIDE DEF r
<1>10. CASE Fail(Holding(Top, p)) /\ UNCHANGED granted
  <2>1. Later(Holding(Top, p), Top, 0)
    BY <1>1, <1>3, <1>6, HoldingLater
  <2> QED BY <1>1, <1>3, <1>10, <2>1, FailInv
<1>11. CASE Fail(Holding(f1, q)) /\ UNCHANGED granted
  <2>1. Later(Holding(f1, q), Top, 0)
    BY <1>1, <1>4, <1>7, HoldingLater
  <2> QED BY <1>1, <1>3, <1>11, <2>1, FailInv
<1>12. CASE quota # NoU64 /\ Fail(Holding(f1, r)) /\ UNCHANGED granted
  <2>1. r.gas \in Nat /\ r.gas <= Top.gas
    <3>1. r.gas \in Nat /\ r.gas <= q.gas
      BY <1>9, <1>12, Zenon
    <3> QED BY <1>3, <1>7, <3>1
  <2>2. Later(Holding(f1, r), Top, 0)
    BY <1>1, <1>4, <2>1, HoldingLater
  <2> QED BY <1>1, <1>3, <1>12, <2>2, FailInv
<1>13. CASE /\ quota # NoU64 /\ r.ok /\ granted' = granted + stipend
            /\ Lend(Holding(f2, r), quota, stipend, kind, zero)
  <2> DEFINE g == Holding(f2, r)
  <2>1. /\ quota \in Nat /\ r.gas \in Nat /\ r.gas <= q.gas /\ r.gas = q.gas - quota
    BY <1>8, <1>9, <1>13, Zenon
  <2>2. r.gas <= Top.gas /\ r.gas + quota <= Top.gas /\ quota <= q.gas
    BY <1>3, <1>7, <2>1
  <2>3. PartKept(r.gas, quota, fork)
    BY <1>8, <1>13, <2>1, <2>2, Zenon
  <2>4. Later(g, Top, 0) /\ Paid(g) /\ g.gas = r.gas
    <3>1. FrameOK(f2)
      BY <1>4 DEF Later
    <3> QED BY <1>1, <1>4, <2>1, <2>2, <3>1, HoldingLater, HoldingFacts
  <2>5. Lend(g, quota, stipend, kind, zero) /\ granted' = granted + stipend
    BY <1>13
  <2> HIDE DEF g
  <2> QED BY <1>1, <1>5, <2>1, <2>2, <2>3, <2>4, <2>5, LendInv
<1> QED BY <1>2, <1>10, <1>11, <1>12, <1>13

LEMMA CallProtectedInv ==
  ASSUME GInv, NEW end \in Ends, CallProtected(end)
  PROVE  GInv'
<1> DEFINE p == UseGas(Purse(Top.gas), BaseCost)
<1>1. status = "Running" /\ UNCHANGED <<fork, limit, granted>> /\ Fail(Holding(Grown(Top, end), p))
  BY DEF CallProtected, Running
<1>2. Top.gas \in Nat /\ granted \in Nat /\ fork \in Forks /\ Later(Grown(Top, end), Top, 0)
  BY <1>1, TopFacts, GrownLater
<1>3. p \in Purses /\ p.gas \in Nat /\ p.gas <= Top.gas
  BY <1>2, BaseCostType, PurseFacts, UseGasFacts
<1> HIDE DEF p
<1>4. Later(Holding(Grown(Top, end), p), Top, 0)
  BY <1>1, <1>2, <1>3, HoldingLater
<1> QED BY <1>1, <1>2, <1>4, FailInv

-----------------------------------------------------------------------------
(* The whole transaction.                                                  *)

LEMMA RunsInv ==
  ASSUME GInv, status = "Idle", status' = "Running",
         UNCHANGED <<fork, limit, succ, unused, granted>>,
         NEW kind \in {"TxCall", "TxCreate"}, NEW h, Fresh(h, kind, TxQuota, 0, 0),
         frames' = Append(frames, h)
  PROVE  GInv'
<1>1. IsSeq(frames) /\ Len(frames) = 1 /\ succ = Ok /\ FrameOK(frames[1]) /\ Paid(frames[1])
  BY DEF GInv, Stacked
<1>2. granted \in Nat /\ TxQuota \in Nat /\ TxQuota' = TxQuota
  BY TxQuotaFacts DEF GInv, Scalars, TxQuota
<1>3. /\ FrameOK(h) /\ Paid(h) /\ h.kind = kind /\ h.budget = TxQuota + 0
      /\ h.gas = TxQuota + 0 /\ h.base = 0
  BY DEF Fresh
<1>4. IsSeq(frames') /\ Len(frames') = 2 /\ frames'[1] = frames[1] /\ frames'[2] = h
  <2>1. /\ IsSeq(Append(frames, h)) /\ Len(Append(frames, h)) = Len(frames) + 1
        /\ \A i \in 1 .. Len(frames) : Append(frames, h)[i] = frames[i]
        /\ Append(frames, h)[Len(frames) + 1] = h
    BY <1>1, AppendFacts
  <2> QED BY <1>1, <2>1
<1>5. Within(frames'[2], granted')
  BY <1>2, <1>3, <1>4 DEF Within
<1>6. Stacked'
  BY <1>2, <1>3, <1>4 DEF Stacked
<1>7. Scalars' /\ UnusedWithinLimit'
  BY DEF GInv, Scalars, UnusedWithinLimit
<1>8. \A i \in 1 .. 2 : FrameOK(frames'[i]) /\ Paid(frames'[i])
  BY <1>1, <1>3, <1>4
<1>9. \A i \in 2 .. Len(frames') - 1 : FALSE
  BY <1>4
<1> QED BY <1>4, <1>5, <1>6, <1>7, <1>8, <1>9 DEF GInv

LEMMA StartInv ==
  ASSUME GInv, Start
  PROVE  GInv'
<1>1. status = "Idle" /\ UNCHANGED <<fork, limit, granted>>
  BY DEF Start
<1>2. IsSeq(frames) /\ Len(frames) = 1 /\ succ = Ok /\ FrameOK(frames[1]) /\ Paid(frames[1])
  BY <1>1 DEF GInv, Stacked
<1>3. granted \in Nat /\ limit \in Limits
  BY DEF GInv, Scalars
<1>4. TxQuota \in Nat /\ (limit >= TxGas => TxQuota = limit - TxGas) /\ TxQuota' = TxQuota
  BY <1>1, <1>3, TxQuotaFacts DEF TxQuota
<1> HIDE DEF TxQuota
<1>5. CASE status' = "Panicked" /\ UNCHANGED <<frames, succ, unused>>
  BY <1>1, <1>5, PanicInv
<1>6. ASSUME NEW kind \in {"TxCall", "TxCreate"}, status' = "Running",
             UNCHANGED <<succ, unused>>, frames' = Append(frames, Frame(kind, TxQuota, 0, 0))
      PROVE  GInv'
  <2>1. Fresh(Frame(kind, TxQuota, 0, 0), kind, TxQuota, 0, 0)
    BY <1>4, NewFrame
  <2> QED BY <1>1, <1>6, <2>1, RunsInv
<1>7. ASSUME NEW ret \in {Ok, Failed}, Finished(ret, TxQuota), UNCHANGED frames
      PROVE  GInv'
  <2>1. status' \in {"Succeeded", "Reverted"} /\ unused' = TxQuota /\ succ' = Ok
    BY <1>7 DEF Finished
  <2>2. UnusedWithinLimit'
    <3>1. limit >= TxGas => unused' <= limit - TxGas + granted
      <4>1. TxGas \in Nat /\ limit \in Nat
        BY <1>3, GasAssumption
      <4> QED BY <1>3, <1>4, <2>1, <4>1
    <3> QED BY <1>1, <3>1 DEF UnusedWithinLimit
  <2>3. Stacked' /\ Scalars'
    BY <1>1, <1>2, <1>4, <1>7, <2>1 DEF GInv, Stacked, Scalars
  <2>4. Len(frames') = 1 /\ FrameOK(frames'[1]) /\ Paid(frames'[1])
    BY <1>2, <1>7
  <2>5. \A i \in 2 .. Len(frames') - 1 : FALSE
    BY <2>4
  <2>6. \A i \in 1 .. Len(frames') : i = 1
    BY <2>4
  <2> QED BY <2>2, <2>3, <2>4, <2>5, <2>6 DEF GInv
<1> QED BY <1>5, <1>6, <1>7 DEF Start

LEMMA GasInit == Init => GInv
<1> SUFFICES ASSUME Init PROVE GInv
  OBVIOUS
<1> DEFINE h == Frame("Dummy", limit, 0, 0)
<1>1. limit \in Nat /\ fork \in Forks /\ limit \in Limits
  BY GasAssumption DEF Init
<1>2. FrameOK(h) /\ Paid(h)
  <2>1. Fresh(h, "Dummy", limit, 0, 0)
    BY <1>1, NewFrame
  <2> QED BY <2>1 DEF Fresh
<1>3. frames = <<h>>
  BY DEF Init
<1> HIDE DEF h
<1>4. frames \in Seq({h}) /\ Len(frames) = 1 /\ frames[1] = h /\ DOMAIN frames = {1}
  BY <1>3
<1>5. IsSeq(frames)
  <2>1. {frames[i] : i \in DOMAIN frames} = {h}
    BY <1>4
  <2> QED BY <1>4, <2>1 DEF IsSeq
<1>6. Stacked /\ Scalars /\ UnusedWithinLimit
  BY <1>1, <1>4, <1>5 DEF Init, Stacked, Scalars, UnusedWithinLimit
<1> QED BY <1>2, <1>4, <1>6 DEF GInv

LEMMA GasNext == GInv /\ [Next]_vars => GInv'
<1> SUFFICES ASSUME GInv, [Next]_vars PROVE GInv'
  OBVIOUS
<1>1. CASE Start
  BY <1>1, StartInv
<1>2. CASE Error
  BY <1>2, ErrorInv
<1>3. CASE TouchPanics
  BY <1>3, PanicInv DEF TouchPanics
<1>4. CASE Unwind
  BY <1>4, UnwindInv
<1>5. CASE \E c \in Charges : Charge(c) \/ SStore(c)
  BY <1>5, ChargeInv, SStoreInv
<1>6. CASE \E end \in Ends, c, w \in Charges : Touch(c, end, w)
  BY <1>6, TouchInv
<1>7. CASE \E end \in Ends, c \in Charges, err \in {Ok, Reverted} : Leave(c, end, err)
  BY <1>7, LeaveInv
<1>8. CASE \E end \in Ends : CallProtected(end)
  BY <1>8, CallProtectedInv
<1>9. CASE \E end \in Ends : Create(end)
  BY <1>9, CreateInv
<1>10. CASE \E end \in Ends, w \in Charges : Create2(end, w)
  BY <1>10, CreateInv
<1>11. CASE \E kind \in Kinds, zero, cold, fresh \in BOOLEAN, request \in Requests \cup {NoU64},
               end \in Ends : Call(kind, zero, request, cold, fresh, end)
  BY <1>11, CallInv
<1>12. CASE UNCHANGED vars
  <2>1. TxQuota' = TxQuota
    BY <1>12 DEF vars, TxQuota
  <2>2. Stacked' /\ Scalars' /\ UnusedWithinLimit'
    BY <1>12, <2>1 DEF vars, GInv, Stacked, Scalars, UnusedWithinLimit
  <2> QED BY <1>12, <2>2 DEF vars, GInv
<1> QED BY <1>1, <1>2, <1>3, <1>4, <1>5, <1>6, <1>7, <1>8, <1>9, <1>10, <1>11, <1>12 DEF Next

-----------------------------------------------------------------------------
(* Theorems, for every set of forks, limits, costs and sizes.              *)

LEMMA GasInvariant == Spec => []GInv
<1>1. Init => GInv
  BY GasInit
<1>2. GInv /\ [Next]_vars => GInv'
  BY GasNext
<1> QED BY <1>1, <1>2, PTL DEF Spec

(* No amount of gas, size of memory or fee of exec.rs ever goes below      *)
(* zero, and the inner loop only unwinds errors.                           *)
THEOREM GasTypes == Spec => []TypeOK
<1>1. GInv => TypeOK
  <2> SUFFICES ASSUME GInv PROVE TypeOK
    OBVIOUS
  <2>1. Len(frames) >= 1 /\ DOMAIN frames = 1 .. Len(frames)
    BY IsSeqFacts DEF GInv, Stacked
  <2>2. \A i \in 1 .. Len(frames) :
          frames[i].gas \in Nat /\ frames[i].mem.len \in Nat /\ frames[i].mem.lastGas \in Nat
    BY FrameTypes DEF GInv
  <2> QED BY <2>1, <2>2 DEF GInv, Scalars, TypeOK
<1> QED BY <1>1, GasInvariant, PTL

(* Whatever a call does and however it ends, at any depth, what comes back *)
(* to the frame that made it is never more than it lent and the stipends   *)
(* granted meanwhile.                                                      *)
THEOREM NothingFromNowhere == Spec => []GasWithinBudget
<1>1. GInv => GasWithinBudget
  <2> SUFFICES ASSUME GInv PROVE GasWithinBudget
    OBVIOUS
  <2>1. Len(frames) \in Nat
    BY IsSeqFacts DEF GInv, Stacked
  <2>2. /\ Len(frames) >= 2 => Within(frames[Len(frames)], granted)
        /\ \A i \in 2 .. Len(frames) - 1 : Funded(frames[i], frames[i + 1], fork)
    BY DEF GInv
  <2> QED BY <2>1, <2>2 DEF Within, Funded, GasWithinBudget
<1> QED BY <1>1, GasInvariant, PTL

(* So what a transaction reports as unused is within its limit and the     *)
(* stipends it was given.                                                  *)
THEOREM UnusedGas == Spec => []UnusedWithinLimit
<1>1. GInv => UnusedWithinLimit
  BY DEF GInv
<1> QED BY <1>1, GasInvariant, PTL

(* The rule of EIP-150 holds for every frame that waits, at any depth.     *)
THEOREM PartIsKept == Spec => []KeepsItsPart
<1>1. GInv => KeepsItsPart
  BY DEF GInv, Funded, PartKept, KeepsItsPart
<1> QED BY <1>1, GasInvariant, PTL

(* The fees for growing memory step by step add up to the price of its     *)
(* final size, for every sequence of accesses.                             *)
THEOREM MemoryIsPaid == Spec => []MemoryPaid
<1>1. GInv => MemoryPaid
  <2> SUFFICES ASSUME GInv PROVE MemoryPaid
    OBVIOUS
  <2>1. DOMAIN frames = 1 .. Len(frames)
    BY IsSeqFacts DEF GInv, Stacked
  <2>2. ASSUME NEW i \in 1 .. Len(frames), i < Len(frames) \/ succ = Ok
        PROVE  frames[i].paid + frames[i].gratis = MemGas(frames[i].mem.len \div WordBytes)
    <3>1. MemOK(frames[i].mem) /\ Paid(frames[i])
      BY <2>2, FrameTypes DEF GInv
    <3> QED BY <3>1 DEF Paid, MemOK
  <2> QED BY <2>1, <2>2 DEF MemoryPaid
<1> QED BY <1>1, GasInvariant, PTL
=============================================================================
