--------------------------- MODULE TxWorldProofs ----------------------------
(***************************************************************************)
(* Proofs about what transactions do to the world state.                   *)
(***************************************************************************)
EXTENDS TxExecProofs, FiniteSetTheorems

-----------------------------------------------------------------------------
(* The operations on world states.                                         *)

(* A world state in which accounts that do not exist have nothing. *)
Good(w) == w \in Worlds /\ \A a \in Addr \ w.exist : IsBlank(w, a)

LEMMA WorldTypes ==
  ASSUME NEW w \in Worlds
  PROVE  /\ w.balance \in [Addr -> Nat] /\ w.nonce \in [Addr -> 0 .. MaxNonce]
         /\ w.code \in [Addr -> BOOLEAN] /\ w.slot \in [Addr -> Nat]
         /\ w.exist \subseteq Addr /\ w.logs \in Nat
BY DEF Worlds

LEMMA SetBalanceGood ==
  ASSUME NEW w, Good(w), NEW a \in Addr, NEW v \in Nat
  PROVE  Good(SetBalance(w, a, v))
BY DEF Good, Worlds, SetBalance, IsBlank, IsEmpty

LEMMA SetNonceGood ==
  ASSUME NEW w, Good(w), NEW a \in Addr, NEW v \in 0 .. MaxNonce
  PROVE  Good(SetNonce(w, a, v))
BY DEF Good, Worlds, SetNonce, IsBlank, IsEmpty

LEMMA SetCodeGood ==
  ASSUME NEW w, Good(w), NEW a \in Addr, NEW v \in BOOLEAN
  PROVE  Good(SetCode(w, a, v))
BY DEF Good, Worlds, SetCode, IsBlank, IsEmpty

LEMMA SetStateGood ==
  ASSUME NEW w, Good(w), NEW a \in Addr, NEW v \in Nat
  PROVE  Good(SetState(w, a, v))
BY DEF Good, Worlds, SetState, IsBlank, IsEmpty

LEMMA AddLogGood ==
  ASSUME NEW w, Good(w)
  PROVE  Good(AddLog(w))
BY DEF Good, Worlds, AddLog, IsBlank, IsEmpty

LEMMA CreateAccountGood ==
  ASSUME NEW w, Good(w), NEW a \in Addr
  PROVE  /\ Good(CreateAccount(w, a))
         /\ CreateAccount(w, a).balance = w.balance
<1>1. 0 \in 0 .. MaxNonce
  BY TxAssumption
<1> QED BY <1>1 DEF Good, Worlds, CreateAccount, IsBlank, IsEmpty

LEMMA DeleteAccountsGood ==
  ASSUME NEW w, Good(w), NEW S
  PROVE  Good(DeleteAccounts(w, S))
<1> DEFINE d == DeleteAccounts(w, S)
<1>1. 0 \in 0 .. MaxNonce /\ 0 \in Nat
  BY TxAssumption
<1>2. /\ w.balance \in [Addr -> Nat] /\ w.nonce \in [Addr -> 0 .. MaxNonce]
      /\ w.code \in [Addr -> BOOLEAN] /\ w.slot \in [Addr -> Nat]
      /\ w.exist \subseteq Addr /\ w.logs \in Nat
  BY WorldTypes DEF Good
<1>3. /\ d.balance \in [Addr -> Nat] /\ d.nonce \in [Addr -> 0 .. MaxNonce]
      /\ d.code \in [Addr -> BOOLEAN] /\ d.slot \in [Addr -> Nat]
      /\ d.exist \subseteq Addr /\ d.logs \in Nat
  BY <1>1, <1>2 DEF DeleteAccounts
<1>4. d \in Worlds
  BY <1>3 DEF DeleteAccounts, Worlds
<1>5. ASSUME NEW a \in Addr \ d.exist PROVE IsBlank(d, a)
  <2>1. a \in S \/ a \in Addr \ w.exist
    BY <1>5 DEF DeleteAccounts
  <2>2. a \in S \/ IsBlank(w, a)
    BY <2>1 DEF Good
  <2>3. /\ d.balance[a] = IF a \in S THEN 0 ELSE w.balance[a]
        /\ d.nonce[a] = IF a \in S THEN 0 ELSE w.nonce[a]
        /\ d.code[a] = (a \notin S /\ w.code[a])
        /\ d.slot[a] = IF a \in S THEN 0 ELSE w.slot[a]
    BY DEF DeleteAccounts
  <2> HIDE DEF d
  <2> QED BY <2>2, <2>3 DEF IsBlank, IsEmpty
<1> QED BY <1>4, <1>5 DEF Good

(* A transfer the sender can afford. *)
LEMMA TransferGood ==
  ASSUME NEW w, Good(w), NEW from \in Addr, NEW to \in Addr, NEW v \in Nat,
         ~(w.balance[from] < v)
  PROVE  Good(Transfer(w, from, to, v))
<1> DEFINE rest == w.balance[from] - v
           paid == SetBalance(w, from, rest)
           sum == paid.balance[to] + v
<1>1. w.balance[from] \in Nat
  BY WorldTypes DEF Good
<1>2. rest \in Nat
  BY <1>1
<1> HIDE DEF rest
<1>3. Good(paid)
  BY <1>2, SetBalanceGood
<1>4. Transfer(w, from, to, v) = SetBalance(paid, to, sum)
  BY DEF Transfer, rest
<1> HIDE DEF paid
<1>5. sum \in Nat
  BY <1>3, WorldTypes DEF Good
<1> HIDE DEF sum
<1> QED BY <1>3, <1>4, <1>5, SetBalanceGood

-----------------------------------------------------------------------------
(* What cannot be observed.                                                *)

(* A new account where there was none. *)
LEMMA CreateAccountSilent ==
  ASSUME NEW w, Good(w), NEW a \in Addr \ w.exist
  PROVE  Observable(CreateAccount(w, a)) = Observable(w)
<1> DEFINE c == CreateAccount(w, a)
<1>1. w.nonce[a] = 0 /\ ~w.code[a] /\ w.slot[a] = 0
  BY DEF Good, IsBlank, IsEmpty
<1>2. /\ w.nonce \in [Addr -> 0 .. MaxNonce]
      /\ w.code \in [Addr -> BOOLEAN]
      /\ w.slot \in [Addr -> Nat]
  BY WorldTypes DEF Good
<1>3. /\ c.balance = w.balance /\ c.logs = w.logs
      /\ c.nonce = [w.nonce EXCEPT ![a] = 0]
      /\ c.code = [w.code EXCEPT ![a] = FALSE]
      /\ c.slot = [w.slot EXCEPT ![a] = 0]
  BY DEF CreateAccount, Good, Worlds
<1>4. w.code[a] = FALSE
  BY <1>1, <1>2
<1>5. /\ [w.nonce EXCEPT ![a] = 0] = w.nonce
      /\ [w.slot EXCEPT ![a] = 0] = w.slot
  BY <1>1, <1>2
<1>6. [w.code EXCEPT ![a] = FALSE] = w.code
  BY <1>2, <1>4
<1> QED BY <1>3, <1>5, <1>6 DEF Observable

(* A transfer of nothing. *)
LEMMA TransferSilent ==
  ASSUME NEW w, Good(w), NEW from \in Addr, NEW to \in Addr
  PROVE  Observable(Transfer(w, from, to, 0)) = Observable(w)
<1>1. ASSUME NEW x, Good(x), NEW a \in Addr
      PROVE  LET y == SetBalance(x, a, x.balance[a]) IN
             y.balance = x.balance /\ Observable(y) = Observable(x)
  <2>1. x.balance \in [Addr -> Nat]
    BY <1>1, WorldTypes DEF Good
  <2>2. [x.balance EXCEPT ![a] = x.balance[a]] = x.balance
    BY <2>1
  <2>3. LET y == SetBalance(x, a, x.balance[a]) IN
        /\ y.balance = [x.balance EXCEPT ![a] = x.balance[a]]
        /\ y.nonce = x.nonce /\ y.code = x.code /\ y.slot = x.slot /\ y.logs = x.logs
    BY <1>1 DEF SetBalance, Good, Worlds
  <2> QED BY <2>2, <2>3 DEF Observable
<1> DEFINE paid == SetBalance(w, from, w.balance[from])
<1>2. w.balance[from] \in Nat /\ w.balance[from] - 0 = w.balance[from]
  BY WorldTypes DEF Good
<1>3. Good(paid) /\ paid.balance = w.balance /\ Observable(paid) = Observable(w)
  BY <1>1, <1>2, SetBalanceGood
<1>4. Transfer(w, from, to, 0) = SetBalance(paid, to, paid.balance[to] + 0)
  BY <1>2 DEF Transfer
<1> HIDE DEF paid
<1>5. paid.balance[to] + 0 = paid.balance[to]
  BY <1>3, WorldTypes DEF Good
<1> QED BY <1>1, <1>3, <1>4, <1>5

-----------------------------------------------------------------------------
(* The inductive invariant, on top of TInv.                                *)

FrameOK(f) ==
  /\ {"kind", "callee", "pc", "readOnly", "snapshot", "entry"} \subseteq DOMAIN f
  /\ f.kind \in {"TxCall", "TxCreate", "Create", "Call"}
  /\ f.callee \in Addr /\ f.pc \in Nat /\ f.readOnly \in BOOLEAN
  /\ Good(f.entry)
  /\ f.snapshot = f.entry \/ (f.snapshot = NoSnapshot /\ f.readOnly)
  /\ f.readOnly => f.kind = "Call"

Accumulators ==
  /\ refund \in Nat /\ adv \in Nat
  /\ warm \subseteq Addr /\ destroyed \subseteq Addr /\ dirty \subseteq Addr
  /\ status \in {"Idle", "Running", "Succeeded", "Reverted", "Panicked", "Crashed"}
  /\ succ \in {Ok, Failed}

(* What is read-only stays so further up, and nothing has been written     *)
(* since it was entered.                                                   *)
Static ==
  /\ \A i, j \in 2 .. Len(frames) : i < j /\ frames[i].readOnly => frames[j].readOnly
  /\ \A i \in 2 .. Len(frames) :
       frames[i].readOnly => Observable(frames[i].entry) = Observable(world)

(* What the first transaction goes back to. *)
Before == {World0, Raised(World0)}
FirstTx ==
  /\ txs \in Nat
  /\ txs = 0 => status = "Idle" /\ world = World0
  /\ status = "Running" /\ txs = 1 => frames[2].snapshot \in Before
  /\ status = "Reverted" /\ txs = 1 => world \in Before

WInv ==
  /\ TInv /\ Good(world) /\ Accumulators
  /\ frames[1] = Dummy
  /\ \A i \in 2 .. Len(frames) : FrameOK(frames[i])
  /\ Static /\ FirstTx

(* A step of a static call changes nothing that can be observed. *)
Quiet == Top.readOnly => Observable(world') = Observable(world)

(* g is f with another program counter. *)
Same(g, f) ==
  /\ DOMAIN g = DOMAIN f /\ g.pc \in Nat
  /\ g.kind = f.kind /\ g.callee = f.callee /\ g.readOnly = f.readOnly
  /\ g.snapshot = f.snapshot /\ g.entry = f.entry

SameStack(stk, old) ==
  /\ IsSeq(stk) /\ Len(stk) = Len(old) /\ stk[1] = old[1]
  /\ \A i \in 2 .. Len(old) : Same(stk[i], old[i])

LEMMA SameOK ==
  ASSUME NEW f, FrameOK(f), NEW g, Same(g, f)
  PROVE  FrameOK(g)
BY DEF FrameOK, Same

LEMMA SameItself ==
  ASSUME NEW stk, IsSeq(stk), \A i \in 2 .. Len(stk) : FrameOK(stk[i])
  PROVE  SameStack(stk, stk)
BY DEF SameStack, Same, FrameOK

LEMMA PcSame ==
  ASSUME NEW stk, IsSeq(stk), Len(stk) >= 2, \A i \in 2 .. Len(stk) : FrameOK(stk[i]),
         NEW n \in Nat
  PROVE  SameStack([stk EXCEPT ![Len(stk)].pc = n], stk)
<1> DEFINE i == Len(stk)
           f == [stk[i] EXCEPT !.pc = n]
           K == [stk EXCEPT ![i] = f]
<1>1. DOMAIN stk = 1 .. i /\ i \in DOMAIN stk /\ i \in Nat
  BY IsSeqFacts
<1>2. FrameOK(stk[i])
  BY <1>1
<1>3. Same(f, stk[i])
  BY <1>2 DEF Same, FrameOK
<1> HIDE DEF f
<1>4. /\ IsSeq(K) /\ Len(K) = i
      /\ \A r \in DOMAIN stk : K[r] = IF r = i THEN f ELSE stk[r]
  BY <1>1, IsSeqUpdate
<1> HIDE DEF K
<1>5. ASSUME NEW r \in 2 .. i PROVE Same(K[r], stk[r])
  <2>1. CASE r = i
    BY <1>1, <1>3, <1>4, <2>1
  <2>2. CASE r # i
    <3>1. r \in DOMAIN stk
      BY <1>1
    <3>2. K[r] = stk[r]
      BY <1>4, <2>2, <3>1
    <3> QED BY <3>2 DEF Same, FrameOK
  <2> QED BY <2>1, <2>2
<1>6. K[1] = stk[1]
  BY <1>1, <1>4
<1>7. SameStack(K, stk)
  BY <1>4, <1>5, <1>6 DEF SameStack
<1> QED BY <1>7 DEF K, f

LEMMA AdvanceSame ==
  ASSUME NEW stk, IsSeq(stk), Len(stk) >= 2, \A i \in 2 .. Len(stk) : FrameOK(stk[i]),
         NEW n \in Nat
  PROVE  SameStack(Advance(stk, n), stk)
<1> DEFINE m == stk[Len(stk)].pc + n
<1>1. m \in Nat
  <2>1. Len(stk) \in 2 .. Len(stk)
    BY IsSeqFacts
  <2> QED BY <2>1 DEF FrameOK
<1>2. Advance(stk, n) = [stk EXCEPT ![Len(stk)].pc = m]
  BY DEF Advance
<1> HIDE DEF m
<1> QED BY <1>1, <1>2, PcSame

LEMMA TopOK ==
  ASSUME WInv, status = "Running"
  PROVE  /\ Len(frames) \in Nat /\ Len(frames) >= 2 /\ FrameOK(Top) /\ IsSeq(frames)
         /\ Top.callee \in Addr
<1>1. Len(frames) \in Nat /\ Len(frames) >= 2 /\ IsSeq(frames)
  BY LenType DEF WInv, TInv, StackDiscipline, Shaped
<1>2. FrameOK(Top)
  BY <1>1 DEF WInv, Top
<1> QED BY <1>1, <1>2 DEF FrameOK

-----------------------------------------------------------------------------
(* The things that happen to the stack.                                    *)

LEMMA KeepWorld ==
  ASSUME WInv, TInv', status = "Running", txs' = txs,
         status' \in {"Running", "Panicked", "Crashed"},
         SameStack(frames', frames), Good(world'), Accumulators', Quiet
  PROVE  WInv'
<1> DEFINE n == Len(frames)
<1>1. n \in Nat /\ n >= 2
  BY TopOK
<1>2. Len(frames') = n /\ frames'[1] = frames[1] /\ \A i \in 2 .. n : Same(frames'[i], frames[i])
  BY DEF SameStack
<1>3. \A i \in 2 .. n : FrameOK(frames[i])
  BY DEF WInv
<1>4. \A i \in 2 .. n : FrameOK(frames'[i])
  BY <1>2, <1>3, SameOK
<1>5. Static'
  <2>1. ASSUME NEW i \in 2 .. n, frames[i].readOnly
        PROVE  Top.readOnly /\ Observable(frames[i].entry) = Observable(world)
    <3>1. n \in 2 .. n /\ Top = frames[n] /\ (i = n \/ i < n)
      BY <1>1 DEF Top
    <3> QED BY <2>1, <3>1 DEF WInv, Static
  <2>2. ASSUME NEW i \in 2 .. n, frames'[i].readOnly
        PROVE  Observable(frames'[i].entry) = Observable(world')
    <3>1. frames[i].readOnly /\ frames'[i].entry = frames[i].entry
      BY <1>2, <2>2 DEF Same
    <3> QED BY <2>1, <3>1 DEF Quiet
  <2>3. ASSUME NEW i \in 2 .. n, NEW j \in 2 .. n, i < j, frames'[i].readOnly
        PROVE  frames'[j].readOnly
    <3>1. frames[i].readOnly /\ frames'[j].readOnly = frames[j].readOnly
      BY <1>2, <2>3 DEF Same
    <3>2. frames[j].readOnly
      BY <2>3, <3>1 DEF WInv, Static
    <3> QED BY <3>1, <3>2
  <2> QED BY <1>2, <2>2, <2>3 DEF Static
<1>6. FirstTx'
  <2>1. txs # 0 /\ txs \in Nat /\ (txs = 1 => frames[2].snapshot \in Before)
    BY DEF WInv, FirstTx
  <2>2. frames'[2].snapshot = frames[2].snapshot
    BY <1>1, <1>2 DEF Same
  <2> QED BY <2>1, <2>2 DEF FirstTx, Before
<1>7. frames'[1] = Dummy
  BY <1>2 DEF WInv
<1> QED BY <1>2, <1>4, <1>5, <1>6, <1>7 DEF WInv, Dummy

(* A nested frame is pushed. *)
LEMMA PushWorld ==
  ASSUME WInv, TInv', status = "Running", status' = "Running", txs' = txs,
         NEW f, FrameOK(f), f.entry = world, Top.readOnly => f.kind = "Call",
         frames' = Pushed(f), Good(world'), Accumulators',
         f.readOnly \/ Top.readOnly => Observable(world') = Observable(world)
  PROVE  WInv'
<1> DEFINE n == Len(frames)
           g == [f EXCEPT !.readOnly = @ \/ Top.readOnly]
<1>1. n \in Nat /\ n >= 2 /\ IsSeq(frames) /\ FrameOK(Top) /\ Top = frames[n]
  BY TopOK DEF Top
<1>2. f.readOnly \in BOOLEAN /\ Top.readOnly \in BOOLEAN
  BY <1>1 DEF FrameOK
<1>3. /\ g.readOnly = (f.readOnly \/ Top.readOnly) /\ DOMAIN g = DOMAIN f
      /\ g.kind = f.kind /\ g.callee = f.callee /\ g.pc = f.pc
      /\ g.entry = f.entry /\ g.snapshot = f.snapshot
  BY DEF FrameOK
<1>4. frames' = Append(frames, g)
  BY DEF Pushed
<1> HIDE DEF g
<1>5. FrameOK(g)
  BY <1>2, <1>3 DEF FrameOK
<1>6. /\ Len(frames') = n + 1 /\ frames'[n + 1] = g
      /\ \A i \in 1 .. n : frames'[i] = frames[i]
  <2>1. DOMAIN frames = 1 .. n
    BY <1>1, IsSeqFacts
  <2> QED BY <1>1, <1>4, <2>1, IsSeqAppend
<1>7. \A i \in 2 .. n : FrameOK(frames[i])
  BY DEF WInv
<1>8. ASSUME NEW i \in 2 .. n, frames[i].readOnly
      PROVE  Top.readOnly /\ Observable(frames[i].entry) = Observable(world)
  <2>1. n \in 2 .. n /\ (i = n \/ i < n)
    BY <1>1
  <2> QED BY <1>1, <1>8, <2>1 DEF WInv, Static
<1>9. \A i, j \in 2 .. n : i < j /\ frames[i].readOnly => frames[j].readOnly
  BY DEF WInv, Static
<1>10. FirstTx'
  <2>1. txs # 0 /\ txs \in Nat /\ (txs = 1 => frames[2].snapshot \in Before)
    BY DEF WInv, FirstTx
  <2>2. frames'[2] = frames[2]
    BY <1>1, <1>6
  <2> QED BY <2>1, <2>2 DEF FirstTx, Before
<1>11. frames'[1] = Dummy
  BY <1>1, <1>6 DEF WInv
<1> HIDE DEF n
<1>12. ASSUME NEW i \in 2 .. n + 1
       PROVE  /\ FrameOK(frames'[i])
              /\ frames'[i].readOnly =>
                   g.readOnly /\ Observable(frames'[i].entry) = Observable(world')
  <2>1. CASE i = n + 1
    BY <1>2, <1>3, <1>5, <1>6, <2>1
  <2>2. CASE i \in 2 .. n
    <3>1. frames'[i] = frames[i]
      BY <1>1, <1>6, <2>2
    <3>2. CASE frames[i].readOnly
      BY <1>3, <1>7, <1>8, <2>2, <3>1, <3>2
    <3> QED BY <1>7, <2>2, <3>1, <3>2
  <2> QED BY <1>1, <2>1, <2>2
<1>13. ASSUME NEW i \in 2 .. n + 1, NEW j \in 2 .. n + 1, i < j, frames'[i].readOnly
       PROVE  frames'[j].readOnly
  <2>1. CASE j = n + 1
    BY <1>6, <1>12, <1>13, <2>1
  <2>2. CASE j # n + 1
    <3>1. i \in 2 .. n /\ j \in 2 .. n
      BY <1>1, <1>13, <2>2
    <3>2. frames'[i] = frames[i] /\ frames'[j] = frames[j]
      BY <1>1, <1>6, <3>1
    <3> QED BY <1>9, <1>13, <3>1, <3>2
  <2> QED BY <2>1, <2>2
<1>14. Static'
  BY <1>6, <1>12, <1>13 DEF Static
<1> QED BY <1>6, <1>10, <1>11, <1>12, <1>14 DEF WInv, Dummy

(* A nested call returns. *)
LEMMA PopWorld ==
  ASSUME WInv, TInv', status = "Running", status' = "Running", txs' = txs, ~IsTx(Top),
         SameStack(frames', Callers), Good(world'), Accumulators', Quiet
  PROVE  WInv'
<1> DEFINE n == Len(frames)
<1>1. n \in Nat /\ n >= 3 /\ Top = frames[n]
  <2>1. n \in Nat /\ n >= 2
    BY TopOK
  <2>2. IsTx(frames[2])
    BY DEF WInv, TInv, StackDiscipline
  <2> QED BY <2>1, <2>2 DEF Top
<1>2. Len(Callers) = n - 1 /\ \A i \in 1 .. n - 1 : Callers[i] = frames[i]
  BY CallersFacts DEF WInv
<1>3. Len(frames') = n - 1 /\ frames'[1] = frames[1]
      /\ \A i \in 2 .. n - 1 : Same(frames'[i], frames[i])
  <2>1. Len(frames') = n - 1 /\ frames'[1] = Callers[1]
        /\ \A i \in 2 .. n - 1 : Same(frames'[i], Callers[i])
    BY <1>2 DEF SameStack
  <2>2. Callers[1] = frames[1] /\ \A i \in 2 .. n - 1 : Callers[i] = frames[i]
    BY <1>1, <1>2
  <2> QED BY <2>1, <2>2
<1>4. \A i \in 2 .. n : FrameOK(frames[i])
  BY DEF WInv
<1>5. \A i \in 2 .. n - 1 : FrameOK(frames'[i])
  BY <1>1, <1>3, <1>4, SameOK
<1>6. Static'
  <2>1. ASSUME NEW i \in 2 .. n - 1, frames[i].readOnly
        PROVE  Top.readOnly /\ Observable(frames[i].entry) = Observable(world)
    <3>1. n \in 2 .. n /\ i \in 2 .. n /\ i < n
      BY <1>1
    <3> QED BY <1>1, <2>1, <3>1 DEF WInv, Static
  <2>2. ASSUME NEW i \in 2 .. n - 1, frames'[i].readOnly
        PROVE  Observable(frames'[i].entry) = Observable(world')
    <3>1. frames[i].readOnly /\ frames'[i].entry = frames[i].entry
      BY <1>3, <2>2 DEF Same
    <3> QED BY <2>1, <3>1 DEF Quiet
  <2>3. ASSUME NEW i \in 2 .. n - 1, NEW j \in 2 .. n - 1, i < j, frames'[i].readOnly
        PROVE  frames'[j].readOnly
    <3>1. frames[i].readOnly /\ frames'[j].readOnly = frames[j].readOnly
      BY <1>3, <2>3 DEF Same
    <3>2. i \in 2 .. n /\ j \in 2 .. n
      BY <1>1
    <3>3. frames[j].readOnly
      BY <2>3, <3>1, <3>2 DEF WInv, Static
    <3> QED BY <3>1, <3>3
  <2> QED BY <1>3, <2>2, <2>3 DEF Static
<1>7. FirstTx'
  <2>1. txs # 0 /\ txs \in Nat /\ (txs = 1 => frames[2].snapshot \in Before)
    BY DEF WInv, FirstTx
  <2>2. frames'[2].snapshot = frames[2].snapshot
    BY <1>1, <1>3 DEF Same
  <2> QED BY <2>1, <2>2 DEF FirstTx, Before
<1>8. frames'[1] = Dummy
  BY <1>3 DEF WInv
<1> QED BY <1>3, <1>5, <1>6, <1>7, <1>8 DEF WInv, Dummy

(* A transaction is over, or begins. *)
LEMMA OverWorld ==
  ASSUME WInv, TInv', status' \in {"Succeeded", "Reverted", "Crashed"}, Len(frames') = 1,
         frames'[1] = frames[1], Good(world'), Accumulators',
         txs' \in Nat \ {0}, status' = "Reverted" /\ txs' = 1 => world' \in Before
  PROVE  WInv'
<1>1. \A i \in 2 .. Len(frames') : FALSE
  OBVIOUS
<1>2. Static'
  BY <1>1 DEF Static
<1>3. FirstTx'
  BY DEF FirstTx, Before
<1>4. frames'[1] = Dummy
  BY DEF WInv
<1> QED BY <1>1, <1>2, <1>3, <1>4 DEF WInv, Dummy

LEMMA BeginWorld ==
  ASSUME WInv, TInv', status' = "Running", Len(frames) = 1, NEW f, FrameOK(f),
         f.readOnly = FALSE, frames' = Pushed(f), Good(world'), Accumulators',
         txs' \in Nat \ {0}, txs' = 1 => f.snapshot \in Before
  PROVE  WInv'
<1> DEFINE g == [f EXCEPT !.readOnly = @ \/ Top.readOnly]
<1>1. Top = Dummy /\ Top.readOnly = FALSE
  BY DEF WInv, Top, Dummy, Frame
<1>2. /\ g.readOnly = FALSE /\ DOMAIN g = DOMAIN f
      /\ g.kind = f.kind /\ g.callee = f.callee /\ g.pc = f.pc
      /\ g.entry = f.entry /\ g.snapshot = f.snapshot
  BY <1>1 DEF FrameOK
<1>3. frames' = Append(frames, g)
  BY DEF Pushed
<1> HIDE DEF g
<1>4. FrameOK(g)
  BY <1>2 DEF FrameOK
<1>5. Len(frames') = 2 /\ frames'[2] = g /\ frames'[1] = frames[1]
  <2>1. IsSeq(frames) /\ DOMAIN frames = 1 .. 1
    BY LenType DEF WInv, TInv, Shaped
  <2> QED BY <1>3, <2>1, IsSeqAppend
<1>6. \A i \in 2 .. Len(frames') : i = 2
  BY <1>5
<1>7. Static'
  BY <1>2, <1>5, <1>6 DEF Static
<1>8. FirstTx'
  BY <1>2, <1>5 DEF FirstTx, Before
<1>9. frames'[1] = Dummy
  BY <1>5 DEF WInv
<1> QED BY <1>4, <1>5, <1>6, <1>7, <1>8, <1>9 DEF WInv, Dummy

-----------------------------------------------------------------------------
(* The operations that instructions are made of.                           *)

(* What no part of an instruction breaks. *)
Kept == warm' \subseteq Addr /\ refund' \in Nat /\ txs' = txs

LEMMA FailWorld ==
  ASSUME WInv, TInv', status = "Running", NEW n \in Nat, Fail(n),
         Kept, Good(world'), Quiet
  PROVE  WInv'
<1>1. SameStack(frames', frames)
  <2>1. frames' = frames
    BY DEF Fail
  <2>2. SameStack(frames, frames)
    BY TopOK, SameItself DEF WInv
  <2> QED BY <2>1, <2>2
<1>2. Accumulators' /\ status' = status
  BY DEF Fail, Kept, WInv, Accumulators, Ok, Failed
<1> QED BY <1>1, <1>2, KeepWorld DEF Kept

LEMMA ContinueWorld ==
  ASSUME WInv, TInv', status = "Running", NEW n \in Nat, Continue(n),
         Kept, Good(world'), Quiet, dirty' \subseteq Addr
  PROVE  WInv'
<1>1. SameStack(frames', frames)
  BY TopOK, AdvanceSame DEF WInv, Continue
<1>2. Accumulators' /\ status' = status
  BY DEF Continue, Kept, WInv, Accumulators, Ok, Failed
<1> QED BY <1>1, <1>2, KeepWorld DEF Kept

LEMMA PostProcessedFacts ==
  ASSUME NEW a \in Addr, NEW w, Good(w), NEW err, NEW p \in PostProcessed(a, w, err)
  PROVE  Good(p.state) /\ p.dirty \subseteq Addr /\ (err # Ok => p.state = w)
<1>1. CASE p.state = w /\ p.dirty = {}
  BY <1>1
<1>2. CASE err = Ok /\ \E c \in BOOLEAN : p.state = SetCode(w, a, c) /\ p.dirty = {a}
  BY <1>2, SetCodeGood
<1> QED BY <1>1, <1>2 DEF PostProcessed

LEMMA TxEndFacts ==
  ASSUME NEW created \in Addr \cup {NoAddr}, NEW sn, Good(sn), NEW w, Good(w),
         NEW err, NEW t, NEW k, TxEnd(created, sn, w, err, t, k)
  PROVE  /\ status' \in {"Succeeded", "Reverted"}
         /\ Good(world') /\ (status' = "Reverted" => world' = sn)
         /\ dirty' = {} /\ destroyed' = {} /\ succ' = Ok /\ adv' = 0
<1> DEFINE P == IF created = NoAddr
                THEN {[state |-> w, ret |-> err, dirty |-> {Origin}]}
                ELSE PostProcessed(created, w, err)
<1>1. PICK p \in P :
        \E S : /\ status' = IF p.ret = Ok THEN "Succeeded" ELSE "Reverted"
               /\ world'  = TxEndState(p.ret, sn, DeleteAccounts(p.state, S))
               /\ dirty' = {} /\ destroyed' = {} /\ succ' = Ok /\ adv' = 0
  BY Zenon DEF TxEnd
<1>2. Good(p.state)
  BY PostProcessedFacts
<1> HIDE DEF P
<1> QED BY <1>1, <1>2, DeleteAccountsGood DEF TxEndState

(* A frame is left, in a state w the call made of world. *)
LEMMA FinishWorld ==
  ASSUME WInv, TInv', status = "Running", NEW w, Good(w), NEW err, NEW n \in Nat,
         NEW t \in SUBSET Addr, NEW k \in SUBSET Addr, FinishCall(w, err, n, t, k),
         Kept, Top.readOnly => Observable(w) = Observable(world)
  PROVE  WInv' /\ Quiet
<1>1. /\ Len(frames) \in Nat /\ Len(frames) >= 2 /\ FrameOK(Top)
      /\ Top = frames[Len(frames)]
  BY TopOK DEF Top
<1>2. /\ IsSeq(Callers) /\ Len(Callers) = Len(frames) - 1
      /\ \A i \in 1 .. Len(frames) - 1 : Callers[i] = frames[i]
  BY CallersFacts DEF WInv, Shaped
<1>3. /\ Top.callee \in Addr /\ Good(Top.entry)
      /\ Top.readOnly => Top.kind = "Call" /\ Observable(Top.entry) = Observable(world)
      /\ Top.kind # "Call" => Top.snapshot = Top.entry
      /\ Top.snapshot # NoSnapshot => Top.snapshot = Top.entry
  <2>1. Top.readOnly => Observable(Top.entry) = Observable(world)
    BY <1>1 DEF WInv, Static
  <2> QED BY <1>1, <2>1 DEF FrameOK
<1>4. CASE IsTx(Top)
  <2>1. Len(frames) = 2
    <3>1. \A i \in 3 .. Len(frames) : frames[i].kind \in {"Create", "Call"}
      BY DEF WInv, TInv, StackDiscipline
    <3>2. Len(frames) >= 3 => Len(frames) \in 3 .. Len(frames)
      BY <1>1
    <3>3. ~(Len(frames) >= 3)
      BY <1>1, <1>4, <3>1, <3>2 DEF IsTx
    <3>4. \A m \in Nat : m >= 2 /\ ~(m >= 3) => m = 2
      OBVIOUS
    <3> QED BY <1>1, <3>3, <3>4, Zenon
  <2>2. frames' = Callers /\ Len(frames') = 1 /\ frames'[1] = frames[1]
    BY <1>2, <1>4, <2>1 DEF FinishCall, IsTx
  <2>3. Good(Top.snapshot) /\ ~Top.readOnly
    BY <1>3, <1>4 DEF IsTx
  <2> DEFINE created == IF Top.kind = "TxCreate" THEN Top.callee ELSE NoAddr
  <2>4. TxEnd(created, Top.snapshot, w, err, t, k)
    BY <1>4 DEF FinishCall, IsTx
  <2>5. created \in Addr \cup {NoAddr}
    BY <1>3
  <2> HIDE DEF created
  <2>6. /\ status' \in {"Succeeded", "Reverted"}
        /\ Good(world') /\ (status' = "Reverted" => world' = Top.snapshot)
        /\ dirty' = {} /\ destroyed' = {} /\ succ' = Ok /\ adv' = 0
    BY <2>3, <2>4, <2>5, TxEndFacts
  <2>7. txs' \in Nat \ {0} /\ (txs' = 1 => Top.snapshot \in Before)
    BY <1>1, <2>1 DEF WInv, FirstTx, Kept
  <2>8. Accumulators'
    BY <2>6 DEF Kept, Accumulators, Ok
  <2>9. WInv'
    BY <2>2, <2>6, <2>7, <2>8, OverWorld
  <2> QED BY <2>3, <2>9 DEF Quiet
<1>5. CASE ~IsTx(Top)
  <2>1. Top.kind \in {"Create", "Call"}
    BY <1>1, <1>5 DEF FrameOK, IsTx
  <2>2. /\ Len(frames) >= 3
        /\ SameStack(Callers, Callers) /\ SameStack(Advance(Callers, n), Callers)
    <3>1. IsTx(frames[2])
      BY DEF WInv, TInv, StackDiscipline
    <3>2. Len(frames) >= 3
      BY <1>1, <1>5, <3>1
    <3>3. ASSUME NEW i \in 2 .. Len(Callers) PROVE FrameOK(Callers[i])
      <4>1. i \in 1 .. Len(frames) - 1 /\ i \in 2 .. Len(frames)
        BY <1>1, <1>2, <3>2
      <4> QED BY <1>2, <4>1 DEF WInv
    <3>4. Len(Callers) >= 2
      BY <1>1, <1>2, <3>2
    <3> QED BY <1>2, <3>2, <3>3, <3>4, SameItself, AdvanceSame
  <2>3. CASE Top.kind = "Create"
    <3>1. CreateEnd(Top, n, w, err, t, k)
      BY <2>3 DEF FinishCall
    <3> DEFINE v == IF err # Ok THEN Top.snapshot ELSE w
    <3>2. Good(v)
      BY <1>3, <2>3
    <3>3. PICK p \in PostProcessed(Top.callee, v, err) :
            /\ world' = p.state
            /\ dirty' = t \cup p.dirty /\ destroyed' = k
            /\ frames' = Advance(Callers, n)
            /\ succ' = Ok /\ adv' = 0 /\ status' = status
      BY <3>1 DEF CreateEnd
    <3> HIDE DEF v
    <3>4. Good(p.state) /\ p.dirty \subseteq Addr
      BY <1>3, <3>2, <3>3, PostProcessedFacts
    <3>5. Quiet
      BY <1>3, <2>3 DEF Quiet
    <3>6. Accumulators'
      BY <3>3, <3>4 DEF Kept, Accumulators, Ok, WInv
    <3> QED BY <1>5, <2>2, <3>3, <3>4, <3>5, <3>6, PopWorld DEF Kept
  <2>4. CASE Top.kind = "Call"
    <3>1. CallEnd(Top.snapshot, Advance(Callers, n), Callers, n, w, err, t, k)
      BY <2>4 DEF FinishCall
    <3>2. /\ world' \in {w, Top.entry}
          /\ frames' \in {Callers, Advance(Callers, n)}
          /\ succ' \in {Ok, Failed} /\ adv' \in {0, n}
          /\ dirty' = t /\ destroyed' = k /\ status' = status
      BY <1>3, <3>1 DEF CallEnd, CallEndState
    <3>3. Quiet /\ Good(world')
      BY <1>3, <3>2 DEF Quiet
    <3>4. Accumulators'
      BY <3>2 DEF Kept, Accumulators, WInv
    <3>5. SameStack(frames', Callers)
      BY <2>2, <3>2
    <3> QED BY <1>5, <3>2, <3>3, <3>4, <3>5, PopWorld DEF Kept
  <2> QED BY <2>1, <2>3, <2>4
<1> QED BY <1>4, <1>5

(* A nested call that needs no frame. *)
LEMMA NoFrameWorld ==
  ASSUME WInv, TInv', status = "Running", NEW sn \in {world, NoSnapshot},
         NEW w, Good(w), NEW err, NEW t \in SUBSET Addr,
         ReturnWithoutFrame("Call", sn, w, err, t),
         Kept, Top.readOnly => Observable(w) = Observable(world)
  PROVE  WInv' /\ Quiet
<1>1. /\ frames' = Advance(frames, 1) /\ status' = status
      /\ world' \in {w, world}
      /\ succ' \in {Ok, Failed} /\ adv' = 0
      /\ dirty' = t /\ destroyed' = destroyed
  BY DEF ReturnWithoutFrame, CallEnd, CallEndState
<1>2. Quiet /\ Good(world')
  BY <1>1 DEF Quiet, WInv
<1>3. SameStack(frames', frames)
  BY <1>1, TopOK, AdvanceSame DEF WInv
<1>4. Accumulators'
  BY <1>1 DEF Kept, Accumulators, WInv
<1> QED BY <1>1, <1>2, <1>3, <1>4, KeepWorld DEF Kept

(* A nested frame with a snapshot. *)
LEMMA EnterWorld ==
  ASSUME WInv, TInv', status = "Running", NEW kind \in {"Create", "Call"},
         NEW callee \in Addr, NEW caller, NEW code, Kept,
         Enter(Frame(kind, callee, caller, code, world)),
         Good(world'), dirty' \subseteq Addr,
         Top.readOnly => kind = "Call", Quiet
  PROVE  WInv'
<1> DEFINE f == Frame(kind, callee, caller, code, world)
<1>1. /\ FrameOK(f) /\ f.entry = world /\ f.kind = kind /\ f.readOnly = FALSE
  BY DEF Frame, FrameOK, WInv
<1>2. frames' = Pushed(f) /\ status' = "Running"
  BY DEF Enter
<1> HIDE DEF f
<1>3. Accumulators'
  BY DEF Enter, Kept, Accumulators, WInv, Ok
<1> QED BY <1>1, <1>2, <1>3, PushWorld DEF Kept, Quiet

LEMMA WarmedType ==
  ASSUME WInv, NEW S, S \subseteq Addr, warm' = Warmed(S)
  PROVE  warm' \subseteq Addr
BY DEF Warmed, WInv, Accumulators

-----------------------------------------------------------------------------
(* The actions.                                                            *)

LEMMA QuietItself == ASSUME world' = world PROVE Quiet
BY DEF Quiet

LEMMA PlainWorld ==
  ASSUME WInv, TInv', NEW n \in Nat, Plain(n) \/ Jump(n) \/ Error(n)
  PROVE  WInv' /\ Quiet
<1>1. status = "Running" /\ Kept /\ world' = world /\ Good(world') /\ Quiet
  BY QuietItself
  DEF Plain, Jump, Error, Instruction, Ending, Running, Kept, WInv, Accumulators
<1>2. CASE Plain(n)
  <2>1. dirty' \subseteq Addr /\ n + 1 \in Nat
    BY <1>2 DEF Plain, WInv, Accumulators
  <2> QED BY <1>1, <1>2, <2>1, ContinueWorld DEF Plain
<1>3. CASE Jump(n)
  <2>1. SameStack(frames', frames)
    BY <1>1, <1>3, TopOK, PcSame DEF Jump, WInv
  <2>2. Accumulators' /\ status' = status /\ txs' = txs
    BY <1>1, <1>3 DEF Jump, WInv, Accumulators, Kept
  <2> QED BY <1>1, <2>1, <2>2, KeepWorld
<1>4. CASE Error(n)
  BY <1>1, <1>4, FailWorld DEF Error
<1> QED BY <1>1, <1>2, <1>3, <1>4

LEMMA AccessWorld ==
  ASSUME WInv, TInv', NEW a \in Addr, Access(a)
  PROVE  WInv' /\ Quiet
<1>1. status = "Running" /\ world' = world /\ Good(world') /\ Quiet
  BY QuietItself DEF Access, Instruction, Running, WInv
<1>2. Kept
  BY WarmedType DEF Access, Instruction, Kept, WInv, Accumulators
<1>3. CASE Continue(1) /\ dirty' = dirty
  BY <1>1, <1>2, <1>3, ContinueWorld DEF WInv, Accumulators
<1>4. CASE Fail(1)
  BY <1>1, <1>2, <1>4, FailWorld
<1> QED BY <1>1, <1>3, <1>4 DEF Access

LEMMA RefundTypes ==
  ASSUME NEW o, NEW c, NEW v
  PROVE  SubRefund(o, c, v) \in Nat /\ AddRefund(o, c, v) \in Nat
<1>1. SetBack \in Nat /\ ResetBack \in Nat /\ Clearing \in Nat
  BY DEF SetBack, ResetBack, Clearing
<1>2. SubRefund(o, c, v) \in Nat
  BY <1>1 DEF SubRefund
<1>3. CASE Fork < Constantinople \/ v = c
  BY <1>1, <1>2, <1>3 DEF AddRefund
<1>4. CASE ~(Fork < Constantinople \/ v = c) /\ Fork = Constantinople
  BY <1>1, <1>2, <1>4 DEF AddRefund
<1>5. CASE ~(Fork < Constantinople \/ v = c) /\ Fork # Constantinople
  <2> DEFINE x == IF o # 0 /\ c # 0 /\ v = 0 THEN Clearing ELSE 0
             y == IF o # c /\ o = v THEN IF o = 0 THEN SetBack ELSE ResetBack ELSE 0
  <2>1. AddRefund(o, c, v) = x + y
    BY <1>5 DEF AddRefund
  <2>2. x \in Nat /\ y \in Nat
    BY <1>1
  <2> HIDE DEF x, y
  <2> QED BY <1>2, <2>1, <2>2
<1> QED BY <1>2, <1>3, <1>4, <1>5

(* A panic in the middle of an instruction. *)
LEMMA LeaveWorld ==
  ASSUME WInv, TInv', status = "Running", NEW how \in {"Panicked", "Crashed"}, Leave(how),
         UNCHANGED <<world, refund>>, warm' \subseteq Addr, txs' = txs
  PROVE  WInv' /\ Quiet
<1>1. /\ frames' = frames /\ status' = how /\ world' = world /\ refund' = refund
      /\ UNCHANGED <<succ, adv, dirty, destroyed>>
  BY DEF Leave
<1>2. SameStack(frames', frames)
  BY <1>1, TopOK, SameItself DEF WInv
<1>3. Accumulators' /\ Good(world') /\ Quiet
  BY <1>1 DEF WInv, Accumulators, Quiet
<1> QED BY <1>1, <1>2, <1>3, KeepWorld

LEMMA SStoreWorld ==
  ASSUME WInv, TInv', NEW val \in Nat, SStore(val)
  PROVE  WInv' /\ Quiet
<1> DEFINE a == Top.callee
           sub == SubRefund(World0.slot[a], world.slot[a], val)
           add == AddRefund(World0.slot[a], world.slot[a], val)
<1>1. /\ status = "Running" /\ txs' = txs /\ Quiet /\ warm' = Warmed({a})
  BY DEF SStore, Instruction, Running, Writable, Quiet
<1>2. a \in Addr
  BY <1>1, TopOK
<1>3. warm' \subseteq Addr
  BY <1>1, <1>2, WarmedType
<1>4. CASE ~SStorePanics(sub) /\ refund' = refund - sub + add
  <2>1. refund' \in Nat
    <3>1. refund \in Nat /\ sub \in Nat /\ add \in Nat
      BY RefundTypes DEF WInv, Accumulators
    <3>2. ~(refund < sub)
      BY <1>4 DEF SStorePanics
    <3> HIDE DEF sub, add
    <3> QED BY <1>4, <3>1, <3>2
  <2>2. Kept
    BY <1>1, <1>3, <2>1 DEF Kept
  <2>3. CASE world' = SetState(world, a, val) /\ dirty' = dirty \cup {a} /\ Continue(1)
    <3>1. Good(world') /\ dirty' \subseteq Addr
      BY <1>2, <2>3, SetStateGood DEF WInv, Accumulators
    <3> QED BY <1>1, <2>2, <2>3, <3>1, ContinueWorld
  <2>4. CASE Fail(1) /\ world' = world
    <3>1. Good(world')
      BY <2>4 DEF WInv
    <3> QED BY <1>1, <2>2, <2>4, <3>1, FailWorld
  <2> QED BY <1>4, <2>3, <2>4 DEF SStore
<1>5. CASE SStorePanics(sub) /\ Panic /\ UNCHANGED <<world, refund>>
  <2> QED BY <1>1, <1>3, <1>5, LeaveWorld DEF Panic
<1> QED BY <1>4, <1>5 DEF SStore

LEMMA LogWorld ==
  ASSUME WInv, TInv', Log
  PROVE  WInv' /\ Quiet
<1>1. status = "Running" /\ Kept /\ Quiet
  BY DEF Log, Instruction, Running, Writable, Quiet, Kept, WInv, Accumulators
<1>2. Good(world')
  BY AddLogGood DEF Log, WInv
<1>5. CASE Crash /\ world' = world
  <2>1. warm' \subseteq Addr /\ txs' = txs /\ refund' = refund
    BY <1>1 DEF Kept, Log
  <2> QED BY <1>1, <1>5, <2>1, LeaveWorld DEF Crash
<1>3. CASE Continue(1) /\ dirty' = dirty
  BY <1>1, <1>2, <1>3, ContinueWorld DEF WInv, Accumulators
<1>4. CASE Fail(1)
  BY <1>1, <1>2, <1>4, FailWorld
<1> QED BY <1>1, <1>3, <1>4, <1>5 DEF Log

(* What creating a contract makes of the state. *)
LEMMA BumpedGood ==
  ASSUME WInv, NEW c \in Addr, world.nonce[c] # MaxNonce
  PROVE  Good(Bumped(c)) /\ Bumped(c).balance = world.balance
<1>1. world.nonce[c] \in 0 .. MaxNonce
  BY WorldTypes DEF WInv, Good
<1>2. world.nonce[c] + 1 \in 0 .. MaxNonce
  BY <1>1, TxAssumption
<1>3. Good(Bumped(c))
  BY <1>2, SetNonceGood DEF WInv, Bumped
<1>4. Bumped(c).balance = world.balance
  BY DEF Bumped, SetNonce, WInv, Good, Worlds
<1> QED BY <1>3, <1>4

LEMMA RaisedGood ==
  ASSUME WInv, Origin \in Addr
  PROVE  /\ Good(Raised(world)) /\ Raised(world).balance = world.balance
         /\ world.nonce[Origin] # MaxNonce => Raised(world) = Bumped(Origin)
<1>1. world.nonce[Origin] # MaxNonce => Raised(world) = Bumped(Origin)
  BY DEF Raised, Bumped
<1>2. CASE world.nonce[Origin] # MaxNonce
  BY <1>1, <1>2, BumpedGood
<1>3. CASE world.nonce[Origin] = MaxNonce
  <2>1. Raised(world) = SetNonce(world, Origin, 0) /\ 0 \in 0 .. MaxNonce
    BY <1>3, TxAssumption DEF Raised
  <2>2. SetNonce(world, Origin, 0).balance = world.balance
    BY DEF SetNonce, WInv, Good, Worlds
  <2> QED BY <1>3, <2>1, <2>2, SetNonceGood DEF WInv
<1> QED BY <1>1, <1>2, <1>3

LEMMA CreatedGood ==
  ASSUME WInv, NEW c \in Addr, NEW a \in Addr, NEW v \in Nat, ~CreateRefused(c, v)
  PROVE  Good(Created(a, c, v))
<1> DEFINE new == CreateAccount(Bumped(c), a)
           one == SetNonce(new, a, 1)
           x == IF Fork >= SpuriousDragon THEN one ELSE new
<1>1. ~(world.balance[c] < v) /\ world.nonce[c] # MaxNonce
  BY DEF CreateRefused
<1>2. Good(new) /\ new.balance = world.balance
  BY <1>1, BumpedGood, CreateAccountGood
<1>3. 1 \in 0 .. MaxNonce
  <2>1. world.nonce[c] \in 0 .. MaxNonce
    BY WorldTypes DEF WInv, Good
  <2> QED BY <1>1, <2>1, TxAssumption
<1> HIDE DEF new
<1>4. Good(one) /\ one.balance = world.balance
  <2>1. Good(one)
    BY <1>2, <1>3, SetNonceGood
  <2>2. one.balance = new.balance
    BY <1>2 DEF SetNonce, Good, Worlds
  <2> QED BY <1>2, <2>1, <2>2
<1> HIDE DEF one
<1>5. Good(x) /\ ~(x.balance[c] < v)
  BY <1>1, <1>2, <1>4
<1>6. Created(a, c, v) = Transfer(x, c, a, v)
  BY DEF Created, x, one, new
<1> HIDE DEF x
<1> QED BY <1>5, <1>6, TransferGood

LEMMA CreateWorld ==
  ASSUME WInv, TInv', NEW a \in CreateAddrs, NEW v \in Nat, Create(a, v)
  PROVE  WInv' /\ Quiet
<1> DEFINE c == Top.callee
<1>1. /\ status = "Running" /\ Quiet /\ ~Top.readOnly /\ ~CreateRefused(c, v)
  BY DEF Create, Instruction, Running, Writable, Quiet
<1>2. a \in Addr /\ c \in Addr
  BY <1>1, TxAssumption, TopOK
<1>3. Kept
  BY <1>2, WarmedType DEF Create, Instruction, Kept, WInv, Accumulators
<1>4. world.nonce[c] # MaxNonce
  BY <1>1 DEF CreateRefused
<1> HIDE DEF c
<1>5. CASE world' = Bumped(c) /\ Fail(0)
  <2>1. Good(world')
    BY <1>2, <1>4, <1>5, BumpedGood
  <2> QED BY <1>1, <1>3, <1>5, <2>1, FailWorld
<1>6. CASE Create_("Create", a, c, v)
  <2>1. Good(world')
    BY <1>1, <1>2, <1>6, CreatedGood DEF Create_
  <2>2. dirty' \subseteq Addr
    BY <1>2, <1>6 DEF Create_, WInv, Accumulators
  <2>3. PICK code \in BOOLEAN : Enter(Frame("Create", a, c, code, world))
    BY <1>6 DEF Create_
  <2> QED BY <1>1, <1>2, <1>3, <2>1, <2>2, <2>3, EnterWorld
<1> QED BY <1>5, <1>6 DEF Create, c

(* What calling an account makes of a state. *)
Paid(w, callee, caller, value) ==
  Transfer(IF callee \notin w.exist THEN CreateAccount(w, callee) ELSE w,
           caller, callee, value)

LEMMA PaidFacts ==
  ASSUME NEW w, Good(w), NEW callee \in Addr, NEW caller \in Addr, NEW v \in Nat,
         ~(w.balance[caller] < v)
  PROVE  /\ Good(Paid(w, callee, caller, v))
         /\ v = 0 => Observable(Paid(w, callee, caller, v)) = Observable(w)
<1> DEFINE x == IF callee \notin w.exist THEN CreateAccount(w, callee) ELSE w
<1>1. Good(x) /\ x.balance = w.balance /\ Observable(x) = Observable(w)
  BY CreateAccountGood, CreateAccountSilent
<1>2. Paid(w, callee, caller, v) = Transfer(x, caller, callee, v)
  BY DEF Paid
<1> HIDE DEF x
<1> QED BY <1>1, <1>2, TransferGood, TransferSilent

LEMMA CallWorld ==
  ASSUME WInv, TInv', NEW a \in Addr, NEW v \in Nat, Call(a, v)
  PROVE  WInv' /\ Quiet
<1> DEFINE c == Top.callee
           p == Paid(world, a, c, v)
           t == dirty \cup {c, a}
<1>1. status = "Running" /\ (Top.readOnly => v = 0)
  BY DEF Call, Instruction, Running, Writable
<1>2. c \in Addr
  BY <1>1, TopOK
<1>3. Kept
  BY WarmedType DEF Call, UseGasCall, Instruction, Kept, WInv, Accumulators
<1>4. Good(world) /\ t \in SUBSET Addr
  BY <1>2 DEF WInv, Accumulators
<1> HIDE DEF c
<1>5. CASE Fail(0) /\ world' = world
  <2>1. Quiet
    BY <1>5, QuietItself
  <2> QED BY <1>1, <1>3, <1>4, <1>5, <2>1, FailWorld
<1>6. CASE ~Refused(world, c, v) /\ Call_("Call", world, a, c, v)
  <2>1. Good(p) /\ (Top.readOnly => Observable(p) = Observable(world))
    BY <1>1, <1>2, <1>4, <1>6, PaidFacts DEF Refused
  <2>2. \/ \E x \in {world, p}, err \in {Ok, Failed} :
             ReturnWithoutFrame("Call", world, x, err, t)
        \/ world' = p /\ dirty' = t /\ Enter(Frame("Call", a, c, TRUE, world))
    BY <1>6, Zenon DEF Call_, Paid
  <2> HIDE DEF p, t
  <2>3. CASE \E x \in {world, p}, err \in {Ok, Failed} :
               ReturnWithoutFrame("Call", world, x, err, t)
    BY <1>1, <1>3, <1>4, <2>1, <2>3, NoFrameWorld
  <2>4. CASE world' = p /\ dirty' = t /\ Enter(Frame("Call", a, c, TRUE, world))
    <3>1. Quiet
      BY <2>1, <2>4 DEF Quiet
    <3> QED BY <1>1, <1>3, <1>4, <2>1, <2>4, <3>1, EnterWorld
  <2> QED BY <2>2, <2>3, <2>4
<1> QED BY <1>5, <1>6 DEF Call, c

LEMMA RunCodeOfWorld ==
  ASSUME WInv, TInv', NEW a \in Addr, NEW c, NEW v, RunCodeOf(a, c, v)
  PROVE  WInv' /\ Quiet
<1>1. status = "Running" /\ world' = world /\ Good(world') /\ Quiet
  BY QuietItself DEF RunCodeOf, Instruction, Running, WInv
<1>2. Kept
  BY WarmedType DEF RunCodeOf, UseGasCall, Instruction, Kept, WInv, Accumulators
<1>3. CASE Fail(0)
  BY <1>1, <1>2, <1>3, FailWorld
<1>4. CASE Enter(Frame("Call", Top.callee, c, world.code[a], world)) /\ dirty' = dirty
  <2>1. Top.callee \in Addr /\ dirty' \subseteq Addr
    BY <1>1, <1>4, TopOK DEF WInv, Accumulators
  <2> QED BY <1>1, <1>2, <1>4, <2>1, EnterWorld
<1> QED BY <1>1, <1>3, <1>4 DEF RunCodeOf

LEMMA StaticCallWorld ==
  ASSUME WInv, TInv', NEW a \in Addr, StaticCall(a)
  PROVE  WInv' /\ Quiet
<1>1. status = "Running"
  BY DEF StaticCall, Instruction, Running
<1>2. Kept
  BY WarmedType DEF StaticCall, UseGasCall, Instruction, Kept, WInv, Accumulators
<1>3. Good(world) /\ dirty \in SUBSET Addr
  BY DEF WInv, Accumulators
<1>4. CASE Fail(0) /\ world' = world
  <2>1. Quiet
    BY <1>4, QuietItself
  <2> QED BY <1>1, <1>2, <1>3, <1>4, <2>1, FailWorld
<1>5. CASE \E err \in {Ok, Failed} : ReturnWithoutFrame("Call", NoSnapshot, world, err, dirty)
  BY <1>1, <1>2, <1>3, <1>5, NoFrameWorld
<1> DEFINE g == Frame("Call", a, Top.callee, world.code[a], NoSnapshot)
           f == [g EXCEPT !.readOnly = TRUE, !.entry = world]
<1>6. CASE Enter(f) /\ UNCHANGED <<world, dirty>>
  <2>1. /\ {"kind", "callee", "pc", "readOnly", "snapshot", "entry"} \subseteq DOMAIN g
        /\ g.kind = "Call" /\ g.callee = a /\ g.pc = 0 /\ g.snapshot = NoSnapshot
    BY DEF Frame
  <2> HIDE DEF g
  <2>2. /\ {"kind", "callee", "pc", "readOnly", "snapshot", "entry"} \subseteq DOMAIN f
        /\ f.kind = "Call" /\ f.callee = a /\ f.pc = 0 /\ f.snapshot = NoSnapshot
        /\ f.readOnly = TRUE /\ f.entry = world
    BY <2>1
  <2> HIDE DEF f
  <2>3. FrameOK(f)
    <3>1. f.readOnly /\ f.readOnly \in BOOLEAN
      BY <2>2
    <3> QED BY <1>3, <2>2, <3>1 DEF FrameOK
  <2>4. frames' = Pushed(f) /\ status' = "Running" /\ Accumulators'
    BY <1>2, <1>6 DEF Enter, Kept, Accumulators, WInv, Ok
  <2>5. WInv'
    BY <1>1, <1>2, <1>3, <1>6, <2>2, <2>3, <2>4, PushWorld DEF Kept
  <2> QED BY <1>6, <2>5, QuietItself
<1> QED BY <1>4, <1>5, <1>6 DEF StaticCall

LEMMA EndingWorld ==
  ASSUME WInv, TInv', Return \/ Revert \/ Unwind
  PROVE  WInv' /\ Quiet
<1>1. status = "Running" /\ Kept
  BY DEF Return, Revert, Unwind, Ending, Running, Kept, WInv, Accumulators
<1>2. \E err : \E n \in Nat : FinishCall(world, err, n, dirty, destroyed)
  BY DEF Return, Revert, Unwind, WInv, Accumulators
<1>3. Good(world) /\ dirty \in SUBSET Addr /\ destroyed \in SUBSET Addr
  BY DEF WInv, Accumulators
<1> QED BY <1>1, <1>2, <1>3, FinishWorld

LEMMA SelfDestructWorld ==
  ASSUME WInv, TInv', NEW heir \in Addr, SelfDestruct(heir)
  PROVE  WInv' /\ Quiet
<1> DEFINE a == Top.callee
           given == SetBalance(world, heir, world.balance[heir] + world.balance[a])
           w == SetBalance(given, a, 0)
           t == dirty \cup {a, heir}
           k == destroyed \cup {a}
<1>1. status = "Running" /\ ~Top.readOnly /\ txs' = txs /\ warm' = Warmed({heir})
  BY DEF SelfDestruct, Ending, Running, Writable
<1>2. a \in Addr
  BY <1>1, TopOK
<1>3. refund' \in Nat
  <2>1. refund \in Nat /\ refund' \in {refund, refund + 24000}
    BY DEF SelfDestruct, WInv, Accumulators
  <2> QED BY <2>1
<1>4. Kept
  BY <1>1, <1>3, WarmedType DEF Kept
<1>5. FinishCall(w, Ok, 1, t, k)
  BY DEF SelfDestruct
<1>6. Good(w)
  <2>1. world.balance[heir] + world.balance[a] \in Nat
    BY <1>2, WorldTypes DEF WInv, Good
  <2>2. Good(given)
    BY <2>1, SetBalanceGood DEF WInv
  <2> HIDE DEF given
  <2> QED BY <1>2, <2>2, SetBalanceGood
<1>7. t \in SUBSET Addr /\ k \in SUBSET Addr
  BY <1>2 DEF WInv, Accumulators
<1> HIDE DEF w, t, k
<1> QED BY <1>1, <1>4, <1>5, <1>6, <1>7, FinishWorld

(* A transaction starts. *)
LEMMA StartWorld ==
  ASSUME WInv, NEW list, list \subseteq Addr, Start(list)
  PROVE  /\ Len(frames) = 1 /\ succ = Ok
         /\ refund' \in Nat /\ warm' \subseteq Addr
         /\ txs' \in Nat \ {0} /\ Origin \in Addr
         /\ Good(Raised(world)) /\ Raised(world).balance = world.balance
         /\ txs' = 1 => world \in Before /\ Raised(world) \in Before
<1>1. Len(frames) = 1 /\ succ = Ok
  BY StartFacts DEF WInv
<1>2. refund' \in Nat /\ warm' \subseteq Addr /\ Origin \in Addr
  BY TxAssumption DEF Start
<1>3. txs' \in Nat \ {0} /\ (txs' = 1 => world = World0)
  BY DEF Start, WInv, FirstTx
<1>4. Good(Raised(world)) /\ Raised(world).balance = world.balance
  BY <1>2, RaisedGood
<1>5. txs' = 1 => world \in Before /\ Raised(world) \in Before
  BY <1>3 DEF Before
<1> QED BY <1>1, <1>2, <1>3, <1>4, <1>5

(* It fails at once. *)
LEMMA FailTxWorld ==
  ASSUME WInv, TInv', NEW list, list \subseteq Addr, Start(list), FailTx,
         world' \in {world, Raised(world)}
  PROVE  WInv'
<1>1. /\ Len(frames) = 1 /\ refund' \in Nat /\ warm' \subseteq Addr /\ txs' \in Nat \ {0}
      /\ Good(Raised(world)) /\ (txs' = 1 => world \in Before /\ Raised(world) \in Before)
  BY StartWorld
<1>2. Good(world') /\ (txs' = 1 => world' \in Before)
  BY <1>1 DEF WInv
<1>3. frames' = frames /\ status' = "Reverted"
  BY DEF FailTx, Leave
<1>4. Accumulators'
  BY <1>1 DEF FailTx, Leave, Accumulators, WInv
<1> QED BY <1>1, <1>2, <1>3, <1>4, OverWorld

(* It gets a frame. *)
LEMMA EnterTxWorld ==
  ASSUME WInv, TInv', NEW list, list \subseteq Addr, Start(list),
         NEW kind \in {"TxCall", "TxCreate"}, NEW callee \in Addr, NEW code,
         NEW sn, sn \in {world, Raised(world)},
         Enter(Frame(kind, callee, Origin, code, sn)), Good(world'), dirty' \subseteq Addr
  PROVE  WInv'
<1> DEFINE f == Frame(kind, callee, Origin, code, sn)
<1>1. /\ Len(frames) = 1 /\ refund' \in Nat /\ warm' \subseteq Addr /\ txs' \in Nat \ {0}
      /\ Good(Raised(world)) /\ (txs' = 1 => world \in Before /\ Raised(world) \in Before)
  BY StartWorld
<1>2. Good(sn) /\ (txs' = 1 => sn \in Before)
  BY <1>1 DEF WInv
<1>3. FrameOK(f) /\ f.readOnly = FALSE /\ f.snapshot = sn
  BY <1>2 DEF Frame, FrameOK
<1>4. frames' = Pushed(f) /\ status' = "Running"
  BY DEF Enter
<1> HIDE DEF f
<1>5. Accumulators'
  BY <1>1 DEF Enter, Accumulators, WInv, Ok
<1> QED BY <1>1, <1>2, <1>3, <1>4, <1>5, BeginWorld

LEMMA NotStatic ==
  ASSUME WInv, Len(frames) = 1
  PROVE  Quiet
BY DEF WInv, Quiet, Top, Dummy, Frame

LEMMA TxCallWorld ==
  ASSUME WInv, TInv', NEW a \in Addr, NEW v \in Nat, TxCall(a, v)
  PROVE  WInv' /\ Quiet
<1> DEFINE w == Raised(world)
           p == Paid(w, a, Origin, v)
           t == dirty \cup {Origin, a}
<1>1. Start({a}) /\ {a} \subseteq Addr
  BY DEF TxCall
<1>2. /\ Len(frames) = 1 /\ refund' \in Nat /\ warm' \subseteq Addr /\ txs' \in Nat \ {0}
      /\ Good(w) /\ (txs' = 1 => w \in Before) /\ Origin \in Addr
  BY <1>1, StartWorld
<1>3. Quiet
  BY <1>2, NotStatic
<1>4. CASE FailTx /\ world' = w
  BY <1>1, <1>3, <1>4, FailTxWorld
<1>5. CASE ~Refused(w, Origin, v) /\ Call_("TxCall", w, a, Origin, v)
  <2>1. Good(p) /\ t \subseteq Addr
    BY <1>2, <1>5, PaidFacts DEF Refused, WInv, Accumulators
  <2>2. \/ \E x \in {w, p}, err \in {Ok, Failed} : ReturnWithoutFrame("TxCall", w, x, err, t)
        \/ world' = p /\ dirty' = t /\ Enter(Frame("TxCall", a, Origin, TRUE, w))
    BY <1>5, Zenon DEF Call_, Paid
  <2> HIDE DEF p, t
  <2>3. CASE \E x \in {w, p}, err \in {Ok, Failed} : ReturnWithoutFrame("TxCall", w, x, err, t)
    <3>1. PICK x \in {w, p}, err \in {Ok, Failed} : ReturnWithoutFrame("TxCall", w, x, err, t)
      BY <2>3
    <3> HIDE DEF w
    <3>2. TxEnd(NoAddr, w, x, err, t, destroyed) /\ frames' = frames
      BY <3>1 DEF ReturnWithoutFrame
    <3>3. /\ status' \in {"Succeeded", "Reverted"}
          /\ Good(world') /\ (status' = "Reverted" => world' = w)
          /\ dirty' = {} /\ destroyed' = {} /\ succ' = Ok /\ adv' = 0
      BY <1>2, <2>1, <3>2, TxEndFacts
    <3>4. Accumulators'
      BY <1>2, <3>3 DEF Accumulators, Ok
    <3> QED BY <1>2, <1>3, <3>2, <3>3, <3>4, OverWorld
  <2>4. CASE world' = p /\ dirty' = t /\ Enter(Frame("TxCall", a, Origin, TRUE, w))
    BY <1>1, <1>3, <2>1, <2>4, EnterTxWorld
  <2> QED BY <2>2, <2>3, <2>4
<1>6. CASE Crash /\ world' = world
  <2>1. frames' = frames /\ status' = "Crashed" /\ Good(world')
    BY <1>6 DEF Crash, Leave, WInv
  <2>2. Accumulators'
    BY <1>2, <1>6 DEF Crash, Leave, Accumulators, WInv
  <2> QED BY <1>2, <1>3, <2>1, <2>2, OverWorld
<1> QED BY <1>4, <1>5, <1>6 DEF TxCall

LEMMA TxCreateWorld ==
  ASSUME WInv, TInv', NEW a \in CreateAddrs, NEW v \in Nat, TxCreate(a, v)
  PROVE  WInv' /\ Quiet
<1> DEFINE list == IF Fork >= Berlin THEN {a} ELSE {}
<1>1. Start(list) /\ list \subseteq Addr /\ a \in Addr
  BY TxAssumption DEF TxCreate
<1> HIDE DEF list
<1>2. Len(frames) = 1 /\ Origin \in Addr
  BY <1>1, StartWorld
<1>3. Quiet
  BY <1>2, NotStatic
<1>4. CASE FailTx /\ world' \in {world, Raised(world)}
  BY <1>1, <1>3, <1>4, FailTxWorld
<1>5. CASE ~CreateRefused(Origin, v) /\ Create_("TxCreate", a, Origin, v)
  <2>1. Good(world')
    BY <1>1, <1>2, <1>5, CreatedGood DEF Create_
  <2>2. dirty' \subseteq Addr
    BY <1>1, <1>2, <1>5 DEF Create_, WInv, Accumulators
  <2>3. PICK code \in BOOLEAN : Enter(Frame("TxCreate", a, Origin, code, world))
    BY <1>5 DEF Create_
  <2> QED BY <1>1, <1>3, <2>1, <2>2, <2>3, EnterTxWorld
<1>6. ~CreateRefused(Origin, v) => Bumped(Origin) = Raised(world)
  BY <1>2, RaisedGood DEF CreateRefused
<1> QED BY <1>4, <1>5, <1>6 DEF TxCreate

LEMMA WorldInit == ASSUME Init PROVE WInv
<1>1. TInv
  BY TxInit
<1>2. Good(world) /\ txs = 0 /\ world = World0 /\ status = "Idle"
  BY TxAssumption DEF Init, Good
<1>3. Accumulators
  BY DEF Init, Accumulators, Ok
<1>4. Len(frames) = 1 /\ frames[1] = Dummy
  <2> DEFINE d == Dummy
  <2>1. frames = <<d>>
    BY DEF Init
  <2> HIDE DEF d
  <2>2. Len(frames) = 1 /\ frames[1] = d
    BY <2>1
  <2> QED BY <2>2 DEF d
<1>5. Static /\ FirstTx /\ \A i \in 2 .. Len(frames) : FrameOK(frames[i])
  BY <1>2, <1>4 DEF Static, FirstTx
<1> QED BY <1>1, <1>2, <1>3, <1>4, <1>5 DEF WInv

LEMMA WorldNext == ASSUME WInv, [Next]_vars PROVE WInv' /\ Quiet
<1>1. TInv'
  BY TxNext DEF WInv
<1>2. CASE UNCHANGED vars
  <2>1. UNCHANGED <<frames, world, refund, warm, destroyed, dirty, status, succ, adv, txs>>
    BY <1>2 DEF vars
  <2>2. Good(world') /\ Accumulators' /\ Static' /\ FirstTx' /\ frames'[1] = Dummy
        /\ \A i \in 2 .. Len(frames') : FrameOK(frames'[i])
    BY <2>1 DEF WInv, Accumulators, Static, FirstTx, Before
  <2> QED BY <1>1, <2>1, <2>2, QuietItself DEF WInv, Dummy
<1>3. CASE Next
  <2>0. /\ PushData \subseteq Nat /\ Dests \subseteq Nat /\ Words \subseteq Nat
        /\ Values \subseteq Nat
    BY TxAssumption
  <2>1. CASE \E a \in Addr : Access(a) \/ DelegateCall(a) \/ StaticCall(a) \/ SelfDestruct(a)
    BY <1>1, <2>1, AccessWorld, RunCodeOfWorld, StaticCallWorld, SelfDestructWorld
    DEF DelegateCall
  <2>2. CASE \E a \in Addr, v \in Values : Call(a, v) \/ CallCode(a, v) \/ TxCall(a, v)
    BY <1>1, <2>0, <2>2, CallWorld, RunCodeOfWorld, TxCallWorld DEF CallCode
  <2>3. CASE \E a \in CreateAddrs, v \in Values : Create(a, v) \/ Create2(a, v) \/ TxCreate(a, v)
    BY <1>1, <2>0, <2>3, CreateWorld, TxCreateWorld DEF Create2
  <2>4. CASE \E n \in PushData : Plain(n) \/ Error(n + 1)
    <3>1. \A n \in PushData : n \in Nat /\ n + 1 \in Nat
      BY <2>0
    <3> QED BY <1>1, <2>4, <3>1, PlainWorld
  <2>5. CASE \E d \in Dests : Jump(d)
    BY <1>1, <2>0, <2>5, PlainWorld
  <2>6. CASE \E val \in Words : SStore(val)
    BY <1>1, <2>0, <2>6, SStoreWorld
  <2>7. CASE Environment \/ Log \/ Error(0)
    BY <1>1, <2>7, LogWorld, PlainWorld DEF Environment
  <2>8. CASE SLoad
    <3>1. status = "Running"
      BY <2>8 DEF SLoad, Access, Instruction, Running
    <3> QED BY <1>1, <2>8, <3>1, TopOK, AccessWorld DEF SLoad
  <2>9. CASE Return \/ Revert \/ Unwind
    BY <1>1, <2>9, EndingWorld
  <2> QED BY <1>3, <2>1, <2>2, <2>3, <2>4, <2>5, <2>6, <2>7, <2>8, <2>9 DEF Next
<1> QED BY <1>2, <1>3

-----------------------------------------------------------------------------
(* The theorems.                                                           *)

LEMMA WorldTypeOK ==
  ASSUME WInv, ended \in {"None", "Ok", "Failed", "Refused"}
  PROVE  TypeOK
<1>1. world \in Worlds
  BY DEF WInv, Good
<1>2. ASSUME NEW i \in DOMAIN frames
      PROVE  /\ frames[i].kind \in {"Dummy", "TxCall", "TxCreate", "Create", "Call"}
             /\ frames[i].pc \in Nat /\ frames[i].readOnly \in BOOLEAN
             /\ frames[i].snapshot \in Worlds \cup {NoSnapshot}
  <2>1. i = 1 \/ i \in 2 .. Len(frames)
    BY LenType DEF WInv
  <2>2. CASE i = 1
    <3> DEFINE d == Dummy
    <3>1. frames[i] = d
      BY <2>2 DEF WInv
    <3>2. d.kind = "Dummy" /\ d.pc = 0 /\ d.readOnly = FALSE /\ d.snapshot = NoSnapshot
      BY DEF Dummy, Frame
    <3> HIDE DEF d
    <3>3. FALSE \in BOOLEAN /\ 0 \in Nat
      OBVIOUS
    <3> QED BY <3>1, <3>2, <3>3, Zenon
  <2>3. CASE i \in 2 .. Len(frames)
    <3>1. FrameOK(frames[i])
      BY <2>3 DEF WInv
    <3> QED BY <3>1 DEF FrameOK, Good
  <2> QED BY <2>1, <2>2, <2>3
<1> QED BY <1>1, <1>2 DEF TypeOK, WInv, Accumulators

(* A first transaction that is reverted has changed the nonce of its       *)
(* sender at most, however deep it was when it failed (tx_end).            *)
THEOREM RevertedTransaction == Spec => []RevertedKeepsOnlyNonce
<1>1. Init => WInv
  BY WorldInit
<1>2. WInv /\ [Next]_vars => WInv'
  BY WorldNext
<1>3. WInv => RevertedKeepsOnlyNonce
  BY DEF WInv, FirstTx, Before, RevertedKeepsOnlyNonce
<1> QED BY <1>1, <1>2, <1>3, PTL DEF Spec

(* Nothing that a STATICCALL runs, however deep, changes what can be       *)
(* observed of the state (read_only, exec.rs:1682-1683).                   *)
THEOREM StaticCallsWriteNothing == Spec => StaticWritesNothing
<1> DEFINE Step == (\E i \in DOMAIN frames : frames[i].readOnly)
                     => Observable(world') = Observable(world)
<1>1. Init => WInv
  BY WorldInit
<1>2. WInv /\ [Next]_vars => WInv'
  BY WorldNext
<1>3. WInv /\ [Next]_vars => [Step]_vars
  <2> SUFFICES ASSUME WInv, [Next]_vars, NEW i \in DOMAIN frames, frames[i].readOnly
               PROVE  Observable(world') = Observable(world)
    OBVIOUS
  <2>1. Quiet
    BY WorldNext
  <2>2. Len(frames) \in Nat /\ i \in 1 .. Len(frames)
    BY LenType DEF WInv
  <2>3. i # 1
    BY DEF WInv, Dummy, Frame
  <2>4. i \in 2 .. Len(frames) /\ (i = Len(frames) \/ i < Len(frames))
        /\ Len(frames) \in 2 .. Len(frames)
    BY <2>2, <2>3
  <2>5. Top.readOnly
    BY <2>4 DEF WInv, Static, Top
  <2> QED BY <2>1, <2>5 DEF Quiet
<1> QED BY <1>1, <1>2, <1>3, PTL DEF Spec, StaticWritesNothing

(* The ends of nested calls. *)
LEMMA CallFinished ==
  ASSUME WInv, status = "Running", NEW err, NEW n \in Nat, NEW w, err # Ok => w = world,
         NEW t, NEW k, FinishCall(w, err, n, t, k)
  PROVE  /\ ended' \in {"None", "Ok", "Failed", "Refused"}
         /\ ended' = "Failed" => Observable(world') = Observable(FoundByCall)
<1>1. FrameOK(Top) /\ Len(frames) \in Nat /\ Len(frames) \in 2 .. Len(frames)
  BY TopOK
<1>2. Top.readOnly => Observable(Top.entry) = Observable(world)
  BY <1>1 DEF WInv, Static, Top
<1>3. CASE IsTx(Top)
  BY <1>3 DEF FinishCall, TxEnd, IsTx
<1>4. CASE ~IsTx(Top)
  <2>1. FoundByCall = Top.entry
    <3>1. frames' \in {Callers, Advance(Callers, n)}
      BY <1>4 DEF FinishCall, CreateEnd, CallEnd, IsTx
    <3>2. Shaped(Callers) /\ Len(Callers) = Len(frames) - 1
      BY CallersFacts DEF WInv
    <3>3. Len(Advance(Callers, n)) = Len(Callers)
      BY <1>1, <3>2, AdvanceLike DEF Like
    <3> QED BY <1>1, <3>1, <3>2, <3>3 DEF FoundByCall
  <2>2. CASE Top.kind = "Create"
    <3>1. PICK p \in PostProcessed(Top.callee, IF err # Ok THEN Top.snapshot ELSE w, err) :
            /\ world' = p.state
            /\ ended' = IF err # Ok THEN "Failed" ELSE IF p.ret # Ok THEN "Refused" ELSE "Ok"
      BY <2>2 DEF FinishCall, CreateEnd
    <3>2. CASE err = Ok
      BY <3>1, <3>2
    <3>3. CASE err # Ok
      <4>1. Top.snapshot = Top.entry /\ Good(Top.entry) /\ Top.callee \in Addr
        BY <1>1, <2>2 DEF FrameOK
      <4>2. p \in PostProcessed(Top.callee, Top.entry, err)
        BY <3>1, <3>3, <4>1
      <4>3. world' = Top.entry
        BY <3>1, <3>3, <4>1, <4>2, PostProcessedFacts
      <4> QED BY <2>1, <3>1, <3>3, <4>3
    <3> QED BY <3>2, <3>3
  <2>3. CASE Top.kind = "Call"
    <3>1. /\ world' = CallEndState(Top.snapshot, w, err)
          /\ ended' = IF err # Ok THEN "Failed" ELSE "Ok"
      BY <2>3 DEF FinishCall, CallEnd
    <3>2. CASE err = Ok
      BY <3>1, <3>2
    <3>3. CASE err # Ok /\ Top.snapshot = NoSnapshot
      <4>1. Top.snapshot # Top.entry
        BY <1>1, <3>3, TxAssumption DEF FrameOK, Good
      <4>2. world' = world /\ Top.readOnly
        BY <1>1, <3>1, <3>3, <4>1 DEF CallEndState, FrameOK
      <4> QED BY <1>2, <2>1, <3>1, <3>3, <4>2
    <3>4. CASE err # Ok /\ Top.snapshot # NoSnapshot
      <4>1. world' = Top.entry
        BY <1>1, <3>1, <3>4 DEF CallEndState, FrameOK
      <4> QED BY <2>1, <3>1, <3>4, <4>1
    <3> QED BY <3>2, <3>3, <3>4
  <2> QED BY <1>1, <1>4, <2>2, <2>3 DEF FrameOK, IsTx
<1> QED BY <1>3, <1>4

LEMMA FramelessFinished ==
  ASSUME WInv, status = "Running", NEW w, NEW sn, sn = world \/ (sn = NoSnapshot /\ w = world),
         NEW err, NEW t, ReturnWithoutFrame("Call", sn, w, err, t)
  PROVE  /\ ended' \in {"None", "Ok", "Failed", "Refused"}
         /\ ended' = "Failed" => Observable(world') = Observable(FoundByCall)
<1>1. /\ frames' = Advance(frames, 1) /\ world' = CallEndState(sn, w, err)
      /\ ended' = IF err # Ok THEN "Failed" ELSE "Ok"
  BY DEF ReturnWithoutFrame, CallEnd
<1>2. Len(Advance(frames, 1)) = Len(frames) /\ Len(frames) \in Nat
  BY TopOK, AdvanceLike DEF Like, WInv, TInv
<1>3. FoundByCall = world
  BY <1>1, <1>2 DEF FoundByCall
<1>4. world # NoSnapshot
  BY TxAssumption DEF WInv, Good
<1>5. err # Ok => world' = world
  BY <1>1, <1>4 DEF CallEndState
<1> QED BY <1>1, <1>3, <1>5

(* Whatever the step: a nested call that ended by it and failed has left   *)
(* no trace.                                                               *)
LEMMA EndedStep ==
  ASSUME WInv, Next
  PROVE  /\ ended' \in {"None", "Ok", "Failed", "Refused"}
         /\ ended' = "Failed" => Observable(world') = Observable(FoundByCall)
<1> DEFINE Good1 == /\ ended' \in {"None", "Ok", "Failed", "Refused"}
                    /\ ended' = "Failed" => Observable(world') = Observable(FoundByCall)
<1>1. ASSUME ended' = "None" PROVE Good1
  BY <1>1
<1> HIDE DEF Good1
<1>2. ASSUME NEW n, Plain(n) \/ Jump(n) \/ Error(n) PROVE Good1
  BY <1>1, <1>2 DEF Plain, Jump, Error, Continue, Fail
<1>3. ASSUME NEW a, Access(a) PROVE Good1
  BY <1>1, <1>3 DEF Access, Continue, Fail
<1>4. ASSUME Log \/ \E val : SStore(val) PROVE Good1
  BY <1>1, <1>4 DEF Log, SStore, Continue, Fail, Panic, Crash, Leave
<1>5. ASSUME NEW a, NEW v, Create(a, v) PROVE Good1
  BY <1>1, <1>5 DEF Create, Create_, Enter, Fail
<1>6. ASSUME NEW a, NEW c, NEW v, RunCodeOf(a, c, v) PROVE Good1
  BY <1>1, <1>6 DEF RunCodeOf, Enter, Fail
<1>7. ASSUME NEW a, NEW v, Call(a, v) PROVE Good1
  <2>1. status = "Running"
    BY <1>7 DEF Call, Instruction, Running
  <2>2. CASE Fail(0)
    BY <1>1, <2>2 DEF Fail
  <2>3. CASE Call_("Call", world, a, Top.callee, v)
    <3>1. \/ \E w, err, t : ReturnWithoutFrame("Call", world, w, err, t)
          \/ \E f : Enter(f)
      BY <2>3, Zenon DEF Call_
    <3>2. CASE \E f : Enter(f)
      BY <1>1, <3>2 DEF Enter
    <3>3. CASE \E w, err, t : ReturnWithoutFrame("Call", world, w, err, t)
      BY <2>1, <3>3, FramelessFinished DEF Good1
    <3> QED BY <3>1, <3>2, <3>3
  <2> QED BY <1>7, <2>2, <2>3 DEF Call
<1>8. ASSUME NEW a, StaticCall(a) PROVE Good1
  <2>1. status = "Running"
    BY <1>8 DEF StaticCall, Instruction, Running
  <2>2. CASE Fail(0) \/ \E f : Enter(f)
    BY <1>1, <2>2 DEF Fail, Enter
  <2>3. CASE \E err \in {Ok, Failed} : ReturnWithoutFrame("Call", NoSnapshot, world, err, dirty)
    BY <2>1, <2>3, FramelessFinished DEF Good1
  <2> QED BY <1>8, <2>2, <2>3 DEF StaticCall
<1>9. ASSUME NEW a, SelfDestruct(a) PROVE Good1
  <2>1. status = "Running" /\ \E w, t, k : FinishCall(w, Ok, 1, t, k)
    BY <1>9 DEF SelfDestruct, Ending, Running
  <2> QED BY <2>1, CallFinished DEF Good1
<1>10. ASSUME Return \/ Revert \/ Unwind PROVE Good1
  <2>1. /\ status = "Running" /\ adv \in Nat
        /\ \E err : \E n \in {1, adv} : FinishCall(world, err, n, dirty, destroyed)
    BY <1>10 DEF Return, Revert, Unwind, Ending, Running, WInv, Accumulators
  <2> QED BY <2>1, CallFinished DEF Good1
<1>11. ASSUME NEW a, NEW v, TxCall(a, v) PROVE Good1
  <2>1. CASE Call_("TxCall", Raised(world), a, Origin, v)
    <3>1. \/ \E sn, w, err, t : ReturnWithoutFrame("TxCall", sn, w, err, t)
          \/ \E f : Enter(f)
      BY <2>1, Zenon DEF Call_
    <3> QED BY <1>1, <3>1 DEF ReturnWithoutFrame, TxEnd, Enter
  <2> QED BY <1>1, <1>11, <2>1 DEF TxCall, FailTx, Crash, Leave
<1>12. ASSUME NEW a, NEW v, TxCreate(a, v) PROVE Good1
  BY <1>1, <1>12 DEF TxCreate, FailTx, Leave, Create_, Enter
<1>13. Good1
  BY <1>2, <1>3, <1>4, <1>5, <1>6, <1>7, <1>8, <1>9, <1>10, <1>11, <1>12
  DEF Next, Environment, SLoad, Create2, DelegateCall, CallCode
<1> QED BY <1>13 DEF Good1

(* A nested call that fails puts back all that can be observed of the      *)
(* state it found, whatever was called in between and however it failed:   *)
(* by REVERT, by another error, or as a precompiled contract; so does a    *)
(* creation whose init code fails (call_end, create_end).                  *)
THEOREM FailedCallsLeaveNoTrace == Spec => FailureLeavesNoTrace
<1> DEFINE Step == ended' = "Failed" => Observable(world') = Observable(FoundByCall)
<1>1. Init => WInv
  BY WorldInit
<1>2. WInv /\ [Next]_vars => WInv'
  BY WorldNext
<1>3. WInv /\ [Next]_vars => [Step]_vars
  BY EndedStep
<1> QED BY <1>1, <1>2, <1>3, PTL DEF Spec, FailureLeavesNoTrace

(* The state, snapshots and accumulators of exec.rs keep their types,      *)
(* whatever the code of the contracts: no balance goes below zero and no   *)
(* nonce past u64::MAX.                                                    *)
THEOREM TxTypes == Spec => []TypeOK
<1> DEFINE EndedOK == ended \in {"None", "Ok", "Failed", "Refused"}
<1>1. Init => WInv /\ EndedOK
  BY WorldInit DEF Init
<1>2. WInv /\ EndedOK /\ [Next]_vars => (WInv /\ EndedOK)'
  <2> SUFFICES ASSUME WInv, EndedOK, [Next]_vars PROVE WInv' /\ EndedOK'
    OBVIOUS
  <2>1. WInv'
    BY WorldNext
  <2>2. CASE Next
    BY <2>1, <2>2, EndedStep
  <2>3. CASE UNCHANGED vars
    BY <2>1, <2>3 DEF vars
  <2> QED BY <2>2, <2>3
<1>3. WInv /\ EndedOK => TypeOK
  BY WorldTypeOK
<1> QED BY <1>1, <1>2, <1>3, PTL DEF Spec

-----------------------------------------------------------------------------
(* Sums of balances, by the definition of MapThenSumSet.                   *)

Pick(s) == CHOOSE x \in s : TRUE
SumDef(b, g, s) == IF s = {} THEN 0 ELSE b[Pick(s)] + g[s \ {Pick(s)}]
IsSum(b, g, C) == g = [s \in C |-> SumDef(b, g, s)]

(* What the balances b of the accounts in s add up to. *)
Sums(b) == CHOOSE g : IsSum(b, g, SUBSET Addr)

LEMMA TotalIs ==
  ASSUME NEW w
  PROVE  Total(w) = Sums(w.balance)[Addr]
BY DEF Total, MapThenSumSet, MapThenFoldSet, Sums, IsSum, SumDef, Pick

(* Sets of accounts are finite; taking one out makes them smaller. *)
LEMMA Smaller ==
  ASSUME NEW s \in SUBSET Addr
  PROVE  /\ Cardinality(s) \in Nat
         /\ \A x \in s : /\ s \ {x} \in SUBSET Addr
                         /\ Cardinality(s \ {x}) \in Nat
                         /\ Cardinality(s \ {x}) < Cardinality(s)
         /\ s # {} => Pick(s) \in s
<1>1. IsFiniteSet(s)
  BY AddrAssumption, FS_Subset
<1>2. Cardinality(s) \in Nat
  BY <1>1, FS_CardinalityType
<1>3. ASSUME NEW x \in s
      PROVE  Cardinality(s \ {x}) \in Nat /\ Cardinality(s \ {x}) < Cardinality(s)
  <2>1. IsFiniteSet(s \ {x}) /\ Cardinality(s \ {x}) = Cardinality(s) - 1
    BY <1>1, FS_RemoveElement
  <2>2. Cardinality(s \ {x}) \in Nat
    BY <2>1, FS_CardinalityType
  <2> QED BY <1>2, <2>1, <2>2
<1>4. s # {} => Pick(s) \in s
  BY DEF Pick
<1> QED BY <1>2, <1>3, <1>4

(* What holds of a set of accounts if it holds of all smaller ones, holds  *)
(* of every one.                                                           *)
LEMMA AddrInd ==
  ASSUME NEW Q,
         \A s \in SUBSET Addr :
           (\A t \in SUBSET Addr : Cardinality(t) < Cardinality(s) => t \in Q) => s \in Q
  PROVE  \A s \in SUBSET Addr : s \in Q
<1> DEFINE S == {n \in Nat : \A s \in SUBSET Addr : Cardinality(s) < n => s \in Q}
<1>1. \A s \in SUBSET Addr : Cardinality(s) \in Nat
  BY Smaller
<1>2. 0 \in S
  BY <1>1
<1>3. ASSUME NEW n \in Nat, n \in S PROVE n + 1 \in S
  <2> SUFFICES ASSUME NEW s \in SUBSET Addr, Cardinality(s) < n + 1 PROVE s \in Q
    OBVIOUS
  <2>1. ASSUME NEW t \in SUBSET Addr, Cardinality(t) < Cardinality(s) PROVE t \in Q
    <3>1. Cardinality(t) < n
      BY <1>1, <2>1
    <3> QED BY <1>3, <3>1
  <2> QED BY <2>1
<1> HIDE DEF S
<1>4. \A n \in Nat : n \in S
  BY <1>2, <1>3, NatInd
<1>5. ASSUME NEW s \in SUBSET Addr PROVE s \in Q
  <2>1. Cardinality(s) + 1 \in Nat /\ Cardinality(s) < Cardinality(s) + 1
    BY <1>1
  <2> QED BY <1>4, <2>1 DEF S
<1> QED BY <1>5

(* The sums are well defined. *)
LEMMA SumExists ==
  ASSUME NEW b
  PROVE  IsSum(b, Sums(b), SUBSET Addr)
<1> DEFINE C(n) == {s \in SUBSET Addr : Cardinality(s) <= n}
           S == {n \in Nat : \E g : IsSum(b, g, C(n))}
<1>1. ASSUME NEW n \in Nat, NEW s \in C(n + 1), s # {}
      PROVE  s \ {Pick(s)} \in C(n)
  <2> DEFINE p == Pick(s)
             r == s \ {p}
  <2>1. p \in s /\ Cardinality(s) \in Nat
    BY <1>1, Smaller
  <2> HIDE DEF p
  <2>2. r \in SUBSET Addr /\ Cardinality(r) \in Nat /\ Cardinality(r) < Cardinality(s)
    BY <2>1, Smaller
  <2>3. Cardinality(s) <= n + 1
    OBVIOUS
  <2> HIDE DEF r
  <2>4. Cardinality(r) <= n
    BY <2>1, <2>2, <2>3
  <2> QED BY <2>2, <2>4 DEF p, r
<1>2. 0 \in S
  <2>1. C(0) = {{}}
    <3>1. ASSUME NEW s \in SUBSET Addr, s # {} PROVE Cardinality(s) > 0
      <4>1. PICK x \in s : TRUE
        BY <3>1
      <4>2. /\ Cardinality(s \ {x}) \in Nat /\ Cardinality(s) \in Nat
            /\ Cardinality(s \ {x}) < Cardinality(s)
        BY Smaller
      <4> QED BY <4>2
    <3>2. Cardinality({}) = 0
      BY FS_EmptySet
    <3>3. \A s \in C(0) : s = {}
      BY <3>1, Smaller
    <3> QED BY <3>2, <3>3
  <2> HIDE DEF C
  <2>2. IsSum(b, [s \in C(0) |-> 0], C(0))
    BY <2>1 DEF IsSum, SumDef
  <2> QED BY <2>2
<1>3. ASSUME NEW n \in Nat, n \in S PROVE n + 1 \in S
  <2>1. PICK g : IsSum(b, g, C(n))
    BY <1>3
  <2> DEFINE h == [s \in C(n + 1) |-> IF s \in C(n) THEN g[s] ELSE SumDef(b, g, s)]
  <2>2. C(n) \subseteq C(n + 1)
    BY Smaller
  <2>3. ASSUME NEW s \in C(n), s # {} PROVE s \ {Pick(s)} \in C(n)
    BY <1>1, <2>2, <2>3
  <2> HIDE DEF C
  <2>4. \A s \in C(n) : g[s] = SumDef(b, g, s)
    BY <2>1 DEF IsSum
  <2>5. /\ \A s \in C(n) : h[s] = g[s]
        /\ \A s \in C(n + 1) : h[s] = IF s \in C(n) THEN g[s] ELSE SumDef(b, g, s)
        /\ h = [s \in C(n + 1) |-> h[s]]
    BY <2>2
  <2> HIDE DEF h
  <2>6. ASSUME NEW s \in C(n + 1) PROVE h[s] = SumDef(b, h, s)
    <3>1. SumDef(b, h, s) = SumDef(b, g, s)
      BY <1>1, <2>5 DEF SumDef
    <3> QED BY <2>4, <2>5, <3>1
  <2>7. IsSum(b, h, C(n + 1))
    BY <2>5, <2>6 DEF IsSum
  <2> QED BY <2>7
<1>4. PICK g : IsSum(b, g, SUBSET Addr)
  <2> DEFINE n == Cardinality(Addr)
  <2>1. n \in Nat /\ \A s \in SUBSET Addr : Cardinality(s) <= n
    BY AddrAssumption, FS_CardinalityType, FS_Subset
  <2>2. C(n) = SUBSET Addr
    BY <2>1
  <2> HIDE DEF C, S
  <2>3. \A m \in Nat : m \in S
    BY <1>2, <1>3, NatInd
  <2>4. n \in S
    BY <2>1, <2>3
  <2> QED BY <2>2, <2>4 DEF S
<1> QED BY <1>4, Zenon DEF Sums

LEMMA SumsEq ==
  ASSUME NEW b
  PROVE  /\ Sums(b)[{}] = 0
         /\ \A s \in SUBSET Addr : s # {} =>
              Sums(b)[s] = b[Pick(s)] + Sums(b)[s \ {Pick(s)}]
<1> DEFINE g == Sums(b)
<1>1. IsSum(b, g, SUBSET Addr)
  BY SumExists
<1> HIDE DEF g
<1>2. \A s \in SUBSET Addr : g[s] = SumDef(b, g, s)
  BY <1>1 DEF IsSum
<1> QED BY <1>2 DEF SumDef, g

LEMMA SumsNat ==
  ASSUME NEW b \in [Addr -> Nat]
  PROVE  \A s \in SUBSET Addr : Sums(b)[s] \in Nat
<1> DEFINE g == Sums(b)
           Q == {s \in SUBSET Addr : g[s] \in Nat}
<1>0. g[{}] = 0 /\ \A s \in SUBSET Addr : s # {} => g[s] = b[Pick(s)] + g[s \ {Pick(s)}]
  BY SumsEq
<1> HIDE DEF g
<1>1. ASSUME NEW s \in SUBSET Addr,
             \A t \in SUBSET Addr : Cardinality(t) < Cardinality(s) => t \in Q
      PROVE  s \in Q
  <2>1. CASE s = {}
    BY <1>0, <2>1
  <2>2. CASE s # {}
    <3> DEFINE p == Pick(s)
    <3>1. p \in s /\ s \ {p} \in SUBSET Addr /\ Cardinality(s \ {p}) < Cardinality(s)
      BY <2>2, Smaller
    <3>2. g[s \ {p}] \in Nat /\ b[p] \in Nat
      BY <1>1, <3>1
    <3>3. g[s] = b[p] + g[s \ {p}]
      BY <1>0, <2>2
    <3> HIDE DEF p
    <3>4. g[s] \in Nat
      BY <3>2, <3>3
    <3> QED BY <3>4
  <2> QED BY <2>1, <2>2
<1> HIDE DEF Q
<1>2. \A s \in SUBSET Addr : s \in Q
  BY <1>1, AddrInd
<1> QED BY <1>2 DEF Q, g

(* Whichever account is counted first. *)
LEMMA SumsAny ==
  ASSUME NEW b \in [Addr -> Nat]
  PROVE  \A s \in SUBSET Addr : \A x \in s : Sums(b)[s] = b[x] + Sums(b)[s \ {x}]
<1> DEFINE g == Sums(b)
           Q == {s \in SUBSET Addr : \A x \in s : g[s] = b[x] + g[s \ {x}]}
<1>0. \A s \in SUBSET Addr : s # {} => g[s] = b[Pick(s)] + g[s \ {Pick(s)}]
  BY SumsEq
<1>9. \A s \in SUBSET Addr : g[s] \in Nat
  BY SumsNat
<1> HIDE DEF g
<1>1. ASSUME NEW s \in SUBSET Addr,
             \A t \in SUBSET Addr : Cardinality(t) < Cardinality(s) => t \in Q
      PROVE  s \in Q
  <2> SUFFICES ASSUME NEW x \in s PROVE g[s] = b[x] + g[s \ {x}]
    OBVIOUS
  <2> DEFINE p == Pick(s)
             r == (s \ {p}) \ {x}
  <2>1. /\ p \in s /\ s \ {p} \in SUBSET Addr /\ s \ {x} \in SUBSET Addr
        /\ Cardinality(s \ {p}) < Cardinality(s) /\ Cardinality(s \ {x}) < Cardinality(s)
    BY Smaller
  <2>2. g[s] = b[p] + g[s \ {p}]
    BY <1>0
  <2>3. CASE p = x
    BY <2>2, <2>3
  <2>4. CASE p # x
    <3> HIDE DEF p
    <3>1. s \ {p} \in Q /\ s \ {x} \in Q
      BY <1>1, <2>1
    <3>2. x \in s \ {p} /\ p \in s \ {x} /\ (s \ {x}) \ {p} = r
      BY <2>1, <2>4
    <3>3. g[s \ {p}] = b[x] + g[r] /\ g[s \ {x}] = b[p] + g[(s \ {x}) \ {p}]
      BY <3>1, <3>2
    <3>4. b[x] \in Nat /\ b[p] \in Nat /\ g[r] \in Nat
      BY <1>9, <2>1
    <3>5. g[s \ {x}] = b[p] + g[r]
      BY <3>2, <3>3
    <3> HIDE DEF r
    <3>6. g[s] = b[p] + (b[x] + g[r])
      BY <2>2, <3>3
    <3> QED BY <3>4, <3>5, <3>6
  <2> QED BY <2>3, <2>4
<1> HIDE DEF Q
<1>2. \A s \in SUBSET Addr : s \in Q
  BY <1>1, AddrInd
<1> QED BY <1>2 DEF Q, g

(* Who has at most as much, adds up to at most as much. *)
LEMMA SumsMono ==
  ASSUME NEW b \in [Addr -> Nat], NEW c \in [Addr -> Nat], NEW T \in SUBSET Addr,
         \A a \in T : b[a] <= c[a]
  PROVE  Sums(b)[T] <= Sums(c)[T]
<1> DEFINE g == Sums(b)
           h == Sums(c)
           Q == {s \in SUBSET Addr : s \subseteq T => g[s] <= h[s]}
<1>0. /\ g[{}] = 0 /\ \A s \in SUBSET Addr : s # {} => g[s] = b[Pick(s)] + g[s \ {Pick(s)}]
      /\ h[{}] = 0 /\ \A s \in SUBSET Addr : s # {} => h[s] = c[Pick(s)] + h[s \ {Pick(s)}]
  BY SumsEq
<1>9. \A s \in SUBSET Addr : g[s] \in Nat /\ h[s] \in Nat
  BY SumsNat
<1> HIDE DEF g, h
<1>1. ASSUME NEW s \in SUBSET Addr,
             \A t \in SUBSET Addr : Cardinality(t) < Cardinality(s) => t \in Q
      PROVE  s \in Q
  <2> SUFFICES ASSUME s \subseteq T PROVE g[s] <= h[s]
    OBVIOUS
  <2>1. CASE s = {}
    BY <1>0, <2>1
  <2>2. CASE s # {}
    <3> DEFINE p == Pick(s)
    <3>1. p \in s /\ s \ {p} \in SUBSET Addr /\ Cardinality(s \ {p}) < Cardinality(s)
      BY <2>2, Smaller
    <3>2. g[s \ {p}] <= h[s \ {p}]
      BY <1>1, <3>1
    <3>3. b[p] \in Nat /\ c[p] \in Nat /\ b[p] <= c[p]
      BY <3>1
    <3>4. g[s \ {p}] \in Nat /\ h[s \ {p}] \in Nat
      BY <1>9, <3>1
    <3>5. g[s] = b[p] + g[s \ {p}] /\ h[s] = c[p] + h[s \ {p}]
      BY <1>0, <2>2
    <3> HIDE DEF p
    <3> QED BY <3>2, <3>3, <3>4, <3>5
  <2> QED BY <2>1, <2>2
<1> HIDE DEF Q
<1>2. \A s \in SUBSET Addr : s \in Q
  BY <1>1, AddrInd
<1> QED BY <1>2 DEF Q, g, h

LEMMA SumsUpdate ==
  ASSUME NEW b \in [Addr -> Nat], NEW a \in Addr, NEW v \in Nat
  PROVE  Sums([b EXCEPT ![a] = v])[Addr] = Sums(b)[Addr] - b[a] + v
<1> DEFINE c == [b EXCEPT ![a] = v]
           R == Addr \ {a}
<1>1. c \in [Addr -> Nat] /\ c[a] = v /\ \A x \in R : c[x] = b[x]
  OBVIOUS
<1> HIDE DEF c
<1>2. /\ Sums(b)[Addr] = b[a] + Sums(b)[R]
      /\ Sums(c)[Addr] = c[a] + Sums(c)[R]
  BY <1>1, SumsAny
<1>3. /\ Sums(b)[R] \in Nat /\ Sums(c)[R] \in Nat /\ b[a] \in Nat
  BY <1>1, SumsNat
<1>4. \A x \in R : c[x] <= b[x] /\ b[x] <= c[x]
  BY <1>1
<1>5. R \in SUBSET Addr
  OBVIOUS
<1> HIDE DEF R
<1>6. Sums(b)[R] <= Sums(c)[R]
  BY <1>1, <1>4, <1>5, SumsMono
<1>7. Sums(c)[R] <= Sums(b)[R]
  BY <1>1, <1>4, <1>5, SumsMono
<1> QED BY <1>1, <1>2, <1>3, <1>6, <1>7 DEF c

LEMMA TotalNat ==
  ASSUME NEW w \in Worlds
  PROVE  Total(w) \in Nat
BY TotalIs, SumsNat, WorldTypes

LEMMA TotalSame ==
  ASSUME NEW w, NEW x, x.balance = w.balance
  PROVE  Total(x) = Total(w)
BY TotalIs

LEMMA SetBalanceTotal ==
  ASSUME NEW w \in Worlds, NEW a \in Addr, NEW v \in Nat
  PROVE  Total(SetBalance(w, a, v)) = Total(w) - w.balance[a] + v
<1> DEFINE b == w.balance
           x == SetBalance(w, a, v)
<1>1. b \in [Addr -> Nat]
  BY WorldTypes
<1>2. x.balance = [b EXCEPT ![a] = v]
  BY DEF SetBalance, Worlds
<1>3. Sums([b EXCEPT ![a] = v])[Addr] = Sums(b)[Addr] - b[a] + v
  BY <1>1, SumsUpdate
<1> HIDE DEF x
<1> QED BY <1>2, <1>3, TotalIs DEF x

(* What does not touch a balance. *)
LEMMA BalanceKept ==
  ASSUME NEW w \in Worlds, NEW a, NEW v
  PROVE  /\ SetNonce(w, a, v).balance = w.balance /\ SetCode(w, a, v).balance = w.balance
         /\ SetState(w, a, v).balance = w.balance /\ AddLog(w).balance = w.balance
         /\ CreateAccount(w, a).balance = w.balance
BY DEF SetNonce, SetCode, SetState, AddLog, CreateAccount, Worlds

(* A transfer moves money, to oneself too. *)
LEMMA TransferTotal ==
  ASSUME NEW w, Good(w), NEW from \in Addr, NEW to \in Addr, NEW v \in Nat,
         ~(w.balance[from] < v)
  PROVE  Total(Transfer(w, from, to, v)) = Total(w)
<1> DEFINE rest == w.balance[from] - v
           paid == SetBalance(w, from, rest)
           sum == paid.balance[to] + v
<1>1. w.balance[from] \in Nat /\ w \in Worlds
  BY WorldTypes DEF Good
<1>2. rest \in Nat
  BY <1>1
<1>3. Total(paid) = Total(w) - w.balance[from] + rest
  BY <1>1, <1>2, SetBalanceTotal
<1>4. Good(paid)
  <2> HIDE DEF rest
  <2> QED BY <1>2, SetBalanceGood
<1>5. Transfer(w, from, to, v) = SetBalance(paid, to, sum)
  BY DEF Transfer
<1> HIDE DEF paid
<1>6. paid.balance[to] \in Nat /\ paid \in Worlds
  BY <1>4, WorldTypes DEF Good
<1>7. sum \in Nat
  BY <1>6
<1>8. Total(SetBalance(paid, to, sum)) = Total(paid) - paid.balance[to] + sum
  BY <1>6, <1>7, SetBalanceTotal
<1>9. Total(w) \in Nat /\ Total(paid) \in Nat
  BY <1>1, <1>6, TotalNat
<1> QED BY <1>1, <1>3, <1>5, <1>6, <1>8, <1>9

(* Deleting accounts loses what they have. *)
LEMMA DeleteTotal ==
  ASSUME NEW w \in Worlds, NEW S
  PROVE  /\ Total(DeleteAccounts(w, S)) <= Total(w)
         /\ (\A a \in Addr : a \in S => w.balance[a] = 0)
              => Total(DeleteAccounts(w, S)) = Total(w)
<1> DEFINE b == w.balance
           c == [a \in Addr |-> IF a \in S THEN 0 ELSE b[a]]
           d == DeleteAccounts(w, S)
<1>1. b \in [Addr -> Nat]
  BY WorldTypes
<1>2. d.balance = c
  BY DEF DeleteAccounts
<1>3. c \in [Addr -> Nat] /\ \A a \in Addr : c[a] <= b[a]
  BY <1>1
<1>4. (\A a \in Addr : a \in S => b[a] = 0) => c = b
  BY <1>1
<1> HIDE DEF c, d
<1>5. Sums(c)[Addr] <= Sums(b)[Addr]
  BY <1>1, <1>3, SumsMono
<1>6. Total(d) = Sums(c)[Addr] /\ Total(w) = Sums(b)[Addr]
  BY <1>2, TotalIs
<1> QED BY <1>4, <1>5, <1>6 DEF d

-----------------------------------------------------------------------------
(* Money.                                                                  *)

(* A state that has no more than there was in the beginning and, as long   *)
(* as nothing is to be destroyed, as much as there is now.                 *)
Backed(w) ==
  /\ Total(w) <= Total(World0)
  /\ destroyed = {} => Total(w) = Total(world)

MoneyInv ==
  /\ Total(world) <= Total(World0)
  /\ \A i \in 2 .. Len(frames) :
       frames[i].snapshot = NoSnapshot \/ Backed(frames[i].snapshot)

LEMMA BackedWorld == ASSUME MoneyInv PROVE Backed(world)
BY DEF MoneyInv, Backed

LEMMA BackedBy ==
  ASSUME MoneyInv, NEW w, Total(w) = Total(world)
  PROVE  Backed(w)
BY DEF MoneyInv, Backed

LEMMA StepMoney ==
  ASSUME Backed(world'), destroyed' = destroyed,
         \A i \in 2 .. Len(frames') :
           frames'[i].snapshot = NoSnapshot \/ Backed(frames'[i].snapshot)
  PROVE  MoneyInv'
BY DEF MoneyInv, Backed

LEMMA KeepMoney ==
  ASSUME MoneyInv, Backed(world'), destroyed' = destroyed, SameStack(frames', frames)
  PROVE  MoneyInv'
<1>1. \A i \in 2 .. Len(frames) : frames'[i].snapshot = frames[i].snapshot
  BY DEF SameStack, Same
<1>2. Len(frames') = Len(frames)
  BY DEF SameStack
<1>3. \A i \in 2 .. Len(frames) : frames[i].snapshot = NoSnapshot \/ Backed(frames[i].snapshot)
  BY DEF MoneyInv
<1> QED BY <1>1, <1>2, <1>3, StepMoney

LEMMA ContinueMoney ==
  ASSUME WInv, MoneyInv, status = "Running", NEW n \in Nat, Continue(n), Backed(world')
  PROVE  MoneyInv'
<1>1. SameStack(frames', frames)
  BY TopOK, AdvanceSame DEF Continue, WInv
<1> QED BY <1>1, KeepMoney DEF Continue

LEMMA FailMoney ==
  ASSUME WInv, MoneyInv, NEW n, Fail(n) \/ FailTx \/ Crash, Backed(world')
  PROVE  MoneyInv'
<1>1. frames' = frames /\ destroyed' = destroyed
  BY DEF Fail, FailTx, Crash, Leave
<1>2. \A i \in 2 .. Len(frames) : frames[i].snapshot = NoSnapshot \/ Backed(frames[i].snapshot)
  BY DEF MoneyInv
<1> QED BY <1>1, <1>2, StepMoney

LEMMA EnterMoney ==
  ASSUME WInv, MoneyInv, NEW f, {"readOnly", "snapshot"} \subseteq DOMAIN f, Enter(f),
         f.snapshot = NoSnapshot \/ Backed(f.snapshot), Backed(world')
  PROVE  MoneyInv'
<1> DEFINE g == [f EXCEPT !.readOnly = @ \/ Top.readOnly]
           n == Len(frames)
<1>1. frames' = Append(frames, g) /\ destroyed' = destroyed
  BY DEF Enter, Pushed
<1>2. g.snapshot = f.snapshot
  OBVIOUS
<1> HIDE DEF g
<1>3. IsSeq(frames) /\ n \in Nat \ {0} /\ DOMAIN frames = 1 .. n
  BY LenType DEF WInv, TInv, Shaped
<1>4. /\ Len(frames') = n + 1 /\ frames'[n + 1] = g
      /\ \A i \in 1 .. n : frames'[i] = frames[i]
  BY <1>1, <1>3, IsSeqAppend
<1>5. ASSUME NEW i \in 2 .. n + 1
      PROVE  frames'[i].snapshot = NoSnapshot \/ Backed(frames'[i].snapshot)
  <2>1. CASE i = n + 1
    BY <1>2, <1>4, <2>1
  <2>2. CASE i # n + 1
    <3>1. i \in 2 .. n /\ i \in 1 .. n
      BY <1>3, <2>2
    <3> QED BY <1>4, <3>1 DEF MoneyInv
  <2> QED BY <2>1, <2>2
<1> QED BY <1>1, <1>4, <1>5, StepMoney

LEMMA PostProcessedTotal ==
  ASSUME NEW a, NEW w, Good(w), NEW err, NEW p \in PostProcessed(a, w, err)
  PROVE  Total(p.state) = Total(w)
<1>1. p.state = w \/ \E c \in BOOLEAN : p.state = SetCode(w, a, c)
  BY DEF PostProcessed
<1>2. p.state.balance = w.balance
  BY <1>1, BalanceKept DEF Good
<1> QED BY <1>2, TotalSame

(* The clean-up of tx_end deletes what is empty and what is destroyed. *)
LEMMA TxEndMoney ==
  ASSUME NEW created \in Addr \cup {NoAddr}, NEW sn, Good(sn), NEW w, Good(w),
         NEW err, NEW t, NEW k, TxEnd(created, sn, w, err, t, k)
  PROVE  /\ Total(world') <= Total(sn) \/ Total(world') <= Total(w)
         /\ k = {} => Total(world') \in {Total(sn), Total(w)}
         /\ destroyed' = {}
<1> DEFINE P == IF created = NoAddr
                THEN {[state |-> w, ret |-> err, dirty |-> {Origin}]}
                ELSE PostProcessed(created, w, err)
           E(p) == IF Fork >= SpuriousDragon
                   THEN {a \in t \cup p.dirty : IsEmpty(p.state, a)} ELSE {}
<1>1. PICK p \in P :
        /\ world'  = TxEndState(p.ret, sn, DeleteAccounts(p.state, E(p) \cup k))
        /\ destroyed' = {}
  BY Zenon DEF TxEnd
<1>2. Total(p.state) = Total(w) /\ Good(p.state)
  BY PostProcessedTotal, PostProcessedFacts
<1> HIDE DEF P
<1> DEFINE x == p.state
           S == E(p) \cup k
           d == DeleteAccounts(x, S)
<1>3. \A a \in E(p) : x.balance[a] = 0
  BY DEF IsEmpty
<1>4. x \in Worlds
  BY <1>2 DEF Good
<1> HIDE DEF x, E
<1>5. Total(d) <= Total(x)
  BY <1>4, DeleteTotal
<1>6. k = {} => Total(d) = Total(x)
  <2> SUFFICES ASSUME k = {} PROVE Total(d) = Total(x)
    OBVIOUS
  <2>1. \A a \in Addr : a \in S => x.balance[a] = 0
    BY <1>3
  <2> HIDE DEF S
  <2> QED BY <1>4, <2>1, DeleteTotal
<1>7. world' \in {sn, d}
  BY <1>1 DEF TxEndState, x
<1>8. Total(sn) <= Total(sn)
  BY TotalNat DEF Good
<1> HIDE DEF d
<1> QED BY <1>1, <1>2, <1>5, <1>6, <1>7, <1>8 DEF x

(* A transaction is over. *)
LEMMA OverMoney ==
  ASSUME WInv, MoneyInv, NEW created \in Addr \cup {NoAddr}, NEW sn, Good(sn), NEW w, Good(w),
         NEW err, NEW t, NEW k, TxEnd(created, sn, w, err, t, k),
         Total(w) <= Total(World0), Total(sn) <= Total(World0), Len(frames') = 1
  PROVE  /\ MoneyInv'
         /\ k = {} /\ Total(w) = Total(world) /\ Total(sn) = Total(world)
              => Total(world') = Total(world)
<1>1. /\ Total(world') <= Total(sn) \/ Total(world') <= Total(w)
      /\ k = {} => Total(world') \in {Total(sn), Total(w)}
  BY TxEndMoney
<1>2. Good(world')
  BY TxEndFacts
<1>3. /\ Total(w) \in Nat /\ Total(sn) \in Nat /\ Total(World0) \in Nat /\ Total(world') \in Nat
  BY <1>2, TotalNat, TxAssumption DEF Good
<1>4. Total(world') <= Total(World0)
  BY <1>1, <1>3
<1>5. MoneyInv'
  BY <1>4 DEF MoneyInv
<1> QED BY <1>1, <1>5

(* A frame is left. *)
LEMMA FinishMoney ==
  ASSUME WInv, MoneyInv, status = "Running", NEW w, Good(w), NEW err, NEW n \in Nat,
         NEW t, NEW k, FinishCall(w, err, n, t, k), Total(w) <= Total(World0),
         (k = destroyed /\ Backed(w)) \/ k # {}
  PROVE  /\ MoneyInv'
         /\ k = {} => Total(world') = Total(world)
<1> DEFINE m == Len(frames)
<1>1. /\ m \in Nat /\ m >= 2 /\ FrameOK(Top) /\ Top = frames[m] /\ m \in 2 .. m
  BY TopOK DEF Top
<1>2. /\ IsSeq(Callers) /\ Len(Callers) = m - 1
      /\ \A i \in 1 .. m - 1 : Callers[i] = frames[i]
  BY CallersFacts DEF WInv, Shaped
<1>3. /\ Top.callee \in Addr /\ Good(Top.entry)
      /\ Top.kind # "Call" => Top.snapshot = Top.entry
      /\ Top.snapshot # NoSnapshot => Top.snapshot = Top.entry
  BY <1>1 DEF FrameOK
<1>4. Top.snapshot = NoSnapshot \/ Backed(Top.snapshot)
  BY <1>1 DEF MoneyInv
<1>5. NoSnapshot \notin Worlds
  BY TxAssumption
<1>6. CASE IsTx(Top)
  <2>1. m = 2
    <3>1. \A i \in 3 .. m : frames[i].kind \in {"Create", "Call"}
      BY DEF WInv, TInv, StackDiscipline
    <3>2. m >= 3 => m \in 3 .. m
      BY <1>1
    <3>3. ~(m >= 3)
      BY <1>1, <1>6, <3>1, <3>2 DEF IsTx
    <3> HIDE DEF m
    <3> QED BY <1>1, <3>3
  <2>2. frames' = Callers /\ Len(frames') = 1
    BY <1>2, <1>6, <2>1 DEF FinishCall, IsTx
  <2>3. Good(Top.snapshot) /\ Backed(Top.snapshot)
    BY <1>3, <1>4, <1>5, <1>6 DEF IsTx, Good
  <2> DEFINE created == IF Top.kind = "TxCreate" THEN Top.callee ELSE NoAddr
             sn == Top.snapshot
  <2>4. TxEnd(created, sn, w, err, t, k)
    BY <1>6 DEF FinishCall, IsTx
  <2>5. created \in Addr \cup {NoAddr}
    BY <1>3
  <2> HIDE DEF created, sn
  <2>6. /\ MoneyInv'
        /\ k = {} /\ Total(w) = Total(world) /\ Total(sn) = Total(world)
             => Total(world') = Total(world)
    BY <2>2, <2>3, <2>4, <2>5, OverMoney DEF sn, Backed
  <2> QED BY <2>3, <2>6 DEF Backed, sn
<1>7. CASE ~IsTx(Top)
  <2>1. Top.kind \in {"Create", "Call"}
    BY <1>1, <1>7 DEF FrameOK, IsTx
  <2>2. /\ m >= 3
        /\ SameStack(Callers, Callers) /\ SameStack(Advance(Callers, n), Callers)
    <3>1. IsTx(frames[2])
      BY DEF WInv, TInv, StackDiscipline
    <3>2. m >= 3
      BY <1>1, <1>7, <3>1
    <3>3. ASSUME NEW i \in 2 .. Len(Callers) PROVE FrameOK(Callers[i])
      <4>1. i \in 1 .. m - 1 /\ i \in 2 .. m
        BY <1>1, <1>2, <3>2
      <4> QED BY <1>2, <4>1 DEF WInv
    <3>4. Len(Callers) >= 2
      BY <1>1, <1>2, <3>2
    <3> QED BY <1>2, <3>2, <3>3, <3>4, SameItself, AdvanceSame
  (* What the caller finds. *)
  <2>3. /\ frames' \in {Callers, Advance(Callers, n)} /\ destroyed' = k
        /\ \/ Total(world') = Total(w)
           \/ Top.snapshot # NoSnapshot /\ Total(world') = Total(Top.snapshot)
    <3>1. CASE Top.kind = "Create"
      <4>1. CreateEnd(Top, n, w, err, t, k)
        BY <3>1 DEF FinishCall
      <4> DEFINE v == IF err # Ok THEN Top.snapshot ELSE w
      <4>2. Good(v)
        BY <1>3, <3>1
      <4>3. PICK p \in PostProcessed(Top.callee, v, err) :
              world' = p.state /\ destroyed' = k /\ frames' = Advance(Callers, n)
        BY <4>1 DEF CreateEnd
      <4> HIDE DEF v
      <4>4. Total(world') = Total(v)
        BY <4>2, <4>3, PostProcessedTotal
      <4>5. Top.snapshot # NoSnapshot
        BY <1>3, <1>5, <3>1 DEF Good
      <4>6. v = w \/ v = Top.snapshot
        BY DEF v
      <4> QED BY <4>3, <4>4, <4>5, <4>6
    <3>2. CASE Top.kind = "Call"
      <4>1. CallEnd(Top.snapshot, Advance(Callers, n), Callers, n, w, err, t, k)
        BY <3>2 DEF FinishCall
      <4> QED BY <4>1 DEF CallEnd, CallEndState
    <3> QED BY <2>1, <3>1, <3>2
  <2>4. Total(world') <= Total(World0)
    BY <1>4, <2>3 DEF Backed
  <2>5. ASSUME NEW i \in 2 .. Len(frames')
        PROVE  frames'[i].snapshot = NoSnapshot \/ Backed(frames'[i].snapshot)
    <3>1. SameStack(frames', Callers)
      BY <2>2, <2>3
    <3>2. i \in 2 .. m - 1 /\ i \in 1 .. m - 1 /\ i \in 2 .. m
      BY <1>1, <1>2, <3>1 DEF SameStack
    <3>3. frames'[i].snapshot = Callers[i].snapshot /\ Callers[i] = frames[i]
      BY <1>2, <3>1, <3>2 DEF SameStack, Same
    <3>4. frames[i].snapshot = NoSnapshot \/ Backed(frames[i].snapshot)
      BY <3>2 DEF MoneyInv
    <3> QED BY <3>3, <3>4
  <2>6. CASE k = destroyed /\ Backed(w)
    <3>1. Backed(world')
      BY <1>4, <2>3, <2>4, <2>6 DEF Backed
    <3>2. MoneyInv'
      BY <2>3, <2>5, <2>6, <3>1, StepMoney
    <3> QED BY <2>6, <3>1, <3>2 DEF Backed
  <2>7. CASE k # {}
    <3>1. MoneyInv'
      BY <2>3, <2>4, <2>5, <2>7 DEF MoneyInv, Backed
    <3> QED BY <2>7, <3>1
  <2> QED BY <2>6, <2>7
<1> QED BY <1>6, <1>7

(* A nested call that needs no frame. *)
LEMMA NoFrameMoney ==
  ASSUME WInv, MoneyInv, status = "Running", NEW sn \in {world, NoSnapshot}, NEW w, Backed(w),
         NEW err, NEW t, ReturnWithoutFrame("Call", sn, w, err, t)
  PROVE  MoneyInv' /\ Backed(world')
<1>1. /\ frames' = Advance(frames, 1) /\ world' \in {w, world} /\ destroyed' = destroyed
  BY DEF ReturnWithoutFrame, CallEnd, CallEndState
<1>2. SameStack(frames', frames)
  BY <1>1, TopOK, AdvanceSame DEF WInv
<1>3. Backed(world')
  BY <1>1, BackedWorld
<1> QED BY <1>1, <1>2, <1>3, KeepMoney

-----------------------------------------------------------------------------
(* The actions, once more.                                                 *)

LEMMA FrameFields ==
  ASSUME NEW kind, NEW callee, NEW caller, NEW code, NEW sn
  PROVE  /\ {"readOnly", "snapshot"} \subseteq DOMAIN Frame(kind, callee, caller, code, sn)
         /\ Frame(kind, callee, caller, code, sn).snapshot = sn
BY DEF Frame

(* Instructions that leave all balances alone. *)
LEMMA PlainMoney ==
  ASSUME WInv, MoneyInv, NEW n \in Nat, Plain(n) \/ Jump(n) \/ Error(n)
  PROVE  MoneyInv' /\ Backed(world')
<1>1. status = "Running" /\ world' = world /\ Backed(world')
  BY BackedWorld DEF Plain, Jump, Error, Instruction, Ending, Running
<1>2. CASE Plain(n)
  <2>1. n + 1 \in Nat /\ Continue(n + 1)
    BY <1>2 DEF Plain
  <2> QED BY <1>1, <2>1, ContinueMoney
<1>3. CASE Jump(n)
  <2>1. SameStack(frames', frames) /\ destroyed' = destroyed
    BY <1>1, <1>3, TopOK, PcSame DEF Jump, WInv
  <2> QED BY <1>1, <2>1, KeepMoney
<1>4. CASE Error(n)
  BY <1>1, <1>4, FailMoney DEF Error
<1> QED BY <1>1, <1>2, <1>3, <1>4

LEMMA AccessMoney ==
  ASSUME WInv, MoneyInv, NEW a, Access(a)
  PROVE  MoneyInv' /\ Backed(world')
<1>1. status = "Running" /\ Backed(world')
  BY BackedWorld DEF Access, Instruction, Running
<1> QED BY <1>1, ContinueMoney, FailMoney DEF Access

LEMMA WriteMoney ==
  ASSUME WInv, MoneyInv, Log \/ \E val \in Nat : SStore(val)
  PROVE  MoneyInv' /\ Backed(world')
<1>1. status = "Running" /\ world \in Worlds
  BY DEF Log, SStore, Instruction, Running, WInv, Good
<1>2. \/ world' = world \/ world' = AddLog(world)
      \/ \E val \in Nat : world' = SetState(world, Top.callee, val)
  BY DEF Log, SStore
<1>3. world'.balance = world.balance
  BY <1>1, <1>2, BalanceKept
<1>4. Backed(world')
  BY <1>3, TotalSame, BackedBy
<1>5. Continue(1) \/ Fail(1) \/ UNCHANGED <<frames, destroyed>>
  BY DEF Log, SStore, Crash, Panic, Leave
<1>6. CASE UNCHANGED <<frames, destroyed>>
  <2>1. SameStack(frames', frames)
    BY <1>1, <1>6, TopOK, SameItself DEF WInv
  <2> QED BY <1>4, <1>6, <2>1, KeepMoney
<1> QED BY <1>1, <1>4, <1>5, <1>6, ContinueMoney, FailMoney

LEMMA RunCodeOfMoney ==
  ASSUME WInv, MoneyInv, NEW a, NEW c, NEW v, RunCodeOf(a, c, v)
  PROVE  MoneyInv' /\ Backed(world')
<1>1. Backed(world') /\ Backed(world)
  BY BackedWorld DEF RunCodeOf
<1> DEFINE f == Frame("Call", Top.callee, c, world.code[a], world)
<1>2. Fail(0) \/ Enter(f)
  BY DEF RunCodeOf
<1>3. {"readOnly", "snapshot"} \subseteq DOMAIN f /\ f.snapshot = world
  BY FrameFields
<1> HIDE DEF f
<1> QED BY <1>1, <1>2, <1>3, FailMoney, EnterMoney

LEMMA StaticCallMoney ==
  ASSUME WInv, MoneyInv, NEW a, StaticCall(a)
  PROVE  MoneyInv' /\ Backed(world')
<1>1. Backed(world) /\ status = "Running"
  BY BackedWorld DEF StaticCall, Instruction, Running
<1> DEFINE g == Frame("Call", a, Top.callee, world.code[a], NoSnapshot)
           f == [g EXCEPT !.readOnly = TRUE, !.entry = world]
<1>2. CASE Fail(0) /\ world' = world
  BY <1>1, <1>2, FailMoney
<1>3. CASE \E err \in {Ok, Failed} : ReturnWithoutFrame("Call", NoSnapshot, world, err, dirty)
  BY <1>1, <1>3, NoFrameMoney
<1>4. CASE Enter(f) /\ world' = world
  <2>1. {"readOnly", "snapshot"} \subseteq DOMAIN g /\ g.snapshot = NoSnapshot
    BY FrameFields
  <2> HIDE DEF g
  <2>2. {"readOnly", "snapshot"} \subseteq DOMAIN f /\ f.snapshot = NoSnapshot
    BY <2>1
  <2> HIDE DEF f
  <2> QED BY <1>1, <1>4, <2>2, EnterMoney
<1> QED BY <1>2, <1>3, <1>4 DEF StaticCall

(* Creations and calls, which transfer money. *)
LEMMA BumpedTotal ==
  ASSUME WInv, NEW c
  PROVE  Total(Bumped(c)) = Total(world)
BY BalanceKept, TotalSame DEF Bumped, WInv, Good

LEMMA RaisedTotal ==
  ASSUME WInv
  PROVE  Total(Raised(world)) = Total(world)
BY BalanceKept, TotalSame DEF Raised, WInv, Good

LEMMA CreatedTotal ==
  ASSUME WInv, NEW c \in Addr, NEW a \in Addr, NEW v \in Nat, ~CreateRefused(c, v)
  PROVE  Total(Created(a, c, v)) = Total(world)
<1> DEFINE new == CreateAccount(Bumped(c), a)
           one == SetNonce(new, a, 1)
           x == IF Fork >= SpuriousDragon THEN one ELSE new
<1>1. ~(world.balance[c] < v) /\ world.nonce[c] # MaxNonce
  BY DEF CreateRefused
<1>2. Good(new) /\ new.balance = world.balance
  BY <1>1, BumpedGood, CreateAccountGood
<1>3. 1 \in 0 .. MaxNonce
  <2>1. world.nonce[c] \in 0 .. MaxNonce
    BY WorldTypes DEF WInv, Good
  <2> QED BY <1>1, <2>1, TxAssumption
<1> HIDE DEF new
<1>4. Good(one) /\ one.balance = world.balance
  BY <1>2, <1>3, SetNonceGood, BalanceKept DEF Good
<1> HIDE DEF one
<1>5. Good(x) /\ x.balance = world.balance
  BY <1>2, <1>4
<1>6. Created(a, c, v) = Transfer(x, c, a, v)
  BY DEF Created, x, one, new
<1> HIDE DEF x
<1>7. Total(Transfer(x, c, a, v)) = Total(x)
  BY <1>1, <1>5, TransferTotal
<1> QED BY <1>5, <1>6, <1>7, TotalSame

LEMMA PaidTotal ==
  ASSUME NEW w, Good(w), NEW callee \in Addr, NEW caller \in Addr, NEW v \in Nat,
         ~(w.balance[caller] < v)
  PROVE  Total(Paid(w, callee, caller, v)) = Total(w)
<1> DEFINE x == IF callee \notin w.exist THEN CreateAccount(w, callee) ELSE w
<1>1. Good(x) /\ x.balance = w.balance
  BY CreateAccountGood
<1>2. Paid(w, callee, caller, v) = Transfer(x, caller, callee, v)
  BY DEF Paid
<1> HIDE DEF x
<1>3. Total(Transfer(x, caller, callee, v)) = Total(x)
  BY <1>1, TransferTotal
<1> QED BY <1>1, <1>2, <1>3, TotalSame

LEMMA EnterNewMoney ==
  ASSUME WInv, MoneyInv, NEW kind, NEW a \in Addr, NEW c \in Addr, NEW v \in Nat,
         ~CreateRefused(c, v), Create_(kind, a, c, v)
  PROVE  MoneyInv' /\ Backed(world')
<1>1. Backed(world) /\ Backed(world')
  BY BackedWorld, BackedBy, CreatedTotal DEF Create_
<1>2. PICK code \in BOOLEAN : Enter(Frame(kind, a, c, code, world))
  BY DEF Create_
<1> DEFINE f == Frame(kind, a, c, code, world)
<1>3. {"readOnly", "snapshot"} \subseteq DOMAIN f /\ f.snapshot = world /\ Enter(f)
  BY <1>2, FrameFields
<1> HIDE DEF f
<1> QED BY <1>1, <1>3, EnterMoney

LEMMA CreateMoney ==
  ASSUME WInv, MoneyInv, NEW a \in CreateAddrs, NEW v \in Nat, Create(a, v)
  PROVE  MoneyInv' /\ Backed(world')
<1> DEFINE c == Top.callee
<1>1. status = "Running" /\ ~CreateRefused(c, v)
  BY DEF Create, Instruction, Running
<1>2. a \in Addr /\ c \in Addr
  BY <1>1, TxAssumption, TopOK
<1> HIDE DEF c
<1>3. CASE world' = Bumped(c) /\ Fail(0)
  BY <1>3, BumpedTotal, BackedBy, FailMoney
<1>4. CASE Create_("Create", a, c, v)
  BY <1>1, <1>2, <1>4, EnterNewMoney
<1> QED BY <1>3, <1>4 DEF Create, c

LEMMA CallMoney ==
  ASSUME WInv, MoneyInv, NEW a \in Addr, NEW v \in Nat, Call(a, v)
  PROVE  MoneyInv' /\ Backed(world')
<1> DEFINE c == Top.callee
           p == Paid(world, a, c, v)
           t == dirty \cup {c, a}
           f == Frame("Call", a, c, TRUE, world)
<1>1. status = "Running" /\ Backed(world) /\ Good(world)
  BY BackedWorld DEF Call, Instruction, Running, WInv
<1>2. c \in Addr
  BY <1>1, TopOK
<1> HIDE DEF c
<1>3. CASE Fail(0) /\ world' = world
  BY <1>1, <1>3, FailMoney
<1>4. CASE ~Refused(world, c, v) /\ Call_("Call", world, a, c, v)
  <2>1. Backed(p)
    BY <1>1, <1>2, <1>4, PaidTotal, BackedBy DEF Refused
  <2>2. \/ \E x \in {world, p}, err \in {Ok, Failed} :
             ReturnWithoutFrame("Call", world, x, err, t)
        \/ world' = p /\ Enter(f)
    BY <1>4, Zenon DEF Call_, Paid
  <2>3. {"readOnly", "snapshot"} \subseteq DOMAIN f /\ f.snapshot = world
    BY DEF Frame
  <2> HIDE DEF p, t, f
  <2>4. CASE \E x \in {world, p}, err \in {Ok, Failed} :
               ReturnWithoutFrame("Call", world, x, err, t)
    BY <1>1, <2>1, <2>4, NoFrameMoney
  <2>5. CASE world' = p /\ Enter(f)
    BY <1>1, <2>1, <2>3, <2>5, EnterMoney
  <2> QED BY <2>2, <2>4, <2>5
<1> QED BY <1>3, <1>4 DEF Call, c

LEMMA EndingMoney ==
  ASSUME WInv, MoneyInv, Return \/ Revert \/ Unwind
  PROVE  MoneyInv' /\ (destroyed = {} => Total(world') = Total(world))
<1>1. status = "Running" /\ Backed(world) /\ Good(world) /\ Total(world) <= Total(World0)
  BY BackedWorld DEF Return, Revert, Unwind, Ending, Running, WInv, MoneyInv
<1>2. \E err : \E n \in Nat : FinishCall(world, err, n, dirty, destroyed)
  BY DEF Return, Revert, Unwind, WInv, Accumulators
<1> QED BY <1>1, <1>2, FinishMoney

(* What is left to oneself is lost; what is left to another is moved. *)
LEMMA SelfDestructMoney ==
  ASSUME WInv, MoneyInv, NEW heir \in Addr, SelfDestruct(heir)
  PROVE  MoneyInv'
<1> DEFINE a == Top.callee
           x == world.balance[heir]
           y == world.balance[a]
           given == SetBalance(world, heir, x + y)
           z == given.balance[a]
           w == SetBalance(given, a, 0)
           t == dirty \cup {a, heir}
           k == destroyed \cup {a}
<1>1. status = "Running"
  BY DEF SelfDestruct, Ending, Running
<1>2. a \in Addr /\ world \in Worlds
  BY <1>1, TopOK DEF WInv, Good
<1>3. FinishCall(w, Ok, 1, t, k)
  BY DEF SelfDestruct
<1>4. x \in Nat /\ y \in Nat /\ x + y \in Nat
  BY <1>2, WorldTypes
<1>5. Good(given) /\ Total(given) = Total(world) - x + (x + y)
  BY <1>2, <1>4, SetBalanceGood, SetBalanceTotal DEF WInv
<1>6. z >= y
  BY <1>2, <1>4 DEF SetBalance, Worlds
<1> HIDE DEF given
<1>7. z \in Nat /\ Good(w) /\ Total(w) = Total(given) - z + 0
  BY <1>2, <1>5, SetBalanceGood, SetBalanceTotal, WorldTypes DEF Good
<1>8. Total(w) <= Total(World0)
  <2>1. /\ Total(world) \in Nat /\ Total(given) \in Nat /\ Total(World0) \in Nat
        /\ Total(world) <= Total(World0)
    BY <1>2, <1>5, TotalNat, TxAssumption DEF Good, MoneyInv
  <2> HIDE DEF x, y, z
  <2> QED BY <1>4, <1>5, <1>6, <1>7, <2>1
<1>9. k # {}
  OBVIOUS
<1> HIDE DEF w, t, k
<1> QED BY <1>1, <1>3, <1>7, <1>8, <1>9, FinishMoney

LEMMA TxCallMoney ==
  ASSUME WInv, MoneyInv, NEW a \in Addr, NEW v \in Nat, TxCall(a, v)
  PROVE  MoneyInv' /\ (destroyed = {} => Total(world') = Total(world))
<1> DEFINE w == Raised(world)
           p == Paid(w, a, Origin, v)
           t == dirty \cup {Origin, a}
           f == Frame("TxCall", a, Origin, TRUE, w)
<1>1. Start({a}) /\ {a} \subseteq Addr
  BY DEF TxCall
<1>2. Len(frames) = 1 /\ Good(w) /\ Origin \in Addr
  BY <1>1, StartWorld
<1>3. Total(w) = Total(world) /\ Backed(w) /\ Total(w) <= Total(World0)
  BY RaisedTotal, BackedBy DEF Backed
<1>4. CASE FailTx /\ world' = w
  BY <1>3, <1>4, FailMoney
<1>5. CASE ~Refused(w, Origin, v) /\ Call_("TxCall", w, a, Origin, v)
  <2>1. Total(p) = Total(w) /\ Good(p)
    BY <1>2, <1>5, PaidTotal, PaidFacts DEF Refused
  <2>2. \/ \E x \in {w, p}, err \in {Ok, Failed} : ReturnWithoutFrame("TxCall", w, x, err, t)
        \/ world' = p /\ Enter(f)
    BY <1>5, Zenon DEF Call_, Paid
  <2>3. {"readOnly", "snapshot"} \subseteq DOMAIN f /\ f.snapshot = w
    BY DEF Frame
  <2> HIDE DEF p, t, f
  <2>4. CASE \E x \in {w, p}, err \in {Ok, Failed} : ReturnWithoutFrame("TxCall", w, x, err, t)
    <3>1. PICK x \in {w, p}, err \in {Ok, Failed} : ReturnWithoutFrame("TxCall", w, x, err, t)
      BY <2>4
    <3> HIDE DEF w
    <3>2. TxEnd(NoAddr, w, x, err, t, destroyed) /\ frames' = frames
      BY <3>1 DEF ReturnWithoutFrame
    <3>3. Good(x) /\ Total(x) = Total(world)
      BY <1>2, <1>3, <2>1
    <3>4. Total(x) <= Total(World0) /\ Len(frames') = 1
      BY <1>2, <1>3, <3>2, <3>3
    <3> QED BY <1>2, <1>3, <3>2, <3>3, <3>4, OverMoney
  <2>5. CASE world' = p /\ Enter(f)
    <3>1. Backed(world') /\ Total(world') = Total(world)
      BY <1>3, <2>1, <2>5, BackedBy
    <3> QED BY <1>3, <2>3, <2>5, <3>1, EnterMoney
  <2> QED BY <2>2, <2>4, <2>5
<1>6. CASE Crash /\ world' = world
  BY <1>6, BackedWorld, FailMoney
<1> QED BY <1>4, <1>5, <1>6 DEF TxCall

LEMMA TxCreateMoney ==
  ASSUME WInv, MoneyInv, NEW a \in CreateAddrs, NEW v \in Nat, TxCreate(a, v)
  PROVE  MoneyInv' /\ Backed(world')
<1>1. a \in Addr /\ Origin \in Addr
  BY TxAssumption
<1>2. CASE FailTx /\ world' \in {world, Bumped(Origin)}
  BY <1>2, BumpedTotal, BackedBy, FailMoney
<1>3. CASE ~CreateRefused(Origin, v) /\ Create_("TxCreate", a, Origin, v)
  BY <1>1, <1>3, EnterNewMoney
<1> QED BY <1>2, <1>3 DEF TxCreate

LEMMA MoneyInit == ASSUME Init PROVE MoneyInv
<1>1. world = World0 /\ Len(frames) = 1
  <2> DEFINE d == Dummy
  <2>1. frames = <<d>> /\ world = World0
    BY DEF Init
  <2> HIDE DEF d
  <2> QED BY <2>1
<1>2. Total(World0) \in Nat
  BY TotalNat, TxAssumption
<1> QED BY <1>1, <1>2 DEF MoneyInv

LEMMA MoneyNext ==
  ASSUME WInv, MoneyInv, [Next]_vars
  PROVE  /\ MoneyInv'
         /\ \/ destroyed = {} => Total(world') = Total(world)
            \/ \E heir \in Addr : SelfDestruct(heir)
<1> DEFINE Step == destroyed = {} => Total(world') = Total(world)
<1>0. Backed(world') => Step
  BY DEF Backed
<1>1. CASE UNCHANGED vars
  <2>1. UNCHANGED <<frames, world, destroyed>>
    BY <1>1 DEF vars
  <2> QED BY <2>1 DEF MoneyInv, Backed
<1>2. CASE Next
  <2>0. /\ PushData \subseteq Nat /\ Dests \subseteq Nat /\ Words \subseteq Nat
        /\ Values \subseteq Nat
    BY TxAssumption
  <2>1. CASE \E a \in Addr : Access(a) \/ DelegateCall(a) \/ StaticCall(a)
    BY <1>0, <2>1, AccessMoney, RunCodeOfMoney, StaticCallMoney DEF DelegateCall
  <2>2. CASE \E a \in Addr : SelfDestruct(a)
    BY <2>2, SelfDestructMoney
  <2>3. CASE \E a \in Addr, v \in Values : Call(a, v) \/ CallCode(a, v)
    BY <1>0, <2>0, <2>3, CallMoney, RunCodeOfMoney DEF CallCode
  <2>4. CASE \E a \in Addr, v \in Values : TxCall(a, v)
    BY <2>0, <2>4, TxCallMoney
  <2>5. CASE \E a \in CreateAddrs, v \in Values : Create(a, v) \/ Create2(a, v) \/ TxCreate(a, v)
    BY <1>0, <2>0, <2>5, CreateMoney, TxCreateMoney DEF Create2
  <2>6. CASE \E n \in PushData : Plain(n) \/ Error(n + 1)
    <3>1. \A n \in PushData : n \in Nat /\ n + 1 \in Nat
      BY <2>0
    <3> QED BY <1>0, <2>6, <3>1, PlainMoney
  <2>7. CASE \E d \in Dests : Jump(d)
    BY <1>0, <2>0, <2>7, PlainMoney
  <2>8. CASE Log \/ \E val \in Words : SStore(val)
    BY <1>0, <2>0, <2>8, WriteMoney
  <2>9. CASE Environment \/ Error(0) \/ SLoad
    BY <1>0, <2>9, PlainMoney, AccessMoney DEF Environment, SLoad
  <2>10. CASE Return \/ Revert \/ Unwind
    BY <2>10, EndingMoney
  <2> QED BY <1>2, <2>1, <2>2, <2>3, <2>4, <2>5, <2>6, <2>7, <2>8, <2>9, <2>10 DEF Next
<1> QED BY <1>1, <1>2

(* No step of a transaction creates money, and none loses any but          *)
(* self-destruction and what follows from it: transfers to oneself, nested *)
(* roll-backs and the clean-up of tx_end included, for any number of       *)
(* accounts and whatever the contracts do.                                 *)
THEOREM MoneyIsConserved == Spec => Conservation
<1> DEFINE Step == /\ Total(world') <= Total(World0)
                   /\ \/ Total(world') = Total(world)
                      \/ destroyed # {}
                      \/ \E heir \in Addr : SelfDestruct(heir)
           Inv == WInv /\ MoneyInv
<1>1. Init => Inv
  BY WorldInit, MoneyInit
<1>2. Inv /\ [Next]_vars => Inv'
  BY WorldNext, MoneyNext
<1>3. Inv /\ [Next]_vars => [Step]_vars
  <2> SUFFICES ASSUME WInv, MoneyInv, [Next]_vars PROVE Step
    OBVIOUS
  <2>1. MoneyInv'
    BY MoneyNext
  <2>2. Total(world') <= Total(World0)
    BY <2>1 DEF MoneyInv
  <2>3. \/ destroyed = {} => Total(world') = Total(world)
        \/ \E heir \in Addr : SelfDestruct(heir)
    BY MoneyNext
  <2> QED BY <2>2, <2>3
<1> QED BY <1>1, <1>2, <1>3, PTL DEF Spec, Conservation
=============================================================================
