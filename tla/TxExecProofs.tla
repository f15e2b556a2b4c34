---------------------------- MODULE TxExecProofs ----------------------------
(***************************************************************************)
(* Proofs about the call stack of a transaction, for every world state,    *)
(* fork, depth limit and gas: the assertions and unwraps of exec.rs that   *)
(* depend on the shape of the call stack never fail.  The contents of the  *)
(* world state play no part.                                               *)
(***************************************************************************)
EXTENDS TxExec, AnySeqProofs

(* Each element is a frame, as far as the argument looks at it. *)
Shaped(stk) ==
  IsSeq(stk) /\ \A i \in 1 .. Len(stk) : {"kind", "callee"} \subseteq DOMAIN stk[i]

(* The same frames up to their program counters. *)
Like(stk, old) ==
  /\ Shaped(stk) /\ Len(stk) = Len(old)
  /\ \A i \in 1 .. Len(old) : stk[i].kind = old[i].kind /\ stk[i].callee = old[i].callee

TInv ==
  /\ Shaped(frames) /\ Len(frames) >= 1
  /\ StackDiscipline
  /\ RunnersAreWarm

LEMMA LenType == ASSUME TInv PROVE Len(frames) \in Nat \ {0} /\ DOMAIN frames = 1 .. Len(frames)
BY IsSeqFacts DEF TInv, Shaped

LEMMA LikeItself ==
  ASSUME TInv PROVE Like(frames, frames)
BY DEF TInv, Like

(* A change of a program counter. *)
LEMMA PcLike ==
  ASSUME NEW stk, Shaped(stk), NEW i \in 1 .. Len(stk), NEW n
  PROVE  Like([stk EXCEPT ![i].pc = n], stk)
<1> DEFINE f == [stk[i] EXCEPT !.pc = n]
           K == [stk EXCEPT ![i] = f]
<1>1. DOMAIN stk = 1 .. Len(stk)
  BY IsSeqFacts DEF Shaped
<1>2. /\ {"kind", "callee"} \subseteq DOMAIN f
      /\ f.kind = stk[i].kind /\ f.callee = stk[i].callee
  BY DEF Shaped
<1> HIDE DEF f
<1>3. /\ IsSeq(K) /\ Len(K) = Len(stk)
      /\ \A r \in 1 .. Len(stk) : K[r] = IF r = i THEN f ELSE stk[r]
  BY <1>1, IsSeqUpdate DEF Shaped
<1> HIDE DEF K
<1>4. Like(K, stk)
  BY <1>2, <1>3 DEF Like, Shaped
<1> QED BY <1>4 DEF K, f

LEMMA AdvanceLike ==
  ASSUME NEW stk, Shaped(stk), Len(stk) >= 1, NEW n
  PROVE  Like(Advance(stk, n), stk)
<1>1. Len(stk) \in 1 .. Len(stk)
  BY IsSeqFacts DEF Shaped
<1> QED BY <1>1, PcLike DEF Advance

(* The frames below the current one. *)
LEMMA CallersFacts ==
  ASSUME TInv
  PROVE  /\ Shaped(Callers) /\ Len(Callers) = Len(frames) - 1
         /\ \A i \in 1 .. Len(frames) - 1 : Callers[i] = frames[i]
<1>1. Len(frames) \in Nat \ {0}
  BY LenType
<1>2. /\ IsSeq(Callers) /\ Len(Callers) = Len(frames) - 1
      /\ \A i \in 1 .. Len(frames) - 1 : Callers[i] = frames[i]
  BY <1>1, IsSeqFront DEF TInv, Shaped, Callers
<1> QED BY <1>1, <1>2 DEF TInv, Shaped

-----------------------------------------------------------------------------
(* The three things that happen to the stack.                              *)

(* Nothing is pushed or popped while the transaction runs. *)
LEMMA KeepInv ==
  ASSUME TInv, status = "Running", status' \in {"Running", "Panicked", "Crashed"},
         Like(frames', frames), warm \subseteq warm'
  PROVE  TInv'
<1>1. Len(frames) \in Nat \ {0} /\ Len(frames') = Len(frames)
  BY LenType DEF Like
<1>2. \A i \in 1 .. Len(frames) :
        frames'[i].kind = frames[i].kind /\ frames'[i].callee = frames[i].callee
  BY DEF Like
<1>3. Len(frames) >= 2 /\ IsTx(frames[2])
  BY DEF TInv, StackDiscipline
<1>4. StackDiscipline'
  BY <1>1, <1>2, <1>3 DEF TInv, StackDiscipline, IsTx
<1>5. RunnersAreWarm'
  BY <1>1, <1>2 DEF TInv, RunnersAreWarm
<1> QED BY <1>1, <1>4, <1>5 DEF TInv, Like

(* A frame is pushed. *)
LEMMA PushInv ==
  ASSUME TInv, NEW f, frames' = Pushed(f), status' = "Running", ~AtMaxDepth,
         {"kind", "callee"} \subseteq DOMAIN f,
         f.callee \notin Precompiled,
         Fork >= Berlin => f.callee \in warm',
         \/ Len(frames) = 1 /\ IsTx(f)
         \/ status = "Running" /\ f.kind \in {"Create", "Call"} /\ warm \subseteq warm'
  PROVE  TInv'
<1> DEFINE n == Len(frames)
           g == [f EXCEPT !.readOnly = @ \/ Top.readOnly]
<1>1. n \in Nat \ {0} /\ DOMAIN frames = 1 .. n
  BY LenType
<1>2. {"kind", "callee"} \subseteq DOMAIN g /\ g.kind = f.kind /\ g.callee = f.callee
  OBVIOUS
<1>3. frames' = Append(frames, g)
  BY DEF Pushed
<1> HIDE DEF g
<1>4. /\ IsSeq(frames') /\ Len(frames') = n + 1
      /\ \A i \in 1 .. n : frames'[i] = frames[i]
      /\ frames'[n + 1] = g
  BY <1>1, <1>3, IsSeqAppend DEF TInv, Shaped
<1>5. n - 1 <= MaxCallDepth /\ n - 1 # MaxCallDepth /\ MaxCallDepth \in Nat
  BY TxAssumption DEF TInv, StackDiscipline, AtMaxDepth
<1> HIDE DEF n
<1>6. Shaped(frames')
  <2>1. ASSUME NEW i \in 1 .. n + 1 PROVE {"kind", "callee"} \subseteq DOMAIN frames'[i]
    <3>1. CASE i \in 1 .. n
      BY <1>4, <3>1 DEF TInv, Shaped, n
    <3>2. CASE i = n + 1
      BY <1>2, <1>4, <3>2
    <3> QED BY <1>1, <3>1, <3>2
  <2> QED BY <1>4, <2>1 DEF Shaped
<1>7. CASE n = 1 /\ IsTx(f)
  <2>1. frames'[1] = frames[1] /\ frames'[2] = g /\ Len(frames') = 2
    BY <1>4, <1>7
  <2>2. StackDiscipline'
    BY <1>2, <1>5, <1>7, <2>1 DEF TInv, StackDiscipline, IsTx
  <2>3. RunnersAreWarm'
    BY <1>2, <2>1 DEF RunnersAreWarm
  <2> QED BY <1>4, <1>6, <2>1, <2>2, <2>3 DEF TInv
<1>8. CASE status = "Running" /\ f.kind \in {"Create", "Call"} /\ warm \subseteq warm'
  <2>1. n >= 2 /\ IsTx(frames[2]) /\ frames[1].kind = "Dummy"
        /\ \A i \in 3 .. n : frames[i].kind \in {"Create", "Call"}
    BY <1>8 DEF TInv, StackDiscipline, n
  <2>2. \A i \in 3 .. n + 1 : frames'[i].kind \in {"Create", "Call"}
    BY <1>1, <1>2, <1>4, <1>8, <2>1
  <2>3. frames'[1] = frames[1] /\ frames'[2] = frames[2]
    BY <1>1, <1>4, <2>1
  <2>4. StackDiscipline'
    BY <1>1, <1>4, <1>5, <2>1, <2>2, <2>3 DEF StackDiscipline, IsTx
  <2>5. \A i \in 2 .. n + 1 : /\ Fork >= Berlin => frames'[i].callee \in warm'
                              /\ frames'[i].callee \notin Precompiled
    <3>1. ASSUME NEW i \in 2 .. n PROVE /\ Fork >= Berlin => frames[i].callee \in warm
                                        /\ frames[i].callee \notin Precompiled
      BY DEF TInv, RunnersAreWarm, n
    <3> QED BY <1>1, <1>2, <1>4, <1>8, <3>1
  <2>6. RunnersAreWarm'
    BY <1>4, <2>5 DEF RunnersAreWarm
  <2> QED BY <1>1, <1>4, <1>6, <2>4, <2>6 DEF TInv
<1> QED BY <1>7, <1>8 DEF n

(* A nested call returns to its caller. *)
LEMMA PopInv ==
  ASSUME TInv, status = "Running", status' = "Running", ~IsTx(Top),
         Like(frames', Callers), warm \subseteq warm'
  PROVE  TInv'
<1> DEFINE n == Len(frames)
<1>1. n \in Nat \ {0}
  BY LenType
<1>2. n >= 2 /\ IsTx(frames[2]) /\ frames[1].kind = "Dummy"
  BY DEF TInv, StackDiscipline
<1>3. n >= 3
  BY <1>1, <1>2 DEF Top
<1>4. /\ Shaped(frames') /\ Len(frames') = n - 1
      /\ \A i \in 1 .. n - 1 :
           frames'[i].kind = frames[i].kind /\ frames'[i].callee = frames[i].callee
  <2>1. /\ Shaped(Callers) /\ Len(Callers) = n - 1
        /\ \A i \in 1 .. n - 1 : Callers[i] = frames[i]
    BY CallersFacts
  <2> HIDE DEF n
  <2> QED BY <1>1, <2>1 DEF Like
<1>5. MaxCallDepth \in Nat
  BY TxAssumption
<1>6. StackDiscipline'
  BY <1>1, <1>2, <1>3, <1>4, <1>5 DEF TInv, StackDiscipline, IsTx
<1>7. RunnersAreWarm'
  BY <1>1, <1>4 DEF TInv, RunnersAreWarm
<1> QED BY <1>1, <1>3, <1>4, <1>6, <1>7 DEF TInv

(* The transaction is over: one frame is left. *)
LEMMA OverInv ==
  ASSUME TInv, status' \in {"Succeeded", "Reverted", "Crashed"}, succ' = Ok,
         Shaped(frames'), Len(frames') = 1, frames'[1] = frames[1]
  PROVE  TInv'
<1>1. MaxCallDepth \in Nat \ {0}
  BY TxAssumption
<1>2. StackDiscipline'
  BY <1>1 DEF TInv, StackDiscipline
<1>3. RunnersAreWarm'
  BY DEF RunnersAreWarm
<1> QED BY <1>2, <1>3 DEF TInv

-----------------------------------------------------------------------------
(* The operations that instructions are made of.                           *)

LEMMA FinishCallInv ==
  ASSUME TInv, status = "Running", NEW w, NEW err, NEW n, NEW t, NEW k,
         FinishCall(w, err, n, t, k), warm \subseteq warm'
  PROVE  TInv'
<1>1. Len(frames) \in Nat \ {0} /\ Len(frames) >= 2 /\ IsTx(frames[2])
  BY LenType DEF TInv, StackDiscipline
<1>2. /\ Shaped(Callers) /\ Len(Callers) = Len(frames) - 1
      /\ \A i \in 1 .. Len(frames) - 1 : Callers[i] = frames[i]
  BY CallersFacts
<1>3. Like(Callers, Callers) /\ Like(Advance(Callers, n), Callers)
  <2>1. Len(Callers) >= 1
    BY <1>1, <1>2
  <2> QED BY <1>2, <2>1, AdvanceLike DEF Like
<1>4. CASE IsTx(Top)
  <2>1. Len(frames) = 2
    BY <1>1, <1>4 DEF TInv, StackDiscipline, Top, IsTx
  <2>2. frames' = Callers /\ status' \in {"Succeeded", "Reverted"} /\ succ' = Ok
    BY <1>4 DEF FinishCall, TxEnd, IsTx
  <2>3. Len(Callers) = 1 /\ Callers[1] = frames[1]
    BY <1>2, <2>1
  <2> QED BY <1>2, <2>2, <2>3, OverInv
<1>5. CASE ~IsTx(Top)
  <2>1. status' = "Running" /\ frames' \in {Callers, Advance(Callers, n)}
    BY <1>5 DEF FinishCall, CreateEnd, CallEnd, IsTx
  <2>2. Like(frames', Callers)
    BY <1>3, <2>1
  <2> QED BY <1>5, <2>1, <2>2, PopInv
<1> QED BY <1>4, <1>5

(* A call that needs no frame leaves the stack as it is. *)
LEMMA NoFrameInv ==
  ASSUME TInv, status = "Running", NEW sn, NEW w, NEW err, NEW t,
         ReturnWithoutFrame("Call", sn, w, err, t), warm \subseteq warm'
  PROVE  TInv'
<1>1. Like(Advance(frames, 1), frames)
  BY AdvanceLike DEF TInv
<1>2. frames' = Advance(frames, 1) /\ status' = "Running"
  BY DEF ReturnWithoutFrame, CallEnd
<1> QED BY <1>1, <1>2, KeepInv

LEMMA FailInv ==
  ASSUME TInv, status = "Running", NEW n, Fail(n), warm \subseteq warm'
  PROVE  TInv'
BY LikeItself, KeepInv DEF Fail

LEMMA ContinueInv ==
  ASSUME TInv, status = "Running", NEW n, Continue(n), warm \subseteq warm'
  PROVE  TInv'
<1>1. Like(Advance(frames, n), frames)
  BY AdvanceLike DEF TInv
<1> QED BY <1>1, KeepInv DEF Continue

LEMMA EnterInv ==
  ASSUME TInv, status = "Running", NEW kind \in {"Create", "Call"}, NEW callee, NEW caller,
         NEW code, NEW sn, NEW f,
         \/ f = Frame(kind, callee, caller, code, sn)
         \/ f = [Frame(kind, callee, caller, code, sn)
                   EXCEPT !.readOnly = TRUE, !.entry = world],
         Enter(f), ~AtMaxDepth, warm \subseteq warm',
         callee \notin Precompiled, Fork >= Berlin => callee \in warm'
  PROVE  TInv'
<1>1. {"kind", "callee"} \subseteq DOMAIN f /\ f.kind = kind /\ f.callee = callee
  <2> DEFINE g == Frame(kind, callee, caller, code, sn)
  <2>1. g.kind = kind /\ g.callee = callee /\ {"kind", "callee"} \subseteq DOMAIN g
    BY DEF Frame
  <2> HIDE DEF g
  <2>2. CASE f = g
    BY <2>1, <2>2
  <2>3. CASE f = [g EXCEPT !.readOnly = TRUE, !.entry = world]
    BY <2>1, <2>3
  <2> QED BY <2>2, <2>3 DEF g
<1> QED BY <1>1, PushInv DEF Enter

LEMMA WarmedFacts ==
  ASSUME NEW S, warm' = Warmed(S)
  PROVE  warm \subseteq warm' /\ (Fork >= Berlin => S \subseteq warm')
BY DEF Warmed

LEMMA TopFacts ==
  ASSUME TInv, status = "Running"
  PROVE  Top.callee \notin Precompiled /\ (Fork >= Berlin => Top.callee \in warm)
<1>1. Len(frames) \in 2 .. Len(frames)
  BY LenType DEF TInv, StackDiscipline
<1> QED BY <1>1 DEF TInv, RunnersAreWarm, Top

-----------------------------------------------------------------------------
(* The actions.                                                            *)

LEMMA PlainInv ==
  ASSUME TInv, NEW n, Plain(n) \/ Jump(n) \/ Error(n)
  PROVE  TInv'
<1>1. status = "Running" /\ warm' = warm
  BY DEF Plain, Jump, Error, Instruction, Ending, Running
<1>2. CASE Plain(n)
  BY <1>1, <1>2, ContinueInv DEF Plain
<1>3. CASE Jump(n)
  <2>1. Len(frames) \in 1 .. Len(frames)
    BY LenType
  <2>2. Like([frames EXCEPT ![Len(frames)].pc = n], frames)
    BY <2>1, PcLike DEF TInv
  <2> QED BY <1>1, <1>3, <2>2, KeepInv DEF Jump
<1>4. CASE Error(n)
  BY <1>1, <1>4, FailInv DEF Error
<1> QED BY <1>2, <1>3, <1>4

LEMMA AccessInv ==
  ASSUME TInv, NEW a, Access(a)
  PROVE  TInv'
<1>1. status = "Running" /\ warm \subseteq warm'
  BY WarmedFacts DEF Access, Instruction, Running
<1> QED BY <1>1, ContinueInv, FailInv DEF Access

LEMMA SStoreInv ==
  ASSUME TInv, NEW val, SStore(val)
  PROVE  TInv'
<1>1. status = "Running" /\ warm \subseteq warm'
  BY WarmedFacts DEF SStore, Instruction, Running
<1>2. \/ Continue(1) \/ Fail(1)
      \/ status' = "Panicked" /\ frames' = frames
  BY DEF SStore, Panic, Leave
<1>3. CASE status' = "Panicked" /\ frames' = frames
  BY <1>1, <1>3, LikeItself, KeepInv
<1> QED BY <1>1, <1>2, <1>3, ContinueInv, FailInv

LEMMA LogInv ==
  ASSUME TInv, Log
  PROVE  TInv'
<1>1. status = "Running" /\ warm' = warm
  BY DEF Log, Instruction, Running
<1>2. CASE Crash
  BY <1>1, <1>2, LikeItself, KeepInv DEF Crash, Leave
<1> QED BY <1>1, <1>2, ContinueInv, FailInv DEF Log

LEMMA CreateInv ==
  ASSUME TInv, NEW a \in CreateAddrs, NEW v, Create(a, v)
  PROVE  TInv'
<1>1. /\ status = "Running" /\ ~AtMaxDepth
      /\ warm \subseteq warm' /\ (Fork >= Berlin => a \in warm')
  BY WarmedFacts DEF Create, Instruction, Running
<1>2. a \notin Precompiled
  BY TxAssumption
<1>3. CASE Fail(0)
  BY <1>1, <1>3, FailInv
<1>4. CASE Create_("Create", a, Top.callee, v)
  <2>1. PICK code \in BOOLEAN : Enter(Frame("Create", a, Top.callee, code, world))
    BY <1>4 DEF Create_
  <2> QED BY <1>1, <1>2, <2>1, EnterInv
<1> QED BY <1>3, <1>4 DEF Create

LEMMA CallInv ==
  ASSUME TInv, NEW a, NEW v, Call(a, v)
  PROVE  TInv'
<1>1. /\ status = "Running"
      /\ warm \subseteq warm' /\ (Fork >= Berlin => a \in warm')
  BY WarmedFacts DEF Call, UseGasCall, Instruction, Running
<1>2. CASE Fail(0)
  BY <1>1, <1>2, FailInv
<1>3. CASE ~Refused(world, Top.callee, v) /\ Call_("Call", world, a, Top.callee, v)
  <2>1. ~AtMaxDepth
    BY <1>3 DEF Refused
  <2>2. \/ \E w, err, t : ReturnWithoutFrame("Call", world, w, err, t)
        \/ a \notin Precompiled /\ Enter(Frame("Call", a, Top.callee, TRUE, world))
    BY <1>3 DEF Call_
  <2> QED BY <1>1, <2>1, <2>2, NoFrameInv, EnterInv
<1> QED BY <1>2, <1>3 DEF Call

LEMMA RunCodeOfInv ==
  ASSUME TInv, NEW a, NEW c, NEW v, RunCodeOf(a, c, v)
  PROVE  TInv'
<1>1. status = "Running" /\ ~AtMaxDepth /\ warm \subseteq warm'
  BY WarmedFacts DEF RunCodeOf, UseGasCall, Instruction, Running
<1>2. Top.callee \notin Precompiled /\ (Fork >= Berlin => Top.callee \in warm')
  BY <1>1, TopFacts
<1>3. Fail(0) \/ Enter(Frame("Call", Top.callee, c, world.code[a], world))
  BY DEF RunCodeOf
<1> QED BY <1>1, <1>2, <1>3, FailInv, EnterInv

LEMMA StaticCallInv ==
  ASSUME TInv, NEW a, StaticCall(a)
  PROVE  TInv'
<1>1. /\ status = "Running" /\ ~AtMaxDepth
      /\ warm \subseteq warm' /\ (Fork >= Berlin => a \in warm')
  BY WarmedFacts DEF StaticCall, UseGasCall, Instruction, Running
<1>2. \/ Fail(0)
      \/ \E err \in {Ok, Failed} : ReturnWithoutFrame("Call", NoSnapshot, world, err, dirty)
      \/ /\ a \notin Precompiled
         /\ Enter([Frame("Call", a, Top.callee, world.code[a], NoSnapshot)
                     EXCEPT !.readOnly = TRUE, !.entry = world])
  BY DEF StaticCall
<1> QED BY <1>1, <1>2, FailInv, NoFrameInv, EnterInv

LEMMA EndingInv ==
  ASSUME TInv, Return \/ Revert \/ Unwind \/ \E a \in Addr : SelfDestruct(a)
  PROVE  TInv'
<1>1. CASE Return
  BY <1>1, FinishCallInv DEF Return, Ending, Running
<1>2. CASE Revert
  BY <1>2, FinishCallInv DEF Revert, Ending, Running
<1>3. CASE Unwind
  BY <1>3, FinishCallInv DEF Unwind
<1>4. ASSUME NEW a \in Addr, SelfDestruct(a) PROVE TInv'
  <2>1. status = "Running" /\ warm \subseteq warm'
    BY <1>4, WarmedFacts DEF SelfDestruct, Ending, Running
  <2>2. \E w, t, k : FinishCall(w, Ok, 1, t, k)
    BY <1>4 DEF SelfDestruct
  <2> QED BY <2>1, <2>2, FinishCallInv
<1> QED BY <1>1, <1>2, <1>3, <1>4

LEMMA StartFacts ==
  ASSUME TInv, NEW list, Start(list)
  PROVE  Len(frames) = 1 /\ succ = Ok /\ list \subseteq warm' /\ ~AtMaxDepth
<1>1. Len(frames) = 1 /\ succ = Ok
  BY DEF Start, TInv, StackDiscipline
<1>2. list \subseteq warm'
  BY DEF Start
<1>3. ~AtMaxDepth
  BY <1>1, TxAssumption DEF AtMaxDepth
<1> QED BY <1>1, <1>2, <1>3

LEMMA TxCallInv ==
  ASSUME TInv, NEW to, NEW v, TxCall(to, v)
  PROVE  TInv'
<1> DEFINE w == Raised(world)
<1>1. Len(frames) = 1 /\ succ = Ok /\ to \in warm' /\ ~AtMaxDepth
  BY StartFacts DEF TxCall
<1>2. Shaped(frames)
  BY DEF TInv
<1>3. CASE FailTx
  BY <1>1, <1>2, <1>3, OverInv DEF FailTx, Leave
<1>4. CASE Call_("TxCall", w, to, Origin, v)
  <2>1. CASE \E x, err, t : ReturnWithoutFrame("TxCall", w, x, err, t)
    <3>1. frames' = frames /\ status' \in {"Succeeded", "Reverted"} /\ succ' = Ok
      BY <2>1 DEF ReturnWithoutFrame, TxEnd
    <3> QED BY <1>1, <1>2, <3>1, OverInv
  <2>2. CASE to \notin Precompiled /\ Enter(Frame("TxCall", to, Origin, TRUE, w))
    <3> DEFINE f == Frame("TxCall", to, Origin, TRUE, w)
    <3>1. {"kind", "callee"} \subseteq DOMAIN f /\ f.callee = to /\ IsTx(f)
      BY DEF Frame, IsTx
    <3>2. frames' = Pushed(f) /\ status' = "Running"
      BY <2>2 DEF Enter
    <3> HIDE DEF f
    <3> QED BY <1>1, <2>2, <3>1, <3>2, PushInv
  <2> QED BY <1>4, <2>1, <2>2 DEF Call_
<1>5. CASE Crash
  BY <1>1, <1>2, <1>5, OverInv DEF Crash, Leave
<1> QED BY <1>3, <1>4, <1>5 DEF TxCall

LEMMA TxCreateInv ==
  ASSUME TInv, NEW a \in CreateAddrs, NEW v, TxCreate(a, v)
  PROVE  TInv'
<1>1. Len(frames) = 1 /\ succ = Ok /\ ~AtMaxDepth /\ (Fork >= Berlin => a \in warm')
  <2>1. Len(frames) = 1 /\ succ = Ok /\ ~AtMaxDepth
        /\ (IF Fork >= Berlin THEN {a} ELSE {}) \subseteq warm'
    BY StartFacts DEF TxCreate
  <2> QED BY <2>1
<1>2. Shaped(frames) /\ a \notin Precompiled
  BY TxAssumption DEF TInv
<1>3. CASE FailTx
  BY <1>1, <1>2, <1>3, OverInv DEF FailTx, Leave
<1>4. CASE Create_("TxCreate", a, Origin, v)
  <2>1. PICK code \in BOOLEAN : Enter(Frame("TxCreate", a, Origin, code, world))
    BY <1>4 DEF Create_
  <2> DEFINE f == Frame("TxCreate", a, Origin, code, world)
  <2>2. {"kind", "callee"} \subseteq DOMAIN f /\ f.callee = a /\ IsTx(f)
    BY DEF Frame, IsTx
  <2>3. frames' = Pushed(f) /\ status' = "Running"
    BY <2>1 DEF Enter
  <2> HIDE DEF f
  <2> QED BY <1>1, <1>2, <2>2, <2>3, PushInv
<1> QED BY <1>3, <1>4 DEF TxCreate

LEMMA TxInit == ASSUME Init PROVE TInv
<1> DEFINE d == Dummy
<1>1. {"kind", "callee"} \subseteq DOMAIN d /\ d.kind = "Dummy"
  BY DEF Dummy, Frame
<1>2. frames = <<d>> /\ status = "Idle" /\ succ = Ok
  BY DEF Init
<1> HIDE DEF d
<1>3. frames \in Seq({d}) /\ Len(frames) = 1 /\ DOMAIN frames = {1} /\ frames[1] = d
  BY <1>2
<1>4. {frames[r] : r \in DOMAIN frames} = {d}
  BY <1>3
<1>5. Shaped(frames)
  BY <1>1, <1>3, <1>4 DEF Shaped, IsSeq
<1>6. StackDiscipline /\ RunnersAreWarm
  BY <1>1, <1>2, <1>3, TxAssumption DEF StackDiscipline, RunnersAreWarm
<1> QED BY <1>3, <1>5, <1>6 DEF TInv

LEMMA TxNext == ASSUME TInv, [Next]_vars PROVE TInv'
<1>1. CASE UNCHANGED vars
  BY <1>1 DEF vars, TInv, Shaped, IsSeq, StackDiscipline, RunnersAreWarm, IsTx
<1>2. CASE Next
  <2>1. CASE \E a \in Addr : Access(a) \/ DelegateCall(a) \/ StaticCall(a)
    BY <2>1, AccessInv, RunCodeOfInv, StaticCallInv DEF DelegateCall
  <2>2. CASE \E a \in Addr, v \in Values : Call(a, v) \/ CallCode(a, v) \/ TxCall(a, v)
    BY <2>2, CallInv, RunCodeOfInv, TxCallInv DEF CallCode
  <2>3. CASE \E a \in CreateAddrs, v \in Values : Create(a, v) \/ Create2(a, v) \/ TxCreate(a, v)
    BY <2>3, CreateInv, TxCreateInv DEF Create2
  <2>4. CASE \E n \in PushData : Plain(n) \/ Error(n + 1)
    BY <2>4, PlainInv
  <2>5. CASE \E d \in Dests : Jump(d)
    BY <2>5, PlainInv
  <2>6. CASE \E val \in Words : SStore(val)
    BY <2>6, SStoreInv
  <2>7. CASE Environment \/ SLoad \/ Log \/ Error(0)
    BY <2>7, AccessInv, LogInv, PlainInv DEF Environment, SLoad
  <2>8. CASE Return \/ Revert \/ Unwind \/ \E a \in Addr : SelfDestruct(a)
    BY <2>8, EndingInv
  <2> QED BY <1>2, <2>1, <2>2, <2>3, <2>4, <2>5, <2>6, <2>7, <2>8 DEF Next
<1> QED BY <1>1, <1>2

-----------------------------------------------------------------------------
(* The call stack of exec.rs: call_pop always finds a frame to return to,  *)
(* tx_end an empty stack, and MAX_CALL_DEPTH is never exceeded.            *)
THEOREM CallStackDiscipline == Spec => []StackDiscipline
<1>1. Init => TInv
  BY TxInit
<1>2. TInv /\ [Next]_vars => TInv'
  BY TxNext
<1>3. TInv => StackDiscipline
  BY DEF TInv
<1> QED BY <1>1, <1>2, <1>3, PTL DEF Spec

(* The account a frame works on is in the access list as of Berlin, so     *)
(* assert!(addr_exist) of SSTORE holds (exec.rs:758), and is never a       *)
(* precompiled contract.                                                   *)
THEOREM CalleesInAccessList == Spec => []RunnersAreWarm
<1>1. Init => TInv
  BY TxInit
<1>2. TInv /\ [Next]_vars => TInv'
  BY TxNext
<1>3. TInv => RunnersAreWarm
  BY DEF TInv
<1> QED BY <1>1, <1>2, <1>3, PTL DEF Spec
=============================================================================
