--------------------------------- MODULE Gas --------------------------------
(***************************************************************************)
(* The gas of one transaction (core/exec.rs, core/call.rs): what every     *)
(* instruction takes from the frame it runs in, what a call or a creation  *)
(* lends to the new frame, what comes back from it, and what is reported   *)
(* as unused in the end.                                                   *)
(*                                                                         *)
(* The counterpart of TxExec, which has the world state and no gas.  The   *)
(* program is arbitrary; what the world state decides (is the account      *)
(* cold, new, rich enough, is there code) is arbitrary too.  One action is *)
(* one iteration of the loop of exec, or of its inner loop.  The amounts   *)
(* are parameters; only their order and the arithmetic are the code's.     *)
(***************************************************************************)
EXTENDS Memory, Sequences

CONSTANTS
  Forks,         \* the forks that are looked at
  Limits,        \* gas limits of transactions
  TxGas,         \* the 21000 that every transaction pays
  U64Mod,        \* the number of values of u64
  Charges,       \* what plain instructions cost; 0 is among them (EXP)
  Requests,      \* the gas a call asks for
  NoU64,         \* ... when it is too large for u64
  Ends,          \* ends of slices of memory, beyond its limit too
  Lens,          \* lengths of the code that a creation returns
  CallCost,      \* GAS_CALL_FRONTIER, .._TANGERINE, GAS_WARM_STORAGE_READ_COST_BERLIN
  CreateCost, DataCost, ColdCost, NewAccountCost, ValueCost,
  Stipend, Sentry,
  Retained,      \* 64: a caller keeps 1 / 64 of its gas
  MaxCallDepth,  \* MAX_CALL_DEPTH
  MaxGranted     \* bound on the stipends that are granted in all

Homestead        == 1
TangerineWhistle == 2
SpuriousDragon   == 3
Byzantium        == 4
Constantinople   == 5
Istanbul         == 6
Berlin           == 7
London           == 8

ASSUME GasAssumption ==
  /\ Forks \subseteq 0 .. London
  /\ Limits \subseteq Nat /\ TxGas \in Nat /\ U64Mod \in Nat
  /\ \A l \in Limits : l < U64Mod /\ TxGas < U64Mod
  /\ Charges \subseteq Nat /\ Requests \subseteq Nat /\ NoU64 \notin Nat
  /\ Ends \subseteq Nat /\ Lens \subseteq Nat
  /\ CallCost \in [Forks -> Nat]
  /\ CreateCost \in Nat /\ DataCost \in Nat /\ ColdCost \in Nat
  /\ NewAccountCost \in Nat /\ ValueCost \in Nat /\ Stipend \in Nat /\ Sentry \in Nat
  /\ Retained \in Nat \ {0} /\ MaxCallDepth \in Nat \ {0} /\ MaxGranted \in Nat

VARIABLES
  fork,      \* the fork of the block
  limit,     \* the gas limit of the transaction
  frames,    \* call_stack with cur_call at its end; the first frame is a dummy
  succ,      \* the result of the last instruction, while frames are unwound
  status,    \* of the transaction
  unused,    \* the unused gas it reports
  granted    \* history: the stipends nobody has paid for

vars == <<fork, limit, frames, succ, status, unused, granted>>

Ok       == "Ok"
Reverted == "Reverted"  \* ExecError::Reverted
Failed   == "Failed"    \* any other ExecError

(* A frame that starts with the gas its caller lent it and perhaps a       *)
(* stipend.                                                                *)
Frame(kind, lent, stipend, base) ==
  [kind   |-> kind,             \* CallType
   gas    |-> lent + stipend,   \* unused_gas
   mem    |-> NewMemory,
   \* history
   lent   |-> lent,
   budget |-> lent + stipend,
   base   |-> base,             \* `granted` when it was pushed
   paid   |-> 0,                \* what it has paid for memory
   gratis |-> 0]                \* the fees of memory it did not pay for

Init ==
  /\ fork \in Forks /\ limit \in Limits
  /\ frames = <<Frame("Dummy", limit, 0, 0)>>
  /\ succ = Ok /\ status = "Idle" /\ unused = 0 /\ granted = 0

Top      == frames[Len(frames)]
Callers  == SubSeq(frames, 1, Len(frames) - 1)
Below    == frames[Len(frames) - 1]

CallDepth == Len(frames) - 1

(* The frames with f for the last one of fs. *)
Replaced(fs, f) == [fs EXCEPT ![Len(fs)] = f]

-----------------------------------------------------------------------------
(* use_gas, of what is left after earlier charges if these succeeded.      *)

Purse(gas) == [gas |-> gas, ok |-> TRUE]

UseGasUnchecked(p, c) == [p EXCEPT !.gas = @ - c]      \* mutant: no OutOfGas
UseGas(p, c) ==
  IF ~p.ok \/ p.gas < c THEN [p EXCEPT !.ok = FALSE] ELSE [p EXCEPT !.gas = @ - c]

(* The frame f goes on with what is left, or the error is unwound.  An     *)
(* error leaves the gas where it was.                                      *)
GoOn(f) == frames' = Replaced(frames, f) /\ succ' = Ok /\ UNCHANGED <<status, unused>>
Fail(f) == frames' = Replaced(frames, f) /\ succ' = Failed /\ UNCHANGED <<status, unused>>

Holding(f, p) == [f EXCEPT !.gas = p.gas]
Grown(f, end) == [f EXCEPT !.mem = Resized(f.mem, end)]
Fee(f, end)   == ResizeFee(f.mem, end)
Billed(f, fee) == [f EXCEPT !.paid = @ + fee]

Settle(f, p) == IF p.ok THEN GoOn(Holding(f, p)) ELSE Fail(Holding(f, p))

-----------------------------------------------------------------------------
(* The end of a call.                                                      *)

(* create_post_processing, on the gas of the frame below: what is left of  *)
(* that, and the result.  An error of the creation takes all of it; else   *)
(* the code is refused or paid for.                                        *)
PostProcessed(gas, err) ==
  CASE err = Reverted -> {[gas |-> gas, ret |-> Ok]}
    [] err = Failed   -> {[gas |-> 0, ret |-> Ok]}
    [] err = Ok ->
         (IF fork >= SpuriousDragon THEN {[gas |-> gas, ret |-> Failed]} ELSE {}) \cup
         {LET p == UseGas(Purse(gas), n * DataCost)
          IN  [gas |-> p.gas, ret |-> IF p.ok THEN Ok ELSE Failed] : n \in Lens}

Finished(ret, gas) ==
  /\ status' = IF ret = Ok THEN "Succeeded" ELSE "Reverted"
  /\ unused' = gas /\ succ' = Ok

(* call_end with the gas that is left: growing the memory for the returned *)
(* data is free, and refused beyond the limit.  (Where the data goes was   *)
(* among the operands of the call.)                                        *)
CallEnd(fs, left, err) ==
  LET f == fs[Len(fs)] IN
  /\ IF err = Failed
     THEN frames' = fs /\ succ' = Ok
     ELSE \E end \in Ends :
            IF TooLarge(end)
            THEN frames' = fs /\ succ' = Failed
            ELSE /\ frames' = Replaced(fs, [Grown(f, end) EXCEPT
                                             !.gas = @ + left, !.gratis = @ + Fee(f, end)])
                 /\ succ' = Ok
  /\ UNCHANGED <<status, unused>>

(* create_end: what the callee has left comes back after any result. *)
CreateEnd(left, err) ==
  /\ \E p \in PostProcessed(Below.gas, err) :
       frames' = Replaced(Callers, [Below EXCEPT !.gas = p.gas + left])
  /\ succ' = Ok
  /\ UNCHANGED <<status, unused>>

(* finish_call of frame f.  The code of a contract that the transaction    *)
(* itself creates is paid for with the gas of the dummy frame.             *)
FinishCall(f, err) ==
  \/ f.kind = "TxCall" /\ Finished(err, f.gas) /\ frames' = Callers
  \/ /\ f.kind = "TxCreate"
     /\ \E p \in PostProcessed(Below.gas, err) :
          /\ Finished(p.ret, f.gas)
          /\ frames' = Replaced(Callers, Holding(Below, p))
  \/ f.kind = "Create" /\ CreateEnd(f.gas, err)
  \/ f.kind = "Call" /\ CallEnd(Callers, f.gas, err)

-----------------------------------------------------------------------------
(* Instructions.                                                           *)

Running == status = "Running" /\ succ = Ok

(* An instruction that costs c and needs no memory. *)
Charge(c) ==
  /\ Running /\ c \in Charges
  /\ Settle(Top, UseGas(Purse(Top.gas), c))
  /\ UNCHANGED <<fork, limit, granted>>

(* An error before anything is charged: stack, opcode, jump, protection... *)
Error == Running /\ Fail(Top) /\ UNCHANGED <<fork, limit, granted>>

(* SSTORE: free before Constantinople. *)
SStore(c) ==
  /\ Running /\ c \in Charges
  /\ IF fork >= Istanbul /\ Top.gas <= Sentry THEN Fail(Top)
     ELSE Settle(Top, UseGas(Purse(Top.gas), IF fork >= Constantinople THEN c ELSE 0))
  /\ UNCHANGED <<fork, limit, granted>>

(* MLOAD, MSTORE, SHA3, the copies and LOG: the memory grows first, and    *)
(* is charged for, with w for its words, when that is done.                *)
Touch(c, end, w) ==
  LET p == UseGas(Purse(Top.gas), c) IN
  /\ Running /\ c \in Charges /\ w \in Charges
  /\ IF ~p.ok \/ TooLarge(end) THEN Fail(Holding(Top, p))
     ELSE LET q == UseGas(UseGas(p, w), Fee(Top, end)) IN
          Settle(IF q.ok THEN Billed(Grown(Top, end), Fee(Top, end)) ELSE Grown(Top, end), q)
  /\ UNCHANGED <<fork, limit, granted>>

(* The end of a slice overflows the word (Memory::get_slice_mut). *)
TouchPanics ==
  /\ Running
  /\ status' = "Panicked"
  /\ UNCHANGED <<fork, limit, frames, succ, unused, granted>>

(* STOP, RETURN and REVERT, and SELFDESTRUCT, which has a charge c. *)
Leave(c, end, err) ==
  LET p == UseGas(UseGas(Purse(Top.gas), c), Fee(Top, end)) IN
  /\ Running /\ c \in Charges
  /\ c # 0 => end = 0 /\ err = Ok
  /\ err = Reverted => fork >= Byzantium
  /\ IF TooLarge(end) THEN Fail(Top)
     ELSE IF ~p.ok THEN Fail(Holding(Grown(Top, end), p))
     ELSE FinishCall(Holding(Billed(Grown(Top, end), Fee(Top, end)), p), err)
  /\ UNCHANGED <<fork, limit, granted>>

(* The inner loop of exec. *)
Unwind ==
  /\ status = "Running" /\ succ # Ok
  /\ FinishCall(Top, succ)
  /\ UNCHANGED <<fork, limit, granted>>

-----------------------------------------------------------------------------
(* Creations.                                                              *)

(* What a creation gets: all but a part, as of EIP-150. *)
CreateQuotaAll(gas) == gas                    \* mutant: before EIP-150
CreateQuota(gas) == IF fork >= TangerineWhistle THEN gas - gas \div Retained ELSE gas

(* The rest of CREATE and CREATE2 when p is left of their cost, with the   *)
(* charge w for hashing.  create_ may refuse when the gas is lent already. *)
CreateFrom(p, end, w) ==
  LET q == UseGas(UseGas(p, Fee(Top, end)), w)
      quota == CreateQuota(q.gas)
      g == [Billed(Grown(Top, end), Fee(Top, end)) EXCEPT !.gas = q.gas - quota]
  IN  IF ~p.ok \/ CallDepth = MaxCallDepth \/ TooLarge(end) THEN Fail(Holding(Top, p))
      ELSE IF ~q.ok THEN Fail(Holding(Grown(Top, end), q))
      ELSE \/ Fail(g)
           \/ /\ frames' = Append(Replaced(frames, g), Frame("Create", quota, 0, granted))
              /\ UNCHANGED <<succ, status, unused>>

Create(end) ==
  /\ Running
  /\ CreateFrom(UseGas(Purse(Top.gas), CreateCost), end, 0)
  /\ UNCHANGED <<fork, limit, granted>>

Create2(end, w) ==
  /\ Running /\ fork >= Constantinople /\ CallDepth # MaxCallDepth
  /\ CreateFrom(UseGas(Purse(Top.gas), CreateCost), end, w)
  /\ UNCHANGED <<fork, limit, granted>>

-----------------------------------------------------------------------------
(* Calls.                                                                  *)

(* gas_call_common, of the gas that is left and the gas that is asked for. *)
GasCallCommon(gas, request) ==
  IF fork >= TangerineWhistle /\ (request = NoU64 \/ gas - gas \div Retained < request)
  THEN gas - gas \div Retained
  ELSE request

(* use_gas_call and its like, before the quota: the callee is not in the   *)
(* access list, it is empty, a value is transferred, memory grows.         *)
CallCharged(p, zero, cold, fresh, fee) ==
  LET p1 == UseGas(p, IF cold THEN ColdCost ELSE 0)
      p2 == UseGas(p1, IF fresh THEN NewAccountCost ELSE 0)
      p3 == UseGas(p2, IF ~zero THEN ValueCost ELSE 0)
  IN  UseGas(p3, fee)

(* call_begin and call_code_begin add the stipend when there is no value.  *)
StipendOf(kind, zero) == IF kind \in {"Call", "CallCode"} /\ zero THEN Stipend ELSE 0

Kinds == {"Call", "CallCode", "DelegateCall", "StaticCall"}

(* What follows when the quota is lent: CALL (of which call_ is part) and  *)
(* CALLCODE may refuse for want of balance, CALL for the depth; or a frame *)
(* is pushed; or there is no code to run, or a precompiled contract has    *)
(* run (return_without_callstack), and all of it comes back or, if that    *)
(* failed, nothing.                                                        *)
Lend(g, quota, stipend, kind, zero) ==
  LET lent == Replaced(frames, g) IN
  \/ /\ (kind \in {"Call", "CallCode"} /\ ~zero) \/ CallDepth = MaxCallDepth
     /\ Fail(g)
  \/ /\ CallDepth # MaxCallDepth
     /\ frames' = Append(lent, Frame("Call", quota, stipend, granted + stipend))
     /\ UNCHANGED <<succ, status, unused>>
  \/ /\ CallDepth # MaxCallDepth /\ kind \in {"Call", "StaticCall"}
     /\ \E err \in {Ok, Failed} : CallEnd(lent, quota + stipend, err)

QuotaKept(p, quota)  == IF p.gas < quota THEN [p EXCEPT !.ok = FALSE] ELSE p   \* mutant
QuotaTaken(p, quota) == UseGas(p, quota)

BaseCostNone == 0                             \* mutant
BaseCost == CallCost[fork]

(* CALL, CALLCODE, DELEGATECALL and STATICCALL. *)
Call(kind, zero, request, cold, fresh, end) ==
  LET p == UseGas(Purse(Top.gas), BaseCost)
      q == CallCharged(p, zero, cold, fresh, Fee(Top, end))
      quota == GasCallCommon(q.gas, request)
      r == QuotaTaken(q, quota)
      stipend == StipendOf(kind, zero)
      grown == Grown(Top, end)
  IN  /\ Running
      /\ cold => fork >= Berlin
      /\ fresh => kind = "Call" /\ ~zero /\ fork >= SpuriousDragon
      /\ zero \/ kind \in {"Call", "CallCode"}
      /\ kind = "DelegateCall" => fork >= Homestead
      /\ kind = "StaticCall" => fork >= Byzantium
      /\ kind # "Call" => CallDepth # MaxCallDepth
      /\ IF ~p.ok \/ TooLarge(end) THEN Fail(Holding(Top, p)) /\ UNCHANGED granted
         ELSE IF ~q.ok \/ quota = NoU64 THEN Fail(Holding(grown, q)) /\ UNCHANGED granted
         ELSE IF ~r.ok THEN Fail(Holding(grown, r)) /\ UNCHANGED granted
         ELSE /\ granted + stipend <= MaxGranted
              /\ granted' = granted + stipend
              /\ Lend(Holding(Billed(grown, Fee(Top, end)), r), quota, stipend, kind, zero)
      /\ UNCHANGED <<fork, limit>>

(* CALL with a value in a static context, noticed when memory has grown. *)
CallProtected(end) ==
  LET p == UseGas(Purse(Top.gas), BaseCost) IN
  /\ Running /\ fork >= Byzantium
  /\ p.ok /\ ~TooLarge(end)
  /\ Fail(Holding(Grown(Top, end), p))
  /\ UNCHANGED <<fork, limit, granted>>

-----------------------------------------------------------------------------
(* TxExecState::new.  The cost of a transaction is subtracted unchecked: a *)
(* limit below it panics, or wraps around in a build without overflow      *)
(* checks.                                                                 *)
TxQuotaFree == limit                     \* mutant
TxQuota == (limit - TxGas) % U64Mod

Start ==
  /\ status = "Idle"
  /\ UNCHANGED <<fork, limit, granted>>
  /\ \/ limit < TxGas /\ status' = "Panicked" /\ UNCHANGED <<frames, succ, unused>>
     \/ /\ status' = "Running"
        /\ \E kind \in {"TxCall", "TxCreate"} : frames' = Append(frames, Frame(kind, TxQuota, 0, 0))
        /\ UNCHANGED <<succ, unused>>
     \* refused, or nothing to run, or a precompiled contract, which may fail
     \/ \E ret \in {Ok, Failed} : Finished(ret, TxQuota) /\ UNCHANGED frames

Next ==
  \/ Start \/ Error \/ TouchPanics \/ Unwind
  \/ \E c \in Charges : Charge(c) \/ SStore(c)
  \/ \E end \in Ends, c, w \in Charges : Touch(c, end, w)
  \/ \E end \in Ends, c \in Charges, err \in {Ok, Reverted} : Leave(c, end, err)
  \/ \E end \in Ends : Create(end) \/ CallProtected(end)
  \/ \E end \in Ends, w \in Charges : Create2(end, w)
  \/ \E kind \in Kinds, zero, cold, fresh \in BOOLEAN, request \in Requests \cup {NoU64},
        end \in Ends : Call(kind, zero, request, cold, fresh, end)

(* exec runs until the transaction is finished. *)
Spec == Init /\ [][Next]_vars /\ WF_vars(Next)

-----------------------------------------------------------------------------
(* Properties.                                                             *)

TypeOK ==
  /\ fork \in Forks /\ limit \in Limits
  /\ Len(frames) >= 1
  /\ \A i \in DOMAIN frames :
       frames[i].gas \in Nat /\ frames[i].mem.len \in Nat /\ frames[i].mem.lastGas \in Nat
  /\ succ \in {Ok, Failed} /\ unused \in Nat /\ granted \in Nat
  /\ status \in {"Idle", "Running", "Succeeded", "Reverted", "Panicked"}

(* What a frame has, with what the frame it called may give back, is never *)
(* more than it started with and the stipends granted since then: no way   *)
(* of ending a call, at any depth, returns gas that was not lent.          *)
GasWithinBudget ==
  \A i \in 2 .. Len(frames) :
    IF i = Len(frames)
    THEN frames[i].gas <= frames[i].budget + granted - frames[i].base
    ELSE frames[i].gas + frames[i + 1].budget
           <= frames[i].budget + frames[i + 1].base - frames[i].base

(* So the transaction never reports more unused gas than its limit left    *)
(* and the stipends it was given, if it could pay for itself at all.       *)
UnusedWithinLimit ==
  status \in {"Succeeded", "Reverted"} /\ limit >= TxGas => unused <= limit - TxGas + granted

(* As of EIP-150 a caller keeps its part of what it had, however deep the  *)
(* calls go: it can always go on for a while when the callee is back.      *)
KeepsItsPart ==
  fork >= TangerineWhistle =>
    \A i \in 2 .. Len(frames) - 1 :
      frames[i].gas >= (frames[i].gas + frames[i + 1].lent) \div Retained

(* Fees add up: over any sequence of accesses a frame has paid what its    *)
(* memory costs in one go, but for what calls returned into it.            *)
MemoryPaid ==
  \A i \in DOMAIN frames :
    (i < Len(frames) \/ succ = Ok) =>
      frames[i].paid + frames[i].gratis = MemGas(frames[i].mem.len \div WordBytes)

(* Unless stipends are granted for ever, the transaction ends: it runs out *)
(* of gas, finishes or panics.                                             *)
Terminates ==
  (<>[][UNCHANGED granted]_vars) => <>(status \notin {"Idle", "Running"})
=============================================================================
