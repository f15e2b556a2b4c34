-------------------------------- MODULE TxExec ------------------------------
(***************************************************************************)
(* The execution of the transactions of a block (core/exec.rs): the stack  *)
(* of call frames, the instructions that read and write the world state,   *)
(* nested calls and contract creation, the roll-back of what failed, and   *)
(* the transaction-wide accumulators (refund counter, access list,         *)
(* self-destruct list, dirty accounts).                                    *)
(*                                                                         *)
(* The code of a contract is arbitrary, so any instruction may come next.  *)
(* Gas is not counted: an instruction may run out of it wherever the code  *)
(* charges some, and `fuel` bounds how many instructions the gas of all    *)
(* transactions pays for.  One action is one iteration of the loop of exec, *)
(* or one iteration of its inner loop, which unwinds frames after an error;*)
(* the awaits in between give control to nobody who touches this state.    *)
(***************************************************************************)
EXTENDS World, Integers, Sequences

CONSTANTS
  Origin,        \* the sender of the transactions
  Precompiled,   \* addresses of precompiled contracts
  NoAddr,        \* `None`: the receiver of a contract creation
  NoSnapshot,    \* `None`: the snapshot of a static call
  World0,        \* the state at the end of the last block (committed_state)
  Fork,          \* the fork in effect
  Values,        \* amounts that are transferred
  Words,         \* contents of a storage slot
  PushData,      \* how many bytes may follow an opcode in the code
  Dests,         \* positions of the code that may be jumped to
  CreateAddrs,   \* addresses that create_addr and create_addr2 give
  MaxCallDepth,  \* MAX_CALL_DEPTH
  MaxNonce,      \* the largest nonce (u64::MAX)
  MaxFuel,       \* bound on the instructions of the transactions
  MaxTx          \* bound on the transactions of the block

Homestead        == 1
TangerineWhistle == 2
SpuriousDragon   == 3
Byzantium        == 4
Constantinople   == 5
Istanbul         == 6
Berlin           == 7
London           == 8

Worlds ==
  [balance : [Addr -> Nat], nonce : [Addr -> 0 .. MaxNonce], code : [Addr -> BOOLEAN],
   slot : [Addr -> Nat], exist : SUBSET Addr, logs : Nat]

(* What is read of an account that does not exist. *)
IsBlank(w, a) == IsEmpty(w, a) /\ w.slot[a] = 0

ASSUME TxAssumption ==
  /\ Origin \in Addr
  /\ Precompiled \subseteq Addr \ {Origin}
  /\ NoAddr \notin Addr
  /\ CreateAddrs \subseteq Addr \ Precompiled
  /\ Fork \in 0 .. London
  /\ Values \subseteq Nat /\ Words \subseteq Nat
  /\ PushData \subseteq Nat /\ Dests \subseteq Nat \ {0}
  /\ MaxCallDepth \in Nat \ {0}
  /\ MaxNonce \in Nat /\ MaxFuel \in Nat /\ MaxTx \in Nat
  /\ World0 \in Worlds /\ \A a \in Addr \ World0.exist : IsBlank(World0, a)
  /\ NoSnapshot \notin Worlds

VARIABLES
  frames,     \* call_stack with cur_call at its end; the first frame is a dummy
  world,      \* state
  refund, warm, destroyed, dirty,  \* refund, access_list.addrs, and the sets
  status,     \* of the last transaction that was started
  succ, adv,  \* locals of the loop of exec: the result of the instruction, and
              \* by how much the program counter will be advanced
  fuel, txs,  \* instructions left to run, transactions started
  ended       \* history: how a nested call or creation ended in the last step

vars == <<frames, world, refund, warm, destroyed, dirty, status, succ, adv, fuel, txs, ended>>

Ok       == "Ok"
Reverted == "Reverted"  \* ExecError::Reverted
Failed   == "Failed"    \* any other ExecError

Frame(kind, callee, caller, code, snapshot) ==
  [kind     |-> kind,      \* CallType
   callee   |-> callee,    \* whose storage it works on
   caller   |-> caller,
   code     |-> code,      \* is there any code to run?
   pc       |-> 0,
   readOnly |-> FALSE,
   snapshot |-> snapshot,
   entry    |-> snapshot]  \* history: the state the call found

Dummy == Frame("Dummy", NoAddr, NoAddr, FALSE, NoSnapshot)

Init ==
  /\ frames = <<Dummy>>
  /\ world = World0
  /\ refund = 0 /\ warm = {} /\ destroyed = {} /\ dirty = {}
  /\ status = "Idle"
  /\ succ = Ok /\ adv = 0
  /\ fuel = MaxFuel /\ txs = 0
  /\ ended = "None"

Top     == frames[Len(frames)]
Callers == SubSeq(frames, 1, Len(frames) - 1)

AtMaxDepthLate == Len(frames) - 1 > MaxCallDepth     \* mutant: off by one
AtMaxDepth     == Len(frames) - 1 = MaxCallDepth

Advance(stk, n) == [stk EXCEPT ![Len(stk)].pc = @ + n]

(* call_push: all child calls become read-only if the parent is. *)
PushedOwnFlag(f) == Append(frames, f)                \* mutant
Pushed(f) == Append(frames, [f EXCEPT !.readOnly = @ \/ Top.readOnly])

(* Access list additions are made by Berlin and later forks only. *)
WarmedThenOnly(S) == IF Fork = Berlin THEN warm \cup S ELSE warm   \* mutant
Warmed(S) == IF Fork >= Berlin THEN warm \cup S ELSE warm

-----------------------------------------------------------------------------
(* The end of a call.  w is the state the call left, err its result.       *)

(* create_post_processing: what the state may become, what it may return,  *)
(* and the accounts it makes dirty.  After an error it only charges gas,   *)
(* and returns no error; else the code, of which there may be none, is     *)
(* stored unless it is refused or cannot be paid for.                      *)
PostProcessed(a, w, err) ==
  IF err # Ok
  THEN {[state |-> w, ret |-> Ok, dirty |-> {}]}
  ELSE {[state |-> w, ret |-> Failed, dirty |-> {}]} \cup
       {[state |-> SetCode(w, a, c), ret |-> Ok, dirty |-> {a}] : c \in BOOLEAN}

(* The state a transaction leaves. *)
TxEndKeeps(ret, snapshot, w) == w        \* mutant: no rollback
TxEndState(ret, snapshot, w) == IF ret = Ok THEN w ELSE snapshot

(* tx_end.  `created` is the address of the contract the transaction was   *)
(* to create, if it was (TxAux).                                           *)
TxEnd(created, snapshot, w, err, touched, killed) ==
  \E p \in IF created = NoAddr
           THEN {[state |-> w, ret |-> err, dirty |-> {Origin}]}
           ELSE PostProcessed(created, w, err) :
    LET empty == IF Fork >= SpuriousDragon
                 THEN {a \in touched \cup p.dirty : IsEmpty(p.state, a)} ELSE {}
    IN  /\ status' = IF p.ret = Ok THEN "Succeeded" ELSE "Reverted"
        /\ world'  = TxEndState(p.ret, snapshot, DeleteAccounts(p.state, empty \cup killed))
        /\ dirty' = {} /\ destroyed' = {}
        /\ succ' = Ok /\ adv' = 0 /\ ended' = "None"

(* create_end, in the frame below: it rolls back before the code is looked *)
(* at, so a refusal undoes nothing.                                        *)
CreateEnd(f, n, w, err, touched, killed) ==
  \E p \in PostProcessed(f.callee, IF err # Ok THEN f.snapshot ELSE w, err) :
    /\ world' = p.state
    /\ dirty' = touched \cup p.dirty /\ destroyed' = killed
    /\ frames' = Advance(Callers, n)
    /\ succ' = Ok /\ adv' = 0
    /\ ended' = IF err # Ok THEN "Failed" ELSE IF p.ret # Ok THEN "Refused" ELSE "Ok"
    /\ UNCHANGED status

(* call_end, in the frame below.  The data that is returned may not fit in *)
(* the memory of the caller, which is then the one to fail.                *)
CallEndForgets(snapshot, w, err) == w    \* mutant: no rollback
CallEndState(snapshot, w, err) ==
  IF err # Ok /\ snapshot # NoSnapshot THEN snapshot ELSE w
CallEnd(snapshot, onOk, onErr, n, w, err, touched, killed) ==
  /\ world' = CallEndState(snapshot, w, err)
  /\ \/ frames' = onOk  /\ succ' = Ok     /\ adv' = 0
     \/ frames' = onErr /\ succ' = Failed /\ adv' = n /\ err # Failed
  /\ dirty' = touched /\ destroyed' = killed
  /\ ended' = IF err # Ok THEN "Failed" ELSE "Ok"
  /\ UNCHANGED status

(* finish_call: the current frame is left, and the program counter of the  *)
(* one below advances by n when there is no error to unwind further.       *)
FinishCall(w, err, n, touched, killed) ==
  LET f == Top IN
  \/ f.kind \in {"TxCall", "TxCreate"}
     /\ frames' = Callers
     /\ TxEnd(IF f.kind = "TxCreate" THEN f.callee ELSE NoAddr,
              f.snapshot, w, err, touched, killed)
  \/ f.kind = "Create" /\ CreateEnd(f, n, w, err, touched, killed)
  \/ f.kind = "Call"
     /\ CallEnd(f.snapshot, Advance(Callers, n), Callers, n, w, err, touched, killed)

(* return_without_callstack!: a call that needs no frame. *)
ReturnWithoutFrame(kind, snapshot, w, err, touched) ==
  \/ /\ kind = "TxCall"
     /\ TxEnd(NoAddr, snapshot, w, err, touched, destroyed)
     /\ UNCHANGED frames
  \/ /\ kind = "Call"
     /\ CallEnd(snapshot, Advance(frames, 1), Advance(frames, 1), 0, w, err,
                touched, destroyed)

-----------------------------------------------------------------------------
(* The beginning of a call.                                                *)

(* The current frame goes on with f above it. *)
Enter(f) ==
  /\ frames' = Pushed(f)
  /\ status' = "Running" /\ succ' = Ok /\ adv' = 0 /\ ended' = "None"
  /\ UNCHANGED destroyed

(* The error an instruction ends with; the loop will unwind. *)
Fail(n) ==
  /\ succ' = Failed /\ adv' = n /\ ended' = "None"
  /\ UNCHANGED <<frames, status, dirty, destroyed>>

(* The loop is left with status s: by the error of the call or creation    *)
(* that is the transaction itself, or by a panic.                          *)
Leave(s) ==
  status' = s /\ ended' = "None" /\ UNCHANGED <<frames, succ, adv, dirty, destroyed>>
FailTx == Leave("Reverted")
Panic  == Leave("Panicked") \* of an assertion of this code
Crash  == Leave("Crashed")  \* of what it calls: an overflow, a conversion

(* call_ from state w, which is also the snapshot. *)
Refused(w, caller, value) == AtMaxDepth \/ w.balance[caller] < value

Call_(kind, w, callee, caller, value) ==
  LET missing  == callee \notin w.exist
      skipped  == /\ missing /\ callee \notin Precompiled
                  /\ Fork >= SpuriousDragon /\ value = 0
      paid     == Transfer(IF missing THEN CreateAccount(w, callee) ELSE w,
                           caller, callee, value)
      touched  == dirty \cup {caller, callee}
  IN  \/ skipped /\ ReturnWithoutFrame(kind, w, w, Ok, touched)
      \/ /\ ~skipped /\ callee \in Precompiled
         /\ \E err \in {Ok, Failed} : ReturnWithoutFrame(kind, w, paid, err, touched)
      \/ /\ ~skipped /\ callee \notin Precompiled /\ ~paid.code[callee]
         /\ ReturnWithoutFrame(kind, w, paid, Ok, touched)
      \/ /\ ~skipped /\ callee \notin Precompiled /\ paid.code[callee]
         /\ world' = paid /\ dirty' = touched
         /\ Enter(Frame(kind, callee, caller, TRUE, w))

(* create_ at address a from state world, which is also the snapshot. *)
CreateRefusedUnchecked(caller, value) ==   \* mutant: no NonceIntOverflow
  world.balance[caller] < value
CreateRefused(caller, value) ==
  world.balance[caller] < value \/ world.nonce[caller] = MaxNonce
Collides(a) == world.nonce[a] # 0 \/ world.code[a]
Bumped(caller) == SetNonce(world, caller, world.nonce[caller] + 1)
Created(a, caller, value) ==
  LET new == CreateAccount(Bumped(caller), a)
  IN  Transfer(IF Fork >= SpuriousDragon THEN SetNonce(new, a, 1) ELSE new,
               caller, a, value)
Create_(kind, a, caller, value) ==
  /\ world' = Created(a, caller, value)
  /\ dirty' = dirty \cup {a, caller}
  /\ \E code \in BOOLEAN : Enter(Frame(kind, a, caller, code, world))

-----------------------------------------------------------------------------
(* Instructions.                                                           *)

Running == status = "Running" /\ succ = Ok

(* An instruction other than the ones that end the call. *)
Instruction == Running /\ Top.code /\ fuel > 0 /\ fuel' = fuel - 1 /\ UNCHANGED txs

(* An instruction that ends the call. *)
Ending == Running /\ UNCHANGED <<fuel, txs>>

(* The frame goes on with the next instruction. *)
Continue(n) ==
  /\ frames' = Advance(frames, n)
  /\ succ' = Ok /\ adv' = 0 /\ ended' = "None"
  /\ UNCHANGED <<status, destroyed>>

(* Everything that works on the frame alone; n bytes of data follow a PUSH. *)
Plain(n) ==
  Instruction /\ Continue(n + 1) /\ UNCHANGED <<world, refund, warm, dirty>>

(* ORIGIN, BLOCKHASH, GASPRICE .. BASEFEE: what the environment is. *)
Environment == Plain(0)

(* JUMP and JUMPI to a valid destination. *)
Jump(dest) ==
  /\ Instruction
  /\ frames' = [frames EXCEPT ![Len(frames)].pc = dest]
  /\ ended' = "None"
  /\ UNCHANGED <<world, refund, warm, destroyed, dirty, status, succ, adv>>

(* An error before any effect: out of gas, stack underflow, invalid        *)
(* opcode or jump, write protection...; n is 0 for the instructions that   *)
(* would have entered a call.                                              *)
Error(n) ==
  Ending /\ Top.code /\ Fail(n) /\ UNCHANGED <<world, refund, warm>>

(* BALANCE, EXTCODESIZE, EXTCODECOPY and EXTCODEHASH of a.  The gas for a  *)
(* cold account is charged when it is in the access list already (by       *)
(* SELFDESTRUCT too).                                                      *)
Access(a) ==
  /\ Instruction
  /\ warm' = Warmed({a})
  /\ \/ Continue(1) /\ UNCHANGED dirty
     \/ Fail(1)
  /\ UNCHANGED <<world, refund>>

SLoad == Access(Top.callee)

SetBack == IF Fork >= Berlin THEN 20000 - 100 ELSE 20000 - 800
ResetBack == IF Fork >= Berlin THEN 5000 - 2100 - 100 ELSE 5000 - 800
Clearing == IF Fork >= London THEN 4800 ELSE 15000

(* What SSTORE of val adds to the refund counter: EIP-2200 as of Istanbul. *)
SubRefund(orig, cur, val) ==
  IF Fork >= Istanbul /\ val # cur /\ orig # cur /\ orig # 0 /\ cur = 0 THEN Clearing ELSE 0
AddRefund(orig, cur, val) ==
  CASE Fork < Constantinople \/ val = cur -> 0
    [] Fork = Constantinople -> IF cur # 0 /\ val = 0 THEN 15000 ELSE 0
    [] OTHER -> (IF orig # 0 /\ cur # 0 /\ val = 0 THEN Clearing ELSE 0) +
                (IF orig # cur /\ orig = val
                 THEN IF orig = 0 THEN SetBack ELSE ResetBack ELSE 0)

(* SSTORE.  The refund counter moves before the gas is charged, and panics *)
(* rather than go below zero; so does the access list when it lacks the    *)
(* account (assert!(addr_exist)).  As of Istanbul only a slot that has its *)
(* original value costs more than the 2300 that are left for sure.         *)
Writable == ~Top.readOnly

SStorePanics(sub) == refund < sub \/ (Fork >= Berlin /\ Top.callee \notin warm)

RunsOut(orig, cur, val) ==
  IF Fork >= Istanbul THEN orig = cur /\ val # cur ELSE Fork = Constantinople

SStore(val) ==
  LET a   == Top.callee
      sub == SubRefund(World0.slot[a], world.slot[a], val)
      add == AddRefund(World0.slot[a], world.slot[a], val)
  IN  /\ Instruction /\ Writable
      /\ warm' = Warmed({a})
      /\ \/ /\ ~SStorePanics(sub)
            /\ refund' = refund - sub + add
            /\ \/ /\ world' = SetState(world, a, val)
                  /\ dirty' = dirty \cup {a}
                  /\ Continue(1)
               \/ /\ RunsOut(World0.slot[a], world.slot[a], val)
                  /\ Fail(1) /\ UNCHANGED world
         \/ /\ SStorePanics(sub)
            /\ Panic /\ UNCHANGED <<world, refund>>

(* LOG0 .. LOG4: the memory is charged for when the record is written.     *)
(* add_log takes the data for a hash and panics unless it is as long.      *)
Log ==
  /\ Instruction /\ Writable
  /\ \/ /\ world' = AddLog(world)
        /\ \/ Continue(1) /\ UNCHANGED dirty
           \/ Fail(1)
     \/ Crash /\ UNCHANGED world
  /\ UNCHANGED <<refund, warm>>

(* CREATE and CREATE2, at address a; they differ in where that comes from. *)
Create(a, value) ==
  /\ Instruction /\ Writable /\ ~AtMaxDepth
  /\ ~CreateRefused(Top.callee, value)
  /\ warm' = Warmed({a})
  /\ IF Collides(a)
     THEN world' = Bumped(Top.callee) /\ Fail(0)
     ELSE Create_("Create", a, Top.callee, value)
  /\ UNCHANGED refund

Create2(a, value) == Fork >= Constantinople /\ Create(a, value)

(* use_gas_call, use_gas_delegate_call...: the account of the callee joins *)
(* the access list, and then the gas may not be enough.                    *)
UseGasCall(a) == warm' = Warmed({a})

(* CALL. *)
Call(callee, value) ==
  /\ Instruction
  /\ Writable \/ value = 0
  /\ UseGasCall(callee)
  /\ \/ Fail(0) /\ UNCHANGED world
     \/ /\ ~Refused(world, Top.callee, value)
        /\ Call_("Call", world, callee, Top.callee, value)
  /\ UNCHANGED refund

(* DELEGATECALL and CALLCODE run the code of a on the account of the       *)
(* current frame; whether that account is a precompiled contract is asked, *)
(* which it never is.  CALLCODE with a value needs the balance.            *)
RunCodeOf(a, caller, value) ==
  /\ Instruction /\ ~AtMaxDepth
  /\ UseGasCall(a)
  /\ \/ Fail(0)
     \/ /\ world.balance[Top.callee] >= value
        /\ Enter(Frame("Call", Top.callee, caller, world.code[a], world))
        /\ UNCHANGED dirty
  /\ UNCHANGED <<world, refund>>

DelegateCall(a)    == Fork >= Homestead /\ RunCodeOf(a, Top.caller, 0)
CallCode(a, value) == RunCodeOf(a, Top.callee, value)

(* STATICCALL: no snapshot, as nothing can be written. *)
StaticCall(a) ==
  /\ Fork >= Byzantium
  /\ Instruction /\ ~AtMaxDepth
  /\ UseGasCall(a)
  /\ \/ Fail(0) /\ UNCHANGED world
     \/ /\ a \in Precompiled
        /\ \E err \in {Ok, Failed} : ReturnWithoutFrame("Call", NoSnapshot, world, err, dirty)
     \/ /\ a \notin Precompiled
        /\ Enter([Frame("Call", a, Top.callee, world.code[a], NoSnapshot)
                    EXCEPT !.readOnly = TRUE, !.entry = world])
        /\ UNCHANGED <<world, dirty>>
  /\ UNCHANGED refund

(* STOP, RETURN and the end of the code; REVERT. *)
Return == Ending /\ FinishCall(world, Ok, 1, dirty, destroyed) /\ UNCHANGED <<refund, warm>>
Revert ==
  /\ Fork >= Byzantium
  /\ Ending /\ Top.code
  /\ FinishCall(world, Reverted, 1, dirty, destroyed)
  /\ UNCHANGED <<refund, warm>>

SelfDestruct(heir) ==
  LET a     == Top.callee
      given == SetBalance(world, heir, world.balance[heir] + world.balance[a])
  IN  /\ Ending /\ Top.code /\ Writable
      /\ warm' = Warmed({heir})
      /\ refund' = IF Fork \in TangerineWhistle .. London - 1 /\ a \notin destroyed
                   THEN refund + 24000 ELSE refund
      /\ FinishCall(SetBalance(given, a, 0), Ok, 1, dirty \cup {a, heir},
                    destroyed \cup {a})

(* The inner loop of exec. *)
Unwind ==
  /\ status = "Running" /\ succ # Ok
  /\ FinishCall(world, succ, adv, dirty, destroyed)
  /\ UNCHANGED <<refund, warm, fuel, txs>>

-----------------------------------------------------------------------------
(* TxExecState::new: a fresh context, and the call or create that the      *)
(* transaction is.                                                         *)
Start(list) ==
  /\ status \in {"Idle", "Succeeded", "Reverted"}
  /\ txs < MaxTx /\ txs' = txs + 1 /\ UNCHANGED fuel
  /\ refund' = 0
  /\ warm' = list \cup {Origin} \cup Precompiled

(* nonce + 1 of a call wraps around, or panics in a build that checks it. *)
Raised(w) ==
  SetNonce(w, Origin, IF w.nonce[Origin] = MaxNonce THEN 0 ELSE w.nonce[Origin] + 1)
TxCall(to, value) ==
  /\ Start({to})
  /\ \/ world.nonce[Origin] = MaxNonce /\ Crash /\ UNCHANGED world
     \/ IF Refused(Raised(world), Origin, value)
        THEN FailTx /\ world' = Raised(world)
        ELSE Call_("TxCall", Raised(world), to, Origin, value)

TxCreate(a, value) ==
  /\ Start(IF Fork >= Berlin THEN {a} ELSE {})
  /\ \/ CreateRefused(Origin, value) /\ FailTx /\ UNCHANGED world
     \/ ~CreateRefused(Origin, value) /\ Collides(a) /\ FailTx /\ world' = Bumped(Origin)
     \/ /\ ~CreateRefused(Origin, value) /\ ~Collides(a)
        /\ Create_("TxCreate", a, Origin, value)

Next ==
  \/ \E a \in Addr : \/ Access(a) \/ DelegateCall(a) \/ StaticCall(a) \/ SelfDestruct(a)
                     \/ \E v \in Values : Call(a, v) \/ CallCode(a, v) \/ TxCall(a, v)
  \/ \E a \in CreateAddrs, v \in Values : Create(a, v) \/ Create2(a, v) \/ TxCreate(a, v)
  \/ \E n \in PushData : Plain(n) \/ Error(n + 1)
  \/ \E d \in Dests : Jump(d)
  \/ \E val \in Words : SStore(val)
  \/ Environment \/ SLoad \/ Log \/ Error(0) \/ Return \/ Revert \/ Unwind

Spec == Init /\ [][Next]_vars

-----------------------------------------------------------------------------
(* Properties.                                                             *)

TypeOK ==
  /\ world \in Worlds
  /\ \A i \in DOMAIN frames :
       /\ frames[i].kind \in {"Dummy", "TxCall", "TxCreate", "Create", "Call"}
       /\ frames[i].pc \in Nat /\ frames[i].readOnly \in BOOLEAN
       /\ frames[i].snapshot \in Worlds \cup {NoSnapshot}
  /\ refund \in Nat
  /\ warm \subseteq Addr /\ destroyed \subseteq Addr /\ dirty \subseteq Addr
  /\ status \in {"Idle", "Running", "Succeeded", "Reverted", "Panicked", "Crashed"}
  /\ succ \in {Ok, Reverted, Failed} /\ adv \in Nat
  /\ ended \in {"None", "Ok", "Failed", "Refused"}

(* While a transaction runs, its own frame is the one above the dummy, and *)
(* the only one of its kind; otherwise there is none.  So call_pop never   *)
(* pops the dummy (unwrap, exec.rs:1692), tx_end finds an empty call stack *)
(* (assert!, exec.rs:1702), and no path is deeper than MAX_CALL_DEPTH.     *)
IsTx(f) == f.kind \in {"TxCall", "TxCreate"}
StackDiscipline ==
  /\ frames[1].kind = "Dummy"
  /\ status = "Running" => Len(frames) >= 2 /\ IsTx(frames[2])
  /\ status \in {"Idle", "Succeeded", "Reverted"} => Len(frames) = 1 /\ succ = Ok
  /\ \A i \in 3 .. Len(frames) : frames[i].kind \in {"Create", "Call"}
  /\ Len(frames) - 1 <= MaxCallDepth

(* Whoever runs is in the access list, whichever of the ways to start a    *)
(* frame was taken and whatever failed in between: assert!(addr_exist) of  *)
(* SSTORE holds (exec.rs:758).  Nobody runs at a precompiled address.      *)
RunnersAreWarm ==
  \A i \in 2 .. Len(frames) : /\ Fork >= Berlin => frames[i].callee \in warm
                              /\ frames[i].callee \notin Precompiled

(* Below a static call nothing is written, however deep and by whichever   *)
(* instruction (read_only, exec.rs:1682-1683).                             *)
StaticWritesNothing ==
  [][(\E i \in DOMAIN frames : frames[i].readOnly)
       => Observable(world') = Observable(world)]_vars

(* What the nested call that ends in a step had found: the state its frame *)
(* was entered with, or the current one if it needed no frame.             *)
FoundByCall == IF Len(frames') < Len(frames) THEN Top.entry ELSE world

(* A nested call that fails, or a creation whose init code fails, leaves   *)
(* no trace in the world state: by REVERT, by any other error, by that of  *)
(* a precompiled contract, with or without a snapshot to go back to        *)
(* (call_end, exec.rs:1273, create_end, exec.rs:1038).  A creation that is *)
(* refused for its code after its init code succeeded is not among them:   *)
(* it pushes 0 as well, but create_end is past its rollback, so that what  *)
(* was written and paid stays.                                             *)
FailureLeavesNoTrace ==
  [][ended' = "Failed" => Observable(world') = Observable(FoundByCall)]_vars

(* No step creates money, and only self-destruction loses any: transfers   *)
(* to oneself, nested roll-backs and the clean-up of tx_end included.      *)
Conservation ==
  [][/\ Total(world') <= Total(World0)
     /\ \/ Total(world') = Total(world)
        \/ destroyed # {}
        \/ \E heir \in Addr : SelfDestruct(heir)]_vars

(* The first transaction, if reverted, has changed the nonce of its sender *)
(* at most, whether or not it is one that raises it before its snapshot.   *)
RevertedKeepsOnlyNonce ==
  status = "Reverted" /\ txs = 1 =>
    Observable(world) \in {Observable(w) : w \in {World0, Raised(World0)}}

(* "The execution reverts with some returned data and error" (exec.rs:168):*)
(* a transaction whose code fails is not reported as Succeeded.            *)
FailureIsReported == [][succ # Ok => status' # "Succeeded"]_vars

(* "pc will be increased every iteration in the core loop" (exec.rs:664):  *)
(* a caller goes on with the instruction after the call.                   *)
ResumesAfterCall ==
  [][Len(frames') \in 2 .. Len(frames) - 1 /\ succ' = Ok
       => frames'[Len(frames')].pc = frames[Len(frames')].pc + 1]_vars

(* The assertions of the code hold: "refund counter below zero"            *)
(* (exec.rs:1663) is never reached.                                        *)
NeverPanics == status # "Panicked"
=============================================================================
