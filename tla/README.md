# A TLA+ model of qevm

qevm is an Ethereum virtual machine written as a library (crate `qevm`, directory
`src/`), with tools (`tools/`: a reference state store and a Merkle-tree store),
tests and a demonstration node (`examples/demo.rs`).  This directory holds TLA+
modules for its stateful core, TLC configurations that check them on small instances,
and TLAPS proofs that hold for every value of the constants.  File names below are
those of the repository; `core/exec.rs` stands for `src/core/exec.rs` and so on.

## The system

| Part | State it keeps | Operations | What makes it correct |
|---|---|---|---|
| Block tree, `chain.rs` | attached blocks, orphans, who waits for whom | `add_block`, `remove_orphans`, look-ups | a block is attached exactly when it is connected to the base, whatever the order of arrival; the `unwrap` in the sweep cannot fail |
| In-memory world state, `state.rs` | chains of revisions (deltas) shared by reference | reads, writes, create, delete, log, `snapshot`, `rollback`, `consolidate` | it reads like a full copy; snapshots never change |
| Reference store, `tools/src/dummy.rs` | one flat record per account | the same traits | it is the specification of the former (`tests/state.rs`) |
| Executor, `core/exec.rs`, `core/call.rs` | call frames, world state, refund counter, access list, self-destruct and dirty sets | one handler per opcode, `tx_end`, `create_end`, `call_end` | failed calls leave no trace, static calls write nothing, money is conserved, the stack discipline holds |
| Scheduling, `processor.rs`, `Core` in `core/mod.rs`, `TxExecReady` in `core/exec.rs` | two channels, the ready list, the suspended transaction | send, poll, drain, await | the transaction finishes |
| Gas, `core/exec.rs`, `core/params.rs` | unused gas of the frames | charged by every instruction, lent to calls, returned | no call gives back more than was lent to it; callers keep their part; execution ends |
| Arithmetic, stack, memory, `core/alu.rs`, `stack.rs`, `memory.rs` | operand stack, memory | pure functions | they agree with 256-bit arithmetic at the boundaries |
| Transactions, `tx.rs` | none | decode, recover the sender | only transactions signed for this chain are accepted; numeric edges of `v` |
| Mempool and RPC, `mempool.rs`, `rpc.rs` | none | forward messages to actors | - |
| Merkle store, `tools/src/merkle.rs` | database, pending batch, reference counts | read, commit | counts are right although the batch is pending |
| Demo node, `examples/demo.rs` | block tree, index of the canonical chain, mempool, database | import and produce blocks, answer RPC | database, index and tree agree, after a crash too |

How they interact: the node hands a transaction and a `MemStateAuto` over the store
to `TxExecState::new`; `run_single_tx` passes the resulting future back and forth to
the thread of `Core`; the executor reads and writes the world state under a lock,
snapshots it at every nested call and rolls it back when the call fails; the final
revision is consolidated and committed to the store, and its block added to the tree.

What is hard here: blocks that arrive in any order; revisions shared by several
objects and written through unsafe code; failures at any depth of nested calls, with
some of the bookkeeping rolled back and some transaction-wide; a transaction that is
suspended in the middle of a read; a process that ends between two writes to its
database; arithmetic at the limits of its types.  PROJECT.json lists these hazards with
their lines.  Some of them the models have but no property rules out, because the
repository does not say what should happen; the notes of their entries say what the
properties accept, and the behaviours are listed under Findings.

## Modules

**Block tree.**  `BlockTree` has the data (hashes, parents) and `Connected(known)`, the
blocks with an unbroken line of known ancestors.  `ChainAbs` is the promise of the doc
comments: each operation atomic.  `Chain` is `chain.rs`: `attached`, `orphans` and
`orphan_on` are the maps of `Chain`, `q` is the local queue of `add_block`.
`AddKnown`, `AddOrphan` and `AddAttached` are the ways through `add_block` up to its loop
and `Sweep` is one iteration; nothing else is enabled while `q` is not empty because the
caller holds `&mut self`.

**World state.**  `FlatState` is the reference store: a snapshot is a copy.  `MemState` is
`state.rs`, with the heap of revisions explicit (`heap`, numbered by allocation), so
that sharing is not assumed away; `handle` says for each `MemStateAuto` which revision
it holds and whether it is `Mutable` or `Const`.  `Write` is `convert_mut` followed by the
write, and `AddLogPanics` is what is left when `add_log` panics because the data is not 32
bytes; `Share` is `to_shared`; `Consolidate` is `to_shared`, `consolidate` with any number of
back steps, and the conversion back.  `CrossValidate` drives both with the same calls,
as `test_random_cross_validate` does.  Scalars (balance, nonce, code) are handled alike by
the code, so the instance has two of them.  `AnySeq` says "is a sequence" without
naming the set of elements, for the proofs.

**Executor.**  `World` has world states as values with the operations of the traits;
that a snapshot is a copy of the value is what `MemState` is checked to provide (except
for deletion, see below).  `TxExec` is `exec.rs`: `frames` is `call_stack` with `cur_call` on
top; `succ` and `adv` are locals of the loop of `exec`, kept because one iteration of its
inner loop (`Unwind`) is a step of its own.  The code of contracts is arbitrary: any
instruction may come next.  `FinishCall`, `CallEnd`, `CreateEnd`, `TxEnd` and
`ReturnWithoutFrame` are the functions and the macro of the same names;
`PostProcessed` is `create_post_processing`.  All forks from Frontier to London are
covered by the constant `Fork`.

Abstractions of `TxExec`: gas is not counted here (`Gas` does) - an instruction may run out of gas
wherever the code charges some *after* an effect, and `Error` covers every failure
before one; `fuel` bounds the instructions.  An account has one storage slot, code is
present or absent, logs are counted.  The operand stack and memory matter only through
`Error` and through the failure to store returned data in `CallEnd`.  A jump to
position 0, which underflows in the code (`exec.rs:665`), is not among `Dests`; `Code` has it.
Overflows and failed conversions end the transaction as `Crashed` (a LOG whose data
is not 32 bytes; the nonce of the sender at its maximum, which a build without overflow
checks wraps to 0), a failed assertion of the code as `Panicked`.  `Frame.entry` and `ended`
are history: the world state the call found, and how the nested call or creation that
ended in the last step did - `Failed` covers REVERT, every other error and a failing
precompiled contract, `Refused` a creation whose code `create_post_processing` did not take.

**Scheduling.**  `Scheduler` has `run_single_tx`, the thread of `Core` and a transaction that
reads the state `NumReads` times through `TxExecReady::wrap`.  The source may have its
answer at once or later; a later answer wakes nobody, since the thread polls with a
no-op waker.

**Gas.**  `Memory` is the size of a frame's memory and what growing it costs.  `Gas` is the
same loop of `exec` as in `TxExec`, seen from the other side: the frames have their
unused gas and memory, while everything the world state decides (is an account cold,
new, rich enough, is there code, does it fail) is arbitrary.  `UseGas` is `use_gas`;
`CreateQuota` and `GasCallCommon` are what is lent, `CallEnd`, `CreateEnd` and `PostProcessed`
what is returned and taken; `TouchPanics` is the overflow of `off + len` in
`memory.rs:60`; `TxQuota` the unchecked subtraction of the transaction's cost, which
panics or wraps around depending on the build.  `lent`, `budget`, `base`, `paid`, `gratis` and
`granted` are history.  All amounts are constants, so the properties do not depend on the
price list.

**Store and node.**  `MerkleStore` is `tools/src/merkle.rs`: the database as one function on
keys, the pending batch `wb`, counts and data of trie nodes.  A hash is modelled by what
it is the hash of and a trie is a single node; what the trie library writes and
removes when a trie is dropped is external.  `Node` extends it with `examples/demo.rs`: the
chain-state actor (`tree`, `indexed`, `tx_cache`), the mempool actor (`tx_queue`, `in_queue`), the
task of `main` and the request it has under way (`phase`).  `BeginTransition`, `RunTx`,
`AddBlock`, `Write` and `Extend` are one iteration of the loop of `AddBlocks`.  The first two are
`process_state_transition`, one step per transaction, with its locals in `run`; `AddBlock` is the
rest up to the first write, and `AddBlockPanics` the panics on the way: an unwrap that fails,
or the execution of any transaction that is paid for, which ends the core.  An outcome
is the list `gas_used` and, as history, which positions of the block succeeded.  The
iteration is split at its two database writes because the process may end between them
(`Crash`); no other handler runs in between, since all share one thread and
`run_single_tx` blocks it.  `Start` is the constructor with both its
branches.  A panic in a handler ends what waits for it: `AddTransaction` while the
mempool is borrowed kills the mempool actor, a state transition that returns `None` or
panics kills the task of `main`.  Transactions are reduced to fee, nonce and a counter in a
contract.  Orphans cannot occur in this use of the block tree; `Chain` has them.

**Algorithms without state.**  `Pure` runs five of them, each on every input of a bounded
set: `Estimate` (`do_estimate_gas`), `Signature` (chain id and recovery id of `tx.rs`),
`OperandStack`, `Code` (jump destinations and the way of a frame through its code) and `Alu`
(signed arithmetic, shifts, bytes).  The properties compare the results with definitions
that do not follow the algorithms.  The search of `do_estimate_gas` is stepwise: one action
per execution of the call (`BeginEstimate`, `Probe`, `EndEstimate`; `RefuseEstimate` is its early
returns).  The library's shifts and its bitwise or are defined in `Alu` itself, by powers of
two and by the bits of the result, so that the proofs can use them.

## Runs

| Run | Checks | Instance |
|---|---|---|
| `chain` | the invariant of the proofs, `UnwrapNeverFails`, `AttachedExact`, refinement of `ChainAbs`, termination of the sweep | 6 blocks: a chain of three, two forks, one block whose parent never comes; every order, duplicates, orphan removal |
| `mem_cross` | every object reads as its flat copy (`CheckSame`) | 2 accounts (one in the external source), 2 scalars, 1 key, 2 objects, 5 operations, 4 revisions |
| `mem_share` | ownership of written revisions, frozen revisions, isolation of objects | 3 objects, deletion and re-creation, 5 operations, 4 revisions |
| `mem_delete` | `WritesAreLocal`: **violated** | 2 accounts |
| `tx_exec` | call stack, access list, static calls, roll-back, conservation | 4 addresses (sender, contract, precompiled, unused), depth 3, 2 transactions with 3 instructions between them, nonces up to 2, London |
| `tx_create` | `FailureIsReported`: **violated** | 2 instructions |
| `tx_pc` | `ResumesAfterCall`: **violated** | 2 instructions |
| `tx_refund` | `NeverPanics`: **violated** | 4 instructions |
| `sched_async` | `FinishesExecution`: **violated** | 2 reads |
| `node` | index, blocks and states in the database agree whenever the process ends (`DurableChain`), the chain only grows, states read back, no transaction runs twice between two starts, cached positions, inclusion | 3 transactions (one whose fee overflows, one that may be too dear), blocks of 2, 2 starts |
| `gas` | returned gas is within what was lent, unused gas within the limit, the caller's part, fees of memory, termination | limits 0 and 6, cost of a transaction 2, 3 frames, part kept 1/2, memory of 2 words, Homestead and London |
| `pure` | two's complement, placement of bits, jumps never land in data, the estimate is sound and least, replay protection, honest signers, the stack | words of 3 bytes of 2 bits; code of up to 5 bytes; gas up to 6; bytes, `u64` and words of 64, 128 and 256 values; stack of 5 |

The bounds.  Six blocks give an orphan with two children, an orphan's orphan, and a
sweep of two levels with a fork.  A wrong overlay or ownership needs a write, a
snapshot, a write on each side and a look or a consolidation: five operations and four
revisions.  Three frames and three instructions (those that end a frame are not
counted) are enough for a call that writes and fails below one that goes on, a static
call whose callee calls a writer, and a contract that destroys itself in a nested call;
the second transaction starts from a state that the first one left, and its sender is at
the last nonce.  Three transactions and blocks of two make
GenBlocks build two blocks; two starts let a restart meet every half-written database,
and a block that was written but not indexed be produced again.  The amounts of `gas`
are so small that a frame can fail at each of the charges of a call in turn, and the
stipend is larger than the cost of a call, as it is since Berlin; two stipends may be
granted in all.  The words of `pure` have more bytes than two, so that bytes have a
middle, and `usize` is smaller than a word.  Each property is also shown to fail on a
plausible bug (`mutants` in PROJECT.json) within the same bounds.  CHECK_DEADLOCK is off
where the bounds on operations, instructions and transactions make the model stop, and
in `sched_async`, where the processor has returned; in `pure` an input is run once, in
`gas` a transaction ends, in `node` a process that has used its starts stays down.
Symmetry is used in `mem_share` only, on the two objects that do not exist at the start;
no liveness is checked there.

Fairness.  `chain`: weak fairness of `Sweep`; `add_block` is a sequential function, its
loop keeps running.  `sched_async`: weak fairness of the processor, of the thread of
`Core` and of the state source; each is a thread or task that goes on as long as it can.
The violated property fails although all three are fair.  `node`: weak fairness of the
steps that change `phase` or `ticker` while the process is up: the runtime polls what can go
on and the timer fires; nothing is assumed of clients, crashes or starts.  `Included` says
"unless the process ends or block production has stopped for a panic": that it may stop
so is accepted, not ruled out.  `gas`: weak
fairness of `Next`: `exec` is a loop that runs until the transaction is finished.  `Terminates`
assumes that stipends are not granted for ever, see below.

## Findings

The five violated runs are disagreements between the code and what its comments,
assertions or tests say of it:

* `mem_delete`: whether an account is deleted is asked of the newest revision only
  (`state.rs:141`), so the next revision on top brings the deleted account back.
* `tx_create`: `create_post_processing` swallows the error (`exec.rs:1011`), so a failed
  creation transaction is reported as `Succeeded` and not rolled back.
* `tx_pc`: after an error in a call instruction of the callee, the caller's program
  counter stays where it is (`exec.rs:1928`).
* `tx_refund`: the refund counter is not rolled back with the storage; a write that a
  reverted call has done before reaches the panic "refund counter below zero"
  (`exec.rs:1663`).
* `sched_async`: a notifier is set ready by the poll that waits for the notifier
  (`exec.rs:209-216`, `processor.rs:20-22`).

The models also have the following behaviours of the code, which differ from what
Ethereum defines but contradict nothing the repository says.  The properties are stated
so that they hold with them.

* `call_begin` and `call_code_begin` grant the stipend when *no* value is transferred
  (`exec.rs:1250`), without charge.  Since the stipend exceeds the cost of a call, a
  transaction may gain gas; `GasWithinBudget`, `UnusedWithinLimit` and `Terminates` are stated up
  to the stipends granted, so they accept it.
* A gas limit below 21000 underflows (`exec.rs:2005`): a panic or a huge quota.
  `UnusedWithinLimit` is stated for limits above.
* The nonce of the sender is raised before the snapshot by a call and after it by a
  creation (`exec.rs:2014`): a reverted call keeps it, a creation that is rolled back does not; `RevertedKeepsOnlyNonce`
  holds of both.
* A nested creation whose init code fails is rolled back, but since the error is
  swallowed the address of the contract is pushed as if it had succeeded (`exec.rs:1041-1046`).
* A nested creation whose init code succeeds but whose code is refused (too long, its
  first byte 0xef, or not paid for) pushes 0 like a failure, and is not rolled back: `create_end`
  does that before `create_post_processing` and for a failed init code only (`exec.rs:1038-1041`),
  so what the init code wrote and the value that was paid stay.  For the same refusal of a creation
  transaction `tx_end` does roll back.  `FailureLeavesNoTrace` leaves this case out.
* A LOG instruction panics unless its data has 32 bytes (`state.rs:240`).
* The code of a created contract is charged to the frame below, for a creation
  transaction to the dummy frame; a failed creation takes all gas of the frame below but
  returns what the callee had left (`exec.rs:1014`, `1033-1054`).
* Growing memory for returned data in `call_end` is free (`gratis` in `Gas`).
* SHR by more than `usize::MAX` panics, BYTE beyond the word gives the last byte,
  SIGNEXTEND of a positive number does not clear the bits above (`alu.rs:343`, `327`, `144`).
* The bytes 0xb0 to 0xb2 decode to PUSH, DUP and SWAP without operand: the first panics,
  DUP 0 reads a slot above the top.  A push whose data exceeds the code panics
  (`exec.rs:1793`).
* `gas_used` of a block has no entry for skipped and reverted transactions, but receipts
  are looked up by position (`demo.rs:694`): after such a transaction a receipt is that of a
  later one, or the request panics.  `CachedTxIsCanonical` says that the receipt is right
  as long as no transaction before it was skipped or reverted.
* After a restart the mempool has forgotten what it executed, and nonces are not
  checked: `OncePerStart` counts per start.
* A transaction submitted while GenBlocks waits ends the mempool (`demo.rs:989`), and a
  block that cannot be executed ends the production of blocks (`demo.rs:806`); `Included`
  accepts both.

## Proofs

Proved by TLAPS without the bounds of the runs, from the assumptions on the constants
that are named in the modules (`ChainAssumption`, `MemAssumption`, `TxAssumption`,
`StoreAssumption`, `NodeAssumption`, and the assumptions of `Gas`, `Memory`, `Estimate`, `Signature`,
`OperandStack`, `Alu` and `Pure`).  They say that amounts are naturals, that special addresses and the
names of fields differ, that the ranges of the integer
types are ordered as in Rust, that there are finitely many addresses (`AddrAssumption`; a sum
over them needs it), and for `TxExec` that an account which does not exist before the
first transaction has no balance, code or storage.  TLC evaluates each of them in the
runs.  `AnySeqProofs` has lemmas on sequences whose elements have no common type, and
induction over the naturals in the form the provers can use: about a *set* of numbers
that has 0 and with each number the next (`NatInd`).  It is obtained from the library's rule
for smallest elements, and everything below that is about data of any size rests on it.
A function defined by recursion is taken apart in the same way: that its defining
equation has a solution is proved by induction on the domain (`Pow2Eq`, `BitmapSkips`, `MergedEq`).

* `ChainProofs`: `ChainInvariant`, `ChainTypes`, `UnwrapSafe`, `IsAttachedExact`, `ChainImplementsAbs`.
  `AttachedExact` is not inductive: during the sweep some connected blocks are still
  orphans.  `Inv` adds that the waiting lists index the orphans by parent without
  duplicates, that an orphan whose parent is attached has its parent in the queue, and
  that attached blocks hang from attached blocks.  When the queue is empty, the attached
  blocks form a closed set, so they contain `Connected(known)`.  Under the refinement
  mapping `Sweep` and `AddKnown` are stuttering steps.
* `MemStateProofs`: `ChainsWellFounded` (parents are older than children, so every look-up
  ends), `WritesAreOwned`, `SharedNeverChanges`, `ObjectsAreIsolated`.  The inductive invariant is
  `Forest` with `OwnedRevision`: a new revision has the number after the last, so nobody can
  hold it yet; sharing clears `mutable` before the second holder appears.  For isolation,
  the ancestry of a revision is the least closed set that holds it.  Another object's
  ancestry without the revision that is written is still closed, since nothing rests on
  that revision, and holds the other object's head, so it never contained it
  (`OwnIsAside`).  Hence the write leaves that object's ancestry and all its answers alone
  (`ViewKept`).  `MemTypes` is the type of the heap, the deltas that a consolidation merges
  included.  `ReadsAsFlatCopies` is what `tests/state.rs` samples: with any number of objects,
  snapshots and consolidations of any depth, each `MemStateAuto` answers as its flat
  copy.  A look-up is first shown to depend on the chain below a revision only; then that
  two deltas merged read as one over the other, and by induction over the revisions
  merged that a consolidated chain reads as before.  Its hypothesis `Deletes = {}` leaves
  deletion out, as the test does: with deletion the two disagree (run `mem_delete`).
* `TxExecProofs`: `CallStackDiscipline` and `CalleesInAccessList`, for every program, every
  fork and every depth limit.  The invariant adds that every frame above the
  transaction's is a call or creation and that the access list only grows while a
  transaction runs.
* `TxWorldProofs`, on top of it: `TxTypes`, `RevertedTransaction`, `StaticCallsWriteNothing`,
  `FailedCallsLeaveNoTrace`, `MoneyIsConserved`.  None of these is inductive alone.  The invariant `WInv` adds:
  what does not exist is blank, in the world state and in every snapshot (`Good`; else
  creating an account could uncover something); the snapshot of a frame is the state it
  was entered in, or it has none and is read-only (`FrameOK`); read-only is inherited
  upwards, so that below a static call the top frame is read-only and every instruction
  that writes is refused, and the state a read-only frame was entered in looks like the
  present one, so that going without a snapshot is harmless (`Static`); and the frame of the
  first transaction goes back to the initial state or to that with the sender's nonce
  increased (`FirstTx`).  `FailedCallsLeaveNoTrace` needs of it that the snapshot of the frame
  that is left is its `entry`, or that it is read-only and nothing has changed; a call
  without a frame goes back to the state it started from.  For conservation a sum over the accounts is characterised without its
  order (`Sums`, by induction on finite sets), and `SumsUpdate` says what changing one account
  does to it.  The invariant `MoneyInv` then has to speak of every state that could come
  back: neither the present one nor a snapshot in a frame has more money than the world
  before the transaction, and as long as nothing was destroyed a snapshot has exactly as
  much as the present one (`Backed`).
* `GasProofs`: `GasTypes`, `NothingFromNowhere`, `UnusedGas`, `PartIsKept`, `MemoryIsPaid`, for all
  prices, limits, parts kept and depths.  The invariant `GInv` has the budget of the running
  frame (`Within`) and that of each waiting one with the frame it called (`Funded`); that what
  a frame paid for memory is the fee recorded last, which is that of its size (`Paid`,
  `FrameOK`); and that the frame of the transaction is the second one with the transaction's
  quota as its budget (`Stacked`), which carries the bound over to what is reported unused.
* `PureProofs`: `EstimateIsSound`, `EstimateIsLeast`, `NoReplay`, `HonestSigners`,
  `OperandStackIsSequence`, `DataNeverRun`, `SignedAsTwosComplement`, `BitsInPlace`.  The search has the loop invariant `SearchOK`: the lower end was
  seen to fail, or is where the search began; the upper end was seen to succeed, or is
  where it began; and the ends do not cross unless they did at the start.  That the bitmap
  is the least set closed under "the next instruction" goes by induction over the
  positions, that a frame stays in it by induction over its steps, for code of any
  length.  The theorems on words hold for every number of bytes of every number of bits.
  `BitsInPlace` rests on how a number splits at a bit (`BitIs`, `BitParts`), from which the bits of
  a product with, a quotient and a remainder by a power of two follow, and on the mask of
  `sar` being all ones even for a shift by the whole width, where `1 << s` is zero and the
  subtraction wraps around (`OnesBelow`).  `SignedAsTwosComplement` compares magnitudes
  with division rounded towards zero (`Truncated`), and then drops multiples of the size from
  the wrapping product and difference of `smod` (`Same`).
* `NodeProofs`: `AlwaysRestartable`, `ChainGrows`, `StatesAreKept`, `CacheIsCanonical`,
  `AtMostOncePerStart`, `NodeTypes`, for any transactions, accounts, keys and block size and any number of
  starts.  What the database must be like (`DbOK`) is stated of any database: the index is an
  unbroken line, each block on it is stored with its outcome and a state whose tries are
  all there.  The invariant `Inv` says it of the present one *and* of what it becomes with
  the pending batch (`BatchOK`): each of the two writes of a block may be the last, so
  both must be good to start from.  The rest of `Inv` says that memory mirrors the database
  while the process is up (`UpOK`), what is known of the blocks under way and of the partly run
  block in each `phase` (`BlocksOK`, `RunOK`, whose `OutcomeTo` says that the entries of `gas_used` are those of
  the transactions as far as all of them succeeded), of the cache (`CacheOK`), and that the root of a computed block
  stands for the world state it was computed to lead to (`WorldsOK`).  The last is stated with
  `Val`, which reads a root without the database; that a reader sees `Val` is a lemma
  about any state whose tries are present, and that commit's new root has the values of
  the delta over the old ones another.  The path that `set_canonical_tail` follows is
  defined by least sets; that it exists for a block on top of the chain is shown by
  the least number at which it could fail.  `OncePerStart` needs a second invariant,
  `Inv2`: a transaction that waits in the queue or in a block under way is in `in_queue` and
  waits once (`QueueOK`), and one that waits or could be taken again is on the chain less
  often than the process was started (`CountOK`).

Only model-checked are the three liveness properties (`SweepTerminates` in `chain`, `Included` in
`node`, `Terminates` in `gas`): the prover has no rules for fairness and ENABLED.  Every other
property of the passing runs is a theorem.  The violated runs have no counterpart in the
proofs.

## Not modelled

Operations of `alu.rs` that are one call of the integer library; contents of memory and
return data; what precompiled contracts compute (their outcome is arbitrary); RLP
formats, hashing and the elliptic curve of `tx.rs`; the conversions of `common.rs`; the RPC
and mempool interfaces (they forward messages to the actors); requests of the demo node
that only read and format (`get_block_info`, `get_exec_env`); iteration and proofs of the
Merkle store, and deletion in its commit (`deleted_accounts` is never looked at, and
transactions of `Node` do not delete); the memory model behind the unsafe reference of
`convert_ref` (`state.rs:484`).

## Plan

Modelling is complete up to the parts named above, and every invariant and action
property of the passing runs is proved.  What is left is to keep the proofs in
step with the code: a change to a handler changes its action, and the lemma of that
action in the component's proof module is the one to look at first.
