-------------------------------- MODULE Node --------------------------------
(***************************************************************************)
(* The demonstration node (examples/demo.rs): the mempool actor, the       *)
(* chain-state actor, the task that asks for blocks every few seconds, and *)
(* the database under them, which is all that survives the process.        *)
(*                                                                         *)
(* Everything runs on one thread.  Handlers that return a future give way  *)
(* to others only where they wait for a message: GenBlocks does while      *)
(* AddBlocks is under way.  AddBlocks itself waits for nothing that is not *)
(* there at once (run_single_tx blocks), but the process may end between   *)
(* any two of its writes, so each write is a step.                         *)
(*                                                                         *)
(* What transactions do is reduced to the fee, the nonce, and a counter in *)
(* the storage of a contract that the first to succeed creates; whether    *)
(* they succeed is arbitrary.                                              *)
(***************************************************************************)
EXTENDS MerkleStore, Sequences

CONSTANTS
  Tx,          \* signed transactions, by hash
  Fee,         \* what each pays for its gas: gas_price * gas
  BadTx,       \* those for which that product overflows
  Payer,       \* the account of the airdrop, which sends the transactions
  Burn,        \* Addr::zero(), which receives the fees
  Contract,    \* the contract they create or call
  Airdrop,     \* balance of the genesis account
  Times,       \* values of the clock
  GenesisTime,
  MaxBlockTxs, \* MAX_BLOCK_TXS
  MaxStarts    \* bound on how often the process is started

ASSUME NodeAssumption ==
  /\ Fee \in [Tx -> Nat] /\ BadTx \subseteq Tx
  /\ {Payer, Burn, Contract} \subseteq Acct /\ Cardinality({Payer, Burn, Contract}) = 3
  /\ {"balance", "nonce"} \subseteq Scalar /\ "counter" \in Key
  /\ Airdrop \in Nat /\ MaxBlockTxs \in Nat \ {0} /\ MaxStarts \in Nat

VARIABLES
  process,    \* "Down", "Up", or "Broken": an unwrap fails as it starts or serves
  \* DemoChainStateMutable
  tree,       \* the attached blocks of `chain`
  indexed,    \* the canonical chain; position i holds the block numbered i - 1
  tx_cache,   \* a function on the transactions that were looked up
  \* DemoMempoolInner, and whether its actor lives
  tx_queue, in_queue, mempool,
  \* the task in main and the requests it has under way
  ticker,     \* does it live?
  phase,      \* where the one request for blocks is
  blocks,     \* argument of AddBlocks: what is left of it
  run,        \* locals of process_state_transition: the changes of the world
              \* state, the outcome so far, and the transaction that is next
  \* history
  starts,     \* how often the process was started
  worlds      \* the world state each block was computed to lead to

chainVars   == <<tree, indexed, tx_cache>>
mempoolVars == <<tx_queue, in_queue, mempool>>
historyVars == <<starts, worlds>>
vars == <<db, wb, process, chainVars, mempoolVars, ticker, phase, blocks, run, historyVars>>

(* A block; its hash is taken over all of it. *)
Block(number, parent, root, time, txs) ==
  [number |-> number, parent |-> parent, root |-> root, time |-> time, txs |-> txs]

BlockKey(b)   == <<"block", b>>
OutcomeKey(b) == <<"outcome", b>>
IndexKey(i)   == <<"index", i>>

Phases ==
  {"Idle", "Asked", "Sent", "Adding", "Running", "Executed", "Written", "Answered", "Failed"}

(* BlockOutcome: gas_used, an entry of which is named by its transaction,  *)
(* and as history the positions in the block that succeeded.               *)
NoOutcome == [gas_used |-> <<>>, succeeded |-> {}]
NoRun == [delta |-> Empty, outcome |-> NoOutcome, next |-> 1]

Init ==
  /\ db = Empty /\ wb = Empty
  /\ process = "Down"
  /\ tree = {} /\ indexed = <<>> /\ tx_cache = Empty
  /\ tx_queue = <<>> /\ in_queue = {} /\ mempool = "Dead"
  /\ ticker = "Dead" /\ phase = "Idle" /\ blocks = <<>> /\ run = NoRun
  /\ starts = 0 /\ worlds = Empty

-----------------------------------------------------------------------------
(* Blocks of the chain state.                                              *)

Latest == indexed[Len(indexed)]

(* get_block_by_hash finds it: in the tree, or else in the database.       *)
Found(b) == b \in tree \/ BlockKey(b) \in DOMAIN db

(* get_block_state: there is an outcome, and the trie of the state. *)
HasState(b) == OutcomeKey(b) \in DOMAIN db /\ Contains(b.root)

(* Chain::add_block, for a block whose parent is attached.  (An orphan     *)
(* never occurs here; Chain has them.)                                     *)
AttachToEarly(t, b) ==      \* mutant: added before its root is filled in
  IF b.parent \in t THEN t \cup {[b EXCEPT !.root = ZeroHash]} ELSE t
AttachTo(t, b) == IF b.parent \in t THEN t \cup {b} ELSE t

(* The ancestors of b, b included: the least set of attached blocks that   *)
(* holds b and the parent of each member.  By number they are the chain    *)
(* that ends in b.                                                         *)
Lineage(b) ==
  {x \in tree : \A S \in SUBSET tree :
     b \in S /\ (\A y \in S : y.number > 0 => y.parent \in S) => x \in S}
Path(b) ==
  LET line == Lineage(b)
  IN  [i \in 1 .. b.number + 1 |-> CHOOSE x \in line : x.number = i - 1]

-----------------------------------------------------------------------------
(* What process_state_transition computes.                                 *)

World0 == [a \in Acct |-> [f \in Scalar \cup Key |->
             IF a = Payer /\ f = "balance" THEN Airdrop ELSE 0]]

(* What is written to the world state by a transaction that is paid for. *)
Writes(w, t, verdict) ==
  At(Payer, At("balance", w[Payer]["balance"] - Fee[t]) ++ At("nonce", w[Payer]["nonce"] + 1))
    ++ At(Burn, At("balance", w[Burn]["balance"] + Fee[t]))
    ++ (IF verdict = "Reverted" THEN Empty
        ELSE At(Contract, IF w[Contract]["nonce"] = 0 THEN At("nonce", 1) ++ At("counter", 1)
                          ELSE At("counter", w[Contract]["counter"] + 1)))

(* The newer delta d over the older one. *)
OverlayDelta(d, older) ==
  [a \in DOMAIN d \cup DOMAIN older |->
     (IF a \in DOMAIN d THEN d[a] ELSE Empty) ++ (IF a \in DOMAIN older THEN older[a] ELSE Empty)]

Apply(w, delta) ==
  [a \in Acct |-> [f \in Scalar \cup Key |->
     IF a \in DOMAIN delta /\ f \in DOMAIN delta[a] THEN delta[a][f] ELSE w[a][f]]]

-----------------------------------------------------------------------------
(* The mempool.                                                            *)

(* GenBlocks keeps the mempool borrowed until AddBlocks has answered. *)
Borrowed == phase \in {"Sent", "Answered", "Failed"}

(* The thread is free: AddBlocks is not in the middle of its loop. *)
Free == process = "Up" /\ phase \notin {"Adding", "Running", "Executed", "Written"}

(* AddTransaction, from an RPC.  borrow_mut panics when it is borrowed,    *)
(* and the actor ends with it.                                             *)
IsNewNever(t) == TRUE       \* mutant
IsNew(t) == t \notin in_queue
AddTransaction(t) ==
  /\ Free /\ mempool = "Alive"
  /\ \/ /\ Borrowed
        /\ mempool' = "Dead"
        /\ UNCHANGED <<tx_queue, in_queue>>
     \/ /\ ~Borrowed /\ IsNew(t)
        /\ in_queue' = in_queue \cup {t}
        /\ tx_queue' = Append(tx_queue, t)
        /\ UNCHANGED mempool
  /\ UNCHANGED <<db, wb, process, chainVars, ticker, phase, blocks, run, historyVars>>

(* The task in main: GenBlocks is sent every few seconds, and the answer   *)
(* unwrapped; a mempool that is gone ends the task.                        *)
Tick ==
  /\ Free /\ ticker = "Alive" /\ phase = "Idle"
  /\ IF mempool = "Alive" THEN phase' = "Asked" /\ UNCHANGED ticker
                          ELSE ticker' = "Dead" /\ UNCHANGED phase
  /\ UNCHANGED <<db, wb, process, chainVars, mempoolVars, blocks, run, historyVars>>

(* GenBlocks up to its await: the queue, in blocks of MAX_BLOCK_TXS whose  *)
(* number, parent and state are left for AddBlocks to fill in.             *)
ChunksFull(q) ==     \* mutant: the last block is not flushed unless it is full
  [i \in 1 .. Len(q) \div MaxBlockTxs |->
     SubSeq(q, (i - 1) * MaxBlockTxs + 1, i * MaxBlockTxs)]
Chunks(q) ==
  [i \in 1 .. (Len(q) + MaxBlockTxs - 1) \div MaxBlockTxs |->
     SubSeq(q, (i - 1) * MaxBlockTxs + 1,
               IF i * MaxBlockTxs < Len(q) THEN i * MaxBlockTxs ELSE Len(q))]
GenBlocks(time) ==
  /\ process = "Up" /\ phase = "Asked"
  /\ blocks' = [i \in DOMAIN Chunks(tx_queue) |->
                  Block(0, ZeroHash, ZeroHash, time, Chunks(tx_queue)[i])]
  /\ tx_queue' = <<>>
  /\ phase' = "Sent"
  /\ UNCHANGED <<db, wb, process, chainVars, in_queue, mempool, ticker, run, historyVars>>

(* GenBlocks goes on after its await.  If AddBlocks panicked, so do its    *)
(* unwrap and the one in main.                                             *)
Resume ==
  /\ process = "Up" /\ phase \in {"Answered", "Failed"}
  /\ phase' = "Idle"
  /\ ticker' = IF phase = "Failed" THEN "Dead" ELSE ticker
  /\ UNCHANGED <<db, wb, process, chainVars, mempoolVars, blocks, run, historyVars>>

-----------------------------------------------------------------------------
(* AddBlocks.                                                              *)

AddBlocks ==
  /\ process = "Up" /\ phase = "Sent"
  /\ phase' = IF blocks = <<>> THEN "Answered" ELSE "Adding"
  /\ UNCHANGED <<db, wb, process, chainVars, mempoolVars, ticker, blocks, run, historyVars>>

(* process_state_transition: the block it builds on is the one before it   *)
(* in the message, or the latest, which is the same as each becomes the    *)
(* latest in turn.                                                         *)
BeginTransition ==
  /\ process = "Up" /\ phase = "Adding"
  /\ HasState(Latest)
  /\ phase' = "Running" /\ run' = NoRun
  /\ UNCHANGED <<db, wb, process, chainVars, mempoolVars, ticker, blocks, historyVars>>

(* One transaction: it is skipped if the sender cannot pay for it.         *)
(* gas_used, and contract_addrs with it, get an entry if it succeeds.      *)
Current(w0) == Apply(w0, run.delta)
NextOutcomeOfCreation(t, verdict) ==    \* mutant: an entry with a contract's address only
  IF verdict = "Succeeded"
  THEN [gas_used  |-> IF Current(ReadAll(Latest.root))[Contract]["nonce"] = 0
                      THEN Append(run.outcome.gas_used, t) ELSE run.outcome.gas_used,
        succeeded |-> run.outcome.succeeded \cup {run.next}]
  ELSE run.outcome
NextOutcome(t, verdict) ==
  IF verdict = "Succeeded"
  THEN [gas_used  |-> Append(run.outcome.gas_used, t),
        succeeded |-> run.outcome.succeeded \cup {run.next}]
  ELSE run.outcome
CanPay(t) == Current(ReadAll(Latest.root))[Payer]["balance"] >= Fee[t]
RunTx(verdict) ==
  /\ process = "Up" /\ phase = "Running"
  /\ run.next <= Len(blocks[1].txs)
  /\ LET t == blocks[1].txs[run.next]
         w == Current(ReadAll(Latest.root))
     IN  /\ t \notin BadTx
         /\ run' = IF ~CanPay(t)
                   THEN [run EXCEPT !.next = @ + 1]
                   ELSE [delta   |-> OverlayDelta(Writes(w, t, verdict), run.delta),
                         outcome |-> NextOutcome(t, verdict),
                         next    |-> run.next + 1]
  /\ UNCHANGED <<db, wb, process, chainVars, mempoolVars, ticker, phase, blocks, historyVars>>

(* The rest of the loop of AddBlocks up to the first write: everything     *)
(* about the block is put in the batch.                                    *)
Completed ==
  Block(Latest.number + 1, Latest, NewRoot(Latest.root, run.delta),
        blocks[1].time, blocks[1].txs)
AddBlock ==
  /\ process = "Up" /\ phase = "Running"
  /\ run.next > Len(blocks[1].txs)
  /\ CanCommit(Latest.root, run.delta)
  /\ tree' = AttachTo(tree, Completed)
  /\ blocks' = [blocks EXCEPT ![1] = Completed]
  /\ wb' = (At(BlockKey(Completed), Completed) ++ At(OutcomeKey(Completed), run.outcome)) ++
           Committed(Latest.root, run.delta)
  /\ worlds' = At(Completed, Current(ReadAll(Latest.root))) ++ worlds
  /\ phase' = "Executed" /\ run' = NoRun
  /\ UNCHANGED <<db, process, indexed, tx_cache, mempoolVars, ticker, starts>>

(* An unwrap fails: that of the state transition, which ends at a          *)
(* transaction that cannot be charged or without a state to start from,    *)
(* that of commit, or the one that waits for the core (processor.rs:16)    *)
(* when executing a transaction that is paid for panicked there; so does   *)
(* the subtraction of the gas that is left (demo.rs:208).  The core is     *)
(* then gone until the process ends, but no more blocks are asked for.     *)
AddBlockPanics ==
  /\ process = "Up"
  /\ \/ phase = "Adding" /\ ~HasState(Latest)
     \/ /\ phase = "Running"
        /\ IF run.next <= Len(blocks[1].txs)
           THEN LET t == blocks[1].txs[run.next] IN t \in BadTx \/ CanPay(t)
           ELSE ~CanCommit(Latest.root, run.delta)
  /\ phase' = "Failed" /\ blocks' = <<>> /\ run' = NoRun
  /\ UNCHANGED <<db, wb, process, chainVars, mempoolVars, ticker, historyVars>>

(* The first write: block, outcome and state. *)
Write ==
  /\ process = "Up" /\ phase = "Executed"
  /\ CommitWritebatch(Empty)
  /\ phase' = "Written"
  /\ UNCHANGED <<process, chainVars, mempoolVars, ticker, blocks, run, historyVars>>

(* set_canonical_tail: the second write.  From the tail down, the          *)
(* positions are set until one holds the ancestor of b already.            *)
Replaces(b, path) ==
  LET same == {i \in 1 .. b.number + 1 : i <= Len(indexed) /\ indexed[i] = path[i]}
  IN  {i \in 1 .. b.number + 1 : \A j \in same : j < i}
IndexPuts(b, path) ==
  At(IndexKey(0), b.number + 1) ++
  [k \in {IndexKey(i) : i \in Replaces(b, path)} |-> path[k[2]]]

SetCanonicalTail(b) ==
  LET path == Path(b) IN
    /\ indexed' = [i \in 1 .. b.number + 1 |->
                     IF i \in Replaces(b, path) THEN path[i] ELSE indexed[i]]
    /\ CommitWritebatch(IndexPuts(b, path))

Extend ==
  /\ process = "Up" /\ phase = "Written"
  /\ IF blocks[1].number >= Len(indexed) /\ blocks[1] \in tree
     THEN SetCanonicalTail(blocks[1]) ELSE UNCHANGED <<indexed, db, wb>>
  /\ blocks' = Tail(blocks)
  /\ phase' = IF Len(blocks) = 1 THEN "Answered" ELSE "Adding"
  /\ UNCHANGED <<process, tree, tx_cache, mempoolVars, ticker, run, historyVars>>

-----------------------------------------------------------------------------
(* Requests that read.                                                     *)

(* get_cached_tx, of GetTxReceipt and GetTxByHash: the newest canonical    *)
(* block with the transaction, and the position in it, once and for all.   *)
Holding(t) == {i \in DOMAIN indexed : \E n \in DOMAIN indexed[i].txs : indexed[i].txs[n] = t}
CacheFrom(t, b) ==
  \E n \in DOMAIN b.txs :
    /\ b.txs[n] = t
    /\ \A m \in 1 .. n - 1 : b.txs[m] # t
    /\ tx_cache' = At(t, [block |-> b, idx |-> n]) ++ tx_cache
LookUp(t) == \E i \in Holding(t) : (\A j \in Holding(t) : j <= i) /\ CacheFrom(t, indexed[i])
GetCachedTx(t) ==
  /\ Free /\ t \notin DOMAIN tx_cache
  /\ LookUp(t)
  /\ UNCHANGED <<db, wb, process, tree, indexed, mempoolVars, ticker, phase, blocks,
                 run, historyVars>>

(* GetBlockByHash: a block that is not in the tree yet is added to it. *)
GetBlockByHash(b) ==
  /\ Free /\ b \notin tree /\ Found(b)
  /\ tree' = AttachTo(tree, b)
  /\ UNCHANGED <<db, wb, process, indexed, tx_cache, mempoolVars, ticker, phase, blocks,
                 run, historyVars>>

(* GetTxReceipt takes the entry of gas_used at the position of the         *)
(* transaction; there is one if its list is long enough (else a panic,     *)
(* which only this request meets).                                         *)
Outcome(t)    == db[OutcomeKey(tx_cache[t].block)]
HasReceipt(t) == tx_cache[t].idx <= Len(Outcome(t).gas_used)
Receipt(t)    == Outcome(t).gas_used[tx_cache[t].idx]

(* GetBalance, GetNonce, GetState and GetCode, by block number. *)
Query(number, a, f) == Get(indexed[number + 1].root, a, f)

-----------------------------------------------------------------------------
(* The process starts, and ends at any moment.                             *)

(* DemoChainStateMutable::new on an empty database: everything about the   *)
(* genesis block in one batch.                                             *)
GenesisDelta == At(Payer, At("balance", Airdrop) ++ At("nonce", 0))
Genesis == Block(0, ZeroHash, NewRoot(ZeroHash, GenesisDelta), GenesisTime, <<>>)

AnyStart == TRUE       \* mutant: whether it exists is not asked
IsFirstStart == BlockKey(ZeroHash) \notin DOMAIN db
Initialize ==
  /\ IsFirstStart
  /\ db' = At(BlockKey(ZeroHash), Genesis) ++ At(OutcomeKey(Genesis), NoOutcome) ++
           At(IndexKey(0), 1) ++ At(IndexKey(1), Genesis) ++
           Committed(ZeroHash, GenesisDelta) ++ db
  /\ tree' = {Genesis} /\ indexed' = <<Genesis>>
  /\ worlds' = At(Genesis, World0)
  /\ process' = "Up"

(* ... and on one that has it: the canonical chain is loaded. *)
Loaded == [i \in 1 .. db[IndexKey(0)] |->
             IF i = 1 THEN db[BlockKey(ZeroHash)] ELSE db[IndexKey(i)]]
Loadable ==
  /\ IndexKey(0) \in DOMAIN db
  /\ \A i \in 2 .. db[IndexKey(0)] : /\ IndexKey(i) \in DOMAIN db
                                     /\ BlockKey(db[IndexKey(i)]) \in DOMAIN db
Load ==
  /\ ~IsFirstStart
  /\ IF Loadable
     THEN /\ indexed' = Loaded
          /\ tree' = {Loaded[i] : i \in DOMAIN Loaded}
          /\ process' = "Up"
     ELSE process' = "Broken" /\ UNCHANGED <<indexed, tree>>
  /\ UNCHANGED <<db, worlds>>

Start ==
  /\ process = "Down" /\ starts < MaxStarts
  /\ starts' = starts + 1
  /\ Initialize \/ Load
  /\ mempool' = "Alive" /\ ticker' = "Alive"
  /\ UNCHANGED <<wb, tx_cache, tx_queue, in_queue, phase, blocks, run>>

(* Everything but the database is gone. *)
Crash ==
  /\ process = "Up"
  /\ process' = "Down"
  /\ wb' = Empty
  /\ tree' = {} /\ indexed' = <<>> /\ tx_cache' = Empty
  /\ tx_queue' = <<>> /\ in_queue' = {} /\ mempool' = "Dead"
  /\ ticker' = "Dead" /\ phase' = "Idle" /\ blocks' = <<>> /\ run' = NoRun
  /\ UNCHANGED <<db, historyVars>>

-----------------------------------------------------------------------------
Next ==
  \/ \E t \in Tx : AddTransaction(t) \/ GetCachedTx(t)
  \/ \E time \in Times : GenBlocks(time)
  \/ \E b \in DOMAIN worlds : GetBlockByHash(b)
  \/ \E verdict \in {"Succeeded", "Reverted"} : RunTx(verdict)
  \/ Tick \/ AddBlocks \/ BeginTransition \/ AddBlock \/ AddBlockPanics
  \/ Write \/ Extend \/ Resume
  \/ Start \/ Crash

(* The runtime polls what can go on, and the timer fires: where a request  *)
(* for blocks is under way, or the task that makes them lives, the next    *)
(* step of it is taken.  These are the steps that change phase or ticker;  *)
(* in every phase one of them is enabled, in "Running" once the            *)
(* transactions of the block, which are finitely many, have been run.      *)
Progress ==
  /\ process = "Up" /\ process' = "Up"
  /\ phase # "Idle" \/ ticker = "Alive"
  /\ phase' \in Phases /\ ticker' \in {"Alive", "Dead"}
Fairness == WF_<<phase, ticker>>(Progress)

Spec == Init /\ [][Next]_vars /\ Fairness

-----------------------------------------------------------------------------
(* Properties.                                                             *)

TypeOK ==
  /\ process \in {"Down", "Up", "Broken"}
  /\ mempool \in {"Alive", "Dead"} /\ ticker \in {"Alive", "Dead"}
  /\ phase \in Phases
  /\ tx_queue \in Seq(Tx) /\ in_queue \subseteq Tx
  /\ DOMAIN tx_cache \subseteq Tx
  /\ tree \subseteq DOMAIN worlds
  /\ starts \in 0 .. MaxStarts

(* Once there is anything in the database, its index is an unbroken line   *)
(* from the genesis block, numbered without gaps, every block of which is  *)
(* stored with its outcome and a state that can be read: at whichever      *)
(* write the process ended, it starts again and can serve (the unwraps of  *)
(* demo.rs:460 and 516, TrieDB::new in merkle.rs:361).                     *)
DurableChain ==
  db # Empty =>
    /\ Loadable
    /\ \A i \in 1 .. db[IndexKey(0)] :
         /\ Loaded[i].number = i - 1
         /\ i > 1 => Loaded[i].parent = Loaded[i - 1]
         /\ HasState(Loaded[i])
    /\ process # "Broken"

(* The canonical chain in the database only grows: neither restarts nor    *)
(* blocks that were written but not indexed ever change what was final.    *)
ChainOnlyGrows ==
  [][db # Empty =>
       \A i \in 1 .. db[IndexKey(0)] :
         /\ IndexKey(i) \in DOMAIN db' /\ db'[IndexKey(0)] >= i
         /\ db'[IndexKey(i)] = db[IndexKey(i)]]_vars

(* Whoever asks for the state at any block gets what the transactions up   *)
(* to it made of it, though states share nodes, counts are read past the   *)
(* pending batch, and fields are filled in from older states.              *)
StatesReadBack ==
  \A i \in DOMAIN indexed : \A a \in Acct : \A f \in Scalar \cup Key :
    Query(i - 1, a, f) = worlds[indexed[i]][a][f]

(* A transaction is on the canonical chain once for every start of the     *)
(* process at most: in_queue, though never persisted, keeps it from being  *)
(* executed twice meanwhile (nonces are not checked).                      *)
Occurrences(t) ==
  {p \in (DOMAIN indexed) \X (1 .. MaxBlockTxs) :
     p[2] <= Len(indexed[p[1]].txs) /\ indexed[p[1]].txs[p[2]] = t}
OncePerStart == \A t \in Tx : Cardinality(Occurrences(t)) <= starts

(* A cached position is on the canonical chain and is that transaction's;  *)
(* when all before it in the block and itself succeeded, the receipt found *)
(* there is its own, whatever became of those after it (demo.rs:694).      *)
CachedTxIsCanonical ==
  \A t \in DOMAIN tx_cache :
    LET c == tx_cache[t] IN
    /\ \E i \in DOMAIN indexed : indexed[i] = c.block
    /\ c.block.txs[c.idx] = t
    /\ 1 .. c.idx \subseteq Outcome(t).succeeded => HasReceipt(t) /\ Receipt(t) = t

(* Again and again every transaction the mempool has taken is on the       *)
(* canonical chain, so none is forgotten, unless the process ends or       *)
(* blocks are no longer produced because something panicked (main).        *)
OnChain(t) == \E i \in DOMAIN indexed : \E n \in DOMAIN indexed[i].txs : indexed[i].txs[n] = t
Included == []<>((\A t \in in_queue : OnChain(t)) \/ process # "Up" \/ ticker = "Dead")
=============================================================================
