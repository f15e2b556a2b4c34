----------------------------- MODULE MerkleStore ----------------------------
(***************************************************************************)
(* The store of world states (tools/src/merkle.rs): a key-value database   *)
(* that holds the nodes of Merkle tries under their hashes, with a count   *)
(* each, and a batch of writes that nobody can read until it is written in *)
(* one atomic step.  The rest of a node keeps its own records in the same  *)
(* database and the same batch.                                            *)
(*                                                                         *)
(* A trie (crate trie_db) is one node here, and a hash is what it is the   *)
(* hash of: a record of the mapping, so equal contents have equal hashes.  *)
(***************************************************************************)
EXTENDS Naturals, FiniteSets

CONSTANTS
  Acct,       \* addresses of accounts
  Scalar,     \* balance, nonce, code: the fields AccountState has beside the root
  Key         \* storage keys

ASSUME StoreAssumption == Scalar \cap Key = {}

VARIABLES
  db,   \* the database: a function on the keys that are present
  wb    \* the current write batch: what it will put

(* Functions as finite maps: the one on no keys, the one on a single key,  *)
(* and f with, for the keys it does not have, those of g.                  *)
Empty    == <<>>
At(k, v) == [x \in {k} |-> v]
f ++ g   == [x \in DOMAIN f \cup DOMAIN g |-> IF x \in DOMAIN f THEN f[x] ELSE g[x]]

HashOf(m) == [trie |-> m]
ZeroHash  == [zero |-> TRUE]  \* Hash::zero(): the root of no trie, the hash of no block
NullNode  == HashOf(Empty)   \* null_node_hash

-----------------------------------------------------------------------------
(* ReadWriteDB as a HashDB.                                                *)

Cnt(h) == IF <<"cnt", h>> \in DOMAIN db THEN db[<<"cnt", h>>] ELSE 0

(* contains; get finds the data of exactly these nodes. *)
Contains(h) == h = NullNode \/ (Cnt(h) > 0 /\ <<"data", h>> \in DOMAIN db)

NodeData(h) == IF h = NullNode THEN Empty ELSE db[<<"data", h>>]

(* emplace of every node of S.  The count is read from the database, not   *)
(* from the batch, so that a node that the batch has already is not        *)
(* counted twice.                                                          *)
Emplaced(S) ==
  LET made == S \ {NullNode}
  IN  [k \in {"cnt"} \X made |-> Cnt(k[2]) + 1] ++
      [k \in {"data"} \X {h \in made : Cnt(h) <= 0} |-> k[2].trie]

(* remove does nothing: older tries keep their nodes. *)
RemovedForReal(S) == [k \in {"cnt"} \X (S \ {NullNode}) |-> Cnt(k[2]) - 1]   \* mutant
Removed(S) == Empty

-----------------------------------------------------------------------------
(* MerkleDBInner::get and MerkleDBReader.                                  *)

Has(root, k) == root # ZeroHash /\ Contains(root) /\ k \in DOMAIN NodeData(root)

(* The field f of account a in the state with this root; 0 where there is  *)
(* nothing.  Storage keys are looked up in the trie of the account, under  *)
(* the address and the key.                                                *)
Get(root, a, f) ==
  IF ~Has(root, a) THEN 0
  ELSE LET acc == NodeData(root)[a]
       IN  IF f \in Scalar THEN acc.scalars[f]
           ELSE IF Has(acc.root, <<a, f>>) THEN NodeData(acc.root)[<<a, f>>] ELSE 0

(* get_account_root. *)
AccountRoot(root, a) ==
  IF Has(root, a) THEN NodeData(root)[a].root ELSE ZeroHash

(* The world state a reader sees. *)
ReadAll(root) == [a \in Acct |-> [f \in Scalar \cup Key |-> Get(root, a, f)]]

-----------------------------------------------------------------------------
(* WorldStateStore::commit.  A delta is a function on the accounts it      *)
(* touches, each a function on the fields and keys that were written; what *)
(* it deletes is ignored, and so are its logs.                             *)

StorageTrie(old) == IF old = ZeroHash THEN Empty ELSE NodeData(old)

NewAccountRoot(root, a, written) ==
  HashOf([p \in {<<a, k>> : k \in DOMAIN written \cap Key} |-> written[p[2]]] ++
         StorageTrie(AccountRoot(root, a)))

(* Fields the delta lacks come from the reader. *)
NewAccountBlank(root, a, written) ==     \* mutant: they start afresh
  [scalars |-> [f \in Scalar |-> IF f \in DOMAIN written THEN written[f] ELSE 0],
   root    |-> NewAccountRoot(root, a, written)]
NewAccount(root, a, written) ==
  [scalars |-> [f \in Scalar |->
                  IF f \in DOMAIN written THEN written[f] ELSE Get(root, a, f)],
   root    |-> NewAccountRoot(root, a, written)]

NewRoot(root, delta) ==
  LET written == DOMAIN delta
  IN  HashOf([a \in written |-> NewAccount(root, a, delta[a])] ++ StorageTrie(root))

(* The nodes it makes, and those they replace. *)
Tries(root, newRoot, delta) ==
  {<<root, newRoot>>} \cup
  {<<AccountRoot(root, a), newRoot.trie[a].root>> : a \in DOMAIN delta}
Fresh(tries)    == {t[2] : t \in {t \in tries : t[1] # t[2]}}
Replaced(tries) == {t[1] : t \in {t \in tries : t[1] # t[2]}} \ {ZeroHash}

(* from_existing(...).unwrap(): the tries it starts from are there. *)
CanCommit(root, delta) ==
  \A h \in {root} \cup {AccountRoot(root, a) : a \in DOMAIN delta} :
    h = ZeroHash \/ Contains(h)

(* What the batch is afterwards. *)
Committed(root, delta) ==
  LET tries == Tries(root, NewRoot(root, delta), delta)
  IN  Emplaced(Fresh(tries)) ++ Removed(Replaced(tries)) ++ wb

(* commit_writebatch, after `puts` went into the batch. *)
CommitWritebatch(puts) == db' = puts ++ wb ++ db /\ wb' = Empty
=============================================================================
